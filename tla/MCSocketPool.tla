---------------------------- MODULE MCSocketPool ----------------------------
(***************************************************************************)
(* SocketPool for TLC: two or three handles compete for two sockets.       *)
(***************************************************************************)
EXTENDS SocketPool, TLC

CONSTANTS h1, h2, h3

TwoHandles == {h1, h2}
ThreeHandles == {h1, h2, h3}

\* The handles are interchangeable.  No run checks liveness, so TLC may take states that
\* differ only in the names of the handles for one.
HandleSymmetry == Permutations(Handle)

\* "OTHER" stands for a mode that init() does not know.
AllProtocols == {"TCP", "UDP", "OTHER"}
TcpOnly == {"TCP"}

AllRules == {"reinit_closed", "await_send"}
=============================================================================
