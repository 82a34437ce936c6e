--------------------------- MODULE InboundStream ---------------------------
(***************************************************************************)
(* What the receive side of a socket promises: bytes are handed to the     *)
(* reader in the order they arrived, each once, none altered, none         *)
(* invented; a call takes as many as it asks for, and none is lost but     *)
(* with the connection.                                                    *)
(***************************************************************************)
EXTENDS SequencesExt

VARIABLES
  queue,     \* arrived and not read
  asked,     \* how many bytes the call under way reads or skips
  got        \* what it hands to its caller

Init == queue = << >> /\ asked = 0 /\ got = << >>

\* Something arrives behind what is there.
Arrive ==
  /\ IsStrictPrefix(queue, queue')
  /\ UNCHANGED << asked, got >>

Take(n) ==
  /\ asked = 0 /\ asked' = n
  /\ queue' = SubSeq(queue, n + 1, Len(queue))

Read == \E n \in 1 .. Len(queue) : Take(n) /\ got' = SubSeq(queue, 1, n)

Skip == \E n \in 1 .. Len(queue) : Take(n) /\ got' = << >>

\* The call returns.
Return == asked' = 0 /\ got' = << >> /\ UNCHANGED queue

\* The socket is closed, or opened anew: what was not read is gone.
Lose == queue' = << >> /\ UNCHANGED << asked, got >>

Next == Arrive \/ Read \/ Skip \/ Return \/ Lose

Spec == Init /\ [][Next]_<< queue, asked, got >>
=============================================================================
