--------------------------- MODULE OutgoingClient ---------------------------
(***************************************************************************)
(* A sketch that has a Client of its own beside its servers: connect(),    *)
(* read(), connected() and stop() of Ethernet/AClient.cpp composed with    *)
(* EthernetServer, on one pool of sockets and one table _server_port.      *)
(*                                                                         *)
(* The two know nothing of each other.  connect() does not write the table *)
(* and may take a socket whose entry is left from a server; stop() does,   *)
(* with whatever number the Client still holds, and servers may have taken *)
(* that socket since its connection was closed by the peer.  clean records *)
(* that neither has happened.                                              *)
(*                                                                         *)
(* The sketch keeps its connection over any number of rounds of loop(),    *)
(* and calls connect() again only after stop(), or when the connection has *)
(* closed by itself.                                                       *)
(***************************************************************************)
EXTENDS EthernetServer

VARIABLES
  out,          \* _sock of the Client; MaxSock for 255
  clean         \* history: no stale entry or number has been used

outVars == << vars, out, clean >>

NoSock == MaxSock

\* Has the Client a connection, and not just the number of a socket?
Own == out # NoSock /\ sr[out] # "CLOSED" /\ lport[out] = NoServer

OutInit == Init /\ out = NoSock /\ clean = TRUE

-----------------------------------------------------------------------------
(* connect(). *)

\* A sketch with a client calls it from loop().
CallConnect ==
  /\ at = "loop" /\ ~Own
  /\ FromFirst("connect")
  /\ out' = NoSock
  /\ UNCHANGED << net, serverPort, clean >>

\* init() looks for a closed socket,
ConnectMiss ==
  /\ at = "connect" /\ sock < MaxSock
  /\ sr[sock] # "CLOSED"
  /\ NextSock("connect")
  /\ UNCHANGED << net, serverPort, out, clean >>

\* finds none,
ConnectFail ==
  /\ at = "connect" /\ sock = MaxSock
  /\ GotoLoop
  /\ UNCHANGED << net, serverPort, out, clean >>

\* or opens it and commands CONNECT; the table is not told.
ConnectOpen ==
  /\ at = "connect" /\ sock < MaxSock
  /\ sr[sock] = "CLOSED"
  /\ sr' = [sr EXCEPT ![sock] = AfterCommand("CONNECT", OpenStatus("TCP"))]
  /\ lport' = [lport EXCEPT ![sock] = NoServer]
  /\ out' = sock
  /\ clean' = (clean /\ serverPort[sock] = NoServer)
  /\ Goto("first_look")
  /\ UNCHANGED << rx, serverPort >>

\* while (status() != SOCK_ESTABLISHED)
FirstLook ==
  /\ at = "first_look"
  /\ IF sr[out] = "ESTABLISHED" THEN GotoLoop ELSE Goto("second_look")
  /\ UNCHANGED << net, serverPort, out, clean >>

\* Mutant: only the connection coming up ends the loop.
SecondLook_NoExit ==
  /\ at = "second_look"
  /\ Goto("first_look") /\ UNCHANGED out
  /\ UNCHANGED << net, serverPort, clean >>

\* if (status() == SOCK_CLOSED): close() gives the number up, and connect() fails.
SecondLook ==
  /\ at = "second_look"
  /\ IF sr[out] = "CLOSED" THEN GotoLoop /\ out' = NoSock
                           ELSE Goto("first_look") /\ UNCHANGED out
  /\ UNCHANGED << net, serverPort, clean >>

-----------------------------------------------------------------------------
(* The connection is used, and stopped. *)

\* Is the socket the Client names its own, or at least nobody's?
Touches == clean' = (clean /\ (Own \/ sr[out] = "CLOSED"))

\* read() takes a byte, or flush() all.
OutRead ==
  /\ at = "loop" /\ out # NoSock
  /\ rx[out] > 0
  /\ \E n \in {0, rx[out] - 1} : rx' = [rx EXCEPT ![out] = n]
  /\ Touches
  /\ UNCHANGED << sr, lport, serverPort, thread, out >>

\* write() waits for room as that of a server does,
OutWrite ==
  /\ at = "loop" /\ out # NoSock
  /\ sr[out] # "CLOSED"
  /\ Touches
  /\ Goto("out_room")
  /\ UNCHANGED << net, serverPort, out >>

OutRoom ==
  /\ at = "out_room"
  /\ Goto("out_full") \/ Goto("out_free")
  /\ UNCHANGED << net, serverPort, out, clean >>

OutFull ==
  /\ at = "out_full"
  /\ IF sr[out] \in Connected THEN Goto("out_room") ELSE GotoLoop
  /\ UNCHANGED << net, serverPort, out, clean >>

OutFree ==
  /\ at = "out_free"
  /\ GotoLoop
  /\ UNCHANGED << net, serverPort, out, clean >>

OutStop ==
  /\ at = "loop" /\ out # NoSock
  /\ Stop(out)
  /\ Touches
  /\ Goto("out_wait")
  /\ UNCHANGED out

\* stop() ends.  Only close() makes the Client forget its number: if the socket has closed
\* by itself, it keeps it.
OutStopEnds ==
  /\ at = "out_wait"
  /\ StopEnds(out)
  /\ out' = IF sr[out] = "CLOSED" THEN out ELSE NoSock
  /\ GotoLoop
  /\ UNCHANGED clean

Client == \/ CallConnect \/ ConnectMiss \/ ConnectFail \/ ConnectOpen
          \/ FirstLook \/ SecondLook
          \/ OutRead \/ OutWrite \/ OutRoom \/ OutFull \/ OutFree
          \/ OutStop \/ OutStopEnds

-----------------------------------------------------------------------------
Servers == Thread /\ UNCHANGED << out, clean >>

OutNext == Client \/ Servers \/ (Network /\ UNCHANGED << out, clean >>)

\* An attempt to connect comes to an end: an answer, or the retries of the chip run out.
Resolve == /\ \E s \in Sock : sr[s] = "SYNSENT" /\ (Move(s) \/ Drop(s))
           /\ UNCHANGED << out, clean >>

\* The thread runs, and after any number of rounds asks its servers again.
OutSpec ==
  /\ OutInit /\ [][OutNext]_outVars
  /\ WF_outVars(Client \/ Servers) /\ SF_outVars(AskNext /\ UNCHANGED << out, clean >>)
  /\ WF_outVars(Resolve)

-----------------------------------------------------------------------------
(* Properties. *)

\* The table and the listeners are in order as long as no stale entry was taken over by
\* connect() and no stale number was used (AClient.cpp:25, :79): a Client and servers
\* come into conflict in no other way, whatever they do between two looks at the pool.
CleanIsSound == clean => OneListener /\ TableTrue

\* Where the sketch may wait for ever: in connect(), which waits for ESTABLISHED or CLOSED
\* and gets neither when the peer has accepted and closed between two looks
\* (AClient.cpp:31), and in write(), of a server or of the Client, as long as the
\* connection stays and no look finds room (ASocket.cpp:217-225).
ConnectHangs == at \in {"first_look", "second_look"} /\ sr[out] = "CLOSE_WAIT"
RoomHangs == \/ at \in {"write_room", "write_full"} /\ sr[sock] \in Connected
             \/ at \in {"out_room", "out_full"} /\ sr[out] \in Connected

\* loop() comes round again and again, or the sketch hangs in one of these ways and no
\* other: every other wait ends whatever the network does, if attempts to connect do.
LoopGoesOn == []<>(at = "loop") \/ <>[]ConnectHangs \/ <>[]RoomHangs

\* Servers keep coming back to LISTEN beside an outgoing connection, unless stale state
\* stops them or the sketch hangs: nothing is assumed of what peers take.
ServersStillListen ==
  ListensAgain \/ <>[]ConnectHangs \/ <>[]RoomHangs \/ <>~clean
=============================================================================
