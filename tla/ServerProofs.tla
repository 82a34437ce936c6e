---------------------------- MODULE ServerProofs ----------------------------
(***************************************************************************)
(* The table and the listeners of EthernetServer, and of OutgoingClient,   *)
(* where a Client shares the pool with the servers, for any number of      *)
(* servers and sockets, and any amount of data.                            *)
(*                                                                         *)
(* The invariants do not say which places the thread may be in, so that a  *)
(* sketch that does more than serve can keep them, too.  As long as clean  *)
(* holds, what is proved of servers alone holds in the composition: steps  *)
(* of the servers and of the network are covered by the same lemmas.       *)
(***************************************************************************)
EXTENDS OutgoingClient, TLAPS

\* TypeOK without the place of the thread.
Ranges ==
  /\ sr \in [Sock -> Status]
  /\ rx \in [Sock -> 0 .. MaxRx]
  /\ lport \in [Sock -> Server \cup {NoServer}]
  /\ serverPort \in [Sock -> Server \cup {NoServer}]
  /\ me \in Server
  /\ sock \in 0 .. MaxSock
  /\ listening \in BOOLEAN
  /\ back \in {"setup", "find", "write"}
  /\ client \in Sock

\* Behind a look at a socket, the loop has not come to its end.
AtSocket ==
  at \in {"record", "accept_status", "accept_avail", "accept_wait", "find_avail",
          "write_room", "write_full", "write_free"}
    => sock \in Sock

\* setup() does nothing but begin the servers in turn: none ahead has a socket yet.
InSetup ==
  /\ at \notin {"begin", "record"} => back # "setup"
  /\ back = "setup" => \A s \in Sock : sr[s] # "CLOSED" => lport[s] <= me

Listens(s, server) == sr[s] = "LISTEN" /\ lport[s] = server

\* The socket of begin() is one for me, until it closes again.
Opened == (at = "record" /\ sr[sock] # "CLOSED") => lport[sock] = me

\* Where accept() has seen no listener there is none: none comes up behind its back.
NotSeen ==
  /\ (at \in {"accept", "accept_status", "accept_avail", "accept_wait"} /\ ~listening)
       => \A s \in Sock : s < sock => ~Listens(s, me)
  /\ at \in {"accept_status", "accept_avail", "accept_wait"} => sr[sock] # "LISTEN"
  /\ at = "begin" => \A s \in Sock : ~Listens(s, me)

TableInv == /\ Ranges /\ AtSocket /\ InSetup /\ Opened /\ NotSeen
            /\ OneListener /\ TableTrue

-----------------------------------------------------------------------------
(* What the steps do to the registers. *)

\* The network opens no socket, and makes none listen.
LEMMA NetworkOpensNothing ==
  ASSUME NEW status \in Status, NEW next \in Status, << status, next >> \in NetStep
  PROVE  status # "CLOSED" /\ next # "LISTEN"
BY DEF NetStep, Status

\* The counter of a loop over the sockets is one of them until the loop ends, at MaxSock.
LEMMA SockRange ==
  /\ 0 \in Sock /\ 0 \in 0 .. MaxSock
  /\ \A s \in 0 .. MaxSock : s < MaxSock <=> s \in Sock
  /\ \A s \in Sock : s + 1 \in 0 .. MaxSock
BY MaxSockAssumption DEF Sock

\* Nothing is received, and the first server is one.
LEMMA NumberRange == 0 \in 0 .. MaxRx /\ 1 \in Server /\ NoServer \notin Server
BY ServerAssumption DEF Server, NoServer

\* At first nothing is open and nothing is in the table.
LEMMA InitHolds == Init => TableInv
<1> SUFFICES ASSUME Init
             PROVE  TableInv
  OBVIOUS
<1>1. Ranges
  BY SockRange, NumberRange DEF Init, Ranges, Status
<1>2. at = "begin" /\ \A s \in Sock : sr[s] = "CLOSED"
  BY DEF Init
<1> QED
  BY <1>1, <1>2 DEF TableInv, AtSocket, InSetup, Opened, NotSeen, Listens, OneListener,
                    TableTrue

\* A step of the network keeps the invariant.
LEMMA NetworkKeeps == TableInv /\ Network => TableInv'
<1> SUFFICES ASSUME TableInv, NEW s \in Sock, Move(s) \/ Drop(s) \/ Arrive(s)
             PROVE  TableInv'
  BY DEF Network
<1> USE DEF TableInv
<1>1. CASE Move(s)
  <2> PICK next \in Status \ {"CLOSED"} :
        << sr[s], next >> \in NetStep /\ sr' = [sr EXCEPT ![s] = next]
    BY <1>1 DEF Move
  <2>1. sr[s] # "CLOSED" /\ next # "LISTEN"
    BY NetworkOpensNothing DEF Ranges
  <2>2. UNCHANGED << rx, lport, serverPort, thread >>
    BY <1>1 DEF Move
  <2>3. Ranges'
    BY <2>2 DEF Ranges, thread
  <2> QED
    BY <2>1, <2>2, <2>3
       DEF Ranges, thread, AtSocket, InSetup, Opened, NotSeen, Listens, OneListener,
           TableTrue, InHand
<1>2. CASE Drop(s)
  <2>1. Ranges'
    BY <1>2, ServerAssumption DEF Drop, Close, Ranges, thread, Status
  <2> QED
    BY <1>2, <2>1
       DEF Drop, Close, Ranges, thread, AtSocket, InSetup, Opened, NotSeen, Listens,
           OneListener, TableTrue, InHand
<1>3. CASE Arrive(s)
  <2>1. Ranges'
    BY <1>3, ServerAssumption DEF Arrive, Ranges, thread
  <2> QED
    BY <1>3, <2>1
       DEF Arrive, Ranges, thread, AtSocket, InSetup, Opened, NotSeen, Listens,
           OneListener, TableTrue, InHand
<1> QED
  BY <1>1, <1>2, <1>3

-----------------------------------------------------------------------------
(* Steps of the thread that touch neither registers nor table. *)

\* The thread moves on and changes nothing else.
LEMMA LookKeeps ==
  ASSUME TableInv, UNCHANGED << net, serverPort >>,
         \/ /\ at = "accept" /\ sock < MaxSock /\ NextSock("accept")
            /\ ~Listens(sock, me)
         \/ /\ at = "accept" /\ sock < MaxSock /\ Goto("accept_status")
            /\ sr[sock] # "LISTEN"
         \/ at = "accept_status" /\ (Goto("accept_avail") \/ NextSock("accept"))
         \/ at = "accept_avail" /\ NextSock("accept")
         \/ at = "begin" /\ sock < MaxSock /\ NextSock("begin")
         \/ at = "find" /\ sock < MaxSock /\ (NextSock("find") \/ Goto("find_avail"))
         \/ at = "find_avail" /\ NextSock("find")
         \/ at = "write" /\ sock < MaxSock /\ (NextSock("write") \/ Goto("write_room"))
         \/ at = "write_room" /\ (Goto("write_full") \/ Goto("write_free"))
         \/ at = "write_full" /\ (Goto("write_room") \/ NextSock("write"))
         \/ at = "write_free" /\ NextSock("write")
         \/ at = "write" /\ Goto("done")
         \/ at = "given" /\ Goto("read")
         \/ at = "read" /\ Goto("done")
  PROVE  TableInv'
<1> USE DEF TableInv
<1>1. Ranges'
  BY MaxSockAssumption DEF Ranges, Goto, NextSock, net, AtSocket, Sock
<1> QED
  BY <1>1, MaxSockAssumption
     DEF Ranges, net, Goto, NextSock, AtSocket, InSetup, Opened, NotSeen, Listens,
         OneListener, TableTrue, InHand, Sock

\* The sketch's round ends, or accept() begins: nothing is known, and nothing needed.
LEMMA RoundKeeps ==
  ASSUME TableInv, UNCHANGED << net, serverPort >>,
         at \in {"find", "given", "done", "loop", "read"},
         GotoLoop \/ \E server \in Server, place \in {"find", "write"} :
                       CallAccept(server, place)
  PROVE  TableInv'
<1> USE DEF TableInv
<1>1. Ranges'
  BY SockRange DEF Ranges, GotoLoop, CallAccept, net
<1> QED
  BY <1>1, MaxSockAssumption
     DEF Ranges, net, GotoLoop, CallAccept, AtSocket, InSetup, Opened, NotSeen, Listens,
         OneListener, TableTrue, InHand, Sock

\* accept() or begin() returns, with or without a new entry in the table.
LEMMA ReturnKeeps ==
  ASSUME TableInv, Return, UNCHANGED net,
         \/ at \in {"accept", "begin"} /\ UNCHANGED serverPort
         \/ at = "record" /\ serverPort' = [serverPort EXCEPT ![sock] = me]
  PROVE  TableInv'
<1> USE DEF TableInv
<1>1. Ranges'
  <2>1. UNCHANGED << sr, rx, lport >>
    BY DEF net
  <2>2. serverPort' \in [Sock -> Server \cup {NoServer}]
    BY DEF Ranges
  <2>3. me' \in Server
    BY ServerAssumption DEF Ranges, Return, GotoLoop, FromFirst, Server
  <2>4. sock' \in 0 .. MaxSock /\ client' \in Sock
    BY SockRange DEF Ranges, Return, GotoLoop, FromFirst
  <2>5. listening' \in BOOLEAN /\ back' \in {"setup", "find", "write"}
    BY DEF Ranges, Return, GotoLoop, FromFirst
  <2> QED
    BY <2>1, <2>2, <2>3, <2>4, <2>5 DEF Ranges
<1>2. at' \in {"begin", "loop", "find", "write"}
  BY DEF Return, GotoLoop, FromFirst, Ranges
<1>3. AtSocket' /\ Opened' /\ OneListener'
  BY <1>2 DEF AtSocket, Opened, OneListener, net
<1>4. TableTrue'
  BY <1>2 DEF TableTrue, InHand, net, Opened, Ranges
<1>5. CASE back = "setup"
  <2>1. at' = "begin" => me' = me + 1 /\ back' = "setup"
    BY <1>5 DEF Return, GotoLoop
  <2>2. at' # "begin" => back' = "find"
    BY <1>5 DEF Return, GotoLoop
  <2>3. InSetup'
    BY <1>2, <1>5, <2>1, <2>2 DEF InSetup, net, Ranges, Server, NoServer
  <2>4. NotSeen'
    BY <1>2, <1>5, <2>1 DEF NotSeen, InSetup, Listens, net, Ranges, Server, NoServer
  <2> QED
    BY <1>1, <1>3, <1>4, <2>3, <2>4
<1>6. CASE back # "setup"
  BY <1>1, <1>3, <1>4, <1>6 DEF Return, FromFirst, InSetup, NotSeen, Ranges
<1> QED
  BY <1>5, <1>6

-----------------------------------------------------------------------------
(* Steps that open, stop and close sockets. *)

\* begin() opens a socket that was closed and makes it listen: for this server the only
\* one.
LEMMA OpenKeeps == TableInv /\ BeginListen => TableInv'
<1> SUFFICES ASSUME TableInv, BeginListen
             PROVE  TableInv'
  OBVIOUS
<1> USE DEF TableInv
<1>1. /\ sock \in Sock /\ at' = "record"
      /\ sr' = [sr EXCEPT ![sock] = "LISTEN"]
      /\ lport' = [lport EXCEPT ![sock] = me]
      /\ UNCHANGED << rx, serverPort, me, sock, listening, back, client >>
  <2>1. AfterCommand("LISTEN", OpenStatus("TCP")) = "LISTEN"
    BY DEF AfterCommand, OpenStatus
  <2> QED
    BY <2>1, SockRange DEF BeginListen, Goto, Ranges
<1>2. Ranges'
  BY <1>1 DEF Ranges, Status
<1>3. AtSocket' /\ Opened' /\ NotSeen'
  BY <1>1 DEF AtSocket, Opened, NotSeen, Ranges
<1>4. InSetup'
  BY <1>1 DEF BeginListen, InSetup, Ranges, Server
<1>5. OneListener'
  BY <1>1 DEF BeginListen, OneListener, NotSeen, Listens, Ranges
<1>6. TableTrue'
  BY <1>1 DEF BeginListen, TableTrue, InHand, Ranges
<1> QED
  BY <1>2, <1>3, <1>4, <1>5, <1>6

\* stop() clears the entry first; the socket is in hand until it is closed.
LEMMA StopKeeps ==
  ASSUME TableInv,
         \/ at = "accept_avail" /\ Stop(sock) /\ Goto("accept_wait")
         \/ at = "done" /\ Stop(client) /\ Goto("stop_wait")
  PROVE  TableInv'
<1> USE DEF TableInv
<1> PICK s \in Sock : /\ Stop(s)
                      /\ \/ at = "accept_avail" /\ s = sock /\ Goto("accept_wait")
                         \/ at = "done" /\ s = client /\ Goto("stop_wait")
  BY DEF AtSocket, Ranges
<1>1. PICK status \in Status : /\ sr' = [sr EXCEPT ![s] = status]
                               /\ status # "LISTEN" \/ status = sr[s]
                               /\ status # "CLOSED" \/ status = sr[s]
  BY DEF Stop, AfterCommand, Ranges, Status
<1>2. /\ serverPort' = [serverPort EXCEPT ![s] = NoServer]
      /\ UNCHANGED << rx, lport, me, sock, listening, back, client >>
      /\ at' = IF at = "done" THEN "stop_wait" ELSE "accept_wait"
  BY DEF Stop, Goto
<1>3. Ranges' /\ AtSocket' /\ Opened' /\ InSetup'
  BY <1>1, <1>2 DEF Ranges, AtSocket, Opened, InSetup
<1>4. NotSeen' /\ OneListener'
  BY <1>1, <1>2 DEF Ranges, NotSeen, Listens, OneListener
<1>5. TableTrue'
  BY <1>1, <1>2 DEF Ranges, TableTrue, InHand
<1> QED
  BY <1>3, <1>4, <1>5

\* stop() ends with the socket closed, and the thread goes on to the next or to loop().
LEMMA StopEndsKeeps ==
  ASSUME TableInv,
         \/ at = "accept_wait" /\ StopEnds(sock) /\ NextSock("accept")
         \/ at = "stop_wait" /\ StopEnds(client) /\ GotoLoop
  PROVE  TableInv'
<1> USE DEF TableInv
<1> PICK s \in Sock : /\ StopEnds(s)
                      /\ \/ at = "accept_wait" /\ s = sock /\ NextSock("accept")
                         \/ at = "stop_wait" /\ s = client /\ GotoLoop
  BY DEF AtSocket, Ranges
<1>1. /\ sr' = [sr EXCEPT ![s] = "CLOSED"]
      /\ rx' = [rx EXCEPT ![s] = 0]
      /\ lport' = [lport EXCEPT ![s] = NoServer]
      /\ UNCHANGED serverPort
  BY DEF StopEnds, Close
<1>2. Ranges'
  BY <1>1, SockRange, NumberRange DEF Ranges, NextSock, GotoLoop, Status, AtSocket
<1>3. AtSocket' /\ Opened' /\ InSetup' /\ OneListener'
  BY <1>1 DEF Ranges, AtSocket, Opened, InSetup, OneListener, NextSock, GotoLoop
<1>4. NotSeen'
  BY <1>1 DEF Ranges, NotSeen, Listens, NextSock, GotoLoop, Sock
<1>5. TableTrue'
  BY <1>1 DEF Ranges, TableTrue, InHand, NextSock, GotoLoop
<1> QED
  BY <1>2, <1>3, <1>4, <1>5

-----------------------------------------------------------------------------
\* Every step of the thread keeps the invariant.
LEMMA ThreadKeeps == TableInv /\ Thread => TableInv'
<1> SUFFICES ASSUME TableInv, Thread
             PROVE  TableInv'
  OBVIOUS
<1> USE DEF TableInv
<1>1. CASE BeginMiss
  BY <1>1, LookKeeps DEF BeginMiss
<1>2. CASE BeginListen
  BY <1>2, OpenKeeps
<1>3. CASE BeginFail
  BY <1>3, ReturnKeeps DEF BeginFail, net
<1>4. CASE BeginRecord
  BY <1>4, ReturnKeeps DEF BeginRecord
<1>5. CASE AcceptOther
  <2>1. ~Listens(sock, me)
    BY <1>5, SockRange DEF AcceptOther, Listens, TableTrue, InHand, Ranges
  <2> QED
    BY <1>5, <2>1, LookKeeps DEF AcceptOther
<1>6. CASE AcceptListening
  <2>1. Ranges'
    BY <1>6, SockRange DEF AcceptListening, Ranges, net
  <2> QED
    BY <1>6, <2>1
       DEF AcceptListening, Ranges, net, AtSocket, InSetup, Opened, NotSeen, Listens,
           OneListener, TableTrue, InHand
<1>7. CASE AcceptNotListening
  BY <1>7, LookKeeps DEF AcceptNotListening
<1>8. CASE AcceptStatus
  BY <1>8, LookKeeps DEF AcceptStatus
<1>9. CASE AcceptAvail
  BY <1>9, LookKeeps, StopKeeps DEF AcceptAvail
<1>10. CASE AcceptStopped
  BY <1>10, StopEndsKeeps DEF AcceptStopped
<1>11. CASE AcceptEnd
  <2>1. CASE listening
    BY <1>11, <2>1, ReturnKeeps DEF AcceptEnd
  <2>2. CASE ~listening
    <3>1. at' = "begin" /\ UNCHANGED << sr, rx, lport, serverPort, me, back, client >>
      BY <1>11, <2>2 DEF AcceptEnd, FromFirst, net
    <3>2. \A s \in Sock : ~Listens(s, me)
      BY <1>11, <2>2, MaxSockAssumption DEF AcceptEnd, NotSeen, Sock
    <3>3. Ranges'
      BY <1>11, <2>2, <3>1, SockRange DEF AcceptEnd, FromFirst, Ranges
    <3>4. AtSocket' /\ Opened' /\ InSetup' /\ OneListener'
      BY <1>11, <3>1 DEF AcceptEnd, AtSocket, Opened, InSetup, OneListener
    <3>5. NotSeen' /\ TableTrue'
      BY <1>11, <3>1, <3>2 DEF AcceptEnd, NotSeen, Listens, TableTrue, InHand
    <3> QED
      BY <3>3, <3>4, <3>5
  <2> QED
    BY <2>1, <2>2
<1>12. CASE FindOther \/ FindEstablished \/ FindNone
  BY <1>12, LookKeeps, RoundKeeps DEF FindOther, FindEstablished, FindNone
<1>13. CASE FindAvail
  <2>1. CASE Available(sock) = 0
    BY <1>13, <2>1, LookKeeps DEF FindAvail
  <2>2. CASE Available(sock) # 0
    <3>1. Ranges'
      BY <1>13, <2>2 DEF FindAvail, Ranges, net, AtSocket
    <3> QED
      BY <1>13, <2>2, <3>1
         DEF FindAvail, Ranges, net, AtSocket, InSetup, Opened, NotSeen, Listens,
             OneListener, TableTrue, InHand
  <2> QED
    BY <2>1, <2>2
<1>14. CASE WriteOther \/ WriteTo \/ WriteRoom \/ WriteFull \/ WriteFree \/ WriteEnd
  BY <1>14, LookKeeps DEF WriteOther, WriteTo, WriteRoom, WriteFull, WriteFree, WriteEnd
<1>15. CASE AskNext
  <2>1. (IF me < NumServers THEN me + 1 ELSE 1) \in Server
    BY ServerAssumption DEF Ranges, Server
  <2> QED
    BY <1>15, <2>1, RoundKeeps DEF AskNext
<1>16. CASE IfClient
  BY <1>16, LookKeeps, RoundKeeps DEF IfClient
<1>17. CASE ReadByte
  <2>1. rx' \in [Sock -> 0 .. MaxRx]
    BY <1>17, ServerAssumption DEF ReadByte, Ranges
  <2>2. Ranges'
    BY <1>17, <2>1, SockRange DEF ReadByte, Ranges, CallAccept, Goto
  <2> QED
    BY <1>17, <2>2, MaxSockAssumption
       DEF ReadByte, Ranges, CallAccept, Goto, AtSocket, InSetup, Opened, NotSeen,
           Listens, OneListener, TableTrue, InHand, Sock
<1>18. CASE GoOn
  BY <1>18, RoundKeeps DEF GoOn
<1>19. CASE StopClient
  BY <1>19, StopKeeps DEF StopClient
<1>20. CASE StopClientEnds
  BY <1>20, StopEndsKeeps DEF StopClientEnds
<1> QED
  BY <1>1, <1>2, <1>3, <1>4, <1>5, <1>6, <1>7, <1>8, <1>9, <1>10, <1>11, <1>12, <1>13,
     <1>14, <1>15, <1>16, <1>17, <1>18, <1>19, <1>20 DEF Thread, Begin, Accept, Sketch

\* The invariant does not look beyond the variables.
LEMMA StutterKeeps == TableInv /\ UNCHANGED vars => TableInv'
BY DEF vars, TableInv, Ranges, AtSocket, InSetup, Opened, NotSeen, Listens, OneListener,
       TableTrue, InHand

-----------------------------------------------------------------------------
(* Theorems. *)

\* The table and the listeners are in order at every moment, for any number of servers
\* and sockets.
THEOREM TableInvariant == Spec => []TableInv
<1>1. TableInv /\ [Next]_vars => TableInv'
  BY ThreadKeeps, NetworkKeeps, StutterKeeps DEF Next
<1> QED
  BY <1>1, InitHolds, PTL DEF Spec

\* Each server has at most one socket in LISTEN, between any two looks of accept()
\* (AServer.cpp:41-60).
THEOREM ListenersSingle == Spec => []OneListener
<1>1. TableInv => OneListener
  BY DEF TableInv
<1> QED
  BY <1>1, TableInvariant, PTL

\* _server_port names the server of every open socket, but for the one being begun or
\* stopped (AServer.cpp:29, AClient.cpp:83).
THEOREM TableIsTrue == Spec => []TableTrue
<1>1. TableInv => TableTrue
  BY DEF TableInv
<1> QED
  BY <1>1, TableInvariant, PTL

\* The places the thread goes to are those listed.
THEOREM ServerTypes == Spec => []TypeOK
<1>1. Init => at \in Place
  BY DEF Init, Place
<1>2. TableInv /\ at \in Place /\ [Next]_vars => (at \in Place)'
  <2> SUFFICES ASSUME TableInv, at \in Place, [Next]_vars
               PROVE  at' \in Place
    OBVIOUS
  <2>1. ASSUME Return
        PROVE  at' \in Place
    BY <2>1 DEF Return, GotoLoop, FromFirst, TableInv, Ranges, Place
  <2>2. CASE Begin
    BY <2>1, <2>2
       DEF Begin, BeginMiss, BeginListen, BeginFail, BeginRecord, Goto, NextSock, Place
  <2>3. CASE Accept
    BY <2>1, <2>3
       DEF Accept, AcceptOther, AcceptListening, AcceptNotListening, AcceptStatus,
           AcceptAvail, AcceptStopped, AcceptEnd, Goto, NextSock, FromFirst, Place
  <2>4. CASE Sketch
    BY <2>4
       DEF Sketch, FindOther, FindEstablished, FindAvail, FindNone,
           WriteOther, WriteTo, WriteRoom, WriteFull, WriteFree, WriteEnd, AskNext,
           IfClient, ReadByte, GoOn, StopClient, StopClientEnds, Goto, NextSock,
           GotoLoop, CallAccept, Place
  <2>5. CASE Network
    BY <2>5 DEF Network, Move, Drop, Arrive, thread
  <2> QED
    BY <2>2, <2>3, <2>4, <2>5 DEF Next, Thread, vars
<1>3. TableInv /\ at \in Place => TypeOK
  BY DEF TableInv, Ranges, TypeOK
<1> QED
  BY <1>1, <1>2, <1>3, TableInvariant, PTL DEF Spec

-----------------------------------------------------------------------------
(* A Client beside the servers. *)

\* While clean holds, the servers are as they are alone.
OutInv ==
  /\ clean \in BOOLEAN
  /\ clean => TableInv /\ out \in Sock \cup {NoSock}

\* connect() looks at the pool, comes to the end of it, or begins, and write() waits for
\* room: registers and table stay.
Searches == \/ CallConnect \/ ConnectMiss \/ ConnectFail \/ FirstLook \/ SecondLook
            \/ OutWrite \/ OutRoom \/ OutFull \/ OutFree

LEMMA SearchKeeps ==
  ASSUME TableInv, Searches
  PROVE  TableInv'
<1> USE DEF TableInv
<1> DEFINE Places == {"loop", "connect", "first_look", "second_look",
                      "out_room", "out_full", "out_free"}
<1>1. /\ UNCHANGED << sr, rx, lport, serverPort, me >>
      /\ at \in Places /\ at' \in Places
      /\ back' = back \/ back' = "find"
  BY DEF Searches, CallConnect, ConnectMiss, ConnectFail, FirstLook, SecondLook, OutWrite,
         OutRoom, OutFull, OutFree, FromFirst, NextSock, GotoLoop, Goto, net
<1>2. /\ sock' \in 0 .. MaxSock /\ client' \in Sock
      /\ listening' \in BOOLEAN
  BY SockRange DEF Searches, CallConnect, ConnectMiss, ConnectFail, FirstLook, SecondLook,
                   OutWrite, OutRoom, OutFull, OutFree, FromFirst, NextSock, GotoLoop,
                   Goto, Ranges
<1> QED
  BY <1>1, <1>2 DEF Ranges, AtSocket, InSetup, Opened, NotSeen, Listens, OneListener,
                    TableTrue, InHand

\* A socket opened by connect() has no entry in the table, unless a stale one is left.
LEMMA ConnectKeeps ==
  ASSUME TableInv, ConnectOpen, clean'
  PROVE  TableInv'
<1> USE DEF TableInv
<1>1. /\ sock \in Sock /\ sr[sock] = "CLOSED" /\ serverPort[sock] = NoServer
      /\ sr' = [sr EXCEPT ![sock] = "SYNSENT"]
      /\ lport' = [lport EXCEPT ![sock] = NoServer]
      /\ at = "connect" /\ at' = "first_look"
      /\ UNCHANGED << rx, serverPort, me, sock, listening, back, client >>
  <2>1. AfterCommand("CONNECT", OpenStatus("TCP")) = "SYNSENT"
    BY DEF AfterCommand, OpenStatus
  <2> QED
    BY <2>1, SockRange DEF ConnectOpen, Goto, Ranges
<1>2. Ranges'
  BY <1>1 DEF Ranges, Status
<1> QED
  BY <1>1, <1>2 DEF Ranges, AtSocket, InSetup, Opened, NotSeen, Listens, OneListener,
                    TableTrue, InHand

\* The Client reads and stops a socket that is its own, or nobody's.
LEMMA UseKeeps ==
  ASSUME TableInv, out \in Sock \cup {NoSock}, clean',
         OutRead \/ OutStop
  PROVE  TableInv'
<1> USE DEF TableInv
<1>1. out \in Sock /\ at = "loop" /\ (Own \/ sr[out] = "CLOSED")
  BY DEF OutRead, OutStop, Touches
<1>2. CASE OutRead
  <2>1. rx' \in [Sock -> 0 .. MaxRx]
    BY <1>1, <1>2, ServerAssumption DEF OutRead, Ranges
  <2> QED
    BY <1>1, <1>2, <2>1
       DEF OutRead, thread, Ranges, AtSocket, InSetup, Opened, NotSeen, Listens,
           OneListener, TableTrue, InHand
<1>3. CASE OutStop
  <2>1. PICK status \in Status : /\ sr' = [sr EXCEPT ![out] = status]
                                 /\ status # "LISTEN" \/ status = sr[out]
                                 /\ status # "CLOSED" \/ status = sr[out]
                                 /\ sr[out] # "CLOSED" \/ status = sr[out]
    BY <1>1, <1>3 DEF OutStop, Stop, AfterCommand, Ranges, Status
  <2>2. /\ serverPort' = [serverPort EXCEPT ![out] = NoServer]
        /\ UNCHANGED << rx, lport, me, sock, listening, back, client >>
        /\ at' = "out_wait"
    BY <1>3 DEF OutStop, Stop, Goto
  <2>3. Ranges' /\ AtSocket' /\ Opened' /\ InSetup'
    BY <1>1, <2>1, <2>2 DEF Ranges, AtSocket, Opened, InSetup
  <2>4. NotSeen' /\ OneListener'
    BY <1>1, <2>1, <2>2 DEF Ranges, NotSeen, OneListener
  <2>5. TableTrue'
    BY <1>1, <2>1, <2>2 DEF Ranges, TableTrue, InHand, Own
  <2> QED
    BY <2>3, <2>4, <2>5
<1> QED
  BY <1>2, <1>3

\* A socket that is closed disturbs nobody.
LEMMA ClosedKeeps ==
  ASSUME TableInv, out \in Sock \cup {NoSock}, OutStopEnds
  PROVE  TableInv'
<1> USE DEF TableInv
<1>1. /\ sr' = [sr EXCEPT ![out] = "CLOSED"]
      /\ rx' = [rx EXCEPT ![out] = 0]
      /\ lport' = [lport EXCEPT ![out] = NoServer]
      /\ UNCHANGED << serverPort, me >>
      /\ at' = "loop" /\ sock' = 0 /\ ~listening' /\ back' = "find" /\ client' = 0
      /\ listening' \in BOOLEAN /\ at = "out_wait"
  BY DEF OutStopEnds, StopEnds, Close, GotoLoop
<1>2. Ranges'
  BY <1>1, SockRange, NumberRange DEF Ranges, Status
<1> QED
  BY <1>1, <1>2 DEF Ranges, AtSocket, InSetup, Opened, NotSeen, Listens, OneListener,
                    TableTrue, InHand

\* Every step keeps it, by the lemmas of the server proofs where the server steps.
LEMMA OutInvStep == OutInv /\ [OutNext]_outVars => OutInv'
<1> SUFFICES ASSUME OutInv, [OutNext]_outVars
             PROVE  OutInv'
  OBVIOUS
<1> USE DEF OutInv
<1>1. CASE Client
  <2>1. CASE Searches
    <3>1. CASE OutWrite
      <4>1. clean' = (clean /\ (Own \/ sr[out] = "CLOSED")) /\ UNCHANGED out
        BY <3>1 DEF OutWrite, Touches
      <4>2. clean' \in BOOLEAN /\ (clean' => clean)
        BY <4>1, Zenon
      <4> QED
        BY <2>1, <4>1, <4>2, SearchKeeps
    <3>2. CASE ~OutWrite
      <4>1. UNCHANGED clean /\ out' \in {out, NoSock}
        BY <2>1, <3>2 DEF Searches, CallConnect, ConnectMiss, ConnectFail, FirstLook,
                          SecondLook, OutRoom, OutFull, OutFree
      <4> QED
        BY <2>1, <4>1, SearchKeeps
    <3> QED
      BY <3>1, <3>2
  <2>2. CASE ConnectOpen
    <3>1. clean' = (clean /\ serverPort[sock] = NoServer)
      BY <2>2 DEF ConnectOpen
    <3>2. clean' => TableInv'
      BY <2>2, <3>1, ConnectKeeps
    <3>3. clean' => out' \in Sock
      BY <2>2, <3>1, SockRange DEF ConnectOpen, TableInv, Ranges
    <3>4. clean' \in BOOLEAN
      BY <3>1, Zenon
    <3> QED
      BY <3>2, <3>3, <3>4
  <2>3. CASE OutRead \/ OutStop
    <3>1. clean' = (clean /\ (Own \/ sr[out] = "CLOSED")) /\ UNCHANGED out
      BY <2>3 DEF OutRead, OutStop, Touches
    <3>2. clean' => TableInv'
      BY <2>3, <3>1, UseKeeps
    <3>3. clean' \in BOOLEAN
      BY <3>1, Zenon
    <3> QED
      BY <3>1, <3>2, <3>3
  <2>4. CASE OutStopEnds
    <3>1. UNCHANGED clean /\ out' \in {out, NoSock}
      BY <2>4 DEF OutStopEnds
    <3> QED
      BY <2>4, <3>1, ClosedKeeps
  <2> QED
    BY <1>1, <2>1, <2>2, <2>3, <2>4 DEF Client, Searches
<1>2. CASE (Thread \/ Network) /\ UNCHANGED << out, clean >>
  BY <1>2, ThreadKeeps, NetworkKeeps
<1>3. CASE UNCHANGED outVars
  BY <1>3, StutterKeeps DEF outVars
<1> QED
  BY <1>1, <1>2, <1>3 DEF OutNext, Servers

-----------------------------------------------------------------------------
(* Theorem. *)

\* Beside a Client, every server has at most one listener and the table is true, until
\* connect() takes a socket with a stale entry or the Client uses a stale number
\* (AClient.cpp:25, :79): no other meeting of the two does harm.
THEOREM CleanMeansSound == OutSpec => []CleanIsSound
<1>1. OutInit => OutInv
  BY InitHolds DEF OutInit, OutInv
<1>2. OutInv => CleanIsSound
  BY DEF OutInv, TableInv, CleanIsSound
<1> QED
  BY <1>1, <1>2, OutInvStep, PTL DEF OutSpec
=============================================================================
