--------------------------- MODULE EthernetServer ---------------------------
(***************************************************************************)
(* A sketch with Server objects: Ethernet/AServer.cpp, the part of         *)
(* AClient.cpp it uses, and the table _server_port of AEthernet.cpp.       *)
(*                                                                         *)
(* A server has no thread: available() and write() begin with accept(),    *)
(* which goes over the sockets, stops connections the peer is done with,   *)
(* and puts a fresh socket into LISTEN when it has seen none there.  All   *)
(* a Server knows of its connections is the table (which port was a socket *)
(* opened for?) and the status registers, read one at a time while the     *)
(* network moves them.                                                     *)
(*                                                                         *)
(* The sketch is one thread that asks its servers in turn (a server is     *)
(* named by its place in that order), reads a byte of the client it is     *)
(* given, and then writes it to all clients, stops the client, or goes on. *)
(*                                                                         *)
(* init() of ASocket closes and opens a socket it has found closed:        *)
(* nothing can happen to it in between (SocketPool!OpenOnlyClosed), so     *)
(* that is one step here.  The number of bytes received is read in one     *)
(* step (RegRead16: a zero may be false, but only while bytes arrive, and  *)
(* available() is asked again in the next round).                          *)
(*                                                                         *)
(* client.write() of ASocket waits for room in the transmit ring, for ever *)
(* if the peer neither takes what it was sent nor lets the connection end. *)
(* Whether there is room is up to the peer and is not kept: at each look   *)
(* at Sn_TX_FSR there may be or not.                                       *)
(***************************************************************************)
EXTENDS W5100Status, Sequences

CONSTANTS
  NumServers,     \* the servers of the sketch, each with a port of its own
  MaxRx           \* bound: unread bytes of one socket

ASSUME ServerAssumption ==
  /\ NumServers \in Nat \ {0}
  /\ MaxRx \in Nat \ {0}

Server == 1 .. NumServers
NoServer == 0

\* write() goes on in these statuses (ASocket.cpp:221).
Connected == {"ESTABLISHED", "CLOSE_WAIT"}

VARIABLES
  sr,           \* Sn_SR
  rx,           \* Sn_RX_RSR: bytes received and not read
  lport,        \* Sn_PORT: the server an open socket was opened for
  serverPort,   \* EthernetClass::_server_port
  at,           \* where the thread is
  me,           \* the server it works for
  sock,         \* the socket its loop has come to
  listening,    \* accept() has seen a socket in LISTEN
  back,         \* where accept() and begin() return to
  client        \* the socket of the client the sketch was given

net == << sr, rx, lport >>
thread == << at, me, sock, listening, back, client >>
vars == << sr, rx, lport, serverPort, at, me, sock, listening, back, client >>

Place == {"begin", "record", "accept", "accept_status", "accept_avail", "accept_wait",
          "find", "find_avail", "given", "read", "write", "write_room", "write_full",
          "write_free", "done", "stop_wait", "loop"}

TypeOK ==
  /\ sr \in [Sock -> Status]
  /\ rx \in [Sock -> 0 .. MaxRx]
  /\ lport \in [Sock -> Server \cup {NoServer}]
  /\ serverPort \in [Sock -> Server \cup {NoServer}]
  /\ at \in Place
  /\ me \in Server
  /\ sock \in 0 .. MaxSock
  /\ listening \in BOOLEAN
  /\ back \in {"setup", "find", "write"}
  /\ client \in Sock

\* setup() has brought the chip up and begins with the first server.
Init ==
  /\ sr = [s \in Sock |-> "CLOSED"]
  /\ rx = [s \in Sock |-> 0]
  /\ lport = [s \in Sock |-> NoServer]
  /\ serverPort = [s \in Sock |-> NoServer]
  /\ at = "begin"
  /\ me = 1
  /\ sock = 0
  /\ listening = FALSE
  /\ back = "setup"
  /\ client = 0

-----------------------------------------------------------------------------
(* Steps of the thread. *)

\* Socket s is closed; the registers it leaves behind are not looked at again.
Close(s) == /\ sr' = [sr EXCEPT ![s] = "CLOSED"]
            /\ rx' = [rx EXCEPT ![s] = 0]
            /\ lport' = [lport EXCEPT ![s] = NoServer]

\* Client::available() on a socket by number: 0 if it is closed.
Available(s) == rx[s]

Goto(place) == at' = place /\ UNCHANGED << me, sock, listening, back, client >>

\* The loop() of the sketch ends; its variables are gone.
GotoLoop == /\ at' = "loop" /\ sock' = 0 /\ listening' = FALSE
            /\ back' = "find" /\ client' = 0
            /\ UNCHANGED me

\* The loop over the sockets goes on at the next one.
NextSock(place) ==
  /\ at' = place
  /\ sock' = sock + 1
  /\ UNCHANGED << me, listening, back, client >>

\* A loop over the sockets starts.
FromFirst(place) ==
  /\ at' = place
  /\ sock' = 0
  /\ UNCHANGED << me, listening, back, client >>

\* accept() starts; it will return to place.
CallAccept(server, place) ==
  /\ at' = "accept"
  /\ me' = server
  /\ sock' = 0
  /\ listening' = FALSE
  /\ back' = place
  /\ UNCHANGED client

\* accept() or begin() returns; in setup() the next server begins.
Return ==
  IF back = "setup"
  THEN IF me < NumServers
       THEN /\ at' = "begin" /\ me' = me + 1 /\ sock' = 0
            /\ UNCHANGED << listening, back, client >>
       ELSE GotoLoop
  ELSE FromFirst(back)

\* Client::stop() on socket s: forget it, send a FIN, and wait for the status.
Stop(s) ==
  /\ serverPort' = [serverPort EXCEPT ![s] = NoServer]
  /\ sr' = [sr EXCEPT ![s] = AfterCommand("DISCON", @)]
  /\ UNCHANGED << rx, lport >>

\* Mutant: a connection that has not closed in time is left alone.
StopEnds_NoForce(s) == UNCHANGED << net, serverPort >>

\* stop() ends: the socket has closed, or a second has gone by and CLOSE is given.
StopEnds(s) == Close(s) /\ UNCHANGED serverPort

-----------------------------------------------------------------------------
(* Server::begin(). *)

BeginMiss ==
  /\ at = "begin" /\ sock < MaxSock
  /\ sr[sock] # "CLOSED"
  /\ NextSock("begin")
  /\ UNCHANGED << net, serverPort >>

\* initTCP(_port) finds a closed socket; listenTCP() follows at once: INIT stays INIT.
BeginListen ==
  /\ at = "begin" /\ sock < MaxSock
  /\ sr[sock] = "CLOSED"
  /\ sr' = [sr EXCEPT ![sock] = AfterCommand("LISTEN", OpenStatus("TCP"))]
  /\ lport' = [lport EXCEPT ![sock] = me]
  /\ Goto("record")
  /\ UNCHANGED << rx, serverPort >>

\* No socket to be had: begin() says nothing.
BeginFail ==
  /\ at = "begin" /\ sock = MaxSock
  /\ Return
  /\ UNCHANGED << net, serverPort >>

\* The socket is entered into the table.
BeginRecord ==
  /\ at = "record"
  /\ serverPort' = [serverPort EXCEPT ![sock] = me]
  /\ Return
  /\ UNCHANGED net

-----------------------------------------------------------------------------
(* Server::accept(). *)

AcceptOther ==
  /\ at = "accept" /\ sock < MaxSock
  /\ serverPort[sock] # me
  /\ NextSock("accept")
  /\ UNCHANGED << net, serverPort >>

\* The first look at the status finds LISTEN ...
AcceptListening ==
  /\ at = "accept" /\ sock < MaxSock
  /\ serverPort[sock] = me
  /\ sr[sock] = "LISTEN"
  /\ at' = "accept"
  /\ sock' = sock + 1
  /\ listening' = TRUE
  /\ UNCHANGED << net, serverPort, me, back, client >>

\* ... or not,
AcceptNotListening ==
  /\ at = "accept" /\ sock < MaxSock
  /\ serverPort[sock] = me
  /\ sr[sock] # "LISTEN"
  /\ Goto("accept_status")
  /\ UNCHANGED << net, serverPort >>

\* then a second look asks for CLOSE_WAIT,
AcceptStatus ==
  /\ at = "accept_status"
  /\ IF sr[sock] = "CLOSE_WAIT" THEN Goto("accept_avail") ELSE NextSock("accept")
  /\ UNCHANGED << net, serverPort >>

\* Mutant: the server stops only connections that have data left.
AcceptAvail_Reversed ==
  /\ at = "accept_avail"
  /\ IF Available(sock) # 0
     THEN Stop(sock) /\ Goto("accept_wait")
     ELSE NextSock("accept") /\ UNCHANGED << net, serverPort >>

\* and such a connection is stopped when nothing is left to read.
AcceptAvail ==
  /\ at = "accept_avail"
  /\ IF Available(sock) = 0
     THEN Stop(sock) /\ Goto("accept_wait")
     ELSE NextSock("accept") /\ UNCHANGED << net, serverPort >>

AcceptStopped ==
  /\ at = "accept_wait"
  /\ StopEnds(sock)
  /\ NextSock("accept")

\* Mutant: a new listener is begun in every round.
AcceptEnd_Always ==
  /\ at = "accept" /\ sock = MaxSock
  /\ FromFirst("begin")
  /\ UNCHANGED << net, serverPort >>

AcceptEnd ==
  /\ at = "accept" /\ sock = MaxSock
  /\ IF listening THEN Return ELSE FromFirst("begin")
  /\ UNCHANGED << net, serverPort >>

-----------------------------------------------------------------------------
(* Server::available(), after accept(). *)

FindOther ==
  /\ at = "find" /\ sock < MaxSock
  /\ ~(serverPort[sock] = me /\ sr[sock] = "ESTABLISHED")
  /\ NextSock("find")
  /\ UNCHANGED << net, serverPort >>

FindEstablished ==
  /\ at = "find" /\ sock < MaxSock
  /\ serverPort[sock] = me /\ sr[sock] = "ESTABLISHED"
  /\ Goto("find_avail")
  /\ UNCHANGED << net, serverPort >>

\* The client with the lowest number that has data is returned.
FindAvail ==
  /\ at = "find_avail"
  /\ IF Available(sock) # 0
     THEN /\ at' = "given"
          /\ client' = sock
          /\ UNCHANGED << me, sock, listening, back >>
     ELSE NextSock("find")
  /\ UNCHANGED << net, serverPort >>

\* Client(255), which is false.
FindNone ==
  /\ at = "find" /\ sock = MaxSock
  /\ GotoLoop
  /\ UNCHANGED << net, serverPort >>

-----------------------------------------------------------------------------
(* Server::write(), after accept(). *)

WriteOther ==
  /\ at = "write" /\ sock < MaxSock
  /\ ~(serverPort[sock] = me /\ sr[sock] = "ESTABLISHED")
  /\ NextSock("write")
  /\ UNCHANGED << net, serverPort >>

\* Every established client of this server is written to, one after the other.
WriteTo ==
  /\ at = "write" /\ sock < MaxSock
  /\ serverPort[sock] = me /\ sr[sock] = "ESTABLISHED"
  /\ Goto("write_room")
  /\ UNCHANGED << net, serverPort >>

\* ASocket::write() asks whether there is room,
WriteRoom ==
  /\ at = "write_room"
  /\ Goto("write_full") \/ Goto("write_free")
  /\ UNCHANGED << net, serverPort >>

\* Mutant: the loop asks for the free size alone.
WriteFull_NoStatus ==
  /\ at = "write_full"
  /\ Goto("write_room")
  /\ UNCHANGED << net, serverPort >>

\* then for the status: without room it asks again, as long as there is a connection.
WriteFull ==
  /\ at = "write_full"
  /\ IF sr[sock] \in Connected THEN Goto("write_room") ELSE NextSock("write")
  /\ UNCHANGED << net, serverPort >>

\* Else the bytes are copied and sent, if there still is a connection.
WriteFree ==
  /\ at = "write_free"
  /\ NextSock("write")
  /\ UNCHANGED << net, serverPort >>

WriteEnd ==
  /\ at = "write" /\ sock = MaxSock
  /\ Goto("done")
  /\ UNCHANGED << net, serverPort >>

-----------------------------------------------------------------------------
(* The sketch. *)

\* The next server in turn is asked for a client.
AskNext ==
  /\ at = "loop"
  /\ CallAccept(IF me < NumServers THEN me + 1 ELSE 1, "find")
  /\ UNCHANGED << net, serverPort >>

\* if (client): is it not closed by now?
IfClient ==
  /\ at = "given"
  /\ IF sr[client] = "CLOSED" THEN GotoLoop ELSE Goto("read")
  /\ UNCHANGED << net, serverPort >>

\* Mutant: read() does not ask available() first.
ReadByte_Unchecked ==
  /\ at = "read"
  /\ rx' = [rx EXCEPT ![client] = @ - 1]
  /\ CallAccept(me, "write") \/ Goto("done")
  /\ UNCHANGED << sr, lport, serverPort >>

\* client.read() takes a byte, or says -1 if the connection has closed meanwhile; the
\* sketch passes the answer to server.write(), or keeps it.
ReadByte ==
  /\ at = "read"
  /\ rx' = [rx EXCEPT ![client] = IF @ = 0 THEN 0 ELSE @ - 1]
  /\ CallAccept(me, "write") \/ Goto("done")
  /\ UNCHANGED << sr, lport, serverPort >>

\* The sketch is done with this round, or with the client, which it stops.
GoOn ==
  /\ at = "done"
  /\ GotoLoop
  /\ UNCHANGED << net, serverPort >>

StopClient ==
  /\ at = "done"
  /\ Stop(client)
  /\ Goto("stop_wait")

StopClientEnds ==
  /\ at = "stop_wait"
  /\ StopEnds(client)
  /\ GotoLoop

Begin == BeginMiss \/ BeginListen \/ BeginFail \/ BeginRecord

Accept == \/ AcceptOther \/ AcceptListening \/ AcceptNotListening \/ AcceptStatus
          \/ AcceptAvail \/ AcceptStopped \/ AcceptEnd

Sketch == \/ FindOther \/ FindEstablished \/ FindAvail \/ FindNone
          \/ WriteOther \/ WriteTo \/ WriteRoom \/ WriteFull \/ WriteFree \/ WriteEnd
          \/ AskNext \/ IfClient \/ ReadByte \/ GoOn \/ StopClient \/ StopClientEnds

Thread == Begin \/ Accept \/ Sketch

-----------------------------------------------------------------------------
(* The network. *)

Move(s) ==
  /\ \E status \in Status \ {"CLOSED"} :
        /\ << sr[s], status >> \in NetStep
        /\ sr' = [sr EXCEPT ![s] = status]
  /\ UNCHANGED << rx, lport, serverPort, thread >>

Drop(s) ==
  /\ << sr[s], "CLOSED" >> \in NetStep
  /\ Close(s)
  /\ UNCHANGED << serverPort, thread >>

Arrive(s) ==
  /\ sr[s] = "ESTABLISHED" /\ rx[s] < MaxRx
  /\ rx' = [rx EXCEPT ![s] = @ + 1]
  /\ UNCHANGED << sr, lport, serverPort, thread >>

Network == \E s \in Sock : Move(s) \/ Drop(s) \/ Arrive(s)

Next == Thread \/ Network

\* The thread runs; of the network nothing is asked, not even that a peer takes what it
\* is sent.
Spec == Init /\ [][Next]_vars /\ WF_vars(Thread)

-----------------------------------------------------------------------------
(* Properties. *)

\* The socket begin() or stop() is at work on.
InHand(s) == \/ at = "record" /\ s = sock
             \/ at = "accept_wait" /\ s = sock
             \/ at = "stop_wait" /\ s = client

\* At most one socket listens for each server, however connections come and go between
\* the looks accept() takes (AServer.cpp:41-60): two would take up the pool.
OneListener ==
  \A s, t \in Sock : (sr[s] = "LISTEN" /\ sr[t] = "LISTEN" /\ lport[s] = lport[t]) => s = t

\* The table says of every open socket which server it was opened for, so no connection
\* is lost to its server, and none is taken for another's.  Entries of closed sockets
\* are stale (nothing clears them when the peer closes), and are overwritten in time.
TableTrue == \A s \in Sock : (sr[s] # "CLOSED" /\ ~InHand(s)) => serverPort[s] = lport[s]

\* The sketch waits for ever in ASocket::write() (ASocket.cpp:217-225): the connection
\* stays, and no look finds room.
WriteHangs == <>[](at \in {"write_room", "write_full"} /\ sr[sock] \in Connected)

\* Again and again every server listens, or there is no socket left to listen on: also
\* when connections break at the worst moments, and unless the sketch waits in write()
\* for ever.
ListensAgain ==
  \/ WriteHangs
  \/ \A p \in Server : []<>(\/ \E s \in Sock : sr[s] = "LISTEN" /\ lport[s] = p
                            \/ \A s \in Sock : sr[s] # "CLOSED")

\* A connection that the peer has closed and that is read to the end gives its socket
\* back (AServer.cpp:51-53), unless the sketch waits in write() for ever.
FinishedIsFreed ==
  \/ WriteHangs
  \/ \A s \in Sock : (sr[s] = "CLOSE_WAIT" /\ rx[s] = 0) ~> (sr[s] = "CLOSED")

\* What a client sent before it closed the connection is read, unless the connection
\* breaks or the sketch waits in write() for ever: "distributes any incoming messages"
\* (examples/ChatServer/ChatServer.pde:4).
LastWordsAreRead ==
  \/ WriteHangs
  \/ \A s \in Sock : (sr[s] = "CLOSE_WAIT" /\ rx[s] > 0) ~> (rx[s] = 0 \/ sr[s] = "CLOSED")
=============================================================================
