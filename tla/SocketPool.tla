----------------------------- MODULE SocketPool -----------------------------
(***************************************************************************)
(* The life cycle of ASocket objects ("handles") that share the hardware   *)
(* sockets of one W5100: Ethernet/ASocket.cpp.                             *)
(*                                                                         *)
(* Nothing records which handle a hardware socket belongs to: init() looks *)
(* for a socket whose status register says CLOSED and keeps its number.    *)
(* The chip closes connections whenever the peer or a timeout says so, and *)
(* it runs while a call of the sketch is between two register accesses.    *)
(*                                                                         *)
(* The sketch is one thread, so at most one call is under way: "call".     *)
(* init() takes one step per status it reads, the isSendComplete functions *)
(* one for each register they look at after the first.  A call that reads  *)
(* the status and then gives one command is a single step: if the chip     *)
(* closes the socket in between, the command has no effect (AfterCommand). *)
(* Left out: the local port, and the pointers and data of the buffers.     *)
(***************************************************************************)
EXTENDS W5100

CONSTANTS
  Handle,        \* the ASocket objects of the sketch
  NoHandle,      \* "nobody"
  Protocols,     \* the protocol arguments init() is called with
  CallerRules    \* the rules the sketch keeps, of those below

(***************************************************************************)
(* "reinit_closed": init() is called only on a handle that isClosed().     *)
(* "await_send": after send() on a TCP socket, isSendCompleteTCP() is      *)
(*   asked until it says yes before send() is called on that socket again. *)
(***************************************************************************)
ASSUME PoolAssumption ==
  /\ NoHandle \notin Handle
  /\ Protocols \subseteq Protocol \cup {"OTHER"}
  /\ CallerRules \subseteq {"reinit_closed", "await_send"}

NoSock == 255

VARIABLES
  sock,      \* _sock of each handle
  call,      \* the call of the sketch that is under way
  reply,     \* what the last call returned, and for which socket
  owner,     \* history: the handle whose init() opened the socket, while it is open
  unasked    \* history: a send() on the socket has not been reported complete yet

vars == << sr, ir, sending, sock, call, reply, owner, unasked >>

Idle == [at |-> "idle"]

\* "free" is history: the sockets that were closed when init() was called.
Call == [at : {"scan", "open"}, h : Handle, protocol : Protocols, free : SUBSET Sock]
        \cup [at : {"ask_tcp", "ask_udp"}, h : Handle] \cup {Idle}

NoReply == << "none", NoSock >>

Reply == {"none", "opened", "no_socket", "refused", "tcp_done", "tcp_busy",
          "tcp_closed", "udp_done"} \X (Sock \cup {NoSock})

TypeOK ==
  /\ ChipTypeOK
  /\ sock \in [Handle -> Sock \cup {NoSock}]
  /\ call \in Call
  /\ reply \in Reply
  /\ owner \in [Sock -> Handle \cup {NoHandle}]
  /\ unasked \in [Sock -> BOOLEAN]

Init ==
  /\ ChipInit
  /\ sock = [h \in Handle |-> NoSock]
  /\ call = Idle
  /\ reply = NoReply
  /\ owner = [s \in Sock |-> NoHandle]
  /\ unasked = [s \in Sock |-> FALSE]

-----------------------------------------------------------------------------
(* Helpers of ASocket. *)

status(h) == IF sock[h] = NoSock THEN "CLOSED" ELSE sr[sock[h]]

isClosed(h) == status(h) = "CLOSED"

\* A command other than OPEN to the handle's socket, which is not NoSock.
sendCommand(h, cmd) ==
  LET s == sock[h] IN
    /\ sr' = [sr EXCEPT ![s] = AfterCommand(cmd, @)]
    /\ sending' = [sending EXCEPT ![s] = AfterSending(cmd, sr[s], @)]

\* Mutant: the number is forgotten, but CLOSE is not given.
Release_NoCommand(h) ==
  /\ sock' = [sock EXCEPT ![h] = NoSock]
  /\ UNCHANGED << sr, ir, sending, owner, unasked >>

\* close(): CLOSE the socket, clear its flags, forget its number.
Release(h) ==
  IF sock[h] = NoSock
  THEN UNCHANGED << sr, ir, sending, sock, owner, unasked >>
  ELSE /\ sendCommand(h, "CLOSE")
       /\ ir' = [ir EXCEPT ![sock[h]] = {}]
       /\ sock' = [sock EXCEPT ![h] = NoSock]
       /\ owner' = [owner EXCEPT ![sock[h]] = NoHandle]
       /\ unasked' = [unasked EXCEPT ![sock[h]] = FALSE]

\* The call that is under way returns, or a short call is made.
Return(kind, s) == /\ call' = Idle
                   /\ reply' = << kind, s >>

-----------------------------------------------------------------------------
(* init(protocol, srcPort, flag): initTCP() and initUDP(). *)

\* Mutant: the loop starts behind the first socket.
InitBegin_FromOne(h, protocol) ==
  /\ call = Idle
  /\ "reinit_closed" \in CallerRules => isClosed(h)
  /\ sock' = [sock EXCEPT ![h] = 1]
  /\ call' = [at |-> "scan", h |-> h, protocol |-> protocol,
              free |-> {s \in Sock : sr[s] = "CLOSED"}]
  /\ reply' = NoReply
  /\ UNCHANGED << chip, owner, unasked >>

InitBegin(h, protocol) ==
  /\ call = Idle
  /\ "reinit_closed" \in CallerRules => isClosed(h)
  /\ sock' = [sock EXCEPT ![h] = 0]
  /\ call' = [at |-> "scan", h |-> h, protocol |-> protocol,
              free |-> {s \in Sock : sr[s] = "CLOSED"}]
  /\ reply' = NoReply
  /\ UNCHANGED << chip, owner, unasked >>

\* Mutant: a socket that has no connection will do as well.
ScanHit_NotConnected ==
  /\ call.at = "scan"
  /\ status(call.h) \notin {"ESTABLISHED", "CLOSE_WAIT", "SYNSENT"}
  /\ call' = [call EXCEPT !.at = "open"]
  /\ UNCHANGED << chip, sock, reply, owner, unasked >>

\* The loop reads the status of socket _sock: a closed one will do.
ScanHit ==
  /\ call.at = "scan"
  /\ isClosed(call.h)
  /\ call' = [call EXCEPT !.at = "open"]
  /\ UNCHANGED << chip, sock, reply, owner, unasked >>

\* Mutant: one socket too many.
ScanMiss_PastEnd ==
  /\ call.at = "scan"
  /\ ~isClosed(call.h)
  /\ sock[call.h] + 1 <= MaxSock
  /\ sock' = [sock EXCEPT ![call.h] = @ + 1]
  /\ UNCHANGED << chip, call, reply, owner, unasked >>

ScanMiss ==
  /\ call.at = "scan"
  /\ ~isClosed(call.h)
  /\ sock[call.h] + 1 < MaxSock
  /\ sock' = [sock EXCEPT ![call.h] = @ + 1]
  /\ UNCHANGED << chip, call, reply, owner, unasked >>

\* The last socket is not closed either.
ScanFail ==
  /\ call.at = "scan"
  /\ ~isClosed(call.h)
  /\ sock[call.h] + 1 = MaxSock
  /\ sock' = [sock EXCEPT ![call.h] = NoSock]
  /\ Return("no_socket", NoSock)
  /\ UNCHANGED << chip, owner, unasked >>

\* Mutant: the flags of the socket's former life stay up.
InitOpen_KeepFlags ==
  LET s == sock[call.h] IN
    /\ call.at = "open"
    /\ call.protocol \in Protocol
    /\ sr' = [sr EXCEPT ![s] = OpenStatus(call.protocol)]
    /\ sending' = [sending EXCEPT ![s] = FALSE]
    /\ owner' = [owner EXCEPT ![s] = call.h]
    /\ unasked' = [unasked EXCEPT ![s] = FALSE]
    /\ Return("opened", s)
    /\ UNCHANGED << ir, sock >>

\* CLOSE and clear the flags once more, set the mode, OPEN.
InitOpen ==
  LET s == sock[call.h] IN
    /\ call.at = "open"
    /\ call.protocol \in Protocol
    /\ sr' = [sr EXCEPT ![s] = OpenStatus(call.protocol)]
    /\ ir' = [ir EXCEPT ![s] = {}]
    /\ sending' = [sending EXCEPT ![s] = FALSE]
    /\ owner' = [owner EXCEPT ![s] = call.h]
    /\ unasked' = [unasked EXCEPT ![s] = FALSE]
    /\ Return("opened", s)
    /\ UNCHANGED sock

\* A mode init() does not know: it fails, but the handle keeps the number found.
InitRefuse ==
  /\ call.at = "open"
  /\ call.protocol \notin Protocol
  /\ Return("refused", sock[call.h])
  /\ UNCHANGED << chip, sock, owner, unasked >>

-----------------------------------------------------------------------------
(* The other calls. *)

close(h) ==
  /\ call = Idle
  /\ Release(h)
  /\ Return("none", NoSock)

listenTCP(h) ==
  /\ call = Idle
  /\ status(h) = "INIT"
  /\ sendCommand(h, "LISTEN")
  /\ Return("none", NoSock)
  /\ UNCHANGED << ir, sock, owner, unasked >>

connectTCP(h) ==
  /\ call = Idle
  /\ ~isClosed(h)
  /\ sendCommand(h, "CONNECT")
  /\ Return("none", NoSock)
  /\ UNCHANGED << ir, sock, owner, unasked >>

disconnectTCP(h) ==
  /\ call = Idle
  /\ ~isClosed(h)
  /\ sendCommand(h, "DISCON")
  /\ Return("none", NoSock)
  /\ UNCHANGED << ir, sock, owner, unasked >>

send(h) ==
  /\ call = Idle
  /\ ~isClosed(h)
  /\ "await_send" \in CallerRules => (status(h) = "UDP" \/ ~unasked[sock[h]])
  /\ sendCommand(h, "SEND")
  /\ unasked' = [unasked EXCEPT ![sock[h]] = TRUE]
  /\ Return("none", NoSock)
  /\ UNCHANGED << ir, sock, owner >>

\* Between two register reads of an isSendComplete function.
Asking(at, h) == /\ call' = [at |-> at, h |-> h]
                 /\ reply' = NoReply

\* isSendCompleteTCP(): SEND_OK is up, so clear it and say yes.
TcpDone(h) ==
  /\ call = Idle
  /\ ~isClosed(h)
  /\ "SEND_OK" \in ir[sock[h]]
  /\ ir' = [ir EXCEPT ![sock[h]] = @ \ {"SEND_OK"}]
  /\ unasked' = [unasked EXCEPT ![sock[h]] = FALSE]
  /\ Return("tcp_done", sock[h])
  /\ UNCHANGED << sr, sending, sock, owner >>

\* SEND_OK is not up: look at the status next.
TcpNotDone(h) ==
  /\ call = Idle
  /\ ~isClosed(h)
  /\ "SEND_OK" \notin ir[sock[h]]
  /\ Asking("ask_tcp", h)
  /\ UNCHANGED << chip, sock, owner, unasked >>

TcpBusy ==
  /\ call.at = "ask_tcp"
  /\ ~isClosed(call.h)
  /\ Return("tcp_busy", sock[call.h])
  /\ UNCHANGED << chip, sock, owner, unasked >>

\* Closed meanwhile: "send finished but bad"; the handle is closed too.
TcpClosed ==
  /\ call.at = "ask_tcp"
  /\ isClosed(call.h)
  /\ Release(call.h)
  /\ Return("tcp_closed", sock[call.h])

\* isSendCompleteUDP(): yes in every case; only the flags it clears differ.
UdpDone(h) ==
  /\ call = Idle
  /\ ~isClosed(h)
  /\ "SEND_OK" \in ir[sock[h]]
  /\ ir' = [ir EXCEPT ![sock[h]] = @ \ {"SEND_OK"}]
  /\ Return("udp_done", sock[h])
  /\ UNCHANGED << sr, sending, sock, owner, unasked >>

UdpNotDone(h) ==
  /\ call = Idle
  /\ ~isClosed(h)
  /\ "SEND_OK" \notin ir[sock[h]]
  /\ Asking("ask_udp", h)
  /\ UNCHANGED << chip, sock, owner, unasked >>

\* A second look at the flags, for TIMEOUT: if it is up, SEND_OK and TIMEOUT go.
UdpSecondLook ==
  /\ call.at = "ask_udp"
  /\ LET s == sock[call.h] IN
       /\ ir' = [ir EXCEPT ![s] = IF "TIMEOUT" \in @ THEN {} ELSE @]
       /\ Return("udp_done", s)
  /\ UNCHANGED << sr, sending, sock, owner, unasked >>

-----------------------------------------------------------------------------
(* The chip: it works at any time, also while a call is under way. *)

NetAdvance(s) == /\ Advance(s)
                 /\ UNCHANGED << sock, call, reply, owner, unasked >>

NetDrop(s) == /\ Drop(s)
              /\ owner' = [owner EXCEPT ![s] = NoHandle]
              /\ UNCHANGED << sock, call, reply, unasked >>

NetSendDone(s) == /\ SendDone(s)
                  /\ UNCHANGED << sock, call, reply, owner, unasked >>

NetSendTimeout(s) == /\ SendTimeout(s)
                     /\ UNCHANGED << sock, call, reply, owner, unasked >>

CallInit == \/ \E h \in Handle, p \in Protocols : InitBegin(h, p)
            \/ ScanHit \/ ScanMiss \/ ScanFail \/ InitOpen \/ InitRefuse

CallOther == \/ \E h \in Handle : \/ close(h) \/ listenTCP(h) \/ connectTCP(h)
                                  \/ disconnectTCP(h) \/ send(h)
                                  \/ TcpDone(h) \/ TcpNotDone(h)
                                  \/ UdpDone(h) \/ UdpNotDone(h)
             \/ TcpBusy \/ TcpClosed \/ UdpSecondLook

Network == \E s \in Sock : \/ NetAdvance(s) \/ NetDrop(s)
                           \/ NetSendDone(s) \/ NetSendTimeout(s)

Next == CallInit \/ CallOther \/ Network

Spec == Init /\ [][Next]_vars

-----------------------------------------------------------------------------
(* Properties. *)

Scanning(h) == call # Idle /\ call.at \in {"scan", "open"} /\ call.h = h

\* init() (ASocket.cpp:51-101) looks at a status, and opens the socket some register
\* accesses later: whatever the chip does in between, it never takes a socket away from
\* a handle whose connection is still open.
OpenOnlyClosed ==
  [][\A s \in Sock : owner'[s] \notin {NoHandle, owner[s]}
                     => owner[s] = NoHandle /\ sr[s] = "CLOSED"]_vars

\* init() fails for want of sockets (ASocket.cpp:68-72) only if none was closed when it
\* was called: one that is closed behind the back of the scan may be missed, one that
\* was closed from the start may not.
InitFailsOnlyWhenFull ==
  [][(call # Idle /\ call' = Idle /\ reply'[1] = "no_socket") => call.free = {}]_vars

\* An open socket is known to the handle that opened it, so the sketch can still close
\* it.  Nothing in ASocket ensures this: init() forgets the number the handle had
\* (ASocket.cpp:51), so the sketch must keep the rule "reinit_closed".
NoLeak == \A s \in Sock, h \in Handle : owner[s] = h => sock[h] = s

\* When isSendCompleteTCP() says yes because SEND_OK is up (ASocket.cpp:184), nothing of
\* this socket is still on its way.  SEND_OK carries no number, so this depends on the
\* flag being cleared by every yes and every close, and on the rule "await_send".
TcpDoneIsDone ==
  [][\A s \in Sock : (reply' = << "tcp_done", s >> /\ reply' # reply /\ sr[s] # "UDP")
                     => ~sending[s]]_vars

\* A handle that holds the number of an open socket is the one that opened it.
\* It is so while all sockets are UDP, which only close() closes; TCP sockets are closed
\* by the network too, and init() gives them away while the old handle still has the
\* number (ASocket.cpp:58, 342-345).
NoStaleHandle ==
  \A h \in Handle : (sock[h] # NoSock /\ ~Scanning(h) /\ sr[sock[h]] # "CLOSED")
                    => owner[sock[h]] = h
=============================================================================
