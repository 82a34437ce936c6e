-------------------------- MODULE SocketPoolProofs --------------------------
(***************************************************************************)
(* What holds of SocketPool for any number of handles and of sockets.      *)
(***************************************************************************)
EXTENDS SocketPool, TLAPS

\* A command leaves a status behind, whatever the status was.
LEMMA CommandTyped ==
  ASSUME NEW cmd, NEW st \in Status
  PROVE  AfterCommand(cmd, st) \in Status
BY DEF AfterCommand, Status

\* ... and whether a SEND is under way.
LEMMA SendingTyped ==
  ASSUME NEW cmd, NEW st \in Status, NEW busy \in BOOLEAN
  PROVE  AfterSending(cmd, st, busy) \in BOOLEAN
BY DEF AfterSending

\* The registers keep their types under every command.
LEMMA SendCommandTyped ==
  ASSUME TypeOK, NEW h \in Handle, NEW cmd, sock[h] # NoSock, sendCommand(h, cmd)
  PROVE  /\ sr' \in [Sock -> Status]
         /\ sending' \in [Sock -> BOOLEAN]
<1> DEFINE s == sock[h]
<1>1. s \in Sock
  BY DEF TypeOK
<1>2. AfterCommand(cmd, sr[s]) \in Status
  BY <1>1, CommandTyped DEF TypeOK, ChipTypeOK
<1>3. AfterSending(cmd, sr[s], sending[s]) \in BOOLEAN
  BY <1>1, SendingTyped DEF TypeOK, ChipTypeOK
<1> QED
  BY <1>2, <1>3 DEF sendCommand, TypeOK, ChipTypeOK

\* ... and so does everything close() touches.
LEMMA ReleaseTyped ==
  ASSUME TypeOK, NEW h \in Handle, Release(h)
  PROVE  /\ ChipTypeOK'
         /\ sock' \in [Handle -> Sock \cup {NoSock}]
         /\ owner' \in [Sock -> Handle \cup {NoHandle}]
         /\ unasked' \in [Sock -> BOOLEAN]
<1>1. CASE sock[h] = NoSock
  BY <1>1 DEF Release, TypeOK, ChipTypeOK
<1>2. CASE sock[h] # NoSock
  <2>1. sendCommand(h, "CLOSE")
    BY <1>2 DEF Release
  <2> QED
    BY <1>2, <2>1, SendCommandTyped DEF Release, TypeOK, ChipTypeOK
<1> QED
  BY <1>1, <1>2

-----------------------------------------------------------------------------
\* Every variable keeps its type: in particular _sock is a socket or 255, also after a
\* scan that found nothing (ASocket.cpp:51-72).
THEOREM TypeCorrect == Spec => []TypeOK
<1>1. Init => TypeOK
  BY MaxSockAssumption, PoolAssumption
     DEF Init, ChipInit, TypeOK, ChipTypeOK, Status, Call, Idle, Reply, NoReply, NoSock
<1>2. TypeOK /\ [Next]_vars => TypeOK'
  <2> SUFFICES ASSUME TypeOK, [Next]_vars
               PROVE  TypeOK'
    OBVIOUS
  <2> USE DEF TypeOK, chip
  <2>1. ASSUME NEW h \in Handle, NEW p \in Protocols, InitBegin(h, p)
        PROVE  TypeOK'
    <3>1. 0 \in Sock
      BY MaxSockAssumption DEF Sock
    <3>2. sock' \in [Handle -> Sock \cup {NoSock}]
      BY <2>1, <3>1 DEF InitBegin
    <3>3. call' \in Call /\ reply' \in Reply
      BY <2>1 DEF InitBegin, Call, Reply, NoReply
    <3> QED
      BY <2>1, <3>2, <3>3 DEF InitBegin, ChipTypeOK
  <2>2. CASE ScanHit
    BY <2>2 DEF ScanHit, ChipTypeOK, Call, Idle
  <2>3. CASE ScanMiss
    <3>1. call.h \in Handle
      BY <2>3 DEF ScanMiss, Call, Idle
    <3>2. sock[call.h] \in Sock
      BY <2>3, <3>1 DEF ScanMiss, isClosed, status
    <3>3. sock[call.h] + 1 \in Sock
      BY <2>3, <3>2, MaxSockAssumption DEF ScanMiss, Sock
    <3> QED
      BY <2>3, <3>1, <3>3 DEF ScanMiss, ChipTypeOK
  <2>4. CASE ScanFail
    BY <2>4 DEF ScanFail, Return, ChipTypeOK, Call, Idle, Reply
  <2>5. CASE InitOpen
    <3>1. call.h \in Handle
      BY <2>5 DEF InitOpen, Call, Idle
    <3>2. OpenStatus(call.protocol) \in Status
      BY DEF OpenStatus, Status
    <3>3. ChipTypeOK'
      BY <2>5, <3>2 DEF InitOpen, ChipTypeOK
    <3>4. owner' \in [Sock -> Handle \cup {NoHandle}] /\ unasked' \in [Sock -> BOOLEAN]
      BY <2>5, <3>1 DEF InitOpen
    <3>5. call' \in Call /\ reply' \in Reply
      BY <2>5, <3>1 DEF InitOpen, Return, Call, Reply
    <3> QED
      BY <2>5, <3>3, <3>4, <3>5 DEF InitOpen
  <2>6. CASE InitRefuse
    BY <2>6 DEF InitRefuse, Return, ChipTypeOK, Call, Idle, Reply
  <2>7. ASSUME NEW h \in Handle, close(h)
        PROVE  TypeOK'
    BY <2>7, ReleaseTyped DEF close, Return, Call, Reply
  <2>8. ASSUME NEW h \in Handle, listenTCP(h) \/ connectTCP(h) \/ disconnectTCP(h)
        PROVE  TypeOK'
    <3>1. PICK cmd : sendCommand(h, cmd)
      BY <2>8 DEF listenTCP, connectTCP, disconnectTCP
    <3>2. sock[h] # NoSock
      BY <2>8 DEF listenTCP, connectTCP, disconnectTCP, isClosed, status
    <3> QED
      BY <2>8, <3>1, <3>2, SendCommandTyped
         DEF listenTCP, connectTCP, disconnectTCP, Return, ChipTypeOK, Call, Reply
  <2>9. ASSUME NEW h \in Handle, send(h)
        PROVE  TypeOK'
    <3>1. sendCommand(h, "SEND") /\ sock[h] # NoSock
      BY <2>9 DEF send, isClosed, status
    <3> QED
      BY <2>9, <3>1, SendCommandTyped DEF send, Return, ChipTypeOK, Call, Reply
  <2>10. ASSUME NEW h \in Handle, TcpDone(h) \/ UdpDone(h)
         PROVE  TypeOK'
    <3>1. sock[h] \in Sock
      BY <2>10 DEF TcpDone, UdpDone, isClosed, status
    <3>2. ir' \in [Sock -> SUBSET Flag]
      BY <2>10, <3>1 DEF TcpDone, UdpDone, ChipTypeOK
    <3>3. unasked' \in [Sock -> BOOLEAN]
      BY <2>10 DEF TcpDone, UdpDone
    <3>4. call' \in Call /\ reply' \in Reply
      BY <2>10, <3>1 DEF TcpDone, UdpDone, Return, Call, Reply
    <3> QED
      BY <2>10, <3>2, <3>3, <3>4 DEF TcpDone, UdpDone, ChipTypeOK
  <2>11. ASSUME NEW h \in Handle, TcpNotDone(h) \/ UdpNotDone(h)
         PROVE  TypeOK'
    BY <2>11 DEF TcpNotDone, UdpNotDone, Asking, ChipTypeOK, Call, Reply, NoReply
  <2>12. CASE TcpBusy
    BY <2>12 DEF TcpBusy, Return, ChipTypeOK, Call, Idle, Reply
  <2>13. CASE TcpClosed
    <3>1. call.h \in Handle
      BY <2>13 DEF TcpClosed, Call, Idle
    <3> QED
      BY <2>13, <3>1, ReleaseTyped DEF TcpClosed, Return, Call, Reply
  <2>14. CASE UdpSecondLook
    <3>1. call.h \in Handle
      BY <2>14 DEF UdpSecondLook, Call, Idle
    <3> QED
      BY <2>14, <3>1 DEF UdpSecondLook, Return, ChipTypeOK, Call, Idle, Reply
  <2>15. ASSUME NEW s \in Sock, NetAdvance(s) \/ NetDrop(s)
         PROVE  TypeOK'
    <3>1. CASE NetAdvance(s)
      BY <3>1 DEF NetAdvance, Advance, ChipTypeOK
    <3>2. CASE NetDrop(s)
      BY <3>2 DEF NetDrop, Drop, ChipTypeOK, Status, Flag
    <3> QED
      BY <2>15, <3>1, <3>2
  <2>16. ASSUME NEW s \in Sock, NetSendDone(s) \/ NetSendTimeout(s)
         PROVE  TypeOK'
    <3>1. CASE NetSendDone(s)
      BY <3>1 DEF NetSendDone, SendDone, ChipTypeOK, Flag
    <3>2. CASE NetSendTimeout(s)
      BY <3>2 DEF NetSendTimeout, SendTimeout, ChipTypeOK, Flag
    <3> QED
      BY <2>16, <3>1, <3>2
  <2>17. CASE UNCHANGED vars
    BY <2>17 DEF vars, ChipTypeOK
  <2>18. CASE CallInit
    BY <2>1, <2>2, <2>3, <2>4, <2>5, <2>6, <2>18 DEF CallInit
  <2>19. CASE CallOther
    BY <2>7, <2>8, <2>9, <2>10, <2>11, <2>12, <2>13, <2>14, <2>19 DEF CallOther
  <2>20. CASE Network
    BY <2>15, <2>16, <2>20 DEF Network
  <2> QED
    BY <2>17, <2>18, <2>19, <2>20 DEF Next
<1> QED
  BY <1>1, <1>2, PTL DEF Spec

-----------------------------------------------------------------------------
(***************************************************************************)
(* The inductive invariant.  Between the look at the status and OPEN, the  *)
(* call of init() relies on what it saw: that stays true because only      *)
(* init() opens sockets, and only one call is under way.                   *)
(***************************************************************************)

\* The history variable names somebody exactly while the status is not CLOSED.
OwnerIffOpen == \A s \in Sock : owner[s] = NoHandle <=> sr[s] = "CLOSED"

\* While init() runs, its _sock is a socket; once it has chosen, a closed one.
ScanSound ==
  /\ call.at \in {"scan", "open"} => sock[call.h] \in Sock
  /\ call.at = "open" => sr[sock[call.h]] = "CLOSED"

\* What was closed when the scan began is still closed, and still ahead of the scan.
FreeAhead == call.at = "scan" => \A s \in call.free : sr[s] = "CLOSED" /\ s >= sock[call.h]

PoolInv == OwnerIffOpen /\ ScanSound /\ FreeAhead

\* No command but CLOSE closes a socket or wakes a closed one.
LEMMA CommandKeepsOpen ==
  ASSUME NEW cmd \in {"LISTEN", "CONNECT", "DISCON", "SEND"}, NEW st \in Status
  PROVE  AfterCommand(cmd, st) = "CLOSED" <=> st = "CLOSED"
BY DEF AfterCommand

\* The network does nothing to a closed socket.
LEMMA NetLeavesClosed ==
  ASSUME NEW st, NEW new, << st, new >> \in NetStep
  PROVE  st # "CLOSED"
BY DEF NetStep

\* close() leaves the sockets of others as they are, and its own without owner.
LEMMA ReleaseKeepsOwners ==
  ASSUME TypeOK, OwnerIffOpen, NEW h \in Handle, Release(h)
  PROVE  OwnerIffOpen'
BY DEF Release, sendCommand, AfterCommand, OwnerIffOpen, TypeOK, ChipTypeOK

LEMMA PoolInvStep == TypeOK /\ PoolInv /\ [Next]_vars => PoolInv'
<1> SUFFICES ASSUME TypeOK, PoolInv, [Next]_vars
             PROVE  PoolInv'
  OBVIOUS
<1> USE DEF PoolInv
<1>1. ASSUME NEW h \in Handle, NEW p \in Protocols, InitBegin(h, p)
      PROVE  PoolInv'
  <2>1. /\ call'.at = "scan" /\ call'.h = h /\ call'.free = {s \in Sock : sr[s] = "CLOSED"}
        /\ sock'[h] = 0 /\ UNCHANGED << sr, owner >>
    BY <1>1 DEF InitBegin, chip, TypeOK
  <2>2. 0 \in Sock
    BY MaxSockAssumption DEF Sock
  <2> QED
    BY <2>1, <2>2 DEF OwnerIffOpen, ScanSound, FreeAhead, Sock
<1>2. CASE ScanHit
  <2>1. call'.at = "open" /\ call'.h = call.h /\ UNCHANGED << sr, sock, owner >>
    BY <1>2 DEF ScanHit, chip, TypeOK, Call, Idle
  <2>2. sock[call.h] \in Sock
    BY <1>2 DEF ScanHit, ScanSound
  <2>3. sr[sock[call.h]] = "CLOSED"
    BY <1>2, <2>2, MaxSockAssumption DEF ScanHit, isClosed, status, NoSock, Sock
  <2> QED
    BY <2>1, <2>2, <2>3 DEF OwnerIffOpen, ScanSound, FreeAhead
<1>3. CASE ScanMiss
  <2>1. call.h \in Handle /\ call.free \subseteq Sock
    BY <1>3 DEF ScanMiss, TypeOK, Call, Idle
  <2>2. sock[call.h] \in Sock /\ sr[sock[call.h]] # "CLOSED"
    BY <1>3, <2>1 DEF ScanMiss, isClosed, status, TypeOK
  <2>3. sock'[call.h] = sock[call.h] + 1 /\ sock'[call.h] \in Sock
    BY <1>3, <2>1, <2>2, MaxSockAssumption DEF ScanMiss, TypeOK, Sock
  <2>4. UNCHANGED << sr, owner, call >> /\ call.at = "scan"
    BY <1>3 DEF ScanMiss, chip
  <2>5. ASSUME NEW s \in call.free
        PROVE  s >= sock[call.h] + 1
    BY <2>1, <2>2, <2>4, <2>5 DEF FreeAhead, Sock
  <2> QED
    BY <2>3, <2>4, <2>5 DEF OwnerIffOpen, ScanSound, FreeAhead
<1>4. CASE ScanFail \/ InitRefuse
  BY <1>4 DEF ScanFail, InitRefuse, Return, chip, Idle, OwnerIffOpen, ScanSound, FreeAhead
<1>5. CASE InitOpen
  <2>1. call.h \in Handle /\ sock[call.h] \in Sock /\ call' = Idle
    BY <1>5 DEF InitOpen, Return, ScanSound, TypeOK, Call, Idle
  <2>2. OpenStatus(call.protocol) # "CLOSED" /\ call.h # NoHandle
    BY <2>1, PoolAssumption DEF OpenStatus
  <2>3. OwnerIffOpen'
    BY <1>5, <2>1, <2>2 DEF InitOpen, OwnerIffOpen, TypeOK, ChipTypeOK
  <2> QED
    BY <2>1, <2>3 DEF Idle, ScanSound, FreeAhead
<1>6. ASSUME NEW h \in Handle, close(h)
      PROVE  PoolInv'
  BY <1>6, ReleaseKeepsOwners DEF close, Return, Idle, ScanSound, FreeAhead
<1>7. ASSUME NEW h \in Handle,
             listenTCP(h) \/ connectTCP(h) \/ disconnectTCP(h) \/ send(h)
      PROVE  PoolInv'
  <2>1. PICK cmd \in {"LISTEN", "CONNECT", "DISCON", "SEND"} : sendCommand(h, cmd)
    BY <1>7 DEF listenTCP, connectTCP, disconnectTCP, send
  <2>2. sock[h] \in Sock /\ owner' = owner /\ call' = Idle
    BY <1>7 DEF listenTCP, connectTCP, disconnectTCP, send, isClosed, status, Return, TypeOK
  <2>3. \A s \in Sock : sr'[s] = "CLOSED" <=> sr[s] = "CLOSED"
    BY <2>1, <2>2, CommandKeepsOpen DEF sendCommand, TypeOK, ChipTypeOK
  <2> QED
    BY <2>2, <2>3 DEF Idle, OwnerIffOpen, ScanSound, FreeAhead
<1>8. ASSUME NEW h \in Handle,
             TcpDone(h) \/ TcpNotDone(h) \/ UdpDone(h) \/ UdpNotDone(h)
      PROVE  PoolInv'
  BY <1>8 DEF TcpDone, TcpNotDone, UdpDone, UdpNotDone, Asking, Return, chip, Idle,
              OwnerIffOpen, ScanSound, FreeAhead
<1>9. CASE TcpBusy \/ UdpSecondLook
  BY <1>9 DEF TcpBusy, UdpSecondLook, Return, chip, Idle, OwnerIffOpen, ScanSound, FreeAhead
<1>10. CASE TcpClosed
  <2>1. call.h \in Handle
    BY <1>10 DEF TcpClosed, TypeOK, Call, Idle
  <2> QED
    BY <1>10, <2>1, ReleaseKeepsOwners DEF TcpClosed, Return, Idle, ScanSound, FreeAhead
<1>11. CASE Network
  <2>1. UNCHANGED << sock, call >>
    BY <1>11 DEF Network, NetAdvance, NetDrop, NetSendDone, NetSendTimeout
  <2>2. \A s \in Sock : sr[s] = "CLOSED" => sr'[s] = "CLOSED"
    BY <1>11, NetLeavesClosed
       DEF Network, NetAdvance, Advance, NetDrop, Drop, NetSendDone, SendDone,
           NetSendTimeout, SendTimeout, TypeOK, ChipTypeOK
  <2>3. OwnerIffOpen'
    BY <1>11, NetLeavesClosed
       DEF Network, NetAdvance, Advance, NetDrop, Drop, NetSendDone, SendDone,
           NetSendTimeout, SendTimeout, TypeOK, ChipTypeOK, OwnerIffOpen
  <2>4. call.at \in {"scan", "open"} => call.free \subseteq Sock
    BY DEF TypeOK, Call, Idle
  <2> QED
    BY <2>1, <2>2, <2>3, <2>4 DEF ScanSound, FreeAhead
<1>12. CASE UNCHANGED vars
  BY <1>12 DEF vars, OwnerIffOpen, ScanSound, FreeAhead
<1>13. CASE CallInit
  BY <1>1, <1>2, <1>3, <1>4, <1>5, <1>13 DEF CallInit
<1>14. CASE CallOther
  BY <1>6, <1>7, <1>8, <1>9, <1>10, <1>14 DEF CallOther
<1> QED
  BY <1>11, <1>12, <1>13, <1>14 DEF Next

\* The bookkeeping of init() is sound at every moment, whatever the chip does.
THEOREM PoolInvariant == Spec => []PoolInv
<1>1. Init => PoolInv
  BY DEF Init, ChipInit, Idle, PoolInv, OwnerIffOpen, ScanSound, FreeAhead
<1> QED
  BY <1>1, TypeCorrect, PoolInvStep, PTL DEF Spec

-----------------------------------------------------------------------------
\* init() never takes a socket away from a handle whose connection is still open
\* (ASocket.cpp:51-101).
THEOREM InitTakesOnlyClosed == Spec => OpenOnlyClosed
<1> DEFINE Taken == \A s \in Sock : owner'[s] \notin {NoHandle, owner[s]}
                                    => owner[s] = NoHandle /\ sr[s] = "CLOSED"
<1>1. TypeOK /\ PoolInv /\ [Next]_vars => [Taken]_vars
  <2> SUFFICES ASSUME TypeOK, PoolInv, Next, NEW s \in Sock,
                      owner'[s] \notin {NoHandle, owner[s]}
               PROVE  owner[s] = NoHandle /\ sr[s] = "CLOSED"
    BY DEF vars
  <2>1. CASE InitOpen
    <3>1. call.h \in Handle /\ sock[call.h] \in Sock /\ sr[sock[call.h]] = "CLOSED"
      BY <2>1 DEF InitOpen, PoolInv, ScanSound, TypeOK, Call, Idle
    <3>2. s = sock[call.h]
      BY <2>1, <3>1 DEF InitOpen, TypeOK
    <3> QED
      BY <3>1, <3>2 DEF PoolInv, OwnerIffOpen
  <2>2. ASSUME NEW h \in Handle, Release(h)
        PROVE  FALSE
    BY <2>2 DEF Release, TypeOK
  <2>3. ASSUME ~InitOpen, CallInit \/ CallOther
        PROVE  FALSE
    <3>1. CASE \E h \in Handle : Release(h)
      BY <3>1, <2>2
    <3>2. CASE ~\E h \in Handle : Release(h)
      <4>1. TcpClosed => call.h \in Handle
        BY DEF TcpClosed, TypeOK, Call, Idle
      <4>2. owner' = owner
        BY <2>3, <3>2, <4>1
           DEF CallInit, InitBegin, ScanHit, ScanMiss, ScanFail, InitRefuse,
               CallOther, close, listenTCP, connectTCP, disconnectTCP, send, TcpDone,
               TcpNotDone, UdpDone, UdpNotDone, TcpBusy, TcpClosed, UdpSecondLook
      <4> QED
        BY <4>2
    <3> QED
      BY <3>1, <3>2
  <2>4. CASE Network
    BY <2>4 DEF Network, NetAdvance, NetDrop, NetSendDone, NetSendTimeout, TypeOK
  <2> QED
    BY <2>1, <2>3, <2>4 DEF Next
<1> QED
  BY <1>1, TypeCorrect, PoolInvariant, PTL DEF Spec, OpenOnlyClosed

\* init() fails for want of sockets only if none was closed when it was called
\* (ASocket.cpp:68-72).
THEOREM InitFailsHonestly == Spec => InitFailsOnlyWhenFull
<1> DEFINE Fails == call # Idle /\ call' = Idle /\ reply'[1] = "no_socket"
<1>1. TypeOK /\ PoolInv /\ [Next]_vars => [Fails => call.free = {}]_vars
  <2> SUFFICES ASSUME TypeOK, PoolInv, Next, Fails
               PROVE  call.free = {}
    BY DEF vars
  <2>1. ScanFail
    <3>1. call # Idle /\ call' # call /\ call'.at = "idle" /\ reply'[1] = "no_socket"
      BY DEF Idle
    <3>2. ~Network /\ ~ScanMiss
      BY <3>1 DEF Network, NetAdvance, NetDrop, NetSendDone, NetSendTimeout, ScanMiss
    <3>3. ~ScanHit
      BY <3>1 DEF ScanHit, TypeOK, Call, Idle
    <3>4. ~InitOpen /\ ~InitRefuse /\ ~TcpBusy /\ ~TcpClosed /\ ~UdpSecondLook
      BY <3>1 DEF InitOpen, InitRefuse, TcpBusy, TcpClosed, UdpSecondLook, Return
    <3>5. \A h \in Handle : /\ ~close(h) /\ ~listenTCP(h) /\ ~connectTCP(h)
                            /\ ~disconnectTCP(h) /\ ~send(h) /\ ~TcpDone(h)
                            /\ ~TcpNotDone(h) /\ ~UdpDone(h) /\ ~UdpNotDone(h)
                            /\ \A p \in Protocols : ~InitBegin(h, p)
      BY <3>1 DEF close, listenTCP, connectTCP, disconnectTCP, send, TcpDone,
                  TcpNotDone, UdpDone, UdpNotDone, InitBegin
    <3> QED
      BY <3>2, <3>3, <3>4, <3>5 DEF Next, CallInit, CallOther
  <2>2. call.free \subseteq Sock /\ call.h \in Handle
    BY <2>1 DEF ScanFail, TypeOK, Call, Idle
  <2>3. sock[call.h] \in Sock /\ sr[sock[call.h]] # "CLOSED" /\ sock[call.h] + 1 = MaxSock
    BY <2>1, <2>2 DEF ScanFail, isClosed, status, TypeOK
  <2>4. \A s \in call.free : sr[s] = "CLOSED" /\ s >= sock[call.h]
    BY <2>1 DEF ScanFail, PoolInv, FreeAhead
  <2>5. \A s \in call.free : s = sock[call.h]
    BY <2>2, <2>3, <2>4, MaxSockAssumption DEF Sock
  <2> QED
    BY <2>3, <2>4, <2>5
<1> QED
  BY <1>1, TypeCorrect, PoolInvariant, PTL DEF Spec, InitFailsOnlyWhenFull

-----------------------------------------------------------------------------
(* A sketch that re-initialises closed handles only. *)

\* The handle init() runs for has nothing to lose.
ScannerOwnsNothing ==
  call.at \in {"scan", "open"} => \A s \in Sock : owner[s] # call.h

LeakInv == NoLeak /\ ScannerOwnsNothing

\* close() takes from a handle only the number of a socket that has no owner any more.
LEMMA ReleaseKeepsLeakInv ==
  ASSUME TypeOK, LeakInv, NEW h \in Handle, Release(h)
  PROVE  NoLeak'
BY PoolAssumption DEF LeakInv, NoLeak, Release, TypeOK

LEMMA LeakInvStep ==
  ASSUME "reinit_closed" \in CallerRules
  PROVE  TypeOK /\ PoolInv /\ LeakInv /\ [Next]_vars => LeakInv'
<1> SUFFICES ASSUME TypeOK, PoolInv, LeakInv, [Next]_vars
             PROVE  LeakInv'
  OBVIOUS
<1> USE DEF LeakInv
<1>1. ASSUME NEW h \in Handle, NEW p \in Protocols, InitBegin(h, p)
      PROVE  LeakInv'
  <2>1. ASSUME NEW s \in Sock
        PROVE  owner[s] # h
    <3>1. sock[h] = NoSock \/ sr[sock[h]] = "CLOSED"
      BY <1>1 DEF InitBegin, isClosed, status
    <3>2. sock[h] = s => sr[s] = "CLOSED"
      BY <3>1, MaxSockAssumption DEF NoSock, Sock
    <3> QED
      BY <3>2, PoolAssumption DEF NoLeak, PoolInv, OwnerIffOpen
  <2>2. call'.h = h /\ owner' = owner /\ sock' = [sock EXCEPT ![h] = 0]
    BY <1>1 DEF InitBegin
  <2> QED
    BY <2>1, <2>2 DEF NoLeak, ScannerOwnsNothing, TypeOK
<1>2. CASE ScanHit
  BY <1>2 DEF ScanHit, NoLeak, ScannerOwnsNothing, TypeOK, Call, Idle
<1>3. CASE ScanMiss
  <2>1. call.h \in Handle
    BY <1>3 DEF ScanMiss, TypeOK, Call, Idle
  <2> QED
    BY <1>3, <2>1 DEF ScanMiss, NoLeak, ScannerOwnsNothing, TypeOK
<1>4. CASE ScanFail \/ InitRefuse
  <2>1. call.h \in Handle
    BY <1>4 DEF ScanFail, InitRefuse, TypeOK, Call, Idle
  <2> QED
    BY <1>4, <2>1 DEF ScanFail, InitRefuse, Return, Idle, NoLeak, ScannerOwnsNothing, TypeOK
<1>5. CASE InitOpen
  <2>1. call.h \in Handle /\ sock[call.h] \in Sock /\ call' = Idle
    BY <1>5 DEF InitOpen, Return, PoolInv, ScanSound, TypeOK, Call, Idle
  <2>2. owner' = [owner EXCEPT ![sock[call.h]] = call.h] /\ sock' = sock
    BY <1>5 DEF InitOpen
  <2> QED
    BY <2>1, <2>2 DEF Idle, NoLeak, ScannerOwnsNothing, TypeOK
<1>6. ASSUME NEW h \in Handle, close(h)
      PROVE  LeakInv'
  BY <1>6, ReleaseKeepsLeakInv DEF close, Return, Idle, ScannerOwnsNothing
<1>7. CASE TcpClosed
  <2>1. call.h \in Handle
    BY <1>7 DEF TcpClosed, TypeOK, Call, Idle
  <2> QED
    BY <1>7, <2>1, ReleaseKeepsLeakInv DEF TcpClosed, Return, Idle, ScannerOwnsNothing
<1>8. CASE \/ TcpBusy \/ UdpSecondLook
           \/ \E h \in Handle : \/ listenTCP(h) \/ connectTCP(h) \/ disconnectTCP(h)
                                \/ send(h) \/ TcpDone(h) \/ TcpNotDone(h)
                                \/ UdpDone(h) \/ UdpNotDone(h)
  <2>1. UNCHANGED << sock, owner >> /\ call'.at \notin {"scan", "open"}
    BY <1>8 DEF listenTCP, connectTCP, disconnectTCP, send, TcpDone, TcpNotDone, UdpDone,
                UdpNotDone, TcpBusy, UdpSecondLook, Asking, Return, Idle
  <2> QED
    BY <2>1 DEF NoLeak, ScannerOwnsNothing
<1>9. ASSUME NEW s \in Sock,
             NetAdvance(s) \/ NetDrop(s) \/ NetSendDone(s) \/ NetSendTimeout(s)
      PROVE  LeakInv'
  <2>1. UNCHANGED << sock, call >>
    BY <1>9 DEF NetAdvance, NetDrop, NetSendDone, NetSendTimeout
  <2>2. \A t \in Sock : owner'[t] \in {owner[t], NoHandle}
    BY <1>9 DEF NetAdvance, NetDrop, NetSendDone, NetSendTimeout, TypeOK
  <2>3. call.at \in {"scan", "open"} => call.h \in Handle
    BY DEF TypeOK, Call, Idle
  <2> QED
    BY <2>1, <2>2, <2>3, PoolAssumption DEF NoLeak, ScannerOwnsNothing
<1>10. CASE UNCHANGED vars
  BY <1>10 DEF vars, NoLeak, ScannerOwnsNothing
<1>11. CASE CallInit
  BY <1>1, <1>2, <1>3, <1>4, <1>5, <1>11 DEF CallInit
<1>12. CASE CallOther
  BY <1>6, <1>7, <1>8, <1>12 DEF CallOther
<1> QED
  BY <1>9, <1>10, <1>11, <1>12 DEF Next, Network

\* A sketch that calls init() only on handles that are closed can always still close the
\* sockets it has open.
THEOREM NothingLeaks ==
  ASSUME "reinit_closed" \in CallerRules
  PROVE  Spec => []NoLeak
<1>1. Init => LeakInv
  BY PoolAssumption DEF Init, Idle, LeakInv, NoLeak, ScannerOwnsNothing
<1>2. TypeOK /\ PoolInv /\ LeakInv /\ [Next]_vars => LeakInv'
  BY LeakInvStep
<1>3. LeakInv => NoLeak
  BY DEF LeakInv
<1> QED
  BY <1>1, <1>2, <1>3, TypeCorrect, PoolInvariant, PTL DEF Spec

-----------------------------------------------------------------------------
(* A sketch whose sockets are all UDP. *)

\* Nobody but close() closes a UDP socket, so a number that is kept is the number of a
\* socket that is open and one's own.
UdpInv ==
  /\ \A s \in Sock : sr[s] \in {"CLOSED", "UDP"}
  /\ \A h \in Handle : (sock[h] # NoSock /\ ~Scanning(h)) => owner[sock[h]] = h

\* Commands other than CLOSE do not change the status of a UDP socket.
LEMMA CommandKeepsUdp ==
  ASSUME NEW cmd \in {"LISTEN", "CONNECT", "DISCON", "SEND"}, NEW st \in {"CLOSED", "UDP"}
  PROVE  AfterCommand(cmd, st) = st
BY DEF AfterCommand

LEMMA ReleaseKeepsUdpInv ==
  ASSUME TypeOK, UdpInv, NEW h \in Handle, Release(h),
         \A g \in Handle : ~Scanning(g)
  PROVE  UdpInv'
<1>1. CASE sock[h] = NoSock
  BY <1>1 DEF Release, UdpInv
<1>2. CASE sock[h] # NoSock
  <2>1. sock[h] \in Sock /\ owner[sock[h]] = h
    BY <1>2 DEF UdpInv, TypeOK
  <2>2. /\ sr' = [sr EXCEPT ![sock[h]] = "CLOSED"]
        /\ sock' = [sock EXCEPT ![h] = NoSock]
        /\ owner' = [owner EXCEPT ![sock[h]] = NoHandle]
    BY <1>2 DEF Release, sendCommand, AfterCommand
  <2> QED
    BY <2>1, <2>2 DEF UdpInv, TypeOK, ChipTypeOK
<1> QED
  BY <1>1, <1>2

\* init() is asked for nothing else, so it never refuses.
LEMMA ProtocolIsUdp ==
  ASSUME Protocols \subseteq {"UDP"}, call \in Call, call.at = "open"
  PROVE  call.protocol = "UDP"
<1>1. call \in [at : {"scan", "open"}, h : Handle, protocol : Protocols, free : SUBSET Sock]
  BY DEF Call, Idle
<1> QED
  BY <1>1

LEMMA UdpInvStep ==
  ASSUME Protocols \subseteq {"UDP"}
  PROVE  TypeOK /\ PoolInv /\ UdpInv /\ [Next]_vars => UdpInv'
<1> SUFFICES ASSUME TypeOK, PoolInv, UdpInv, [Next]_vars
             PROVE  UdpInv'
  OBVIOUS
<1>1. ASSUME NEW h \in Handle, NEW p \in Protocols, InitBegin(h, p)
      PROVE  UdpInv'
  <2>1. /\ UNCHANGED << sr, owner >> /\ sock' = [sock EXCEPT ![h] = 0]
        /\ \A g \in Handle : ~Scanning(g)
        /\ \A g \in Handle : Scanning(g)' <=> g = h
    BY <1>1 DEF InitBegin, chip, Scanning, Idle
  <2> QED
    BY <2>1 DEF UdpInv, TypeOK
<1>2. CASE ScanHit
  <2>1. UNCHANGED << sr, owner, sock >> /\ \A g \in Handle : Scanning(g)' <=> Scanning(g)
    BY <1>2 DEF ScanHit, chip, Scanning, TypeOK, Call, Idle
  <2> QED
    BY <2>1 DEF UdpInv
<1>3. CASE ScanMiss
  <2>1. /\ UNCHANGED << sr, owner >> /\ sock' = [sock EXCEPT ![call.h] = sock[call.h] + 1]
        /\ \A g \in Handle : (Scanning(g)' <=> Scanning(g)) /\ (Scanning(g) <=> g = call.h)
    BY <1>3 DEF ScanMiss, chip, Scanning, Idle
  <2> QED
    BY <2>1 DEF UdpInv, TypeOK
<1>4. CASE ScanFail
  <2>1. /\ UNCHANGED << sr, owner >> /\ sock' = [sock EXCEPT ![call.h] = NoSock]
        /\ \A g \in Handle : Scanning(g) => g = call.h
    BY <1>4 DEF ScanFail, chip, Scanning
  <2> QED
    BY <2>1 DEF UdpInv, TypeOK
<1>5. CASE InitOpen
  <2>1. call.h \in Handle /\ sock[call.h] \in Sock /\ sr[sock[call.h]] = "CLOSED"
    BY <1>5 DEF InitOpen, PoolInv, ScanSound, TypeOK, Call, Idle
  <2>2. /\ sr' = [sr EXCEPT ![sock[call.h]] = "UDP"]
        /\ owner' = [owner EXCEPT ![sock[call.h]] = call.h]
        /\ sock' = sock
    <3>1. call.protocol = "UDP"
      BY <1>5, ProtocolIsUdp DEF InitOpen, TypeOK
    <3>2. OpenStatus(call.protocol) = "UDP"
      BY <3>1 DEF OpenStatus
    <3> QED
      BY <1>5, <3>2 DEF InitOpen
  <2>3. owner[sock[call.h]] = NoHandle
    BY <2>1 DEF PoolInv, OwnerIffOpen
  <2>4. ASSUME NEW g \in Handle, sock[g] # NoSock, g # call.h
        PROVE  owner'[sock[g]] = g
    <3>1. ~Scanning(g) /\ sock[g] \in Sock
      BY <2>4 DEF Scanning, TypeOK
    <3>2. owner[sock[g]] = g
      BY <2>4, <3>1 DEF UdpInv
    <3> QED
      BY <2>2, <2>3, <3>1, <3>2, PoolAssumption DEF TypeOK
  <2> QED
    BY <2>1, <2>2, <2>4 DEF UdpInv, TypeOK, ChipTypeOK
<1>6. CASE InitRefuse
  BY <1>6, ProtocolIsUdp DEF InitRefuse, TypeOK, Protocol
<1>7. ASSUME NEW h \in Handle, close(h)
      PROVE  UdpInv'
  BY <1>7, ReleaseKeepsUdpInv DEF close, Scanning
<1>8. CASE TcpClosed
  <2>1. call.h \in Handle /\ \A g \in Handle : ~Scanning(g)
    BY <1>8 DEF TcpClosed, Scanning, TypeOK, Call, Idle
  <2> QED
    BY <1>8, <2>1, ReleaseKeepsUdpInv DEF TcpClosed
<1>9. ASSUME NEW h \in Handle,
             listenTCP(h) \/ connectTCP(h) \/ disconnectTCP(h) \/ send(h)
      PROVE  UdpInv'
  <2>1. PICK cmd \in {"LISTEN", "CONNECT", "DISCON", "SEND"} : sendCommand(h, cmd)
    BY <1>9 DEF listenTCP, connectTCP, disconnectTCP, send
  <2>2. /\ sock[h] \in Sock /\ UNCHANGED << owner, sock >>
        /\ \A g \in Handle : ~Scanning(g)
    BY <1>9 DEF listenTCP, connectTCP, disconnectTCP, send, isClosed, status, TypeOK, Scanning
  <2>3. sr' = sr
    BY <2>1, <2>2, CommandKeepsUdp DEF sendCommand, UdpInv, TypeOK, ChipTypeOK
  <2> QED
    BY <2>2, <2>3 DEF UdpInv
<1>10. CASE \/ TcpBusy \/ UdpSecondLook
            \/ \E h \in Handle : TcpDone(h) \/ TcpNotDone(h) \/ UdpDone(h) \/ UdpNotDone(h)
  <2>1. UNCHANGED << sr, sock, owner >> /\ \A g \in Handle : ~Scanning(g)
    BY <1>10 DEF TcpDone, TcpNotDone, UdpDone, UdpNotDone, TcpBusy, UdpSecondLook, chip,
                 Scanning
  <2> QED
    BY <2>1 DEF UdpInv
<1>11. CASE Network
  <2>1. UNCHANGED << sock, call >>
    BY <1>11 DEF Network, NetAdvance, NetDrop, NetSendDone, NetSendTimeout
  <2>2. \A s \in Sock : \A new : << sr[s], new >> \notin NetStep
    BY DEF UdpInv, NetStep
  <2>3. UNCHANGED << sr, owner >>
    BY <1>11, <2>2 DEF Network, NetAdvance, Advance, NetDrop, Drop, NetSendDone, SendDone,
                       NetSendTimeout, SendTimeout
  <2> QED
    BY <2>1, <2>3 DEF UdpInv, Scanning
<1>12. CASE UNCHANGED vars
  BY <1>12 DEF vars, UdpInv, Scanning
<1>13. CASE CallInit
  BY <1>1, <1>2, <1>3, <1>4, <1>5, <1>6, <1>13 DEF CallInit
<1>14. CASE CallOther
  BY <1>7, <1>8, <1>9, <1>10, <1>14 DEF CallOther
<1> QED
  BY <1>11, <1>12, <1>13, <1>14 DEF Next

\* While all sockets are UDP, no two handles ever share an open socket: the number a
\* handle holds is the number of a socket it opened itself.
THEOREM UdpHandlesAreOwn ==
  ASSUME Protocols \subseteq {"UDP"}
  PROVE  Spec => []NoStaleHandle
<1>1. Init => UdpInv
  BY DEF Init, ChipInit, UdpInv
<1>2. TypeOK /\ PoolInv /\ UdpInv /\ [Next]_vars => UdpInv'
  BY UdpInvStep
<1>3. UdpInv => NoStaleHandle
  BY DEF UdpInv, NoStaleHandle
<1> QED
  BY <1>1, <1>2, <1>3, TypeCorrect, PoolInvariant, PTL DEF Spec

-----------------------------------------------------------------------------
(* A sketch that waits for the answer before it sends again. *)

\* On a TCP socket SEND_OK and a SEND under way exclude each other, and each means that
\* the sketch has an answer to collect.
AnswerDue(s) ==
  /\ ~("SEND_OK" \in ir[s] /\ sending[s])
  /\ ("SEND_OK" \in ir[s] \/ sending[s]) => unasked[s]

SendOkMatches == \A s \in Sock : sr[s] \notin {"UDP", "CLOSED"} => AnswerDue(s)

\* What a command other than SEND and CLOSE leaves alone.
LEMMA CommandKeepsSending ==
  ASSUME NEW cmd \in {"LISTEN", "CONNECT", "DISCON"}, NEW st \in Status, NEW busy
  PROVE  /\ AfterSending(cmd, st, busy) = busy
         /\ AfterCommand(cmd, st) \notin {"UDP", "CLOSED"} <=> st \notin {"UDP", "CLOSED"}
BY DEF AfterSending, AfterCommand

LEMMA SendOkStep ==
  ASSUME "await_send" \in CallerRules
  PROVE  TypeOK /\ SendOkMatches /\ [Next]_vars => SendOkMatches'
<1> SUFFICES ASSUME TypeOK, SendOkMatches, [Next]_vars
             PROVE  SendOkMatches'
  OBVIOUS
<1> USE DEF SendOkMatches, AnswerDue
<1>1. CASE \/ ScanHit \/ ScanMiss \/ ScanFail \/ InitRefuse \/ TcpBusy \/ UNCHANGED vars
           \/ \E h \in Handle : \/ TcpNotDone(h) \/ UdpNotDone(h)
                                \/ \E p \in Protocols : InitBegin(h, p)
  BY <1>1 DEF ScanHit, ScanMiss, ScanFail, InitRefuse, TcpBusy, TcpNotDone, UdpNotDone,
              InitBegin, chip, vars
<1>2. CASE InitOpen
  BY <1>2 DEF InitOpen, TypeOK, ChipTypeOK
<1>3. ASSUME NEW h \in Handle, Release(h)
      PROVE  SendOkMatches'
  BY <1>3 DEF Release, sendCommand, AfterCommand, TypeOK, ChipTypeOK
<1>4. TcpClosed => call.h \in Handle
  BY DEF TcpClosed, TypeOK, Call, Idle
<1>5. ASSUME NEW h \in Handle, listenTCP(h) \/ connectTCP(h) \/ disconnectTCP(h)
      PROVE  SendOkMatches'
  <2>1. PICK cmd \in {"LISTEN", "CONNECT", "DISCON"} : sendCommand(h, cmd)
    BY <1>5 DEF listenTCP, connectTCP, disconnectTCP
  <2>2. sock[h] \in Sock /\ UNCHANGED << ir, unasked >>
    BY <1>5 DEF listenTCP, connectTCP, disconnectTCP, isClosed, status, TypeOK
  <2> QED
    BY <2>1, <2>2, CommandKeepsSending DEF sendCommand, TypeOK, ChipTypeOK
<1>6. ASSUME NEW h \in Handle, send(h)
      PROVE  SendOkMatches'
  <2> DEFINE s == sock[h]
  <2>1. s \in Sock /\ (sr[s] = "UDP" \/ ~unasked[s])
    BY <1>6 DEF send, isClosed, status, TypeOK
  <2>2. /\ ir' = ir /\ sr' = [sr EXCEPT ![s] = AfterCommand("SEND", sr[s])]
        /\ sending' = [sending EXCEPT ![s] = AfterSending("SEND", sr[s], sending[s])]
        /\ unasked' = [unasked EXCEPT ![s] = TRUE]
    BY <1>6 DEF send, sendCommand
  <2>3. AfterCommand("SEND", sr[s]) = sr[s]
    BY DEF AfterCommand
  <2> QED
    BY <2>1, <2>2, <2>3 DEF TypeOK, ChipTypeOK
<1>7. ASSUME NEW h \in Handle, TcpDone(h)
      PROVE  SendOkMatches'
  <2>1. sock[h] \in Sock
    BY <1>7 DEF TcpDone, isClosed, status, TypeOK
  <2> QED
    BY <1>7, <2>1 DEF TcpDone, TypeOK, ChipTypeOK
<1>8. CASE UdpSecondLook \/ \E h \in Handle : UdpDone(h)
  <2>1. UNCHANGED << sr, sending, unasked >> /\ \A s \in Sock : ir'[s] \subseteq ir[s]
    BY <1>8 DEF UdpSecondLook, UdpDone, TypeOK, ChipTypeOK
  <2> QED
    BY <2>1
<1>9. ASSUME NEW s \in Sock, NetAdvance(s) \/ NetDrop(s)
      PROVE  SendOkMatches'
  <2>1. CASE NetAdvance(s)
    BY <2>1 DEF NetAdvance, Advance, NetStep, TypeOK, ChipTypeOK
  <2>2. CASE NetDrop(s)
    BY <2>2 DEF NetDrop, Drop, TypeOK, ChipTypeOK
  <2> QED
    BY <1>9, <2>1, <2>2
<1>10. ASSUME NEW s \in Sock, NetSendDone(s) \/ NetSendTimeout(s)
       PROVE  SendOkMatches'
  BY <1>10 DEF NetSendDone, SendDone, NetSendTimeout, SendTimeout, TypeOK, ChipTypeOK
<1>11. CASE CallInit
  BY <1>1, <1>2, <1>11 DEF CallInit
<1>12. CASE CallOther
  BY <1>1, <1>3, <1>4, <1>5, <1>6, <1>7, <1>8, <1>12 DEF CallOther, close, TcpClosed
<1> QED
  BY <1>1, <1>9, <1>10, <1>11, <1>12 DEF Next, Network

\* To a sketch that waits for each answer, isSendCompleteTCP() never says that a SEND is
\* over that is still under way.
THEOREM TcpAnswerTrue ==
  ASSUME "await_send" \in CallerRules
  PROVE  Spec => TcpDoneIsDone
<1> DEFINE Truth == \A s \in Sock : (reply' = << "tcp_done", s >> /\ reply' # reply
                                     /\ sr[s] # "UDP") => ~sending[s]
<1>1. Init => SendOkMatches
  BY DEF Init, ChipInit, SendOkMatches
<1>2. TypeOK /\ SendOkMatches /\ [Next]_vars => SendOkMatches'
  BY SendOkStep
<1>3. TypeOK /\ SendOkMatches /\ [Next]_vars => [Truth]_vars
  <2> SUFFICES ASSUME TypeOK, SendOkMatches, Next, NEW s \in Sock,
                      reply' = << "tcp_done", s >>, reply' # reply, sr[s] # "UDP"
               PROVE  ~sending[s]
    BY DEF vars
  <2>1. reply'[1] = "tcp_done" /\ reply'[2] = s
    OBVIOUS
  <2>2. ~CallInit
    BY <2>1 DEF CallInit, InitBegin, ScanHit, ScanMiss, ScanFail, InitOpen, InitRefuse,
                Return, NoReply
  <2>3. ~Network
    BY DEF Network, NetAdvance, NetDrop, NetSendDone, NetSendTimeout
  <2>4. ~TcpBusy /\ ~TcpClosed /\ ~UdpSecondLook
    BY <2>1 DEF TcpBusy, TcpClosed, UdpSecondLook, Return
  <2>5. \A h \in Handle : /\ ~close(h) /\ ~listenTCP(h) /\ ~connectTCP(h)
                          /\ ~disconnectTCP(h) /\ ~send(h) /\ ~TcpNotDone(h)
                          /\ ~UdpDone(h) /\ ~UdpNotDone(h)
    BY <2>1 DEF close, listenTCP, connectTCP, disconnectTCP, send, TcpNotDone, UdpDone,
                UdpNotDone, Asking, Return, NoReply
  <2>6. PICK h \in Handle : TcpDone(h)
    BY <2>2, <2>3, <2>4, <2>5 DEF Next, CallOther
  <2>7. s = sock[h] /\ "SEND_OK" \in ir[s] /\ sr[s] # "CLOSED"
    BY <2>1, <2>6 DEF TcpDone, Return, isClosed, status
  <2> QED
    BY <2>7 DEF SendOkMatches, AnswerDue
<1> QED
  BY <1>1, <1>2, <1>3, TypeCorrect, PTL DEF Spec, TcpDoneIsDone
=============================================================================
