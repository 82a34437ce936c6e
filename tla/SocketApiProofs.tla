-------------------------- MODULE SocketApiProofs ---------------------------
(***************************************************************************)
(* What the blocking calls of socket.c take from the flags is true, for    *)
(* any number of sockets, with the interrupt routine and without it.       *)
(*                                                                         *)
(* The argument: a SEND is under way only while a call waits for its end,  *)
(* so SEND_OK, wherever it is at the moment (in Sn_IR, in I_STATUS, in     *)
(* both, or in the hands of putISR), is about the SEND of the call under   *)
(* way, and is gone when the call returns.  TIMEOUT is weaker: a broken    *)
(* connection raises it, too; but only close() and a new OPEN make a UDP   *)
(* socket of one that had a connection, and they clear all flags first.    *)
(***************************************************************************)
EXTENDS SocketApi, TLAPS

Datagram == call.fn \in {"sendto", "igmpsend"}

\* A call that waits for the end of its SEND.
Waiting == call.at \in {"wait", "look"}

\* The flags of socket s, wherever they are.
Held(s) == ir[s] \cup I_STATUS[s] \cup (IF call.at = "put" /\ call.s = s THEN call.taken
                                       ELSE {})

\* What each place in the thread knows.
AtPlace ==
  /\ call.fn \in {"socket", "close"} => /\ call.at \in {"idle", "close", "closed", "open",
                                                       "return"}
                                        /\ call.ret = 0
  /\ call.fn = "send" => sr[call.s] # "UDP"
  /\ call.at \in {"room", "status"} => call.fn = "send"
  /\ call.at = "put" => interrupts
  /\ call.at \in {"flag", "put"} /\ call.fn = "igmpsend" => call.ret = 1
  /\ call.at \in {"close", "closed", "open"} => call.ret = 0
  /\ (call.at = "copy" \/ Waiting) /\ Datagram => sr[call.s] = "UDP"
  /\ Waiting /\ Datagram => call.ret = 1
  /\ call.at \in {"closed", "open"} => sr[call.s] = "CLOSED"
  /\ call.at = "open" => call.fn = "socket" /\ Held(call.s) = {}
  /\ call.at \in {"flag", "put", "return"} /\ call.ret > 0 => fate[call.s] = "sent"
  /\ call.at \in {"flag", "put"} /\ call.fn = "sendto" /\ call.ret = 0
       => fate[call.s] = "timeout"

\* A SEND is under way only for a call that waits, on a socket that is open.
SendWaitedFor ==
  \A s \in Sock : sending[s] =>
    call.s = s /\ Waiting /\ sr[s] # "CLOSED" /\ fate[s] = "busy"

\* SEND_OK is about the SEND of the call under way.
OkIsOwn ==
  \A s \in Sock : "SEND_OK" \in Held(s) =>
    /\ call.s = s /\ call.at \in {"wait", "look", "flag", "put", "close", "closed"}
    /\ call.at # "closed" => fate[s] = "sent"

\* On a UDP socket so is TIMEOUT.
TimeoutIsOwn ==
  \A s \in Sock : sr[s] = "UDP" /\ "TIMEOUT" \in Held(s) =>
    /\ call.s = s /\ call.at \in {"wait", "look", "flag", "put", "close"}
    /\ fate[s] = "timeout"

ApiInv == TypeOK /\ AtPlace /\ SendWaitedFor /\ OkIsOwn /\ TimeoutIsOwn

-----------------------------------------------------------------------------
\* At first no socket is open and no flag up.
LEMMA InitHolds == Init => ApiInv
<1> SUFFICES ASSUME Init
             PROVE  ApiInv
  OBVIOUS
<1> USE DEF Init, ChipInit, IdleCall
<1>1. 0 \in Sock
  BY MaxSockAssumption DEF Sock
<1>2. TypeOK
  BY <1>1 DEF TypeOK, ChipTypeOK, Status, Flag, Function, Protocol
<1>3. \A s \in Sock : Held(s) = {} /\ ~sending[s]
  BY DEF Held
<1>4. AtPlace
  BY <1>1 DEF AtPlace, Waiting, Datagram
<1> QED
  BY <1>2, <1>3, <1>4 DEF ApiInv, SendWaitedFor, OkIsOwn, TimeoutIsOwn

-----------------------------------------------------------------------------
(* The chip and the interrupt routine. *)

\* A UDP socket does not move by itself, and no other becomes one.
LEMMA NetKeepsUDP ==
  ASSUME NEW from \in Status, NEW to \in Status, << from, to >> \in NetStep
  PROVE  from # "UDP" /\ to # "UDP" /\ from # "CLOSED"
BY DEF NetStep, Status

\* The status of a socket may change, its flags do not.
LEMMA AdvanceKeeps ==
  ASSUME ApiInv, NEW s \in Sock, NetAdvance(s)
  PROVE  ApiInv'
<1> USE DEF ApiInv
<1>1. PICK status \in Status \ {"CLOSED"} :
        << sr[s], status >> \in NetStep /\ sr' = [sr EXCEPT ![s] = status]
  BY DEF NetAdvance, Advance
<1>2. sr[s] # "UDP" /\ status # "UDP" /\ sr[s] # "CLOSED" /\ status # "CLOSED"
  BY <1>1, NetKeepsUDP DEF TypeOK, ChipTypeOK
<1>3. UNCHANGED << ir, sending, full, fate, interrupts, I_STATUS, isr, call >>
  BY DEF NetAdvance, Advance, driver
<1>4. TypeOK'
  BY <1>1, <1>3 DEF TypeOK, ChipTypeOK
<1>5. \A t \in Sock : Held(t)' = Held(t)
  BY <1>3 DEF Held
<1>6. AtPlace'
  BY <1>1, <1>2, <1>3, <1>5 DEF AtPlace, Waiting, Datagram, TypeOK, ChipTypeOK
<1>7. SendWaitedFor' /\ OkIsOwn' /\ TimeoutIsOwn'
  BY <1>1, <1>2, <1>3, <1>5
     DEF SendWaitedFor, OkIsOwn, TimeoutIsOwn, Waiting, TypeOK, ChipTypeOK
<1> QED
  BY <1>4, <1>6, <1>7

\* A connection breaks; TIMEOUT may come up, on a socket that is not UDP.
LEMMA DropKeeps ==
  ASSUME ApiInv, NEW s \in Sock, NetDrop(s)
  PROVE  ApiInv'
<1> USE DEF ApiInv
<1>1. sr[s] # "UDP" /\ sr[s] # "CLOSED"
  BY DEF NetDrop, Drop, NetStep
<1>2. PICK raised \in {{}, {"TIMEOUT"}} : ir' = [ir EXCEPT ![s] = @ \cup raised]
  BY DEF NetDrop, Drop
<1>3. /\ UNCHANGED << full, fate, interrupts, I_STATUS, isr, call >>
      /\ sr' = [sr EXCEPT ![s] = "CLOSED"]
      /\ sending' = [sending EXCEPT ![s] = FALSE]
  BY DEF NetDrop, Drop, driver
<1>4. TypeOK'
  BY <1>2, <1>3 DEF TypeOK, ChipTypeOK, Status, Flag
<1>5. \A t \in Sock : /\ t # s => Held(t)' = Held(t)
                      /\ "SEND_OK" \in Held(t)' => "SEND_OK" \in Held(t)
  BY <1>2, <1>3 DEF Held, TypeOK, ChipTypeOK
<1>6. AtPlace'
  BY <1>1, <1>3, <1>5 DEF AtPlace, Waiting, Datagram, TypeOK, ChipTypeOK
<1>7. SendWaitedFor' /\ OkIsOwn' /\ TimeoutIsOwn'
  BY <1>1, <1>3, <1>5
     DEF SendWaitedFor, OkIsOwn, TimeoutIsOwn, Waiting, TypeOK, ChipTypeOK
<1> QED
  BY <1>4, <1>6, <1>7

\* A SEND ends while the call that gave it waits.
LEMMA SentKeeps ==
  ASSUME ApiInv, NEW s \in Sock, NetSent(s)
  PROVE  ApiInv'
<1> USE DEF ApiInv
<1>1. PICK end \in { << "SEND_OK", "sent" >>, << "TIMEOUT", "timeout" >> } :
        /\ ir' = [ir EXCEPT ![s] = @ \cup {end[1]}]
        /\ fate' = [fate EXCEPT ![s] = end[2]]
        /\ end[1] = "TIMEOUT" => sr[s] = "UDP"
  BY DEF NetSent, SendDone, SendTimeout
<1>2. /\ UNCHANGED << sr, full, interrupts, I_STATUS, isr, call >>
      /\ sending[s] /\ sending' = [sending EXCEPT ![s] = FALSE]
  BY DEF NetSent, SendDone, SendTimeout, driver
<1>3. TypeOK'
  BY <1>1, <1>2 DEF TypeOK, ChipTypeOK, Flag
<1>4. /\ call.s = s /\ Waiting /\ fate[s] = "busy"
      /\ \A t \in Sock : t # s => Held(t)' = Held(t)
      /\ Held(s)' = Held(s) \cup {end[1]}
  BY <1>1, <1>2 DEF Held, SendWaitedFor, TypeOK, ChipTypeOK
<1>5. AtPlace'
  BY <1>1, <1>2, <1>4 DEF AtPlace, Waiting, Datagram, TypeOK, ChipTypeOK
<1>6. SendWaitedFor'
  BY <1>1, <1>2, <1>4 DEF SendWaitedFor, Waiting, TypeOK, ChipTypeOK
<1>7. OkIsOwn' /\ TimeoutIsOwn'
  BY <1>1, <1>2, <1>4 DEF OkIsOwn, TimeoutIsOwn, Waiting, TypeOK, ChipTypeOK
<1> QED
  BY <1>3, <1>5, <1>6, <1>7

\* Data arrives, room is made: no flag this is about.
LEMMA OtherKeeps ==
  ASSUME ApiInv, NEW s \in Sock, NetReceive(s) \/ NetDrain(s)
  PROVE  ApiInv'
<1> USE DEF ApiInv
<1>1. /\ \/ ir' = [ir EXCEPT ![s] = @ \cup {"RECV"}] /\ sr[s] # "CLOSED"
         \/ ir' = ir
      /\ UNCHANGED << sr, sending, fate, interrupts, I_STATUS, isr, call >>
      /\ full' \in [Sock -> BOOLEAN]
  BY DEF NetReceive, NetDrain, ReceiveFlag, driver, chip, TypeOK
<1>2. TypeOK'
  BY <1>1 DEF TypeOK, ChipTypeOK, Flag
<1>3. \A t \in Sock : /\ Held(t)' \subseteq Held(t) \cup {"RECV"}
                      /\ sr[t] = "CLOSED" => Held(t)' = Held(t)
  BY <1>1 DEF Held, TypeOK, ChipTypeOK
<1>4. AtPlace'
  BY <1>1, <1>3 DEF AtPlace, Waiting, Datagram, TypeOK
<1>5. SendWaitedFor' /\ OkIsOwn' /\ TimeoutIsOwn'
  BY <1>1, <1>3 DEF SendWaitedFor, OkIsOwn, TimeoutIsOwn, Waiting
<1> QED
  BY <1>2, <1>4, <1>5

\* The routine moves flags from one place to another and loses none.
LEMMA IsrKeeps == ApiInv /\ Isr => ApiInv'
<1> SUFFICES ASSUME ApiInv, Isr
             PROVE  ApiInv'
  OBVIOUS
<1> USE DEF ApiInv
<1>1. UNCHANGED << sr, sending, full, fate, interrupts, call >> /\ interrupts
  BY DEF Isr, IsrEnter, IsrSave, IsrClear, IsrAgain, chip, TypeOK
<1>2. TypeOK' /\ \A t \in Sock : Held(t)' = Held(t)
  <2>1. CASE IsrEnter
    BY <1>1, <2>1 DEF IsrEnter, TypeOK, ChipTypeOK, chip, Raised, Held
  <2>2. CASE IsrSave
    <3> DEFINE s == First(isr.todo)
    <3> HIDE DEF s
    <3>1. I_STATUS' = [I_STATUS EXCEPT ![s] = @ \cup ir[s]] /\ UNCHANGED ir
      BY <2>2 DEF IsrSave, chip, s
    <3>2. isr' = [isr EXCEPT !.at = "clear"]
      BY <2>2 DEF IsrSave
    <3> QED
      BY <1>1, <3>1, <3>2 DEF TypeOK, ChipTypeOK, Held
  <2>3. CASE IsrClear
    <3> DEFINE s == First(isr.todo)
    <3> HIDE DEF s
    <3>1. ir' = [ir EXCEPT ![s] = @ \ I_STATUS[s]] /\ UNCHANGED I_STATUS
      BY <2>3 DEF IsrClear, s
    <3>2. isr' = [at |-> "save", todo |-> isr.todo \ {s}]
      BY <2>3 DEF IsrClear, s
    <3> QED
      BY <1>1, <3>1, <3>2 DEF TypeOK, ChipTypeOK, Held
  <2>4. CASE IsrAgain
    BY <1>1, <2>4 DEF IsrAgain, TypeOK, ChipTypeOK, chip, Raised, Held
  <2> QED
    BY <2>1, <2>2, <2>3, <2>4 DEF Isr
<1>3. AtPlace'
  BY <1>1, <1>2 DEF AtPlace, Waiting, Datagram, TypeOK
<1>4. SendWaitedFor' /\ OkIsOwn' /\ TimeoutIsOwn'
  BY <1>1, <1>2 DEF SendWaitedFor, OkIsOwn, TimeoutIsOwn, Waiting
<1> QED
  BY <1>2, <1>3, <1>4

-----------------------------------------------------------------------------
(* The thread. *)

\* The thread runs only when the routine is out and no line is pulled.
LEMMA RoutineOut ==
  ASSUME ~InISR, interrupts, TypeOK
  PROVE  isr.at = "out" /\ \A s \in Sock : ir[s] = {}
BY DEF InISR, Raised, TypeOK, ChipTypeOK

\* A call begins: all is quiet.
LEMMA CallKeeps ==
  ASSUME ApiInv, NEW s \in Sock, CallSocket(s) \/ CallClose(s) \/ CallSend(s) \/ CallSendto(s)
  PROVE  ApiInv'
<1> USE DEF ApiInv
<1>1. PICK fn \in Function, place \in {"close", "room", "copy", "return"} :
        /\ Begin(fn, s, place)
        /\ \/ fn \in {"socket", "close"} /\ place = "close"
           \/ fn = "socket" /\ place = "return"
           \/ fn = "send" /\ place = "room" /\ sr[s] # "UDP"
           \/ fn \in {"sendto", "igmpsend"} /\ place = "copy" /\ sr[s] = "UDP"
  BY DEF CallSocket, CallClose, CallSend, CallSendto, Function
<1> DEFINE linked == sr[s] \in {"ESTABLISHED", "CLOSE_WAIT"}
<1>0. linked \in BOOLEAN
  BY SMT
<1> HIDE DEF linked
<1>2. PICK len \in {0, 1}, protocol \in Protocol :
        /\ fn \in {"socket", "close"} => len = 0
        /\ call' = [at |-> place, fn |-> fn, s |-> s, ret |-> len, protocol |-> protocol,
                    enough |-> FALSE, taken |-> {}, linked |-> linked]
  BY <1>1 DEF Begin, IdleCall, linked
<1>3. call.at = "idle" /\ UNCHANGED << sr, ir, sending, full, fate, interrupts, I_STATUS, isr >>
  BY <1>1 DEF Begin, At, chip, env
<1>4. TypeOK'
  BY <1>0, <1>2, <1>3 DEF TypeOK, ChipTypeOK
<1>5. \A t \in Sock : Held(t)' = Held(t)
  BY <1>2, <1>3 DEF Held
<1>6. AtPlace'
  BY <1>1, <1>2, <1>3 DEF AtPlace, Waiting, Datagram
<1>7. SendWaitedFor' /\ OkIsOwn' /\ TimeoutIsOwn'
  BY <1>2, <1>3, <1>5 DEF SendWaitedFor, OkIsOwn, TimeoutIsOwn, Waiting
<1> QED
  BY <1>4, <1>6, <1>7

\* listen(), connect() and disconnect() open nothing.
LEMMA CommandKeeps ==
  ASSUME ApiInv, NEW s \in Sock, CallCommand(s)
  PROVE  ApiInv'
<1> USE DEF ApiInv
<1>1. PICK cmd \in {"LISTEN", "CONNECT", "DISCON"} :
        sr' = [sr EXCEPT ![s] = AfterCommand(cmd, @)]
  BY DEF CallCommand
<1> DEFINE status == AfterCommand(cmd, sr[s])
<1>2. /\ status \in Status /\ (status = "UDP" <=> sr[s] = "UDP")
      /\ status = "CLOSED" <=> sr[s] = "CLOSED"
  BY DEF AfterCommand, Status, TypeOK, ChipTypeOK
<1>3. sr' = [sr EXCEPT ![s] = status]
  BY <1>1 DEF TypeOK, ChipTypeOK
<1> HIDE DEF status
<1>4. /\ call.at = "idle"
      /\ UNCHANGED << ir, sending, full, fate, interrupts, I_STATUS, isr, call >>
  BY DEF CallCommand, At, env
<1>5. TypeOK' /\ \A t \in Sock : Held(t)' = Held(t)
  BY <1>2, <1>3, <1>4 DEF TypeOK, ChipTypeOK, Held
<1>6. AtPlace'
  BY <1>2, <1>3, <1>4, <1>5 DEF AtPlace, Waiting, Datagram, TypeOK, ChipTypeOK
<1>7. SendWaitedFor' /\ OkIsOwn' /\ TimeoutIsOwn'
  BY <1>2, <1>3, <1>4, <1>5
     DEF SendWaitedFor, OkIsOwn, TimeoutIsOwn, Waiting, TypeOK, ChipTypeOK
<1> QED
  BY <1>5, <1>6, <1>7

\* Steps of a call that change nothing but where it is and what it will return.
LEMMA ThinkKeeps ==
  ASSUME ApiInv,
         ReadRoom \/ ReadStatus \/ NothingToSend \/ ReadFlag \/ LookStatus \/ LookTimeout
  PROVE  ApiInv'
<1> USE DEF ApiInv
<1>1. /\ UNCHANGED << sr, ir, sending, full, fate, interrupts, I_STATUS, isr >>
      /\ call.at \in {"room", "status", "copy", "wait", "look"}
  BY DEF ReadRoom, ReadStatus, NothingToSend, ReadFlag, LookStatus, LookTimeout, At, chip, env
<1>2. TypeOK'
  <2>1. CASE ReadRoom
    <3>1. (call.ret = 0 \/ ~full[call.s]) \in BOOLEAN
      BY Zenon
    <3> QED
      BY <1>1, <2>1, <3>1 DEF ReadRoom, TypeOK, ChipTypeOK
  <2>2. CASE ReadStatus
    BY <1>1, <2>2 DEF ReadStatus, Goto, TypeOK, ChipTypeOK
  <2>3. CASE NothingToSend
    BY <1>1, <2>3 DEF NothingToSend, Goto, TypeOK, ChipTypeOK
  <2>4. CASE ReadFlag
    BY <1>1, <2>4 DEF ReadFlag, Goto, TypeOK, ChipTypeOK
  <2>5. CASE LookStatus
    BY <1>1, <2>5 DEF LookStatus, TypeOK, ChipTypeOK
  <2>6. CASE LookTimeout
    BY <1>1, <2>6 DEF LookTimeout, TypeOK, ChipTypeOK
  <2> QED
    BY <2>1, <2>2, <2>3, <2>4, <2>5, <2>6
<1>3. call'.s = call.s /\ call'.fn = call.fn /\ call.s \in Sock
  BY DEF ReadRoom, ReadStatus, NothingToSend, ReadFlag, LookStatus, LookTimeout, Goto, TypeOK
<1>4. \A t \in Sock : Held(t)' = Held(t)
  <2>1. call'.at # "put"
    BY DEF ReadRoom, ReadStatus, NothingToSend, ReadFlag, LookStatus, LookTimeout, Goto,
           TypeOK
  <2> QED
    BY <1>1, <2>1 DEF Held
<1>5. \A flag \in Flags(call.s) : flag \in Held(call.s)
  BY DEF Flags, Held
<1>6. CASE ReadRoom \/ ReadStatus \/ NothingToSend
  <2>1. /\ call.at \in {"room", "status", "copy"}
        /\ call'.at \in {"room", "status", "copy", "return"}
        /\ call'.at \in {"room", "status"} => call.at \in {"room", "status"}
        /\ call'.at = "copy" => call.at = "status"
        /\ call'.at = "return" => call'.ret = 0
    BY <1>6 DEF ReadRoom, ReadStatus, NothingToSend, Goto, At, TypeOK
  <2>2. AtPlace'
    BY <1>1, <1>3, <2>1 DEF AtPlace, Waiting, Datagram
  <2> QED
    BY <1>1, <1>2, <1>3, <1>4, <2>1, <2>2 DEF SendWaitedFor, OkIsOwn, TimeoutIsOwn, Waiting
<1>7. CASE ReadFlag
  <2>1. /\ call.at = "wait" /\ call'.ret = call.ret
        /\ \/ call'.at = "flag" /\ "SEND_OK" \in Held(call.s)
           \/ call'.at = "look"
    BY <1>5, <1>7 DEF ReadFlag, Goto, At, TypeOK
  <2>2. call'.at = "flag" => fate[call.s] = "sent"
    BY <1>3, <2>1 DEF OkIsOwn
  <2>3. AtPlace'
    BY <1>1, <1>3, <2>1, <2>2 DEF AtPlace, Waiting, Datagram
  <2> QED
    BY <1>1, <1>2, <1>3, <1>4, <2>1, <2>2, <2>3
       DEF SendWaitedFor, OkIsOwn, TimeoutIsOwn, Waiting
<1>8. CASE LookStatus
  <2>1. /\ call.at = "look" /\ call.fn = "send"
        /\ \/ call'.at = "close" /\ call'.ret = 0 /\ sr[call.s] = "CLOSED"
           \/ call'.at = "wait" /\ call'.ret = call.ret
    BY <1>8 DEF LookStatus, At, TypeOK
  <2>2. AtPlace'
    BY <1>1, <1>3, <2>1 DEF AtPlace, Waiting, Datagram
  <2> QED
    BY <1>1, <1>2, <1>3, <1>4, <2>1, <2>2
       DEF SendWaitedFor, OkIsOwn, TimeoutIsOwn, Waiting
<1>9. CASE LookTimeout
  <2>1. /\ call.at = "look" /\ call.fn \in {"sendto", "igmpsend"} /\ sr[call.s] = "UDP"
        /\ \/ /\ call'.at = IF call.fn = "igmpsend" THEN "close" ELSE "flag"
              /\ call'.ret = 0 /\ "TIMEOUT" \in Held(call.s)
           \/ call'.at = "wait" /\ call'.ret = call.ret
    BY <1>5, <1>9 DEF LookTimeout, At, AtPlace, Waiting, Datagram, TypeOK, Function
  <2>2. call'.at \in {"close", "flag"} => fate[call.s] = "timeout"
    BY <1>3, <2>1 DEF TimeoutIsOwn
  <2>3. AtPlace'
    BY <1>1, <1>3, <2>1, <2>2 DEF AtPlace, Waiting, Datagram
  <2> QED
    BY <1>1, <1>2, <1>3, <1>4, <2>1, <2>2, <2>3
       DEF SendWaitedFor, OkIsOwn, TimeoutIsOwn, Waiting
<1> QED
  BY <1>6, <1>7, <1>8, <1>9

\* close(): the socket is closed, and its SEND given up.
LEMMA CloseCommandKeeps ==
  ASSUME ApiInv, CloseCommand
  PROVE  ApiInv'
<1> USE DEF ApiInv
<1>1. /\ sr' = [sr EXCEPT ![call.s] = "CLOSED"]
      /\ sending' = [sending EXCEPT ![call.s] = FALSE]
      /\ full' = [full EXCEPT ![call.s] = FALSE]
      /\ fate' = [fate EXCEPT ![call.s] = "none"]
      /\ call.at = "close" /\ call' = [call EXCEPT !.at = "closed"]
      /\ UNCHANGED << ir, interrupts, I_STATUS, isr >>
  BY DEF CloseCommand, At, Command, AfterCommand, AfterSending, Goto, env
<1>2. TypeOK'
  BY <1>1 DEF TypeOK, ChipTypeOK, Status
<1>3. call.s \in Sock /\ call'.at = "closed" /\ call'.s = call.s /\ call'.fn = call.fn
      /\ call'.ret = call.ret
  BY <1>1 DEF TypeOK
<1>4. \A t \in Sock : Held(t)' = Held(t)
  BY <1>1, <1>3 DEF Held
<1>5. AtPlace'
  BY <1>1, <1>3 DEF AtPlace, Waiting, Datagram, TypeOK, ChipTypeOK
<1>6. SendWaitedFor' /\ OkIsOwn' /\ TimeoutIsOwn'
  BY <1>1, <1>3, <1>4
     DEF SendWaitedFor, OkIsOwn, TimeoutIsOwn, Waiting, TypeOK, ChipTypeOK
<1> QED
  BY <1>2, <1>5, <1>6

\* The flags are cleared, where they are.
LEMMA CloseFlagsKeeps ==
  ASSUME ApiInv, CloseFlags
  PROVE  ApiInv'
<1> USE DEF ApiInv
<1>1. /\ call.at = "closed" /\ ~InISR
      /\ call' = [call EXCEPT !.at = IF call.fn = "socket" THEN "open" ELSE "return"]
      /\ UNCHANGED << sr, sending, full, fate, interrupts, isr >>
  BY DEF CloseFlags, At, Goto
<1>2. /\ call.s \in Sock /\ call'.at \in {"open", "return"} /\ call'.s = call.s
      /\ call'.fn = call.fn /\ call'.ret = call.ret
  BY <1>1 DEF TypeOK
<1>3. TypeOK' /\ Held(call.s)' = {} /\ \A t \in Sock : Held(t)' \subseteq Held(t)
  <2>1. CASE interrupts
    <3>1. I_STATUS' = [I_STATUS EXCEPT ![call.s] = {}] /\ UNCHANGED ir
      BY <2>1 DEF CloseFlags
    <3>2. \A t \in Sock : ir[t] = {}
      BY <1>1, <2>1, RoutineOut
    <3> QED
      BY <1>1, <1>2, <2>1, <3>1, <3>2 DEF TypeOK, ChipTypeOK, Held
  <2>2. CASE ~interrupts
    <3>1. ir' = [ir EXCEPT ![call.s] = {}] /\ UNCHANGED I_STATUS
      BY <2>2 DEF CloseFlags
    <3> QED
      BY <1>1, <1>2, <2>2, <3>1 DEF TypeOK, ChipTypeOK, Held
  <2> QED
    BY <2>1, <2>2
<1>4. AtPlace'
  BY <1>1, <1>2, <1>3 DEF AtPlace, Waiting, Datagram
<1>5. SendWaitedFor' /\ OkIsOwn' /\ TimeoutIsOwn'
  BY <1>1, <1>2, <1>3 DEF SendWaitedFor, OkIsOwn, TimeoutIsOwn, Waiting
<1> QED
  BY <1>3, <1>4, <1>5

\* socket(): the socket is opened with no flags up.
LEMMA OpenKeeps ==
  ASSUME ApiInv, OpenCommand
  PROVE  ApiInv'
<1> USE DEF ApiInv
<1>1. PICK status \in {"INIT", "UDP"} : sr' = [sr EXCEPT ![call.s] = status]
  BY DEF OpenCommand, OpenStatus
<1>2. /\ call.at = "open" /\ call' = [call EXCEPT !.at = "return"]
      /\ UNCHANGED << ir, sending, full, fate, interrupts, I_STATUS, isr >>
  BY DEF OpenCommand, At, Goto, env
<1>3. /\ call.s \in Sock /\ call'.at = "return" /\ call'.s = call.s
      /\ call'.fn = call.fn /\ call'.ret = call.ret /\ call.ret = 0
  BY <1>2 DEF TypeOK, AtPlace
<1>4. TypeOK' /\ \A t \in Sock : Held(t)' = Held(t)
  BY <1>1, <1>2, <1>3 DEF TypeOK, ChipTypeOK, Status, Held
<1>5. AtPlace'
  BY <1>1, <1>2, <1>3 DEF AtPlace, Waiting, Datagram, TypeOK, ChipTypeOK
<1>6. SendWaitedFor' /\ OkIsOwn' /\ TimeoutIsOwn'
  BY <1>1, <1>2, <1>3, <1>4
     DEF AtPlace, SendWaitedFor, OkIsOwn, TimeoutIsOwn, Waiting, TypeOK, ChipTypeOK
<1> QED
  BY <1>4, <1>5, <1>6

\* SEND is commanded when no flag of an earlier one is left.
LEMMA SendKeeps ==
  ASSUME ApiInv, SendCommand
  PROVE  ApiInv'
<1> USE DEF ApiInv
<1>1. /\ call.at = "copy" /\ call' = [call EXCEPT !.at = "wait"]
      /\ UNCHANGED << ir, interrupts, I_STATUS, isr >>
      /\ full' \in [Sock -> BOOLEAN]
      /\ call.fn = "send" \/ call.ret > 0
  BY DEF SendCommand, At, Goto, env, TypeOK
<1>2. call.s \in Sock /\ ~sending[call.s]
  BY <1>1 DEF SendWaitedFor, Waiting, TypeOK
<1>3. UNCHANGED sr
  BY <1>2 DEF SendCommand, Command, AfterCommand, TypeOK, ChipTypeOK
<1>4. PICK f \in {"busy", "none"}, busy \in BOOLEAN :
        /\ sending' = [sending EXCEPT ![call.s] = busy]
        /\ fate' = [fate EXCEPT ![call.s] = f]
        /\ busy => f = "busy" /\ sr[call.s] # "CLOSED"
  <2>1. CASE sr[call.s] \in Sendable
    BY <1>2, <2>1
       DEF SendCommand, Command, AfterSending, Sendable, TypeOK, ChipTypeOK
  <2>2. CASE sr[call.s] \notin Sendable
    BY <1>2, <2>2
       DEF SendCommand, Command, AfterSending, TypeOK, ChipTypeOK
  <2> QED
    BY <2>1, <2>2
<1>5. call'.at = "wait" /\ call'.s = call.s /\ call'.fn = call.fn /\ call'.ret = call.ret
  BY <1>1 DEF TypeOK
<1>6. TypeOK' /\ \A t \in Sock : Held(t)' = Held(t)
  BY <1>1, <1>2, <1>3, <1>4, <1>5 DEF TypeOK, ChipTypeOK, Held
<1>7. AtPlace'
  <2>1. Datagram => call.ret = 1 /\ sr[call.s] = "UDP"
    BY <1>1 DEF AtPlace, Datagram, TypeOK
  <2> QED
    BY <1>1, <1>3, <1>5, <2>1 DEF AtPlace, Waiting, Datagram
<1>8. "SEND_OK" \notin Held(call.s) /\ (sr[call.s] = "UDP" => "TIMEOUT" \notin Held(call.s))
  BY <1>1, <1>2 DEF OkIsOwn, TimeoutIsOwn
<1>9. SendWaitedFor' /\ OkIsOwn' /\ TimeoutIsOwn'
  BY <1>1, <1>2, <1>3, <1>4, <1>5, <1>6, <1>8
     DEF SendWaitedFor, OkIsOwn, TimeoutIsOwn, Waiting, TypeOK, ChipTypeOK
<1> QED
  BY <1>6, <1>7, <1>9

\* The flags are acknowledged, read by getISR() or written back by putISR(): SEND_OK goes,
\* and TIMEOUT of a datagram.
LEMMA AcknowledgeKeeps ==
  ASSUME ApiInv, ClearFlag \/ GetISR \/ PutISR
  PROVE  ApiInv'
<1> USE DEF ApiInv
<1>1. /\ call.at \in {"flag", "put"} /\ ~InISR /\ call.s \in Sock
      /\ UNCHANGED << sr, sending, full, fate, interrupts, isr >>
      /\ call'.s = call.s /\ call'.fn = call.fn /\ call'.ret = call.ret
  BY DEF ClearFlag, GetISR, PutISR, At, Goto, chip, env, TypeOK
<1>2. /\ "SEND_OK" \in Acknowledged
      /\ sr[call.s] = "UDP" /\ "TIMEOUT" \in Held(call.s) => "TIMEOUT" \in Acknowledged
  <2>1. "SEND_OK" \in Acknowledged
    BY DEF Acknowledged
  <2>2. ASSUME sr[call.s] = "UDP", "TIMEOUT" \in Held(call.s)
        PROVE  "TIMEOUT" \in Acknowledged
    <3>1. fate[call.s] = "timeout"
      BY <1>1, <2>2 DEF TimeoutIsOwn
    <3>2. call.ret = 0
      BY <1>1, <3>1 DEF AtPlace, TypeOK
    <3>3. call.fn = "sendto"
      BY <1>1, <2>2, <3>2 DEF AtPlace, TypeOK, Function
    <3> QED
      BY <3>2, <3>3 DEF Acknowledged
  <2> QED
    BY <2>1, <2>2
<1>3. CASE GetISR
  <2>1. /\ call.at = "flag" /\ interrupts
        /\ call' = [call EXCEPT !.at = "put", !.taken = I_STATUS[call.s]]
        /\ UNCHANGED << ir, I_STATUS >>
    BY <1>3 DEF GetISR, At, chip, env
  <2>2. TypeOK' /\ call'.at = "put" /\ call'.taken = I_STATUS[call.s]
    BY <1>1, <2>1 DEF TypeOK, ChipTypeOK
  <2>3. \A t \in Sock : Held(t)' = Held(t)
    BY <1>1, <2>1, <2>2 DEF Held
  <2>4. AtPlace'
    BY <1>1, <2>1, <2>2 DEF AtPlace, Waiting, Datagram
  <2> QED
    BY <1>1, <2>1, <2>2, <2>3, <2>4 DEF SendWaitedFor, OkIsOwn, TimeoutIsOwn, Waiting
<1>4. CASE ClearFlag \/ PutISR
  <2>1. /\ TypeOK' /\ call'.at = "return"
        /\ Held(call.s)' \subseteq Held(call.s) \ Acknowledged
        /\ \A t \in Sock : t # call.s => Held(t)' = Held(t)
    <3>1. CASE ClearFlag
      <4>1. /\ ~interrupts /\ call.at = "flag"
            /\ ir' = [ir EXCEPT ![call.s] = @ \ Acknowledged]
            /\ call' = [call EXCEPT !.at = "return"] /\ UNCHANGED I_STATUS
        BY <3>1 DEF ClearFlag, At, Goto, env
      <4> QED
        BY <1>1, <4>1 DEF TypeOK, ChipTypeOK, Held
    <3>2. CASE PutISR
      <4>1. /\ interrupts /\ call.at = "put"
            /\ I_STATUS' = [I_STATUS EXCEPT ![call.s] = call.taken \ Acknowledged]
            /\ call' = [call EXCEPT !.at = "return", !.taken = {}] /\ UNCHANGED ir
        BY <3>2 DEF PutISR, At, AtPlace, chip
      <4>2. \A t \in Sock : ir[t] = {}
        BY <1>1, <4>1, RoutineOut
      <4> QED
        BY <1>1, <4>1, <4>2 DEF TypeOK, ChipTypeOK, Held
    <3> QED
      BY <1>4, <3>1, <3>2
  <2>2. AtPlace'
    BY <1>1, <2>1 DEF AtPlace, Waiting, Datagram
  <2>3. SendWaitedFor' /\ OkIsOwn' /\ TimeoutIsOwn'
    BY <1>1, <1>2, <2>1 DEF SendWaitedFor, OkIsOwn, TimeoutIsOwn, Waiting
  <2> QED
    BY <2>1, <2>2, <2>3
<1> QED
  BY <1>3, <1>4

\* The call is over, and nothing of it is left.
LEMMA ReturnKeeps ==
  ASSUME ApiInv, Return
  PROVE  ApiInv'
<1> USE DEF ApiInv
<1>1. /\ call.at = "return"
      /\ call' = [at |-> "idle", fn |-> "close", s |-> 0, ret |-> 0, protocol |-> "TCP",
                  enough |-> FALSE, taken |-> {}, linked |-> FALSE]
      /\ UNCHANGED << sr, ir, sending, full, fate, interrupts, I_STATUS, isr >>
  BY DEF Return, At, IdleCall, chip, env
<1>2. TypeOK'
  BY <1>1, MaxSockAssumption DEF TypeOK, ChipTypeOK, Sock, Function, Protocol
<1>3. \A t \in Sock : Held(t)' = Held(t)
  BY <1>1 DEF Held
<1>4. AtPlace'
  BY <1>1 DEF AtPlace, Waiting, Datagram
<1>5. SendWaitedFor' /\ OkIsOwn' /\ TimeoutIsOwn'
  BY <1>1, <1>3 DEF SendWaitedFor, OkIsOwn, TimeoutIsOwn, Waiting
<1> QED
  BY <1>2, <1>4, <1>5

\* Every step keeps the invariant: the thread, the routine and the network.
LEMMA StepKeeps == ApiInv /\ [Next]_vars => ApiInv'
<1> SUFFICES ASSUME ApiInv, [Next]_vars
             PROVE  ApiInv'
  OBVIOUS
<1>1. CASE InCall
  BY <1>1, ThinkKeeps, CloseCommandKeeps, CloseFlagsKeeps, OpenKeeps, SendKeeps,
     AcknowledgeKeeps, ReturnKeeps DEF InCall
<1>2. CASE Sketch
  BY <1>2, CallKeeps, CommandKeeps DEF Sketch
<1>3. CASE Isr
  BY <1>3, IsrKeeps
<1>4. CASE Network
  BY <1>4, AdvanceKeeps, DropKeeps, SentKeeps, OtherKeeps DEF Network
<1>5. CASE UNCHANGED vars
  BY <1>5 DEF vars, chip, ApiInv, TypeOK, ChipTypeOK, AtPlace, SendWaitedFor, OkIsOwn,
              TimeoutIsOwn, Held, Waiting, Datagram
<1> QED
  BY <1>1, <1>2, <1>3, <1>4, <1>5 DEF Next

-----------------------------------------------------------------------------
(* Theorems. *)

\* The invariant at every moment.
LEMMA ApiInvariant == Spec => []ApiInv
BY InitHolds, StepKeeps, PTL DEF Spec

\* A length returned means that the data has gone out, and a sendto() that has waited and
\* returns 0 that the datagram was given up (socket.c:228-251, :350-374), also if the
\* interrupt routine moves flags between any two looks at them (w5100.c:294).
THEOREM FlagsAreTrue == Spec => []FlagsTrue
<1>1. ApiInv => FlagsTrue
  BY DEF ApiInv, AtPlace, FlagsTrue
<1> QED
  BY <1>1, ApiInvariant, PTL

\* Flags, places and the routine's readings stay what they are declared to be, whichever
\* way the routine and the calls interleave (w5100.c:294-370).
THEOREM ApiTypes == Spec => []TypeOK
<1>1. ApiInv => TypeOK
  BY DEF ApiInv
<1> QED
  BY <1>1, ApiInvariant, PTL
=============================================================================
