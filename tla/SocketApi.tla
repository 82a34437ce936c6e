------------------------------ MODULE SocketApi ------------------------------
(***************************************************************************)
(* The blocking socket functions of Ethernet/utility/socket.c, in both of  *)
(* their builds: with __DEF_IINCHIP_INT__ an interrupt routine (w5100.c)   *)
(* moves the flags of Sn_IR into I_STATUS and the functions look there;    *)
(* without it they look at Sn_IR themselves.                               *)
(*                                                                         *)
(* Three act here: the one thread, which is in at most one call; the       *)
(* routine, which runs as soon as the chip raises a flag, so between any   *)
(* two bus cycles of the thread, and before the next one; and the chip.    *)
(* What the thread does between two bus cycles, and the spin until Sn_CR   *)
(* is clear, belongs to the step before it.                                *)
(*                                                                         *)
(* Of data only its being there counts: a length is 0 or 1, and full says  *)
(* that the ring has less room than the call asks for.  Source ports and   *)
(* addresses are left out.  recv() and recvfrom() are in RxPath.           *)
(***************************************************************************)
EXTENDS W5100

VARIABLES
  full,         \* has the ring too little room, because the peer is slow?
  fate,         \* history: what became of the last SEND of a socket
  interrupts,   \* is this the build with the interrupt routine?
  I_STATUS,     \* flags the routine has collected
  isr,          \* the routine: where it is, sockets still to serve in this round
  call          \* the thread: where it is, function, socket, result, ...

vars == << chip, full, fate, interrupts, I_STATUS, isr, call >>

Function == {"socket", "close", "send", "sendto", "igmpsend"}

IdleCall == [at |-> "idle", fn |-> "close", s |-> 0, ret |-> 0,
             protocol |-> "TCP", enough |-> FALSE, taken |-> {}, linked |-> FALSE]

\* Every failure returns 0, also that of sendto(), of which the comment at socket.c:292 says
\* "else -1".
TypeOK ==
  /\ ChipTypeOK
  /\ full \in [Sock -> BOOLEAN]
  /\ fate \in [Sock -> {"none", "busy", "sent", "timeout"}]
  /\ interrupts \in BOOLEAN
  /\ I_STATUS \in [Sock -> SUBSET Flag]
  /\ isr \in [at : {"out", "save", "clear"}, todo : SUBSET Sock]
  /\ ~interrupts => isr.at = "out" /\ I_STATUS = [s \in Sock |-> {}]
  /\ call \in [at : {"idle", "close", "closed", "open", "room", "status", "copy", "wait",
                     "look", "flag", "put", "return"},
               fn : Function, s : Sock, ret : {0, 1}, protocol : Protocol,
               enough : BOOLEAN, taken : SUBSET Flag, linked : BOOLEAN]

Init ==
  /\ ChipInit
  /\ full = [s \in Sock |-> FALSE]
  /\ fate = [s \in Sock |-> "none"]
  /\ interrupts \in BOOLEAN
  /\ I_STATUS = [s \in Sock |-> {}]
  /\ isr = [at |-> "out", todo |-> {}]
  /\ call = IdleCall

-----------------------------------------------------------------------------
(* The interrupt routine. *)

\* The bits IR_SOCK(s) of the register IR, which also pull the line.
Raised == { s \in Sock : ir[s] # {} }

InISR == isr.at # "out" \/ (interrupts /\ Raised # {})

First(S) == CHOOSE s \in S : \A t \in S : s <= t

\* Mutant: the routine is installed in the other build, too.
IsrEnter_BothBuilds ==
  /\ isr.at = "out" /\ Raised # {}
  /\ isr' = [at |-> "save", todo |-> Raised]
  /\ UNCHANGED << chip, full, fate, interrupts, I_STATUS, call >>

\* int_val = IINCHIP_READ(IR).
IsrEnter ==
  /\ interrupts /\ isr.at = "out" /\ Raised # {}
  /\ isr' = [at |-> "save", todo |-> Raised]
  /\ UNCHANGED << chip, full, fate, interrupts, I_STATUS, call >>

\* I_STATUS[s] |= IINCHIP_READ(Sn_IR(s)), one socket after the other.
IsrSave ==
  /\ isr.at = "save" /\ isr.todo # {}
  /\ LET s == First(isr.todo) IN I_STATUS' = [I_STATUS EXCEPT ![s] = @ \cup ir[s]]
  /\ isr' = [isr EXCEPT !.at = "clear"]
  /\ UNCHANGED << chip, full, fate, interrupts, call >>

\* Mutant: all flags of the socket are cleared, those just raised included.
IsrClear_All ==
  /\ isr.at = "clear"
  /\ LET s == First(isr.todo) IN
       /\ ir' = [ir EXCEPT ![s] = {}]
       /\ isr' = [at |-> "save", todo |-> isr.todo \ {s}]
  /\ UNCHANGED << sr, sending, full, fate, interrupts, I_STATUS, call >>

\* IINCHIP_WRITE(Sn_IR(s), I_STATUS[s]): a flag raised since the reading stays.
IsrClear ==
  /\ isr.at = "clear"
  /\ LET s == First(isr.todo) IN
       /\ ir' = [ir EXCEPT ![s] = @ \ I_STATUS[s]]
       /\ isr' = [at |-> "save", todo |-> isr.todo \ {s}]
  /\ UNCHANGED << sr, sending, full, fate, interrupts, I_STATUS, call >>

\* IR is read again, and the loop goes on while it is not zero.
IsrAgain ==
  /\ isr.at = "save" /\ isr.todo = {}
  /\ isr' = [at |-> IF Raised = {} THEN "out" ELSE "save", todo |-> Raised]
  /\ UNCHANGED << chip, full, fate, interrupts, I_STATUS, call >>

Isr == IsrEnter \/ IsrSave \/ IsrClear \/ IsrAgain

-----------------------------------------------------------------------------
(* Steps of the thread. *)

\* The flags of socket s as the thread sees them: getISR() or Sn_IR.
Flags(s) == IF interrupts THEN I_STATUS[s] ELSE ir[s]

At(place) == call.at = place /\ ~InISR

Goto(place) == call' = [call EXCEPT !.at = place]

Command(cmd) ==
  /\ sr' = [sr EXCEPT ![call.s] = AfterCommand(cmd, @)]
  /\ sending' = [sending EXCEPT ![call.s] = AfterSending(cmd, sr[call.s], @)]

env == << interrupts, I_STATUS, isr >>

\* A call of function fn begins at place.
Begin(fn, s, place) ==
  /\ At("idle")
  /\ \E len \in {0, 1}, protocol \in Protocol :
        /\ fn # "socket" => protocol = "TCP"
        /\ fn \in {"socket", "close"} => len = 0
        /\ call' = [IdleCall EXCEPT !.at = place, !.fn = fn, !.s = s, !.ret = len,
                                    !.protocol = protocol,
                                    !.linked = sr[s] \in {"ESTABLISHED", "CLOSE_WAIT"}]
  /\ UNCHANGED << chip, full, fate, env >>

\* socket() closes the socket first, or returns at once if it does not know the protocol;
\* close() does nothing else.
CallSocket(s) == Begin("socket", s, "close") \/ Begin("socket", s, "return")
CallClose(s) == Begin("close", s, "close")

\* send() is for TCP sockets; sendto() and igmpsend() are for open UDP sockets.
CallSend(s) == sr[s] # "UDP" /\ Begin("send", s, "room")
CallSendto(s) == sr[s] = "UDP" /\ \E fn \in {"sendto", "igmpsend"} : Begin(fn, s, "copy")

\* listen(), connect() and disconnect() are one command, of listen() after a look at the
\* status that stays INIT; connect() gives none for an invalid address.
CallCommand(s) ==
  /\ At("idle")
  /\ \E cmd \in {"LISTEN", "CONNECT", "DISCON"} :
        sr' = [sr EXCEPT ![s] = AfterCommand(cmd, @)]
  /\ UNCHANGED << ir, sending, full, fate, env, call >>

\* close(): the command ...
CloseCommand ==
  /\ At("close")
  /\ Command("CLOSE")
  /\ full' = [full EXCEPT ![call.s] = FALSE]
  /\ fate' = [fate EXCEPT ![call.s] = "none"]
  /\ Goto("closed")
  /\ UNCHANGED << ir, env >>

\* ... and all flags of the socket are cleared.
CloseFlags ==
  /\ At("closed")
  /\ IF interrupts
     THEN I_STATUS' = [I_STATUS EXCEPT ![call.s] = {}] /\ UNCHANGED ir
     ELSE ir' = [ir EXCEPT ![call.s] = {}] /\ UNCHANGED I_STATUS
  /\ Goto(IF call.fn = "socket" THEN "open" ELSE "return")
  /\ UNCHANGED << sr, sending, full, fate, interrupts, isr >>

\* socket(): the mode is set and OPEN commanded.
OpenCommand ==
  /\ At("open")
  /\ sr' = [sr EXCEPT ![call.s] = OpenStatus(call.protocol)]
  /\ Goto("return")
  /\ UNCHANGED << ir, sending, full, fate, env >>

\* send(): the free size is read,
ReadRoom ==
  /\ At("room")
  /\ call' = [call EXCEPT !.at = "status", !.enough = (call.ret = 0 \/ ~full[call.s])]
  /\ UNCHANGED << chip, full, fate, env >>

\* then the status: without a connection send() goes on with nothing to send, with one it
\* waits for room.
ReadStatus ==
  /\ At("status")
  /\ call' = IF sr[call.s] \notin {"ESTABLISHED", "CLOSE_WAIT"}
             THEN [call EXCEPT !.at = "copy", !.ret = 0]
             ELSE [call EXCEPT !.at = IF call.enough THEN "copy" ELSE "room"]
  /\ UNCHANGED << chip, full, fate, env >>

\* sendto() and igmpsend() give up at once when there is nothing to send.
NothingToSend ==
  /\ At("copy") /\ call.fn # "send" /\ call.ret = 0
  /\ Goto("return")
  /\ UNCHANGED << chip, full, fate, env >>

\* The data is copied into the ring, and SEND commanded.
SendCommand ==
  /\ At("copy") /\ (call.fn = "send" \/ call.ret > 0)
  /\ Command("SEND")
  /\ \E b \in BOOLEAN : full' = [full EXCEPT ![call.s] = b]
  /\ fate' = [fate EXCEPT ![call.s] = IF sending'[call.s] THEN "busy" ELSE "none"]
  /\ Goto("wait")
  /\ UNCHANGED << ir, env >>

\* Is SEND_OK up?  If not, there is a second look,
ReadFlag ==
  /\ At("wait")
  /\ Goto(IF "SEND_OK" \in Flags(call.s) THEN "flag" ELSE "look")
  /\ UNCHANGED << chip, full, fate, env >>

\* of send() at the status: a closed connection is cleared up, and 0 returned;
LookStatus ==
  /\ At("look") /\ call.fn = "send"
  /\ call' = IF sr[call.s] = "CLOSED"
             THEN [call EXCEPT !.at = "close", !.ret = 0]
             ELSE [call EXCEPT !.at = "wait"]
  /\ UNCHANGED << chip, full, fate, env >>

\* of the others at TIMEOUT: sendto() clears it, igmpsend() closes the socket.
LookTimeout ==
  /\ At("look") /\ call.fn # "send"
  /\ call' = IF "TIMEOUT" \notin Flags(call.s) THEN [call EXCEPT !.at = "wait"]
             ELSE [call EXCEPT !.at = IF call.fn = "igmpsend" THEN "close" ELSE "flag",
                               !.ret = 0]
  /\ UNCHANGED << chip, full, fate, env >>

\* Mutant: SEND_OK is taken to go away by itself.
Acknowledged_FailureOnly == IF call.fn = "sendto" /\ call.ret = 0
                            THEN {"SEND_OK", "TIMEOUT"} ELSE {}

\* The flags a call clears before it returns.
Acknowledged == IF call.fn = "sendto" /\ call.ret = 0 THEN {"SEND_OK", "TIMEOUT"}
                ELSE {"SEND_OK"}

\* Without the routine: a one written to a bit of Sn_IR clears it.
ClearFlag ==
  /\ At("flag") /\ ~interrupts
  /\ ir' = [ir EXCEPT ![call.s] = @ \ Acknowledged]
  /\ Goto("return")
  /\ UNCHANGED << sr, sending, full, fate, env >>

\* With it: putISR(s, getISR(s) & ~flags), and the routine may run between the two.
GetISR ==
  /\ At("flag") /\ interrupts
  /\ call' = [call EXCEPT !.at = "put", !.taken = I_STATUS[call.s]]
  /\ UNCHANGED << chip, full, fate, env >>

PutISR ==
  /\ At("put")
  /\ I_STATUS' = [I_STATUS EXCEPT ![call.s] = call.taken \ Acknowledged]
  /\ call' = [call EXCEPT !.at = "return", !.taken = {}]
  /\ UNCHANGED << chip, full, fate, interrupts, isr >>

Return ==
  /\ At("return")
  /\ call' = IdleCall
  /\ UNCHANGED << chip, full, fate, env >>

InCall == \/ CloseCommand \/ CloseFlags \/ OpenCommand
          \/ ReadRoom \/ ReadStatus \/ NothingToSend \/ SendCommand
          \/ ReadFlag \/ LookStatus \/ LookTimeout
          \/ ClearFlag \/ GetISR \/ PutISR \/ Return

Sketch == \E s \in Sock : \/ CallSocket(s) \/ CallClose(s) \/ CallCommand(s)
                          \/ CallSend(s) \/ CallSendto(s)

-----------------------------------------------------------------------------
(* The chip. *)

driver == << interrupts, I_STATUS, isr, call >>

NetAdvance(s) == Advance(s) /\ UNCHANGED << full, fate, driver >>

NetDrop(s) == Drop(s) /\ UNCHANGED << full, fate, driver >>

\* A SEND ends, one way or the other.
NetSent(s) ==
  \/ SendDone(s) /\ fate' = [fate EXCEPT ![s] = "sent"] /\ UNCHANGED << full, driver >>
  \/ SendTimeout(s) /\ fate' = [fate EXCEPT ![s] = "timeout"] /\ UNCHANGED << full, driver >>

\* Data arrives.  What the routine has collected once it is not told again: it would only
\* set the same bit.
NetReceive(s) ==
  /\ "RECV" \notin I_STATUS[s]
  /\ ReceiveFlag(s)
  /\ UNCHANGED << full, fate, driver >>

\* The peer makes room.
NetDrain(s) ==
  /\ full[s]
  /\ full' = [full EXCEPT ![s] = FALSE]
  /\ UNCHANGED << chip, fate, driver >>

Network == \E s \in Sock : \/ NetAdvance(s) \/ NetDrop(s) \/ NetSent(s)
                           \/ NetReceive(s) \/ NetDrain(s)

Next == InCall \/ Sketch \/ Isr \/ Network

\* The thread runs on in a call, and so does the routine; the chip ends every SEND of a
\* connection that lasts; the peer takes what it is sent.
Fairness ==
  /\ WF_vars(InCall) /\ WF_vars(Isr)
  /\ \A s \in Sock : WF_vars(NetSent(s)) /\ WF_vars(NetDrain(s))

Spec == Init /\ [][Next]_vars /\ Fairness

-----------------------------------------------------------------------------
(* Properties. *)

\* What a call takes from the flags is true of its own data, on this connection: a length
\* returned means that the data has gone out, and a sendto() that waited and returns 0 that
\* the chip gave the datagram up.  No SEND_OK and no TIMEOUT of an earlier call is left
\* behind in Sn_IR or I_STATUS (socket.c:228-251, :350-374, :78-85).
FlagsTrue ==
  /\ (call.at = "return" /\ call.ret > 0 /\ call.fn # "socket") => fate[call.s] = "sent"
  /\ (call.at = "flag" /\ call.fn = "sendto" /\ call.ret = 0) => fate[call.s] = "timeout"

\* sendto(), igmpsend(), and send() called on a connection return, also if the connection
\* breaks, the datagram gets no answer, or the routine moves the flags while they are
\* looked at: a flag raised is not lost (socket.c:229-250, w5100.c:294).
CallsReturn ==
  (call.at # "idle" /\ (call.linked \/ call.fn # "send")) ~> (call.at = "idle")
=============================================================================
