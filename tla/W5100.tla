------------------------------- MODULE W5100 -------------------------------
(***************************************************************************)
(* The W5100 controller as its driver sees it: for every hardware socket   *)
(* the status register Sn_SR, the flags of Sn_IR the driver looks at, and  *)
(* whether a SEND command is still being carried out.                      *)
(*                                                                         *)
(* sendCommand() writes Sn_CR and spins until the chip has cleared it, so  *)
(* a command and its execution are one step: whatever the chip does before *)
(* it executes the command commutes with the write, whatever it does after *)
(* commutes with the end of the spin.                                      *)
(***************************************************************************)
EXTENDS W5100Status

\* The bits of Sn_IR the driver reads, and RECV, which it never looks at but which comes
\* up together with them (so would DISCON and CON, which are left out).
Flag == { "SEND_OK", "TIMEOUT", "RECV" }

VARIABLES
  sr,          \* Sn_SR: the status of each socket
  ir,          \* Sn_IR: the flags raised and not yet cleared by the driver
  sending      \* is a SEND command of this socket still under way?

chip == << sr, ir, sending >>

ChipTypeOK ==
  /\ sr \in [Sock -> Status]
  /\ ir \in [Sock -> SUBSET Flag]
  /\ sending \in [Sock -> BOOLEAN]

ChipInit ==
  /\ sr = [s \in Sock |-> "CLOSED"]
  /\ ir = [s \in Sock |-> {}]
  /\ sending = [s \in Sock |-> FALSE]

-----------------------------------------------------------------------------
(* What the chip does on its own. *)

\* The network moves an open connection on without closing it.
Advance(s) ==
  /\ \E status \in Status \ {"CLOSED"} :
        /\ << sr[s], status >> \in NetStep
        /\ sr' = [sr EXCEPT ![s] = status]
  /\ UNCHANGED << ir, sending >>

\* The network closes a connection; a SEND under way is abandoned, and if the cause is
\* a timeout the chip says so.
Drop(s) ==
  /\ << sr[s], "CLOSED" >> \in NetStep
  /\ sr' = [sr EXCEPT ![s] = "CLOSED"]
  /\ sending' = [sending EXCEPT ![s] = FALSE]
  /\ \E raised \in { {}, {"TIMEOUT"} } : ir' = [ir EXCEPT ![s] = @ \cup raised]

\* A SEND is over: its data has left (and, on a TCP socket, was acknowledged).
SendDone(s) ==
  /\ sending[s]
  /\ sending' = [sending EXCEPT ![s] = FALSE]
  /\ ir' = [ir EXCEPT ![s] = @ \cup {"SEND_OK"}]
  /\ UNCHANGED sr

\* A datagram could not be sent (nobody answered the ARP request).
SendTimeout(s) ==
  /\ sending[s]
  /\ sr[s] = "UDP"
  /\ sending' = [sending EXCEPT ![s] = FALSE]
  /\ ir' = [ir EXCEPT ![s] = @ \cup {"TIMEOUT"}]
  /\ UNCHANGED sr

\* Data has arrived.  Of a flag that is up already nothing more is seen.
ReceiveFlag(s) ==
  /\ sr[s] \in {"ESTABLISHED", "UDP"}
  /\ "RECV" \notin ir[s]
  /\ ir' = [ir EXCEPT ![s] = @ \cup {"RECV"}]
  /\ UNCHANGED << sr, sending >>
=============================================================================
