---------------------------- MODULE PacketStream ----------------------------
(***************************************************************************)
(* What the transmit side of an ASocket does for its caller: write()       *)
(* appends the bytes it is given to a packet, send() appends the packet to *)
(* what the connection has still to deliver, and bytes leave in the order  *)
(* they came.  Nothing alters a byte, and two things take bytes away: the  *)
(* loss of the connection, and write() itself, which keeps the first Limit *)
(* bytes of a call and drops the others without a word to the caller.      *)
(***************************************************************************)
EXTENDS SequencesExt

CONSTANTS
  Data,      \* the values of a byte
  Limit      \* the most bytes of a call that are kept

VARIABLES
  writing,   \* the bytes of a call of write() that is under way
  packet,    \* written, not sent
  queue      \* sent, not delivered

Init == writing = << >> /\ packet = << >> /\ queue = << >>

\* A new packet; what was written and not sent is given up.
Begin == packet' = << >> /\ UNCHANGED << writing, queue >>

CallWrite == /\ writing = << >>
             /\ writing' \in Seq(Data)
             /\ UNCHANGED << packet, queue >>

\* The bytes of a call that are kept.
Kept(buf) == SubSeq(buf, 1, IF Len(buf) > Limit THEN Limit ELSE Len(buf))

\* write() returns: every byte that is kept is in the packet.
Write == /\ packet' = packet \o Kept(writing)
         /\ writing' = << >>
         /\ UNCHANGED queue

Send == /\ writing = << >>
        /\ packet' = << >>
        /\ queue' = queue \o packet
        /\ UNCHANGED writing

Deliver == /\ queue # << >>
           /\ queue' = Tail(queue)
           /\ UNCHANGED << writing, packet >>

\* The connection is lost, and a write() under way comes to nothing.
Lose == packet' = << >> /\ queue' = << >> /\ UNCHANGED writing

GiveUp == /\ packet = << >> /\ queue = << >>
          /\ writing' = << >>
          /\ UNCHANGED << packet, queue >>

Next == Begin \/ CallWrite \/ Write \/ Send \/ Deliver \/ Lose \/ GiveUp

Spec == Init /\ [][Next]_<< writing, packet, queue >>
=============================================================================
