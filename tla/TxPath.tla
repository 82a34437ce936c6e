------------------------------- MODULE TxPath -------------------------------
(***************************************************************************)
(* The transmit buffer of one socket: beginPacketTCP(), write() and send() *)
(* of Ethernet/ASocket.cpp with write_data() of utility/w5100.c.           *)
(*                                                                         *)
(* The chip gives a socket a ring of Size bytes.  The pointers TX_RD (of   *)
(* the chip), TX_WR and _write_ptr (of the driver) are 16-bit counters     *)
(* that wrap at Wrap; the low bits are the place in the ring.  send()      *)
(* stores _write_ptr in TX_WR and commands SEND; the chip then moves TX_RD *)
(* towards TX_WR as bytes leave (on TCP: as they are acknowledged).        *)
(*                                                                         *)
(* write() polls the free size, byte by byte from its register             *)
(* (RegRead16), and then copies.  The free size counts only what was sent: *)
(* bytes written into the ring since beginPacket are not in it.  A length  *)
(* above the ring's is cut to it, and the caller is not told: write()      *)
(* returns nothing.                                                        *)
(*                                                                         *)
(* A packet made of several writes is safe only under the rule PacketRule, *)
(* which Client::write() (AClient.cpp:42-54) keeps by sending after every  *)
(* write and a sketch must keep by itself.  The sketch is also expected to *)
(* begin a packet on every new connection ("begun").                       *)
(***************************************************************************)
EXTENDS RegRead16, SequencesExt

CONSTANTS
  Size,         \* SSIZE: the bytes of the ring
  Wrap,         \* 2^16: where pointers wrap
  Data,         \* the values of a byte
  MaxLen,       \* the longest buffer the sketch passes to write()
  KeepsRule     \* does the sketch keep PacketRule?

ASSUME TxAssumption ==
  /\ Size \in Nat \ {0}
  /\ Size < Base * Base
  /\ Wrap \in Nat /\ Wrap > Size /\ Wrap % Size = 0
  /\ MaxLen \in Nat \ {0}
  /\ KeepsRule \in BOOLEAN

VARIABLES
  mem,      \* the ring
  wr,       \* TX_WR
  rd,       \* TX_RD
  ptr,      \* _write_ptr
  up,       \* is the status one that data can be sent in?
  begun,    \* has the sketch begun a packet on this connection?
  at,       \* where write() is
  bytes,    \* what write() was called with
  free      \* the free size it has read

ring == << mem, wr, rd, ptr, up, begun >>
vars == << ring, at, bytes, free, loop >>

Pointer == 0 .. Wrap - 1

RingTypeOK ==
  /\ mem \in [0 .. Size - 1 -> Data]
  /\ wr \in Pointer /\ rd \in Pointer /\ ptr \in Pointer
  /\ up \in BOOLEAN /\ begun \in BOOLEAN
  /\ at \in {"idle", "poll", "test"}
  /\ bytes \in BoundedSeq(Data, MaxLen)
  /\ free \in 0 .. Size

TypeOK == RingTypeOK /\ LoopTypeOK

\* Sent and still in the ring; written and not sent; Sn_TX_FSR.
Pending == (wr - rd) % Wrap
Unsent == (ptr - wr) % Wrap
FreeSize == Size - Pending

\* A size in the two bytes of a register, and back.
AsWord(n) == [hi |-> n \div Base, lo |-> n % Base]
Number(w) == w.hi * Base + w.lo

Init ==
  /\ mem \in [0 .. Size - 1 -> Data]
  /\ wr = 0 /\ rd = 0 /\ ptr = 0
  /\ up = FALSE /\ begun = FALSE
  /\ at = "idle" /\ bytes = << >> /\ free = 0
  /\ LoopInit /\ reg = AsWord(FreeSize)

-----------------------------------------------------------------------------
\* The rule of the sketch for a write of n bytes: it is the first of its packet, or all
\* that was sent has left (isSendComplete said so) and the packet still fits the ring.
PacketRule(n) == Unsent = 0 \/ (Pending = 0 /\ Unsent + n <= Size)

\* The register follows the ring; a call that reads it is not touched.
RegisterFollows == reg' = AsWord(FreeSize)' /\ UNCHANGED locals

\* A connection comes up; the chip starts with an empty ring, wherever that begins.
Open ==
  /\ ~up /\ at = "idle"
  /\ \E p \in Pointer : wr' = p /\ rd' = p
  /\ up' = TRUE
  /\ begun' = FALSE
  /\ UNCHANGED << mem, ptr, at, bytes, free >>
  /\ RegisterFollows

beginPacketTCP ==
  /\ at = "idle" /\ up
  /\ ptr' = wr
  /\ begun' = TRUE
  /\ UNCHANGED << mem, wr, rd, up, at, bytes, free, loop >>

\* Mutant: the length is not cut to the size of the ring.
Cut_None(buf) == buf

\* What write(buf) takes of its argument: no more than the ring can hold.
Cut(buf) == IF Len(buf) > Size THEN SubSeq(buf, 1, Size) ELSE buf

\* write(buf, len) is called on a socket that is open, and starts to poll.
WriteCall ==
  /\ at = "idle" /\ up /\ begun
  /\ \E n \in 1 .. MaxLen : \E buf \in [1 .. n -> Data] :
        /\ KeepsRule => PacketRule(Len(Cut(buf)))
        /\ bytes' = buf
  /\ at' = "poll"
  /\ UNCHANGED << ring, free, loop >>

\* getSn_TX_FSR() is called,
PollCall ==
  /\ at = "poll"
  /\ Call
  /\ UNCHANGED << ring, at, bytes, free >>

\* reads while the ring drains,
PollOn ==
  /\ at = "poll"
  /\ ReadOn
  /\ UNCHANGED << ring, at, bytes, free >>

\* and returns the free size, or a zero it has not confirmed.
PollEnd ==
  /\ at = "poll"
  /\ Answer
  /\ free' = Number(val)
  /\ at' = "test"
  /\ UNCHANGED << ring, bytes >>

\* write() returns; its variables are gone.
Return == at' = "idle" /\ bytes' = << >> /\ free' = 0

\* The connection is gone: write() returns, the bytes are dropped.
WriteAbort ==
  /\ at = "test" /\ ~up
  /\ Return
  /\ UNCHANGED << ring, loop >>

\* Mutant: any free byte will do.
HasRoom_AnyFree == free > 0

\* Is there room for what write() takes?
HasRoom == free >= Len(Cut(bytes))

\* If not, poll again.
PollAgain ==
  /\ at = "test" /\ up
  /\ ~HasRoom
  /\ at' = "poll"
  /\ free' = 0
  /\ UNCHANGED << ring, bytes, loop >>

\* wiz_write_buf(): a run of bytes to consecutive cells; cells past the ring belong to
\* another socket.
WriteBuf(m, start, run) ==
  [c \in DOMAIN m |-> IF c - start + 1 \in DOMAIN run THEN run[c - start + 1] ELSE m[c]]

\* Mutant: no second run when the end of the ring is reached.
write_data_NoWrap(m, p, run) == WriteBuf(m, p % Size, run)

\* write_data(): one run, or two when the end of the ring comes first.
write_data(m, p, run) ==
  LET off == p % Size
      size == Size - off IN
    IF off + Len(run) > Size
    THEN WriteBuf(WriteBuf(m, off, SubSeq(run, 1, size)),
                  0, SubSeq(run, size + 1, Len(run)))
    ELSE WriteBuf(m, off, run)

\* Mutant: a pointer wider than 16 bits.
MoveOn_Wide(p, n) == p + n

\* A pointer moved on.
MoveOn(p, n) == (p + n) % Wrap

\* If there is, copy, and move _write_ptr on.
Copy ==
  /\ at = "test" /\ up /\ HasRoom
  /\ mem' = write_data(mem, ptr, Cut(bytes))
  /\ ptr' = MoveOn(ptr, Len(Cut(bytes)))
  /\ Return
  /\ UNCHANGED << wr, rd, up, begun, loop >>

send ==
  /\ at = "idle" /\ up /\ begun
  /\ wr' = ptr
  /\ UNCHANGED << mem, rd, ptr, up, begun, at, bytes, free >>
  /\ RegisterFollows

-----------------------------------------------------------------------------
(* The chip. *)

Deliver ==
  /\ up /\ Pending > 0
  /\ rd' = (rd + 1) % Wrap
  /\ UNCHANGED << mem, wr, ptr, up, begun, at, bytes, free >>
  /\ RegisterFollows

Drop ==
  /\ up
  /\ up' = FALSE
  /\ UNCHANGED << mem, wr, rd, ptr, begun, at, bytes, free, loop >>

InWrite == PollCall \/ PollOn \/ PollEnd \/ WriteAbort \/ PollAgain \/ Copy

Next == Open \/ beginPacketTCP \/ WriteCall \/ InWrite \/ send \/ Deliver \/ Drop

\* write() polls without doing anything else, and a peer that is there takes the bytes.
Fairness == WF_vars(InWrite) /\ WF_vars(Deliver)

Spec == Init /\ [][Next]_vars /\ Fairness

-----------------------------------------------------------------------------
(* Properties. *)

\* The ring from pointer p on, n bytes.
Ring(p, n) == [i \in 1 .. n |-> mem[(p + i - 1) % Size]]

\* The packet and the queue are what the ring holds between the pointers: a copy into
\* the ring puts the bytes of the call, all but those that exceed the ring, behind those
\* written before, alters none that is sent or written already, and bytes leave in order
\* (ASocket.cpp:212-230, w5100.c:796-818).
Stream == INSTANCE PacketStream
  WITH Limit <- Size,
       writing <- bytes,
       packet <- IF up /\ begun THEN Ring(wr, Unsent) ELSE << >>,
       queue <- IF up THEN Ring(rd, Pending) ELSE << >>

ImplementsStream == Stream!Spec

\* Sent and written bytes together never exceed the ring, at most once round: "if
\* freebuf is available, start" (ASocket.cpp:216).
NoOverrun == (up /\ begun) => Pending + Unsent <= Size

\* write() returns: its length is cut to what the ring can ever have free
\* (ASocket.cpp:212-214), so polling comes to an end if the peer takes the bytes or the
\* connection breaks.
WriteReturns == (at = "poll") ~> (at = "idle")
=============================================================================
