---------------------------- MODULE TxPathProofs ----------------------------
(***************************************************************************)
(* For a ring and pointers of any size: the transmit ring never overflows, *)
(* and what it holds is the stream of PacketStream, if the sketch keeps    *)
(* PacketRule.                                                             *)
(***************************************************************************)
EXTENDS TxPath, RegRead16Proofs, SequenceTheorems

\* What is to leave fits the ring, also before the first packet; and while write() runs
\* on a connection, it still has the room the rule asks for, and the free size it has
\* read is there.
Room ==
  /\ Pending <= Size
  /\ at \in {"poll", "test"} /\ up => begun /\ PacketRule(Len(Cut(bytes)))
  /\ at = "test" => free <= FreeSize

RingInv == RingTypeOK /\ NoOverrun /\ Room

\* The register shows the free size, and is read by a write() that polls only.
Register == reg = AsWord(FreeSize) /\ (at # "poll" => reading = "no")

TxInv == RingInv /\ LoopInv /\ Register

-----------------------------------------------------------------------------
(* Pointers that wrap. *)

\* A remainder is known when the number is less than one round away.
LEMMA ModSmall ==
  ASSUME NEW W \in Nat \ {0}, NEW x \in 0 .. W - 1
  PROVE  x % W = x /\ (x + W) % W = x /\ (x - W) % W = x
OBVIOUS

\* How far pointer a is ahead of pointer b.
LEMMA Ahead ==
  ASSUME NEW a \in Pointer, NEW b \in Pointer
  PROVE  (a - b) % Wrap = IF a >= b THEN a - b ELSE a - b + Wrap
<1>1. Wrap \in Nat \ {0}
  BY TxAssumption
<1>2. CASE a >= b
  <2>1. a - b \in 0 .. Wrap - 1
    BY <1>1, <1>2 DEF Pointer
  <2> QED
    BY <1>1, <1>2, <2>1, ModSmall
<1>3. CASE ~(a >= b)
  <2>1. a - b + Wrap \in 0 .. Wrap - 1 /\ (a - b + Wrap) - Wrap = a - b
    BY <1>1, <1>3 DEF Pointer
  <2> QED
    BY <1>1, <1>3, <2>1, ModSmall
<1> QED
  BY <1>2, <1>3

\* It is a number.
LEMMA AheadIs ==
  ASSUME NEW a \in Pointer, NEW b \in Pointer
  PROVE  (a - b) % Wrap \in Nat
BY Ahead, TxAssumption DEF Pointer

\* A pointer moved on by no more than the ring.
LEMMA Moved ==
  ASSUME NEW a \in Pointer, NEW n \in 0 .. Size
  PROVE  /\ (a + n) % Wrap \in Pointer
         /\ (a + n) % Wrap = IF a + n < Wrap THEN a + n ELSE a + n - Wrap
<1>1. Wrap \in Nat \ {0} /\ Size \in Nat /\ Wrap > Size
  BY TxAssumption
<1>2. CASE a + n < Wrap
  <2>1. a + n \in 0 .. Wrap - 1
    BY <1>1, <1>2 DEF Pointer
  <2> QED
    BY <1>1, <1>2, <2>1, ModSmall DEF Pointer
<1>3. CASE ~(a + n < Wrap)
  <2>1. a + n - Wrap \in 0 .. Wrap - 1 /\ (a + n - Wrap) + Wrap = a + n
    BY <1>1, <1>3 DEF Pointer
  <2> QED
    BY <1>1, <1>3, <2>1, ModSmall DEF Pointer
<1> QED
  BY <1>2, <1>3

\* Distances are numbers.
LEMMA Distances ==
  ASSUME RingTypeOK
  PROVE  Pending \in Nat /\ Unsent \in Nat /\ Size \in Nat /\ Wrap \in Nat /\ Wrap > Size
BY Ahead, TxAssumption DEF RingTypeOK, Pending, Unsent, Pointer

-----------------------------------------------------------------------------
(* Sizes in the two bytes of a register. *)

\* A size fits its register and is read back.
LEMMA NumberBack ==
  ASSUME NEW n \in 0 .. Size
  PROVE  AsWord(n) \in Word /\ Number(AsWord(n)) = n
<1> DEFINE q == n \div Base
           r == n % Base
<1>1. Base \in Nat /\ Base > 1 /\ Size \in Nat /\ Size < Base * Base /\ n \in Nat
  BY BaseAssumption, TxAssumption
<1>2. r \in 0 .. Base - 1 /\ q \in Int /\ n = Base * q + r
  BY <1>1
<1> HIDE DEF q, r
<1>3. Base * q \in Int /\ Base * q = q * Base
  BY <1>1, <1>2
<1>4. q >= 0
  <2> SUFFICES ASSUME q <= -1
               PROVE  FALSE
    BY <1>2
  <2>1. -q - 1 \in Nat /\ Base * (-q - 1) >= 0 /\ Base * (-q - 1) = -(Base * q) - Base
    BY <1>1, <1>2
  <2> QED
    BY <1>1, <1>2, <1>3, <2>1
<1>5. q < Base
  <2> SUFFICES ASSUME q >= Base
               PROVE  FALSE
    BY <1>1, <1>2
  <2>1. q - Base \in Nat /\ Base * (q - Base) >= 0
        /\ Base * (q - Base) = Base * q - Base * Base
    BY <1>1, <1>2
  <2> QED
    BY <1>1, <1>2, <1>3, <2>1
<1>6. AsWord(n) = [hi |-> q, lo |-> r] /\ q \in 0 .. Base - 1
  BY <1>1, <1>2, <1>4, <1>5 DEF AsWord, q, r
<1> QED
  BY <1>2, <1>3, <1>6 DEF Word, Byte, Number

\* A word that is no greater is no greater a number.
LEMMA NumberGrows ==
  ASSUME NEW v \in Word, NEW w \in Word, AtMost(v, w)
  PROVE  Number(v) \in Nat /\ Number(v) <= Number(w)
<1>1. /\ v.hi \in 0 .. Base - 1 /\ v.lo \in 0 .. Base - 1
      /\ w.hi \in 0 .. Base - 1 /\ w.lo \in 0 .. Base - 1
      /\ Base \in Nat /\ Base > 1
  BY BaseAssumption DEF Word, Byte
<1>2. v.hi * Base \in Nat /\ w.hi * Base \in Nat
  BY <1>1
<1>3. CASE v.hi < w.hi
  <2>1. w.hi - v.hi - 1 \in Nat /\ (w.hi - v.hi - 1) * Base >= 0
        /\ (w.hi - v.hi - 1) * Base = w.hi * Base - v.hi * Base - Base
    BY <1>1, <1>3
  <2> QED
    BY <1>1, <1>2, <2>1 DEF Number
<1>4. CASE ~(v.hi < w.hi)
  <2>1. v.hi = w.hi /\ v.lo <= w.lo
    BY <1>1, <1>4 DEF AtMost, Less
  <2> QED
    BY <1>1, <1>2, <2>1 DEF Number
<1> QED
  BY <1>3, <1>4

\* Sizes are ordered as their words are.
LEMMA WordGrows ==
  ASSUME NEW m \in 0 .. Size, NEW n \in 0 .. Size
  PROVE  m < n => Less(AsWord(m), AsWord(n))
<1> DEFINE v == AsWord(m)
           w == AsWord(n)
<1>1. v \in Word /\ w \in Word /\ Number(v) = m /\ Number(w) = n
  BY NumberBack
<1> HIDE DEF v, w
<1>2. Less(v, w) \/ AtMost(w, v)
  BY <1>1, WordBytes DEF AtMost, Less
<1>3. AtMost(w, v) => n <= m
  BY <1>1, NumberGrows
<1>4. Size \in Nat
  BY TxAssumption
<1> QED
  BY <1>1, <1>2, <1>3, <1>4 DEF v, w

-----------------------------------------------------------------------------
(* Sequences of bytes. *)

\* What it is to be a sequence of at most that length.
LEMMA Bounded ==
  ASSUME NEW b
  PROVE  b \in BoundedSeq(Data, MaxLen) <=> b \in Seq(Data) /\ Len(b) \in 0 .. MaxLen
<1>1. MaxLen \in Nat
  BY TxAssumption
<1>2. ASSUME b \in BoundedSeq(Data, MaxLen)
      PROVE  b \in Seq(Data) /\ Len(b) \in 0 .. MaxLen
  <2> PICK m \in 0 .. MaxLen : b \in [1 .. m -> Data]
    BY <1>2 DEF BoundedSeq, SeqOf
  <2> QED
    BY <1>1
<1>3. ASSUME b \in Seq(Data), Len(b) \in 0 .. MaxLen
      PROVE  b \in BoundedSeq(Data, MaxLen)
  <2>1. b \in [1 .. Len(b) -> Data]
    BY <1>3
  <2> QED
    BY <1>3, <2>1 DEF BoundedSeq, SeqOf
<1> QED
  BY <1>2, <1>3

\* The empty sequence is one of them.
LEMMA Empty == << >> \in BoundedSeq(Data, MaxLen)
<1>1. << >> \in Seq(Data) /\ Len(<< >>) = 0 /\ 0 \in 0 .. MaxLen
  BY TxAssumption
<1> QED
  BY <1>1, Bounded

\* What write() takes of its call.
Taken == Cut(bytes)

\* It is a sequence of bytes no longer than the ring, and what PacketStream keeps.
LEMMA CutIs ==
  ASSUME NEW b \in Seq(Data)
  PROVE  /\ Cut(b) \in Seq(Data) /\ Len(Cut(b)) \in 0 .. Size
         /\ Cut(b) = SubSeq(b, 1, IF Len(b) > Size THEN Size ELSE Len(b))
<1>1. Size \in Nat /\ Len(b) \in Nat
  BY TxAssumption
<1>2. CASE Len(b) > Size
  BY <1>1, <1>2 DEF Cut
<1>3. CASE ~(Len(b) > Size)
  <2>1. Cut(b) = b /\ SubSeq(b, 1, Len(b)) = b
    BY <1>3 DEF Cut
  <2> QED
    BY <1>1, <1>3, <2>1
<1> QED
  BY <1>2, <1>3

\* What is under way is of that kind.
LEMMA TakenIs ==
  ASSUME RingTypeOK
  PROVE  bytes \in Seq(Data) /\ Taken \in Seq(Data) /\ Len(Taken) \in 0 .. Size
<1>1. bytes \in Seq(Data)
  BY Bounded DEF RingTypeOK
<1> QED
  BY <1>1, CutIs DEF Taken

\* A copy changes cells of the ring into bytes.
LEMMA CopyTypes ==
  ASSUME NEW m \in [0 .. Size - 1 -> Data], NEW p \in Pointer,
         NEW run \in Seq(Data), Len(run) \in 0 .. Size
  PROVE  write_data(m, p, run) \in [0 .. Size - 1 -> Data]
<1>1. ASSUME NEW c \in [0 .. Size - 1 -> Data], NEW start \in Nat, NEW r \in Seq(Data)
      PROVE  WriteBuf(c, start, r) \in [0 .. Size - 1 -> Data]
  BY <1>1 DEF WriteBuf
<1>2. Size \in Nat \ {0} /\ p \in Nat
  BY TxAssumption DEF Pointer
<1>3. PICK off \in 0 .. Size - 1 : off = p % Size
  BY <1>2
<1>4. CASE off + Len(run) > Size
  <2> DEFINE first == SubSeq(run, 1, Size - off)
             second == SubSeq(run, Size - off + 1, Len(run))
  <2>1. first \in Seq(Data) /\ second \in Seq(Data)
    BY <1>2, <1>4
  <2>2. write_data(m, p, run) = WriteBuf(WriteBuf(m, off, first), 0, second)
    BY <1>3, <1>4 DEF write_data
  <2> HIDE DEF first, second
  <2>3. off \in Nat /\ 0 \in Nat
    BY <1>2
  <2>4. WriteBuf(m, off, first) \in [0 .. Size - 1 -> Data]
    BY <1>1, <2>1, <2>3
  <2> QED
    BY <1>1, <2>1, <2>2, <2>3, <2>4
<1>5. CASE ~(off + Len(run) > Size)
  BY <1>1, <1>2, <1>3, <1>5 DEF write_data
<1> QED
  BY <1>4, <1>5

-----------------------------------------------------------------------------
\* At first the ring is empty and the pointers are equal.
LEMMA InitHolds == Init => TxInv
<1> SUFFICES ASSUME Init
             PROVE  TxInv
  OBVIOUS
<1>1. Size \in Nat /\ Wrap \in Nat /\ Wrap > Size /\ 0 \in Pointer
  BY TxAssumption DEF Pointer
<1>2. RingTypeOK
  <2>1. bytes \in BoundedSeq(Data, MaxLen)
    BY Empty DEF Init
  <2>2. free \in 0 .. Size
    BY <1>1 DEF Init
  <2> QED
    BY <1>1, <2>1, <2>2 DEF Init, RingTypeOK
<1>3. Pending = 0
  BY <1>1, Ahead DEF Init, Pending
<1>4. LoopInv
  BY LoopAtFirst DEF Init
<1>5. reading = "no"
  BY DEF Init, LoopInit
<1> QED
  BY <1>1, <1>2, <1>3, <1>4, <1>5 DEF TxInv, RingInv, NoOverrun, Room, Register, Init, FreeSize

\* Distances after a copy: the packet grows by the bytes, and all still fits.
LEMMA CopyDistances ==
  ASSUME KeepsRule, TxInv, Copy
  PROVE  /\ Unsent' = Unsent + Len(Taken) /\ Pending' = Pending
         /\ Pending + Unsent + Len(Taken) <= Size
<1> USE DEF TxInv, RingInv
<1>1. Pending \in Nat /\ Unsent \in Nat /\ Size \in Nat /\ Wrap \in Nat /\ Wrap > Size
  BY Distances
<1>2. Taken \in Seq(Data) /\ Len(Taken) \in 0 .. Size
  BY TakenIs
<1>3. /\ UNCHANGED << wr, rd >>
      /\ at = "test" /\ up /\ free >= Len(Taken)
      /\ ptr' = (ptr + Len(Taken)) % Wrap
  BY DEF Copy, HasRoom, MoveOn, Taken
<1>4. Pending + Len(Taken) <= Size /\ (Unsent = 0 \/ Unsent + Len(Taken) <= Size)
  BY <1>1, <1>2, <1>3 DEF Room, FreeSize, PacketRule, RingTypeOK, Taken
<1>5. Unsent' = Unsent + Len(Taken)
  <2>1. Unsent + Len(Taken) < Wrap
    BY <1>1, <1>2, <1>4
  <2>2. ptr \in Pointer /\ wr \in Pointer
    BY DEF RingTypeOK
  <2>3. ptr' \in Pointer /\ ptr' = IF ptr + Len(Taken) < Wrap THEN ptr + Len(Taken)
                                   ELSE ptr + Len(Taken) - Wrap
    BY <1>2, <1>3, <2>2, Moved
  <2>4. Unsent = IF ptr >= wr THEN ptr - wr ELSE ptr - wr + Wrap
    BY <2>2, Ahead DEF Unsent
  <2>5. Unsent' = IF ptr' >= wr THEN ptr' - wr ELSE ptr' - wr + Wrap
    BY <1>3, <2>2, <2>3, Ahead DEF Unsent
  <2> QED
    BY <1>1, <1>2, <2>1, <2>2, <2>3, <2>4, <2>5 DEF Pointer
<1>6. Pending' = Pending
  BY <1>3 DEF Pending
<1> QED
  BY <1>1, <1>2, <1>3, <1>4, <1>5, <1>6 DEF Room, PacketRule

\* Distances after send(): the packet is behind the bytes that are still to leave.
LEMMA SendDistances ==
  ASSUME TxInv, send
  PROVE  Pending' = Pending + Unsent /\ Unsent' = 0
<1> USE DEF TxInv, RingInv
<1>1. Pending \in Nat /\ Unsent \in Nat /\ Size \in Nat /\ Wrap \in Nat /\ Wrap > Size
  BY Distances
<1>2. Pending + Unsent < Wrap
  BY <1>1 DEF send, NoOverrun
<1>3. wr \in Pointer /\ rd \in Pointer /\ ptr \in Pointer
  BY DEF RingTypeOK
<1>4. Unsent = IF ptr >= wr THEN ptr - wr ELSE ptr - wr + Wrap
  BY <1>3, Ahead DEF Unsent
<1>5. Pending = IF wr >= rd THEN wr - rd ELSE wr - rd + Wrap
  BY <1>3, Ahead DEF Pending
<1>6. Pending' = IF ptr >= rd THEN ptr - rd ELSE ptr - rd + Wrap
  BY <1>3, Ahead DEF send, Pending
<1>7. Unsent' = 0
  BY <1>1, <1>3, Ahead DEF send, Unsent, Pointer
<1> QED
  BY <1>1, <1>2, <1>3, <1>4, <1>5, <1>6, <1>7 DEF Pointer

\* Distances after a byte has left.
LEMMA DeliverDistances ==
  ASSUME TxInv, Deliver
  PROVE  /\ rd' \in Pointer /\ rd' = IF rd + 1 < Wrap THEN rd + 1 ELSE rd + 1 - Wrap
         /\ Pending' = Pending - 1 /\ Unsent' = Unsent
<1> USE DEF TxInv, RingInv
<1>1. Pending \in Nat /\ Wrap \in Nat
  BY Distances
<1>2. UNCHANGED << wr, ptr >> /\ rd' = (rd + 1) % Wrap /\ Pending > 0
  BY DEF Deliver
<1>3. rd \in Pointer /\ wr \in Pointer /\ 1 \in 0 .. Size
  BY TxAssumption DEF RingTypeOK
<1>4. rd' \in Pointer /\ rd' = IF rd + 1 < Wrap THEN rd + 1 ELSE rd + 1 - Wrap
  BY <1>2, <1>3, Moved
<1>5. Pending = IF wr >= rd THEN wr - rd ELSE wr - rd + Wrap
  BY <1>3, Ahead DEF Pending
<1>6. Pending' = IF wr >= rd' THEN wr - rd' ELSE wr - rd' + Wrap
  BY <1>2, <1>3, <1>4, Ahead DEF Pending
<1>7. Unsent' = Unsent
  BY <1>2 DEF Unsent
<1> QED
  BY <1>1, <1>2, <1>3, <1>4, <1>5, <1>6, <1>7 DEF Pointer

\* The invariant is kept, action by action.
LEMMA RingKept == KeepsRule /\ TxInv /\ [Next]_vars => RingInv'
<1> SUFFICES ASSUME KeepsRule, TxInv, [Next]_vars
             PROVE  RingInv'
  OBVIOUS
<1> USE DEF TxInv, RingInv
<1>0. /\ Pending \in Nat /\ Unsent \in Nat
      /\ Size \in Nat /\ Wrap \in Nat /\ Wrap > Size
  BY Distances
<1>a. Taken \in Seq(Data) /\ Len(Taken) \in 0 .. Size /\ bytes \in Seq(Data)
  BY TakenIs
<1>1. CASE Open
  <2>1. Pending' = 0
    <3> PICK p \in Pointer : wr' = p /\ rd' = p
      BY <1>1 DEF Open
    <3>1. (p - p) % Wrap = p - p
      BY Ahead, <1>0 DEF Pointer
    <3> QED
      BY <1>0, <3>1 DEF Pending, Pointer
  <2>2. RingTypeOK'
    BY <1>1 DEF Open, RingTypeOK
  <2> QED
    BY <1>0, <1>1, <2>1, <2>2 DEF Open, NoOverrun, Room
<1>2. CASE beginPacketTCP
  <2>1. Unsent' = 0 /\ Pending' = Pending
    <3>1. wr \in Pointer /\ (wr - wr) % Wrap = wr - wr
      BY <1>0, Ahead DEF RingTypeOK, Pointer
    <3>2. ptr' = wr /\ UNCHANGED << wr, rd >>
      BY <1>2 DEF beginPacketTCP
    <3> QED
      BY <1>0, <3>1, <3>2 DEF Unsent, Pending, Pointer
  <2>2. RingTypeOK'
    BY <1>2 DEF beginPacketTCP, RingTypeOK
  <2> QED
    BY <1>0, <1>2, <2>1, <2>2 DEF beginPacketTCP, NoOverrun, Room
<1>3. CASE WriteCall
  <2>1. PICK n \in 1 .. MaxLen :
          \E buf \in [1 .. n -> Data] : PacketRule(Len(Cut(buf))) /\ bytes' = buf
    BY <1>3 DEF WriteCall
  <2>2. PICK buf \in [1 .. n -> Data] : PacketRule(Len(Cut(buf))) /\ bytes' = buf
    BY <2>1
  <2>3. bytes' \in Seq(Data) /\ Len(bytes') \in 0 .. MaxLen
    <3>1. n \in Nat
      BY TxAssumption
    <3> QED
      BY <2>2, <3>1, TxAssumption
  <2>4. UNCHANGED << mem, wr, rd, ptr, up, begun, free >> /\ at' = "poll" /\ up /\ begun
    BY <1>3 DEF WriteCall, ring
  <2>5. RingTypeOK'
    BY <2>3, <2>4, Bounded DEF RingTypeOK
  <2>6. Pending' = Pending /\ Unsent' = Unsent
    BY <2>4 DEF Pending, Unsent
  <2>7. Cut(bytes)' = Cut(buf)
    BY <2>2 DEF Cut
  <2> QED
    BY <2>2, <2>4, <2>5, <2>6, <2>7 DEF NoOverrun, Room, PacketRule
<1>4. CASE PollCall \/ PollOn \/ PollEnd
  <2>1. UNCHANGED << mem, wr, rd, ptr, up, begun, bytes >> /\ at = "poll"
    BY <1>4 DEF PollCall, PollOn, PollEnd, ring
  <2>2. Pending' = Pending /\ Unsent' = Unsent /\ FreeSize' = FreeSize
    BY <2>1 DEF Pending, Unsent, FreeSize
  <2>3. FreeSize \in 0 .. Size
    BY <1>0 DEF FreeSize, Room
  <2>4. \/ at' = "poll" /\ free' = free
        \/ at' = "test" /\ free' \in 0 .. Size /\ free' <= FreeSize
    <3>1. CASE PollCall \/ PollOn
      BY <2>1, <3>1 DEF PollCall, PollOn
    <3>2. CASE PollEnd
      <4>1. free' = Number(val) /\ at' = "test" /\ Answer
        BY <3>2 DEF PollEnd
      <4>2. val \in Word /\ reg \in Word /\ AtMost(val, reg) /\ reg = AsWord(FreeSize)
        BY <4>1, AnswerBound DEF Register, LoopInv, LoopTypeOK
      <4>3. Number(val) \in Nat /\ Number(val) <= Number(reg) /\ Number(reg) = FreeSize
        BY <2>3, <4>2, NumberGrows, NumberBack
      <4> QED
        BY <1>0, <2>3, <4>1, <4>3
    <3> QED
      BY <1>4, <3>1, <3>2
  <2>5. RingTypeOK'
    BY <2>1, <2>4 DEF RingTypeOK
  <2>6. Cut(bytes)' = Cut(bytes)
    BY <2>1 DEF Cut
  <2> QED
    BY <2>1, <2>2, <2>4, <2>5, <2>6 DEF NoOverrun, Room, PacketRule
<1>5. CASE WriteAbort \/ PollAgain
  <2>1. /\ UNCHANGED << mem, wr, rd, ptr, up, begun >> /\ free' = 0
        /\ \/ at' = "idle" /\ bytes' = << >>
           \/ at' = "poll" /\ UNCHANGED bytes /\ at = "test"
    BY <1>5 DEF WriteAbort, PollAgain, Return, ring
  <2>2. Pending' = Pending /\ Unsent' = Unsent
    BY <2>1 DEF Pending, Unsent
  <2>3. RingTypeOK'
    BY <1>0, <2>1, Empty DEF RingTypeOK
  <2>4. UNCHANGED bytes => Cut(bytes)' = Cut(bytes)
    BY DEF Cut
  <2> QED
    BY <2>1, <2>2, <2>3, <2>4 DEF NoOverrun, Room, PacketRule
<1>6. CASE Copy
  <2>1. /\ UNCHANGED << wr, rd, up, begun >> /\ at' = "idle" /\ bytes' = << >> /\ free' = 0
        /\ at = "test" /\ up /\ free >= Len(Taken)
        /\ mem' = write_data(mem, ptr, Taken)
        /\ ptr' = (ptr + Len(Taken)) % Wrap
    BY <1>6 DEF Copy, Return, HasRoom, MoveOn, Taken
  <2>2. RingTypeOK'
    <3>1. mem' \in [0 .. Size - 1 -> Data]
      BY <1>a, <2>1, CopyTypes DEF RingTypeOK
    <3>2. ptr' \in Pointer
      BY <1>a, <2>1, Moved DEF RingTypeOK
    <3> QED
      BY <1>0, <2>1, <3>1, <3>2, Empty DEF RingTypeOK
  <2>3. Pending' + Unsent' <= Size
    BY <1>0, <1>6, CopyDistances
  <2> QED
    BY <1>0, <2>1, <2>2, <2>3, <1>6, CopyDistances DEF NoOverrun, Room
<1>7. CASE send
  <2>1. Pending' = Pending + Unsent /\ Unsent' = 0
    BY <1>7, SendDistances
  <2>2. RingTypeOK'
    BY <1>7 DEF send, RingTypeOK
  <2> QED
    BY <1>0, <1>7, <2>1, <2>2 DEF send, NoOverrun, Room
<1>8. CASE Deliver
  <2>1. UNCHANGED << mem, wr, ptr, up, begun, at, bytes, free >> /\ Pending > 0
    BY <1>8 DEF Deliver
  <2>2. rd' \in Pointer /\ Pending' = Pending - 1 /\ Unsent' = Unsent
    BY <1>8, DeliverDistances
  <2>3. RingTypeOK'
    BY <2>1, <2>2 DEF RingTypeOK
  <2>4. Cut(bytes)' = Cut(bytes) /\ Len(Cut(bytes)) \in 0 .. Size
    BY <1>a, <2>1 DEF Cut, Taken
  <2> QED
    BY <1>0, <2>1, <2>2, <2>3, <2>4 DEF NoOverrun, Room, PacketRule, FreeSize, RingTypeOK
<1>9. CASE Drop
  <2>1. RingTypeOK'
    BY <1>9 DEF Drop, RingTypeOK
  <2> QED
    BY <1>9, <2>1 DEF Drop, NoOverrun, Room, Pending, FreeSize
<1>10. CASE UNCHANGED vars
  BY <1>10 DEF vars, ring, RingTypeOK, NoOverrun, Room, PacketRule, Pending, Unsent, FreeSize, Pointer,
              Cut
<1> QED
  BY <1>1, <1>2, <1>3, <1>4, <1>5, <1>6, <1>7, <1>8, <1>9, <1>10 DEF Next, InWrite

\* Whatever happens to the ring is what the reading of a register allows for.
LEMMA RegisterKept ==
  TxInv /\ [Next]_vars /\ RingInv' => LoopInv' /\ Register' /\ [LoopNext]_loop
<1> SUFFICES ASSUME TxInv, [Next]_vars, RingInv'
             PROVE  LoopInv' /\ Register' /\ [LoopNext]_loop
  OBVIOUS
<1>1. FreeSize \in 0 .. Size /\ FreeSize' \in 0 .. Size /\ Size \in Nat
  <2>1. Size \in Nat /\ Pending \in Nat /\ Pending <= Size
    BY Distances DEF TxInv, RingInv, Room
  <2>2. wr' \in Pointer /\ rd' \in Pointer /\ Pending' <= Size
    BY DEF RingInv, RingTypeOK, Room
  <2>3. Pending' \in Nat
    <3>1. (wr' - rd') % Wrap \in Nat
      BY <2>2, AheadIs, Zenon
    <3> QED
      BY <3>1, Zenon DEF Pending
  <2>4. \A p \in Nat : p <= Size => Size - p \in 0 .. Size
    BY ONLY <2>1
  <2>5. FreeSize \in 0 .. Size
    BY <2>1, <2>4 DEF FreeSize
  <2>6. FreeSize' \in 0 .. Size
    BY <2>2, <2>3, <2>4, Zenon DEF FreeSize
  <2> QED
    BY <2>1, <2>5, <2>6
<1>2. reg = AsWord(FreeSize) /\ AsWord(FreeSize) \in Word /\ AsWord(FreeSize)' \in Word
      /\ (at # "poll" => reading = "no") /\ LoopInv
  BY <1>1, NumberBack DEF TxInv, Register
<1>3. CASE PollCall \/ PollOn \/ PollEnd
  <2>1. LoopNext /\ UNCHANGED << wr, rd, reg >>
    BY <1>3 DEF PollCall, PollOn, PollEnd, LoopNext, ring, Call, ReadOn, ReadHi1, ReadLo1,
                ReadHi2, ReadLo2, Again, Answer
  <2>2. FreeSize' = FreeSize
    BY <2>1 DEF FreeSize, Pending
  <2>3. at' = "poll" \/ reading' = "no"
    BY <1>3 DEF PollCall, PollOn, PollEnd, Answer
  <2> QED
    BY <1>2, <2>1, <2>2, <2>3, LoopStep DEF Register, AsWord
<1>4. CASE Open \/ send
  <2>1. RegisterFollows /\ reading = "no" /\ at' = "idle"
    BY <1>2, <1>4 DEF Open, send
  <2>2. reg' = AsWord(FreeSize)' /\ reg' \in Word /\ UNCHANGED locals /\ reading' = "no"
    BY <1>2, <2>1 DEF RegisterFollows, locals
  <2>3. Less(reg, reg') \/ Less(reg', reg) \/ reg' = reg
    <3>1. reg \in Word
      BY <1>2
    <3> QED
      BY <2>2, <3>1, WordBytes DEF Less
  <2>4. [LoopNext]_loop
    BY <2>1, <2>2, <2>3 DEF LoopNext, Grow, Take, loop
  <2> QED
    BY <1>2, <2>2, <2>4, LoopStep DEF Register
<1>5. CASE Deliver
  <2>1. reg' = AsWord(FreeSize)' /\ UNCHANGED << locals, at >>
    BY <1>5 DEF Deliver, RegisterFollows
  <2>2. FreeSize' = FreeSize + 1
    <3>1. Pending' = Pending - 1 /\ Pending \in Nat /\ Size \in Nat
      BY <1>5, DeliverDistances, Distances DEF TxInv, RingInv
    <3> QED
      BY <3>1 DEF FreeSize
  <2>3. Less(AsWord(FreeSize), AsWord(FreeSize'))
    BY <1>1, <2>2, WordGrows
  <2>4. AsWord(FreeSize)' = AsWord(FreeSize')
    BY DEF AsWord
  <2>5. LoopNext
    BY <1>2, <2>1, <2>3, <2>4 DEF LoopNext, Grow
  <2>6. reading' = reading
    BY <2>1 DEF locals
  <2> QED
    BY <1>2, <2>1, <2>5, <2>6, LoopStep DEF Register
<1>6. CASE beginPacketTCP \/ WriteCall \/ WriteAbort \/ PollAgain \/ Copy \/ Drop
           \/ UNCHANGED vars
  <2>1. UNCHANGED << loop, wr, rd >> /\ (at' # "poll" => at # "poll" \/ at' = at)
    BY <1>6 DEF beginPacketTCP, WriteCall, WriteAbort, PollAgain, Copy, Drop, Return, vars,
                ring
  <2>2. FreeSize' = FreeSize /\ UNCHANGED << reg, reading >>
    BY <2>1 DEF FreeSize, Pending, loop, locals
  <2>3. AsWord(FreeSize)' = AsWord(FreeSize)
    BY <2>2 DEF AsWord
  <2> QED
    BY <1>2, <2>1, <2>2, <2>3, LoopStep DEF Register
<1> QED
  BY <1>3, <1>4, <1>5, <1>6 DEF Next, InWrite

\* The whole invariant is kept.
LEMMA StepKeeps == KeepsRule /\ TxInv /\ [Next]_vars => TxInv'
BY RingKept, RegisterKept DEF TxInv

-----------------------------------------------------------------------------
(* Cells of the ring, of pointers that wrap after a number of rounds. *)

\* A product with a whole number is zero, or at least the other factor.
LEMMA Multiple ==
  ASSUME NEW W \in Nat \ {0}, NEW d \in Int, d >= 1
  PROVE  W * d \in Int /\ W * d >= W
<1>1. W * d - W = W * (d - 1)
  OBVIOUS
<1>2. W * (d - 1) >= 0
  OBVIOUS
<1> QED
  BY <1>1, <1>2

\* There is one way to divide.
LEMMA OneRemainder ==
  ASSUME NEW W \in Nat \ {0}, NEW a \in Int, NEW b \in Int,
         NEW r \in 0 .. W - 1, NEW s \in 0 .. W - 1, W * a + r = W * b + s
  PROVE  r = s
<1>1. W * (a - b) = s - r
  OBVIOUS
<1>2. CASE a - b >= 1
  BY <1>1, <1>2, Multiple
<1>3. CASE b - a >= 1
  <2>1. W * (b - a) = r - s
    OBVIOUS
  <2> QED
    BY <1>3, <2>1, Multiple
<1>4. CASE a = b
  BY <1>4
<1> QED
  BY <1>2, <1>3, <1>4

\* Quotient and remainder.
LEMMA Divided ==
  ASSUME NEW W \in Nat \ {0}, NEW x \in Int
  PROVE  \E a, r \in Int : x = W * a + r /\ r = x % W /\ r \in 0 .. W - 1
<1>1. x % W = x - W * (x \div W) /\ x % W \in 0 .. W - 1
  OBVIOUS
<1>2. x \div W \in Int /\ W * (x \div W) \in Int
  OBVIOUS
<1> DEFINE a == x \div W
           r == x % W
           y == W * (x \div W)
<1>3. r = x - y /\ y \in Int /\ r \in 0 .. W - 1
  BY <1>1, <1>2
<1>4. y = W * a /\ a \in Int /\ r = x % W
  BY <1>2
<1> HIDE DEF y, a, r
<1>5. x = W * a + r /\ r \in Int
  BY <1>3, <1>4
<1> QED
  BY <1>3, <1>4, <1>5

\* What divides and leaves a remainder in range leaves the remainder.
LEMMA RemainderIs ==
  ASSUME NEW W \in Nat \ {0}, NEW x \in Int, NEW a \in Int, NEW r \in 0 .. W - 1,
         x = W * a + r
  PROVE  x % W = r
<1>1. PICK b, s \in Int : x = W * b + s /\ s = x % W /\ s \in 0 .. W - 1
  BY Divided
<1>2. W * a + r = W * b + s
  BY <1>1
<1>3. r = s
  BY <1>1, <1>2, OneRemainder
<1> QED
  BY <1>1, <1>3

\* Cells of the ring: a whole round leads to the same cell.
LEMMA WholeRound ==
  ASSUME NEW x \in Int
  PROVE  (x - Wrap) % Size = x % Size
<1>0. Size \in Nat \ {0} /\ Wrap \in Int /\ Wrap % Size = 0
  BY TxAssumption
<1>1. PICK q, z \in Int : Wrap = Size * q + z /\ z = Wrap % Size
  BY <1>0, Divided
<1>2. PICK a, r \in Int : x = Size * a + r /\ r = x % Size /\ r \in 0 .. Size - 1
  BY <1>0, Divided
<1>3. x - Wrap = Size * (a - q) + r
  BY <1>0, <1>1, <1>2
<1>4. x - Wrap \in Int /\ a - q \in Int
  BY <1>0
<1>5. (x - Wrap) % Size = r
  BY <1>0, <1>2, <1>3, <1>4, RemainderIs, Zenon
<1> QED
  BY <1>2, <1>5

\* The cell k places behind p.
LEMMA CellBehind ==
  ASSUME NEW p \in Int, NEW k \in 0 .. Size
  PROVE  /\ p % Size \in 0 .. Size - 1
         /\ (p + k) % Size = IF (p % Size) + k < Size THEN (p % Size) + k
                             ELSE (p % Size) + k - Size
<1>0. Size \in Nat \ {0}
  BY TxAssumption
<1>1. PICK a, r \in Int : p = Size * a + r /\ r = p % Size /\ r \in 0 .. Size - 1
  BY <1>0, Divided
<1>2. CASE r + k < Size
  <2>1. p + k = Size * a + (r + k) /\ r + k \in 0 .. Size - 1
    BY <1>0, <1>1, <1>2
  <2>2. p + k \in Int
    BY <1>0
  <2>3. (p + k) % Size = r + k
    BY <1>0, <2>1, <2>2, RemainderIs, Zenon
  <2> QED
    BY <1>1, <1>2, <2>3
<1>3. CASE ~(r + k < Size)
  <2>1. p + k = Size * (a + 1) + (r + k - Size)
    BY <1>0, <1>1
  <2>2. r + k - Size \in 0 .. Size - 1
    BY <1>0, <1>1, <1>3
  <2>3. p + k \in Int /\ a + 1 \in Int
    BY <1>0
  <2>4. (p + k) % Size = r + k - Size
    BY <1>0, <2>1, <2>2, <2>3, RemainderIs, Zenon
  <2> QED
    BY <1>1, <1>3, <2>4
<1> QED
  BY <1>2, <1>3

\* A copy puts byte k of the run k places behind p, round the end of the ring, and leaves
\* all other cells alone.
LEMMA CopyPuts ==
  ASSUME NEW m \in [0 .. Size - 1 -> Data], NEW p \in Pointer,
         NEW run \in Seq(Data), Len(run) \in 0 .. Size
  PROVE  /\ \A k \in 0 .. Len(run) - 1 : write_data(m, p, run)[(p + k) % Size] = run[k + 1]
         /\ \A c \in 0 .. Size - 1 :
              (\A k \in 0 .. Len(run) - 1 : c # (p + k) % Size)
                => write_data(m, p, run)[c] = m[c]
<1>1. Size \in Nat \ {0} /\ p \in Nat
  BY TxAssumption DEF Pointer
<1>2. PICK off \in 0 .. Size - 1 : off = p % Size
  BY <1>1
<1> DEFINE n == Len(run)
           cell(k) == IF off + k < Size THEN off + k ELSE off + k - Size
<1>3. \A k \in 0 .. n - 1 : (p + k) % Size = cell(k) /\ cell(k) \in 0 .. Size - 1
  <2> TAKE k \in 0 .. n - 1
  <2>1. k \in 0 .. Size /\ p \in Int
    BY <1>1
  <2>2. (p + k) % Size = IF (p % Size) + k < Size THEN (p % Size) + k
                           ELSE (p % Size) + k - Size
    BY <2>1, CellBehind
  <2> QED
    BY <1>1, <1>2, <2>1, <2>2
<1>4. \A c \in 0 .. Size - 1 :
        write_data(m, p, run)[c] =
          IF c - off \in 0 .. n - 1 THEN run[c - off + 1]
          ELSE IF c - off + Size \in 0 .. n - 1 THEN run[c - off + Size + 1]
          ELSE m[c]
  <2> TAKE c \in 0 .. Size - 1
  <2>1. CASE off + n > Size
    <3> DEFINE first == SubSeq(run, 1, Size - off)
               second == SubSeq(run, Size - off + 1, n)
               half == WriteBuf(m, off, first)
    <3>1. write_data(m, p, run) = WriteBuf(half, 0, second)
      BY <1>2, <2>1 DEF write_data
    <3>2. /\ DOMAIN first = 1 .. Size - off
          /\ \A i \in 1 .. Size - off : first[i] = run[i]
      BY <1>1, <2>1
    <3>3. /\ DOMAIN second = 1 .. n - (Size - off)
          /\ \A i \in 1 .. n - (Size - off) : second[i] = run[Size - off + i]
      BY <1>1, <2>1
    <3> HIDE DEF first, second
    <3>4. half[c] = IF c - off \in 0 .. n - 1 THEN run[c - off + 1] ELSE m[c]
      BY <1>1, <2>1, <3>2 DEF WriteBuf
    <3>5. WriteBuf(half, 0, second)[c] =
            IF c + 1 \in 1 .. n - (Size - off) THEN run[Size - off + c + 1] ELSE half[c]
      BY <1>1, <2>1, <3>3 DEF WriteBuf
    <3> HIDE DEF half
    <3>6. Size - off + c + 1 = c - off + Size + 1 /\ n \in 0 .. Size
      BY <1>1
    <3>7. CASE c - off \in 0 .. n - 1
      BY <1>1, <2>1, <3>1, <3>4, <3>5, <3>6, <3>7
    <3>8. CASE c - off + Size \in 0 .. n - 1
      BY <1>1, <2>1, <3>1, <3>5, <3>6, <3>8
    <3>9. CASE c - off \notin 0 .. n - 1 /\ c - off + Size \notin 0 .. n - 1
      BY <1>1, <2>1, <3>1, <3>4, <3>5, <3>6, <3>9
    <3> QED
      BY <3>7, <3>8, <3>9
  <2>2. CASE ~(off + n > Size)
    <3>1. write_data(m, p, run) = WriteBuf(m, off, run)
      BY <1>2, <2>2 DEF write_data
    <3> QED
      BY <1>1, <2>2, <3>1 DEF WriteBuf
  <2> QED
    BY <2>1, <2>2
<1> HIDE DEF n
<1>5. ASSUME NEW k \in 0 .. n - 1
      PROVE  write_data(m, p, run)[(p + k) % Size] = run[k + 1]
  <2>1. (p + k) % Size = cell(k) /\ cell(k) \in 0 .. Size - 1
    BY <1>3, <1>5
  <2>2. n \in 0 .. Size
    BY DEF n
  <2>3. CASE off + k < Size
    <3>1. cell(k) - off = k
      BY <2>3
    <3> QED
      BY <1>4, <2>1, <3>1
  <2>4. CASE ~(off + k < Size)
    <3>1. cell(k) - off + Size = k /\ cell(k) - off \notin 0 .. n - 1
      BY <1>1, <2>2, <2>4
    <3> QED
      BY <1>4, <2>1, <3>1
  <2> QED
    BY <2>3, <2>4
<1>6. ASSUME NEW c \in 0 .. Size - 1, \A k \in 0 .. n - 1 : c # (p + k) % Size
      PROVE  write_data(m, p, run)[c] = m[c]
  <2>1. c - off \notin 0 .. n - 1
    <3> SUFFICES ASSUME c - off \in 0 .. n - 1 PROVE FALSE
      OBVIOUS
    <3>1. c = cell(c - off)
      BY <1>1
    <3> QED
      BY <1>3, <1>6, <3>1, Zenon
  <2>2. c - off + Size \notin 0 .. n - 1
    <3> SUFFICES ASSUME c - off + Size \in 0 .. n - 1 PROVE FALSE
      OBVIOUS
    <3>1. c = cell(c - off + Size)
      BY <1>1
    <3> QED
      BY <1>3, <1>6, <3>1, Zenon
  <2> QED
    BY <1>4, <2>1, <2>2
<1> QED
  BY <1>5, <1>6 DEF n

\* A pointer is as good as the one before it and the distance, to find a cell.
LEMMA SameCell ==
  ASSUME NEW a \in Pointer, NEW b \in Pointer, NEW k \in Int
  PROVE  (a + k) % Size = (b + ((a - b) % Wrap) + k) % Size
<1>0. Wrap \in Nat
  BY TxAssumption
<1>1. (a - b) % Wrap = IF a >= b THEN a - b ELSE a - b + Wrap
  BY Ahead
<1>2. CASE a >= b
  <2>1. b + ((a - b) % Wrap) + k = a + k
    BY <1>0, <1>1, <1>2 DEF Pointer
  <2> QED
    BY <2>1
<1>3. CASE ~(a >= b)
  <2> DEFINE d == (a - b) % Wrap
             x == b + d + k
  <2>1. x \in Int /\ x - Wrap = a + k
    <3>1. d = a - b + Wrap
      BY <1>1, <1>3
    <3> HIDE DEF d
    <3> QED
      BY <1>0, <3>1 DEF Pointer
  <2> HIDE DEF x
  <2>2. (x - Wrap) % Size = x % Size
    BY <2>1, WholeRound
  <2>3. (a + k) % Size = x % Size
    BY <2>1, <2>2
  <2> QED
    BY <2>3, Zenon DEF x
<1> QED
  BY <1>2, <1>3

\* Less than a round apart, cells are different.
LEMMA CellsDiffer ==
  ASSUME NEW p \in Int, NEW i \in 0 .. Size - 1, NEW j \in 0 .. Size - 1, i # j
  PROVE  (p + i) % Size # (p + j) % Size
<1>1. Size \in Nat /\ i \in 0 .. Size /\ j \in 0 .. Size
  BY TxAssumption
<1>2. p % Size \in 0 .. Size - 1
  BY <1>1, CellBehind
<1>3. (p + i) % Size = IF (p % Size) + i < Size THEN (p % Size) + i
                         ELSE (p % Size) + i - Size
  BY <1>1, CellBehind
<1>4. (p + j) % Size = IF (p % Size) + j < Size THEN (p % Size) + j
                         ELSE (p % Size) + j - Size
  BY <1>1, CellBehind
<1> DEFINE r == p % Size
<1>5. r \in 0 .. Size - 1
  BY <1>2
<1> HIDE DEF r
<1>6. (IF r + i < Size THEN r + i ELSE r + i - Size) #
      (IF r + j < Size THEN r + j ELSE r + j - Size)
  BY <1>1, <1>5
<1> QED
  BY <1>3, <1>4, <1>6 DEF r

\* The place of byte k of a copy, seen from rd.
LEMMA CopyCell ==
  ASSUME RingTypeOK, NEW k \in Int
  PROVE  /\ (ptr + k) % Size = (wr + (Unsent + k)) % Size
         /\ (wr + k) % Size = (rd + (Pending + k)) % Size
<1>0. /\ Pending \in Nat /\ Unsent \in Nat
      /\ ptr \in Pointer /\ wr \in Pointer /\ rd \in Pointer
      /\ ptr \in Int /\ wr \in Int /\ rd \in Int
  BY Distances DEF RingTypeOK, Pointer
<1>1. (ptr + k) % Size = (wr + ((ptr - wr) % Wrap) + k) % Size
  BY <1>0, SameCell, Zenon
<1>2. (wr + k) % Size = (rd + ((wr - rd) % Wrap) + k) % Size
  BY <1>0, SameCell, Zenon
<1>3. wr + Unsent + k = wr + (Unsent + k) /\ rd + Pending + k = rd + (Pending + k)
  BY <1>0
<1>4. /\ (ptr + k) % Size = (wr + Unsent + k) % Size
      /\ (wr + k) % Size = (rd + Pending + k) % Size
  BY <1>1, <1>2, Zenon DEF Unsent, Pending
<1> QED
  BY <1>3, <1>4

\* A copy leaves what is to leave, and what is written, where it is, and puts the bytes
\* behind it.
LEMMA CopyAppends ==
  ASSUME KeepsRule, TxInv, Copy
  PROVE  /\ \A i \in 0 .. Pending + Unsent - 1 :
              mem'[(rd + i) % Size] = mem[(rd + i) % Size]
         /\ \A k \in 0 .. Len(Taken) - 1 : mem'[(wr + (Unsent + k)) % Size] = Taken[k + 1]
<1>1. /\ Taken \in Seq(Data) /\ Len(Taken) \in 0 .. Size /\ RingTypeOK
      /\ ptr \in Pointer /\ mem \in [0 .. Size - 1 -> Data]
      /\ mem' = write_data(mem, ptr, Taken)
  BY TakenIs DEF TxInv, RingInv, RingTypeOK, Copy, Taken
<1>2. /\ Pending \in Nat /\ Unsent \in Nat /\ Size \in Nat \ {0} /\ rd \in Int
      /\ Pending + Unsent + Len(Taken) <= Size
  BY <1>1, Distances, CopyDistances, TxAssumption DEF RingTypeOK, Pointer
<1>3. /\ \A k \in 0 .. Len(Taken) - 1 : mem'[(ptr + k) % Size] = Taken[k + 1]
      /\ \A c \in 0 .. Size - 1 :
           (\A k \in 0 .. Len(Taken) - 1 : c # (ptr + k) % Size) => mem'[c] = mem[c]
  BY <1>1, CopyPuts
<1>4. ASSUME NEW k \in 0 .. Len(Taken) - 1
      PROVE  /\ (ptr + k) % Size = (wr + (Unsent + k)) % Size
             /\ (ptr + k) % Size = (rd + (Pending + Unsent + k)) % Size
  <2>1. (ptr + k) % Size = (wr + (Unsent + k)) % Size
    BY <1>1, CopyCell
  <2>2. Unsent + k \in Int /\ Pending + (Unsent + k) = Pending + Unsent + k
    BY <1>2
  <2>3. (wr + (Unsent + k)) % Size = (rd + (Pending + (Unsent + k))) % Size
    BY <1>1, <2>2, CopyCell
  <2> QED
    BY <2>1, <2>2, <2>3
<1>5. ASSUME NEW i \in 0 .. Pending + Unsent - 1
      PROVE  mem'[(rd + i) % Size] = mem[(rd + i) % Size]
  <2>1. (rd + i) % Size \in 0 .. Size - 1
    <3>1. i \in 0 .. Size
      BY <1>1, <1>2
    <3>2. /\ rd % Size \in 0 .. Size - 1
          /\ (rd + i) % Size = IF (rd % Size) + i < Size THEN (rd % Size) + i
                               ELSE (rd % Size) + i - Size
      BY <1>2, <3>1, CellBehind
    <3> QED
      BY <1>2, <3>1, <3>2
  <2>2. ASSUME NEW k \in 0 .. Len(Taken) - 1
        PROVE  (rd + i) % Size # (ptr + k) % Size
    <3> DEFINE j == Pending + Unsent + k
    <3>1. j \in 0 .. Size - 1 /\ i \in 0 .. Size - 1 /\ i # j
      BY <1>1, <1>2
    <3> HIDE DEF j
    <3>2. (rd + i) % Size # (rd + j) % Size
      BY <1>2, <3>1, CellsDiffer
    <3> QED
      BY <3>2, <1>4 DEF j
  <2> QED
    BY <1>3, <2>1, <2>2
<1> QED
  BY <1>3, <1>4, <1>5

-----------------------------------------------------------------------------
(* Runs of cells as sequences. *)

\* The bytes in n cells from p on, of a memory m.
Cells(m, p, n) == [i \in 1 .. n |-> m[(p + i - 1) % Size]]

\* They are a sequence of bytes.
LEMMA CellsAre ==
  ASSUME NEW m \in [0 .. Size - 1 -> Data], NEW p \in Int, NEW n \in Nat
  PROVE  /\ Cells(m, p, n) \in Seq(Data) /\ Len(Cells(m, p, n)) = n
         /\ \A i \in 1 .. n : Cells(m, p, n)[i] = m[(p + (i - 1)) % Size]
<1>1. \A i \in 1 .. n : p + i - 1 = p + (i - 1) /\ p + i - 1 \in Int
  OBVIOUS
<1>2. \A i \in 1 .. n : (p + i - 1) % Size \in 0 .. Size - 1
  BY <1>1, TxAssumption, Divided
<1>3. Cells(m, p, n) \in [1 .. n -> Data]
  BY <1>2 DEF Cells
<1>4. \A i \in 1 .. n : Cells(m, p, n)[i] = m[(p + i - 1) % Size]
  BY DEF Cells
<1>5. Cells(m, p, n) \in Seq(Data) /\ Len(Cells(m, p, n)) = n
  BY <1>3
<1> QED
  BY <1>1, <1>4, <1>5

\* Cells one behind the other hold one sequence behind the other.
LEMMA CellsJoin ==
  ASSUME NEW m \in [0 .. Size - 1 -> Data], NEW p \in Int, NEW n \in Nat, NEW s \in Seq(Data),
         \A k \in 0 .. Len(s) - 1 : m[(p + (n + k)) % Size] = s[k + 1]
  PROVE  Cells(m, p, n + Len(s)) = Cells(m, p, n) \o s
<1> DEFINE long == Cells(m, p, n + Len(s))
           joined == Cells(m, p, n) \o s
<1>0. n + Len(s) \in Nat /\ Len(s) \in Nat
  OBVIOUS
<1>1. /\ long \in Seq(Data) /\ Len(long) = n + Len(s)
      /\ \A i \in 1 .. n + Len(s) : long[i] = m[(p + (i - 1)) % Size]
  BY <1>0, CellsAre, Zenon
<1>2. /\ Cells(m, p, n) \in Seq(Data) /\ Len(Cells(m, p, n)) = n
      /\ \A i \in 1 .. n : Cells(m, p, n)[i] = m[(p + (i - 1)) % Size]
  BY CellsAre
<1> DEFINE head == Cells(m, p, n)
<1>a. head \in Seq(Data) /\ Len(head) = n
  BY <1>2
<1> HIDE DEF head
<1>3. /\ head \o s \in Seq(Data) /\ Len(head \o s) = n + Len(s)
      /\ \A i \in 1 .. n + Len(s) : (head \o s)[i] = IF i <= n THEN head[i] ELSE s[i - n]
  BY <1>a
<1>b. joined = head \o s /\ \A i \in 1 .. n : head[i] = m[(p + (i - 1)) % Size]
  BY <1>2 DEF head
<1> HIDE DEF joined, long
<1>4. ASSUME NEW i \in 1 .. n + Len(s)
      PROVE  long[i] = joined[i]
  <2>1. CASE i <= n
    <3>1. i \in 1 .. n
      BY <2>1
    <3>2. joined[i] = head[i] /\ head[i] = m[(p + (i - 1)) % Size]
      <4>1. joined = head \o s /\ (head \o s)[i] = head[i]
        BY <1>b, <1>3, <2>1
      <4> QED
        BY ONLY <1>b, <3>1, <4>1
    <3>3. long[i] = m[(p + (i - 1)) % Size]
      BY <1>1
    <3> QED
      BY ONLY <3>2, <3>3
  <2>2. CASE ~(i <= n)
    <3>1. PICK k \in 0 .. Len(s) - 1 : k = i - n - 1
      BY <2>2
    <3>2. i - 1 = n + k /\ i - n = k + 1
      BY <3>1
    <3> QED
      BY <1>0, <1>1, <1>3, <1>b, <2>2, <3>1, <3>2
  <2> QED
    BY <2>1, <2>2
<1>5. long = joined
  BY <1>1, <1>3, <1>4, <1>b, SeqEqual
<1> QED
  BY <1>5 DEF long, joined

\* Cells that hold the same bytes.
LEMMA CellsSame ==
  ASSUME NEW m \in [0 .. Size - 1 -> Data], NEW m2 \in [0 .. Size - 1 -> Data],
         NEW p \in Int, NEW n \in Nat,
         \A i \in 0 .. n - 1 : m2[(p + i) % Size] = m[(p + i) % Size]
  PROVE  Cells(m2, p, n) = Cells(m, p, n)
<1>1. /\ Cells(m, p, n) \in Seq(Data) /\ Len(Cells(m, p, n)) = n
      /\ \A i \in 1 .. n : Cells(m, p, n)[i] = m[(p + (i - 1)) % Size]
  BY CellsAre
<1>2. /\ Cells(m2, p, n) \in Seq(Data) /\ Len(Cells(m2, p, n)) = n
      /\ \A i \in 1 .. n : Cells(m2, p, n)[i] = m2[(p + (i - 1)) % Size]
  BY CellsAre
<1>3. \A i \in 1 .. n : i - 1 \in 0 .. n - 1
  OBVIOUS
<1>4. \A i \in 1 .. n : Cells(m2, p, n)[i] = Cells(m, p, n)[i]
  BY <1>1, <1>2, <1>3
<1> QED
  BY <1>1, <1>2, <1>4, SeqEqual

\* Without the first byte.
LEMMA CellsTail ==
  ASSUME NEW m \in [0 .. Size - 1 -> Data], NEW p \in Pointer, NEW q \in Pointer,
         NEW n \in Nat \ {0}, q = IF p + 1 < Wrap THEN p + 1 ELSE p + 1 - Wrap
  PROVE  Cells(m, q, n - 1) = Tail(Cells(m, p, n)) /\ Cells(m, p, n) # << >>
<1> DEFINE s == Cells(m, p, n)
           t == Cells(m, q, n - 1)
<1>0. p \in Int /\ q \in Int /\ n - 1 \in Nat /\ n \in Nat /\ Wrap \in Nat
  BY TxAssumption DEF Pointer
<1>1. s \in Seq(Data) /\ Len(s) = n /\ \A i \in 1 .. n : s[i] = m[(p + (i - 1)) % Size]
  BY <1>0, CellsAre
<1>2. t \in Seq(Data) /\ Len(t) = n - 1 /\ \A i \in 1 .. n - 1 : t[i] = m[(q + (i - 1)) % Size]
  BY <1>0, CellsAre
<1> HIDE DEF s, t
<1>3. s # << >>
  BY <1>1
<1>4. /\ Tail(s) \in Seq(Data) /\ Len(Tail(s)) = n - 1
      /\ \A i \in 1 .. n - 1 : Tail(s)[i] = s[i + 1]
  BY <1>1, <1>3, HeadTailProperties
<1>5. ASSUME NEW i \in 1 .. n - 1
      PROVE  t[i] = Tail(s)[i]
  <2>1. t[i] = m[(q + (i - 1)) % Size] /\ Tail(s)[i] = m[(p + ((i + 1) - 1)) % Size]
    BY <1>0, <1>1, <1>2, <1>4
  <2>2. (q + (i - 1)) % Size = (p + ((i + 1) - 1)) % Size
    <3> DEFINE x == p + ((i + 1) - 1)
    <3>1. x \in Int /\ (q + (i - 1) = x \/ q + (i - 1) = x - Wrap)
      BY <1>0
    <3> HIDE DEF x
    <3>2. (x - Wrap) % Size = x % Size
      BY <3>1, WholeRound
    <3>3. (q + (i - 1)) % Size = x % Size
      BY <3>1, <3>2
    <3> QED
      BY <3>3 DEF x
  <2> QED
    BY <2>1, <2>2
<1>6. t = Tail(s)
  BY <1>2, <1>4, <1>5, SeqEqual
<1> QED
  BY <1>3, <1>6 DEF s, t

-----------------------------------------------------------------------------
(* The ring implements the stream. *)

\* What the abstract packet and queue are in the ring.
PacketNow == IF up /\ begun THEN Cells(mem, wr, Unsent) ELSE << >>
QueueNow == IF up THEN Cells(mem, rd, Pending) ELSE << >>

\* No call of write() is under way between calls, so none is lost sight of.
RefInv == TxInv /\ (at = "idle" => bytes = << >>)

\* It is kept.
LEMMA RefKept ==
  ASSUME KeepsRule
  PROVE  /\ Init => RefInv
         /\ RefInv /\ [Next]_vars => RefInv'
<1>1. Init => RefInv
  BY InitHolds DEF RefInv, Init
<1>2. ASSUME RefInv, [Next]_vars
      PROVE  RefInv'
  <2>1. TxInv'
    BY <1>2, StepKeeps DEF RefInv
  <2>2. at' = "idle" => bytes' = << >>
    BY <1>2 DEF RefInv, Next, InWrite, Open, beginPacketTCP, WriteCall, PollCall, PollOn,
                PollEnd, WriteAbort, PollAgain, Copy, Return, send, Deliver, Drop, vars
  <2> QED
    BY <2>1, <2>2 DEF RefInv
<1> QED
  BY <1>1, <1>2

\* Nothing in no cells.
LEMMA NoCells ==
  ASSUME NEW m, NEW p
  PROVE  Cells(m, p, 0) = << >>
BY DEF Cells

\* A copy appends the call's bytes to the packet and leaves the queue alone.
LEMMA CopyMaps ==
  ASSUME KeepsRule, TxInv, Copy
  PROVE  PacketNow' = PacketNow \o Taken /\ QueueNow' = QueueNow /\ bytes' = << >>
<1>1. /\ UNCHANGED << wr, rd, up, begun >> /\ up /\ begun /\ bytes' = << >>
  BY DEF Copy, Return, TxInv, RingInv, Room
<1>2. /\ Taken \in Seq(Data) /\ mem \in [0 .. Size - 1 -> Data] /\ ptr \in Pointer
      /\ wr \in Int /\ rd \in Int /\ RingTypeOK /\ Len(Taken) \in 0 .. Size
  BY TakenIs DEF TxInv, RingInv, RingTypeOK, Pointer
<1>3. mem' \in [0 .. Size - 1 -> Data]
  BY <1>2, CopyTypes DEF Copy, Taken
<1>4. Pending \in Nat /\ Unsent \in Nat
  BY <1>2, Distances
<1>5. Unsent' = Unsent + Len(Taken) /\ Pending' = Pending
  BY CopyDistances
<1>6. \A i \in 0 .. Pending - 1 : mem'[(rd + i) % Size] = mem[(rd + i) % Size]
  BY <1>4, CopyAppends
<1>7. \A i \in 0 .. Unsent - 1 : mem'[(wr + i) % Size] = mem[(wr + i) % Size]
  <2> TAKE i \in 0 .. Unsent - 1
  <2>1. (wr + i) % Size = (rd + (Pending + i)) % Size
    BY <1>2, CopyCell
  <2>2. Pending + i \in 0 .. Pending + Unsent - 1
    BY <1>4
  <2> QED
    BY <2>1, <2>2, CopyAppends
<1>8. \A k \in 0 .. Len(Taken) - 1 : mem'[(wr + (Unsent + k)) % Size] = Taken[k + 1]
  BY CopyAppends
<1>9. Cells(mem', rd, Pending) = Cells(mem, rd, Pending)
  BY <1>2, <1>3, <1>4, <1>6, CellsSame
<1>10. Cells(mem', wr, Unsent) = Cells(mem, wr, Unsent)
  BY <1>2, <1>3, <1>4, <1>7, CellsSame
<1>11. Cells(mem', wr, Unsent + Len(Taken)) = Cells(mem', wr, Unsent) \o Taken
  BY <1>2, <1>3, <1>4, <1>8, CellsJoin
<1> QED
  BY <1>1, <1>5, <1>9, <1>10, <1>11, Zenon DEF PacketNow, QueueNow

\* send() appends the packet to the queue and leaves none.
LEMMA SendMaps ==
  ASSUME TxInv, send
  PROVE  PacketNow' = << >> /\ QueueNow' = QueueNow \o PacketNow
<1>1. UNCHANGED << mem, rd, up, begun >> /\ up /\ begun
  BY DEF send
<1>2. /\ mem \in [0 .. Size - 1 -> Data] /\ wr \in Int /\ rd \in Int /\ RingTypeOK
  BY DEF TxInv, RingInv, RingTypeOK, Pointer
<1>3. Pending \in Nat /\ Unsent \in Nat
  BY <1>2, Distances
<1>4. Pending' = Pending + Unsent /\ Unsent' = 0
  BY SendDistances
<1> DEFINE s == Cells(mem, wr, Unsent)
<1>5. /\ s \in Seq(Data) /\ Len(s) = Unsent
      /\ \A i \in 1 .. Unsent : s[i] = mem[(wr + (i - 1)) % Size]
  BY <1>2, <1>3, CellsAre
<1> HIDE DEF s
<1>6. \A k \in 0 .. Len(s) - 1 : mem[(rd + (Pending + k)) % Size] = s[k + 1]
  <2> TAKE k \in 0 .. Len(s) - 1
  <2>1. k \in Int /\ k + 1 \in 1 .. Unsent /\ (k + 1) - 1 = k
    BY <1>3, <1>5
  <2>2. (wr + k) % Size = (rd + (Pending + k)) % Size
    BY <1>2, <2>1, CopyCell
  <2>3. s[k + 1] = mem[(wr + k) % Size]
    BY <1>5, <2>1
  <2> QED
    BY <2>2, <2>3
<1>7. Cells(mem, rd, Pending + Len(s)) = Cells(mem, rd, Pending) \o s
  BY <1>2, <1>3, <1>5, <1>6, CellsJoin
<1>8. Pending' = Pending + Len(s)
  BY <1>4, <1>5
<1>9. QueueNow' = QueueNow \o s
  BY <1>1, <1>7, <1>8, Zenon DEF QueueNow
<1>10. PacketNow = s
  BY <1>1 DEF PacketNow, s
<1>11. PacketNow' = << >>
  BY <1>4, NoCells DEF PacketNow
<1> QED
  BY <1>9, <1>10, <1>11

\* A byte that leaves is the first of the queue.
LEMMA DeliverMaps ==
  ASSUME TxInv, Deliver
  PROVE  QueueNow # << >> /\ QueueNow' = Tail(QueueNow) /\ PacketNow' = PacketNow
<1>1. UNCHANGED << mem, wr, up, begun >> /\ up /\ Pending > 0
  BY DEF Deliver
<1>2. mem \in [0 .. Size - 1 -> Data] /\ rd \in Pointer /\ RingTypeOK
  BY DEF TxInv, RingInv, RingTypeOK
<1>3. Pending \in Nat \ {0}
  BY <1>1, <1>2, Distances
<1>4. /\ rd' \in Pointer /\ rd' = IF rd + 1 < Wrap THEN rd + 1 ELSE rd + 1 - Wrap
      /\ Pending' = Pending - 1 /\ Unsent' = Unsent
  BY DeliverDistances
<1>5. /\ Cells(mem, rd', Pending - 1) = Tail(Cells(mem, rd, Pending))
      /\ Cells(mem, rd, Pending) # << >>
  BY <1>2, <1>3, <1>4, CellsTail
<1> QED
  BY <1>1, <1>4, <1>5, Zenon DEF PacketNow, QueueNow

\* Every step of the ring is a step of the abstract stream, or none.
LEMMA StepMaps ==
  ASSUME KeepsRule, RefInv, [Next]_vars
  PROVE  [Stream!Next]_<< bytes, PacketNow, QueueNow >>
<1>0. TxInv /\ RingTypeOK /\ Pending \in Nat /\ Unsent \in Nat
  BY Distances DEF RefInv, TxInv, RingInv
<1>1. CASE Open
  <2> PICK p \in Pointer : wr' = p /\ rd' = p
    BY <1>1 DEF Open
  <2>1. (p - p) % Wrap = 0
    BY Ahead DEF Pointer
  <2>2. Pending' = 0
    BY <2>1 DEF Pending
  <2>3. Cells(mem', rd', Pending') = << >>
    BY <2>2, NoCells
  <2>4. PacketNow = << >> /\ QueueNow = << >> /\ PacketNow' = << >> /\ QueueNow' = << >>
    BY <1>1, <2>3 DEF Open, PacketNow, QueueNow
  <2> QED
    BY <1>1, <2>4 DEF Open
<1>2. CASE beginPacketTCP
  <2>1. (wr - wr) % Wrap = 0
    BY <1>0, Ahead DEF RingTypeOK, Pointer
  <2>2. Unsent' = 0 /\ Pending' = Pending
    BY <1>2, <2>1 DEF beginPacketTCP, Unsent, Pending
  <2>3. PacketNow' = << >>
    BY <2>2, NoCells DEF PacketNow
  <2>4. QueueNow' = QueueNow /\ bytes' = bytes
    BY <1>2, <2>2 DEF beginPacketTCP, QueueNow
  <2> QED
    BY <2>3, <2>4 DEF Stream!Next, Stream!Begin, PacketNow, QueueNow, Ring, Cells
<1>3. CASE WriteCall
  <2>1. PacketNow' = PacketNow /\ QueueNow' = QueueNow
    BY <1>3 DEF WriteCall, PacketNow, QueueNow, Pending, Unsent, ring
  <2>2. bytes = << >>
    BY <1>3 DEF WriteCall, RefInv
  <2>3. bytes' \in Seq(Data)
    BY <1>3, RefKept, Bounded DEF RefInv, TxInv, RingInv, RingTypeOK, Next
  <2> QED
    BY <2>1, <2>2, <2>3 DEF Stream!Next, Stream!CallWrite, PacketNow, QueueNow, Ring, Cells
<1>4. CASE PollCall \/ PollOn \/ PollEnd \/ PollAgain
  <2>1. UNCHANGED << mem, wr, rd, ptr, up, begun, bytes >>
    BY <1>4 DEF PollCall, PollOn, PollEnd, PollAgain, ring
  <2>2. UNCHANGED << bytes, PacketNow, QueueNow >>
    BY <2>1 DEF PacketNow, QueueNow, Pending, Unsent
  <2> QED
    BY <2>2
<1>5. CASE WriteAbort
  <2>1. PacketNow = << >> /\ QueueNow = << >> /\ UNCHANGED << PacketNow, QueueNow >>
    BY <1>5 DEF WriteAbort, PacketNow, QueueNow, ring
  <2>2. bytes' = << >>
    BY <1>5 DEF WriteAbort, Return
  <2> QED
    BY <2>1, <2>2 DEF Stream!Next, Stream!GiveUp, PacketNow, QueueNow, Ring, Cells
<1>6. CASE Copy
  <2>1. Stream!Kept(bytes) = Taken
    <3>1. bytes \in Seq(Data)
      BY <1>0, TakenIs
    <3> QED
      BY <3>1, CutIs DEF Stream!Kept, Taken
  <2>2. PacketNow' = PacketNow \o Taken /\ QueueNow' = QueueNow /\ bytes' = << >>
    BY <1>0, <1>6, CopyMaps
  <2>3. PacketNow' = PacketNow \o Stream!Kept(bytes)
    BY <2>1, <2>2
  <2> QED
    BY <2>2, <2>3 DEF Stream!Next, Stream!Write, PacketNow, QueueNow, Ring, Cells
<1>7. CASE send
  <2>1. bytes = << >> /\ bytes' = bytes
    BY <1>7 DEF send, RefInv
  <2> QED
    BY <1>0, <1>7, <2>1, SendMaps DEF Stream!Next, Stream!Send, PacketNow, QueueNow, Ring, Cells
<1>8. CASE Deliver
  <2>1. bytes' = bytes
    BY <1>8 DEF Deliver
  <2> QED
    BY <1>0, <1>8, <2>1, DeliverMaps
       DEF Stream!Next, Stream!Deliver, PacketNow, QueueNow, Ring, Cells
<1>9. CASE Drop
  <2>1. PacketNow' = << >> /\ QueueNow' = << >> /\ bytes' = bytes
    BY <1>9 DEF Drop, PacketNow, QueueNow
  <2> QED
    BY <2>1 DEF Stream!Next, Stream!Lose, PacketNow, QueueNow, Ring, Cells
<1>10. CASE UNCHANGED vars
  <2>1. UNCHANGED << bytes, PacketNow, QueueNow >>
    BY <1>10 DEF vars, ring, PacketNow, QueueNow, Pending, Unsent
  <2> QED
    BY <2>1
<1> QED
  BY <1>1, <1>2, <1>3, <1>4, <1>5, <1>6, <1>7, <1>8, <1>9, <1>10 DEF Next, InWrite

-----------------------------------------------------------------------------
(* Theorems. *)

\* The invariant at every moment, if the packet rule is kept.
LEMMA TxInvariant ==
  ASSUME KeepsRule
  PROVE  Spec => []TxInv
BY InitHolds, StepKeeps, PTL DEF Spec

\* No write overwrites a byte that is still to leave, wherever the ring ends and the
\* pointers wrap (ASocket.cpp:216-230), if every packet of several pieces keeps the rule.
THEOREM RingHolds ==
  ASSUME KeepsRule
  PROVE  Spec => []NoOverrun
<1>1. TxInv => NoOverrun
  BY DEF TxInv, RingInv
<1> QED
  BY <1>1, TxInvariant, PTL

\* The pointers stay 16-bit pointers, and the free size a size of the ring.
THEOREM TxTypes ==
  ASSUME KeepsRule
  PROVE  Spec => []TypeOK
<1>1. TxInv => TypeOK
  BY DEF TxInv, RingInv, LoopInv, TypeOK
<1> QED
  BY <1>1, TxInvariant, PTL

\* The free size write() polls is what its register held at one moment of the reading, or
\* a zero that a carry has split, while the ring drains between its bus cycles and is
\* filled between its calls (w5100.c:709-722, ASocket.cpp:217-225).
THEOREM SizeReadIsSound ==
  ASSUME KeepsRule
  PROVE  Spec => AnswerSound
<1>1. ASSUME TxInv, TxInv', [Next]_vars, Returns
      PROVE  Sound
  <2>1. LoopInv /\ [LoopNext]_loop
    BY <1>1, RegisterKept DEF TxInv
  <2>2. reading = "test" /\ Agree
    BY <1>1, <2>1 DEF Returns, LoopNext, ReadOn, loop, locals, Call, ReadHi1, ReadLo1,
                      ReadHi2, ReadLo2, Again, Answer, Grow, Take
  <2> QED
    BY <2>1, <2>2, AnswerHolds
<1>2. TxInv /\ TxInv' /\ [Next]_vars => [Returns => Sound]_loop
  BY <1>1
<1> QED
  BY <1>2, TxInvariant, PTL DEF Spec, AnswerSound

\* What the ring holds between the pointers is the stream of PacketStream: a write puts
\* the bytes of its call that do not exceed the ring behind those written before and
\* alters none that is to leave, send() hands the packet over whole, and bytes leave in
\* order (ASocket.cpp:212-230, w5100.c:796-818), for a ring and pointers of any size.
THEOREM StreamImplemented ==
  ASSUME KeepsRule
  PROVE  Spec => ImplementsStream
<1>1. Init => Stream!Init
  BY DEF Init, Stream!Init
<1>2. RefInv /\ [Next]_vars => [Stream!Next]_<< bytes, PacketNow, QueueNow >>
  BY StepMaps
<1>3. RefInv /\ [Next]_vars =>
        [Stream!Next]_<< bytes, IF up /\ begun THEN Ring(wr, Unsent) ELSE << >>,
                         IF up THEN Ring(rd, Pending) ELSE << >> >>
  BY <1>2 DEF PacketNow, QueueNow, Ring, Cells
<1> QED
  BY <1>1, <1>3, RefKept, PTL DEF Spec, ImplementsStream, Stream!Spec
=============================================================================
