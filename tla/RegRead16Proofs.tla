-------------------------- MODULE RegRead16Proofs ---------------------------
(***************************************************************************)
(* The answer of the double reading, for bytes of any size.                *)
(***************************************************************************)
EXTENDS RegRead16, TLAPS

Started == reading # "no"
HiRead  == reading \in {"lo1", "hi2", "lo2", "test"}
LoRead  == reading \in {"hi2", "lo2", "test"}

\* The order of the readings: each byte read is bounded by what the register was read to
\* hold later, and the register itself only grows while the call lasts.
Order ==
  /\ Started => AtMost(atCall, reg)
  /\ reading = "lo1" => atCall.hi <= hi /\ hi <= reg.hi
  /\ LoRead => /\ val1.lo = atLow.lo /\ val1.hi <= atLow.hi /\ atCall.hi <= val1.hi
               /\ AtMost(atCall, atLow) /\ AtMost(atLow, reg)
  /\ reading \in {"hi2", "lo2"} => val1 # Zero
  /\ reading = "lo2" => atLow.hi <= hi /\ hi <= reg.hi
  /\ (reading = "test" /\ val1 # Zero) => atLow.hi <= val.hi

LoopInv == LoopTypeOK /\ Order

\* The bytes of a word are numbers.
LEMMA WordBytes ==
  ASSUME NEW w \in Word
  PROVE  w.hi \in Nat /\ w.lo \in Nat /\ w = [hi |-> w.hi, lo |-> w.lo]
BY BaseAssumption DEF Word, Byte

\* A word that is no greater has a high byte that is no greater.
LEMMA HighByte ==
  ASSUME NEW v \in Word, NEW w \in Word, AtMost(v, w)
  PROVE  v.hi <= w.hi
BY WordBytes DEF AtMost, Less

LEMMA AtMostTransitive ==
  ASSUME NEW u \in Word, NEW v \in Word, NEW w \in Word, AtMost(u, v), AtMost(v, w)
  PROVE  AtMost(u, w)
BY WordBytes DEF AtMost, Less

LEMMA ZeroIsLeast ==
  ASSUME NEW w \in Word
  PROVE  Zero \in Word /\ AtMost(Zero, w)
<1>1. Zero \in Word
  BY BaseAssumption DEF Zero, Word, Byte
<1> QED
  BY <1>1, WordBytes DEF Zero, AtMost, Less

LEMMA LoopStep == LoopInv /\ [LoopNext]_loop => LoopInv'
<1> SUFFICES ASSUME LoopInv, [LoopNext]_loop
             PROVE  LoopInv'
  OBVIOUS
<1> USE DEF LoopInv
<1>1. CASE Call
  <2>1. LoopTypeOK'
    BY <1>1, ZeroIsLeast DEF Call, LoopTypeOK
  <2> QED
    BY <1>1, <2>1 DEF Call, Order, Started, LoRead, AtMost
<1>2. CASE ReadHi1
  <2>1. LoopTypeOK'
    BY <1>2 DEF ReadHi1, LoopTypeOK, Word
  <2>2. atCall.hi <= reg.hi /\ reg.hi \in Nat
    BY <1>2, HighByte, WordBytes DEF ReadHi1, LoopTypeOK, Order, Started
  <2> QED
    BY <1>2, <2>1, <2>2 DEF ReadHi1, Order, Started, LoRead
<1>3. CASE ReadLo1
  <2>1. LoopTypeOK' /\ val1'.hi = hi /\ val1'.lo = reg.lo /\ atLow' = reg
    BY <1>3 DEF ReadLo1, LoopTypeOK, Word
  <2>2. atCall.hi <= hi /\ hi <= reg.hi /\ AtMost(atCall, reg)
    BY <1>3 DEF ReadLo1, Order, Started
  <2>3. AtMost(reg, reg) /\ reading' \in {"hi2", "test"} /\ UNCHANGED << reg, atCall, val >>
    BY <1>3 DEF ReadLo1, AtMost
  <2>4. reading' = "hi2" <=> val1' # Zero
    BY <1>3 DEF ReadLo1
  <2> QED
    BY <2>1, <2>2, <2>3, <2>4 DEF Order, Started, LoRead
<1>4. CASE ReadHi2
  <2>1. LoopTypeOK'
    BY <1>4 DEF ReadHi2, LoopTypeOK, Word
  <2>2. atLow.hi <= reg.hi /\ reg.hi \in Nat
    BY <1>4, HighByte, WordBytes DEF ReadHi2, LoopTypeOK, Order, LoRead
  <2> QED
    BY <1>4, <2>1, <2>2 DEF ReadHi2, Order, Started, LoRead
<1>5. CASE ReadLo2
  <2>1. LoopTypeOK' /\ val'.hi = hi
    BY <1>5 DEF ReadLo2, LoopTypeOK, Word
  <2> QED
    BY <1>5, <2>1 DEF ReadLo2, Order, Started, LoRead
<1>6. CASE Again \/ Answer
  <2>1. CASE Again
    BY <2>1 DEF Again, LoopTypeOK, Order, Started, LoRead
  <2>2. CASE Answer
    <3>1. LoopTypeOK'
      BY <2>2, ZeroIsLeast, BaseAssumption DEF Answer, LoopTypeOK, Byte
    <3> QED
      BY <2>2, <3>1 DEF Answer, Order, Started, LoRead
  <2> QED
    BY <1>6, <2>1, <2>2
<1>7. CASE Grow
  <2>1. PICK new \in Word : Less(reg, new) /\ reg' = new
    BY <1>7 DEF Grow
  <2>2. UNCHANGED << reading, hi, val1, val, atCall, atLow >> /\ LoopTypeOK'
    BY <1>7, <2>1 DEF Grow, locals, LoopTypeOK
  <2>3. AtMost(reg, reg') /\ reg.hi <= reg'.hi
    BY <2>1, HighByte DEF AtMost, LoopTypeOK
  <2>4. AtMost(atCall, reg) => AtMost(atCall, reg')
    BY <2>1, <2>3, AtMostTransitive DEF LoopTypeOK
  <2>5. AtMost(atLow, reg) => AtMost(atLow, reg')
    BY <2>1, <2>3, AtMostTransitive DEF LoopTypeOK
  <2>6. hi <= reg.hi => hi <= reg'.hi
    BY <2>1, <2>3, WordBytes, BaseAssumption DEF LoopTypeOK, Byte
  <2> QED
    BY <2>2, <2>4, <2>5, <2>6 DEF Order, Started, LoRead
<1>8. CASE Take
  BY <1>8 DEF Take, locals, LoopTypeOK, Order, Started, LoRead
<1>9. CASE UNCHANGED loop
  BY <1>9 DEF loop, locals, LoopTypeOK, Order, Started, LoRead, AtMost, Less
<1> QED
  BY <1>1, <1>2, <1>3, <1>4, <1>5, <1>6, <1>7, <1>8, <1>9 DEF LoopNext, ReadOn

\* The answer of a call that returns is sound.
LEMMA AnswerHolds ==
  ASSUME LoopInv, reading = "test", Agree
  PROVE  Sound
<1>1. /\ val = val1 /\ val1.lo = atLow.lo /\ val1.hi <= atLow.hi /\ atCall.hi <= val1.hi
      /\ AtMost(atCall, atLow) /\ AtMost(atLow, reg)
  BY DEF Agree, LoopInv, Order, LoRead
<1>2. /\ atCall \in Word /\ atLow \in Word /\ val \in Word
      /\ atCall.hi \in Nat /\ atCall.lo \in Nat /\ atLow.hi \in Nat /\ atLow.lo \in Nat
      /\ atCall = [hi |-> atCall.hi, lo |-> atCall.lo]
      /\ atLow = [hi |-> atLow.hi, lo |-> atLow.lo]
      /\ val = [hi |-> val.hi, lo |-> val.lo] /\ val.hi \in Nat
  BY WordBytes DEF LoopInv, LoopTypeOK
<1>3. CASE val = Zero
  <2>1. atCall.hi = 0 /\ atLow.lo = 0
    BY <1>1, <1>2, <1>3 DEF Zero
  <2>2. atLow.hi = 0 => atCall.lo = 0
    BY <1>1, <1>2, <2>1 DEF AtMost, Less
  <2> QED
    BY <1>2, <1>3, <2>1, <2>2 DEF Zero, Sound
<1>4. CASE val # Zero
  <2>1. atLow.hi <= val.hi
    BY <1>1, <1>4 DEF LoopInv, Order
  <2>2. val = atLow
    BY <1>1, <1>2, <2>1
  <2> QED
    BY <1>1, <1>4, <2>2 DEF Sound
<1> QED
  BY <1>3, <1>4

\* It is no more than the register holds.
LEMMA AnswerBound ==
  ASSUME LoopInv, Answer
  PROVE  AtMost(val, reg)
<1>1. Sound
  BY AnswerHolds DEF Answer
<1>2. reg \in Word
  BY DEF LoopInv, LoopTypeOK
<1> QED
  BY <1>1, <1>2, ZeroIsLeast DEF Sound

\* The loop begins outside a call.
LEMMA LoopAtFirst == LoopInit => LoopInv
BY ZeroIsLeast, BaseAssumption DEF LoopInit, LoopInv, LoopTypeOK, Order, Started, LoRead, Byte

\* The two readings of the loop make the size registers as good as one read at one
\* instant, save for the zero of a reading that a carry has split
\* (w5100.c:709-745).
THEOREM AnswerIsSound == LoopSpec => AnswerSound
<1>1. ASSUME LoopInv, [LoopNext]_loop, Returns
      PROVE  Sound
  <2>1. reading = "test" /\ Agree
    BY <1>1 DEF Returns, LoopNext, ReadOn, loop, locals, Call, ReadHi1, ReadLo1, ReadHi2,
                ReadLo2, Again, Answer, Grow, Take
  <2> QED
    BY <1>1, <2>1, AnswerHolds
<1> QED
  BY <1>1, LoopAtFirst, LoopStep, PTL DEF LoopSpec, AnswerSound
=============================================================================
