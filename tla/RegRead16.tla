----------------------------- MODULE RegRead16 ------------------------------
(***************************************************************************)
(* Reading a size register: getSn_TX_FSR() and getSn_RX_RSR() of           *)
(* Ethernet/utility/w5100.c, the same loop on two registers.               *)
(*                                                                         *)
(* The register has two bytes and the bus moves one at a time, while the   *)
(* chip goes on freeing transmit buffer (TX_FSR) or filling the receive    *)
(* buffer (RX_RSR).  The loop reads the register twice until both readings *)
(* agree; a first reading of zero is not confirmed.                        *)
(*                                                                         *)
(* During one call the register only grows: what takes from it is a SEND   *)
(* or RECV command, or a new ring, which the same thread asks for between  *)
(* calls.  A 16-bit value is the pair of its bytes.                        *)
(*                                                                         *)
(* The module is the loop and any register of this kind; TxPath extends it *)
(* and makes the register the free size of its ring.                       *)
(***************************************************************************)
EXTENDS Integers

CONSTANT Base      \* the number of values of a byte

ASSUME BaseAssumption == Base \in Nat /\ Base > 1

Byte == 0 .. Base - 1
Word == [hi : Byte, lo : Byte]
Zero == [hi |-> 0, lo |-> 0]

Less(a, b) == a.hi < b.hi \/ (a.hi = b.hi /\ a.lo < b.lo)
AtMost(a, b) == Less(a, b) \/ a = b

VARIABLES
  reg,      \* the register in the chip
  reading,  \* where the call is
  hi,       \* the high byte read last
  val1,     \* the first reading
  val,      \* the second reading
  atCall,   \* history: the register when the call began
  atLow     \* history: the register when the low byte of val1 was read

locals == << reading, hi, val1, val, atCall, atLow >>
loop == << reg, locals >>

LoopTypeOK ==
  /\ reg \in Word
  /\ reading \in {"no", "hi1", "lo1", "hi2", "lo2", "test"}
  /\ hi \in Byte
  /\ val1 \in Word
  /\ val \in Word
  /\ atCall \in Word
  /\ atLow \in Word

LoopInit ==
  /\ reg \in Word
  /\ reading = "no"
  /\ hi = 0
  /\ val1 = Zero
  /\ val = Zero
  /\ atCall = Zero
  /\ atLow = Zero

-----------------------------------------------------------------------------
(* The loop. *)

\* The function is called; both readings are zero.
Call ==
  /\ reading = "no"
  /\ reading' = "hi1"
  /\ atCall' = reg
  /\ UNCHANGED << reg, hi, val1, val, atLow >>

ReadHi1 ==
  /\ reading = "hi1"
  /\ hi' = reg.hi
  /\ reading' = "lo1"
  /\ UNCHANGED << reg, val1, val, atCall, atLow >>

\* The first reading is complete; if it is zero there is no second.
ReadLo1 ==
  /\ reading = "lo1"
  /\ val1' = [hi |-> hi, lo |-> reg.lo]
  /\ atLow' = reg
  /\ reading' = IF val1' # Zero THEN "hi2" ELSE "test"
  /\ UNCHANGED << reg, hi, val, atCall >>

ReadHi2 ==
  /\ reading = "hi2"
  /\ hi' = reg.hi
  /\ reading' = "lo2"
  /\ UNCHANGED << reg, val1, val, atCall, atLow >>

ReadLo2 ==
  /\ reading = "lo2"
  /\ val' = [hi |-> hi, lo |-> reg.lo]
  /\ reading' = "test"
  /\ UNCHANGED << reg, hi, val1, atCall, atLow >>

\* Mutant: the low bytes agree, and that is enough.
Agree_LowByte == val.lo = val1.lo

\* Mutant: an answer of zero is not accepted.
Agree_NonZero == val = val1 /\ val # Zero

\* Has the register been read twice with the same result (or zero once)?
Agree == val = val1

\* If not, start again; val keeps what it has.
Again ==
  /\ reading = "test" /\ ~Agree
  /\ reading' = "hi1"
  /\ UNCHANGED << reg, hi, val1, val, atCall, atLow >>

\* If so, val is returned, and the variables are gone.
Answer ==
  /\ reading = "test" /\ Agree
  /\ reading' = "no"
  /\ hi' = 0 /\ val1' = Zero /\ val' = Zero /\ atCall' = Zero /\ atLow' = Zero
  /\ UNCHANGED reg

ReadOn == ReadHi1 \/ ReadLo1 \/ ReadHi2 \/ ReadLo2 \/ Again

-----------------------------------------------------------------------------
(* The chip, and what the thread does between two calls. *)

Grow ==
  /\ \E new \in Word : /\ Less(reg, new)
                       /\ reg' = new
  /\ UNCHANGED locals

\* A SEND or RECV command, or a new ring.
Take ==
  /\ reading = "no"
  /\ \E new \in Word : /\ Less(new, reg)
                       /\ reg' = new
  /\ UNCHANGED locals

LoopNext == Call \/ ReadOn \/ Answer \/ Grow \/ Take

LoopSpec == LoopInit /\ [][LoopNext]_loop

-----------------------------------------------------------------------------
(* Properties. *)

Returns == reading = "test" /\ reading' = "no"

\* What the register has to do with the answer of a call that returns now.
Sound == IF val = Zero
         THEN atCall = Zero \/ atCall.hi < atLow.hi
         ELSE val = atLow /\ AtMost(atCall, val) /\ AtMost(val, reg)

\* The answer of the loop (w5100.c:712-722, 734-744).  A size other than zero is no blend
\* of two values: it is what the register held at one moment of the call, so it is at
\* least what was there when the call began and no more than is there at the end.  Zero
\* may be a blend, since it is not confirmed, but only if the high byte was carried into
\* between the two bytes of the reading.
AnswerSound == [][Returns => Sound]_loop

\* However the register moves, the loop ends: the register cannot grow for ever, between
\* two commands.
Terminates == (reading = "hi1") ~> (reading = "no")
=============================================================================
