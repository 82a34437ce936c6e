----------------------------- MODULE RxPathProofs -----------------------------
(***************************************************************************)
(* The receive memory, for any number of sockets, any layout sysinit() can *)
(* make, pointers and rings of any size, any data and any senders: the     *)
(* layout is sound, what a ring holds between the pointers is the stream   *)
(* of InboundStream, and a reader of datagrams never loses its place.      *)
(*                                                                         *)
(* The argument: no action but an arrival changes a cell that is to be     *)
(* read, and an arrival writes behind all of them, because the ring has    *)
(* room for it and places less than one round apart are different cells.   *)
(* So each action does to the sequence of unread bytes (Queue) what the    *)
(* abstract stream says, and what is to be proved of datagrams is proved   *)
(* of that sequence, where pointers and cells no longer occur.             *)
(***************************************************************************)
EXTENDS RxPath, SequenceTheorems, WellFoundedInduction, TLAPS

-----------------------------------------------------------------------------
(* The layout of the memory. *)

\* What the loop has laid out, when channel i comes next: the channels lie one behind the
\* other, and end where the sizes given add up to.
LaidOut ==
  \A k \in 0 .. i - 1 :
    /\ \A j \in 0 .. k - 1 : base[j] + size[j] <= base[k]
    /\ First <= base[k]
    /\ size[k] > 0 => base[k] < First + Total
    /\ base[k] + size[k] <= First + sum

EndsAtSum == IF i = 0 THEN sum = 0 /\ base[0] = First
                      ELSE base[i - 1] + size[i - 1] = First + sum

MapInv == MapTypeOK /\ LaidOut /\ EndsAtSum

\* A channel is given a whole number of bytes, and none once the memory is given away.
LEMMA GivenIsNat ==
  ASSUME NEW c \in Code
  PROVE  SizeOf(c) \in Nat
BY MapAssumption DEF SizeOf, Code

LEMMA InitMap == MapInit => MapInv
BY MapAssumption DEF MapInit, MapInv, MapTypeOK, LaidOut, EndsAtSum, Chan, Code

\* One round: channel i begins where the sizes given so far end.
LEMMA StepMap == MapInv /\ sysinitStep => MapInv'
<1> SUFFICES ASSUME MapInv, sysinitStep PROVE MapInv'
  OBVIOUS
<1> DEFINE given == IF sum < Total THEN SizeOf(code[i]) ELSE 0
<1>1. /\ code \in [Chan -> Code] /\ i \in Chan /\ sum \in Nat
      /\ size \in [Chan -> Nat] /\ base \in [Chan -> Nat] /\ i' = i + 1
  BY MapAssumption DEF MapInv, MapTypeOK, sysinitStep, Chan
<1>2. given \in Nat /\ (given > 0 => sum < Total)
  BY <1>1, GivenIsNat DEF Code
<1>3. size' = [size EXCEPT ![i] = given] /\ sum' = sum + given
  BY DEF sysinitStep
<1>4. base' \in [Chan -> Nat] /\ base'[i] = First + sum
      /\ \A k \in Chan : k # i => base'[k] = base[k]
  <2>1. CASE i = 0
    BY <2>1, <1>1 DEF sysinitStep, MapInv, EndsAtSum, Chan
  <2>2. CASE i # 0
    <3>1. i - 1 \in Chan /\ base' = [base EXCEPT ![i] = base[i - 1] + size[i - 1]]
      BY <2>2, <1>1, MapAssumption DEF sysinitStep, Chan
    <3>2. base[i - 1] + size[i - 1] = First + sum
      BY <2>2 DEF MapInv, EndsAtSum
    <3>3. base[i - 1] \in Nat /\ size[i - 1] \in Nat
      BY <3>1, <1>1
    <3> QED
      BY <3>1, <3>2, <3>3, <1>1
  <2> QED
    BY <2>1, <2>2
<1>5. MapTypeOK'
  <2>1. code' = code /\ i' \in 0 .. NumChan
    BY <1>1, MapAssumption DEF sysinitStep, Chan
  <2>2. size' \in [Chan -> Nat] /\ sum' \in Nat
    BY <1>1, <1>2, <1>3
  <2> QED
    BY <2>1, <2>2, <1>1, <1>4 DEF MapTypeOK
<1>6. LaidOut'
  <2> SUFFICES ASSUME NEW k \in 0 .. i
               PROVE  /\ \A j \in 0 .. k - 1 : base'[j] + size'[j] <= base'[k]
                      /\ First <= base'[k]
                      /\ size'[k] > 0 => base'[k] < First + Total
                      /\ base'[k] + size'[k] <= First + sum'
    BY <1>1 DEF LaidOut, Chan
  <2>1. \A n \in 0 .. i - 1 : /\ n \in Chan /\ n # i
                              /\ base'[n] = base[n] /\ size'[n] = size[n]
                              /\ base[n] \in Nat /\ size[n] \in Nat
    BY <1>1, <1>3, <1>4, MapAssumption DEF Chan
  <2>2. First \in Nat /\ Total \in Nat
    BY MapAssumption
  <2>3. CASE k \in 0 .. i - 1
    BY <2>1, <2>2, <2>3, <1>1, <1>2, <1>3 DEF MapInv, LaidOut, Chan
  <2>4. CASE k = i
    <3>1. \A j \in 0 .. k - 1 : base'[j] + size'[j] <= base'[k]
      BY <2>1, <2>4, <1>1, <1>4 DEF MapInv, LaidOut, Chan
    <3>2. size'[k] = given
      BY <2>4, <1>1, <1>3
    <3> QED
      BY <3>1, <3>2, <2>2, <2>4, <1>1, <1>2, <1>3, <1>4
  <2> QED
    BY <2>3, <2>4, <1>1 DEF Chan
<1>7. EndsAtSum'
  <2>1. size'[i] = given /\ i' # 0 /\ i' - 1 = i
    BY <1>1, <1>3 DEF Chan
  <2>2. First \in Nat
    BY MapAssumption
  <2> QED
    BY <2>1, <2>2, <1>1, <1>2, <1>3, <1>4 DEF EndsAtSum
<1> QED
  BY <1>5, <1>6, <1>7 DEF MapInv

\* While the sizes given fit the memory, so does every channel.
LEMMA MapInvIsSound == MapInv => LayoutSound
<1> SUFFICES ASSUME MapInv, NEW k \in 0 .. i - 1, sum <= Total
             PROVE  base[k] + size[k] <= First + Total
  BY DEF LayoutSound, MapInv, LaidOut
<1>1. k \in Chan /\ base[k] \in Nat /\ size[k] \in Nat /\ sum \in Nat
  BY MapAssumption DEF MapInv, MapTypeOK, Chan
<1> QED
  BY <1>1, MapAssumption DEF MapInv, LaidOut

\* The buffers of the sockets do not overlap, begin inside the memory of the chip, and end
\* inside it unless more is asked for than there is, for every argument of sysinit().
THEOREM LayoutIsSound == sysinitSpec => []LayoutSound
<1>1. MapInv /\ [sysinitStep]_map => MapInv'
  <2>1. MapInv /\ UNCHANGED map => MapInv'
    BY DEF map, MapInv, MapTypeOK, LaidOut, EndsAtSum
  <2> QED
    BY <2>1, StepMap
<1> QED
  BY InitMap, <1>1, MapInvIsSound, PTL DEF sysinitSpec

-----------------------------------------------------------------------------
(* Numbers that wrap. *)

\* A remainder is known when the number is less than one round away.
LEMMA ModSmall ==
  ASSUME NEW W \in Nat \ {0}, NEW x \in 0 .. W - 1
  PROVE  x % W = x /\ (x + W) % W = x /\ (x - W) % W = x
OBVIOUS

\* A product with a whole number is zero, or at least the other factor.
LEMMA Multiple ==
  ASSUME NEW W \in Nat \ {0}, NEW d \in Int, d >= 1
  PROVE  W * d \in Int /\ W * d >= W
<1>1. W * d - W = W * (d - 1)
  OBVIOUS
<1>2. W * (d - 1) >= 0
  OBVIOUS
<1> QED
  BY <1>1, <1>2

\* There is one way to divide.
LEMMA OneRemainder ==
  ASSUME NEW W \in Nat \ {0}, NEW a \in Int, NEW b \in Int,
         NEW r \in 0 .. W - 1, NEW s \in 0 .. W - 1, W * a + r = W * b + s
  PROVE  r = s
<1>1. W * (a - b) = s - r
  OBVIOUS
<1>2. CASE a - b >= 1
  BY <1>1, <1>2, Multiple
<1>3. CASE b - a >= 1
  <2>1. W * (b - a) = r - s
    OBVIOUS
  <2> QED
    BY <1>3, <2>1, Multiple
<1>4. CASE a = b
  BY <1>4
<1> QED
  BY <1>2, <1>3, <1>4

\* Quotient and remainder.
LEMMA Divided ==
  ASSUME NEW W \in Nat \ {0}, NEW x \in Int
  PROVE  \E a, r \in Int : x = W * a + r /\ r = x % W /\ r \in 0 .. W - 1
<1>1. x % W = x - W * (x \div W) /\ x % W \in 0 .. W - 1
  OBVIOUS
<1>2. x \div W \in Int /\ W * (x \div W) \in Int
  OBVIOUS
<1> DEFINE a == x \div W
           r == x % W
           y == W * (x \div W)
<1>3. r = x - y /\ y \in Int /\ r \in 0 .. W - 1
  BY <1>1, <1>2
<1>4. y = W * a /\ a \in Int /\ r = x % W
  BY <1>2
<1> HIDE DEF y, a, r
<1>5. x = W * a + r /\ r \in Int
  BY <1>3, <1>4
<1> QED
  BY <1>3, <1>4, <1>5

\* What divides and leaves a remainder in range leaves the remainder.
LEMMA RemainderIs ==
  ASSUME NEW W \in Nat \ {0}, NEW x \in Int, NEW a \in Int, NEW r \in 0 .. W - 1,
         x = W * a + r
  PROVE  x % W = r
<1>1. PICK b, s \in Int : x = W * b + s /\ s = x % W /\ s \in 0 .. W - 1
  BY Divided
<1>2. W * a + r = W * b + s
  BY <1>1
<1>3. r = s
  BY <1>1, <1>2, OneRemainder
<1> QED
  BY <1>1, <1>3

\* A whole number of rounds does not change the remainder.
LEMMA WholeRound ==
  ASSUME NEW S \in Nat \ {0}, NEW W \in Int, W % S = 0, NEW x \in Int
  PROVE  (x - W) % S = x % S
<1>1. PICK q, z \in Int : W = S * q + z /\ z = W % S
  BY Divided
<1>2. PICK a, r \in Int : x = S * a + r /\ r = x % S /\ r \in 0 .. S - 1
  BY Divided
<1>3. x - W = S * (a - q) + r
  BY <1>1, <1>2
<1>4. x - W \in Int /\ a - q \in Int
  OBVIOUS
<1>5. (x - W) % S = r
  BY <1>2, <1>3, <1>4, RemainderIs, Zenon
<1> QED
  BY <1>2, <1>5

\* The remainder k places on.
LEMMA PlaceBehind ==
  ASSUME NEW S \in Nat \ {0}, NEW p \in Int, NEW k \in 0 .. S
  PROVE  /\ p % S \in 0 .. S - 1
         /\ (p + k) % S = IF (p % S) + k < S THEN (p % S) + k ELSE (p % S) + k - S
<1>1. PICK a, r \in Int : p = S * a + r /\ r = p % S /\ r \in 0 .. S - 1
  BY Divided
<1>2. CASE r + k < S
  <2>1. p + k = S * a + (r + k) /\ r + k \in 0 .. S - 1
    BY <1>1, <1>2
  <2>2. p + k \in Int
    OBVIOUS
  <2>3. (p + k) % S = r + k
    BY <2>1, <2>2, RemainderIs, Zenon
  <2> QED
    BY <1>1, <1>2, <2>3
<1>3. CASE ~(r + k < S)
  <2>1. p + k = S * (a + 1) + (r + k - S)
    BY <1>1
  <2>2. r + k - S \in 0 .. S - 1
    BY <1>1, <1>3
  <2>3. p + k \in Int /\ a + 1 \in Int
    OBVIOUS
  <2>4. (p + k) % S = r + k - S
    BY <2>1, <2>2, <2>3, RemainderIs, Zenon
  <2> QED
    BY <1>1, <1>3, <2>4
<1> QED
  BY <1>2, <1>3

\* Less than a round apart, remainders are different.
LEMMA PlacesDiffer ==
  ASSUME NEW S \in Nat \ {0}, NEW p \in Int,
         NEW j \in 0 .. S - 1, NEW k \in 0 .. S - 1, j # k
  PROVE  (p + j) % S # (p + k) % S
<1>1. j \in 0 .. S /\ k \in 0 .. S
  OBVIOUS
<1>2. p % S \in 0 .. S - 1
  BY <1>1, PlaceBehind
<1>3. (p + j) % S = IF (p % S) + j < S THEN (p % S) + j ELSE (p % S) + j - S
  BY <1>1, PlaceBehind
<1>4. (p + k) % S = IF (p % S) + k < S THEN (p % S) + k ELSE (p % S) + k - S
  BY <1>1, PlaceBehind
<1> DEFINE r == p % S
<1>5. r \in 0 .. S - 1
  BY <1>2
<1> HIDE DEF r
<1>6. (IF r + j < S THEN r + j ELSE r + j - S) # (IF r + k < S THEN r + k ELSE r + k - S)
  BY <1>5
<1> QED
  BY <1>3, <1>4, <1>6 DEF r

\* How far pointer a is ahead of pointer b.
LEMMA Ahead ==
  ASSUME NEW a \in Pointer, NEW b \in Pointer
  PROVE  (a - b) % Wrap = IF a >= b THEN a - b ELSE a - b + Wrap
<1>1. Wrap \in Nat \ {0}
  BY RxAssumption
<1>2. CASE a >= b
  <2>1. a - b \in 0 .. Wrap - 1
    BY <1>1, <1>2 DEF Pointer
  <2> QED
    BY <1>1, <1>2, <2>1, ModSmall
<1>3. CASE ~(a >= b)
  <2>1. a - b + Wrap \in 0 .. Wrap - 1 /\ (a - b + Wrap) - Wrap = a - b
    BY <1>1, <1>3 DEF Pointer
  <2> QED
    BY <1>1, <1>3, <2>1, ModSmall
<1> QED
  BY <1>2, <1>3

\* A pointer moved on by less than a round.
LEMMA Moved ==
  ASSUME NEW a \in Pointer, NEW n \in 0 .. Wrap - 1
  PROVE  /\ (a + n) % Wrap \in Pointer
         /\ (a + n) % Wrap = IF a + n < Wrap THEN a + n ELSE a + n - Wrap
<1>1. Wrap \in Nat \ {0}
  BY RxAssumption
<1>2. CASE a + n < Wrap
  <2>1. a + n \in 0 .. Wrap - 1
    BY <1>1, <1>2 DEF Pointer
  <2> QED
    BY <1>1, <1>2, <2>1, ModSmall DEF Pointer
<1>3. CASE ~(a + n < Wrap)
  <2>1. a + n - Wrap \in 0 .. Wrap - 1 /\ (a + n - Wrap) + Wrap = a + n
    BY <1>1, <1>3 DEF Pointer
  <2> QED
    BY <1>1, <1>3, <2>1, ModSmall DEF Pointer
<1> QED
  BY <1>2, <1>3

-----------------------------------------------------------------------------
(* Runs of cells of a ring of s cells that begins at b, in a memory m. *)

Memory == First .. First + Total - 1

IsRing(m, b, s) ==
  /\ m \in [Memory -> Cell]
  /\ s \in Nat \ {0} /\ s < Wrap /\ Wrap % s = 0
  /\ b \in Nat /\ First <= b /\ b + s <= First + Total

Place(b, s, p) == b + (p % s)

\* The n cells from p on.
Cells(m, b, s, p, n) == [k \in 1 .. n |-> m[Place(b, s, p + k - 1)]]

\* A place is in the memory, and in the ring; a whole round leads to the same place.
LEMMA PlaceIs ==
  ASSUME NEW m, NEW b, NEW s, IsRing(m, b, s), NEW p \in Int
  PROVE  /\ Place(b, s, p) \in Memory /\ Place(b, s, p) \in b .. b + s - 1
         /\ m[Place(b, s, p)] \in Cell
         /\ Place(b, s, p - Wrap) = Place(b, s, p)
<1>1. s \in Nat \ {0} /\ b \in Nat /\ First \in Nat /\ Total \in Nat
      /\ First <= b /\ b + s <= First + Total
  BY MapAssumption DEF IsRing
<1>2. p % s \in 0 .. s - 1
  BY <1>1
<1>3. (p - Wrap) % s = p % s
  <2>1. Wrap \in Int /\ Wrap % s = 0
    BY RxAssumption DEF IsRing
  <2> QED
    BY <1>1, <2>1, WholeRound
<1>4. Place(b, s, p) \in b .. b + s - 1 /\ Place(b, s, p) \in Memory
  <2> DEFINE r == p % s
  <2>1. r \in 0 .. s - 1 /\ Place(b, s, p) = b + r
    BY <1>2 DEF Place
  <2> HIDE DEF r
  <2> QED
    BY <2>1, <1>1 DEF Memory
<1> QED
  BY <1>3, <1>4 DEF IsRing, Place

\* Less than a round apart, places are different.
LEMMA PlacesApart ==
  ASSUME NEW m, NEW b, NEW s, IsRing(m, b, s), NEW p \in Int,
         NEW j \in 0 .. s - 1, NEW k \in 0 .. s - 1, j # k
  PROVE  Place(b, s, p + j) # Place(b, s, p + k)
<1>1. s \in Nat \ {0} /\ b \in Int /\ p + j \in Int /\ p + k \in Int
  BY DEF IsRing
<1>2. (p + j) % s # (p + k) % s
  BY <1>1, PlacesDiffer
<1>3. (p + j) % s \in Int /\ (p + k) % s \in Int
  BY <1>1
<1> QED
  BY <1>1, <1>2, <1>3 DEF Place

\* A run of cells is a sequence.
LEMMA CellsAre ==
  ASSUME NEW m, NEW b, NEW s, IsRing(m, b, s), NEW p \in Int, NEW n \in Nat
  PROVE  /\ Cells(m, b, s, p, n) \in Seq(Cell) /\ Len(Cells(m, b, s, p, n)) = n
         /\ \A k \in 1 .. n : Cells(m, b, s, p, n)[k] = m[Place(b, s, p + (k - 1))]
<1>1. \A k \in 1 .. n : p + k - 1 = p + (k - 1) /\ p + k - 1 \in Int
  OBVIOUS
<1>2. \A k \in 1 .. n : m[Place(b, s, p + k - 1)] \in Cell
  BY <1>1, PlaceIs
<1>3. Cells(m, b, s, p, n) \in [1 .. n -> Cell]
  BY <1>2 DEF Cells
<1>4. \A k \in 1 .. n : Cells(m, b, s, p, n)[k] = m[Place(b, s, p + k - 1)]
  BY DEF Cells
<1>5. Cells(m, b, s, p, n) \in Seq(Cell) /\ Len(Cells(m, b, s, p, n)) = n
  BY <1>3
<1> QED
  BY <1>1, <1>4, <1>5

\* What sequence it is.
LEMMA CellsWhen ==
  ASSUME NEW m, NEW b, NEW s, IsRing(m, b, s), NEW p \in Int, NEW t \in Seq(Cell),
         \A k \in 1 .. Len(t) : t[k] = m[Place(b, s, p + (k - 1))]
  PROVE  Cells(m, b, s, p, Len(t)) = t
<1>1. Len(t) \in Nat
  OBVIOUS
<1>2. /\ Cells(m, b, s, p, Len(t)) \in Seq(Cell) /\ Len(Cells(m, b, s, p, Len(t))) = Len(t)
      /\ \A k \in 1 .. Len(t) : Cells(m, b, s, p, Len(t))[k] = m[Place(b, s, p + (k - 1))]
  BY <1>1, CellsAre
<1>3. \A k \in 1 .. Len(Cells(m, b, s, p, Len(t))) : Cells(m, b, s, p, Len(t))[k] = t[k]
  BY <1>2
<1> QED
  BY <1>2, <1>3, SeqEqual, Zenon

\* The first cells of a run.
LEMMA CellsFirst ==
  ASSUME NEW m, NEW b, NEW s, IsRing(m, b, s), NEW p \in Int,
         NEW n \in Nat, NEW j \in 0 .. n
  PROVE  Cells(m, b, s, p, j) = SubSeq(Cells(m, b, s, p, n), 1, j)
<1> DEFINE c == Cells(m, b, s, p, n)
           t == SubSeq(c, 1, j)
<1>1. c \in Seq(Cell) /\ Len(c) = n
      /\ \A k \in 1 .. n : c[k] = m[Place(b, s, p + (k - 1))]
  BY CellsAre
<1> HIDE DEF c
<1>2. t \in Seq(Cell) /\ Len(t) = j /\ \A k \in 1 .. j : t[k] = c[k]
  BY <1>1
<1> HIDE DEF t
<1>3. \A k \in 1 .. Len(t) : t[k] = m[Place(b, s, p + (k - 1))]
  BY <1>1, <1>2
<1>4. Cells(m, b, s, p, Len(t)) = t
  BY <1>2, <1>3, CellsWhen
<1> QED
  BY <1>2, <1>4 DEF t, c

\* The cells behind the first j, seen from the pointer moved on by j.
LEMMA CellsRest ==
  ASSUME NEW m, NEW b, NEW s, IsRing(m, b, s), NEW p \in Int, NEW q \in Int,
         NEW n \in Nat, NEW j \in 0 .. n, q = p + j \/ q = p + j - Wrap
  PROVE  Cells(m, b, s, q, n - j) = SubSeq(Cells(m, b, s, p, n), j + 1, n)
<1> DEFINE c == Cells(m, b, s, p, n)
           t == SubSeq(c, j + 1, n)
<1>1. c \in Seq(Cell) /\ Len(c) = n
      /\ \A k \in 1 .. n : c[k] = m[Place(b, s, p + (k - 1))]
  BY CellsAre
<1> HIDE DEF c
<1>2. t \in Seq(Cell) /\ Len(t) = n - j /\ \A k \in 1 .. n - j : t[k] = c[j + k]
  <2>1. \A k \in j + 1 .. n : c[k] \in Cell
    BY <1>1
  <2>2. /\ t \in Seq(Cell) /\ Len(t) = IF j + 1 <= n THEN n - (j + 1) + 1 ELSE 0
        /\ \A k \in 1 .. n - (j + 1) + 1 : t[k] = c[j + 1 + k - 1]
    BY <2>1, SubSeqProperties
  <2>3. n - (j + 1) + 1 = n - j /\ \A k \in 1 .. n - j : j + 1 + k - 1 = j + k
    OBVIOUS
  <2> QED
    BY <2>2, <2>3
<1> HIDE DEF t
<1>3. ASSUME NEW k \in 1 .. Len(t)
      PROVE  t[k] = m[Place(b, s, q + (k - 1))]
  <2> DEFINE x == p + (j + k - 1)
  <2>1. j + k \in 1 .. n /\ x \in Int /\ j + k - 1 = (j + k) - 1
        /\ (q + (k - 1) = x \/ q + (k - 1) = x - Wrap)
    BY <1>2, RxAssumption
  <2>2. t[k] = m[Place(b, s, x)]
    BY <1>1, <1>2, <2>1
  <2> HIDE DEF x
  <2>3. Place(b, s, x - Wrap) = Place(b, s, x)
    BY <2>1, PlaceIs
  <2> QED
    BY <2>1, <2>2, <2>3
<1>4. Cells(m, b, s, q, Len(t)) = t
  BY <1>2, <1>3, CellsWhen
<1> QED
  BY <1>2, <1>4 DEF t, c

\* Cells that hold the same.
Alike(m, m2, b, s, p, n) == \A k \in 0 .. n - 1 : m2[Place(b, s, p + k)] = m[Place(b, s, p + k)]

LEMMA CellsSame ==
  ASSUME NEW m, NEW m2, NEW b, NEW s, IsRing(m, b, s), IsRing(m2, b, s),
         NEW p \in Int, NEW n \in Nat,
         Alike(m, m2, b, s, p, n)
  PROVE  Cells(m2, b, s, p, n) = Cells(m, b, s, p, n)
<1> DEFINE t == Cells(m, b, s, p, n)
<1>1. t \in Seq(Cell) /\ Len(t) = n
      /\ \A k \in 1 .. n : t[k] = m[Place(b, s, p + (k - 1))]
  BY CellsAre
<1> HIDE DEF t
<1>2. \A k \in 1 .. n : k - 1 \in 0 .. n - 1
  OBVIOUS
<1>3. \A k \in 1 .. Len(t) : t[k] = m2[Place(b, s, p + (k - 1))]
  BY <1>1, <1>2 DEF Alike
<1>4. Cells(m2, b, s, p, Len(t)) = t
  BY <1>1, <1>3, CellsWhen
<1> QED
  BY <1>1, <1>4 DEF t

\* A run, and the run behind it, are one.
Joined(m, b, s, p, j, n) ==
  Cells(m, b, s, p, j) \o Cells(m, b, s, p + j, n) = Cells(m, b, s, p, j + n)

LEMMA RunsJoin ==
  ASSUME NEW m, NEW b, NEW s, IsRing(m, b, s), NEW p \in Int, NEW j \in Nat, NEW n \in Nat
  PROVE  Joined(m, b, s, p, j, n)
<1> DEFINE c == Cells(m, b, s, p, j)
           u == Cells(m, b, s, p + j, n)
           t == c \o u
<1>1. c \in Seq(Cell) /\ Len(c) = j
      /\ \A k \in 1 .. j : c[k] = m[Place(b, s, p + (k - 1))]
  BY CellsAre
<1>2. u \in Seq(Cell) /\ Len(u) = n
      /\ \A k \in 1 .. n : u[k] = m[Place(b, s, (p + j) + (k - 1))]
  BY CellsAre
<1> HIDE DEF c, u
<1>3. t \in Seq(Cell) /\ Len(t) = j + n
      /\ \A k \in 1 .. j + n : t[k] = IF k <= j THEN c[k] ELSE u[k - j]
  <2>1. c \in Seq(Cell) /\ u \in Seq(Cell) /\ Len(c) = j /\ Len(u) = n
    BY <1>1, <1>2
  <2> QED
    BY <2>1, ConcatProperties
<1> HIDE DEF t
<1>4. ASSUME NEW k \in 1 .. Len(t)
      PROVE  t[k] = m[Place(b, s, p + (k - 1))]
  <2>1. CASE k <= j
    BY <1>1, <1>3, <2>1
  <2>2. CASE ~(k <= j)
    <3>1. k - j \in 1 .. n /\ (p + j) + ((k - j) - 1) = p + (k - 1)
      BY <1>3, <2>2
    <3> QED
      BY <1>2, <1>3, <2>2, <3>1
  <2> QED
    BY <2>1, <2>2
<1>5. Cells(m, b, s, p, Len(t)) = t
  <2>1. t \in Seq(Cell) /\ \A k \in 1 .. Len(t) : t[k] = m[Place(b, s, p + (k - 1))]
    BY <1>3, <1>4
  <2> QED
    BY <2>1, CellsWhen
<1> QED
  BY <1>3, <1>5 DEF t, c, u, Joined

\* read_data() reads a run of cells, also when the end of the buffer comes first.
LEMMA ReadIs ==
  ASSUME IsRing(mem, base[me], size[me]), NEW p \in Int, NEW n \in 0 .. size[me]
  PROVE  read_data(p, n) = Cells(mem, base[me], size[me], p, n)
<1> DEFINE s == size[me]
           b == base[me]
           cell(k) == IF (p % s) + k < s THEN (p % s) + k ELSE (p % s) + k - s
<1>1. s \in Nat \ {0} /\ b \in Nat /\ IsRing(mem, b, s) /\ n \in 0 .. s
  BY DEF IsRing
<1>2. read_data(p, n) = IF (p % s) + n > s
                          THEN [k \in 1 .. s - (p % s) |-> mem[b + (p % s) + k - 1]]
                               \o [k \in 1 .. n - (s - (p % s)) |-> mem[b + k - 1]]
                          ELSE [k \in 1 .. n |-> mem[b + (p % s) + k - 1]]
  BY DEF read_data
<1> HIDE DEF s, b
<1>3. PICK off \in 0 .. s - 1 : off = p % s
  BY <1>1
<1>4. /\ Cells(mem, b, s, p, n) \in Seq(Cell) /\ Len(Cells(mem, b, s, p, n)) = n
      /\ \A k \in 1 .. n : Cells(mem, b, s, p, n)[k] = mem[Place(b, s, p + (k - 1))]
  BY <1>1, CellsAre
<1>5. ASSUME NEW k \in 0 .. s
      PROVE  Place(b, s, p + k) = b + (IF off + k < s THEN off + k ELSE off + k - s)
  BY <1>1, <1>3, PlaceBehind DEF Place
<1>6. \A a \in b .. b + s - 1 : mem[a] \in Cell
  BY <1>1, MapAssumption DEF IsRing, Memory
<1>7. CASE off + n > s
  <2> DEFINE u == [k \in 1 .. s - off |-> mem[b + off + k - 1]]
             v == [k \in 1 .. n - (s - off) |-> mem[b + k - 1]]
             t == u \o v
  <2>1. read_data(p, n) = t
    BY <1>2, <1>3, <1>7
  <2>2. /\ u \in Seq(Cell) /\ Len(u) = s - off
        /\ v \in Seq(Cell) /\ Len(v) = n - (s - off)
    <3>1. u \in [1 .. s - off -> Cell] /\ v \in [1 .. n - (s - off) -> Cell]
      <4>1. \A k \in 1 .. s - off : b + off + k - 1 \in b .. b + s - 1
        BY <1>1
      <4>2. \A k \in 1 .. n - (s - off) : b + k - 1 \in b .. b + s - 1
        BY <1>1
      <4> QED
        BY <4>1, <4>2, <1>6
    <3>2. s - off \in Nat /\ n - (s - off) \in Nat
      BY <1>1, <1>7
    <3> HIDE DEF u, v
    <3> QED
      BY <3>1, <3>2
  <2>3. /\ \A k \in 1 .. s - off : u[k] = mem[b + off + k - 1]
        /\ \A k \in 1 .. n - (s - off) : v[k] = mem[b + k - 1]
    OBVIOUS
  <2> HIDE DEF u, v
  <2>4. t \in Seq(Cell) /\ Len(t) = n
        /\ \A k \in 1 .. n : t[k] = IF k <= s - off THEN u[k] ELSE v[k - (s - off)]
    BY <2>2, <1>1, <1>3
  <2> HIDE DEF t
  <2>5. ASSUME NEW k \in 1 .. n
        PROVE  t[k] = mem[Place(b, s, p + (k - 1))]
    <3>1. k - 1 \in 0 .. s
      BY <1>1
    <3>2. Place(b, s, p + (k - 1))
            = b + (IF off + (k - 1) < s THEN off + (k - 1) ELSE off + (k - 1) - s)
      BY <3>1, <1>5
    <3>3. CASE k <= s - off
      <4>1. Place(b, s, p + (k - 1)) = b + off + k - 1
        BY <3>2, <3>3, <1>1
      <4> QED
        BY <4>1, <3>3, <2>3, <2>4
    <3>4. CASE ~(k <= s - off)
      <4>1. Place(b, s, p + (k - 1)) = b + (k - (s - off)) - 1
        BY <3>2, <3>4, <1>1
      <4>2. k - (s - off) \in 1 .. n - (s - off)
        BY <3>4, <1>1
      <4> QED
        BY <4>1, <4>2, <3>4, <2>3, <2>4
    <3> QED
      BY <3>3, <3>4
  <2>6. \A k \in 1 .. Len(t) : t[k] = mem[Place(b, s, p + (k - 1))]
    BY <2>4, <2>5
  <2>7. Cells(mem, b, s, p, Len(t)) = t
    BY <1>1, <2>4, <2>6, CellsWhen
  <2> QED
    BY <2>1, <2>4, <2>7 DEF s, b
<1>8. CASE ~(off + n > s)
  <2> DEFINE t == [k \in 1 .. n |-> mem[b + off + k - 1]]
  <2>1. read_data(p, n) = t
    BY <1>2, <1>3, <1>8
  <2>2. ASSUME NEW k \in 1 .. n
        PROVE  Place(b, s, p + k - 1) = b + off + k - 1
    <3>1. k - 1 \in 0 .. s /\ p + k - 1 = p + (k - 1)
      BY <1>1
    <3>2. Place(b, s, p + (k - 1))
            = b + (IF off + (k - 1) < s THEN off + (k - 1) ELSE off + (k - 1) - s)
      BY <3>1, <1>5
    <3> QED
      BY <3>1, <3>2, <1>1, <1>8
  <2> QED
    BY <2>1, <2>2 DEF s, b, Cells
<1> QED
  BY <1>7, <1>8

-----------------------------------------------------------------------------
(* The invariant. *)

\* The unread bytes, as a sequence: what the abstract stream calls its queue.
Queue == IF mode = "closed" THEN << >> ELSE Cells(mem, base[me], size[me], rd, Unread)

\* The channels have the sizes the loop has given them; and a socket that is open has one
\* of the buffers of a layout that is complete and fits.
Sizes == \A s \in Chan : size[s] = 0 \/ \E c \in Code : size[s] = SizeOf(c)

Opened ==
  /\ at = "boot" => mode = "closed"
  /\ at # "boot" => i = NumChan
  /\ mode # "closed" => sum <= Total /\ size[me] > 0

\* The ring is never overfull, and what a call has read and RECV has not given free lies
\* between done and rd.
Pointers ==
  IF mode = "closed"
  THEN wr = 0 /\ rd = 0 /\ done = 0
  ELSE /\ RSR <= size[me]
       /\ RSR = Unread + asked
       /\ (rd - done) % Wrap = asked

\* Between calls nothing is asked for; only a reader of datagrams waits, with none begun;
\* and neither available() nor a size read in it tells of more than there is.
Calls ==
  /\ at # "recv" => asked = 0 /\ got = << >>
  /\ at \in {"wait", "waiting"} => mode = "UDP"
  /\ at \in {"wait", "waiting"} \/ mode # "UDP" => left = 0
  /\ mode # "closed" => avail <= Unread
  /\ mode # "closed" /\ at \in {"avail", "waiting"} => seen <= RSR

\* Of the places in B, counted from the end of q, each is the end or the header of a
\* datagram that ends in a place of B.
Headers(q, B) ==
  \A b \in B :
    \/ b = 0
    \/ LET len == q[Len(q) - b + 2] IN
         /\ b >= Header
         /\ q[Len(q) - b + 1] \in Sender
         /\ len \in 0 .. MaxData /\ len <= b - Header
         /\ b - Header - len \in B

\* The last k bytes of q are whole datagrams: Whole, but of a sequence, without recursion,
\* and with lengths the network can send.
Datagrams(q, k) == \E B \in SUBSET (0 .. k) : k \in B /\ Headers(q, B)

Placed == mode = "UDP" => left <= Unread /\ Datagrams(Queue, Unread - left)

RxInv == TypeOK /\ MapInv /\ Sizes /\ Opened /\ Pointers /\ Calls /\ Placed

-----------------------------------------------------------------------------
(* What the invariant says of the ring of an open socket. *)

\* Its buffer is a ring of which pointers wrap after a number of rounds.
LEMMA OpenRing ==
  ASSUME RxInv, mode # "closed"
  PROVE  /\ IsRing(mem, base[me], size[me])
         /\ size[me] \in Nat \ {0} /\ size[me] <= 8 * Unit /\ size[me] < Wrap
         /\ base[me] \in Nat
<1>1. /\ me \in Chan /\ i = NumChan /\ sum <= Total /\ size[me] > 0
      /\ size[me] \in Nat /\ base[me] \in Nat
      /\ mem \in [Memory -> Cell]
  BY DEF RxInv, TypeOK, Opened, MapTypeOK, Memory
<1>2. First <= base[me] /\ base[me] + size[me] <= First + Total
  <2>1. me \in 0 .. i - 1
    BY <1>1 DEF Chan
  <2>2. First <= base[me]
    BY <2>1 DEF RxInv, MapInv, LaidOut
  <2>3. base[me] + size[me] <= First + Total
    BY <1>1, <2>1, MapInvIsSound DEF RxInv, LayoutSound
  <2> QED
    BY <2>2, <2>3
<1>3. PICK c \in Code : size[me] = SizeOf(c)
  BY <1>1 DEF RxInv, Sizes
<1>4. SizeOf(c) <= Total
  BY <1>1, <1>2, <1>3, MapAssumption
<1>5. Wrap > size[me] /\ Wrap % size[me] = 0
  BY <1>3, <1>4, RxAssumption
<1>6. size[me] <= 8 * Unit
  BY <1>3, MapAssumption DEF SizeOf, Code
<1> QED
  BY <1>1, <1>2, <1>5, <1>6, RxAssumption DEF IsRing

\* How much is in it.
LEMMA OpenCounts ==
  ASSUME RxInv, mode # "closed"
  PROVE  /\ RSR \in Nat /\ Unread \in Nat /\ asked \in Nat
         /\ RSR = Unread + asked /\ RSR <= size[me]
         /\ wr \in Pointer /\ rd \in Pointer /\ done \in Pointer
         /\ wr \in Int /\ rd \in Int /\ done \in Int /\ Wrap \in Nat \ {0}
<1>1. wr \in Pointer /\ rd \in Pointer /\ done \in Pointer /\ asked \in Nat
  BY MapAssumption DEF RxInv, TypeOK
<1>2. Wrap \in Nat \ {0}
  BY RxAssumption
<1>3. RSR \in Nat /\ Unread \in Nat
  BY <1>1, <1>2 DEF RSR, Unread, Pointer
<1> QED
  BY <1>1, <1>2, <1>3 DEF RxInv, Pointers, Pointer

\* The queue is a sequence of that length.
LEMMA QueueIs ==
  ASSUME RxInv
  PROVE  /\ Queue \in Seq(Cell)
         /\ mode # "closed" => Len(Queue) = Unread
         /\ mode = "closed" => Queue = << >> /\ Len(Queue) = 0
<1>1. CASE mode = "closed"
  BY <1>1 DEF Queue
<1>2. CASE mode # "closed"
  BY <1>2, OpenRing, OpenCounts, CellsAre DEF Queue
<1> QED
  BY <1>1, <1>2

\* Where the chip writes, and what RECV frees, seen from the reader.
LEMMA PlacesFromReader ==
  ASSUME RxInv, mode # "closed", NEW k \in Int
  PROVE  /\ Place(base[me], size[me], wr + k) = Place(base[me], size[me], rd + (Unread + k))
         /\ Place(base[me], size[me], rd + k) = Place(base[me], size[me], done + (asked + k))
<1> DEFINE b == base[me]
           s == size[me]
<1>1. IsRing(mem, b, s)
  BY OpenRing
<1> HIDE DEF b, s
<1>2. /\ Unread \in Nat /\ asked \in Nat /\ Wrap \in Nat
      /\ wr \in Int /\ rd \in Int /\ done \in Int
  BY OpenCounts
<1>3. Unread = IF wr >= rd THEN wr - rd ELSE wr - rd + Wrap
  BY OpenCounts, Ahead DEF Unread
<1>4. asked = IF rd >= done THEN rd - done ELSE rd - done + Wrap
  BY OpenCounts, Ahead DEF RxInv, Pointers
<1>5. Place(b, s, wr + k) = Place(b, s, rd + (Unread + k))
  <2> DEFINE x == rd + (Unread + k)
  <2>1. x \in Int /\ (wr + k = x \/ wr + k = x - Wrap)
    BY <1>2, <1>3
  <2> HIDE DEF x
  <2>2. Place(b, s, x - Wrap) = Place(b, s, x)
    BY <1>1, <2>1, PlaceIs
  <2> QED
    BY <2>1, <2>2 DEF x
<1>6. Place(b, s, rd + k) = Place(b, s, done + (asked + k))
  <2> DEFINE x == done + (asked + k)
  <2>1. x \in Int /\ (rd + k = x \/ rd + k = x - Wrap)
    BY <1>2, <1>4
  <2> HIDE DEF x
  <2>2. Place(b, s, x - Wrap) = Place(b, s, x)
    BY <1>1, <2>1, PlaceIs
  <2> QED
    BY <2>1, <2>2 DEF x
<1> QED
  BY <1>5, <1>6 DEF b, s

-----------------------------------------------------------------------------
(* What the actions do to the ring. *)

\* Nothing.
LEMMA RingStays ==
  ASSUME UNCHANGED << map, chip, rd >>
  PROVE  RSR' = RSR /\ Unread' = Unread /\ Queue' = Queue
BY DEF map, chip, RSR, Unread, Queue

\* A call takes the first n bytes.
LEMMA TakeRing ==
  ASSUME RxInv, mode # "closed", at # "recv", NEW n \in 1 .. Unread,
         rd' = (rd + n) % Wrap, UNCHANGED << map, chip >>
  PROVE  /\ rd' \in Pointer /\ RSR' = RSR /\ Unread' = Unread - n
         /\ (rd' - done') % Wrap = n
         /\ Queue' = SubSeq(Queue, n + 1, Len(Queue))
<1>1. /\ IsRing(mem, base[me], size[me]) /\ size[me] \in Nat /\ size[me] < Wrap
      /\ RSR \in Nat /\ Unread \in Nat /\ asked = 0 /\ RSR = Unread /\ RSR <= size[me]
      /\ wr \in Pointer /\ rd \in Pointer /\ done \in Pointer
      /\ rd \in Int /\ Wrap \in Nat \ {0}
  BY OpenRing, OpenCounts DEF RxInv, Calls
<1>2. n \in 0 .. Wrap - 1
  BY <1>1
<1>3. rd' \in Pointer /\ rd' = IF rd + n < Wrap THEN rd + n ELSE rd + n - Wrap
  BY <1>1, <1>2, Moved
<1>4. UNCHANGED << wr, done, mem, me, mode, base, size >>
  BY DEF map, chip
<1>5. RSR' = RSR
  BY <1>4 DEF RSR
<1>6. Unread' = Unread - n
  <2>1. Unread = IF wr >= rd THEN wr - rd ELSE wr - rd + Wrap
    BY <1>1, Ahead DEF Unread
  <2>2. Unread' = IF wr >= rd' THEN wr - rd' ELSE wr - rd' + Wrap
    BY <1>1, <1>3, <1>4, Ahead DEF Unread
  <2> QED
    BY <1>1, <1>3, <2>1, <2>2 DEF Pointer
<1>7. (rd' - done') % Wrap = n
  <2>1. 0 = IF rd >= done THEN rd - done ELSE rd - done + Wrap
    BY <1>1, Ahead DEF RxInv, Pointers
  <2>2. rd = done
    BY <1>1, <2>1 DEF Pointer
  <2>3. (rd' - done) % Wrap = IF rd' >= done THEN rd' - done ELSE rd' - done + Wrap
    BY <1>1, <1>3, Ahead
  <2> QED
    BY <1>1, <1>2, <1>3, <1>4, <2>2, <2>3 DEF Pointer
<1>8. Queue' = SubSeq(Queue, n + 1, Len(Queue))
  <2>1. rd' \in Int /\ (rd' = rd + n \/ rd' = rd + n - Wrap) /\ n \in 0 .. Unread
    BY <1>1, <1>3 DEF Pointer
  <2>2. Cells(mem, base[me], size[me], rd', Unread - n)
          = SubSeq(Cells(mem, base[me], size[me], rd, Unread), n + 1, Unread)
    <3> DEFINE b == base[me]
               s == size[me]
               q == rd'
    <3>1. IsRing(mem, b, s) /\ q \in Int /\ (q = rd + n \/ q = rd + n - Wrap)
      BY <1>1, <2>1
    <3> HIDE DEF b, s, q
    <3>2. Cells(mem, b, s, q, Unread - n) = SubSeq(Cells(mem, b, s, rd, Unread), n + 1, Unread)
      <4>1. rd \in Int /\ Unread \in Nat /\ n \in 0 .. Unread
        BY <1>1, <2>1
      <4> QED
        BY <3>1, <4>1, CellsRest
    <3> QED
      BY <3>2 DEF b, s, q
  <2>3. Len(Queue) = Unread
    BY QueueIs
  <2> QED
    BY <1>4, <1>6, <2>2, <2>3, Zenon DEF Queue
<1> QED
  BY <1>3, <1>5, <1>6, <1>7, <1>8

\* What is copied from the reader's place is the beginning of the queue.
LEMMA ReadsFirst ==
  ASSUME RxInv, mode # "closed", NEW n \in 0 .. Unread
  PROVE  /\ read_data(rd, n) = SubSeq(Queue, 1, n)
         /\ read_data(rd, n) \in Seq(Cell) /\ Len(read_data(rd, n)) = n
<1>1. /\ IsRing(mem, base[me], size[me]) /\ size[me] \in Nat
      /\ Unread \in Nat /\ Unread <= size[me] /\ rd \in Int
  BY OpenRing, OpenCounts
<1>2. n \in 0 .. size[me] /\ n \in Nat
  BY <1>1
<1>3. read_data(rd, n) = Cells(mem, base[me], size[me], rd, n)
  BY <1>1, <1>2, ReadIs
<1>4. Cells(mem, base[me], size[me], rd, n)
        = SubSeq(Cells(mem, base[me], size[me], rd, Unread), 1, n)
  BY <1>1, CellsFirst
<1>5. /\ Cells(mem, base[me], size[me], rd, n) \in Seq(Cell)
      /\ Len(Cells(mem, base[me], size[me], rd, n)) = n
  BY <1>1, <1>2, CellsAre
<1> QED
  BY <1>3, <1>4, <1>5, Zenon DEF Queue

\* Two reads, one behind the other, are one.
LEMMA ReadsJoin ==
  ASSUME RxInv, mode # "closed", NEW j \in Nat, NEW n \in Nat, j + n <= Unread
  PROVE  /\ read_data(rd, j) \o read_data(rd + j, n) = SubSeq(Queue, 1, j + n)
         /\ SubSeq(Queue, 1, j + n) \in Seq(Cell) /\ Len(SubSeq(Queue, 1, j + n)) = j + n
<1> DEFINE b == base[me]
           s == size[me]
<1>1. /\ IsRing(mem, b, s) /\ s \in Nat
      /\ Unread \in Nat /\ Unread <= s /\ rd \in Int
  BY OpenRing, OpenCounts
<1>2. /\ j \in 0 .. s /\ n \in 0 .. s /\ j + n \in 0 .. s
      /\ rd + j \in Int /\ j + n \in 0 .. Unread
  BY <1>1
<1>3. /\ read_data(rd, j) = Cells(mem, b, s, rd, j)
      /\ read_data(rd + j, n) = Cells(mem, b, s, rd + j, n)
      /\ read_data(rd, j + n) = Cells(mem, b, s, rd, j + n)
  BY <1>1, <1>2, ReadIs
<1>4. read_data(rd, j) \o read_data(rd + j, n) = read_data(rd, j + n)
  <2>1. IsRing(mem, b, s) /\ rd \in Int
    BY <1>1
  <2>2. Joined(mem, b, s, rd, j, n)
    BY <2>1, RunsJoin
  <2> QED
    BY <1>3, <2>2, Zenon DEF Joined
<1>5. /\ read_data(rd, j + n) = SubSeq(Queue, 1, j + n)
      /\ read_data(rd, j + n) \in Seq(Cell) /\ Len(read_data(rd, j + n)) = j + n
  BY <1>2, ReadsFirst
<1> QED
  BY <1>4, <1>5

\* Bytes arrive behind those that are there, if the ring has room for them.
LEMMA ArriveRing ==
  ASSUME RxInv, mode # "closed", NEW bytes \in Seq(Cell), RSR + Len(bytes) <= size[me],
         Store(bytes), UNCHANGED << map, mode, me, rd, done >>
  PROVE  /\ mem' \in [Memory -> Cell] /\ wr' \in Pointer
         /\ RSR' = RSR + Len(bytes) /\ Unread' = Unread + Len(bytes)
         /\ (rd' - done') % Wrap = asked
         /\ Queue' = Queue \o bytes
<1> DEFINE b == base[me]
           s == size[me]
           n == Len(bytes)
           from == rd + Unread
<1>1. /\ IsRing(mem, b, s) /\ s \in Nat \ {0} /\ s < Wrap /\ b \in Nat
      /\ RSR + n <= s /\ n \in Nat
  BY OpenRing
<1>2. /\ RSR \in Nat /\ Unread \in Nat /\ asked \in Nat /\ RSR = Unread + asked
      /\ wr \in Pointer /\ rd \in Pointer /\ done \in Pointer
      /\ wr \in Int /\ rd \in Int /\ Wrap \in Nat \ {0}
  BY OpenCounts
<1>3. UNCHANGED << rd, done, me, mode, base, size >>
  BY DEF map
<1>a. from = rd + Unread /\ from \in Int
  BY <1>2
<1> DEFINE cell(k) == Place(b, s, wr + (k - 1))
<1>4. /\ DOMAIN bytes = 1 .. n
      /\ \A k \in 1 .. n : CellAt(wr + k - 1) = cell(k)
  <2>1. \A k \in 1 .. n : wr + k - 1 = wr + (k - 1)
    BY <1>2
  <2> QED
    BY <2>1 DEF CellAt, Place
<1>5. DOMAIN mem = Memory /\ mem \in [Memory -> Cell]
  BY <1>1 DEF IsRing
<1>6. mem' = [a \in Memory |-> IF \E k \in 1 .. n : a = cell(k)
                               THEN bytes[CHOOSE k \in 1 .. n : a = cell(k)] ELSE mem[a]]
  <2>1. mem' = [a \in Memory |->
                  IF \E k \in 1 .. n : a = CellAt(wr + k - 1)
                  THEN bytes[CHOOSE k \in 1 .. n : a = CellAt(wr + k - 1)] ELSE mem[a]]
    BY <1>4, <1>5 DEF Store
  <2>2. ASSUME NEW a
        PROVE  /\ (\E k \in 1 .. n : a = CellAt(wr + k - 1)) <=> \E k \in 1 .. n : a = cell(k)
               /\ (CHOOSE k \in 1 .. n : a = CellAt(wr + k - 1))
                    = CHOOSE k \in 1 .. n : a = cell(k)
    <3>1. \A k : (k \in 1 .. n /\ a = CellAt(wr + k - 1)) <=> (k \in 1 .. n /\ a = cell(k))
      BY <1>4
    <3> QED
      BY <3>1
  <2> QED
    BY <2>1, <2>2
<1>7. \A j, k \in 1 .. n : j # k => cell(j) # cell(k)
  <2> TAKE j, k \in 1 .. n
  <2>1. j - 1 \in 0 .. s - 1 /\ k - 1 \in 0 .. s - 1
    BY <1>1, <1>2
  <2>2. j # k => j - 1 # k - 1
    OBVIOUS
  <2> QED
    BY <1>1, <1>2, <2>1, <2>2, PlacesApart
<1>8. \A k \in 1 .. n : cell(k) \in Memory
  <2> TAKE k \in 1 .. n
  <2>1. wr + (k - 1) \in Int
    BY <1>2
  <2> QED
    BY <1>1, <2>1, PlaceIs
<1>9. \A k \in 1 .. n : bytes[k] \in Cell
  BY <1>1
<1>b. wr' = (wr + n) % Wrap
  BY DEF Store
<1>c. \A k \in 1 .. n : k - 1 \in Int
      /\ Place(b, s, wr + (k - 1)) = Place(b, s, rd + (Unread + (k - 1)))
  BY PlacesFromReader
<1>d. Len(bytes) = n
  OBVIOUS
<1> HIDE DEF cell, b, s, n, from
<1>10. mem' \in [Memory -> Cell]
  <2> SUFFICES ASSUME NEW a \in Memory
               PROVE  (IF \E k \in 1 .. n : a = cell(k)
                       THEN bytes[CHOOSE k \in 1 .. n : a = cell(k)] ELSE mem[a]) \in Cell
    BY <1>6
  <2>1. CASE \E k \in 1 .. n : a = cell(k)
    <3>1. (CHOOSE k \in 1 .. n : a = cell(k)) \in 1 .. n
      BY <2>1
    <3> QED
      BY <2>1, <3>1, <1>9
  <2>2. CASE ~ \E k \in 1 .. n : a = cell(k)
    BY <2>2, <1>5
  <2> QED
    BY <2>1, <2>2
<1>11. \A k \in 1 .. n : mem'[cell(k)] = bytes[k]
  <2> TAKE k \in 1 .. n
  <2> DEFINE j == CHOOSE j \in 1 .. n : cell(k) = cell(j)
  <2>1. j \in 1 .. n /\ cell(k) = cell(j)
    OBVIOUS
  <2>2. j = k
    BY <1>7, <2>1
  <2>3. mem'[cell(k)] = bytes[j]
    BY <1>6, <1>8
  <2> QED
    BY <2>2, <2>3
<1>12. \A a \in Memory : (\A k \in 1 .. n : a # cell(k)) => mem'[a] = mem[a]
  BY <1>6
<1>13. IsRing(mem', b, s)
  BY <1>1, <1>10 DEF IsRing
<1>14. \A k \in 1 .. n : cell(k) = Place(b, s, from + (k - 1))
  <2> TAKE k \in 1 .. n
  <2>1. k - 1 \in Int /\ rd + (Unread + (k - 1)) = from + (k - 1)
    BY <1>2, <1>a
  <2> QED
    BY <1>c, <2>1 DEF cell
<1>15. Cells(mem', b, s, rd, Unread) = Cells(mem, b, s, rd, Unread)
  <2>1. ASSUME NEW k \in 0 .. Unread - 1
        PROVE  mem'[Place(b, s, rd + k)] = mem[Place(b, s, rd + k)]
    <3>1. rd + k \in Int
      BY <1>2
    <3>2. Place(b, s, rd + k) \in Memory
      BY <1>1, <3>1, PlaceIs
    <3>3. ASSUME NEW j \in 1 .. n
          PROVE  Place(b, s, rd + k) # cell(j)
      <4>1. /\ k \in 0 .. s - 1 /\ Unread + (j - 1) \in 0 .. s - 1 /\ k # Unread + (j - 1)
            /\ rd + (Unread + (j - 1)) = from + (j - 1)
        BY <1>1, <1>2, <1>a
      <4>2. Place(b, s, rd + k) # Place(b, s, rd + (Unread + (j - 1)))
        BY <1>1, <1>2, <4>1, PlacesApart
      <4> QED
        BY <4>1, <4>2, <1>14
    <3> QED
      BY <3>2, <3>3, <1>12
  <2>2. Alike(mem, mem', b, s, rd, Unread)
    BY <2>1 DEF Alike
  <2> QED
    BY <1>1, <1>2, <1>13, <2>2, CellsSame
<1>16. Cells(mem', b, s, from, n) = bytes
  <2>1. \A k \in 1 .. Len(bytes) : bytes[k] = mem'[Place(b, s, from + (k - 1))]
    BY <1>d, <1>11, <1>14
  <2> QED
    BY <1>a, <1>d, <1>13, <2>1, CellsWhen
<1>17. Cells(mem', b, s, rd, Unread + n) = Cells(mem, b, s, rd, Unread) \o bytes
  <2>1. Joined(mem', b, s, rd, Unread, n)
    BY <1>1, <1>2, <1>13, RunsJoin
  <2> QED
    BY <2>1, <1>a, <1>15, <1>16 DEF Joined
<1>18. wr' \in Pointer /\ wr' = IF wr + n < Wrap THEN wr + n ELSE wr + n - Wrap
  <2>1. n \in 0 .. Wrap - 1
    BY <1>1, <1>2
  <2> QED
    BY <1>2, <1>b, <2>1, Moved
<1>19. RSR' = RSR + n
  <2>1. RSR = IF wr >= done THEN wr - done ELSE wr - done + Wrap
    BY <1>2, Ahead DEF RSR
  <2>2. RSR' = IF wr' >= done THEN wr' - done ELSE wr' - done + Wrap
    BY <1>2, <1>3, <1>18, Ahead DEF RSR
  <2> QED
    BY <1>1, <1>2, <1>18, <2>1, <2>2 DEF Pointer
<1>20. Unread' = Unread + n
  <2>1. Unread = IF wr >= rd THEN wr - rd ELSE wr - rd + Wrap
    BY <1>2, Ahead DEF Unread
  <2>2. Unread' = IF wr' >= rd THEN wr' - rd ELSE wr' - rd + Wrap
    BY <1>2, <1>3, <1>18, Ahead DEF Unread
  <2> QED
    BY <1>1, <1>2, <1>18, <2>1, <2>2 DEF Pointer
<1>21. Queue' = Queue \o bytes
  BY <1>3, <1>17, <1>20, Zenon DEF Queue, b, s
<1>22. (rd' - done') % Wrap = asked
  BY <1>3 DEF RxInv, Pointers
<1> QED
  BY <1>d, <1>10, <1>18, <1>19, <1>20, <1>21, <1>22

\* RECV gives free what was read, and nothing else.
LEMMA RecvRing ==
  ASSUME RxInv, Recv
  PROVE  /\ mem' \in [Memory -> Cell] /\ done' = rd /\ Unread' = Unread
         /\ mode # "closed" => RSR' = Unread /\ (rd' - done') % Wrap = 0
         /\ Queue' = Queue
<1> DEFINE b == base[me]
           s == size[me]
           n == (rd - done) % Wrap
           freed == { CellAt(done + k) : k \in 0 .. n - 1 }
<1>1. /\ mem \in [Memory -> Cell] /\ DOMAIN mem = Memory /\ Junk \in Cell
      /\ UNCHANGED << wr, rd, me, mode, base, size >> /\ done' = rd
  BY DEF RxInv, TypeOK, Memory, Cell, Recv, map
<1>2. mem' = [a \in Memory |-> IF a \in freed THEN Junk ELSE mem[a]]
  BY <1>1 DEF Recv
<1> HIDE DEF freed
<1>3. mem' \in [Memory -> Cell]
  BY <1>1, <1>2
<1>4. Unread' = Unread /\ RSR' = Unread
  BY <1>1 DEF Unread, RSR
<1>5. CASE mode = "closed"
  BY <1>1, <1>3, <1>4, <1>5 DEF Queue
<1>6. CASE mode # "closed"
  <2>1. /\ IsRing(mem, b, s) /\ IsRing(mem', b, s) /\ s \in Nat \ {0}
    BY <1>3, <1>6, OpenRing DEF IsRing
  <2>2. /\ Unread \in Nat /\ asked \in Nat /\ Unread + asked <= s
        /\ rd \in Int /\ done \in Int /\ rd \in Pointer /\ Wrap \in Nat \ {0} /\ n = asked
    BY <1>6, OpenCounts DEF RxInv, Pointers
  <2>3. ASSUME NEW k \in 0 .. Unread - 1
        PROVE  mem'[Place(b, s, rd + k)] = mem[Place(b, s, rd + k)]
    <3>1. rd + k \in Int /\ k \in Int
      BY <2>2
    <3>2. Place(b, s, rd + k) \in Memory
      BY <2>1, <3>1, PlaceIs
    <3>3. Place(b, s, rd + k) = Place(b, s, done + (asked + k))
      BY <1>6, <3>1, PlacesFromReader
    <3>4. ASSUME NEW j \in 0 .. n - 1
          PROVE  Place(b, s, rd + k) # CellAt(done + j)
      <4>1. j \in 0 .. s - 1 /\ asked + k \in 0 .. s - 1 /\ j # asked + k
        BY <2>1, <2>2
      <4>2. Place(b, s, done + (asked + k)) # Place(b, s, done + j)
        BY <2>1, <2>2, <4>1, PlacesApart
      <4> QED
        BY <3>3, <4>2 DEF CellAt, Place
    <3>5. Place(b, s, rd + k) \notin freed
      BY <3>4 DEF freed
    <3> QED
      BY <1>2, <3>2, <3>5
  <2>4. Cells(mem', b, s, rd, Unread) = Cells(mem, b, s, rd, Unread)
    <3>1. Alike(mem, mem', b, s, rd, Unread)
      BY <2>3 DEF Alike
    <3> QED
      BY <2>1, <2>2, <3>1, CellsSame
  <2>5. Queue' = Queue
    BY <1>1, <1>4, <2>4, Zenon DEF Queue
  <2>6. (rd' - done') % Wrap = 0
    BY <1>1, <2>2, Ahead DEF Pointer
  <2> QED
    BY <1>1, <1>3, <1>4, <2>5, <2>6
<1> QED
  BY <1>5, <1>6

-----------------------------------------------------------------------------
(* Datagrams in a sequence of bytes. *)

\* Nothing is whole.
LEMMA NoDatagrams ==
  ASSUME NEW q
  PROVE  Datagrams(q, 0)
<1>1. {0} \in SUBSET (0 .. 0) /\ 0 \in {0} /\ Headers(q, {0})
  BY DEF Headers
<1> QED
  BY <1>1, Zenon DEF Datagrams

\* A datagram behind whole datagrams makes them one more.
LEMMA DatagramsArrive ==
  ASSUME NEW q \in Seq(Cell), NEW k \in 0 .. Len(q), Datagrams(q, k),
         NEW p \in Sender, NEW n \in 0 .. MaxData, NEW d \in Seq(Cell), Len(d) = n,
         << p, n >> \o d \in Seq(Cell)
  PROVE  Datagrams(q \o (<< p, n >> \o d), k + (Header + n))
<1> DEFINE h == Header + n
           u == << p, n >> \o d
           r == q \o u
<1>1. Header = 2 /\ MaxData \in Nat
  BY RxAssumption
<1>2. PICK B \in SUBSET (0 .. k) : k \in B /\ Headers(q, B)
  BY DEF Datagrams
<1> DEFINE C == {0} \cup { c + h : c \in B }
<1>3. u \in Seq(Cell) /\ Len(u) = h /\ u[1] = p /\ u[2] = n
  <2>1. << p, n >> \in Seq({p, n}) /\ Len(<< p, n >>) = 2
    OBVIOUS
  <2>2. Len(u) = 2 + n /\ u[1] = p /\ u[2] = n
    OBVIOUS
  <2> QED
    BY <1>1, <2>2
<1>4. h \in Nat /\ h >= 2 /\ k \in Nat
  BY <1>1
<1> HIDE DEF u
<1>5. /\ r \in Seq(Cell) /\ Len(r) = Len(q) + h
      /\ \A j \in 1 .. Len(q) + h : r[j] = IF j <= Len(q) THEN q[j] ELSE u[j - Len(q)]
  <2>1. /\ r \in Seq(Cell) /\ Len(r) = Len(q) + Len(u)
        /\ \A j \in 1 .. Len(q) + Len(u) : r[j] = IF j <= Len(q) THEN q[j] ELSE u[j - Len(q)]
    BY <1>3, ConcatProperties
  <2> QED
    BY <2>1, <1>3
<1>6. Len(q) \in Nat
  OBVIOUS
<1> HIDE DEF r
<1>a. \A j \in 1 .. Len(q) : r[j] = q[j]
  BY <1>4, <1>5, <1>6
<1>7. r[Len(q) + 1] = p /\ r[Len(q) + 2] = n
  <2>1. Len(q) + 1 \in 1 .. Len(q) + h /\ Len(q) + 2 \in 1 .. Len(q) + h
        /\ (Len(q) + 1) - Len(q) = 1 /\ (Len(q) + 2) - Len(q) = 2
        /\ ~(Len(q) + 1 <= Len(q)) /\ ~(Len(q) + 2 <= Len(q))
    BY <1>4, <1>6
  <2> QED
    BY <1>3, <1>5, <2>1
<1>8. C \in SUBSET (0 .. k + h) /\ k + h \in C
  BY <1>2, <1>4
<1>9. \A c \in B : c + h \in C
  OBVIOUS
<1>10. Headers(r, C)
  <2> SUFFICES ASSUME NEW b \in C, b # 0
               PROVE  LET len == r[Len(r) - b + 2] IN
                        /\ b >= Header
                        /\ r[Len(r) - b + 1] \in Sender
                        /\ len \in 0 .. MaxData /\ len <= b - Header
                        /\ b - Header - len \in C
    BY DEF Headers
  <2>1. PICK c \in B : b = c + h
    OBVIOUS
  <2>2. c \in 0 .. k /\ c \in Nat /\ c <= Len(q)
    BY <1>2
  <2>3. CASE c = 0
    <3>1. Len(r) - b + 1 = Len(q) + 1 /\ Len(r) - b + 2 = Len(q) + 2
          /\ b >= Header /\ b - Header = n
      BY <1>1, <1>4, <1>5, <1>6, <2>1, <2>3
    <3>2. n - n = 0 /\ n <= n /\ 0 \in C
      OBVIOUS
    <3> HIDE DEF C
    <3> QED
      BY <1>7, <3>1, <3>2
  <2>4. CASE c # 0
    <3> DEFINE len == q[Len(q) - c + 2]
    <3>1. /\ c >= Header /\ q[Len(q) - c + 1] \in Sender
          /\ len \in 0 .. MaxData /\ len <= c - Header /\ c - Header - len \in B
      BY <1>2, <2>4 DEF Headers
    <3>2. /\ Len(r) - b + 1 = Len(q) - c + 1 /\ Len(r) - b + 2 = Len(q) - c + 2
          /\ Len(q) - c + 1 \in 1 .. Len(q) /\ Len(q) - c + 2 \in 1 .. Len(q)
      BY <1>1, <1>4, <1>5, <1>6, <2>1, <2>2, <3>1
    <3>3. r[Len(r) - b + 1] = q[Len(q) - c + 1] /\ r[Len(r) - b + 2] = len
      BY <1>a, <3>2
    <3> HIDE DEF len
    <3>4. b >= Header /\ len <= b - Header /\ b - Header - len = (c - Header - len) + h
      BY <1>1, <1>4, <2>1, <2>2, <3>1
    <3>5. b - Header - len \in C
      BY <1>9, <3>1, <3>4
    <3> HIDE DEF C
    <3> QED
      BY <3>1, <3>3, <3>4, <3>5
  <2> QED
    BY <2>3, <2>4
<1> HIDE DEF C
<1>11. Datagrams(r, k + h)
  BY <1>8, <1>10, Zenon DEF Datagrams
<1> QED
  BY <1>11 DEF r, u

\* Whole datagrams stay whole when bytes before them are taken.
LEMMA DatagramsTake ==
  ASSUME NEW q \in Seq(Cell), NEW j \in 0 .. Len(q), NEW k \in 0 .. Len(q) - j,
         Datagrams(q, k)
  PROVE  Datagrams(SubSeq(q, j + 1, Len(q)), k)
<1> DEFINE r == SubSeq(q, j + 1, Len(q))
<1>1. Header = 2 /\ Len(q) \in Nat
  BY RxAssumption
<1>2. PICK B \in SUBSET (0 .. k) : k \in B /\ Headers(q, B)
  BY DEF Datagrams
<1>3. Len(r) = Len(q) - j /\ \A c \in 1 .. Len(q) - j : r[c] = q[j + c]
  <2>1. \A c \in j + 1 .. Len(q) : q[c] \in Cell
    OBVIOUS
  <2>2. /\ Len(r) = IF j + 1 <= Len(q) THEN Len(q) - (j + 1) + 1 ELSE 0
        /\ \A c \in 1 .. Len(q) - (j + 1) + 1 : r[c] = q[j + 1 + c - 1]
    BY <2>1, SubSeqProperties
  <2> HIDE DEF r
  <2>3. ASSUME NEW c \in 1 .. Len(q) - j
        PROVE  r[c] = q[j + c]
    <3>1. c \in 1 .. Len(q) - (j + 1) + 1 /\ j + 1 + c - 1 = j + c
      BY <1>1
    <3> QED
      BY <2>2, <3>1
  <2>4. Len(r) = Len(q) - j
    BY <1>1, <2>2
  <2> QED
    BY <2>3, <2>4
<1> HIDE DEF r
<1>4. Headers(r, B)
  <2> SUFFICES ASSUME NEW b \in B, b # 0
               PROVE  LET len == r[Len(r) - b + 2] IN
                        /\ b >= Header
                        /\ r[Len(r) - b + 1] \in Sender
                        /\ len \in 0 .. MaxData /\ len <= b - Header
                        /\ b - Header - len \in B
    BY DEF Headers
  <2> DEFINE len == q[Len(q) - b + 2]
  <2>1. /\ b >= Header /\ q[Len(q) - b + 1] \in Sender
        /\ len \in 0 .. MaxData /\ len <= b - Header /\ b - Header - len \in B
    BY <1>2 DEF Headers
  <2>2. /\ b \in 0 .. k
        /\ Len(r) - b + 1 \in 1 .. Len(q) - j /\ Len(r) - b + 2 \in 1 .. Len(q) - j
        /\ j + (Len(r) - b + 1) = Len(q) - b + 1 /\ j + (Len(r) - b + 2) = Len(q) - b + 2
    BY <1>1, <1>2, <1>3, <2>1
  <2> DEFINE x == Len(r) - b + 1
             y == Len(r) - b + 2
  <2>a. x \in 1 .. Len(q) - j /\ y \in 1 .. Len(q) - j
        /\ j + x = Len(q) - b + 1 /\ j + y = Len(q) - b + 2
    BY <2>2
  <2> HIDE DEF x, y
  <2>b. r[x] = q[j + x] /\ r[y] = q[j + y]
    BY <1>3, <2>a
  <2>3. r[Len(r) - b + 1] = q[Len(q) - b + 1] /\ r[Len(r) - b + 2] = len
    BY <2>a, <2>b DEF x, y
  <2> HIDE DEF len
  <2> QED
    BY <2>1, <2>3
<1> QED
  BY <1>2, <1>4, Zenon DEF Datagrams, r

\* Where datagrams are whole, a header is first, and whole ones are behind what it counts.
LEMMA DatagramsHead ==
  ASSUME NEW q \in Seq(Cell), Datagrams(q, Len(q)), Len(q) # 0
  PROVE  /\ Len(q) >= Header /\ q[1] \in Sender
         /\ q[2] \in 0 .. MaxData /\ q[2] <= Len(q) - Header
         /\ Datagrams(q, Len(q) - Header - q[2])
<1>1. Header = 2 /\ Len(q) \in Nat /\ MaxData \in Nat
  BY RxAssumption
<1>2. PICK B \in SUBSET (0 .. Len(q)) : Len(q) \in B /\ Headers(q, B)
  BY DEF Datagrams
<1>3. Len(q) - Len(q) + 1 = 1 /\ Len(q) - Len(q) + 2 = 2
  BY <1>1
<1>4. /\ Len(q) >= Header /\ q[1] \in Sender
      /\ q[2] \in 0 .. MaxData /\ q[2] <= Len(q) - Header /\ Len(q) - Header - q[2] \in B
  BY <1>2, <1>3 DEF Headers
<1> DEFINE k == Len(q) - Header - q[2]
           C == B \cap (0 .. k)
<1>5. k \in Nat /\ k \in C /\ C \in SUBSET (0 .. k)
  BY <1>1, <1>4
<1>6. ASSUME NEW b \in C, b # 0
      PROVE  LET len == q[Len(q) - b + 2] IN
               /\ b >= Header
               /\ q[Len(q) - b + 1] \in Sender
               /\ len \in 0 .. MaxData /\ len <= b - Header
               /\ b - Header - len \in C
  <2> DEFINE len == q[Len(q) - b + 2]
  <2>1. /\ b >= Header /\ q[Len(q) - b + 1] \in Sender
        /\ len \in 0 .. MaxData /\ len <= b - Header /\ b - Header - len \in B
    BY <1>2, <1>6 DEF Headers
  <2>2. b \in 0 .. k
    OBVIOUS
  <2> HIDE DEF len, k
  <2>3. b - Header - len \in 0 .. k
    BY <1>1, <1>5, <2>1, <2>2
  <2> QED
    BY <2>1, <2>3 DEF len
<1>7. Headers(q, C)
  BY <1>6 DEF Headers
<1> HIDE DEF C, k
<1>8. Datagrams(q, k)
  BY <1>5, <1>7, Zenon DEF Datagrams
<1> QED
  BY <1>4, <1>8 DEF k

-----------------------------------------------------------------------------
(* Each action keeps the invariant, and does to the queue what the abstract stream says. *)

\* The steps of InboundStream, of the queue as it is here.
StreamStep ==
  \/ IsStrictPrefix(Queue, Queue') /\ UNCHANGED << asked, got >>
  \/ \E n \in 1 .. Len(Queue) :
       /\ asked = 0 /\ asked' = n
       /\ Queue' = SubSeq(Queue, n + 1, Len(Queue))
       /\ got' = SubSeq(Queue, 1, n) \/ got' = << >>
  \/ asked' = 0 /\ got' = << >> /\ UNCHANGED Queue
  \/ Queue' = << >> /\ UNCHANGED << asked, got >>
  \/ UNCHANGED << Queue, asked, got >>

Kept == RxInv' /\ StreamStep

\* What a step keeps that moves no pointer.
LEMMA Still ==
  ASSUME RxInv, UNCHANGED << map, chip, rd, asked, left >>, at # "boot", at' # "boot"
  PROVE  /\ MapInv' /\ Sizes' /\ Opened' /\ Pointers' /\ Placed'
         /\ RSR' = RSR /\ Unread' = Unread /\ Queue' = Queue
         /\ mode' = mode /\ left' = left /\ asked' = asked
<1>1. RSR' = RSR /\ Unread' = Unread /\ Queue' = Queue
  BY RingStays
<1>2. UNCHANGED << code, i, sum, size, base, mode, me, mem, wr, done, rd, asked, left >>
  BY DEF map, chip
<1>3. MapInv' /\ Sizes'
  BY <1>2 DEF RxInv, MapInv, MapTypeOK, LaidOut, EndsAtSum, Sizes
<1>4. Opened' /\ Pointers'
  BY <1>1, <1>2 DEF RxInv, Opened, Pointers
<1>5. Placed'
  BY <1>1, <1>2 DEF RxInv, Placed
<1> QED
  BY <1>1, <1>2, <1>3, <1>4, <1>5

LEMMA KeptSysinit == RxInv /\ Sysinit => Kept
<1> SUFFICES ASSUME RxInv, Sysinit PROVE Kept
  OBVIOUS
<1>1. /\ mode = "closed" /\ mode' = mode /\ at = "boot" /\ at' = at
      /\ UNCHANGED << me, mem, wr, done, rd, seen, avail, left, asked, got >>
      /\ sysinitStep
  BY DEF RxInv, Opened, Sysinit, chip
<1>2. MapInv'
  BY <1>1, StepMap DEF RxInv
<1>3. Sizes'
  <2>1. /\ size' = [size EXCEPT ![i] = IF sum < Total THEN SizeOf(code[i]) ELSE 0]
        /\ i \in Chan /\ code \in [Chan -> Code] /\ size \in [Chan -> Nat]
    BY <1>1, MapAssumption DEF sysinitStep, RxInv, TypeOK, MapTypeOK, Chan
  <2>2. code[i] \in Code
    BY <2>1
  <2> QED
    BY <2>1, <2>2 DEF RxInv, Sizes
<1>4. TypeOK'
  BY <1>1, <1>2 DEF RxInv, TypeOK, MapInv
<1>5. Opened' /\ Pointers' /\ Calls' /\ Placed'
  BY <1>1 DEF RxInv, Opened, Pointers, Calls, Placed
<1>6. UNCHANGED << Queue, asked, got >>
  BY <1>1 DEF Queue
<1> QED
  BY <1>2, <1>3, <1>4, <1>5, <1>6 DEF Kept, RxInv, StreamStep

LEMMA KeptBooted == RxInv /\ Booted => Kept
<1> SUFFICES ASSUME RxInv, Booted PROVE Kept
  OBVIOUS
<1>1. /\ mode = "closed" /\ mode' = mode /\ at = "boot" /\ at' = "idle" /\ i' = NumChan
      /\ UNCHANGED << code, i, sum, size, base >>
      /\ UNCHANGED << me, mem, wr, done, rd, seen, avail, left, asked, got >>
  BY DEF RxInv, Opened, Booted, chip, map
<1>2. MapInv' /\ Sizes'
  BY <1>1 DEF RxInv, MapInv, MapTypeOK, LaidOut, EndsAtSum, Sizes
<1>3. TypeOK'
  BY <1>1, <1>2 DEF RxInv, TypeOK, MapInv
<1>4. Opened' /\ Pointers' /\ Calls' /\ Placed'
  BY <1>1 DEF RxInv, Opened, Pointers, Calls, Placed
<1>5. UNCHANGED << Queue, asked, got >>
  BY <1>1 DEF Queue
<1> QED
  BY <1>2, <1>3, <1>4, <1>5 DEF Kept, RxInv, StreamStep

LEMMA KeptOpen ==
  ASSUME RxInv, NEW protocol \in {"UDP", "TCP"}, Open(protocol)
  PROVE  Kept
<1>1. /\ mode = "closed" /\ mode' = protocol /\ at = "idle" /\ at' = at /\ sum <= Total
      /\ avail' = 0 /\ left' = 0 /\ asked = 0 /\ got = << >>
      /\ UNCHANGED << code, i, sum, size, base, mem, seen, asked, got >>
  BY DEF RxInv, Calls, Open, map
<1>2. me' \in Chan /\ size[me'] > 0
  <2> PICK s \in Chan : size[s] > (IF protocol = "UDP" THEN Header ELSE 0) /\ me' = s
    BY DEF Open
  <2>1. size[s] \in Nat
    BY DEF RxInv, TypeOK, MapTypeOK
  <2> QED
    BY <2>1, RxAssumption
<1>3. PICK p \in Pointer : wr' = p /\ rd' = p /\ done' = p
  BY DEF Open
<1>4. (p - p) % Wrap = 0
  BY Ahead DEF Pointer
<1>5. RSR' = 0 /\ Unread' = 0
  BY <1>3, <1>4 DEF RSR, Unread
<1>6. MapInv' /\ Sizes'
  BY <1>1 DEF RxInv, MapInv, MapTypeOK, LaidOut, EndsAtSum, Sizes
<1>7. TypeOK'
  BY <1>1, <1>2, <1>3, <1>6, MapAssumption, RxAssumption DEF RxInv, TypeOK, MapInv
<1>8. Opened'
  BY <1>1, <1>2 DEF RxInv, Opened
<1>9. Pointers'
  <2>1. size'[me'] > 0 /\ size'[me'] \in Nat
    BY <1>1, <1>2 DEF RxInv, TypeOK, MapTypeOK
  <2> QED
    BY <1>1, <1>3, <1>4, <1>5, <2>1 DEF Pointers
<1>10. Calls'
  BY <1>1, <1>5 DEF Calls
<1>11. Placed'
  <2>1. Datagrams(Queue', 0)
    BY NoDatagrams
  <2> QED
    BY <1>1, <1>5, <2>1 DEF Placed
<1>12. UNCHANGED << Queue, asked, got >>
  BY <1>1, <1>5 DEF Queue, Cells
<1> QED
  BY <1>6, <1>7, <1>8, <1>9, <1>10, <1>11, <1>12 DEF Kept, RxInv, StreamStep

\* The chip forgets a socket that is closed, with what was not read.
LEMMA KeptClosed == RxInv /\ (Close \/ Drop) => Kept
<1> SUFFICES ASSUME RxInv, Close \/ Drop PROVE Kept
  OBVIOUS
<1>1. /\ mode # "closed" /\ mode' = "closed" /\ me' = 0 /\ wr' = 0 /\ rd' = 0 /\ done' = 0
      /\ left' = 0 /\ avail' \in {0, avail} /\ at' = at
      /\ mem' = [a \in DOMAIN mem |-> Junk]
      /\ UNCHANGED << code, i, sum, size, base, seen, asked, got >>
  BY DEF RxInv, Calls, Close, Drop, ChipClosed, map
<1>2. MapInv' /\ Sizes'
  BY <1>1 DEF RxInv, MapInv, MapTypeOK, LaidOut, EndsAtSum, Sizes
<1>3. 0 \in Chan /\ 0 \in Pointer /\ 0 \in 0 .. MaxData /\ 0 \in 0 .. 8 * Unit
  BY MapAssumption, RxAssumption DEF Chan, Pointer
<1>4. mem' \in [First .. First + Total - 1 -> Cell]
  BY <1>1 DEF RxInv, TypeOK, Cell
<1>5. TypeOK'
  BY <1>1, <1>2, <1>3, <1>4 DEF RxInv, TypeOK, MapInv
<1>6. Opened' /\ Pointers' /\ Placed'
  BY <1>1 DEF RxInv, Opened, Pointers, Placed
<1>7. Calls'
  <2>1. at \notin {"wait", "waiting"}
    BY DEF RxInv, Calls, Close, Drop
  <2> QED
    BY <1>1, <2>1 DEF RxInv, Calls
<1>8. Queue' = << >> /\ UNCHANGED << asked, got >>
  BY <1>1 DEF Queue
<1> QED
  BY <1>2, <1>5, <1>6, <1>7, <1>8 DEF Kept, RxInv, StreamStep

\* A size that is read tells of no more than there is, unless the connection is gone.
LEMMA SizeIs ==
  ASSUME RxInv, at \in {"avail", "waiting"}, mode # "closed", NEW n \in 0 .. 8 * Unit,
         SizeRead(n)
  PROVE  n <= RSR /\ RSR = Unread
<1>1. RSR \in Nat /\ RSR = Unread /\ seen <= RSR
  BY OpenCounts DEF RxInv, Calls
<1> QED
  BY <1>1 DEF SizeRead

\* The calls that read no bytes.
LEMMA KeptAvail ==
  RxInv /\ (AvailClosed \/ AvailBegin \/ AvailEnd \/ ReadClosed) => Kept
<1> SUFFICES ASSUME RxInv, AvailClosed \/ AvailBegin \/ AvailEnd \/ ReadClosed PROVE Kept
  OBVIOUS
<1>1. UNCHANGED << map, chip, rd, asked, left, got >> /\ at # "boot" /\ at' \in {"idle", "avail"}
      /\ at \in {"idle", "avail"}
  BY DEF AvailClosed, AvailBegin, AvailEnd, ReadClosed, Goto
<1>2. /\ MapInv' /\ Sizes' /\ Opened' /\ Pointers' /\ Placed'
      /\ RSR' = RSR /\ Unread' = Unread /\ Queue' = Queue
      /\ mode' = mode /\ left' = left /\ asked' = asked
  BY <1>1, Still
<1>3. 0 \in 0 .. 8 * Unit
  BY MapAssumption
<1>4. ASSUME mode # "closed"
      PROVE  RSR \in 0 .. 8 * Unit /\ Unread \in Nat /\ RSR \in Nat
  BY <1>4, OpenRing, OpenCounts, MapAssumption
<1>5. seen' \in 0 .. 8 * Unit /\ avail' \in 0 .. 8 * Unit
  BY <1>3, <1>4 DEF RxInv, TypeOK, AvailClosed, AvailBegin, AvailEnd, ReadClosed, Goto
<1>6. TypeOK'
  BY <1>1, <1>2, <1>5 DEF RxInv, TypeOK, MapInv, chip
<1>7. Calls'
  <2>1. mode # "closed" => avail' <= Unread
    <3>1. CASE AvailEnd
      BY <3>1, SizeIs DEF AvailEnd
    <3>2. CASE AvailClosed \/ AvailBegin \/ ReadClosed
      BY <3>2 DEF AvailClosed, AvailBegin, ReadClosed, Goto, RxInv, Calls
    <3> QED
      BY <3>1, <3>2
  <2>2. mode # "closed" /\ at' \in {"avail", "waiting"} => seen' <= RSR
    BY <1>4 DEF AvailClosed, AvailBegin, AvailEnd, ReadClosed, Goto
  <2>3. asked' = 0 /\ got' = << >> /\ (mode # "UDP" => left' = 0)
    BY <1>1, <1>2 DEF RxInv, Calls
  <2> QED
    BY <1>1, <1>2, <2>1, <2>2, <2>3 DEF Calls
<1> QED
  BY <1>1, <1>2, <1>6, <1>7 DEF Kept, RxInv, StreamStep

\* The wait for a datagram.
LEMMA KeptWait == RxInv /\ (BeginRecvUDP \/ WaitBegin \/ WaitAgain) => Kept
<1> SUFFICES ASSUME RxInv, BeginRecvUDP \/ WaitBegin \/ WaitAgain PROVE Kept
  OBVIOUS
<1>1. /\ UNCHANGED << map, chip, rd, asked, left, avail, got >>
      /\ at \in {"idle", "wait", "waiting"} /\ at' \in {"wait", "waiting"}
      /\ mode = "UDP" /\ left = 0
  BY DEF RxInv, Calls, BeginRecvUDP, WaitBegin, WaitAgain, Goto
<1>2. /\ MapInv' /\ Sizes' /\ Opened' /\ Pointers' /\ Placed'
      /\ RSR' = RSR /\ Unread' = Unread /\ Queue' = Queue
      /\ mode' = mode /\ left' = left /\ asked' = asked
  BY <1>1, Still
<1>3. RSR \in 0 .. 8 * Unit /\ RSR \in Nat
  BY <1>1, OpenRing, OpenCounts, MapAssumption
<1>4. seen' \in 0 .. 8 * Unit /\ (at' = "waiting" => seen' <= RSR)
  BY <1>3, MapAssumption DEF RxInv, TypeOK, BeginRecvUDP, WaitBegin, WaitAgain, Goto
<1>5. TypeOK'
  BY <1>1, <1>2, <1>4 DEF RxInv, TypeOK, MapInv, chip
<1>6. Calls'
  BY <1>1, <1>2, <1>4 DEF RxInv, Calls
<1> QED
  BY <1>1, <1>2, <1>5, <1>6 DEF Kept, RxInv, StreamStep

\* What all calls keep that take n bytes.
LEMMA Taken ==
  ASSUME RxInv, mode # "closed", at \notin {"boot", "recv"}, NEW n \in 1 .. Unread,
         rd' = (rd + n) % Wrap, UNCHANGED << map, chip >>, at' = "recv", asked' = n,
         got' \in Seq(Cell), Len(got') <= 8 * Unit,
         got' = SubSeq(Queue, 1, n) \/ got' = << >>,
         seen' \in 0 .. 8 * Unit,
         avail' \in Nat, avail' <= Unread - n,
         left' \in 0 .. MaxData, mode # "UDP" => left' = 0,
         mode = "UDP" =>
           /\ left' <= Unread - n
           /\ Datagrams(SubSeq(Queue, n + 1, Len(Queue)), Unread - n - left')
  PROVE  Kept
<1>1. /\ rd' \in Pointer /\ RSR' = RSR /\ Unread' = Unread - n
      /\ (rd' - done') % Wrap = n
      /\ Queue' = SubSeq(Queue, n + 1, Len(Queue))
  BY TakeRing
<1>2. UNCHANGED << code, i, sum, size, base, mode, me, mem, wr, done >>
  BY DEF map, chip
<1>3. /\ RSR \in Nat /\ Unread \in Nat /\ asked = 0 /\ RSR = Unread
      /\ RSR <= size[me] /\ size[me] <= 8 * Unit /\ size[me] \in Nat
      /\ Len(Queue) = Unread
  BY OpenRing, OpenCounts, QueueIs DEF RxInv, Calls
<1>4. MapInv' /\ Sizes'
  BY <1>2 DEF RxInv, MapInv, MapTypeOK, LaidOut, EndsAtSum, Sizes
<1>5. n \in 0 .. 8 * Unit /\ avail' \in 0 .. 8 * Unit
  BY <1>3, MapAssumption
<1>6. TypeOK'
  BY <1>1, <1>2, <1>4, <1>5 DEF RxInv, TypeOK, MapInv
<1>7. Opened'
  BY <1>2 DEF RxInv, Opened
<1>8. Pointers'
  BY <1>1, <1>2, <1>3 DEF Pointers
<1>9. Calls'
  BY <1>1, <1>2 DEF Calls
<1>10. Placed'
  BY <1>1, <1>2 DEF Placed
<1>11. StreamStep
  BY <1>1, <1>3 DEF StreamStep
<1> QED
  BY <1>4, <1>6, <1>7, <1>8, <1>9, <1>10, <1>11 DEF Kept, RxInv

\* read() and readSkip() of what the sketch may ask for.
LEMMA KeptReading == RxInv /\ Reading => Kept
<1> SUFFICES ASSUME RxInv, NEW n \in 1 .. MayRead, read(n) \/ readSkip(n) PROVE Kept
  BY DEF Reading
<1>1. /\ at = "idle" /\ mode # "closed" /\ at' = "recv" /\ asked' = n
      /\ rd' = (rd + n) % Wrap /\ UNCHANGED << map, chip, seen >>
      /\ got' = read_data(rd, n) \/ got' = << >>
      /\ left' = IF mode = "UDP" THEN left - n ELSE 0
      /\ avail' = IF mode = "UDP" THEN 0 ELSE avail - n
  BY DEF read, readSkip, Take, Consume
<1>2. /\ Unread \in Nat /\ Unread <= 8 * Unit /\ left \in 0 .. MaxData /\ avail \in Nat
      /\ avail <= Unread /\ (mode = "UDP" => left <= Unread)
      /\ MaxData \in Nat /\ seen \in 0 .. 8 * Unit /\ Unit \in Nat
      /\ Queue \in Seq(Cell) /\ Len(Queue) = Unread
  <2>1. /\ left \in 0 .. MaxData /\ avail \in 0 .. 8 * Unit /\ avail <= Unread
        /\ seen \in 0 .. 8 * Unit /\ (mode = "UDP" => left <= Unread)
    <3>1. left \in 0 .. MaxData /\ avail \in 0 .. 8 * Unit /\ seen \in 0 .. 8 * Unit
      BY DEF RxInv, TypeOK
    <3>2. avail <= Unread
      BY <1>1 DEF RxInv, Calls
    <3>3. mode = "UDP" => left <= Unread
      BY DEF RxInv, Placed
    <3> QED
      BY <3>1, <3>2, <3>3
  <2>2. /\ Unread \in Nat /\ RSR = Unread + asked /\ asked \in Nat /\ RSR <= size[me]
        /\ size[me] \in Nat /\ size[me] <= 8 * Unit /\ Unit \in Nat /\ 8 * Unit \in Nat
    <3>1. /\ Unread \in Nat /\ RSR = Unread + asked /\ asked \in Nat /\ RSR <= size[me]
          /\ size[me] \in Nat /\ size[me] <= 8 * Unit
      BY <1>1, OpenRing, OpenCounts
    <3>2. Unit \in Nat /\ 8 * Unit \in Nat
      BY MapAssumption
    <3> QED
      BY <3>1, <3>2
  <2>3. Queue \in Seq(Cell) /\ Len(Queue) = Unread
    BY <1>1, QueueIs
  <2>4. Unread <= 8 * Unit
    <3>1. \A a, b, c, d \in Nat : a + b <= c /\ c <= d => a <= d
      OBVIOUS
    <3> QED
      BY ONLY <2>2, <3>1
  <2> QED
    BY <2>1, <2>2, <2>3, <2>4, RxAssumption
<1>3. n \in 1 .. Unread /\ n \in 0 .. Unread
      /\ (mode = "UDP" => n <= left) /\ (mode # "UDP" => n <= avail)
  BY <1>2 DEF MayRead
<1>4. got' \in Seq(Cell) /\ Len(got') <= 8 * Unit
      /\ (got' = SubSeq(Queue, 1, n) \/ got' = << >>)
  <2>1. /\ read_data(rd, n) = SubSeq(Queue, 1, n)
        /\ read_data(rd, n) \in Seq(Cell) /\ Len(read_data(rd, n)) = n
    BY <1>1, <1>3, ReadsFirst
  <2>2. << >> \in Seq(Cell) /\ Len(<< >>) = 0
    OBVIOUS
  <2>3. n <= 8 * Unit /\ 0 <= 8 * Unit
    BY <1>2, <1>3
  <2>4. CASE got' = read_data(rd, n)
    BY <2>1, <2>3, <2>4
  <2>5. CASE got' = << >>
    BY <2>2, <2>3, <2>5
  <2> QED
    BY <1>1, <2>4, <2>5
<1>5. /\ avail' \in Nat /\ avail' <= Unread - n
      /\ left' \in 0 .. MaxData /\ (mode # "UDP" => left' = 0)
  BY <1>1, <1>2, <1>3
<1>6. ASSUME mode = "UDP"
      PROVE  /\ left' <= Unread - n
             /\ Datagrams(SubSeq(Queue, n + 1, Len(Queue)), Unread - n - left')
  <2>1. left' = left - n /\ Unread - n - left' = Unread - left
        /\ Unread - left \in 0 .. Len(Queue) - n /\ n \in 0 .. Len(Queue)
    BY <1>1, <1>2, <1>3, <1>6
  <2>2. Datagrams(Queue, Unread - left)
    BY <1>6 DEF RxInv, Placed
  <2>3. Datagrams(SubSeq(Queue, n + 1, Len(Queue)), Unread - left)
    BY <1>2, <2>1, <2>2, DatagramsTake
  <2> QED
    BY <1>2, <1>3, <1>6, <2>1, <2>3
<1>7. at \notin {"boot", "recv"} /\ seen' \in 0 .. 8 * Unit
      /\ UNCHANGED << map, chip >>
  BY <1>1, <1>2
<1> QED
  BY <1>1, <1>3, <1>4, <1>5, <1>6, <1>7, Taken

\* Where no datagram is begun and bytes are there, the first are a header and whole
\* datagrams.
LEMMA HeaderFirst ==
  ASSUME RxInv, mode = "UDP", left = 0, Unread # 0
  PROVE  /\ Unread \in Nat /\ Unread >= Header /\ Unread <= 8 * Unit
         /\ Queue \in Seq(Cell) /\ Len(Queue) = Unread
         /\ read_data(rd, Header) = SubSeq(Queue, 1, Header)
         /\ read_data(rd, Header) \in Seq(Cell) /\ Len(read_data(rd, Header)) = Header
         /\ read_data(rd, Header)[2] = Queue[2]
         /\ Queue[2] \in 0 .. MaxData /\ Queue[2] <= Unread - Header
         /\ Datagrams(Queue, Unread - Header - Queue[2])
<1>1. /\ Unread \in Nat /\ Unread <= 8 * Unit /\ Header = 2
      /\ Queue \in Seq(Cell) /\ Len(Queue) = Unread
  BY OpenRing, OpenCounts, QueueIs, MapAssumption, RxAssumption
<1>2. Datagrams(Queue, Len(Queue)) /\ Len(Queue) # 0
  <2>1. Datagrams(Queue, Unread - left) /\ Unread - left = Unread
    BY <1>1 DEF RxInv, Placed
  <2> QED
    BY <1>1, <2>1
<1>3. /\ Len(Queue) >= Header
      /\ Queue[2] \in 0 .. MaxData /\ Queue[2] <= Len(Queue) - Header
      /\ Datagrams(Queue, Len(Queue) - Header - Queue[2])
  BY <1>1, <1>2, DatagramsHead
<1>4. Header \in 0 .. Unread
  BY <1>1, <1>3
<1>5. /\ read_data(rd, Header) = SubSeq(Queue, 1, Header)
      /\ read_data(rd, Header) \in Seq(Cell) /\ Len(read_data(rd, Header)) = Header
  BY <1>4, ReadsFirst
<1>6. SubSeq(Queue, 1, Header)[2] = Queue[2]
  BY <1>1, <1>3
<1> QED
  BY <1>1, <1>3, <1>5, <1>6

LEMMA KeptReadHeader == RxInv /\ ReadHeader => Kept
<1> SUFFICES ASSUME RxInv, ReadHeader PROVE Kept
  OBVIOUS
<1>1. /\ at = "waiting" /\ at' = "recv" /\ asked' = Header
      /\ rd' = (rd + Header) % Wrap /\ UNCHANGED << map, chip >>
      /\ got' = read_data(rd, Header) /\ left' = read_data(rd, Header)[2]
      /\ avail' = 0 /\ seen' = 0
  BY DEF ReadHeader
<1>2. mode = "UDP" /\ left = 0 /\ Header = 2 /\ 0 \in 0 .. 8 * Unit
  BY <1>1, RxAssumption, MapAssumption DEF RxInv, Calls
<1>3. Unread # 0 /\ Unread \in Nat
  <2> PICK n \in 0 .. 8 * Unit : SizeRead(n) /\ HeaderThere(n)
    BY DEF ReadHeader
  <2>1. n <= RSR /\ RSR = Unread /\ n >= 2 /\ Unread \in Nat
    BY <1>1, <1>2, SizeIs, OpenCounts DEF HeaderThere
  <2> QED
    BY <2>1
<1> DEFINE len == Queue[2]
<1>4. /\ Unread \in Nat /\ Unread >= Header /\ Unread <= 8 * Unit
      /\ Queue \in Seq(Cell) /\ Len(Queue) = Unread
      /\ got' = SubSeq(Queue, 1, Header) /\ got' \in Seq(Cell) /\ Len(got') = Header
      /\ left' = len
      /\ len \in 0 .. MaxData /\ len <= Unread - Header
      /\ Datagrams(Queue, Unread - Header - len)
  BY <1>1, <1>2, <1>3, HeaderFirst
<1> HIDE DEF len
<1>5. Header \in 1 .. Unread /\ Header \in 0 .. Len(Queue)
      /\ Unread - Header - len \in 0 .. Len(Queue) - Header
  BY <1>2, <1>4
<1>6. Datagrams(SubSeq(Queue, Header + 1, Len(Queue)), Unread - Header - left')
  BY <1>4, <1>5, DatagramsTake
<1>7. /\ mode # "closed" /\ at \notin {"boot", "recv"} /\ Len(got') <= 8 * Unit
      /\ avail' \in Nat /\ avail' <= Unread - Header /\ seen' \in 0 .. 8 * Unit
      /\ left' \in 0 .. MaxData /\ left' <= Unread - Header
  BY <1>1, <1>2, <1>4, MapAssumption
<1>8. UNCHANGED << map, chip >> /\ rd' = (rd + Header) % Wrap /\ at' = "recv"
      /\ asked' = Header /\ got' \in Seq(Cell)
      /\ (got' = SubSeq(Queue, 1, Header) \/ got' = << >>)
      /\ (mode # "UDP" => left' = 0)
  BY <1>1, <1>2, <1>4
<1> QED
  BY <1>5, <1>6, <1>7, <1>8, Taken

LEMMA Keptrecvfrom == RxInv /\ recvfrom => Kept
<1> SUFFICES ASSUME RxInv, recvfrom PROVE Kept
  OBVIOUS
<1> DEFINE len == Queue[2]
           n == Header + len
           data == read_data(rd, Header) \o read_data(rd + Header, read_data(rd, Header)[2])
<1>1. /\ at = "idle" /\ mode = "UDP" /\ left = 0 /\ avail >= Header
      /\ at' = "recv" /\ avail' = 0 /\ left' = left
      /\ asked' = Header + read_data(rd, Header)[2]
      /\ rd' = (rd + (Header + read_data(rd, Header)[2])) % Wrap
      /\ UNCHANGED << map, chip, seen >>
      /\ got' = data
  BY DEF recvfrom, Take
<1>2. Header = 2 /\ Unread # 0
  <2>1. avail \in Nat /\ avail <= Unread /\ Unread \in Nat
    BY <1>1, OpenCounts, MapAssumption DEF RxInv, TypeOK, Calls
  <2> QED
    BY <1>1, <2>1, RxAssumption
<1>3. /\ Unread \in Nat /\ Unread >= Header /\ Unread <= 8 * Unit
      /\ Queue \in Seq(Cell) /\ Len(Queue) = Unread
      /\ read_data(rd, Header)[2] = len
      /\ len \in 0 .. MaxData /\ len <= Unread - Header
      /\ Datagrams(Queue, Unread - Header - len)
  BY <1>1, <1>2, HeaderFirst
<1>4. asked' = n /\ rd' = (rd + n) % Wrap
      /\ data = read_data(rd, Header) \o read_data(rd + Header, len)
  BY <1>1, <1>3
<1> HIDE DEF len, data
<1>5. n \in 1 .. Unread /\ n \in 0 .. Len(Queue) /\ len \in Nat /\ Header \in Nat
      /\ Header + len <= Unread
      /\ Unread - Header - len = Unread - n - 0
      /\ Unread - n - 0 \in 0 .. Len(Queue) - n
  BY <1>2, <1>3
<1>6. data = SubSeq(Queue, 1, n) /\ data \in Seq(Cell) /\ Len(data) = n
  BY <1>1, <1>4, <1>5, ReadsJoin
<1> HIDE DEF n
<1>7. Datagrams(SubSeq(Queue, n + 1, Len(Queue)), Unread - n - 0)
  BY <1>3, <1>5, DatagramsTake
<1>8. /\ mode # "closed" /\ at \notin {"boot", "recv"} /\ Len(got') <= 8 * Unit
      /\ avail' \in Nat /\ avail' <= Unread - n /\ seen' \in 0 .. 8 * Unit
      /\ left' \in 0 .. MaxData /\ left' <= Unread - n /\ left' = 0
  BY <1>1, <1>3, <1>5, <1>6, MapAssumption, RxAssumption DEF RxInv, TypeOK
<1>9. UNCHANGED << map, chip >> /\ rd' = (rd + n) % Wrap /\ at' = "recv"
      /\ asked' = n /\ got' \in Seq(Cell)
      /\ (got' = SubSeq(Queue, 1, n) \/ got' = << >>)
      /\ (mode # "UDP" => left' = 0)
      /\ Datagrams(SubSeq(Queue, n + 1, Len(Queue)), Unread - n - left')
  BY <1>1, <1>4, <1>6, <1>7, <1>8
<1> QED
  BY <1>5, <1>8, <1>9, Taken

LEMMA KeptRecv == RxInv /\ Recv => Kept
<1> SUFFICES ASSUME RxInv, Recv PROVE Kept
  OBVIOUS
<1>1. /\ mem' \in [Memory -> Cell] /\ done' = rd /\ Unread' = Unread
      /\ (mode # "closed" => RSR' = Unread /\ (rd' - done') % Wrap = 0)
      /\ Queue' = Queue
  BY RecvRing
<1>2. /\ UNCHANGED << code, i, sum, size, base, mode, me, wr, rd, seen, avail, left >>
      /\ at = "recv" /\ at' = "idle" /\ asked' = 0 /\ got' = << >>
  BY DEF Recv, map
<1>3. MapInv' /\ Sizes'
  BY <1>2 DEF RxInv, MapInv, MapTypeOK, LaidOut, EndsAtSum, Sizes
<1>4. TypeOK'
  BY <1>1, <1>2, <1>3, MapAssumption DEF RxInv, TypeOK, MapInv, Memory
<1>5. Opened'
  BY <1>2 DEF RxInv, Opened
<1>6. Pointers'
  <2>1. CASE mode = "closed"
    BY <1>1, <1>2, <2>1 DEF RxInv, Pointers
  <2>2. CASE mode # "closed"
    <3>1. /\ RSR \in Nat /\ Unread \in Nat /\ asked \in Nat /\ RSR = Unread + asked
          /\ RSR <= size[me] /\ size[me] \in Nat
      BY <2>2, OpenCounts, OpenRing
    <3> QED
      BY <1>1, <1>2, <2>2, <3>1 DEF Pointers
  <2> QED
    BY <2>1, <2>2
<1>7. Calls' /\ Placed'
  BY <1>1, <1>2 DEF RxInv, Calls, Placed
<1>8. StreamStep
  BY <1>1, <1>2 DEF StreamStep
<1> QED
  BY <1>3, <1>4, <1>5, <1>6, <1>7, <1>8 DEF Kept, RxInv

\* What all arrivals keep.
LEMMA Arrived ==
  ASSUME RxInv, mode # "closed", NEW bytes \in Seq(Cell), bytes # << >>,
         RSR + Len(bytes) <= size[me], Store(bytes),
         UNCHANGED << map, mode, me, rd, done, at, seen, avail, left, asked, got >>,
         mode = "UDP" => Datagrams(Queue \o bytes, (Unread - left) + Len(bytes))
  PROVE  Kept
<1>1. /\ mem' \in [Memory -> Cell] /\ wr' \in Pointer
      /\ RSR' = RSR + Len(bytes) /\ Unread' = Unread + Len(bytes)
      /\ (rd' - done') % Wrap = asked
      /\ Queue' = Queue \o bytes
  BY ArriveRing
<1>2. /\ UNCHANGED << code, i, sum, size, base, mode, me, rd, done, at, seen, avail, left >>
      /\ UNCHANGED << asked, got >>
  BY DEF map
<1>3. /\ RSR \in Nat /\ Unread \in Nat /\ asked \in Nat /\ RSR = Unread + asked
      /\ Len(bytes) \in Nat /\ Len(bytes) > 0 /\ size[me] \in Nat
      /\ Queue \in Seq(Cell) /\ Len(Queue) = Unread
      /\ seen \in Nat /\ avail \in Nat /\ left \in Nat
  <2>1. /\ RSR \in Nat /\ Unread \in Nat /\ asked \in Nat /\ RSR = Unread + asked
        /\ size[me] \in Nat
    BY OpenCounts, OpenRing
  <2>2. Len(bytes) \in Nat /\ Len(bytes) > 0
    OBVIOUS
  <2>3. Queue \in Seq(Cell) /\ Len(Queue) = Unread
    BY QueueIs
  <2>4. seen \in Nat /\ avail \in Nat /\ left \in Nat
    <3>1. seen \in 0 .. 8 * Unit /\ avail \in 0 .. 8 * Unit /\ left \in 0 .. MaxData
      BY DEF RxInv, TypeOK
    <3> QED
      BY <3>1, MapAssumption, RxAssumption
  <2> QED
    BY <2>1, <2>2, <2>3, <2>4
<1>4. MapInv' /\ Sizes'
  BY <1>2 DEF RxInv, MapInv, MapTypeOK, LaidOut, EndsAtSum, Sizes
<1>5. TypeOK'
  BY <1>1, <1>2, <1>4 DEF RxInv, TypeOK, MapInv, Memory
<1>6. Opened'
  BY <1>2 DEF RxInv, Opened
<1>7. Pointers'
  BY <1>1, <1>2, <1>3 DEF Pointers
<1>8. Calls'
  <2>1. avail <= Unread /\ (at \in {"avail", "waiting"} => seen <= RSR)
    BY DEF RxInv, Calls
  <2>2. avail' <= Unread' /\ (at' \in {"avail", "waiting"} => seen' <= RSR')
    BY <1>1, <1>2, <1>3, <2>1
  <2> QED
    BY <1>2, <2>2 DEF RxInv, Calls
<1>9. Placed'
  <2>1. ASSUME mode = "UDP"
        PROVE  /\ left <= Unread + Len(bytes)
               /\ Datagrams(Queue \o bytes, Unread + Len(bytes) - left)
    <3>1. left <= Unread /\ Unread + Len(bytes) - left = (Unread - left) + Len(bytes)
      BY <1>3, <2>1 DEF RxInv, Placed
    <3> QED
      BY <1>3, <2>1, <3>1
  <2>2. mode' = mode /\ left' = left /\ Unread' = Unread + Len(bytes)
    BY <1>1, <1>2
  <2>3. Unread' - left' = Unread + Len(bytes) - left
    <3>1. Unread \in Nat /\ Len(bytes) \in Nat /\ left \in Nat
      BY <1>3
    <3> QED
      BY <2>2, <3>1
  <2>4. mode' = "UDP" => left' <= Unread' /\ Datagrams(Queue', Unread' - left')
    BY <1>1, <2>1, <2>2, <2>3
  <2> QED
    BY <2>4 DEF Placed
<1>10. IsStrictPrefix(Queue, Queue')
  <2> DEFINE q == Queue
             r == Queue \o bytes
  <2>1. q \in Seq(Cell) /\ r = q \o bytes
    BY <1>3
  <2> HIDE DEF q, r
  <2>2. /\ r \in Seq(Cell) /\ Len(r) = Len(q) + Len(bytes)
        /\ \A k \in 1 .. Len(q) : r[k] = q[k]
    BY <2>1
  <2>3. Len(q) <= Len(r) /\ q # r
    BY <1>3, <2>1, <2>2
  <2>4. SubSeq(q, 1, Len(q)) = SubSeq(r, 1, Len(q))
    BY <2>1, <2>2, <2>3
  <2> QED
    BY <1>1, <2>3, <2>4 DEF IsStrictPrefix, IsPrefix, q, r
<1>11. StreamStep
  BY <1>2, <1>10 DEF StreamStep
<1> QED
  BY <1>4, <1>5, <1>6, <1>7, <1>8, <1>9, <1>11 DEF Kept, RxInv

LEMMA KeptArriveTCP == RxInv /\ ArriveTCP => Kept
<1> SUFFICES ASSUME RxInv, ArriveTCP PROVE Kept
  OBVIOUS
<1>1. PICK d \in Data : Store(<< d >>)
  BY DEF ArriveTCP
<1>2. /\ << d >> \in Seq(Cell) /\ Len(<< d >>) = 1 /\ << d >> # << >>
      /\ mode = "TCP" /\ RSR + 1 <= size[me]
      /\ UNCHANGED << map, mode, me, rd, done, at, seen, avail, left, asked, got >>
  BY DEF Cell, ArriveTCP, Fits
<1> QED
  BY <1>1, <1>2, Arrived

LEMMA KeptArriveUDP == RxInv /\ ArriveUDP => Kept
<1> SUFFICES ASSUME RxInv, ArriveUDP PROVE Kept
  OBVIOUS
<1>1. PICK n \in 0 .. MaxData : \E p \in Sender, d \in [1 .. n -> Data] :
        Fits(Header + n) /\ Store(<< p, n >> \o d)
  BY DEF ArriveUDP
<1>2. PICK p \in Sender, d \in [1 .. n -> Data] : Fits(Header + n) /\ Store(<< p, n >> \o d)
  BY <1>1
<1> DEFINE bytes == << p, n >> \o d
<1>3. n \in Nat /\ Header = 2 /\ mode = "UDP"
  BY RxAssumption DEF ArriveUDP
<1>4. d \in Seq(Cell) /\ Len(d) = n
  BY <1>3 DEF Cell
<1>5. bytes \in Seq(Cell) /\ Len(bytes) = Header + n /\ bytes # << >>
  <2>1. << p, n >> \in Seq(Cell) /\ Len(<< p, n >>) = 2
    BY DEF Cell
  <2>2. bytes \in Seq(Cell) /\ Len(bytes) = 2 + n
    BY <1>4, <2>1, ConcatProperties
  <2> HIDE DEF bytes
  <2> QED
    BY <1>3, <2>2
<1>6. Datagrams(Queue \o bytes, (Unread - left) + (Header + n))
  <2>1. /\ Queue \in Seq(Cell) /\ Len(Queue) = Unread /\ Unread \in Nat
        /\ left \in Nat /\ left <= Unread /\ Datagrams(Queue, Unread - left)
    BY <1>3, QueueIs, OpenCounts, RxAssumption DEF RxInv, TypeOK, Placed
  <2>2. Unread - left \in 0 .. Len(Queue)
    BY <2>1
  <2> QED
    BY <1>4, <1>5, <2>1, <2>2, DatagramsArrive
<1>7. UNCHANGED << map, mode, me, rd, done, at, seen, avail, left, asked, got >>
      /\ RSR + (Header + n) <= size[me]
  BY <1>2 DEF ArriveUDP, Fits
<1>8. Store(bytes)
  BY <1>2
<1> HIDE DEF bytes
<1> QED
  BY <1>3, <1>5, <1>6, <1>7, <1>8, Arrived

LEMMA KeptUnchanged == RxInv /\ UNCHANGED vars => Kept
<1> SUFFICES ASSUME RxInv, UNCHANGED vars PROVE Kept
  OBVIOUS
<1>1. UNCHANGED << map, chip, rd >> /\ UNCHANGED << at, seen, avail, left, asked, got >>
  BY DEF vars
<1>2. RSR' = RSR /\ Unread' = Unread /\ Queue' = Queue
  BY <1>1, RingStays
<1>3. UNCHANGED << code, i, sum, size, base >> /\ UNCHANGED << mode, me, mem, wr, done >>
  BY <1>1 DEF map, chip
<1> QED
  BY <1>1, <1>2, <1>3
     DEF Kept, StreamStep, RxInv, TypeOK, MapInv, MapTypeOK, LaidOut, EndsAtSum, Sizes,
         Opened, Pointers, Calls, Placed


-----------------------------------------------------------------------------
(* The invariant, and what follows from it. *)

LEMMA InitHolds == Init => RxInv
<1> SUFFICES ASSUME Init PROVE RxInv
  OBVIOUS
<1> USE DEF Init
<1>1. MapInv
  BY InitMap
<1>2. TypeOK
  BY <1>1, MapAssumption, RxAssumption DEF TypeOK, MapInv, Chan, Cell, Pointer
<1>3. Sizes /\ Opened /\ Pointers /\ Calls /\ Placed
  BY DEF Sizes, Opened, Pointers, Calls, Placed, MapInit
<1> QED
  BY <1>1, <1>2, <1>3 DEF RxInv

LEMMA StepKeeps == RxInv /\ [Next]_vars => Kept
<1> SUFFICES ASSUME RxInv, [Next]_vars PROVE Kept
  OBVIOUS
<1>1. CASE Sysinit \/ Booted
  BY <1>1, KeptSysinit, KeptBooted
<1>2. CASE Open("UDP") \/ Open("TCP")
  BY <1>2, KeptOpen
<1>3. CASE Close \/ Drop
  BY <1>3, KeptClosed
<1>4. CASE AvailClosed \/ AvailBegin \/ AvailEnd \/ ReadClosed
  BY <1>4, KeptAvail
<1>5. CASE BeginRecvUDP \/ WaitBegin \/ WaitAgain
  BY <1>5, KeptWait
<1>6. CASE Reading \/ ReadHeader \/ recvfrom
  BY <1>6, KeptReading, KeptReadHeader, Keptrecvfrom
<1>7. CASE Recv \/ ArriveUDP \/ ArriveTCP
  BY <1>7, KeptRecv, KeptArriveUDP, KeptArriveTCP
<1>8. CASE UNCHANGED vars
  BY <1>8, KeptUnchanged
<1> QED
  BY <1>1, <1>2, <1>3, <1>4, <1>5, <1>6, <1>7, <1>8 DEF Next, InCall

LEMMA RxInvariant == Spec => []RxInv
<1>1. RxInv /\ [Next]_vars => RxInv'
  BY StepKeeps DEF Kept
<1> QED
  BY <1>1, InitHolds, PTL DEF Spec

\* The queue as the refinement writes it.
LEMMA QueueMaps ==
  Queue = IF mode = "closed" THEN << >>
          ELSE [k \in 1 .. Unread |-> mem[CellAt(rd + k - 1)]]
BY DEF Queue, Cells, Place, CellAt

\* Every step of the queue is one of InboundStream.
LEMMA StreamMaps ==
  StreamStep => [Stream!Next]_<< IF mode = "closed" THEN << >>
                                 ELSE [k \in 1 .. Unread |-> mem[CellAt(rd + k - 1)]],
                                 asked, got >>
<1> SUFFICES ASSUME StreamStep
             PROVE  [Stream!Next]_<< IF mode = "closed" THEN << >>
                                     ELSE [k \in 1 .. Unread |-> mem[CellAt(rd + k - 1)]],
                                     asked, got >>
  OBVIOUS
<1>1. CASE IsStrictPrefix(Queue, Queue') /\ UNCHANGED << asked, got >>
  <2>1. Stream!IsStrictPrefix(Queue, Queue')
    BY <1>1 DEF IsStrictPrefix, IsPrefix, Stream!IsStrictPrefix, Stream!IsPrefix
  <2> QED
    BY <1>1, <2>1 DEF Stream!Next, Stream!Arrive, Queue, Cells, Place, CellAt
<1>2. CASE \E n \in 1 .. Len(Queue) :
             /\ asked = 0 /\ asked' = n
             /\ Queue' = SubSeq(Queue, n + 1, Len(Queue))
             /\ got' = SubSeq(Queue, 1, n) \/ got' = << >>
  BY <1>2 DEF Stream!Next, Stream!Read, Stream!Skip, Stream!Take, Queue, Cells, Place, CellAt
<1>3. CASE asked' = 0 /\ got' = << >> /\ UNCHANGED Queue
  BY <1>3 DEF Stream!Next, Stream!Return, Queue, Cells, Place, CellAt
<1>4. CASE Queue' = << >> /\ UNCHANGED << asked, got >>
  BY <1>4 DEF Stream!Next, Stream!Lose, Queue, Cells, Place, CellAt
<1>5. CASE UNCHANGED << Queue, asked, got >>
  BY <1>5 DEF Queue, Cells, Place, CellAt
<1> QED
  BY <1>1, <1>2, <1>3, <1>4, <1>5 DEF StreamStep

-----------------------------------------------------------------------------
(* Whole is a recursive function of which the code bounds the argument: that there is one  *)
(* is shown by naming it, and what it says of a queue by the smallest place it could fail. *)

\* What k bytes before the end of the ring must be, if the rest is looked up in f.
HeadAt(f, k) ==
  LET len == mem[CellAt(wr - k + 1)]
  IN \/ k = 0
     \/ /\ k >= Header
        /\ mem[CellAt(wr - k)] \in Sender
        /\ len \in 0 .. k - Header
        /\ f[k - Header - len]

\* Of the places in B each is the end, or the header of a datagram that ends in one of B.
Heads(B) ==
  \A b \in B :
    LET len == mem[CellAt(wr - b + 1)]
    IN \/ b = 0
       \/ /\ b >= Header
          /\ mem[CellAt(wr - b)] \in Sender
          /\ len \in 0 .. b - Header
          /\ b - Header - len \in B

LEMMA HeadsDown ==
  ASSUME NEW k \in Nat
  PROVE  LET len == mem[CellAt(wr - k + 1)]
         IN (\E B \in SUBSET (0 .. k) : k \in B /\ Heads(B))
              <=> \/ k = 0
                  \/ /\ k >= Header
                     /\ mem[CellAt(wr - k)] \in Sender
                     /\ len \in 0 .. k - Header
                     /\ \E B \in SUBSET (0 .. k - Header - len) :
                          k - Header - len \in B /\ Heads(B)
<1> DEFINE len == mem[CellAt(wr - k + 1)]
           rest == k - Header - len
           head == k >= Header /\ mem[CellAt(wr - k)] \in Sender /\ len \in 0 .. k - Header
           InRest == \E B \in SUBSET (0 .. rest) : rest \in B /\ Heads(B)
<1>0. Header = 2
  BY RxAssumption
<1>1. ASSUME NEW B \in SUBSET (0 .. k), k \in B, Heads(B), k # 0
      PROVE  head /\ InRest
  <2>1. head /\ rest \in B
    BY <1>1 DEF Heads
  <2>2. rest \in Nat
    BY <2>1, <1>0
  <2> DEFINE C == B \cap (0 .. rest)
  <2>3. Heads(C)
    <3> SUFFICES ASSUME NEW b \in C, b # 0
                 PROVE  LET l == mem[CellAt(wr - b + 1)]
                        IN /\ b >= Header
                           /\ mem[CellAt(wr - b)] \in Sender
                           /\ l \in 0 .. b - Header
                           /\ b - Header - l \in C
      BY DEF Heads
    <3> DEFINE l == mem[CellAt(wr - b + 1)]
    <3>1. /\ b >= Header /\ mem[CellAt(wr - b)] \in Sender
          /\ l \in 0 .. b - Header /\ b - Header - l \in B
      BY <1>1 DEF Heads
    <3> HIDE DEF l, rest
    <3>2. b - Header - l \in 0 .. rest
      BY <1>0, <2>2, <3>1
    <3> QED
      BY <3>1, <3>2 DEF l
  <2>4. C \in SUBSET (0 .. rest) /\ rest \in C
    BY <2>1, <2>2
  <2> QED
    BY <2>1, <2>3, <2>4
<1>2. ASSUME head, NEW B \in SUBSET (0 .. rest), rest \in B, Heads(B)
      PROVE  \E C \in SUBSET (0 .. k) : k \in C /\ Heads(C)
  <2> DEFINE C == B \cup {k}
  <2>1. C \in SUBSET (0 .. k) /\ k \in C
    BY <1>0, <1>2
  <2>2. Heads(C)
    BY <1>2 DEF Heads
  <2> QED
    BY <2>1, <2>2
<1>3. Heads({0}) /\ {0} \in SUBSET (0 .. 0) /\ 0 \in {0}
  BY DEF Heads
<1>4. k = 0 => \E B \in SUBSET (0 .. k) : k \in B /\ Heads(B)
  BY <1>3
<1> QED
  BY <1>1, <1>2, <1>4

LEMMA WholeIs == \A k \in 0 .. 8 * Unit : Whole[k] <=> HeadAt(Whole, k)
<1> DEFINE R(g) == [k \in 0 .. 8 * Unit |-> HeadAt(g, k)]
           f == [k \in 0 .. 8 * Unit |-> \E B \in SUBSET (0 .. k) : k \in B /\ Heads(B)]
<1>1. Whole = CHOOSE g : g = R(g)
  BY DEF Whole, HeadAt
<1>2. f = R(f)
  <2> SUFFICES ASSUME NEW k \in 0 .. 8 * Unit
               PROVE  f[k] <=> HeadAt(f, k)
    BY DEF HeadAt
  <2> DEFINE len == mem[CellAt(wr - k + 1)]
             rest == k - Header - len
  <2>1. k \in Nat /\ Header = 2
    BY MapAssumption, RxAssumption
  <2>2. k >= Header /\ len \in 0 .. k - Header => rest \in 0 .. 8 * Unit
    BY <2>1, MapAssumption
  <2>3. k >= Header /\ len \in 0 .. k - Header =>
          (f[rest] <=> \E B \in SUBSET (0 .. rest) : rest \in B /\ Heads(B))
    BY <2>2
  <2> QED
    BY <2>1, <2>3, HeadsDown DEF HeadAt
<1> HIDE DEF R, f
<1>3. Whole = R(Whole)
  BY <1>1, <1>2
<1> QED
  BY <1>3 DEF R

\* What the queue holds b bytes before its end, the chip holds b bytes before its pointer.
LEMMA QueueCell ==
  ASSUME RxInv, mode # "closed", NEW b \in 1 .. Unread
  PROVE  /\ Queue[Unread - b + 1] = mem[CellAt(wr - b)]
         /\ b >= 2 => Queue[Unread - b + 2] = mem[CellAt(wr - b + 1)]
<1>1. /\ Unread \in Nat /\ wr \in Int /\ rd \in Int
      /\ Queue = Cells(mem, base[me], size[me], rd, Unread)
  BY OpenCounts DEF Queue
<1>2. Queue[Unread - b + 1] = mem[Place(base[me], size[me], rd + (Unread - b + 1) - 1)]
  BY <1>1 DEF Cells
<1>3. b >= 2 =>
        Queue[Unread - b + 2] = mem[Place(base[me], size[me], rd + (Unread - b + 2) - 1)]
  BY <1>1 DEF Cells
<1>4. Place(base[me], size[me], wr + (-b)) = Place(base[me], size[me], rd + (Unread + (-b)))
  BY PlacesFromReader
<1>5. Place(base[me], size[me], wr + (1 - b)) =
        Place(base[me], size[me], rd + (Unread + (1 - b)))
  BY PlacesFromReader
<1>6. /\ rd + (Unread - b + 1) - 1 = rd + (Unread + (-b))
      /\ rd + (Unread - b + 2) - 1 = rd + (Unread + (1 - b))
      /\ wr - b = wr + (-b) /\ wr - b + 1 = wr + (1 - b)
  BY <1>1
<1> QED
  BY <1>2, <1>3, <1>4, <1>5, <1>6 DEF CellAt, Place

\* Of natural numbers there is a smallest.
LEMMA Smallest ==
  ASSUME NEW S \in SUBSET Nat, S # {}
  PROVE  \E x \in S : \A y \in S : x <= y
<1>1. \E x \in S : \A y \in S : ~ << y, x >> \in OpToRel(<, Nat)
  BY NatLessThanWellFounded, WFMin
<1>2. PICK x \in S : \A y \in S : ~ << y, x >> \in OpToRel(<, Nat)
  BY <1>1
<1>3. \A y \in S : << y, x >> \in OpToRel(<, Nat) <=> y < x
  BY DEF OpToRel
<1>4. \A y \in S : ~ y < x
  BY <1>2, <1>3, Zenon
<1> QED
  BY <1>4

\* A queue that ends in whole datagrams is a ring that does.
LEMMA WholeFromQueue ==
  ASSUME RxInv, mode # "closed", NEW k \in 0 .. Unread, Datagrams(Queue, k)
  PROVE  Whole[k]
<1>1. /\ Unread \in Nat /\ Len(Queue) = Unread /\ Header = 2
      /\ Unread <= 8 * Unit /\ Unit \in Nat
  BY OpenCounts, OpenRing, QueueIs, MapAssumption, RxAssumption
<1>2. PICK B \in SUBSET (0 .. k) : k \in B /\ Headers(Queue, B)
  BY DEF Datagrams
<1> DEFINE bad == { b \in B : ~Whole[b] }
<1>3. SUFFICES ASSUME bad # {} PROVE FALSE
  BY <1>2
<1>4. PICK b \in bad : \A y \in bad : b <= y
  <2>1. B \in SUBSET Nat
    BY <1>1
  <2>2. bad \in SUBSET Nat
    BY <2>1
  <2> HIDE DEF bad
  <2> QED
    BY <1>3, <2>2, Smallest
<1>5. b \in B /\ ~Whole[b] /\ b \in 0 .. Unread /\ b \in 0 .. 8 * Unit
  BY <1>1, <1>2, <1>4
<1>6. ~HeadAt(Whole, b)
  BY <1>5, WholeIs
<1>7. b # 0
  BY <1>6 DEF HeadAt
<1> DEFINE len == mem[CellAt(wr - b + 1)]
<1>8. /\ b >= Header /\ Queue[Unread - b + 1] \in Sender
      /\ Queue[Unread - b + 2] \in 0 .. MaxData /\ Queue[Unread - b + 2] <= b - Header
      /\ b - Header - Queue[Unread - b + 2] \in B
  BY <1>1, <1>2, <1>5, <1>7 DEF Headers
<1>9. Queue[Unread - b + 1] = mem[CellAt(wr - b)] /\ Queue[Unread - b + 2] = len
  BY <1>1, <1>5, <1>7, <1>8, QueueCell
<1>10. /\ b >= Header /\ mem[CellAt(wr - b)] \in Sender
       /\ len \in 0 .. MaxData /\ len <= b - Header /\ b - Header - len \in B
  BY <1>8, <1>9
<1> HIDE DEF len
<1>11. len \in 0 .. b - Header /\ b - Header - len < b /\ b - Header - len \in Int
  BY <1>1, <1>5, <1>10, RxAssumption
<1>12. Whole[b - Header - len]
  BY <1>4, <1>5, <1>10, <1>11
<1> QED
  BY <1>6, <1>10, <1>11, <1>12 DEF HeadAt, len

LEMMA RxInvFrames == RxInv => Framed
<1> SUFFICES ASSUME RxInv, mode = "UDP"
             PROVE  left <= Unread /\ Whole[Unread - left]
  BY DEF Framed
<1>1. left <= Unread /\ Datagrams(Queue, Unread - left)
  BY DEF RxInv, Placed
<1>2. Unread - left \in 0 .. Unread
  BY <1>1, OpenCounts, RxAssumption DEF RxInv, TypeOK
<1> QED
  BY <1>1, <1>2, WholeFromQueue

-----------------------------------------------------------------------------
(* Theorems. *)

\* The pointers of the receive side stay 16-bit pointers, no size read or answered exceeds
\* a buffer, and what a call hands over fits one (ASocket.cpp:233-276).
THEOREM RxTypes == Spec => []TypeOK
<1>1. RxInv => TypeOK
  BY DEF RxInv
<1> QED
  BY <1>1, RxInvariant, PTL

\* The same of the layout while sockets are opened, read and closed on it: no step of the
\* receive path disturbs it.
THEOREM LayoutStays == Spec => []LayoutSound
<1>1. RxInv => LayoutSound
  BY MapInvIsSound DEF RxInv
<1> QED
  BY <1>1, RxInvariant, PTL

\* A reader of datagrams finds, behind what is left of the datagram it is in, the header of
\* the next: beginRecvUDP() and recvfrom() never take data for a header, whatever arrives
\* between their steps and wherever ring and pointers wrap (ASocket.cpp:398-412,
\* socket.c:412-434).
THEOREM NeverLosesPlace == Spec => []Framed
BY RxInvFrames, RxInvariant, PTL

\* The ring between the pointers is the queue of InboundStream: a read, also one in two
\* runs across the end of the buffer, hands over the next bytes that arrived, each once and
\* in order, and none of another socket, for a memory of any layout, a ring of any size and
\* pointers of any width (ASocket.cpp:247-276, w5100.c:824-846).
THEOREM InboundImplemented == Spec => ImplementsStream
<1>1. Init => Stream!Init
  BY DEF Init, Stream!Init
<1>2. RxInv /\ [Next]_vars =>
        [Stream!Next]_<< IF mode = "closed" THEN << >>
                         ELSE [k \in 1 .. Unread |-> mem[CellAt(rd + k - 1)]],
                         asked, got >>
  BY StepKeeps, StreamMaps DEF Kept
<1> QED
  BY <1>1, <1>2, RxInvariant, PTL DEF Spec, ImplementsStream, Stream!Spec
=============================================================================
