------------------------------ MODULE BufferMap ------------------------------
(***************************************************************************)
(* How sysinit() of utility/w5100.c divides the buffer memory of the chip  *)
(* among its sockets ("channels").  A two-bit code per channel asks for    *)
(* Unit, 2 Unit, 4 Unit or 8 Unit bytes; the loop goes over the channels,  *)
(* gives each a size while the sizes given so far leave something, and a   *)
(* base address behind the channel before it.  The code does the same for  *)
(* the transmit and for the receive memory.                                *)
(***************************************************************************)
EXTENDS Integers

CONSTANTS
  NumChan,      \* MAX_SOCK_NUM
  Unit,         \* 1024
  Total,        \* 8192: the bytes of the memory
  First         \* __DEF_IINCHIP_MAP_RXBUF__: its address

ASSUME MapAssumption ==
  /\ NumChan \in Nat \ {0}
  /\ Unit \in Nat \ {0}
  /\ Total \in Nat \ {0}
  /\ First \in Nat

Chan == 0 .. NumChan - 1
Code == 0 .. 3

VARIABLES
  code,         \* the argument: the two bits of each channel
  i,            \* the channel the loop has come to
  sum,          \* rsum: the bytes given away
  size,         \* RSIZE (the mask is size - 1)
  base          \* RBUFBASEADDRESS

map == << code, i, sum, size, base >>

MapTypeOK ==
  /\ code \in [Chan -> Code]
  /\ i \in 0 .. NumChan
  /\ sum \in Nat
  /\ size \in [Chan -> Nat]
  /\ base \in [Chan -> Nat]

\* Static variables are zero; the first base address is set before the loop.
MapInit ==
  /\ code \in [Chan -> Code]
  /\ i = 0
  /\ sum = 0
  /\ size = [s \in Chan |-> 0]
  /\ base = [s \in Chan |-> IF s = 0 THEN First ELSE 0]

\* The switch over the code.
SizeOf(c) == CASE c = 0 -> Unit
               [] c = 1 -> 2 * Unit
               [] c = 2 -> 4 * Unit
               [] OTHER -> 8 * Unit

\* Mutant: a base address behind the size of the channel itself.
sysinitStep_OwnSize ==
  LET given == IF sum < Total THEN SizeOf(code[i]) ELSE 0 IN
    /\ i < NumChan
    /\ size' = [size EXCEPT ![i] = given]
    /\ sum' = sum + given
    /\ base' = IF i = 0 THEN base ELSE [base EXCEPT ![i] = base[i - 1] + given]
    /\ i' = i + 1
    /\ UNCHANGED code

\* One round of the loop.
sysinitStep ==
  LET given == IF sum < Total THEN SizeOf(code[i]) ELSE 0 IN
    /\ i < NumChan
    /\ size' = [size EXCEPT ![i] = given]
    /\ sum' = sum + given
    /\ base' = IF i = 0 THEN base ELSE [base EXCEPT ![i] = base[i - 1] + size[i - 1]]
    /\ i' = i + 1
    /\ UNCHANGED code

sysinitSpec == MapInit /\ [][sysinitStep]_map

-----------------------------------------------------------------------------
\* The channels laid out so far do not overlap; one that has a buffer has it begin inside
\* the memory; and unless more was asked for than there is ("sum of memory size shouldn't
\* exceed 8Kbytes", w5100.c:356) every buffer also ends inside it.
LayoutSound ==
  \A k \in 0 .. i - 1 :
    /\ \A j \in 0 .. k - 1 : base[j] + size[j] <= base[k]
    /\ First <= base[k]
    /\ size[k] > 0 => base[k] < First + Total
    /\ sum <= Total => base[k] + size[k] <= First + Total
=============================================================================
