------------------------------ MODULE MCLookup ------------------------------
(* Instances of Lookup for TLC. *)
EXTENDS Lookup

\* "aa.a.a" and "a"
MCNames == { << << 1, 1 >>, << 2 >>, << 3 >> >>, << << 1 >> >> }

Address(a) == [pointer |-> TRUE, type |-> TypeA, rdata |-> << a >>]
Alias(pointer) == [pointer |-> pointer, type |-> 5, rdata |-> << 1, 1, 7 >>]

\* An address; an alias and two addresses; an alias alone; no such name; too many records.
MCDnsReplies ==
  { [rcode |-> 0, records |-> << Address(2) >>],
    [rcode |-> 0, records |-> << Alias(FALSE), Address(3), Address(4) >>],
    [rcode |-> 0, records |-> << Alias(TRUE) >>],
    [rcode |-> 3, records |-> << >>],
    [rcode |-> 0, records |-> << Address(1), Address(2), Address(3), Address(4) >>] }

\* 1970 to 2037
MCYears == 0 .. 67

\* Memory never written; and written over with lengths, on which a name is walked for ever
\* from an even place, while from an odd one there is a pointer.
Cells == 1 .. 40
MCRings == { [k \in Cells |-> 0], [k \in Cells |-> IF k % 10 = 3 THEN 7 ELSE 1] }
=============================================================================
