---------------------------- MODULE DnsMessage ------------------------------
(***************************************************************************)
(* The messages of Ethernet/Dns.cpp: how resolve() writes the question,    *)
(* and how finished() and dumpName() go through an answer.                 *)
(*                                                                         *)
(* What is special about a byte is given by CONSTANTS, so that a cell can  *)
(* be a byte or smaller.  Fields the code only passes over are shortened:  *)
(* a header is two cells (flags and return code, number of answers), type  *)
(* and class of the question one cell, the head of a record two (type,     *)
(* length), an address one.                                                *)
(***************************************************************************)
EXTENDS Integers, SequencesExt

CONSTANTS
  Half,         \* counts are negative from here on: 0x80
  Pointer,      \* a byte of a name begins a pointer from here on: 0xc0
  Rcodes,       \* the return codes are below, flags above: 0x10
  Dot           \* '.'

ASSUME DnsAssumption ==
  /\ Half \in Nat \ {0}
  /\ Pointer \in 2 .. 2 * Half - 1
  /\ Rcodes \in Nat \ {0}
  /\ \A rcode \in 0 .. Rcodes - 1 : (Half + rcode) % Rcodes = rcode
  /\ Dot \in 1 .. 2 * Half - 1

Byte == 0 .. 2 * Half - 1
TypeA == 1

\* The labels of a name, and the records of an answer: a label is shorter than a pointer
\* is large, and a record of type A has an address.
Label == { l \in Seq(Byte \ {0, Dot}) : Len(l) \in 1 .. Pointer - 1 }
Record == { r \in [pointer : BOOLEAN, type : Byte, rdata : Seq(Byte)] :
              Len(r.rdata) \in Byte /\ (r.type = TypeA => r.rdata # << >>) }

-----------------------------------------------------------------------------
(* The question. *)

\* The loop over the characters (x counts from 0, n is domain_len when a round begins):
\* a dot, or the end of the string, ends a label, and the round moves x past it.
QName(domain) ==
  LET loop[s \in [x : Nat, n : Nat]] ==
        CASE s.x > Len(domain) -> << >>
          [] s.x <= Len(domain) /\ (s.x = Len(domain) \/ domain[s.x + 1] = Dot) ->
               (<< s.n + 1 >> \o SubSeq(domain, s.x - s.n, s.x)) \o loop[[x |-> s.x + 2, n |-> 0]]
          [] OTHER -> loop[[x |-> s.x + 1, n |-> s.n + 1]]
  IN loop[[x |-> 1, n |-> 0]]

\* The root label, and type A, class IN.
Question(domain) == QName(domain) \o << 0, TypeA >>

\* What the string and the question are to be, from the labels of a name.
Dotted(labels) == FlattenSeq([k \in 1 .. Len(labels) |->
                     IF k = 1 THEN labels[k] ELSE << Dot >> \o labels[k]])
WireName(labels) == FlattenSeq([k \in 1 .. Len(labels) |-> << Len(labels[k]) >> \o labels[k]])
                      \o << 0 >>

-----------------------------------------------------------------------------
(* What a server sends: a return code and records, each with an owner (the *)
(* name again, or a pointer), a type and its data.                         *)

RecordCells(r, labels) ==
  (IF r.pointer THEN << Pointer, 2 >> ELSE WireName(labels))
    \o (<< r.type, Len(r.rdata) >> \o r.rdata)

AnswerCells(rcode, records, labels) ==
  << Half + rcode, Len(records) >> \o WireName(labels) \o << TypeA >>
    \o FlattenSeq([k \in 1 .. Len(records) |-> RecordCells(records[k], labels)])

-----------------------------------------------------------------------------
(* Reading.  t is the memory of the socket, from the first cell of the     *)
(* message on and round to it again: read() does not stop where the        *)
(* message ends, and goes on through what was received before.             *)

At(t, k) == t[((k - 1) % Len(t)) + 1]

\* No cell: dumpName() does not leave off.
Never == 0

\* Mutant: the second byte of a pointer is not skipped.
dumpName_ShortPointer(t, first) ==
  LET from[s \in [left : 0 .. Len(t), k : Nat]] ==
        CASE At(t, s.k) = 0 -> s.k + 1
          [] At(t, s.k) >= Pointer -> s.k + 1
          [] OTHER -> IF s.left = 0 THEN Never
                      ELSE from[[left |-> s.left - 1, k |-> s.k + 1 + At(t, s.k)]]
  IN from[[left |-> Len(t), k |-> first]]

\* Mutant: a pointer is taken for a length.
dumpName_NoPointer(t, first) ==
  LET from[s \in [left : 0 .. Len(t), k : Nat]] ==
        IF At(t, s.k) = 0 THEN s.k + 1
        ELSE IF s.left = 0 THEN Never
        ELSE from[[left |-> s.left - 1, k |-> s.k + 1 + At(t, s.k)]]
  IN from[[left |-> Len(t), k |-> first]]

\* Where dumpName() leaves off that begins at a cell: behind a zero or a pointer.  If it has
\* read more cells than there are and none was either, it comes to the same ones again.
dumpName(t, first) ==
  LET from[s \in [left : 0 .. Len(t), k : Nat]] ==
        CASE At(t, s.k) = 0 -> s.k + 1
          [] At(t, s.k) >= Pointer -> s.k + 2
          [] OTHER -> IF s.left = 0 THEN Never
                      ELSE from[[left |-> s.left - 1, k |-> s.k + 1 + At(t, s.k)]]
  IN from[[left |-> Len(t), k |-> first]]

\* int8_t answer_count
Signed(n) == IF n >= Half THEN n - 2 * Half ELSE n

\* The code of a finished() that never returns.
Endless == -1

\* The loop over the answers: the address of the first A record, or the code 2.
Answers(t, answer_count, first) ==
  LET loop[s \in [n : - Half .. Half, k : Nat]] ==
        LET head == dumpName(t, s.k) IN
          CASE s.n <= 0 -> [code |-> 2, answer |-> 0]
            [] s.n > 0 /\ head = Never -> [code |-> Endless, answer |-> 0]
            [] s.n > 0 /\ head # Never /\ At(t, head) = TypeA ->
                 [code |-> 1, answer |-> At(t, head + 2)]
            [] OTHER -> loop[[n |-> s.n - 1, k |-> head + 2 + At(t, head + 1)]]
  IN loop[[n |-> answer_count, k |-> first]]

\* finished() on a datagram: code 0x10 + rcode for an error, or what the answers say.
Parse(t) ==
  LET rcode == t[1] % Rcodes
      question == dumpName(t, 3)
  IN CASE rcode # 0 -> [code |-> 16 + rcode, answer |-> 0]
       [] rcode = 0 /\ question = Never -> [code |-> Endless, answer |-> 0]
       [] OTHER -> Answers(t, Signed(t[2]), question + 1)
=============================================================================
