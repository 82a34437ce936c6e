----------------------------- MODULE DhcpProofs -----------------------------
(***************************************************************************)
(* What a lease of Dhcp rests on, for any servers, addresses and bounds;   *)
(* and that DhcpClient, which reads a server's message byte for byte, is   *)
(* the same client: the loop of the parser passes the options one by one.  *)
(***************************************************************************)
EXTENDS DhcpClient, SequenceTheorems, FiniteSetTheorems, WellFoundedInduction, TLAPS

-----------------------------------------------------------------------------
(* Where the thread is, and how many transactions there have been. *)

Control ==
  /\ at = "idle" => state = "START" /\ type = "none"
  /\ at # "idle" => xid <= MaxXid
  /\ at = "loop" => type # "timeout" /\ state # "LEASED" /\ (state = "START" => xid < MaxXid)
  /\ at = "act" => type # "timeout" /\ state \in {"DISCOVER", "REQUEST"}
  /\ at = "test" => ((type = "timeout" \/ state = "START") => Restartable)
  /\ state = "LEASED" => at \in {"test", "end"}

\* The thread stays within Control, and transactions within their bound.
LEMMA ControlStep ==
  ASSUME TypeOK, Control, [Next]_vars
  PROVE  Control' /\ xid' \in Xid
<1> USE DhcpAssumption DEF Control, Restartable
<1>1. xid \in Nat /\ MaxXid \in Nat /\ xid <= MaxXid + 1
  BY DEF TypeOK, Xid
<1>2. CASE BeginWithDHCP
  BY <1>1, <1>2 DEF BeginWithDHCP, Xid
<1>3. CASE Discover
  BY <1>1, <1>3 DEF Discover, Xid
<1>4. CASE HandleOffer \/ HandleAck \/ HandleNak \/ HandleOther
  BY <1>1, <1>4 DEF HandleOffer, HandleAck, HandleNak, HandleOther, Xid
<1>5. CASE Test
  BY <1>1, <1>5 DEF Test, Xid, TypeOK
<1>6. CASE Finish
  BY <1>1, <1>6 DEF Finish, Xid
<1>7. CASE ReplyTimeout
  BY <1>1, <1>7 DEF ReplyTimeout, Waiting, Xid
<1>8. CASE ReadStray \/ ReadForeign
  BY <1>1, <1>8 DEF ReadStray, ReadForeign, Waiting, Xid
<1>9. CASE ReadOurs
  <2>1. Head(rx) \in Reply
    BY <1>9 DEF ReadOurs, Ours, TypeOK
  <2> QED
    BY <1>1, <1>9, <2>1 DEF ReadOurs, Waiting, Xid, Reply
<1>10. CASE Serve \/ Arrive
  BY <1>1, <1>10 DEF Serve, Arrive, client, Xid
<1>11. CASE Expire
  BY <1>1, <1>11 DEF Expire, client, Xid
<1>12. CASE UNCHANGED vars
  BY <1>1, <1>12 DEF vars, Xid
<1> QED
  BY <1>2, <1>3, <1>4, <1>5, <1>6, <1>7, <1>8, <1>9, <1>10, <1>11, <1>12 DEF Next, Run

-----------------------------------------------------------------------------
(* What the client has heard. *)

\* What waits in the buffer was sent.
RxSent == \A i \in 1 .. Len(rx) : rx[i] \in msgs \cup {Foreign, Stray}

\* A reply being acted upon was sent in this transaction, and carried the address.
ReplyHeard ==
  (at = "act" /\ type # "none") =>
    /\ serverIp # None
    /\ \E m \in msgs : /\ m \in Reply /\ m.type = type /\ m.xid = xid /\ m.ip = localIp
                      /\ (type # "NAK" => m.from = conf)

\* A lease in hand is one that a server has granted.
LeaseHeard ==
  state = "LEASED" => \E a \in msgs : /\ a \in Reply /\ a.type = "ACK" /\ a.xid = xid
                                     /\ a.ip = localIp /\ a.from = conf

Offering(s) == \E o \in msgs : o.type = "OFFER" /\ o.from = s

\* Nobody answers, and nobody is remembered, who has not made an offer before.
OfferFirst ==
  /\ \A a \in msgs : a.type \in {"ACK", "NAK"} => Offering(a.from)
  /\ serverIp # None => Offering(serverIp)

\* The chip has no address during a call.
Unaddressed == at # "idle" => chip = Unset

Learnt == RxSent /\ ReplyHeard /\ LeaseHeard /\ OfferFirst /\ Unaddressed
         /\ LeaseTrue /\ RequestTrue

\* Messages that are added take nothing from what is known.
LEMMA MoreMessages ==
  ASSUME Learnt, UNCHANGED << client, expired, torn >>, msgs \subseteq msgs',
         UNCHANGED rx \/ \E m \in msgs \cup {Foreign, Stray} : rx' = Append(rx, m),
         TypeOK,
         \A r \in msgs' \ msgs : r.type \in {"OFFER", "ACK", "NAK"},
         \A a \in msgs' \ msgs : a.type \in {"ACK", "NAK"} => Offering(a.from)
  PROVE  Learnt'
<1> USE DEF Learnt
<1>1. RxSent'
  <2>1. CASE UNCHANGED rx
    BY <2>1 DEF RxSent
  <2>2. CASE \E m \in msgs \cup {Foreign, Stray} : rx' = Append(rx, m)
    BY <2>2 DEF RxSent, TypeOK
  <2> QED
    BY <2>1, <2>2
<1>2. \A s : Offering(s) => Offering(s)'
  BY DEF Offering
<1>3. ReplyHeard' /\ LeaseHeard' /\ Unaddressed' /\ LeaseTrue'
  BY DEF ReplyHeard, LeaseHeard, Unaddressed, LeaseTrue, client
<1>4. OfferFirst'
  BY <1>2 DEF OfferFirst, client
<1>5. RequestTrue'
  BY DEF RequestTrue
<1> QED
  BY <1>1, <1>3, <1>4, <1>5

\* A step in which the client sends nothing and no message is added.
LEMMA QuietStep ==
  ASSUME Learnt, TypeOK, Control, UNCHANGED msgs,
         RxSent', ReplyHeard', LeaseHeard',
         serverIp' = None \/ Offering(serverIp'),
         Unaddressed', LeaseTrue'
  PROVE  Learnt'
<1>1. \A s : Offering(s)' <=> Offering(s)
  BY DEF Offering
<1>2. OfferFirst' /\ RequestTrue'
  BY <1>1 DEF Learnt, OfferFirst, RequestTrue
<1> QED
  BY <1>2 DEF Learnt

\* What has been learnt stays true, whatever the step.
LEMMA KnownStep ==
  ASSUME TypeOK, Control, Learnt, [Next]_vars
  PROVE  Learnt'
<1> USE DEF Learnt
<1>1. CASE BeginWithDHCP
  <2>1. RxSent' /\ ReplyHeard' /\ LeaseHeard'
    BY <1>1 DEF BeginWithDHCP, RxSent, ReplyHeard, LeaseHeard, Control
  <2>2. Unaddressed' /\ LeaseTrue'
    BY <1>1 DEF BeginWithDHCP, Unaddressed, LeaseTrue, Unset
  <2> QED
    BY <1>1, <2>1, <2>2, QuietStep DEF BeginWithDHCP
<1>2. CASE Discover
  <2>1. msgs' = msgs \cup {[type |-> "DISCOVER", xid |-> xid']}
    BY <1>2 DEF Discover, SendMessage
  <2>2. \A s : Offering(s) => Offering(s)'
    BY <2>1 DEF Offering
  <2>3. RxSent' /\ ReplyHeard' /\ LeaseHeard' /\ RequestTrue'
    BY <1>2, <2>1 DEF Discover, RxSent, ReplyHeard, LeaseHeard, RequestTrue
  <2>4. OfferFirst'
    BY <1>2, <2>1, <2>2 DEF Discover, OfferFirst
  <2>5. Unaddressed' /\ LeaseTrue'
    BY <1>2 DEF Discover, Unaddressed, LeaseTrue, Unset
  <2> QED
    BY <2>3, <2>4, <2>5
<1>3. CASE HandleOffer
  <2> DEFINE r == [type |-> "REQUEST", xid |-> xid, ip |-> localIp, server |-> serverIp]
  <2>1. msgs' = msgs \cup {r}
    BY <1>3 DEF HandleOffer, SendMessage
  <2>2. \A s : Offering(s) => Offering(s)'
    BY <2>1 DEF Offering
  <2>3. serverIp # None /\ \E o \in msgs : o.type = "OFFER" /\ o.xid = xid /\ o.ip = localIp
    BY <1>3 DEF HandleOffer, ReplyHeard
  <2>4. \E o \in msgs : o.type = "OFFER" /\ o.from = serverIp
    BY <2>3 DEF OfferFirst, Offering
  <2>5. RequestTrue'
    BY <2>1, <2>3, <2>4 DEF RequestTrue
  <2>6. OfferFirst'
    BY <1>3, <2>1, <2>2 DEF HandleOffer, OfferFirst
  <2>7. RxSent' /\ ReplyHeard' /\ LeaseHeard'
    BY <1>3, <2>1 DEF HandleOffer, RxSent, ReplyHeard, LeaseHeard
  <2>8. Unaddressed' /\ LeaseTrue'
    BY <1>3, <2>1 DEF HandleOffer, Unaddressed, LeaseTrue, Unset
  <2> QED
    BY <2>5, <2>6, <2>7, <2>8
<1>4. CASE HandleAck
  <2>1. LeaseHeard'
    BY <1>4 DEF HandleAck, LeaseHeard, ReplyHeard
  <2>2. RxSent' /\ ReplyHeard' /\ Unaddressed' /\ LeaseTrue'
    BY <1>4 DEF HandleAck, RxSent, ReplyHeard, Unaddressed, LeaseTrue
  <2> QED
    BY <1>4, <2>1, <2>2, QuietStep DEF HandleAck, OfferFirst
<1>5. CASE HandleNak \/ HandleOther \/ Test \/ ReplyTimeout
  <2>1. /\ UNCHANGED << xid, localIp, serverIp, conf, chip, rx, msgs >>
        /\ at \in {"act", "test", "loop"} /\ at' \in {"test", "loop", "end"}
        /\ state' \in {state, "START"}
    BY <1>5 DEF HandleNak, HandleOther, Test, ReplyTimeout, Waiting
  <2>2. RxSent' /\ ReplyHeard' /\ LeaseHeard' /\ Unaddressed' /\ LeaseTrue'
    BY <2>1 DEF RxSent, ReplyHeard, LeaseHeard, Unaddressed, LeaseTrue
  <2> QED
    BY <2>1, <2>2, QuietStep DEF OfferFirst
<1>6. CASE Finish
  <2>1. LeaseTrue'
    BY <1>6 DEF Finish, LeaseTrue, LeaseHeard, Unaddressed, Unset
  <2>2. RxSent' /\ ReplyHeard' /\ LeaseHeard' /\ Unaddressed'
    BY <1>6 DEF Finish, RxSent, ReplyHeard, LeaseHeard, Unaddressed
  <2> QED
    BY <1>6, <2>1, <2>2, QuietStep DEF Finish, OfferFirst
<1>7. CASE ReadStray \/ ReadForeign
  <2>1. /\ UNCHANGED << state, xid, localIp, serverIp, conf, chip, msgs >>
        /\ at = "loop" /\ at' = "act" /\ type' = "none"
        /\ rx' \in {rx, << >>}
    BY <1>7 DEF ReadStray, ReadForeign, Waiting, Flush
  <2>2. RxSent' /\ ReplyHeard' /\ LeaseHeard' /\ Unaddressed' /\ LeaseTrue'
    BY <2>1 DEF RxSent, ReplyHeard, LeaseHeard, Unaddressed, LeaseTrue
  <2> QED
    BY <2>1, <2>2, QuietStep DEF OfferFirst
<1>8. CASE ReadOurs
  <2> DEFINE m == Head(rx)
  <2>1. m \in Reply /\ m.xid = xid /\ m \in msgs
    BY <1>8 DEF ReadOurs, Ours, TypeOK, RxSent
  <2>2. m.from \in Server /\ m.type \in {"OFFER", "ACK", "NAK"}
    BY <2>1 DEF Reply
  <2>3. Offering(m.from)
    BY <2>1, <2>2 DEF OfferFirst, Offering
  <2>4. serverIp' # None /\ Offering(serverIp')
    BY <1>8, <2>2, <2>3, DhcpAssumption DEF ReadOurs, OfferFirst
  <2>5. ReplyHeard'
    BY <1>8, <2>1, <2>2, <2>4 DEF ReadOurs, ReplyHeard
  <2>6. RxSent' /\ LeaseHeard' /\ Unaddressed' /\ LeaseTrue'
    BY <1>8 DEF ReadOurs, Waiting, Flush, RxSent, LeaseHeard, Unaddressed, LeaseTrue
  <2> QED
    BY <1>8, <2>4, <2>5, <2>6, QuietStep DEF ReadOurs
<1>9. CASE Serve
  <2>1. PICK s \in Server : Offer(s) \/ Answer(s)
    BY <1>9 DEF Serve
  <2>2. CASE Offer(s)
    <3>1. PICK d \in msgs, ip \in Pool[s] :
            msgs' = msgs \cup {[type |-> "OFFER", xid |-> d.xid, from |-> s, ip |-> ip]}
      BY <2>2 DEF Offer, SendMessage
    <3> QED
      BY <1>9, <3>1, MoreMessages DEF Serve
  <2>3. CASE Answer(s)
    <3>1. PICK r \in msgs, t \in {"ACK", "NAK"} :
            /\ r.type = "REQUEST" /\ r.server = s
            /\ msgs' = msgs \cup {[type |-> t, xid |-> r.xid, from |-> s, ip |-> r.ip]}
      BY <2>3 DEF Answer, SendMessage
    <3>2. Offering(s)
      BY <3>1 DEF RequestTrue, Offering
    <3> QED
      BY <1>9, <3>1, <3>2, MoreMessages DEF Serve
  <2> QED
    BY <2>1, <2>2, <2>3
<1>10. CASE Arrive
  BY <1>10, MoreMessages DEF Arrive
<1>11. CASE Expire \/ UNCHANGED vars
  <2>1. UNCHANGED << client, rx, msgs >>
    BY <1>11 DEF Expire, vars, client
  <2>2. RxSent' /\ ReplyHeard' /\ LeaseHeard' /\ Unaddressed' /\ LeaseTrue'
    BY <2>1 DEF client, RxSent, ReplyHeard, LeaseHeard, Unaddressed, LeaseTrue
  <2> QED
    BY <2>1, <2>2, QuietStep DEF client, OfferFirst
<1> QED
  BY <1>1, <1>2, <1>3, <1>4, <1>5, <1>6, <1>7, <1>8, <1>9, <1>10, <1>11 DEF Next, Run

-----------------------------------------------------------------------------
(* Types, which need both: what a client asks for has been heard. *)

\* The empty sequence is one of anything.
LEMMA EmptyBuffer == \A S : << >> \in Seq(S)
  OBVIOUS

\* No step leaves the types; those of what is asked for and written rest on what was learnt.
LEMMA TypeStep ==
  ASSUME TypeOK, Control, Learnt, [Next]_vars
  PROVE  TypeOK'
<1> USE DEF TypeOK
<1>1. xid' \in Xid
  BY ControlStep
<1>2. CASE BeginWithDHCP
  BY <1>1, <1>2 DEF BeginWithDHCP, Unset
<1>3. CASE Discover
  BY <1>1, <1>3 DEF Discover, SendMessage, Message
<1>4. CASE HandleOffer
  <2>1. localIp \in Address /\ serverIp \in Server
    BY <1>4 DEF HandleOffer, Learnt, ReplyHeard, Reply
  <2> QED
    BY <1>1, <1>4, <2>1 DEF HandleOffer, SendMessage, Message
<1>5. CASE HandleAck \/ HandleNak \/ HandleOther \/ Test \/ ReplyTimeout
  BY <1>1, <1>5 DEF HandleAck, HandleNak, HandleOther, Test, ReplyTimeout
<1>6. CASE Finish
  BY <1>1, <1>6, EmptyBuffer DEF Finish
<1>7. CASE ReadStray \/ ReadForeign
  BY <1>1, <1>7, EmptyBuffer DEF ReadStray, ReadForeign, Flush
<1>8. CASE ReadOurs
  <2>1. Head(rx) \in Reply
    BY <1>8 DEF ReadOurs, Ours
  <2> QED
    BY <1>1, <1>8, <2>1, EmptyBuffer DEF ReadOurs, Flush, Reply
<1>9. CASE Serve
  <2>1. UNCHANGED << client, expired, rx, torn >>
    BY <1>9 DEF Serve
  <2>2. PICK s \in Server : Offer(s) \/ Answer(s)
    BY <1>9 DEF Serve
  <2>3. msgs' \subseteq Message
    <3>1. CASE Offer(s)
      <4>1. PICK d \in msgs, ip \in Pool[s] :
              /\ d.type = "DISCOVER"
              /\ msgs' = msgs \cup {[type |-> "OFFER", xid |-> d.xid, from |-> s, ip |-> ip]}
        BY <3>1 DEF Offer, SendMessage
      <4>2. d.xid \in Xid /\ ip \in Address
        BY <2>2, <4>1, DhcpAssumption DEF Message, Reply
      <4> QED
        BY <2>2, <4>1, <4>2 DEF Message, Reply
    <3>2. CASE Answer(s)
      <4>1. PICK r \in msgs, t \in {"ACK", "NAK"} :
              /\ r.type = "REQUEST"
              /\ msgs' = msgs \cup {[type |-> t, xid |-> r.xid, from |-> s, ip |-> r.ip]}
        BY <3>2 DEF Answer, SendMessage
      <4>2. r.xid \in Xid /\ r.ip \in Address
        BY <4>1 DEF Message, Reply
      <4> QED
        BY <2>2, <4>1, <4>2 DEF Message, Reply
    <3> QED
      BY <2>2, <3>1, <3>2
  <2> QED
    BY <2>1, <2>3 DEF client
<1>10. CASE Arrive
  BY <1>10 DEF Arrive, client
<1>11. CASE Expire
  BY <1>11 DEF Expire, client
<1>12. CASE UNCHANGED vars
  BY <1>12 DEF vars
<1> QED
  BY <1>2, <1>3, <1>4, <1>5, <1>6, <1>7, <1>8, <1>9, <1>10, <1>11, <1>12 DEF Next, Run

-----------------------------------------------------------------------------
(* The theorems about Dhcp. *)

IInv == TypeOK /\ Control /\ Learnt

\* The invariant holds to begin with.
LEMMA InitInv == Init => IInv
<1> SUFFICES ASSUME Init PROVE IInv
  OBVIOUS
<1> USE DEF Init
<1>1. TypeOK
  <2>1. xid \in Xid
    BY DhcpAssumption DEF Xid
  <2>2. rx \in Seq(Reply \cup {Foreign, Stray})
    BY EmptyBuffer
  <2> QED
    BY <2>1, <2>2 DEF TypeOK, Unset
<1>2. Control
  BY DEF Control
<1>3. Learnt
  BY DEF Learnt, RxSent, ReplyHeard, LeaseHeard, OfferFirst, Unaddressed, LeaseTrue,
         RequestTrue, Unset
<1> QED
  BY <1>1, <1>2, <1>3 DEF IInv

\* Every step keeps it.
LEMMA InvStep == IInv /\ [Next]_vars => IInv'
BY ControlStep, KnownStep, TypeStep DEF IInv

\* So it holds throughout.
LEMMA Inductive == Spec => []IInv
BY InitInv, InvStep, PTL DEF Spec

\* The types of the variables; in particular every request names an address and a server,
\* never the zeros beginWithDHCP() starts with, and "timeout" is forgotten (Dhcp.cpp:77-81).
THEOREM TypesHold == Spec => []TypeOK
<1>1. IInv => TypeOK
  BY DEF IInv
<1> QED
  BY <1>1, Inductive, PTL

\* The address in the chip is one that a server has leased to this client in the last
\* transaction (Dhcp.cpp:65-72, 90-95, 253-259), for any number of servers, addresses
\* and messages.
THEOREM LeaseIsTrue == Spec => []LeaseTrue
<1>1. IInv => LeaseTrue
  BY DEF IInv, Learnt
<1> QED
  BY <1>1, Inductive, PTL

\* The client asks for what it was offered, and names a server that has made an offer
\* (Dhcp.cpp:178-196, 310-317).
THEOREM RequestIsTrue == Spec => []RequestTrue
<1>1. IInv => RequestTrue
  BY DEF IInv, Learnt
<1> QED
  BY <1>1, Inductive, PTL

-----------------------------------------------------------------------------
(* Induction along a sequence, for sets and for functions defined by recursion. *)

\* What holds at 0, and at the next place wherever it holds, holds everywhere.
LEMMA UpTo ==
  ASSUME NEW n \in Nat, NEW G, 0 \in G, \A k \in 1 .. n : k - 1 \in G => k \in G
  PROVE  \A k \in 0 .. n : k \in G
<1> DEFINE bad == { k \in 0 .. n : k \notin G }
<1>1. SUFFICES ASSUME bad # {} PROVE FALSE
  OBVIOUS
<1>2. bad \in SUBSET Nat
  OBVIOUS
<1>3. \E k \in bad : \A j \in bad : ~ << j, k >> \in OpToRel(<, Nat)
  <2> HIDE DEF bad
  <2> QED
    BY <1>1, <1>2, NatLessThanWellFounded, WFMin
<1>4. PICK k \in bad : \A j \in bad : ~ << j, k >> \in OpToRel(<, Nat)
  BY <1>3
<1>5. \A j \in bad : << j, k >> \in OpToRel(<, Nat) <=> j < k
  BY <1>2 DEF OpToRel
<1>6. \A j \in bad : ~ j < k
  BY <1>4, <1>5, Zenon
<1>7. k \in 1 .. n /\ k - 1 \in 0 .. n /\ k - 1 < k
  OBVIOUS
<1>8. k - 1 \in G
  BY <1>6, <1>7
<1> QED
  BY <1>7, <1>8

\* f is defined by recursion from x, and F takes the step.
Recursion(f, n, S, x, F) ==
  f \in [0 .. n -> S] /\ f[0] = x /\ \A k \in 1 .. n : f[k] = F[k][f[k - 1]]

\* There is such a function.
LEMMA Iterates ==
  ASSUME NEW n \in Nat, NEW S, NEW x \in S, NEW F \in [1 .. n -> [S -> S]]
  PROVE  \E f : Recursion(f, n, S, x, F)
<1> DEFINE Runs(m) == { f \in [0 .. m -> S] :
                          f[0] = x /\ \A k \in 1 .. m : f[k] = F[k][f[k - 1]] }
           G == { m \in 0 .. n : Runs(m) # {} }
<1>1. 0 \in G
  <2>1. [k \in 0 .. 0 |-> x] \in Runs(0)
    OBVIOUS
  <2> QED
    BY <2>1
<1>2. ASSUME NEW m \in 1 .. n, m - 1 \in G
      PROVE  m \in G
  <2>1. PICK f : f \in Runs(m - 1)
    BY <1>2
  <2> DEFINE g == [k \in 0 .. m |-> IF k = m THEN F[m][f[m - 1]] ELSE f[k]]
  <2>2. f \in [0 .. m - 1 -> S] /\ f[0] = x
        /\ \A k \in 1 .. m - 1 : f[k] = F[k][f[k - 1]]
    BY <2>1
  <2>3. g \in [0 .. m -> S]
    <3>1. f[m - 1] \in S /\ F[m] \in [S -> S]
      BY <2>2
    <3>2. F[m][f[m - 1]] \in S
      BY <3>1
    <3>3. ASSUME NEW k \in 0 .. m, k # m
          PROVE  f[k] \in S
      BY <2>2, <3>3
    <3> QED
      BY <3>2, <3>3
  <2>4. g[0] = x
    BY <2>2
  <2>5. ASSUME NEW k \in 1 .. m
        PROVE  g[k] = F[k][g[k - 1]]
    <3>1. k - 1 \in 0 .. m /\ k - 1 # m /\ g[k - 1] = f[k - 1]
      OBVIOUS
    <3>2. CASE k = m
      BY <3>1, <3>2
    <3>3. CASE k # m
      <4>1. k \in 1 .. m - 1
        BY <3>3
      <4>2. g[k] = f[k]
        BY <3>3
      <4> QED
        BY <2>2, <3>1, <4>1, <4>2
    <3> QED
      BY <3>2, <3>3
  <2>6. g \in Runs(m)
    <3> HIDE DEF g
    <3> QED
      BY <2>3, <2>4, <2>5
  <2> HIDE DEF Runs, g
  <2> QED
    BY <2>6
<1>3. n \in G
  <2> HIDE DEF G
  <2>1. \A k \in 0 .. n : k \in G
    BY <1>1, <1>2, UpTo
  <2> QED
    BY <2>1
<1> QED
  BY <1>3 DEF Recursion

-----------------------------------------------------------------------------
(* One option. *)

Bytes == 0 .. 255
FourBytes == [1 .. AddressLength -> Bytes]

\* What the loop of parseDHCPResponse() carries along.
Found == [p : Nat \ {0}, opt_len : Bytes, type : Bytes,
          conf : [Configured -> FourBytes], serverIp : FourBytes]

\* An option that can be sent.
Option == { o \in [code : Bytes, data : Seq(Bytes)] : Len(o.data) <= 255 }

\* What is read of a buffer is a byte.
LEMMA ByteIs ==
  ASSUME NEW buffer \in Seq(Bytes), NEW k \in Int
  PROVE  Byte(buffer, k) \in Bytes /\ AddressAt(buffer, k) \in FourBytes
<1>1. \A j \in Int : Byte(buffer, j) \in Bytes
  <2>1. padOption \in Bytes
    BY DEF padOption, Bytes
  <2>2. \A j \in DOMAIN buffer : buffer[j] \in Bytes
    OBVIOUS
  <2> QED
    BY <2>1, <2>2 DEF Byte
<1> QED
  BY <1>1 DEF AddressAt, FourBytes, AddressLength

\* One round of the parser's loop leaves the kinds of its variables alone and moves ahead.
LEMMA ReadOptionIs ==
  ASSUME NEW buffer \in Seq(Bytes), NEW h, NEW f \in Found, f.p <= Len(buffer)
  PROVE  ReadOption(buffer, h, f) \in Found
<1> DEFINE code == buffer[f.p]
           data == f.p + 2
           len == Byte(buffer, f.p + 1)
           passed == [f EXCEPT !.opt_len = len, !.p = data + len]
<1>1. /\ f.p \in Nat \ {0} /\ f.opt_len \in Bytes /\ f.type \in Bytes
      /\ f.conf \in [Configured -> FourBytes] /\ f.serverIp \in FourBytes
  BY DEF Found
<1>2. len \in Bytes /\ Byte(buffer, data) \in Bytes /\ AddressAt(buffer, data) \in FourBytes
  BY <1>1, ByteIs
<1> HIDE DEF code, len
<1>3. f.p + 1 + f.opt_len \in Nat \ {0} /\ data + len \in Nat \ {0}
  <2>1. \A x \in Bytes : x \in Nat
    BY DEF Bytes
  <2>2. f.p \in Nat \ {0} /\ f.opt_len \in Nat /\ len \in Nat
    BY <1>1, <1>2, <2>1
  <2> QED
    BY <2>2
<1> HIDE DEF data
<1>4. passed \in Found
  BY <1>1, <1>2, <1>3 DEF Found
<1>5. [f EXCEPT !.p = @ + 1 + f.opt_len] \in Found
  BY <1>1, <1>3 DEF Found
<1>6. [passed EXCEPT !.type = Byte(buffer, data)] \in Found
  BY <1>2, <1>4 DEF Found
<1>7. code \in Configured => [passed EXCEPT !.conf[code] = AddressAt(buffer, data)] \in Found
  BY <1>2, <1>4 DEF Found
<1>8. [passed EXCEPT !.serverIp = AddressAt(buffer, data)] \in Found
  BY <1>2, <1>4 DEF Found
<1> HIDE DEF passed
<1>9. ReadOption(buffer, h, f) =
        CASE code \in Single -> [f EXCEPT !.p = @ + 1 + f.opt_len]
          [] code = dhcpMessageType -> [passed EXCEPT !.type = Byte(buffer, data)]
          [] code \in Configured -> [passed EXCEPT !.conf[code] = AddressAt(buffer, data)]
          [] code = dhcpServerIdentifier /\ TakesServer(f.serverIp, h) ->
               [passed EXCEPT !.serverIp = AddressAt(buffer, data)]
          [] OTHER -> passed
  BY DEF ReadOption, code, data, len, passed
<1> QED
  BY <1>4, <1>5, <1>6, <1>7, <1>8, <1>9

\* f[k] is what is found after k rounds of the loop.
Rounds(f, buffer, h, config, server) ==
  /\ f \in [0 .. Len(buffer) -> Found]
  /\ f[0] = [p |-> 1, opt_len |-> 0, type |-> 0, conf |-> config, serverIp |-> server]
  /\ \A k \in 1 .. Len(buffer) :
       f[k] = IF f[k - 1].p <= Len(buffer) THEN ReadOption(buffer, h, f[k - 1]) ELSE f[k - 1]

\* Parse is the loop, and leaves what its last round finds.
LEMMA ParseRuns ==
  ASSUME NEW buffer \in Seq(Bytes), NEW h,
         NEW config \in [Configured -> FourBytes], NEW server \in FourBytes
  PROVE  \E f : Rounds(f, buffer, h, config, server)
                /\ Parse(buffer, h, config, server) = f[Len(buffer)]
<1> DEFINE n == Len(buffer)
           start == [p |-> 1, opt_len |-> 0, type |-> 0, conf |-> config,
                     serverIp |-> server]
           Round(x) == IF x.p <= n THEN ReadOption(buffer, h, x) ELSE x
           R(g) == [k \in 0 .. n |-> IF k = 0 THEN start ELSE Round(g[k - 1])]
           F == [k \in 1 .. n |-> [x \in Found |-> Round(x)]]
           found == CHOOSE g : g = R(g)
<1>1. Parse(buffer, h, config, server) = found[n]
  BY DEF Parse
<1>2. start \in Found
  BY DEF Found, Bytes
<1>3. \A x \in Found : Round(x) \in Found
  BY ReadOptionIs
<1>4. n \in Nat
  OBVIOUS
<1> HIDE DEF start, Round, n
<1>5. F \in [1 .. n -> [Found -> Found]]
  BY <1>3
<1>6. \A k \in 1 .. n, x \in Found : F[k][x] = Round(x)
  OBVIOUS
<1>7. PICK f : Recursion(f, n, Found, start, F)
  <2> HIDE DEF F
  <2> QED
    BY <1>2, <1>4, <1>5, Iterates
<1>8. \A k \in 1 .. n : f[k] = Round(f[k - 1])
  BY <1>4, <1>6, <1>7 DEF Recursion
<1>9. f = R(f)
  BY <1>4, <1>7, <1>8 DEF Recursion
<1>10. found = R(found)
  <2> HIDE DEF R
  <2> QED
    BY <1>9
<1> HIDE DEF found
<1>11. found[0] = start /\ \A k \in 1 .. n : found[k] = Round(found[k - 1])
  BY <1>4, <1>10
<1>12. \A k \in 0 .. n : k \in { j \in 0 .. n : found[j] \in Found }
  <2> DEFINE G == { j \in 0 .. n : found[j] \in Found }
  <2>1. 0 \in G /\ \A k \in 1 .. n : k - 1 \in G => k \in G
    BY <1>2, <1>3, <1>4, <1>11
  <2> HIDE DEF G
  <2>2. \A k \in 0 .. n : k \in G
    BY <1>4, <2>1, UpTo
  <2> QED
    BY <2>2 DEF G
<1>13. found \in [0 .. n -> Found]
  <2>1. \A k \in 0 .. n : found[k] \in Found
    BY <1>12
  <2>2. found = [k \in 0 .. n |-> found[k]]
    BY <1>10
  <2> QED
    BY <2>1, <2>2
<1> QED
  BY <1>1, <1>11, <1>13 DEF Rounds, n, start, Round

-----------------------------------------------------------------------------
(* A message: options one behind the other. *)

\* Two sequences joined: the first, then the second.
LEMMA JoinIs ==
  ASSUME NEW a \in Seq(Bytes), NEW b \in Seq(Bytes)
  PROVE  /\ a \o b \in Seq(Bytes) /\ Len(a \o b) = Len(a) + Len(b)
         /\ Len(a) \in Nat /\ Len(b) \in Nat
         /\ \A j \in 1 .. Len(a) : (a \o b)[j] = a[j]
         /\ \A j \in 1 .. Len(b) : (a \o b)[Len(a) + j] = b[j]
OBVIOUS

\* An option on the wire is its code, the length of its data, and the data.
LEMMA EncodeIs ==
  ASSUME NEW o \in Option
  PROVE  /\ Encode(o) \in Seq(Bytes) /\ Len(Encode(o)) \in Nat /\ Len(Encode(o)) > 0
         /\ Len(Encode(o)) = IF o.code \in Single THEN 1 ELSE 2 + Len(o.data)
         /\ Encode(o)[1] = o.code
         /\ o.code \notin Single => /\ Encode(o)[2] = Len(o.data)
                                   /\ \A j \in 1 .. Len(o.data) : Encode(o)[2 + j] = o.data[j]
<1>1. o.code \in Bytes /\ o.data \in Seq(Bytes) /\ Len(o.data) \in Nat /\ Len(o.data) <= 255
  BY DEF Option
<1>2. CASE o.code \in Single
  BY <1>1, <1>2 DEF Encode
<1>3. CASE o.code \notin Single
  <2> DEFINE head == << o.code, Len(o.data) >>
             d == o.data
  <2>1. Encode(o) = head \o d
    BY <1>3 DEF Encode
  <2>2. Len(d) \in Bytes
    <3>1. \A x \in Nat : x <= 255 => x \in Bytes
      BY DEF Bytes
    <3> QED
      BY <1>1, <3>1
  <2>3. head \in Seq(Bytes) /\ Len(head) = 2 /\ head[1] = o.code /\ head[2] = Len(d)
    BY <1>1, <2>2
  <2>4. d \in Seq(Bytes)
    BY <1>1
  <2> HIDE DEF head, d
  <2>5. /\ head \o d \in Seq(Bytes) /\ Len(head \o d) = Len(head) + Len(d)
        /\ \A j \in 1 .. Len(head) : (head \o d)[j] = head[j]
        /\ \A j \in 1 .. Len(d) : (head \o d)[Len(head) + j] = d[j]
    BY <2>3, <2>4, JoinIs
  <2>6. (head \o d)[1] = head[1] /\ (head \o d)[2] = head[2]
    BY <2>3, <2>5
  <2> QED
    BY <1>3, <2>1, <2>3, <2>5, <2>6 DEF d
<1> QED
  BY <1>2, <1>3

\* Piece k of n pieces lies in the buffer behind place pos[k - 1].
Laid(buffer, piece, n, pos) ==
  /\ pos \in [0 .. n -> Nat] /\ pos[0] = 0 /\ pos[n] = Len(buffer)
  /\ \A k \in 1 .. n :
       /\ pos[k] = pos[k - 1] + Len(piece[k])
       /\ \A j \in 1 .. Len(piece[k]) : buffer[pos[k - 1] + j] = piece[k][j]

\* f[k] is the first k pieces.
Joins(f, piece, n) ==
  /\ f \in [0 .. n -> Seq(Bytes)] /\ f[0] = << >>
  /\ \A k \in 1 .. n : f[k] = f[k - 1] \o piece[k]

\* Joining pieces is joining them one at a time.
LEMMA FlattenJoins ==
  ASSUME NEW n \in Nat \ {0}, NEW piece \in [1 .. n -> Seq(Bytes)]
  PROVE  \E f : Joins(f, piece, n) /\ FlattenSeq(piece) = f[n]
<1> DEFINE R(g) == [k \in 1 .. n |-> IF k = 1 THEN piece[k] ELSE g[k - 1] \o piece[k]]
           flatten == CHOOSE g : g = R(g)
           F == [k \in 1 .. n |-> [x \in Seq(Bytes) |-> x \o piece[k]]]
<1>1. FlattenSeq(piece) = flatten[n]
  <2>1. Len(piece) = n
    OBVIOUS
  <2> QED
    BY <2>1 DEF FlattenSeq
<1>2. F \in [1 .. n -> [Seq(Bytes) -> Seq(Bytes)]]
  OBVIOUS
<1>3. \A k \in 1 .. n, x \in Seq(Bytes) : F[k][x] = x \o piece[k]
  OBVIOUS
<1> HIDE DEF F
<1>4. PICK f : Recursion(f, n, Seq(Bytes), << >>, F)
  <2>1. << >> \in Seq(Bytes) /\ n \in Nat
    OBVIOUS
  <2> QED
    BY <1>2, <2>1, Iterates
<1>5. f \in [0 .. n -> Seq(Bytes)] /\ f[0] = << >> /\ \A k \in 1 .. n : f[k] = F[k][f[k - 1]]
  BY <1>4 DEF Recursion
<1>6. ASSUME NEW k \in 1 .. n
      PROVE  f[k] = f[k - 1] \o piece[k]
  <2>1. f[k - 1] \in Seq(Bytes)
    BY <1>5
  <2> QED
    BY <1>3, <1>5, <2>1
<1> DEFINE g == [k \in 1 .. n |-> f[k]]
<1>7. f[1] = piece[1]
  <2>1. 1 \in 1 .. n /\ 1 - 1 = 0 /\ piece[1] \in Seq(Bytes)
    OBVIOUS
  <2>2. f[1] = f[0] \o piece[1]
    BY <1>6, <2>1
  <2> QED
    BY <1>5, <2>1, <2>2
<1>8. g = R(g)
  <2>1. \A k \in 1 .. n : k # 1 => k - 1 \in 1 .. n
    OBVIOUS
  <2>2. \A k \in 1 .. n : g[k] = IF k = 1 THEN piece[k] ELSE g[k - 1] \o piece[k]
    BY <1>6, <1>7, <2>1
  <2> QED
    BY <2>2
<1>9. flatten = R(flatten)
  <2> HIDE DEF R, g
  <2> QED
    BY <1>8
<1> HIDE DEF flatten
<1>10. flatten[1] = piece[1] /\ \A k \in 1 .. n : k # 1 => flatten[k] = flatten[k - 1] \o piece[k]
  <2>1. \A k \in 1 .. n :
          flatten[k] = IF k = 1 THEN piece[k] ELSE flatten[k - 1] \o piece[k]
    BY <1>9
  <2>2. 1 \in 1 .. n
    OBVIOUS
  <2> QED
    BY <2>1, <2>2
<1> DEFINE Is == { k \in 0 .. n : k > 0 => flatten[k] = f[k] }
<1>11. \A k \in 0 .. n : k \in Is
  <2>1. 0 \in Is
    OBVIOUS
  <2>2. ASSUME NEW k \in 1 .. n, k - 1 \in Is
        PROVE  k \in Is
    <3>1. CASE k = 1
      BY <1>7, <1>10, <3>1
    <3>2. CASE k # 1
      <4>1. flatten[k - 1] = f[k - 1]
        BY <2>2, <3>2
      <4>2. flatten[k] = f[k]
        BY <1>6, <1>10, <3>2, <4>1
      <4> QED
        BY <4>2
    <3> QED
      BY <3>1, <3>2
  <2> HIDE DEF Is
  <2> QED
    BY <2>1, <2>2, UpTo
<1>12. flatten[n] = f[n]
  BY <1>11
<1>13. Joins(f, piece, n)
  BY <1>5, <1>6 DEF Joins
<1> QED
  BY <1>1, <1>12, <1>13

\* Joined pieces lie one behind the other.
LEMMA FlattenIs ==
  ASSUME NEW n \in Nat \ {0}, NEW piece \in [1 .. n -> Seq(Bytes)]
  PROVE  /\ FlattenSeq(piece) \in Seq(Bytes)
         /\ \E pos : Laid(FlattenSeq(piece), piece, n, pos)
<1>1. PICK f : Joins(f, piece, n) /\ FlattenSeq(piece) = f[n]
  BY FlattenJoins
<1>2. ASSUME NEW k \in 1 .. n
      PROVE  /\ f[k - 1] \in Seq(Bytes) /\ f[k] \in Seq(Bytes)
             /\ Len(f[k - 1]) \in Nat /\ Len(f[k]) \in Nat /\ Len(piece[k]) \in Nat
             /\ Len(f[k]) = Len(f[k - 1]) + Len(piece[k])
             /\ \A j \in 1 .. Len(f[k - 1]) : f[k][j] = f[k - 1][j]
             /\ \A j \in 1 .. Len(piece[k]) : f[k][Len(f[k - 1]) + j] = piece[k][j]
  <2>1. f[k - 1] \in Seq(Bytes) /\ piece[k] \in Seq(Bytes) /\ f[k] = f[k - 1] \o piece[k]
    <3>1. k - 1 \in 0 .. n
      OBVIOUS
    <3> QED
      BY <1>1, <3>1 DEF Joins
  <2> QED
    BY <2>1, JoinIs
<1> DEFINE Holds(k, m) ==
             /\ Len(f[k]) <= Len(f[m])
             /\ \A j \in 1 .. Len(piece[k]) : f[m][Len(f[k - 1]) + j] = piece[k][j]
           G == { m \in 0 .. n : \A k \in 1 .. m : Holds(k, m) }
<1>3. \A m \in 0 .. n : m \in G
  <2>1. 0 \in G
    OBVIOUS
  <2>2. ASSUME NEW m \in 1 .. n, m - 1 \in G
        PROVE  m \in G
    <3>1. Holds(m, m)
      BY <1>2
    <3>2. ASSUME NEW k \in 1 .. m - 1
          PROVE  Holds(k, m)
      <4>1. Holds(k, m - 1) /\ k \in 1 .. n
        BY <2>2
      <4>2. Len(f[k]) <= Len(f[m])
        <5>1. Len(f[k]) \in Nat
          BY <1>2, <4>1
        <5>2. /\ Len(f[m]) = Len(f[m - 1]) + Len(piece[m])
              /\ Len(f[m - 1]) \in Nat /\ Len(piece[m]) \in Nat
          BY <1>2
        <5>3. Len(f[k]) <= Len(f[m - 1])
          BY <4>1
        <5>4. \A a, b, c \in Nat : a <= b => a <= b + c
          OBVIOUS
        <5> QED
          BY ONLY <5>1, <5>2, <5>3, <5>4
      <4>3. ASSUME NEW j \in 1 .. Len(piece[k])
            PROVE  f[m][Len(f[k - 1]) + j] = piece[k][j]
        <5>1. Len(f[k]) = Len(f[k - 1]) + Len(piece[k]) /\ Len(f[k - 1]) \in Nat
              /\ Len(piece[k]) \in Nat /\ Len(f[k]) <= Len(f[m - 1]) /\ Len(f[m - 1]) \in Nat
          BY <1>2, <4>1
        <5>2. \A a, b, c, d \in Nat : c = a + b /\ c <= d =>
                \A x \in 1 .. b : a + x \in 1 .. d
          OBVIOUS
        <5>3. Len(f[k - 1]) + j \in 1 .. Len(f[m - 1])
          <6>1. Len(f[k]) \in Nat
            BY <1>2, <4>1
          <6> QED
            BY <5>1, <5>2, <6>1
        <5>4. f[m][Len(f[k - 1]) + j] = f[m - 1][Len(f[k - 1]) + j]
          BY <1>2, <5>3
        <5> QED
          BY <4>1, <5>4
      <4> QED
        BY <4>2, <4>3
    <3> HIDE DEF Holds
    <3> QED
      BY <3>1, <3>2
  <2> HIDE DEF G
  <2> QED
    BY <2>1, <2>2, UpTo
<1>4. \A k \in 1 .. n : Holds(k, n)
  BY <1>3
<1> HIDE DEF G
<1> DEFINE pos == [k \in 0 .. n |-> Len(f[k])]
<1>5. f \in [0 .. n -> Seq(Bytes)] /\ f[0] = << >>
  BY <1>1 DEF Joins
<1>6. pos \in [0 .. n -> Nat] /\ pos[0] = 0 /\ pos[n] = Len(f[n])
  BY <1>5
<1>7. \A k \in 1 .. n : pos[k] = Len(f[k]) /\ pos[k - 1] = Len(f[k - 1])
  OBVIOUS
<1> HIDE DEF pos
<1>8. Laid(f[n], piece, n, pos)
  <2>1. ASSUME NEW k \in 1 .. n
        PROVE  /\ pos[k] = pos[k - 1] + Len(piece[k])
               /\ \A j \in 1 .. Len(piece[k]) : f[n][pos[k - 1] + j] = piece[k][j]
    <3>1. pos[k] = Len(f[k]) /\ pos[k - 1] = Len(f[k - 1])
      BY <1>7
    <3>2. Len(f[k]) = Len(f[k - 1]) + Len(piece[k])
      BY <1>2
    <3>3. \A j \in 1 .. Len(piece[k]) : f[n][Len(f[k - 1]) + j] = piece[k][j]
      BY <1>4
    <3> QED
      BY ONLY <3>1, <3>2, <3>3
  <2> QED
    BY ONLY <1>6, <2>1 DEF Laid
<1>9. f[n] \in Seq(Bytes)
  BY <1>5
<1> QED
  BY <1>1, <1>8, <1>9

\* Every piece takes room, and all lie in the buffer.
LEMMA LaidIn ==
  ASSUME NEW n \in Nat, NEW piece \in [1 .. n -> Seq(Bytes)], NEW buffer \in Seq(Bytes),
         NEW pos, Laid(buffer, piece, n, pos), \A k \in 1 .. n : Len(piece[k]) > 0
  PROVE  \A k \in 0 .. n : pos[k] \in Nat /\ k <= pos[k] /\ pos[k] <= Len(buffer)
<1>1. /\ pos \in [0 .. n -> Nat] /\ pos[0] = 0 /\ pos[n] = Len(buffer)
      /\ \A k \in 1 .. n : pos[k] = pos[k - 1] + Len(piece[k])
  BY DEF Laid
<1>2. \A k \in 1 .. n : pos[k] \in Nat /\ pos[k - 1] \in Nat /\ pos[k] >= pos[k - 1] + 1
  <2> SUFFICES ASSUME NEW k \in 1 .. n
               PROVE  pos[k] \in Nat /\ pos[k - 1] \in Nat /\ pos[k] >= pos[k - 1] + 1
    OBVIOUS
  <2>1. Len(piece[k]) \in Nat /\ Len(piece[k]) > 0 /\ pos[k - 1] \in Nat
    BY <1>1
  <2> QED
    BY <1>1, <2>1
<1> DEFINE Low == { k \in 0 .. n : k <= pos[k] }
           High == { k \in 0 .. n : pos[n - k] <= pos[n] }
<1>3. \A k \in 0 .. n : k \in Low
  <2>1. 0 \in Low
    BY <1>1
  <2>2. \A k \in 1 .. n : k - 1 \in Low => k \in Low
    BY <1>2
  <2> HIDE DEF Low
  <2> QED
    BY <2>1, <2>2, UpTo
<1>4. \A k \in 0 .. n : k \in High
  <2>1. 0 \in High
    BY <1>1
  <2>2. ASSUME NEW k \in 1 .. n, k - 1 \in High
        PROVE  k \in High
    <3>1. n - k + 1 \in 1 .. n /\ n - (k - 1) = n - k + 1 /\ (n - k + 1) - 1 = n - k
      OBVIOUS
    <3>2. pos[n - k + 1] <= pos[n] /\ pos[n] \in Nat
      BY <1>1, <2>2, <3>1
    <3>3. pos[n - k + 1] >= pos[n - k] + 1 /\ pos[n - k + 1] \in Nat /\ pos[n - k] \in Nat
      BY <1>2, <3>1
    <3> QED
      BY <3>2, <3>3
  <2> HIDE DEF High
  <2> QED
    BY <2>1, <2>2, UpTo
<1>5. \A k \in 0 .. n : n - k \in 0 .. n /\ n - (n - k) = k
  OBVIOUS
<1>6. \A k \in 0 .. n : pos[k] <= pos[n]
  BY <1>4, <1>5
<1> QED
  BY <1>1, <1>3, <1>6

-----------------------------------------------------------------------------
(* What the loop reads. *)

\* Option o says what its server meant: a type, an address each for what is configured, and
\* the server's own address.
Means(o, t, c, h) ==
  /\ o.code = dhcpMessageType => o.data = << t >>
  /\ o.code \in Configured => o.data = c[o.code]
  /\ o.code = dhcpServerIdentifier => o.data = h

\* The option lies in the buffer from place p on.
Here(buffer, p, o) ==
  /\ p - 1 + Len(Encode(o)) <= Len(buffer)
  /\ \A j \in 1 .. Len(Encode(o)) : buffer[p - 1 + j] = Encode(o)[j]

\* f2 is what f1 becomes by such an option.
Reads(f1, o, t, c, h, f2) ==
  /\ f2.p = f1.p + Len(Encode(o))
  /\ f2.type = IF o.code = dhcpMessageType THEN t ELSE f1.type
  /\ \A k \in Configured : f2.conf[k] = IF o.code = k THEN c[k] ELSE f1.conf[k]
  /\ f2.serverIp = IF o.code = dhcpServerIdentifier /\ TakesServer(f1.serverIp, h) THEN h
                   ELSE f1.serverIp

\* The codes are told apart.
LEMMA CodesApart ==
  /\ dhcpMessageType \notin Configured /\ dhcpServerIdentifier \notin Configured
  /\ dhcpMessageType # dhcpServerIdentifier
  /\ dhcpMessageType \notin Single /\ dhcpServerIdentifier \notin Single
  /\ \A k \in Configured : k \notin Single
  /\ \A k \in Configured \cup Single \cup {dhcpMessageType, dhcpServerIdentifier} : k \in Bytes
BY DEF dhcpMessageType, dhcpServerIdentifier, Configured, subnetMask, routersOnSubnet, dns,
       Single, padOption, endOption, Bytes

\* A round of the loop that begins at an option takes in what it says and ends behind it.
LEMMA ReadsOption ==
  ASSUME NEW buffer \in Seq(Bytes), NEW f \in Found, NEW o \in Option, NEW t,
         NEW c \in [Configured -> FourBytes], NEW h \in FourBytes, Means(o, t, c, h),
         Here(buffer, f.p, o), o.code \in Single => f.opt_len = 0
  PROVE  /\ f.p <= Len(buffer)
         /\ Reads(f, o, t, c, h, ReadOption(buffer, h, f))
         /\ ReadOption(buffer, h, f).opt_len = IF o.code \in Single THEN 0 ELSE Len(o.data)
<1> DEFINE code == buffer[f.p]
           data == f.p + 2
           len == Byte(buffer, f.p + 1)
           passed == [f EXCEPT !.opt_len = len, !.p = data + len]
           g == ReadOption(buffer, h, f)
<1>1. /\ f.p \in Nat \ {0} /\ f.opt_len \in Bytes /\ f.conf \in [Configured -> FourBytes]
      /\ f = [p |-> f.p, opt_len |-> f.opt_len, type |-> f.type, conf |-> f.conf,
              serverIp |-> f.serverIp]
  BY DEF Found
<1>2. /\ Encode(o) \in Seq(Bytes) /\ Len(Encode(o)) \in Nat
      /\ Len(Encode(o)) = IF o.code \in Single THEN 1 ELSE 2 + Len(o.data)
      /\ Encode(o)[1] = o.code
      /\ o.code \notin Single => /\ Encode(o)[2] = Len(o.data)
                                /\ \A j \in 1 .. Len(o.data) : Encode(o)[2 + j] = o.data[j]
  BY EncodeIs
<1>3. Len(o.data) \in Nat /\ o.data \in Seq(Bytes) /\ Len(buffer) \in Nat
  BY DEF Option
<1>4. f.p <= Len(buffer) /\ code = o.code
  <2>1. Len(Encode(o)) >= 1 /\ 1 \in 1 .. Len(Encode(o)) /\ f.p - 1 + 1 = f.p
    BY <1>1, <1>2, <1>3
  <2>2. buffer[f.p - 1 + 1] = Encode(o)[1]
    BY <2>1 DEF Here
  <2> QED
    BY <1>1, <1>2, <1>3, <2>1, <2>2 DEF Here
<1> HIDE DEF code
<1>5. g = CASE code \in Single -> [f EXCEPT !.p = @ + 1 + f.opt_len]
            [] code = dhcpMessageType -> [passed EXCEPT !.type = Byte(buffer, data)]
            [] code \in Configured -> [passed EXCEPT !.conf[code] = AddressAt(buffer, data)]
            [] code = dhcpServerIdentifier /\ TakesServer(f.serverIp, h) ->
                 [passed EXCEPT !.serverIp = AddressAt(buffer, data)]
            [] OTHER -> passed
  BY DEF ReadOption, code
<1> HIDE DEF g, passed, data, len
<1>6. CASE o.code \in Single
  <2>1. g = [f EXCEPT !.p = @ + 1 + f.opt_len] /\ f.opt_len = 0
    BY <1>4, <1>5, <1>6, CodesApart
  <2>2. g.p = f.p + 1 /\ g.type = f.type /\ g.conf = f.conf /\ g.serverIp = f.serverIp
        /\ g.opt_len = 0
    BY <1>1, <2>1
  <2> QED
    BY <1>2, <1>4, <1>6, <2>2, CodesApart DEF Reads, g
<1>7. CASE o.code \notin Single
  <2>1. Len(Encode(o)) = 2 + Len(o.data) /\ f.p - 1 + (2 + Len(o.data)) <= Len(buffer)
    BY <1>2, <1>7 DEF Here
  <2>2. len = Len(o.data)
    <3>1. 2 \in 1 .. Len(Encode(o)) /\ f.p - 1 + 2 = f.p + 1
          /\ f.p + 1 \in 1 .. Len(buffer)
      BY <1>1, <1>3, <2>1
    <3>2. buffer[f.p + 1] = Encode(o)[2]
      BY <3>1 DEF Here
    <3> QED
      BY <1>2, <1>7, <3>1, <3>2 DEF Byte, len
  <2>3. ASSUME NEW j \in 1 .. Len(o.data)
        PROVE  Byte(buffer, data + j - 1) = o.data[j]
    <3>1. \A p, m, l \in Nat : p - 1 + (2 + m) <= l =>
            \A x \in 1 .. m : /\ 2 + x \in 1 .. 2 + m /\ p - 1 + (2 + x) = p + 2 + x - 1
                               /\ p + 2 + x - 1 \in 1 .. l
      OBVIOUS
    <3>2. 2 + j \in 1 .. Len(Encode(o)) /\ f.p - 1 + (2 + j) = data + j - 1
          /\ data + j - 1 \in 1 .. Len(buffer)
      BY <1>1, <1>3, <2>1, <3>1 DEF data
    <3>3. buffer[data + j - 1] = Encode(o)[2 + j]
      BY <3>2 DEF Here
    <3> QED
      BY <1>2, <1>7, <3>2, <3>3 DEF Byte
  <2>4. passed = [p |-> f.p + Len(Encode(o)), opt_len |-> Len(o.data), type |-> f.type,
                  conf |-> f.conf, serverIp |-> f.serverIp]
    <3>1. data + len = f.p + Len(Encode(o))
      BY <1>1, <1>3, <2>1, <2>2 DEF data
    <3>2. /\ passed.p = data + len /\ passed.opt_len = len /\ passed.type = f.type
          /\ passed.conf = f.conf /\ passed.serverIp = f.serverIp
      BY <1>1 DEF passed
    <3>3. passed \in Found
      <4>1. data + len \in Nat \ {0} /\ len \in Bytes
        <5>1. \A x \in Nat : x <= 255 => x \in Bytes
          BY DEF Bytes
        <5>2. Len(o.data) \in Bytes
          BY <1>3, <5>1 DEF Option
        <5> QED
          BY <1>1, <1>3, <2>2, <5>2 DEF data
      <4> QED
        BY <4>1 DEF passed, Found
    <3>4. passed = [p |-> passed.p, opt_len |-> passed.opt_len, type |-> passed.type,
                    conf |-> passed.conf, serverIp |-> passed.serverIp]
      BY <3>3 DEF Found
    <3> QED
      BY <2>2, <3>1, <3>2, <3>4
  <2>6. ASSUME NEW a \in FourBytes, o.data = a
        PROVE  AddressAt(buffer, data) = a
    <3>1. Len(o.data) = 4 /\ a = [j \in 1 .. 4 |-> a[j]]
      BY <2>6 DEF FourBytes, AddressLength
    <3>2. \A j \in 1 .. 4 : Byte(buffer, data + j - 1) = a[j]
      BY <2>3, <2>6, <3>1
    <3> QED
      BY <3>1, <3>2 DEF AddressAt, AddressLength
  <2>7. CASE o.code = dhcpMessageType
    <3>1. Len(o.data) = 1 /\ o.data[1] = t
      <4>1. o.data = << t >>
        BY <2>7 DEF Means
      <4> QED
        BY <4>1
    <3>2. Byte(buffer, data) = t
      <4>1. data + 1 - 1 = data
        BY <1>1 DEF data
      <4> QED
        BY <2>3, <3>1, <4>1
    <3>3. g = [passed EXCEPT !.type = t]
      BY <1>4, <1>5, <2>7, <3>2, CodesApart
    <3>4. /\ g.p = passed.p /\ g.opt_len = passed.opt_len /\ g.type = t
          /\ g.conf = passed.conf /\ g.serverIp = passed.serverIp
      BY <2>4, <3>3
    <3> QED
      BY <1>4, <1>7, <2>4, <2>7, <3>4, CodesApart DEF Reads, g
  <2>8. CASE o.code \in Configured
    <3>1. AddressAt(buffer, data) = c[o.code]
      BY <2>6, <2>8 DEF Means
    <3>2. g = [passed EXCEPT !.conf[o.code] = c[o.code]]
      BY <1>4, <1>5, <2>8, <3>1, CodesApart
    <3>3. /\ g.p = passed.p /\ g.opt_len = passed.opt_len /\ g.type = passed.type
          /\ g.conf = [f.conf EXCEPT ![o.code] = c[o.code]] /\ g.serverIp = passed.serverIp
      BY <2>4, <3>2
    <3>4. \A k \in Configured : g.conf[k] = IF o.code = k THEN c[k] ELSE f.conf[k]
      BY <1>1, <3>3
    <3> QED
      BY <1>4, <1>7, <2>4, <2>8, <3>3, <3>4, CodesApart DEF Reads, g
  <2>9. CASE o.code = dhcpServerIdentifier /\ TakesServer(f.serverIp, h)
    <3>1. AddressAt(buffer, data) = h
      BY <2>6, <2>9 DEF Means
    <3>2. g = [passed EXCEPT !.serverIp = h]
      BY <1>4, <1>5, <2>9, <3>1, CodesApart
    <3>3. /\ g.p = passed.p /\ g.opt_len = passed.opt_len /\ g.type = passed.type
          /\ g.conf = passed.conf /\ g.serverIp = h
      BY <2>4, <3>2
    <3> QED
      BY <1>4, <1>7, <2>4, <2>9, <3>3, CodesApart DEF Reads, g
  <2>10. CASE /\ o.code # dhcpMessageType /\ o.code \notin Configured
              /\ ~(o.code = dhcpServerIdentifier /\ TakesServer(f.serverIp, h))
    <3>1. g = passed
      BY <1>4, <1>5, <1>7, <2>10
    <3> QED
      BY <1>4, <1>7, <2>4, <2>10, <3>1 DEF Reads, g
  <2> QED
    BY <2>7, <2>8, <2>9, <2>10
<1> QED
  BY <1>6, <1>7

\* One of the first m options has this code.
Occurs(o, m, code) == \E k \in 1 .. m : o[k].code = code

\* What the first m options of o leave a client with.
Told(f, o, m, t, c, h, config, server) ==
  /\ f.type = IF Occurs(o, m, dhcpMessageType) THEN t ELSE 0
  /\ \A k \in Configured : f.conf[k] = IF Occurs(o, m, k) THEN c[k] ELSE config[k]
  /\ f.serverIp = IF Occurs(o, m, dhcpServerIdentifier) /\ TakesServer(server, h) THEN h
                  ELSE server

\* What a prefix of the options tells, and one option more.
LEMMA ToldNext ==
  ASSUME NEW o, NEW m \in Nat \ {0}, NEW t, NEW c, NEW h, NEW config, NEW server,
         NEW f1, NEW f2, Told(f1, o, m - 1, t, c, h, config, server),
         Reads(f1, o[m], t, c, h, f2)
  PROVE  Told(f2, o, m, t, c, h, config, server)
<1>1. \A x : Occurs(o, m, x) <=> Occurs(o, m - 1, x) \/ o[m].code = x
  <2>1. \A k : k \in 1 .. m <=> k \in 1 .. m - 1 \/ k = m
    OBVIOUS
  <2> QED
    BY <2>1 DEF Occurs
<1>2. f2.type = IF Occurs(o, m, dhcpMessageType) THEN t ELSE 0
  BY <1>1 DEF Told, Reads
<1>3. \A k \in Configured : f2.conf[k] = IF Occurs(o, m, k) THEN c[k] ELSE config[k]
  BY <1>1 DEF Told, Reads
<1>4. f2.serverIp = IF Occurs(o, m, dhcpServerIdentifier) /\ TakesServer(server, h) THEN h
                    ELSE server
  BY <1>1 DEF Told, Reads, TakesServer
<1> QED
  BY <1>2, <1>3, <1>4 DEF Told

\* Behind the options that say something there may be bytes that are pads or ends.
LEMMA ParseReads ==
  ASSUME NEW n \in Nat, NEW m \in 0 .. n, NEW o \in [1 .. n -> Option],
         NEW buffer \in Seq(Bytes), NEW pos,
         Laid(buffer, [k \in 1 .. n |-> Encode(o[k])], n, pos),
         NEW t, NEW c \in [Configured -> FourBytes], NEW h \in FourBytes,
         NEW config \in [Configured -> FourBytes], NEW server \in FourBytes,
         \A k \in 1 .. m : Means(o[k], t, c, h),
         \A k \in 1 .. m : o[k].code \in Single => k = 1,
         \A q \in pos[m] + 1 .. Len(buffer) : buffer[q] \in Single
  PROVE  Told(Parse(buffer, h, config, server), o, m, t, c, h, config, server)
<1> DEFINE L == Len(buffer)
           piece == [k \in 1 .. n |-> Encode(o[k])]
<1>1. L \in Nat
  OBVIOUS
<1>2. /\ piece \in [1 .. n -> Seq(Bytes)]
      /\ \A k \in 1 .. n : piece[k] = Encode(o[k]) /\ Len(piece[k]) > 0 /\ Len(piece[k]) \in Nat
  <2>1. ASSUME NEW k \in 1 .. n
        PROVE  Encode(o[k]) \in Seq(Bytes) /\ Len(Encode(o[k])) > 0 /\ Len(Encode(o[k])) \in Nat
    <3>1. o[k] \in Option
      OBVIOUS
    <3> QED
      BY <3>1, EncodeIs
  <2> QED
    BY <2>1
<1>3. Laid(buffer, piece, n, pos)
  OBVIOUS
<1> HIDE DEF piece
<1>4. \A k \in 0 .. n : pos[k] \in Nat /\ k <= pos[k] /\ pos[k] <= L
  BY <1>2, <1>3, LaidIn
<1>5. m \in Nat /\ m <= L
  BY <1>1, <1>4
<1>6. PICK f : Rounds(f, buffer, h, config, server) /\ Parse(buffer, h, config, server) = f[L]
  BY ParseRuns
<1>7. /\ f \in [0 .. L -> Found]
       /\ f[0] = [p |-> 1, opt_len |-> 0, type |-> 0, conf |-> config, serverIp |-> server]
       /\ \A k \in 1 .. L :
            f[k] = IF f[k - 1].p <= L THEN ReadOption(buffer, h, f[k - 1]) ELSE f[k - 1]
  BY <1>6 DEF Rounds
<1> HIDE DEF L
<1> DEFINE Said(k) == Told(f[k], o, k, t, c, h, config, server)
<1> HIDE DEF Said
<1> DEFINE G == { k \in 0 .. m :
                    f[k].p = pos[k] + 1 /\ Said(k) /\ (k = 0 => f[k].opt_len = 0) }
<1>8. \A k \in 0 .. m : k \in G
  <2>1. 0 \in G
    <3>1. f[0].p = pos[0] + 1 /\ f[0].opt_len = 0
      BY <1>3, <1>7 DEF Laid
    <3>2. \A x : ~Occurs(o, 0, x)
      BY DEF Occurs
    <3>3. Said(0)
      BY <1>7, <3>2 DEF Told, Said
    <3> QED
      BY <1>5, <3>1, <3>3
  <2>2. ASSUME NEW k \in 1 .. m, k - 1 \in G
        PROVE  k \in G
    <3>1. /\ k \in 1 .. n /\ k \in 1 .. L /\ k - 1 \in 0 .. L /\ k \in Nat \ {0}
          /\ k - 1 \in 0 .. n /\ k \in 0 .. n
      BY <1>1, <1>5
    <3>2. f[k - 1].p = pos[k - 1] + 1 /\ Said(k - 1)
      BY <2>2
    <3>3. o[k].code \in Single => f[k - 1].opt_len = 0
      <4>1. k = 1 => k - 1 = 0
        OBVIOUS
      <4> QED
        BY <2>2, <4>1
    <3>4. /\ pos[k] = pos[k - 1] + Len(Encode(o[k]))
          /\ \A j \in 1 .. Len(Encode(o[k])) : buffer[pos[k - 1] + j] = Encode(o[k])[j]
      BY <1>2, <1>3, <3>1 DEF Laid
    <3>5. pos[k - 1] \in Nat /\ pos[k] <= L /\ f[k - 1].p - 1 = pos[k - 1]
          /\ Len(Encode(o[k])) \in Nat
      BY <1>2, <1>4, <3>1, <3>2
    <3>6. Here(buffer, f[k - 1].p, o[k])
      BY <3>4, <3>5 DEF Here, L
    <3>7. f[k - 1] \in Found /\ o[k] \in Option /\ Means(o[k], t, c, h)
      BY <1>7, <3>1
    <3> DEFINE g == ReadOption(buffer, h, f[k - 1])
    <3>8. f[k - 1].p <= Len(buffer) /\ Reads(f[k - 1], o[k], t, c, h, g)
      BY <3>3, <3>6, <3>7, ReadsOption
    <3>9. f[k] = g
      BY <1>7, <3>1, <3>8 DEF L
    <3> HIDE DEF g
    <3>10. Said(k)
      BY <3>1, <3>2, <3>8, <3>9, ToldNext DEF Said
    <3>11. f[k].p = pos[k] + 1
      <4>1. f[k].p = f[k - 1].p + Len(Encode(o[k]))
        BY <3>8, <3>9 DEF Reads
      <4> QED
        BY <3>2, <3>4, <3>5, <4>1
    <3> QED
      BY <3>10, <3>11
  <2> HIDE DEF G
  <2> QED
    BY <1>5, <2>1, <2>2, UpTo
<1>9. f[m].p = pos[m] + 1 /\ Said(m)
  BY <1>5, <1>8
<1> DEFINE Same(x) == /\ x.type = f[m].type /\ x.conf = f[m].conf
                      /\ x.serverIp = f[m].serverIp /\ x.p > pos[m]
           Q == { j \in 0 .. L - m : Same(f[m + j]) }
<1>10. \A j \in 0 .. L - m : j \in Q
  <2>1. 0 \in Q
    <3>1. pos[m] \in Nat /\ m + 0 = m /\ 0 \in 0 .. L - m
      BY <1>1, <1>4, <1>5
    <3> QED
      BY <1>9, <3>1
  <2>2. ASSUME NEW j \in 1 .. L - m, j - 1 \in Q
        PROVE  j \in Q
    <3>1. m + j \in 1 .. L /\ m + j - 1 = m + (j - 1) /\ m + (j - 1) \in 0 .. L
          /\ j \in 0 .. L - m
      BY <1>1, <1>5
    <3> DEFINE x == f[m + (j - 1)]
    <3>2. Same(x) /\ x \in Found
      BY <1>7, <2>2, <3>1
    <3>3. f[m + j] = IF x.p <= L THEN ReadOption(buffer, h, x) ELSE x
      BY <1>7, <3>1
    <3> HIDE DEF x
    <3>4. CASE x.p <= L
      <4>1. x.p \in Nat /\ x.opt_len \in Nat /\ pos[m] \in Nat
        <5>1. x.p \in Nat /\ x.opt_len \in Bytes /\ m \in 0 .. n
          BY <3>2 DEF Found
        <5>2. \A y \in Bytes : y \in Nat
          BY DEF Bytes
        <5> QED
          BY <1>4, <5>1, <5>2
      <4>2. x.p \in pos[m] + 1 .. Len(buffer)
        BY <1>1, <3>2, <3>4, <4>1 DEF L
      <4>3. buffer[x.p] \in Single
        BY <4>2
      <4>4. ReadOption(buffer, h, x) = [x EXCEPT !.p = @ + 1 + x.opt_len]
        BY <4>3, CodesApart DEF ReadOption
      <4>5. f[m + j] = [x EXCEPT !.p = @ + 1 + x.opt_len]
        BY <3>3, <3>4, <4>4
      <4>6. /\ f[m + j].p = x.p + 1 + x.opt_len /\ f[m + j].type = x.type
            /\ f[m + j].conf = x.conf /\ f[m + j].serverIp = x.serverIp
        BY <3>2, <4>5 DEF Found
      <4>7. x.p + 1 + x.opt_len > pos[m]
        BY <3>2, <4>1
      <4> QED
        BY <3>1, <3>2, <4>6, <4>7
    <3>5. CASE ~(x.p <= L)
      <4>1. f[m + j] = x
        BY <3>3, <3>5
      <4> QED
        BY <3>1, <3>2, <4>1
    <3> QED
      BY <3>4, <3>5
  <2>3. L - m \in Nat
    BY <1>1, <1>5
  <2> HIDE DEF Q
  <2> QED
    BY <2>1, <2>2, <2>3, UpTo
<1>11. Same(f[L])
  <2>1. L - m \in 0 .. L - m /\ m + (L - m) = L
    BY <1>1, <1>5
  <2>2. L - m \in Q
    BY <1>10, <2>1
  <2> QED
    BY <2>1, <2>2
<1>12. Told(f[L], o, m, t, c, h, config, server)
  BY <1>9, <1>11 DEF Told, Said
<1> QED
  BY <1>6, <1>12

-----------------------------------------------------------------------------
(* What a server's message says. *)

\* Addresses of four bytes, in the words of the lemmas above.
LEMMA ServersAre ==
  /\ Host \in [Server -> FourBytes] /\ Config \in [Server -> [Configured -> FourBytes]]
  /\ NoAddress \in FourBytes /\ [k \in Configured |-> NoAddress] \in [Configured -> FourBytes]
<1>1. Host \in [Server -> FourBytes] /\ Config \in [Server -> [Configured -> FourBytes]]
  BY ClientAssumption DEF FourBytes, Bytes
<1>2. NoAddress \in FourBytes
  BY DEF NoAddress, FourBytes, AddressLength, Bytes
<1> QED
  BY <1>1, <1>2

ReplyType == {"OFFER", "ACK", "NAK"}

\* Each type of reply has a code of its own, a byte.
LEMMA CodesAre ==
  /\ Codes \in [ReplyType -> Bytes] /\ DOMAIN Codes = ReplyType
  /\ \A t, u \in ReplyType : Codes[t] = Codes[u] => t = u
<1>1. /\ DOMAIN Codes = ReplyType
      /\ Codes["OFFER"] = 2 /\ Codes["ACK"] = 5 /\ Codes["NAK"] = 6
  BY DEF Codes, ReplyType
<1>2. 2 \in Bytes /\ 5 \in Bytes /\ 6 \in Bytes
  BY DEF Bytes
<1>3. Codes = [t \in ReplyType |-> Codes[t]]
  BY <1>1 DEF Codes
<1> QED
  BY <1>1, <1>2, <1>3 DEF ReplyType

\* The options of a reply say what the server means, and nothing is missing.
Complete(S, t, s) ==
  /\ \A o \in S : o \in Option /\ Means(o, Codes[t], Config[s], Host[s]) /\ o.code \notin Single
  /\ \E o \in S : o.code = dhcpMessageType
  /\ \E o \in S : o.code = dhcpServerIdentifier
  /\ \A k \in Configured : (\E o \in S : o.code = k) <=> t # "NAK"

\* A reply's options are finitely many, and say its type, its server and, unless it is a
\* refusal, the configuration.
LEMMA OptionsAre ==
  ASSUME NEW t \in ReplyType, NEW s \in Server
  PROVE  IsFiniteSet(OptionsOf(t, s)) /\ Complete(OptionsOf(t, s), t, s)
<1> DEFINE T == [code |-> dhcpMessageType, data |-> << Codes[t] >>]
           I == [code |-> dhcpServerIdentifier, data |-> Host[s]]
           C(k) == [code |-> k, data |-> Config[s][k]]
           Cs == { C(k) : k \in Configured }
<1>1. OptionsOf(t, s) = {T, I, Other} \cup IF t = "NAK" THEN {} ELSE Cs
  BY DEF OptionsOf
<1>2. Codes[t] \in Bytes /\ Host[s] \in FourBytes /\ Config[s] \in [Configured -> FourBytes]
  BY CodesAre, ServersAre
<1>3. \A a \in FourBytes : a \in Seq(Bytes) /\ Len(a) = 4
  <2> SUFFICES ASSUME NEW a \in FourBytes PROVE a \in Seq(Bytes) /\ Len(a) = 4
    OBVIOUS
  <2>1. a \in [1 .. 4 -> Bytes]
    BY DEF FourBytes, AddressLength
  <2>2. a \in Seq(Bytes)
    <3>1. a = [j \in 1 .. 4 |-> a[j]] /\ \A j \in 1 .. 4 : a[j] \in Bytes
      BY <2>1
    <3> QED
      BY <3>1
  <2>3. Len(a) = 4
    <3>1. Len(a) \in Nat /\ 1 .. Len(a) = 1 .. 4
      BY <2>1, <2>2, LenProperties
    <3>2. \A l \in Nat : 1 .. l = 1 .. 4 => l = 4
      <4> SUFFICES ASSUME NEW l \in Nat, 1 .. l = 1 .. 4 PROVE l = 4
        OBVIOUS
      <4>1. 4 \in 1 .. l /\ 5 \notin 1 .. l
        OBVIOUS
      <4> QED
        BY <4>1
    <3> QED
      BY <3>1, <3>2
  <2> QED
    BY <2>2, <2>3
<1>4. dhcpMessageType \in Bytes /\ dhcpServerIdentifier \in Bytes
      /\ \A k \in Configured : k \in Bytes
  BY CodesApart
<1> DEFINE O(x, d) == [code |-> x, data |-> d]
<1>o. ASSUME NEW x \in Bytes, NEW d \in Seq(Bytes), Len(d) <= 255
      PROVE  O(x, d) \in Option /\ O(x, d).code = x /\ O(x, d).data = d
  BY <1>o DEF Option
<1>5. T \in Option /\ T.code = dhcpMessageType /\ T.data = << Codes[t] >>
  <2>1. << Codes[t] >> \in Seq(Bytes) /\ Len(<< Codes[t] >>) <= 255
    BY <1>2
  <2> QED
    BY <1>4, <1>o, <2>1
<1>6. I \in Option /\ I.code = dhcpServerIdentifier /\ I.data = Host[s]
  <2>1. Host[s] \in Seq(Bytes) /\ Len(Host[s]) = 4
    BY <1>2, <1>3
  <2>2. Len(Host[s]) <= 255
    BY <2>1
  <2> QED
    BY <1>4, <1>o, <2>1, <2>2
<1>7. ASSUME NEW k \in Configured
      PROVE  C(k) \in Option /\ C(k).code = k /\ C(k).data = Config[s][k]
  <2>1. Config[s][k] \in FourBytes
    BY <1>2
  <2>2. Config[s][k] \in Seq(Bytes) /\ Len(Config[s][k]) = 4
    BY <1>3, <2>1
  <2>3. Len(Config[s][k]) <= 255
    BY <2>2
  <2> QED
    BY <1>4, <1>o, <2>2, <2>3
<1>8. Other \in Option /\ Other.code \notin Looked \cup Single
  <2>1. Other \in [code : Bytes \ (Looked \cup Single), data : Seq(Bytes)] /\ Len(Other.data) <= 255
    BY ClientAssumption DEF Bytes
  <2> QED
    BY <2>1 DEF Option
<1> HIDE DEF T, I, C, O
<1>9. IsFiniteSet(OptionsOf(t, s))
  <2>1. Cs = { C(subnetMask), C(routersOnSubnet), C(dns) }
    BY DEF Configured
  <2>2. IsFiniteSet({T, I, Other}) /\ IsFiniteSet({ C(subnetMask), C(routersOnSubnet), C(dns) })
    <3>1. \A a, b, c : IsFiniteSet({a, b, c})
      <4> SUFFICES ASSUME NEW a, NEW b, NEW c PROVE IsFiniteSet({a, b, c})
        OBVIOUS
      <4>1. IsFiniteSet({a})
        BY FS_Singleton
      <4>2. IsFiniteSet({a} \cup {b})
        BY <4>1, FS_AddElement
      <4>3. IsFiniteSet(({a} \cup {b}) \cup {c})
        BY <4>2, FS_AddElement
      <4>4. ({a} \cup {b}) \cup {c} = {a, b, c}
        OBVIOUS
      <4> QED
        BY <4>3, <4>4
    <3> QED
      BY <3>1
  <2>3. IsFiniteSet(IF t = "NAK" THEN {} ELSE Cs)
    BY <2>1, <2>2, FS_EmptySet
  <2> HIDE DEF Cs
  <2> QED
    BY <1>1, <2>2, <2>3, FS_Union
<1>10. \A o \in OptionsOf(t, s) :
         \/ o \in {T, I, Other}
         \/ t # "NAK" /\ \E k \in Configured : o = C(k)
  BY <1>1
<1>11. \A o \in OptionsOf(t, s) :
         o \in Option /\ Means(o, Codes[t], Config[s], Host[s]) /\ o.code \notin Single
  <2>1. Means(T, Codes[t], Config[s], Host[s]) /\ Means(I, Codes[t], Config[s], Host[s])
    BY <1>5, <1>6, CodesApart DEF Means
  <2>2. Means(Other, Codes[t], Config[s], Host[s])
    BY <1>8 DEF Means, Looked
  <2>3. \A k \in Configured : Means(C(k), Codes[t], Config[s], Host[s])
    BY <1>7, CodesApart DEF Means
  <2> QED
    BY <1>5, <1>6, <1>7, <1>8, <1>10, <2>1, <2>2, <2>3, CodesApart
<1>12. \A k \in Configured : (\E o \in OptionsOf(t, s) : o.code = k) <=> t # "NAK"
  <2>1. ASSUME NEW k \in Configured, t # "NAK"
        PROVE  \E o \in OptionsOf(t, s) : o.code = k
    <3>1. C(k) \in OptionsOf(t, s)
      BY <1>1, <2>1
    <3> QED
      BY <1>7, <3>1
  <2>2. ASSUME NEW k \in Configured, NEW o \in OptionsOf(t, s), o.code = k, t = "NAK"
        PROVE  FALSE
    BY <1>5, <1>6, <1>8, <1>10, <2>2, CodesApart DEF Looked
  <2> QED
    BY <2>1, <2>2
<1> QED
  BY <1>1, <1>5, <1>6, <1>9, <1>11, <1>12 DEF Complete

\* An order of a finite set has each of its members.
LEMMA OrderIs ==
  ASSUME NEW S, IsFiniteSet(S), NEW o \in SetToSeqs(S)
  PROVE  /\ Cardinality(S) \in Nat /\ o \in [1 .. Cardinality(S) -> S]
         /\ \A x \in S : \E k \in 1 .. Cardinality(S) : o[k] = x
<1> DEFINE N == Cardinality(S)
<1>1. N \in Nat
  BY FS_CardinalityType
<1>2. o \in [1 .. N -> S] /\ \A j, k \in 1 .. N : j # k => o[j] # o[k]
  BY DEF SetToSeqs
<1>3. o \in Injection(1 .. N, S)
  BY <1>2 DEF Injection, IsInjective
<1>4. Cardinality(1 .. N) = N
  BY <1>1, FS_Interval
<1>5. o \in Surjection(1 .. N, S)
  BY <1>3, <1>4, FS_Injection
<1> QED
  BY <1>1, <1>2, <1>5 DEF Surjection

\* Options one behind the other, with pads and ends behind them, are read as those options.
LEMMA OptionsRead ==
  ASSUME NEW n \in Nat \ {0}, NEW m \in 0 .. n, NEW o \in [1 .. n -> Option],
         NEW t, NEW c \in [Configured -> FourBytes], NEW h \in FourBytes,
         NEW config \in [Configured -> FourBytes], NEW server \in FourBytes,
         \A k \in 1 .. m : Means(o[k], t, c, h),
         \A k \in 1 .. m : o[k].code \in Single => k = 1,
         \A k \in m + 1 .. n : o[k].code \in Single
  PROVE  LET b == FlattenSeq([k \in 1 .. n |-> Encode(o[k])])
         IN  b \in Seq(Bytes) /\ Told(Parse(b, h, config, server), o, m, t, c, h, config, server)
<1> DEFINE piece == [k \in 1 .. n |-> Encode(o[k])]
           b == FlattenSeq(piece)
<1>1. ASSUME NEW k \in 1 .. n
      PROVE  /\ piece[k] = Encode(o[k]) /\ piece[k] \in Seq(Bytes)
             /\ Len(piece[k]) \in Nat /\ Len(piece[k]) > 0
             /\ o[k].code \in Single => Len(piece[k]) = 1 /\ piece[k][1] = o[k].code
  <2>1. o[k] \in Option
    OBVIOUS
  <2> QED
    BY <2>1, EncodeIs
<1>2. piece \in [1 .. n -> Seq(Bytes)]
  BY <1>1
<1> HIDE DEF piece
<1>3. b \in Seq(Bytes) /\ \E pos : Laid(b, piece, n, pos)
  BY <1>2, FlattenIs
<1> HIDE DEF b
<1>4. PICK pos : Laid(b, piece, n, pos)
  BY <1>3
<1>5. \A k \in 0 .. n : pos[k] \in Nat /\ pos[k] <= Len(b)
  <2>1. \A k \in 1 .. n : Len(piece[k]) > 0
    BY <1>1
  <2>2. n \in Nat
    OBVIOUS
  <2> QED
    BY <1>2, <1>3, <1>4, <2>1, <2>2, LaidIn
<1>6. /\ pos[n] = Len(b)
      /\ \A k \in 1 .. n :
           /\ pos[k] = pos[k - 1] + Len(piece[k])
           /\ \A j \in 1 .. Len(piece[k]) : b[pos[k - 1] + j] = piece[k][j]
  BY <1>4 DEF Laid
<1> DEFINE G == { j \in 0 .. n - m : pos[m + j] = pos[m] + j }
<1>7. \A j \in 0 .. n - m : j \in G
  <2>1. 0 \in G
    <3>1. m + 0 = m /\ 0 \in 0 .. n - m /\ pos[m] \in Nat
      BY <1>5
    <3> QED
      BY <3>1
  <2>2. ASSUME NEW j \in 1 .. n - m, j - 1 \in G
        PROVE  j \in G
    <3>1. m + j \in m + 1 .. n /\ m + j \in 1 .. n /\ m + j - 1 = m + (j - 1) /\ m \in 0 .. n
      OBVIOUS
    <3>2. Len(piece[m + j]) = 1 /\ pos[m + (j - 1)] = pos[m] + (j - 1)
      BY <1>1, <2>2, <3>1
    <3>3. pos[m + j] = pos[m + j - 1] + Len(piece[m + j])
      BY <1>6, <3>1
    <3>4. pos[m] \in Nat /\ j \in 0 .. n - m
      BY <1>5, <3>1
    <3> QED
      BY <3>1, <3>2, <3>3, <3>4
  <2>3. n - m \in Nat
    OBVIOUS
  <2> HIDE DEF G
  <2> QED
    BY <2>1, <2>2, <2>3, UpTo
<1>8. ASSUME NEW q \in pos[m] + 1 .. Len(b)
      PROVE  b[q] \in Single
  <2>1. pos[m] \in Nat /\ pos[n] = pos[m] + (n - m) /\ n - m \in Nat
    <3>1. n - m \in 0 .. n - m /\ m + (n - m) = n
      OBVIOUS
    <3>2. n - m \in G
      BY <1>7, <3>1
    <3> QED
      BY <1>5, <3>1, <3>2
  <2>2. PICK j \in 1 .. n - m : q = pos[m] + j
    <3>1. q - pos[m] \in 1 .. n - m /\ q = pos[m] + (q - pos[m])
      BY <1>6, <2>1
    <3> QED
      BY <3>1
  <2>3. m + j \in m + 1 .. n /\ m + j \in 1 .. n /\ m + j - 1 = m + (j - 1)
        /\ j - 1 \in 0 .. n - m
    OBVIOUS
  <2>4. Len(piece[m + j]) = 1 /\ piece[m + j][1] \in Single /\ 1 \in 1 .. 1
    BY <1>1, <2>3
  <2>5. b[pos[m + j - 1] + 1] = piece[m + j][1]
    <3>1. \A i \in 1 .. Len(piece[m + j]) : b[pos[m + j - 1] + i] = piece[m + j][i]
      BY <1>6, <2>3
    <3> QED
      BY ONLY <2>4, <3>1
  <2>6. pos[m + (j - 1)] = pos[m] + (j - 1)
    <3>1. j - 1 \in G
      BY <1>7, <2>3
    <3> QED
      BY <3>1
  <2>7. pos[m + j - 1] + 1 = q
    BY <2>1, <2>2, <2>3, <2>6
  <2> QED
    BY <2>4, <2>5, <2>7
<1>9. Told(Parse(b, h, config, server), o, m, t, c, h, config, server)
  <2>1. Laid(b, [k \in 1 .. n |-> Encode(o[k])], n, pos)
    BY <1>4 DEF piece
  <2>2. n \in Nat
    OBVIOUS
  <2> QED
    BY <1>3, <1>8, <2>1, <2>2, ParseReads
<1> QED
  BY <1>3, <1>9 DEF b, piece

\* What a client is left with: what the server meant.
Meant(f, t, s, config, server) ==
  /\ f.type = Codes[t]
  /\ f.conf = IF t = "NAK" THEN config ELSE Config[s]
  /\ f.serverIp = IF TakesServer(server, Host[s]) THEN Host[s] ELSE server

\* Parse finds something in any message.
LEMMA ParseIs ==
  ASSUME NEW buffer \in Seq(Bytes), NEW h,
         NEW config \in [Configured -> FourBytes], NEW server \in FourBytes
  PROVE  Parse(buffer, h, config, server) \in Found
<1>1. PICK f : Rounds(f, buffer, h, config, server)
               /\ Parse(buffer, h, config, server) = f[Len(buffer)]
  BY ParseRuns
<1>2. f \in [0 .. Len(buffer) -> Found] /\ Len(buffer) \in 0 .. Len(buffer)
  BY <1>1 DEF Rounds
<1> QED
  BY <1>1, <1>2

\* All options of a reply were read, in some order and with pads.
LEMMA AllTold ==
  ASSUME NEW t \in ReplyType, NEW s \in Server,
         NEW config \in [Configured -> FourBytes], NEW server \in FourBytes,
         NEW f \in Found, NEW o, NEW m,
         Told(f, o, m, Codes[t], Config[s], Host[s], config, server),
         \A x \in Looked : Occurs(o, m, x) <=> \E p \in OptionsOf(t, s) : p.code = x
  PROVE  Meant(f, t, s, config, server)
<1>1. Complete(OptionsOf(t, s), t, s)
  BY OptionsAre
<1>2. \A x \in Looked : Occurs(o, m, x) <=> (x \in Configured => t # "NAK")
  BY <1>1, CodesApart DEF Complete, Looked
<1>3. f.conf \in [Configured -> FourBytes] /\ Config[s] \in [Configured -> FourBytes]
  BY ServersAre DEF Found
<1>4. \A k \in Configured : f.conf[k] = IF t = "NAK" THEN config[k] ELSE Config[s][k]
  BY <1>2 DEF Told, Looked
<1>5. f.conf = IF t = "NAK" THEN config ELSE Config[s]
  BY <1>3, <1>4
<1>6. Occurs(o, m, dhcpMessageType) /\ Occurs(o, m, dhcpServerIdentifier)
  BY <1>2, CodesApart DEF Looked
<1> QED
  BY <1>5, <1>6 DEF Told, Meant

\* The loop over a whole message leaves the client with what its server meant.
LEMMA MessageReads ==
  ASSUME NEW t \in ReplyType, NEW s \in Server, NEW b \in Messages(t, s),
         NEW config \in [Configured -> FourBytes], NEW server \in FourBytes
  PROVE  /\ Parse(b, Host[s], config, server) \in Found
         /\ Meant(Parse(b, Host[s], config, server), t, s, config, server)
<1> DEFINE S == OptionsOf(t, s)
           N == Cardinality(S)
           Joined(q) == FlattenSeq([k \in DOMAIN q |-> Encode(q[k])])
           Padded(o) == << Pad >> \o o \o << End, Pad, Pad >>
           Works(x) == /\ Parse(x, Host[s], config, server) \in Found
                       /\ Meant(Parse(x, Host[s], config, server), t, s, config, server)
<1>1. Host[s] \in FourBytes /\ Config[s] \in [Configured -> FourBytes]
  BY ServersAre
<1>2. IsFiniteSet(S) /\ Complete(S, t, s)
  BY OptionsAre
<1>3. ASSUME NEW n \in Nat \ {0}, NEW m \in 0 .. n, NEW q \in [1 .. n -> Option],
             \A k \in 1 .. m : Means(q[k], Codes[t], Config[s], Host[s]),
             \A k \in 1 .. m : q[k].code \in Single => k = 1,
             \A k \in m + 1 .. n : q[k].code \in Single,
             \A x \in Looked : Occurs(q, m, x) <=> \E p \in S : p.code = x
      PROVE  Works(Joined(q))
  <2> DEFINE x == FlattenSeq([k \in 1 .. n |-> Encode(q[k])])
  <2>1. /\ x \in Seq(Bytes)
        /\ Told(Parse(x, Host[s], config, server), q, m, Codes[t], Config[s], Host[s],
                config, server)
    BY <1>1, <1>3, OptionsRead
  <2>2. Joined(q) = x
    <3>1. DOMAIN q = 1 .. n
      OBVIOUS
    <3> QED
      BY <3>1
  <2> HIDE DEF x, Joined
  <2>3. Parse(x, Host[s], config, server) \in Found
    BY <2>1, ParseIs
  <2>4. Meant(Parse(x, Host[s], config, server), t, s, config, server)
    BY <1>3, <2>1, <2>3, AllTold
  <2> QED
    BY <2>2, <2>3, <2>4
<1>4. /\ \A o \in S : o \in Option /\ Means(o, Codes[t], Config[s], Host[s])
                      /\ o.code \notin Single
      /\ \E o \in S : TRUE
  BY <1>2 DEF Complete
<1> HIDE DEF S
<1>5. \A o \in SetToSeqs(S) : /\ N \in Nat /\ o \in [1 .. N -> S]
                              /\ \A x \in S : \E k \in 1 .. N : o[k] = x
  BY <1>2, OrderIs
<1> HIDE DEF N
<1>6. N \in Nat \ {0} \/ SetToSeqs(S) = {}
  BY <1>4, <1>5
<1>7. ASSUME NEW o \in SetToSeqs(S)
      PROVE  Works(Joined(o))
  <2>1. N \in Nat \ {0} /\ o \in [1 .. N -> Option]
    BY <1>4, <1>5, <1>6, <1>7
  <2>2. \A k \in 1 .. N : o[k] \in S
    BY <1>5
  <2>3. /\ \A k \in 1 .. N : Means(o[k], Codes[t], Config[s], Host[s])
        /\ \A k \in 1 .. N : o[k].code \in Single => k = 1
        /\ \A k \in N + 1 .. N : o[k].code \in Single
        /\ N \in 0 .. N
    BY <1>4, <2>1, <2>2
  <2>4. \A x : Occurs(o, N, x) <=> \E p \in S : p.code = x
    BY <1>5, <2>2 DEF Occurs
  <2> HIDE DEF Works, Joined
  <2> QED
    BY <1>3, <2>1, <2>3, <2>4
<1>8. ASSUME NEW o \in SetToSeqs(S)
      PROVE  Works(Joined(Padded(o)))
  <2> DEFINE q == Padded(o)
             n == N + 4
             m == N + 1
  <2>1. N \in Nat \ {0} /\ o \in [1 .. N -> Option]
    BY <1>4, <1>5, <1>6, <1>8
  <2>2. Pad \in Option /\ End \in Option /\ Pad.code \in Single /\ End.code \in Single
    BY DEF Pad, End, Option, Single, padOption, endOption, Bytes
  <2>3. /\ q \in [1 .. n -> Option]
        /\ q[1] = Pad /\ \A k \in 1 .. N : q[k + 1] = o[k]
        /\ \A k \in m + 1 .. n : q[k] \in {Pad, End}
    <3> DEFINE tail == << End, Pad, Pad >>
    <3>1. /\ o \in Seq(Option) /\ Len(o) = N
          /\ << Pad >> \in Seq(Option) /\ Len(<< Pad >>) = 1 /\ << Pad >>[1] = Pad
          /\ tail \in Seq(Option) /\ Len(tail) = 3 /\ \A k \in 1 .. 3 : tail[k] \in {Pad, End}
      BY <2>1, <2>2
    <3> HIDE DEF tail
    <3> DEFINE u == << Pad >> \o o
    <3>2. /\ u \in Seq(Option) /\ Len(u) = 1 + N
          /\ u[1] = Pad /\ \A k \in 1 .. N : u[k + 1] = o[k]
      BY <2>1, <3>1
    <3> HIDE DEF u
    <3>3. /\ u \o tail \in Seq(Option) /\ Len(u \o tail) = n
          /\ \A k \in 1 .. m : (u \o tail)[k] = u[k]
          /\ \A k \in m + 1 .. n : (u \o tail)[k] = tail[k - m]
      <4>1. /\ u \o tail \in Seq(Option) /\ Len(u \o tail) = Len(u) + Len(tail)
            /\ \A k \in 1 .. Len(u) + Len(tail) :
                 (u \o tail)[k] = IF k <= Len(u) THEN u[k] ELSE tail[k - Len(u)]
        BY <3>1, <3>2, ConcatProperties
      <4>2. Len(u) = m /\ Len(u) + Len(tail) = n /\ m \in Nat /\ n \in Nat /\ m < n
        BY <2>1, <3>1, <3>2
      <4> HIDE DEF m, n
      <4>3. \A k \in 1 .. n :
              (u \o tail)[k] = IF k <= m THEN u[k] ELSE tail[k - m]
        BY <4>1, <4>2
      <4>4. \A k \in 1 .. m : k \in 1 .. n /\ k <= m
        BY <4>2
      <4>5. \A k \in m + 1 .. n : k \in 1 .. n /\ ~(k <= m)
        BY <4>2
      <4> QED
        BY <4>1, <4>2, <4>3, <4>4, <4>5
    <3>4. q = u \o tail
      BY DEF u, tail
    <3> HIDE DEF q
    <3>5. q \in [1 .. n -> Option]
      <4>1. q \in Seq(Option) /\ Len(q) = n
        BY <3>3, <3>4
      <4> QED
        BY <4>1, LenProperties
    <3>6. q[1] = Pad /\ \A k \in 1 .. N : q[k + 1] = o[k]
      BY <2>1, <3>2, <3>3, <3>4
    <3>7. \A k \in m + 1 .. n : q[k] \in {Pad, End}
      <4>1. \A k \in m + 1 .. n : k - m \in 1 .. 3
        BY <2>1
      <4> QED
        BY <3>1, <3>3, <3>4, <4>1
    <3> QED
      BY <3>5, <3>6, <3>7
  <2> HIDE DEF q
  <2>4. \A k \in 2 .. m : q[k] \in S /\ k - 1 \in 1 .. N /\ q[k] = o[k - 1]
    <3>1. \A k \in 2 .. m : k - 1 \in 1 .. N /\ (k - 1) + 1 = k
      BY <2>1
    <3>2. \A k \in 2 .. m : q[k] = o[k - 1]
      BY <2>3, <3>1
    <3> QED
      BY <1>5, <3>1, <3>2
  <2>5. Means(Pad, Codes[t], Config[s], Host[s])
    BY <2>2, CodesApart DEF Means
  <2>6. \A k \in 1 .. m : k = 1 \/ k \in 2 .. m
    BY <2>1
  <2>7. /\ \A k \in 1 .. m : Means(q[k], Codes[t], Config[s], Host[s])
        /\ \A k \in 1 .. m : q[k].code \in Single => k = 1
    BY <1>4, <2>3, <2>4, <2>5, <2>6
  <2>8. \A k \in m + 1 .. n : q[k].code \in Single
    BY <2>2, <2>3
  <2>9. ASSUME NEW x \in Looked
        PROVE  Occurs(q, m, x) <=> \E p \in S : p.code = x
    <3>1. x \notin Single
      BY CodesApart DEF Looked
    <3>2. ASSUME Occurs(q, m, x)
          PROVE  \E p \in S : p.code = x
      BY <2>2, <2>3, <2>4, <2>6, <3>1, <3>2 DEF Occurs
    <3>3. ASSUME NEW p \in S, p.code = x
          PROVE  Occurs(q, m, x)
      <4>1. PICK k \in 1 .. N : o[k] = p
        BY <1>5
      <4>2. k + 1 \in 1 .. m /\ q[k + 1] = p
        BY <2>1, <2>3, <4>1
      <4> QED
        BY <3>3, <4>2 DEF Occurs
    <3> QED
      BY <3>2, <3>3
  <2>10. n \in Nat \ {0} /\ m \in 0 .. n
    BY <2>1
  <2> HIDE DEF n, m, Works, Joined
  <2>11. Works(Joined(q))
    BY <1>3, <2>3, <2>7, <2>8, <2>9, <2>10
  <2> QED
    BY <2>11 DEF q
<1>9. \E o \in SetToSeqs(S) : b = Joined(o) \/ b = Joined(Padded(o))
  BY DEF Messages, S
<1> HIDE DEF Works, Joined, Padded
<1>10. Works(b)
  BY <1>7, <1>8, <1>9
<1> QED
  BY <1>10 DEF Works

-----------------------------------------------------------------------------
(* What the client hears is what the server means. *)

\* The bytes of a configuration, an address or a type stand for that one and no other.
LEMMA BytesKnown ==
  /\ \A c \in Server \cup {None} :
       ConfBytes(c) \in [Configured -> FourBytes] /\ Known(ConfBytes(c), ConfBytes) = c
  /\ \A s \in Server \cup {None} :
       HostBytes(s) \in FourBytes /\ Known(HostBytes(s), HostBytes) = s
  /\ \A t \in ReplyType : KnownType(Codes[t]) = t
<1>1. \A c, d \in Server \cup {None} : ConfBytes(c) = ConfBytes(d) => c = d
  BY ClientAssumption DEF ConfBytes
<1>2. \A c, d \in Server \cup {None} : HostBytes(c) = HostBytes(d) => c = d
  BY ClientAssumption DEF HostBytes
<1>3. \A c \in Server \cup {None} : ConfBytes(c) \in [Configured -> FourBytes]
  BY ServersAre DEF ConfBytes
<1>4. \A s \in Server \cup {None} : HostBytes(s) \in FourBytes
  BY ServersAre DEF HostBytes
<1>5. \A c \in Server \cup {None} : Known(ConfBytes(c), ConfBytes) = c
  BY <1>1 DEF Known
<1>6. \A s \in Server \cup {None} : Known(HostBytes(s), HostBytes) = s
  BY <1>2 DEF Known
<1>7. \A t \in ReplyType : KnownType(Codes[t]) = t
  BY CodesAre DEF KnownType
<1> QED
  BY <1>3, <1>4, <1>5, <1>6, <1>7

\* A server is remembered by its own address, and only the first.
LEMMA FirstServer ==
  ASSUME NEW s \in Server, NEW i \in Server \cup {None}
  PROVE  (IF TakesServer(HostBytes(i), Host[s]) THEN Host[s] ELSE HostBytes(i))
           = HostBytes(IF i = None THEN s ELSE i)
<1>1. s # None
  BY DhcpAssumption
<1>2. CASE i = None
  BY <1>1, <1>2 DEF TakesServer, HostBytes
<1>3. CASE i # None
  BY <1>1, <1>3, ClientAssumption DEF TakesServer, HostBytes
<1> QED
  BY <1>2, <1>3

\* What the parser makes of a reply is what Dhcp says the client hears.
LEMMA HeardIs ==
  ASSUME NEW t \in ReplyType, NEW s \in Server, NEW c \in Server \cup {None},
         NEW i \in Server \cup {None}, NEW h \in Heard[t][s][c][i]
  PROVE  /\ h.type = t
         /\ h.conf = IF t = "NAK" THEN c ELSE s
         /\ h.serverIp = IF i = None THEN s ELSE i
<1> DEFINE F == { Parse(b, Host[s], ConfBytes(c), HostBytes(i)) : b \in Messages(t, s) }
           H(f) == [type |-> KnownType(f.type), conf |-> Known(f.conf, ConfBytes),
                    serverIp |-> Known(f.serverIp, HostBytes)]
<1>1. Heard[t][s][c][i] = { H(f) : f \in F }
  BY CodesAre DEF Heard
<1>2. \A f \in F : Meant(f, t, s, ConfBytes(c), HostBytes(i))
  BY BytesKnown, MessageReads
<1> HIDE DEF F
<1>3. PICK f \in F : h = H(f)
  BY <1>1
<1>4. Meant(f, t, s, ConfBytes(c), HostBytes(i))
  BY <1>2, <1>3
<1>5. f.conf = ConfBytes(IF t = "NAK" THEN c ELSE s)
  <2>1. s # None
    BY DhcpAssumption
  <2> QED
    BY <1>4, <2>1 DEF Meant, ConfBytes
<1>6. f.serverIp = HostBytes(IF i = None THEN s ELSE i)
  BY <1>4, FirstServer DEF Meant
<1>7. f.type = Codes[t]
  BY <1>4 DEF Meant
<1>8. h.type = KnownType(f.type) /\ h.conf = Known(f.conf, ConfBytes)
      /\ h.serverIp = Known(f.serverIp, HostBytes)
  BY <1>3
<1>9. h.conf = IF t = "NAK" THEN c ELSE s
  BY <1>5, <1>8, BytesKnown
<1>10. h.serverIp = IF i = None THEN s ELSE i
  BY <1>6, <1>8, BytesKnown
<1> QED
  BY <1>7, <1>8, <1>9, <1>10, BytesKnown

\* So the step that reads the bytes is the step of Dhcp.
LEMMA ReadsOurs ==
  ASSUME TypeOK, ReadOurReply
  PROVE  ReadOurs
<1> DEFINE m == Head(rx)
<1>1. rx # << >> /\ m \notin {Foreign, Stray}
  BY DEF ReadOurReply, Ours
<1>2. m \in Reply
  BY <1>1 DEF TypeOK
<1>3. m.type \in ReplyType /\ m.from \in Server
  BY <1>2 DEF Reply, ReplyType
<1>4. conf \in Server \cup {None} /\ serverIp \in Server \cup {None}
  BY DEF TypeOK
<1> HIDE DEF m
<1>5. PICK h \in Heard[m.type][m.from][conf][serverIp] :
        type' = h.type /\ conf' = h.conf /\ serverIp' = h.serverIp
  BY DEF ReadOurReply, m
<1>6. /\ h.type = m.type /\ h.conf = IF m.type = "NAK" THEN conf ELSE m.from
      /\ h.serverIp = IF serverIp = None THEN m.from ELSE serverIp
  BY <1>3, <1>4, <1>5, HeardIs
<1> QED
  BY <1>5, <1>6 DEF ReadOurReply, ReadOurs, m

\* And every step of the client that parses is a step of Dhcp's.
LEMMA ClientStep ==
  ASSUME TypeOK, [NextClient]_vars
  PROVE  [Next]_vars
BY ReadsOurs DEF NextClient, RunClient, Next, Run

\* Parsing the options is as good as being told: the client that parses implements the one
\* that hears what servers mean, for any servers, addresses and configurations, any order
\* of their options and any option it passes over (Dhcp.cpp:272-326).
THEOREM ClientImplements == SpecClient => ImplementsDhcp
<1>1. Init /\ [][NextClient]_vars => []IInv
  <2>1. IInv /\ [NextClient]_vars => IInv'
    BY ClientStep, InvStep DEF IInv
  <2> QED
    BY <2>1, InitInv, PTL
<1>2. IInv /\ [NextClient]_vars => [Next]_vars
  BY ClientStep DEF IInv
<1> QED
  BY <1>1, <1>2, PTL DEF SpecClient, ImplementsDhcp

\* So it uses an address only while it has a lease (Dhcp.cpp:65-72, 90-95, 253-259), and
\* asks only for what it was offered (Dhcp.cpp:178-196, 310-317).
THEOREM ClientKeeps == SpecClient => [](TypeOK /\ LeaseTrue /\ RequestTrue)
<1>1. ImplementsDhcp => []IInv
  BY InitInv, InvStep, PTL DEF ImplementsDhcp
<1>2. IInv => TypeOK /\ LeaseTrue /\ RequestTrue
  BY DEF IInv, Learnt
<1> QED
  BY <1>1, <1>2, ClientImplements, PTL
=============================================================================
