---------------------------- MODULE LookupProofs ----------------------------
(***************************************************************************)
(* Sockets, answers and dates of Lookup, for any number of sockets and     *)
(* queries, any names, records and years, and any memory behind an answer. *)
(*                                                                         *)
(* Sockets: a socket a client has is the one its query was sent from, and  *)
(* what waits in a socket was sent to its port.  So an answer that is read,*)
(* and that another client waits for, would be in a socket that both have; *)
(* and holder names only one of them.                                      *)
(*                                                                         *)
(* What is read: a datagram that waits was said by a server, to a question *)
(* with the labels of the name, and nothing changes what was said; so what *)
(* a client holds for the answer is what finished() makes of a message     *)
(* whose parts lie one behind the other, and of the cells behind it.       *)
(*                                                                         *)
(* The loops of QName, dumpName, Answers and date() are functions defined  *)
(* by recursion: that there are such functions is Recursive, and what they *)
(* come to is shown along the labels, the records and the months.  That of *)
(* dumpName() counts its rounds: along the labels of a name it ends before *)
(* the rounds do.                                                          *)
(***************************************************************************)
EXTENDS Lookup, SequenceTheorems, WellFoundedInduction, TLAPS

Ranges ==
  /\ holder \in [Sock -> Client \cup {"other", "none"}]
  /\ queue \in [Sock -> Seq(Query)]
  /\ count \in 0 .. MaxQuery
  /\ port \in [Query -> Sock \cup {NoSock}]
  /\ sock \in [Client -> Sock \cup {NoSock}]
  /\ query \in [Client -> 0 .. MaxQuery]
  /\ waiting \in [Client -> BOOLEAN]
  /\ from \in [Client -> 0 .. MaxQuery]

\* A client whose query is over has forgotten its socket.
Forgets == \A c \in Client : ~waiting[c] => sock[c] = NoSock

\* The query a client waits for was sent from the socket it has.
SentFrom ==
  \A c \in Client : waiting[c] /\ sock[c] # NoSock =>
    query[c] \in 1 .. count /\ port[query[c]] = sock[c]

\* What waits in a socket answers a query that was sent from its port.
Arrived ==
  \A s \in Sock : \A k \in DOMAIN queue[s] :
    queue[s][k] <= count /\ port[queue[s][k]] = s

LookupInv == Ranges /\ NoSocketLeft /\ Forgets /\ SentFrom /\ Arrived

-----------------------------------------------------------------------------
\* A set of numbers that has a member has a smallest one.
LEMMA HasFirst ==
  ASSUME NEW S \in SUBSET Nat, S # {}
  PROVE  \E k \in S : \A j \in S : k <= j
<1>1. \E x \in S : \A y \in S : ~ << y, x >> \in OpToRel(<, Nat)
  BY NatLessThanWellFounded, WFMin
<1>2. PICK x \in S : \A y \in S : ~ << y, x >> \in OpToRel(<, Nat)
  BY <1>1
<1>3. \A y \in S : << y, x >> \in OpToRel(<, Nat) <=> y < x
  BY DEF OpToRel
<1>4. \A y \in S : ~ y < x
  BY <1>2, <1>3, Zenon
<1>5. \A y \in S : x <= y
  BY <1>4
<1> QED
  BY <1>5

\* Min() takes it.
LEMMA SmallestIs ==
  ASSUME NEW S \in SUBSET Nat, S # {}
  PROVE  Min(S) \in S
BY HasFirst DEF Min

\* The socket that is opened is one that was closed.
LEMMA TakesClosed ==
  ASSUME Closed # {}
  PROVE  Min(Closed) \in Sock /\ holder[Min(Closed)] = "none"
<1>1. Closed \in SUBSET Nat
  BY LookupAssumption DEF Closed, Sock
<1> QED
  BY <1>1, SmallestIs DEF Closed

\* Sockets and the mark for none are told apart, and so are clients and others.
LEMMA SockRange ==
  /\ NoSock \notin Sock
  /\ "other" \notin Client /\ "none" \notin Client
BY LookupAssumption DEF NoSock, Sock, Client

\* At first nothing is open and nothing has been asked.
LEMMA InitHolds == Init => LookupInv
<1> SUFFICES ASSUME Init PROVE LookupInv
  OBVIOUS
<1> USE LookupAssumption DEF Init
<1>1. Ranges
  BY DEF Ranges, Client, Query, NoSock, Sock
<1>2. NoSocketLeft
  BY SockRange DEF NoSocketLeft
<1>3. Forgets /\ SentFrom /\ Arrived
  BY DEF Forgets, SentFrom, Arrived
<1> QED
  BY <1>1, <1>2, <1>3 DEF LookupInv

-----------------------------------------------------------------------------
(* Every step keeps the invariant. *)

\* A query is sent: the socket is new to its client, and empty.
LEMMA AskKeeps ==
  ASSUME LookupInv, NEW c \in Client, Ask(c)
  PROVE  LookupInv'
<1> DEFINE s == Min(Closed)
<1>1. s \in Sock /\ holder[s] = "none"
  BY TakesClosed DEF Ask
<1>2. /\ ~waiting[c] /\ count + 1 \in Query /\ count + 1 \in Nat
      /\ holder' = [holder EXCEPT ![s] = c]
      /\ queue' = [queue EXCEPT ![s] = << >>]
      /\ sock' = [sock EXCEPT ![c] = s]
      /\ port' = [port EXCEPT ![count + 1] = s]
      /\ count' = count + 1 /\ count' \in 0 .. MaxQuery
      /\ query' = [query EXCEPT ![c] = count + 1]
      /\ waiting' = [waiting EXCEPT ![c] = TRUE]
      /\ from' = [from EXCEPT ![c] = 0]
  BY LookupAssumption DEF Ask, SourcePort, LookupInv, Ranges, Query
<1> HIDE DEF s
<1>3. Ranges'
  BY <1>1, <1>2, LookupAssumption DEF LookupInv, Ranges, Query
<1>4. NoSocketLeft'
  <2> SUFFICES ASSUME NEW d \in Client
               PROVE  { t \in Sock : holder'[t] = d } =
                        IF waiting'[d] /\ sock'[d] # NoSock THEN { sock'[d] } ELSE {}
    BY DEF NoSocketLeft
  <2>1. { t \in Sock : holder[t] = d } =
          IF waiting[d] /\ sock[d] # NoSock THEN { sock[d] } ELSE {}
    BY DEF LookupInv, NoSocketLeft
  <2>2. CASE d = c
    BY <2>1, <2>2, <1>1, <1>2, SockRange DEF LookupInv, Ranges
  <2>3. CASE d # c
    BY <2>1, <2>3, <1>1, <1>2, SockRange DEF LookupInv, Ranges
  <2> QED
    BY <2>2, <2>3
<1>5. Forgets'
  BY <1>1, <1>2 DEF LookupInv, Ranges, Forgets
<1>6. SentFrom'
  BY <1>1, <1>2 DEF LookupInv, Ranges, SentFrom, Query
<1>7. Arrived'
  <2> SUFFICES ASSUME NEW t \in Sock, NEW k \in DOMAIN queue'[t]
               PROVE  queue'[t][k] <= count' /\ port'[queue'[t][k]] = t
    BY DEF Arrived
  <2>1. t # s /\ queue'[t] = queue[t]
    BY <1>1, <1>2 DEF LookupInv, Ranges
  <2>2. queue[t][k] \in Query /\ queue[t][k] <= count /\ port[queue[t][k]] = t
    BY <2>1 DEF LookupInv, Ranges, Arrived
  <2> QED
    BY <2>1, <2>2, <1>2 DEF LookupInv, Ranges, Query
<1> QED
  BY <1>3, <1>4, <1>5, <1>6, <1>7 DEF LookupInv

\* There is no socket for a query.
LEMMA AskFailsKeeps ==
  ASSUME LookupInv, NEW c \in Client, AskFails(c)
  PROVE  LookupInv'
<1> USE DEF LookupInv, AskFails, pool, wire
<1>1. Ranges'
  BY LookupAssumption DEF Ranges
<1>2. NoSocketLeft'
  <2> SUFFICES ASSUME NEW d \in Client
               PROVE  { t \in Sock : holder'[t] = d } =
                        IF waiting'[d] /\ sock'[d] # NoSock THEN { sock'[d] } ELSE {}
    BY DEF NoSocketLeft
  <2>1. { t \in Sock : holder[t] = d } =
          IF waiting[d] /\ sock[d] # NoSock THEN { sock[d] } ELSE {}
    BY DEF NoSocketLeft
  <2> QED
    BY <2>1 DEF Ranges
<1>3. Forgets' /\ SentFrom' /\ Arrived'
  BY DEF Ranges, Forgets, SentFrom, Arrived
<1> QED
  BY <1>1, <1>2, <1>3

\* A query is over: the socket is closed and empty, the client has forgotten it.
LEMMA EndKeeps ==
  ASSUME LookupInv, NEW c \in Client, NEW result, CloseAfter(c, result),
         waiting' = [waiting EXCEPT ![c] = FALSE],
         from' \in [Client -> 0 .. MaxQuery],
         UNCHANGED << count, port, query >>
  PROVE  LookupInv'
<1> USE DEF LookupInv, CloseAfter
<1>1. Ranges'
  <2>1. holder' \in [Sock -> Client \cup {"other", "none"}]
    BY DEF Ranges
  <2>2. << >> \in Seq(Query)
    OBVIOUS
  <2>3. queue' \in [Sock -> Seq(Query)]
    BY <2>2 DEF Ranges
  <2>4. sock' \in [Client -> Sock \cup {NoSock}] /\ waiting' \in [Client -> BOOLEAN]
    BY DEF Ranges
  <2> QED
    BY <2>1, <2>3, <2>4 DEF Ranges
<1>2. NoSocketLeft'
  <2> SUFFICES ASSUME NEW d \in Client
               PROVE  { t \in Sock : holder'[t] = d } =
                        IF waiting'[d] /\ sock'[d] # NoSock THEN { sock'[d] } ELSE {}
    BY DEF NoSocketLeft
  <2>1. { t \in Sock : holder[t] = d } =
          IF waiting[d] /\ sock[d] # NoSock THEN { sock[d] } ELSE {}
    BY DEF NoSocketLeft
  <2>2. CASE d = c
    <3>1. \A t \in Sock : holder[t] = c => t = sock[c]
      BY <2>1, <2>2
    <3>2. \A t \in Sock : holder'[t] # c
      BY <3>1, SockRange
    <3> QED
      BY <2>2, <3>2 DEF Ranges
  <2>3. CASE d # c
    <3>1. \A t \in Sock : holder[t] = d => t # sock[c]
      BY <2>3 DEF NoSocketLeft, Forgets, Ranges
    <3>2. { t \in Sock : holder'[t] = d } = { t \in Sock : holder[t] = d }
      BY <3>1, SockRange
    <3> QED
      BY <3>2, <2>1, <2>3 DEF Ranges
  <2> QED
    BY <2>2, <2>3
<1>3. Forgets' /\ SentFrom'
  BY DEF Ranges, Forgets, SentFrom
<1>4. Arrived'
  BY DEF Ranges, Arrived
<1> QED
  BY <1>1, <1>2, <1>3, <1>4

\* With enough received there is a datagram to be read, from the port of the socket.
LEMMA HeadArrived ==
  ASSUME LookupInv, NEW c \in Client, Available(c) >= Needed(c)
  PROVE  LET q == Head(queue[sock[c]]) IN
           sock[c] \in Sock /\ q \in Query /\ port[q] = sock[c]
<1>1. sock[c] \in Sock /\ queue[sock[c]] # << >>
  <2>1. ~ 0 >= Needed(c)
    BY DEF Needed, PacketSize
  <2>2. Available(c) # 0
    BY <2>1
  <2>3. sock[c] # NoSock /\ queue[sock[c]] # << >>
    BY <2>2 DEF Available
  <2> QED
    BY <2>3 DEF LookupInv, Ranges
<1>2. queue[sock[c]] \in Seq(Query) /\ 1 \in DOMAIN queue[sock[c]]
  BY <1>1 DEF LookupInv, Ranges
<1>3. Head(queue[sock[c]]) = queue[sock[c]][1]
  BY <1>1, <1>2
<1>4. queue[sock[c]][1] \in Query /\ port[queue[sock[c]][1]] = sock[c]
  BY <1>1, <1>2 DEF LookupInv, Arrived
<1> QED
  BY <1>1, <1>3, <1>4

\* finished() ends the query, either way.
LEMMA PollKeeps ==
  ASSUME LookupInv, NEW c \in Client, Poll(c)
  PROVE  LookupInv'
<1>1. CASE FinishedReads(c)
  <2>1. from' \in [Client -> 0 .. MaxQuery]
    BY <1>1, HeadArrived DEF FinishedReads, Readable, LookupInv, Ranges, Query
  <2>2. PICK result : CloseAfter(c, result)
    BY <1>1 DEF FinishedReads
  <2> QED
    BY <1>1, <2>1, <2>2, EndKeeps DEF FinishedReads, Readable, wire
<1>2. CASE FinishedExpires(c)
  BY <1>2, EndKeeps DEF FinishedExpires, wire, LookupInv, Ranges
<1>3. CASE FinishedHangs(c)
  BY <1>3 DEF FinishedHangs, pool, wire, client, LookupInv, Ranges, NoSocketLeft, Forgets,
              SentFrom, Arrived
<1> QED
  BY <1>1, <1>2, <1>3 DEF Poll

\* Others open and close sockets that are not a client's.
LEMMA OthersKeep ==
  ASSUME LookupInv, OthersOpen \/ \E s \in Sock : OthersClose(s)
  PROVE  LookupInv'
<1>1. PICK s \in Sock, h \in {"other", "none"} :
        holder[s] \notin Client /\ holder' = [holder EXCEPT ![s] = h]
  BY TakesClosed, SockRange DEF OthersOpen, OthersClose
<1>2. UNCHANGED << queue, wire, client >>
  BY DEF OthersOpen, OthersClose
<1> USE <1>1, <1>2 DEF LookupInv, wire, client
<1>3. Ranges'
  BY DEF Ranges
<1>4. NoSocketLeft'
  <2>1. \A d \in Client : { t \in Sock : holder'[t] = d } = { t \in Sock : holder[t] = d }
    BY SockRange DEF Ranges
  <2> QED
    BY <2>1 DEF NoSocketLeft
<1>5. Forgets' /\ SentFrom' /\ Arrived'
  BY DEF Forgets, SentFrom, Arrived
<1> QED
  BY <1>3, <1>4, <1>5

\* A datagram arrives where its port is open.
LEMMA DeliverKeeps ==
  ASSUME LookupInv, NEW q \in Query, NEW s \in Sock, Deliver(q, s)
  PROVE  LookupInv'
<1> USE DEF LookupInv, Deliver, wire, client
<1>1. Ranges'
  BY DEF Ranges
<1>2. NoSocketLeft' /\ Forgets' /\ SentFrom'
  BY DEF NoSocketLeft, Forgets, SentFrom
<1>3. Arrived'
  <2> SUFFICES ASSUME NEW t \in Sock, NEW k \in DOMAIN queue'[t]
               PROVE  queue'[t][k] <= count /\ port[queue'[t][k]] = t
    BY DEF Arrived
  <2>1. CASE t # s
    BY <2>1 DEF Arrived, Ranges
  <2>2. CASE t = s
    <3>1. queue'[s] = Append(queue[s], q) /\ queue[s] \in Seq(Query)
      BY DEF Ranges
    <3>2. \/ k \in DOMAIN queue[s] /\ queue'[s][k] = queue[s][k]
          \/ queue'[s][k] = q
      BY <2>2, <3>1
    <3> QED
      BY <2>2, <3>2 DEF Arrived, SourcePort
  <2> QED
    BY <2>1, <2>2
<1> QED
  BY <1>1, <1>2, <1>3

\* Time, servers, and steps that change nothing.
LEMMA RestKeeps ==
  ASSUME LookupInv,
         UNCHANGED << pool, count, port, sock, query, waiting, from >>
  PROVE  LookupInv'
BY DEF LookupInv, Ranges, NoSocketLeft, Forgets, SentFrom, Arrived, pool

\* Every step keeps the invariant.
LEMMA StepKeeps == LookupInv /\ [Next]_vars => LookupInv'
<1> SUFFICES ASSUME LookupInv, [Next]_vars PROVE LookupInv'
  OBVIOUS
<1>1. CASE \E c \in Client : Ask(c) \/ AskFails(c) \/ Poll(c)
  BY <1>1, AskKeeps, AskFailsKeeps, PollKeeps
<1>2. CASE \E c \in Client : Expire(c)
  BY <1>2, RestKeeps DEF Expire, wire
<1>3. CASE OthersOpen \/ \E s \in Sock : OthersClose(s)
  BY <1>3, OthersKeep
<1>4. CASE \E q \in Query : Serve(q)
  BY <1>4, RestKeeps DEF Serve, client
<1>5. CASE \E q \in Query, s \in Sock : Deliver(q, s)
  BY <1>5, DeliverKeeps
<1>6. CASE DumpOn \/ UNCHANGED vars
  BY <1>6, RestKeeps DEF DumpOn, vars, wire, client
<1> QED
  BY <1>1, <1>2, <1>3, <1>4, <1>5, <1>6 DEF Next

-----------------------------------------------------------------------------
(* Theorems. *)

\* The invariant at every moment.
LEMMA LookupInvariant == Spec => []LookupInv
  BY InitHolds, StepKeeps, PTL DEF Spec

\* No query leaves a socket behind, whatever its answer says, and whether it comes or not
\* (Dns.cpp:77-133, Ntp.cpp:74-104).
THEOREM SocketsComeBack == Spec => []NoSocketLeft
<1>1. LookupInv => NoSocketLeft
  BY DEF LookupInv
<1> QED
  BY <1>1, LookupInvariant, PTL

\* An answer another client waits for.
LEMMA ReadsOwnOrLate ==
  ASSUME LookupInv, [Next]_vars
  PROVE  \A c \in Client : from'[c] # from[c] /\ from'[c] # 0
           => from'[c] = query[c] \/ ~Waits(from'[c])
<1> SUFFICES ASSUME NEW c \in Client, from'[c] # from[c], from'[c] # 0,
                    Waits(from'[c])
             PROVE  from'[c] = query[c]
  OBVIOUS
<1>1. FinishedReads(c)
  <2> USE DEF LookupInv, Ranges
  <2>1. CASE \E d \in Client : Ask(d) \/ AskFails(d)
    <3>1. PICK d \in Client : from' = [from EXCEPT ![d] = 0]
      BY <2>1 DEF Ask, AskFails
    <3> QED
      BY <3>1
  <2>2. CASE \E d \in Client : FinishedReads(d)
    <3>1. PICK d \in Client : FinishedReads(d)
      BY <2>2
    <3>2. from' = [from EXCEPT ![d] = Head(queue[sock[d]])]
      BY <3>1 DEF FinishedReads
    <3> QED
      BY <3>1, <3>2
  <2>3. CASE UNCHANGED from
    BY <2>3
  <2> QED
    BY <2>1, <2>2, <2>3 DEF Next, Poll, FinishedHangs, FinishedExpires, DumpOn, Expire,
                            OthersOpen, OthersClose, Serve, Deliver, client, vars
<1>2. from'[c] = Head(queue[sock[c]])
  BY <1>1 DEF FinishedReads, LookupInv, Ranges
<1>3. sock[c] \in Sock /\ port[from'[c]] = sock[c] /\ waiting[c]
  BY <1>1, <1>2, HeadArrived DEF FinishedReads, Readable
<1>4. PICK d \in Client : waiting[d] /\ query[d] = from'[c] /\ sock[d] # NoSock
  BY DEF Waits
<1>5. sock[d] = sock[c]
  BY <1>3, <1>4 DEF LookupInv, SentFrom
<1>6. holder[sock[c]] = c /\ holder[sock[c]] = d
  BY <1>3, <1>4, <1>5, SockRange DEF LookupInv, NoSocketLeft
<1> QED
  BY <1>4, <1>6

\* However late answers come, and however often: none is read that another client waits
\* for, although all have one ID and nobody looks at where they come from (Dns.cpp:24).
THEOREM AnswersAreOwnOrLate == Spec => OwnOrLate
<1>1. LookupInv /\ [Next]_vars
        => [\A c \in Client : from'[c] # from[c] /\ from'[c] # 0
              => from'[c] = query[c] \/ ~Waits(from'[c])]_vars
  BY ReadsOwnOrLate
<1> QED
  BY <1>1, LookupInvariant, PTL DEF Spec, OwnOrLate
-----------------------------------------------------------------------------
(* Induction along a sequence, and functions defined by recursion. *)

\* What holds at 0, and at the next place wherever it holds, holds everywhere.
LEMMA UpTo ==
  ASSUME NEW n \in Nat, NEW G, 0 \in G, \A k \in 1 .. n : k - 1 \in G => k \in G
  PROVE  \A k \in 0 .. n : k \in G
<1> DEFINE bad == { k \in 0 .. n : k \notin G }
<1>1. SUFFICES ASSUME bad # {} PROVE FALSE
  OBVIOUS
<1>2. bad \in SUBSET Nat
  OBVIOUS
<1>3. \E k \in bad : \A j \in bad : ~ << j, k >> \in OpToRel(<, Nat)
  <2> HIDE DEF bad
  <2> QED
    BY <1>1, <1>2, NatLessThanWellFounded, WFMin
<1>4. PICK k \in bad : \A j \in bad : ~ << j, k >> \in OpToRel(<, Nat)
  BY <1>3
<1>5. \A j \in bad : << j, k >> \in OpToRel(<, Nat) <=> j < k
  BY <1>2 DEF OpToRel
<1>6. \A j \in bad : ~ j < k
  BY <1>4, <1>5, Zenon
<1>7. k \in 1 .. n /\ k - 1 \in 0 .. n /\ k - 1 < k
  OBVIOUS
<1>8. k - 1 \in G
  BY <1>6, <1>7
<1> QED
  BY <1>7, <1>8

\* f is what a recursion comes to, from each of its states: R where it ends; elsewhere what
\* it comes to from the next state, N, with P in front of it, or behind, or nothing.
Loops(f, D, N, Stop, InFront, Behind, R, P) ==
  f = [s \in D |-> IF s \in Stop THEN R[s]
                  ELSE IF s \in InFront THEN P[s] \o f[N[s]]
                  ELSE IF s \in Behind THEN f[N[s]] \o P[s] ELSE f[N[s]]]

\* Every round brings the loop nearer to its end.
Descends(D, N, Stop, M) == \A s \in D : s \notin Stop => M[N[s]] < M[s]

\* Then there is such a function.
LEMMA Recursive ==
  ASSUME NEW D, NEW N \in [D -> D], NEW Stop, NEW InFront, NEW Behind, NEW R, NEW P,
         NEW B \in Nat, NEW M \in [D -> 0 .. B], Descends(D, N, Stop, M)
  PROVE  \E f : Loops(f, D, N, Stop, InFront, Behind, R, P)
<1> DEFINE Body(f, s) == IF s \in Stop THEN R[s]
                         ELSE IF s \in InFront THEN P[s] \o f[N[s]]
                         ELSE IF s \in Behind THEN f[N[s]] \o P[s] ELSE f[N[s]]
           Runs(f, m) == \A s \in D : M[s] < m => f[s] = Body(f, s)
           G == { m \in 0 .. B + 1 : \E f : Runs(f, m) }
<1>1. ASSUME NEW f, NEW g, NEW s \in D, s \notin Stop => f[N[s]] = g[N[s]]
      PROVE  Body(f, s) = Body(g, s)
  BY <1>1
<1> HIDE DEF Body
<1>d. \A s \in D : s \notin Stop => M[N[s]] < M[s]
  BY DEF Descends
<1>2. \A s \in D : M[s] \in Nat /\ M[s] <= B
  OBVIOUS
<1>3. 0 \in G
  BY <1>2
<1>4. ASSUME NEW m \in 1 .. B + 1, m - 1 \in G
      PROVE  m \in G
  <2>1. PICK f : Runs(f, m - 1)
    BY <1>4
  <2> DEFINE g == [s \in D |-> IF M[s] < m - 1 THEN f[s] ELSE Body(f, s)]
  <2>2. ASSUME NEW s \in D, M[s] < m
        PROVE  g[s] = Body(g, s)
    <3>1. s \notin Stop => M[N[s]] < m - 1 /\ N[s] \in D
      BY <1>2, <1>d, <2>2
    <3>2. s \notin Stop => f[N[s]] = g[N[s]]
      BY <3>1
    <3>3. Body(f, s) = Body(g, s)
      <4> HIDE DEF g
      <4> QED
        BY <1>1, <3>2
    <3>4. g[s] = Body(f, s)
      BY <2>1
    <3> QED
      BY <3>3, <3>4
  <2> HIDE DEF g
  <2>3. Runs(g, m)
    BY <2>2
  <2> HIDE DEF Runs
  <2> QED
    BY <2>3
<1>5. B + 1 \in G
  <2> HIDE DEF G
  <2>1. \A k \in 0 .. B + 1 : k \in G
    BY <1>3, <1>4, UpTo
  <2> QED
    BY <2>1
<1>6. PICK f : Runs(f, B + 1)
  BY <1>5
<1>7. \A s \in D : f[s] = Body(f, s)
  BY <1>2, <1>6
<1> DEFINE h == [s \in D |-> f[s]]
<1>8. ASSUME NEW s \in D
      PROVE  Body(f, s) = Body(h, s)
  <2>1. f[N[s]] = h[N[s]]
    OBVIOUS
  <2> HIDE DEF h
  <2> QED
    BY <1>1, <2>1
<1>9. \A s \in D : h[s] = Body(h, s)
  BY <1>7, <1>8
<1>10. h = [s \in D |-> h[s]]
  OBVIOUS
<1> HIDE DEF h
<1>11. h = [s \in D |-> Body(h, s)]
  BY <1>9, <1>10
<1> QED
  BY <1>11 DEF Body, Loops

\* G has the states where a recursion ends, and every state whose next one it has.
Spreads(D, N, Stop, G) == \A s \in D : s \in Stop \/ N[s] \in G => s \in G

\* Then it has them all.
LEMMA Descent ==
  ASSUME NEW D, NEW N \in [D -> D], NEW Stop,
         NEW B \in Nat, NEW M \in [D -> 0 .. B], Descends(D, N, Stop, M),
         NEW G, Spreads(D, N, Stop, G)
  PROVE  \A s \in D : s \in G
<1> DEFINE H == { m \in 0 .. B + 1 : \A s \in D : M[s] < m => s \in G }
<1>1. \A s \in D : M[s] \in Nat /\ M[s] <= B /\ N[s] \in D
  OBVIOUS
<1>2. 0 \in H
  BY <1>1
<1>3. ASSUME NEW m \in 1 .. B + 1, m - 1 \in H
      PROVE  m \in H
  <2>1. ASSUME NEW s \in D, M[s] < m, s \notin Stop
        PROVE  M[N[s]] < m - 1 /\ N[s] \in D
    BY <1>1, <2>1 DEF Descends
  <2>2. ASSUME NEW s \in D, M[s] < m, s \notin Stop
        PROVE  N[s] \in G
    BY <1>3, <2>1, <2>2
  <2>3. \A s \in D : M[s] < m => s \in G
    BY <2>2 DEF Spreads
  <2> QED
    BY <2>3
<1> HIDE DEF H
<1>4. \A m \in 0 .. B + 1 : m \in H
  BY <1>2, <1>3, UpTo
<1>5. B + 1 \in H
  BY <1>4
<1> QED
  BY <1>1, <1>5 DEF H

\* One sequence behind another.
LEMMA JoinIs ==
  ASSUME NEW S, NEW a \in Seq(S), NEW b \in Seq(S)
  PROVE  /\ a \o b \in Seq(S) /\ Len(a \o b) = Len(a) + Len(b)
         /\ Len(a) \in Nat /\ Len(b) \in Nat
         /\ \A j \in 1 .. Len(a) : (a \o b)[j] = a[j]
         /\ \A j \in 1 .. Len(b) : (a \o b)[Len(a) + j] = b[j]
OBVIOUS

-----------------------------------------------------------------------------
(* The date: the loop over the months, and the days behind it. *)

MonthState == [day : Nat, month : 0 .. 11]

\* The year with this number.
IsYear(year, y) == year = 1970 + y

\* Another round of the loop.
Passes(year, s) == s.month < 11 /\ s.day > DaysPerMonth(year, s.month)
NextMonth(year, s) == [day |-> s.day - DaysPerMonth(year, s.month), month |-> s.month + 1]

\* The months are as long as the calendar says, and follow one another.
LEMMA MonthsAre ==
  ASSUME NEW y \in Nat, NEW year, IsYear(year, y)
  PROVE  /\ \A m \in 0 .. 11 : DaysPerMonth(year, m) \in 28 .. 31 /\ FirstOfMonth(y, m) \in Nat
         /\ FirstOfMonth(y, 0) = 0 /\ FirstOfMonth(y, 11) + 31 = LengthOf(y)
         /\ \A m \in 0 .. 10 :
              FirstOfMonth(y, m + 1) = FirstOfMonth(y, m) + DaysPerMonth(year, m)
         /\ \A m, n \in 0 .. 11 : m <= n => FirstOfMonth(y, m) <= FirstOfMonth(y, n)
<1>1. \A m \in 0 .. 11 : m \in {0, 1, 2, 3, 4, 5, 6, 7, 8, 9, 10, 11}
  OBVIOUS
<1>2. Leap(y) <=> year % 4 = 0
  BY DEF Leap, IsYear
<1>3. \A m \in 0 .. 11 :
        DaysPerMonth(year, m) = CASE m = 1 -> IF Leap(y) THEN 29 ELSE 28
                                  [] m \in {3, 5, 8, 10} -> 30
                                  [] OTHER -> 31
  BY <1>1, <1>2 DEF DaysPerMonth
<1>4. /\ FirstOfMonth(y, 0) = 0 /\ FirstOfMonth(y, 1) = 31
      /\ FirstOfMonth(y, 2) = 59 + IF Leap(y) THEN 1 ELSE 0
      /\ FirstOfMonth(y, 3) = 90 + IF Leap(y) THEN 1 ELSE 0
      /\ FirstOfMonth(y, 4) = 120 + IF Leap(y) THEN 1 ELSE 0
      /\ FirstOfMonth(y, 5) = 151 + IF Leap(y) THEN 1 ELSE 0
      /\ FirstOfMonth(y, 6) = 181 + IF Leap(y) THEN 1 ELSE 0
      /\ FirstOfMonth(y, 7) = 212 + IF Leap(y) THEN 1 ELSE 0
      /\ FirstOfMonth(y, 8) = 243 + IF Leap(y) THEN 1 ELSE 0
      /\ FirstOfMonth(y, 9) = 273 + IF Leap(y) THEN 1 ELSE 0
      /\ FirstOfMonth(y, 10) = 304 + IF Leap(y) THEN 1 ELSE 0
      /\ FirstOfMonth(y, 11) = 334 + IF Leap(y) THEN 1 ELSE 0
  BY DEF FirstOfMonth
<1>5. ASSUME NEW m \in 0 .. 11
      PROVE  DaysPerMonth(year, m) \in 28 .. 31 /\ FirstOfMonth(y, m) \in Nat
  BY <1>1, <1>3, <1>4
<1>6. ASSUME NEW m \in 0 .. 10
      PROVE  FirstOfMonth(y, m + 1) = FirstOfMonth(y, m) + DaysPerMonth(year, m)
  <2>1. m \in {0, 1, 2, 3, 4, 5, 6, 7, 8, 9, 10}
    OBVIOUS
  <2> QED
    BY <1>3, <1>4, <2>1
<1>7. ASSUME NEW m \in 0 .. 11, NEW n \in 0 .. 11, m <= n
      PROVE  FirstOfMonth(y, m) <= FirstOfMonth(y, n)
  BY <1>1, <1>4, <1>7
<1> QED
  BY <1>4, <1>5, <1>6, <1>7 DEF LengthOf

\* The function behind MonthLoop.
LEMMA MonthLoopIs ==
  ASSUME NEW y \in Nat, NEW year, IsYear(year, y)
  PROVE  \E loop :
           /\ \A s \in MonthState : loop[s] = IF Passes(year, s)
                                              THEN loop[NextMonth(year, s)] ELSE s
           /\ \A day \in Nat : MonthLoop(year, day) = loop[[day |-> day, month |-> 0]]
<1> DEFINE D == MonthState
           Body(f, s) == IF Passes(year, s) THEN f[NextMonth(year, s)] ELSE s
           loop == CHOOSE f : f = [s \in D |-> Body(f, s)]
           Stop == { s \in D : ~Passes(year, s) }
           N == [s \in D |-> IF s \in Stop THEN s ELSE NextMonth(year, s)]
           R == [s \in D |-> s]
           M == [s \in D |-> 11 - s.month]
<1>1. \A day : MonthLoop(year, day) = loop[[day |-> day, month |-> 0]]
  BY DEF MonthLoop, MonthState, Passes, NextMonth
<1>2. ASSUME NEW s \in D, Passes(year, s)
      PROVE  NextMonth(year, s) \in D /\ NextMonth(year, s).month = s.month + 1
  <2>1. DaysPerMonth(year, s.month) \in 28 .. 31 /\ s.day \in Nat /\ s.month \in 0 .. 11
    BY MonthsAre DEF MonthState
  <2> QED
    BY <1>2, <2>1 DEF Passes, NextMonth, MonthState
<1>3. N \in [D -> D] /\ M \in [D -> 0 .. 11]
  BY <1>2 DEF MonthState
<1>4. \A s \in D : s \notin Stop => M[N[s]] < M[s]
  BY <1>2 DEF MonthState
<1>5. PICK f : Loops(f, D, N, Stop, {}, {}, R, R)
  <2> DEFINE none == {}
  <2>1. Descends(D, N, Stop, M) /\ 11 \in Nat
    BY <1>4 DEF Descends
  <2> HIDE DEF N, M, D, Stop, R, none
  <2>2. \E f : Loops(f, D, N, Stop, none, none, R, R)
    BY <1>3, <2>1, Recursive
  <2> QED
    BY <2>2 DEF none
<1>6. f = [s \in D |-> Body(f, s)]
  <2>1. \A s \in D : f[s] = Body(f, s)
    BY <1>5 DEF Loops
  <2>2. f = [s \in D |-> f[s]]
    BY <1>5 DEF Loops
  <2> HIDE DEF Body
  <2> QED
    BY <2>1, <2>2
<1> HIDE DEF Body
<1>7. loop = [s \in D |-> Body(loop, s)]
  BY <1>6
<1> HIDE DEF loop
<1>8. \A s \in D : loop[s] = Body(loop, s)
  BY <1>7
<1> QED
  BY <1>1, <1>8 DEF Body

\* The loop ends with the month and what is left of the days.
LEMMA MonthLoopEnds ==
  ASSUME NEW y \in Nat, NEW year, IsYear(year, y), NEW d \in 0 .. LengthOf(y) - 1
  PROVE  LET last == MonthLoop(year, d + 1) IN
           /\ last.month \in 0 .. 11 /\ last.day = d + 1 - FirstOfMonth(y, last.month)
           /\ FirstOfMonth(y, last.month) <= d
           /\ last.month < 11 => d < FirstOfMonth(y, last.month + 1)
<1> DEFINE S(m) == [day |-> d + 1 - FirstOfMonth(y, m), month |-> m]
           last == MonthLoop(year, d + 1)
           Begun(m) == FirstOfMonth(y, m) <= d
<1>1. PICK loop :
        /\ \A s \in MonthState : loop[s] = IF Passes(year, s) THEN loop[NextMonth(year, s)] ELSE s
        /\ \A day \in Nat : MonthLoop(year, day) = loop[[day |-> day, month |-> 0]]
  BY MonthLoopIs
<1>2. d \in Nat /\ d + 1 \in Nat /\ LengthOf(y) \in Nat
  BY DEF LengthOf
<1>3. ASSUME NEW m \in 0 .. 11, Begun(m)
      PROVE  /\ S(m) \in MonthState /\ S(m).month = m /\ S(m).day = d + 1 - FirstOfMonth(y, m)
             /\ m < 11 => /\ Passes(year, S(m)) <=> Begun(m + 1)
                          /\ Begun(m + 1) => NextMonth(year, S(m)) = S(m + 1)
             /\ m = 11 => ~Passes(year, S(m))
  <2>1. FirstOfMonth(y, m) \in Nat /\ DaysPerMonth(year, m) \in 28 .. 31
    BY MonthsAre
  <2>2. S(m) \in MonthState /\ S(m).month = m /\ S(m).day = d + 1 - FirstOfMonth(y, m)
    BY <1>2, <1>3, <2>1 DEF MonthState
  <2>3. CASE m < 11
    <3>1. m \in 0 .. 10
      BY <2>3
    <3>2. FirstOfMonth(y, m + 1) = FirstOfMonth(y, m) + DaysPerMonth(year, m)
      BY <3>1, MonthsAre
    <3> HIDE DEF S
    <3>3. Passes(year, S(m)) <=> Begun(m + 1)
      BY <1>2, <2>1, <2>2, <2>3, <3>2 DEF Passes
    <3>4. NextMonth(year, S(m)) = S(m + 1)
      <4>1. d + 1 - FirstOfMonth(y, m) - DaysPerMonth(year, m) = d + 1 - FirstOfMonth(y, m + 1)
        BY <1>2, <2>1, <3>2
      <4>2. S(m + 1) = [day |-> d + 1 - FirstOfMonth(y, m + 1), month |-> m + 1]
        BY DEF S
      <4>3. NextMonth(year, S(m)) = [day |-> d + 1 - FirstOfMonth(y, m) - DaysPerMonth(year, m),
                                     month |-> m + 1]
        BY <1>2, <2>1, <2>2 DEF NextMonth
      <4> QED
        BY <4>1, <4>2, <4>3
    <3> QED
      BY <2>2, <2>3, <3>3, <3>4
  <2>4. CASE m = 11
    BY <2>2, <2>4 DEF Passes
  <2>5. m < 11 \/ m = 11
    OBVIOUS
  <2> QED
    BY <2>2, <2>3, <2>4, <2>5
<1> HIDE DEF S
<1>4. Begun(0) /\ loop[S(0)] = last
  <2>1. d + 1 - 0 = d + 1 /\ FirstOfMonth(y, 0) = 0
    BY MonthsAre, <1>2
  <2> QED
    BY <1>1, <1>2, <2>1 DEF S
<1> HIDE DEF last
\* After k rounds the loop is at month k, or has ended.
<1> DEFINE Ended(m) == Begun(m) /\ last = S(m) /\ (m < 11 => ~Begun(m + 1))
           G == { k \in 0 .. 11 : \/ Begun(k) /\ loop[S(k)] = last
                                  \/ \E m \in 0 .. 11 : Ended(m) }
<1>5. \A k \in 0 .. 11 : k \in G
  <2>1. 0 \in G
    BY <1>4
  <2>2. ASSUME NEW k \in 1 .. 11, k - 1 \in G
        PROVE  k \in G
    <3>1. CASE \E m \in 0 .. 11 : Ended(m)
      BY <3>1
    <3>2. CASE Begun(k - 1) /\ loop[S(k - 1)] = last
      <4>1. k - 1 \in 0 .. 11 /\ k - 1 < 11 /\ (k - 1) + 1 = k
        OBVIOUS
      <4>2. /\ S(k - 1) \in MonthState
            /\ Passes(year, S(k - 1)) <=> Begun(k)
            /\ Begun(k) => NextMonth(year, S(k - 1)) = S(k)
        BY <1>3, <3>2, <4>1
      <4> HIDE DEF Begun
      <4>3. CASE Begun(k)
        BY <1>1, <3>2, <4>2, <4>3
      <4>4. CASE ~Begun(k)
        <5>1. last = S(k - 1)
          BY <1>1, <3>2, <4>2, <4>4
        <5>2. Ended(k - 1)
          BY <3>2, <4>1, <4>4, <5>1
        <5> QED
          BY <4>1, <5>2
      <4> QED
        BY <4>3, <4>4
    <3> QED
      BY <2>2, <3>1, <3>2
  <2> HIDE DEF G
  <2> QED
    BY <2>1, <2>2, UpTo
<1>6. PICK m \in 0 .. 11 : Ended(m)
  <2>1. CASE Begun(11) /\ loop[S(11)] = last
    <3>1. S(11) \in MonthState /\ ~Passes(year, S(11))
      BY <1>3, <2>1
    <3>2. last = S(11)
      BY <1>1, <2>1, <3>1
    <3> QED
      BY <2>1, <3>2
  <2>2. 11 \in G
    BY <1>5
  <2> QED
    BY <2>1, <2>2
<1>7. last.month = m /\ last.day = d + 1 - FirstOfMonth(y, m)
  BY <1>3, <1>6
<1>8. m < 11 => d < FirstOfMonth(y, m + 1)
  <2>1. m < 11 => m + 1 \in 0 .. 11
    OBVIOUS
  <2>2. m < 11 => FirstOfMonth(y, m + 1) \in Nat
    BY <2>1, MonthsAre
  <2> QED
    BY <1>2, <1>6, <2>2
<1>9. /\ last.month \in 0 .. 11 /\ last.day = d + 1 - FirstOfMonth(y, last.month)
      /\ FirstOfMonth(y, last.month) <= d
      /\ last.month < 11 => d < FirstOfMonth(y, last.month + 1)
  BY <1>6, <1>7, <1>8
<1> QED
  BY <1>9 DEF last

\* The arithmetic of date(), on a day of a year that does not follow a leap year.
LEMMA DaysCounted ==
  ASSUME NEW y \in Nat, ~Leap(y - 1), NEW d \in Inner(y), NEW s \in {0, 86399}, NEW t,
         t = (FirstDay(y) + d) * SecondsPerDay + s
  PROVE  /\ t \in Nat /\ d \in 1 .. 363 /\ d \in 0 .. LengthOf(y) - 1
         /\ t \div SecondsPerDay = FirstDay(y) + d /\ FirstDay(y) \in Nat
         /\ t \div SecondsPerYear = y
         /\ (t \div SecondsPerDay - y \div 4 + 1) % 365 = d + 1
<1>1. PICK k \in Nat, r \in 0 .. 3 : y = 4 * k + r
  <2>1. y \div 4 \in Nat /\ y % 4 \in 0 .. 3 /\ y = 4 * (y \div 4) + (y % 4)
    OBVIOUS
  <2> QED
    BY <2>1
<1>2. r \in 0 .. 2
  BY <1>1 DEF Leap
<1>3. y \div 4 = k /\ FirstDay(y) = 365 * y + k
  BY <1>1, <1>2 DEF FirstDay
<1>4. d \in 1 .. 363 /\ d \in 0 .. LengthOf(y) - 1
  BY DEF Inner, LengthOf
<1>5. t = 86400 * (365 * y + k + d) + s
  BY <1>3, <1>4 DEF SecondsPerDay
<1>6. t \in Nat /\ t \div SecondsPerDay = FirstDay(y) + d
  BY <1>3, <1>4, <1>5 DEF SecondsPerDay
<1>7. t \div SecondsPerYear = y
  <2> DEFINE rest == 86400 * d + s - 21600 * r
  <2>1. t = 31557600 * y + rest
    BY <1>1, <1>4, <1>5
  <2>2. rest \in Int /\ 0 <= rest /\ rest < 31557600
    <3>1. r \in {0, 1, 2} /\ d \in Int /\ 1 <= d /\ d <= 363
      BY <1>2, <1>4
    <3> QED
      BY <3>1
  <2> HIDE DEF rest
  <2>3. \A a \in Nat, b \in Int : 0 <= b /\ b < 31557600 =>
          (31557600 * a + b) \div 31557600 = a
    OBVIOUS
  <2> QED
    BY <2>1, <2>2, <2>3 DEF SecondsPerYear
<1>8. (t \div SecondsPerDay - y \div 4 + 1) % 365 = d + 1
  <2>1. t \div SecondsPerDay - y \div 4 + 1 = 365 * y + (d + 1)
    BY <1>3, <1>4, <1>6
  <2> QED
    BY <1>4, <2>1
<1> QED
  BY <1>3, <1>4, <1>6, <1>7, <1>8

\* The calendar's month is the one the loop ends with.
LEMMA CalendarIs ==
  ASSUME NEW y \in Nat, NEW d \in Nat, NEW m \in 0 .. 11, FirstOfMonth(y, m) <= d,
         m < 11 => d < FirstOfMonth(y, m + 1)
  PROVE  /\ CalendarDate(y, d).year = 1970 + y /\ CalendarDate(y, d).month = m + 1
         /\ CalendarDate(y, d).day = d - FirstOfMonth(y, m) + 1
<1> DEFINE Is(n) == /\ FirstOfMonth(y, n) <= d
                    /\ \A j \in n + 1 .. 11 : d < FirstOfMonth(y, j)
<1>1. /\ \A n \in 0 .. 11 : FirstOfMonth(y, n) \in Nat
      /\ \A i, j \in 0 .. 11 : i <= j => FirstOfMonth(y, i) <= FirstOfMonth(y, j)
  <2>1. IsYear(1970 + y, y)
    BY DEF IsYear
  <2> QED
    BY <2>1, MonthsAre
<1>2. Is(m)
  <2> SUFFICES ASSUME NEW j \in m + 1 .. 11 PROVE d < FirstOfMonth(y, j)
    OBVIOUS
  <2>1. m < 11 /\ m + 1 \in 0 .. 11 /\ j \in 0 .. 11 /\ m + 1 <= j
    OBVIOUS
  <2>2. FirstOfMonth(y, m + 1) <= FirstOfMonth(y, j) /\ FirstOfMonth(y, m + 1) \in Nat
        /\ FirstOfMonth(y, j) \in Nat /\ d < FirstOfMonth(y, m + 1)
    BY <1>1, <2>1
  <2> QED
    BY <2>2
<1>3. ASSUME NEW n \in 0 .. 11, Is(n)
      PROVE  n = m
  <2>1. CASE n < m
    <3>1. d < FirstOfMonth(y, m)
      BY <1>3, <2>1
    <3> QED
      BY <1>1, <3>1
  <2>2. CASE m < n
    <3>1. d < FirstOfMonth(y, n) /\ FirstOfMonth(y, n) <= d /\ FirstOfMonth(y, n) \in Nat
      BY <1>1, <1>2, <1>3, <2>2
    <3> QED
      BY <3>1
  <2> QED
    BY <2>1, <2>2
<1>4. (CHOOSE n \in 0 .. 11 : Is(n)) = m
  <2> HIDE DEF Is
  <2> QED
    BY <1>2, <1>3
<1> QED
  BY <1>4 DEF CalendarDate

\* The month before, on the inner days of year y.
MonthBehind(y) ==
  \A t \in Moments(y, Inner(y)) :
    date(t).month = CalendarDate(y, t \div SecondsPerDay - FirstDay(y)).month - 1

\* date() is right on the inner days of every year that does not follow a leap year, but for
\* the month.
LEMMA DateIsRight ==
  ASSUME NEW y \in Nat, ~Leap(y - 1)
  PROVE  Agrees(y, Inner(y)) /\ MonthBehind(y)
<1> SUFFICES ASSUME NEW d \in Inner(y), NEW s \in {0, 86399}, NEW t,
                    t = (FirstDay(y) + d) * SecondsPerDay + s
             PROVE  LET calendar == CalendarDate(y, t \div SecondsPerDay - FirstDay(y))
                        now == date(t)
                    IN /\ now.year = calendar.year /\ now.month = calendar.month - 1
                       /\ now.day = calendar.day
  BY DEF Agrees, MonthBehind, Moments
<1> DEFINE year == 1970 + y
           last == MonthLoop(year, d + 1)
           days == t \div SecondsPerDay
<1>1. /\ d \in 1 .. 363 /\ d \in 0 .. LengthOf(y) - 1
      /\ days = FirstDay(y) + d /\ FirstDay(y) \in Nat
      /\ t \div SecondsPerYear = y
      /\ (days - y \div 4 + 1) % 365 = d + 1
  BY DaysCounted
<1>2. date(t).year = year /\ date(t).month = last.month /\ date(t).day = last.day
  BY <1>1 DEF date
<1>3. IsYear(year, y)
  BY DEF IsYear
<1> HIDE DEF days
<1>4. days - FirstDay(y) = d
  BY <1>1
<1>5. /\ last.month \in 0 .. 11 /\ last.day = d + 1 - FirstOfMonth(y, last.month)
      /\ FirstOfMonth(y, last.month) <= d
      /\ last.month < 11 => d < FirstOfMonth(y, last.month + 1)
  BY <1>1, <1>3, MonthLoopEnds
<1>6. FirstOfMonth(y, last.month) \in Nat
  BY <1>3, <1>5, MonthsAre
<1> HIDE DEF last
<1>7. /\ CalendarDate(y, d).year = 1970 + y /\ CalendarDate(y, d).month = last.month + 1
      /\ CalendarDate(y, d).day = d - FirstOfMonth(y, last.month) + 1
  <2> DEFINE month == last.month
  <2>1. /\ y \in Nat /\ d \in Nat /\ month \in 0 .. 11 /\ FirstOfMonth(y, month) <= d
        /\ month < 11 => d < FirstOfMonth(y, month + 1)
    BY <1>1, <1>5
  <2> HIDE DEF month
  <2>2. /\ CalendarDate(y, d).year = 1970 + y /\ CalendarDate(y, d).month = month + 1
        /\ CalendarDate(y, d).day = d - FirstOfMonth(y, month) + 1
    BY ONLY <2>1, CalendarIs
  <2> QED
    BY <2>2 DEF month
<1>8. last.day = d - FirstOfMonth(y, last.month) + 1
  BY <1>1, <1>5, <1>6
<1>9. last.month \in Nat /\ last.month = (last.month + 1) - 1
  BY <1>5
<1> QED
  BY <1>2, <1>4, <1>7, <1>8, <1>9 DEF days

\* On every one of those days date() gives the month before the calendar's: "*month++" of
\* Ntp.cpp:130 moves the pointer, and the month is never made "1 based".
THEOREM MonthIsBehind == \A y \in Nat : Leap(y - 1) \/ MonthBehind(y)
BY DateIsRight

-----------------------------------------------------------------------------
(* What is read. *)

\* What servers have said, to queries that were sent: nothing empty; and what is whole is
\* the answer to the question.
Replies ==
  /\ labels \in Names
  /\ DOMAIN reply = Query /\ DOMAIN asker = Query
  /\ DOMAIN code = Client /\ DOMAIN answer = Client
  /\ \A q \in Query : reply[q] # NoReply =>
       q <= count /\ (reply[q].whole => reply[q] \in Full(q))

\* Nothing arrives that was not said.
Said == \A s \in Sock : \A k \in DOMAIN queue[s] : reply[queue[s][k]] # NoReply

\* What a client holds for the answer is what it finds in the datagram it has read, with
\* whatever is behind it; it has none while it waits.
Found(c, q) ==
  \E t \in Memory(reply[q].cells) : LET result == Result(c, t) IN
    code[c] = result.code /\ (result.code = 1 => answer[c] = result.answer)

Reads ==
  \A c \in Client :
    /\ waiting[c] => from[c] = 0
    /\ from[c] # 0 => from[c] <= count /\ reply[from[c]] # NoReply /\ Found(c, from[c])

\* What finished() hangs in was said too, and keeps it.
Hangs ==
  hung # 0 =>
    /\ hung \in Query /\ hung <= count /\ reply[hung] # NoReply
    /\ \E t \in Memory(reply[hung].cells) : Parse(t).code = Endless

AnswerInv == LookupInv /\ Replies /\ Said /\ Reads /\ Hangs

\* At first nothing has been said.
LEMMA AnswersInit == Init => AnswerInv
<1> SUFFICES ASSUME Init PROVE AnswerInv
  OBVIOUS
<1>1. LookupInv
  BY InitHolds
<1>2. Replies
  BY DEF Init, Replies
<1>3. Said /\ Reads /\ Hangs
  BY DEF Init, Said, Reads, Hangs
<1> QED
  BY <1>1, <1>2, <1>3 DEF AnswerInv

\* While the sketch hangs, the answer it hangs in stays what it is.
LEMMA HangsOn ==
  ASSUME AnswerInv, hung' = hung, count' = count,
         \A q \in Query : reply[q] # NoReply => reply'[q] = reply[q]
  PROVE  Hangs'
<1> SUFFICES ASSUME hung # 0
             PROVE  /\ hung \in Query /\ hung <= count /\ reply'[hung] # NoReply
                    /\ \E t \in Memory(reply'[hung].cells) : Parse(t).code = Endless
  BY DEF Hangs, NoReply, Memory
<1>1. /\ hung \in Query /\ hung <= count /\ reply[hung] # NoReply
      /\ \E t \in Memory(reply[hung].cells) : Parse(t).code = Endless
  BY DEF AnswerInv, Hangs
<1> HIDE DEF NoReply
<1>2. reply'[hung] = reply[hung]
  BY <1>1
<1> QED
  BY <1>1, <1>2

\* A query is sent, or cannot be: what was said to others stays.
LEMMA AskAnswers ==
  ASSUME AnswerInv, LookupInv', NEW c \in Client, Ask(c) \/ AskFails(c)
  PROVE  AnswerInv'
<1>1. /\ waiting' = [waiting EXCEPT ![c] = TRUE] /\ from' = [from EXCEPT ![c] = 0]
      /\ code' = [code EXCEPT ![c] = 0] /\ UNCHANGED << labels, reply, answer >>
      /\ count' \in Nat /\ count <= count'
      /\ DOMAIN asker' = Query /\ \A q \in Query : q <= count => asker'[q] = asker[q]
      /\ \A s \in Sock : queue'[s] = queue[s] \/ queue'[s] = << >>
  <2>1. CASE Ask(c)
    BY <2>1 DEF Ask, AnswerInv, LookupInv, Ranges, Replies
  <2>2. CASE AskFails(c)
    BY <2>2 DEF AskFails, pool, wire, AnswerInv, LookupInv, Ranges, Replies
  <2> QED
    BY <2>1, <2>2
<1>2. count \in Nat /\ \A d \in Client : from[d] \in Nat
  BY DEF AnswerInv, LookupInv, Ranges
<1>3. Replies'
  <2>1. \A q \in Query : q <= count => Full(q)' = Full(q)
    BY <1>1 DEF Full
  <2>2. ASSUME NEW q \in Query, reply[q] # NoReply
        PROVE  q <= count' /\ (reply[q].whole => reply[q] \in Full(q)')
    BY <1>1, <1>2, <2>1, <2>2 DEF AnswerInv, Replies, Query
  <2>3. DOMAIN code' = Client
    BY <1>1 DEF AnswerInv, Replies
  <2> HIDE DEF NoReply
  <2> QED
    BY <1>1, <2>2, <2>3 DEF AnswerInv, Replies
<1>4. Said'
  BY <1>1 DEF AnswerInv, Said
<1>h. Hangs'
  BY DEF Ask, AskFails, Hangs
<1>5. Reads'
  <2> SUFFICES ASSUME NEW d \in Client
               PROVE  /\ waiting'[d] => from'[d] = 0
                      /\ from'[d] # 0 => from'[d] <= count' /\ reply[from'[d]] # NoReply
                                          /\ Found(d, from[d])'
    BY <1>1 DEF Reads
  <2>1. CASE d = c
    BY <1>1, <2>1 DEF AnswerInv, LookupInv, Ranges
  <2>2. CASE d # c
    <3>1. waiting'[d] = waiting[d] /\ from'[d] = from[d] /\ code'[d] = code[d]
      BY <1>1, <2>2 DEF AnswerInv, LookupInv, Ranges, Replies
    <3>2. Found(d, from[d])' <=> Found(d, from[d])
      BY <1>1, <3>1 DEF Found
    <3>3. from[d] # 0 => from[d] <= count' /\ reply[from[d]] # NoReply /\ Found(d, from[d])
      <4> HIDE DEF NoReply
      <4> QED
        BY <1>1, <1>2 DEF AnswerInv, Reads
    <3>4. waiting[d] => from[d] = 0
      BY DEF AnswerInv, Reads
    <3> QED
      BY <3>1, <3>2, <3>3, <3>4, Zenon
  <2> QED
    BY <2>1, <2>2
<1> QED
  BY <1>3, <1>4, <1>5, <1>h DEF AnswerInv

\* What finished() reads was said.
LEMMA HeadSaid ==
  ASSUME AnswerInv, NEW c \in Client, Readable(c)
  PROVE  LET q == Head(queue[sock[c]]) IN q \in Query /\ q <= count /\ reply[q] # NoReply
<1> DEFINE q == Head(queue[sock[c]])
<1>1. sock[c] \in Sock /\ queue[sock[c]] # << >>
  <2>1. ~ 0 >= Needed(c)
    BY DEF Needed, PacketSize
  <2>2. Available(c) # 0
    BY <2>1 DEF Readable
  <2>3. sock[c] # NoSock /\ queue[sock[c]] # << >>
    BY <2>2 DEF Available
  <2> QED
    BY <2>3 DEF AnswerInv, LookupInv, Ranges
<1>2. queue[sock[c]] \in Seq(Query) /\ 1 \in DOMAIN queue[sock[c]]
  BY <1>1 DEF AnswerInv, LookupInv, Ranges
<1>3. q = queue[sock[c]][1] /\ q \in Query
  BY <1>1, <1>2
<1> QED
  BY <1>1, <1>2, <1>3 DEF AnswerInv, LookupInv, Arrived, Said

\* finished() reads what was said, hangs in it, or gives up.
LEMMA PollAnswers ==
  ASSUME AnswerInv, LookupInv', NEW c \in Client, Poll(c)
  PROVE  AnswerInv'
<1>0. CASE FinishedHangs(c)
  <2>1. /\ UNCHANGED << labels, pool, wire, client >>
        /\ hung' = Head(queue[sock[c]])
        /\ \E t \in Memory(reply[hung'].cells) : Result(c, t).code = Endless
    BY <1>0 DEF FinishedHangs
  <2>2. hung' \in Query /\ hung' <= count /\ reply[hung'] # NoReply
    BY <1>0, <2>1, HeadSaid DEF FinishedHangs
  <2>3. PICK t \in Memory(reply[hung'].cells) : Result(c, t).code = Endless
    BY <2>1
  <2>4. Parse(t).code = Endless
    BY <2>3 DEF Result, Endless
  <2>5. UNCHANGED << labels, holder, queue, count, port, asker, reply >>
        /\ UNCHANGED << sock, query, waiting, expired, code, answer, from >>
    BY <2>1 DEF pool, wire, client
  <2>6. Hangs'
    <3>1. \E u \in Memory(reply'[hung'].cells) : Parse(u).code = Endless
      BY <2>3, <2>4, <2>5
    <3> HIDE DEF NoReply
    <3>2. NoReply' = NoReply
      BY DEF NoReply
    <3>3. hung' \in Query /\ hung' <= count' /\ reply'[hung'] # NoReply
      BY <2>2, <2>5
    <3>4. \A q : (Memory(reply[q].cells))' = Memory(reply'[q].cells)
      BY DEF Memory
    <3> QED
      BY <3>1, <3>2, <3>3 DEF Hangs, Memory
  <2>7. Replies' /\ Said' /\ Reads'
    BY <2>5 DEF AnswerInv, Replies, Said, Reads, Full, Found
  <2> QED
    BY <2>6, <2>7 DEF AnswerInv
<1> SUFFICES ASSUME FinishedReads(c) \/ FinishedExpires(c) PROVE AnswerInv'
  BY <1>0 DEF Poll
<1>h. Hangs'
  BY DEF FinishedReads, FinishedExpires, Readable, Hangs
<1>1. /\ waiting[c] /\ waiting' = [waiting EXCEPT ![c] = FALSE]
      /\ UNCHANGED << labels, count, asker, reply >>
      /\ \A s \in Sock : queue'[s] = queue[s] \/ queue'[s] = << >>
  <2>1. CASE FinishedReads(c)
    BY <2>1 DEF FinishedReads, Readable, CloseAfter, wire
  <2>2. CASE FinishedExpires(c)
    BY <2>2 DEF FinishedExpires, CloseAfter, wire
  <2> QED
    BY <2>1, <2>2
<1>2. Said'
  BY <1>1 DEF AnswerInv, Said
<1>3. CASE FinishedExpires(c)
  <2>1. code' = [code EXCEPT ![c] = 3] /\ UNCHANGED << answer, from >>
    BY <1>3 DEF FinishedExpires
  <2>2. Replies'
    <3>1. DOMAIN code' = Client
      BY <2>1 DEF AnswerInv, Replies
    <3>2. \A q \in Query : Full(q)' = Full(q)
      BY <1>1 DEF Full
    <3> QED
      BY <1>1, <2>1, <3>1, <3>2 DEF AnswerInv, Replies
  <2>3. Reads'
    <3> SUFFICES ASSUME NEW d \in Client
                 PROVE  /\ waiting'[d] => from[d] = 0
                        /\ from[d] # 0 => from[d] <= count /\ reply[from[d]] # NoReply
                                            /\ Found(d, from[d])'
      BY <1>1, <2>1 DEF Reads
    <3>1. from[c] = 0
      BY <1>1 DEF AnswerInv, Reads
    <3>2. CASE d # c
      <4>1. waiting'[d] = waiting[d] /\ code'[d] = code[d]
        BY <1>1, <2>1, <3>2 DEF AnswerInv, LookupInv, Ranges, Replies
      <4>2. Found(d, from[d])' <=> Found(d, from[d])
        BY <1>1, <2>1, <4>1 DEF Found
      <4> QED
        BY <4>1, <4>2 DEF AnswerInv, Reads
    <3> QED
      BY <3>1, <3>2
  <2> QED
    BY <1>2, <1>h, <2>2, <2>3 DEF AnswerInv
<1>4. CASE FinishedReads(c)
  <2>q. PICK q : q = Head(queue[sock[c]])
    OBVIOUS
  <2>1. PICK t \in Memory(reply[q].cells) :
          LET result == Result(c, t) IN
            /\ code' = [code EXCEPT ![c] = result.code]
            /\ answer' = [answer EXCEPT ![c] = IF result.code = 1 THEN result.answer ELSE @]
            /\ from' = [from EXCEPT ![c] = q]
    BY <1>4, <2>q DEF FinishedReads
  <2>2. q \in Query /\ q <= count /\ reply[q] # NoReply
    BY <1>4, <2>q, HeadSaid DEF FinishedReads
  <2> DEFINE result == Result(c, t)
  <2>3. /\ code' = [code EXCEPT ![c] = result.code]
        /\ answer' = [answer EXCEPT ![c] = IF result.code = 1 THEN result.answer ELSE answer[c]]
        /\ from' = [from EXCEPT ![c] = q]
    BY <2>1
  <2> HIDE DEF result
  <2>4. Replies'
    <3>1. DOMAIN code' = Client /\ DOMAIN answer' = Client
      BY <2>3 DEF AnswerInv, Replies
    <3>2. \A p \in Query : Full(p)' = Full(p)
      BY <1>1 DEF Full
    <3> QED
      BY <1>1, <3>1, <3>2 DEF AnswerInv, Replies
  <2>5. Reads'
    <3> SUFFICES ASSUME NEW d \in Client
                 PROVE  /\ waiting'[d] => from'[d] = 0
                        /\ from'[d] # 0 => from'[d] <= count /\ reply[from'[d]] # NoReply
                                            /\ Found(d, from[d])'
      BY <1>1 DEF Reads
    <3>1. CASE d = c
      <4>1. code'[c] = result.code /\ (result.code = 1 => answer'[c] = result.answer)
            /\ from'[c] = q /\ ~ waiting'[c]
        BY <1>1, <2>3 DEF AnswerInv, LookupInv, Ranges, Replies
      <4>2. Found(c, from[c])'
        BY <1>1, <4>1 DEF Found, result
      <4> QED
        BY <3>1, <2>2, <4>1, <4>2
    <3>2. CASE d # c
      <4>1. waiting'[d] = waiting[d] /\ code'[d] = code[d] /\ answer'[d] = answer[d]
            /\ from'[d] = from[d]
        BY <1>1, <2>3, <3>2 DEF AnswerInv, LookupInv, Ranges, Replies
      <4>2. Found(d, from[d])' <=> Found(d, from[d])
        BY <1>1, <4>1 DEF Found
      <4> QED
        BY <4>1, <4>2 DEF AnswerInv, Reads
    <3> QED
      BY <3>1, <3>2
  <2> QED
    BY <1>2, <1>h, <2>4, <2>5 DEF AnswerInv
<1> QED
  BY <1>3, <1>4

\* A server answers a query nobody has answered: nothing of what was said changes.
LEMMA ServeAnswers ==
  ASSUME AnswerInv, LookupInv', NEW q \in Query, Serve(q)
  PROVE  AnswerInv'
<1>1. PICK r \in Full(q) : \/ reply' = [reply EXCEPT ![q] = r]
                           \/ \E n \in Cuts : reply' = [reply EXCEPT ![q] = Cut(r, n)]
  BY DEF Serve
<1>2. PICK v : reply' = [reply EXCEPT ![q] = v] /\ (v = r \/ \E n \in Cuts : v = Cut(r, n))
  BY <1>1
<1>3. /\ q <= count /\ reply[q] = NoReply
      /\ UNCHANGED << labels, queue, count, asker, waiting, code, answer, from >>
  BY DEF Serve, pool, client
<1>4. v.whole => v \in Full(q)
  <2>1. ASSUME NEW n \in Cuts PROVE ~ Cut(r, n).whole
    <3>1. PICK x : r = [cells |-> x.cells, whole |-> TRUE, means |-> x.means]
      BY DEF Full, NoReply
    <3> QED
      BY <3>1 DEF Cut
  <2> QED
    BY <1>2, <2>1
<1>5. reply'[q] = v /\ \A p \in Query : p # q => reply'[p] = reply[p]
  BY <1>2 DEF AnswerInv, Replies
<1> HIDE DEF NoReply
<1>6. Replies'
  <2>1. \A p \in Query : Full(p)' = Full(p)
    BY <1>3 DEF Full
  <2>2. DOMAIN reply' = Query
    BY <1>2 DEF AnswerInv, Replies
  <2>3. ASSUME NEW p \in Query, reply'[p] # NoReply
        PROVE  p <= count /\ (reply'[p].whole => reply'[p] \in Full(p))
    BY <1>3, <1>4, <1>5, <2>3 DEF AnswerInv, Replies
  <2>4. NoReply' = NoReply
    BY DEF NoReply
  <2> QED
    BY <1>3, <2>1, <2>2, <2>3, <2>4 DEF AnswerInv, Replies
<1>7. Said'
  <2> SUFFICES ASSUME NEW s \in Sock, NEW k \in DOMAIN queue[s]
               PROVE  reply'[queue[s][k]] # NoReply
    BY <1>3 DEF Said, NoReply
  <2>1. queue[s][k] \in Query /\ reply[queue[s][k]] # NoReply
    BY DEF AnswerInv, LookupInv, Ranges, Said
  <2> QED
    BY <2>1, <1>3, <1>5
<1>8. Reads'
  <2> SUFFICES ASSUME NEW d \in Client
               PROVE  /\ waiting[d] => from[d] = 0
                      /\ from[d] # 0 => from[d] <= count /\ reply'[from[d]] # NoReply
                                          /\ Found(d, from[d])'
    BY <1>3 DEF Reads, NoReply
  <2>1. ASSUME from[d] # 0
        PROVE  from[d] <= count /\ reply'[from[d]] # NoReply /\ Found(d, from[d])'
    <3>1. from[d] \in Query /\ reply[from[d]] # NoReply /\ from[d] <= count /\ Found(d, from[d])
      BY <2>1 DEF AnswerInv, LookupInv, Ranges, Reads, Query
    <3>2. reply'[from[d]] = reply[from[d]]
      BY <1>3, <1>5, <3>1
    <3>3. Found(d, from[d])' <=> Found(d, from[d])
      BY <1>3, <3>2 DEF Found
    <3> QED
      BY <3>1, <3>2, <3>3
  <2> QED
    BY <2>1 DEF AnswerInv, Reads
<1>9. Hangs'
  <2>1. \A p \in Query : reply[p] # NoReply => reply'[p] = reply[p]
    BY <1>3, <1>5
  <2>2. hung' = hung
    BY DEF Serve
  <2> QED
    BY <1>3, <2>1, <2>2, HangsOn
<1> QED
  BY <1>6, <1>7, <1>8, <1>9 DEF AnswerInv

\* What was said arrives, or something else happens.
LEMMA RestAnswers ==
  ASSUME AnswerInv, LookupInv',
         UNCHANGED << labels, count, asker, reply, waiting, code, answer, from, hung >>,
         \/ UNCHANGED queue
         \/ \E q \in Query, s \in Sock :
              reply[q] # NoReply /\ queue' = [queue EXCEPT ![s] = Append(@, q)]
  PROVE  AnswerInv'
<1>1. Replies'
  BY DEF AnswerInv, Replies, Full
<1>2. Reads'
  BY DEF AnswerInv, Reads, Found
<1>3. Said'
  <2>1. CASE UNCHANGED queue
    BY <2>1 DEF AnswerInv, Said
  <2>2. ASSUME NEW q \in Query, NEW s \in Sock, reply[q] # NoReply,
               queue' = [queue EXCEPT ![s] = Append(@, q)]
        PROVE  Said'
    <3> SUFFICES ASSUME NEW t \in Sock, NEW k \in DOMAIN queue'[t]
                 PROVE  reply[queue'[t][k]] # NoReply
      BY DEF Said
    <3> HIDE DEF NoReply
    <3>1. CASE t # s
      BY <3>1, <2>2 DEF AnswerInv, LookupInv, Ranges, Said
    <3>2. CASE t = s
      <4>1. queue'[s] = Append(queue[s], q) /\ queue[s] \in Seq(Query)
        BY <2>2 DEF AnswerInv, LookupInv, Ranges
      <4>2. \/ k \in DOMAIN queue[s] /\ queue'[s][k] = queue[s][k]
            \/ queue'[s][k] = q
        BY <3>2, <4>1
      <4> QED
        BY <2>2, <3>2, <4>2 DEF AnswerInv, Said
    <3> QED
      BY <3>1, <3>2
  <2> QED
    BY <2>1, <2>2
<1>4. Hangs'
  BY HangsOn
<1> QED
  BY <1>1, <1>2, <1>3, <1>4 DEF AnswerInv

\* Every step keeps it.
LEMMA AnswersKept == AnswerInv /\ [Next]_vars => AnswerInv'
<1> SUFFICES ASSUME AnswerInv, [Next]_vars PROVE AnswerInv'
  OBVIOUS
<1>1. LookupInv'
  BY StepKeeps DEF AnswerInv
<1>2. CASE \E c \in Client : Ask(c) \/ AskFails(c)
  BY <1>1, <1>2, AskAnswers
<1>3. CASE \E c \in Client : Poll(c)
  BY <1>1, <1>3, PollAnswers
<1>4. CASE \E q \in Query : Serve(q)
  BY <1>1, <1>4, ServeAnswers
<1>5. CASE \E q \in Query, s \in Sock : Deliver(q, s)
  BY <1>1, <1>5, RestAnswers DEF Deliver, wire, client
<1>6. CASE \/ \E c \in Client : Expire(c)
           \/ DumpOn \/ OthersOpen \/ \E s \in Sock : OthersClose(s)
           \/ UNCHANGED vars
  BY <1>1, <1>6, RestAnswers
     DEF Expire, DumpOn, OthersOpen, OthersClose, vars, pool, wire, client
<1> QED
  BY <1>2, <1>3, <1>4, <1>5, <1>6 DEF Next

\* What is read was said, at every moment.
LEMMA AnswersInvariant == Spec => []AnswerInv
  BY AnswersInit, AnswersKept, PTL DEF Spec

-----------------------------------------------------------------------------
(* Sequences made of pieces. *)

\* Piece k of n pieces lies in the sequence behind place pos[k - 1].
Laid(t, piece, n, pos) ==
  /\ pos \in [0 .. n -> Nat] /\ pos[0] = 0 /\ pos[n] = Len(t)
  /\ \A k \in 1 .. n :
       /\ pos[k] = pos[k - 1] + Len(piece[k])
       /\ \A j \in 1 .. Len(piece[k]) : t[pos[k - 1] + j] = piece[k][j]

\* f[k] is the first k pieces.
Joins(f, piece, n) ==
  /\ f \in [0 .. n -> Seq(Nat)] /\ f[0] = << >>
  /\ \A k \in 1 .. n : f[k] = f[k - 1] \o piece[k]

\* What FlattenSeq gives for pieces of cells.
LEMMA FlattenJoins ==
  ASSUME NEW n \in Nat, NEW piece \in [1 .. n -> Seq(Nat)]
  PROVE  \E f : Joins(f, piece, n) /\ FlattenSeq(piece) = f[n]
<1> DEFINE D == 1 .. n
           Body(g, k) == IF k = 1 THEN piece[k] ELSE g[k - 1] \o piece[k]
           flatten == CHOOSE g : g = [k \in D |-> Body(g, k)]
           N == [k \in D |-> IF k = 1 THEN 1 ELSE k - 1]
           M == [k \in D |-> k]
           f == [k \in 0 .. n |-> IF k = 0 THEN << >> ELSE flatten[k]]
<1>1. CASE n = 0
  <2>1. Len(piece) = 0 /\ piece = << >>
    BY <1>1
  <2>2. FlattenSeq(piece) = << >>
    BY <2>1 DEF FlattenSeq
  <2> DEFINE g == [k \in 0 .. 0 |-> << >>]
  <2>3. g \in [0 .. n -> Seq(Nat)] /\ g[0] = << >> /\ g[n] = << >>
    BY <1>1
  <2>4. \A k \in 1 .. n : FALSE
    BY <1>1
  <2> HIDE DEF g
  <2> QED
    BY <2>2, <2>3, <2>4 DEF Joins
<1>2. CASE n # 0
  <2>1. FlattenSeq(piece) = flatten[n]
    <3>1. Len(piece) = n
      OBVIOUS
    <3> QED
      BY <1>2, <3>1 DEF FlattenSeq
  <2>2. PICK g : Loops(g, D, N, {1}, {}, D, piece, piece)
    <3> DEFINE Stop == {1}
               none == {}
    <3>1. N \in [D -> D] /\ M \in [D -> 0 .. n] /\ Descends(D, N, Stop, M)
      BY <1>2 DEF Descends
    <3> HIDE DEF D, N, M, Stop, none
    <3>2. \E g : Loops(g, D, N, Stop, none, D, piece, piece)
      BY <3>1, Recursive
    <3> QED
      BY <3>2 DEF Stop, none
  <2>3. g = [k \in D |-> Body(g, k)]
    <3>1. \A k \in D : g[k] = Body(g, k)
      BY <2>2 DEF Loops
    <3>2. g = [k \in D |-> g[k]]
      BY <2>2 DEF Loops
    <3> HIDE DEF Body, D
    <3> QED
      BY <3>1, <3>2
  <2>4. flatten = [k \in D |-> Body(flatten, k)]
    <3> HIDE DEF Body, D
    <3> QED
      BY <2>3
  <2> HIDE DEF flatten
  <2>5. \A k \in 1 .. n :
          flatten[k] = IF k = 1 THEN piece[k] ELSE flatten[k - 1] \o piece[k]
    BY <2>4
  <2> DEFINE G == { k \in 0 .. n : f[k] \in Seq(Nat) }
  <2>6. f[0] = << >> /\ \A k \in 1 .. n : f[k] = flatten[k]
    OBVIOUS
  <2>f. f = [k \in 0 .. n |-> f[k]]
    OBVIOUS
  <2> HIDE DEF f
  <2>7. ASSUME NEW k \in 1 .. n, f[k - 1] \in Seq(Nat)
        PROVE  f[k] = f[k - 1] \o piece[k] /\ f[k] \in Seq(Nat)
    <3>1. piece[k] \in Seq(Nat)
      OBVIOUS
    <3>2. f[k] = f[k - 1] \o piece[k]
      <4>1. CASE k = 1
        <5>1. k - 1 = 0 /\ f[k] = piece[k]
          BY <2>5, <2>6, <4>1
        <5>2. << >> \o piece[k] = piece[k]
          BY <3>1, ConcatEmptySeq
        <5> QED
          BY <2>6, <5>1, <5>2
      <4>2. CASE k # 1
        <5>1. k - 1 \in 1 .. n
          BY <4>2
        <5> QED
          BY <2>5, <2>6, <4>2, <5>1
      <4> QED
        BY <4>1, <4>2
    <3> QED
      BY <2>7, <3>1, <3>2, JoinIs
  <2>8. \A k \in 0 .. n : k \in G
    <3>1. 0 \in G
      <4>1. << >> \in Seq(Nat)
        OBVIOUS
      <4>2. f[0] \in Seq(Nat)
        BY <2>6, <4>1, Zenon
      <4> HIDE DEF D, N, M
      <4> QED
        BY <4>2
    <3>2. \A k \in 1 .. n : k - 1 \in G => k \in G
      BY <2>7
    <3> HIDE DEF G
    <3> QED
      BY <3>1, <3>2, UpTo
  <2>9. f \in [0 .. n -> Seq(Nat)] /\ f[n] = flatten[n]
    <3>1. \A k \in 0 .. n : f[k] \in Seq(Nat)
      BY <2>8
    <3>2. n \in 1 .. n
      BY <1>2
    <3> QED
      BY <2>6, <2>f, <3>1, <3>2
  <2>10. \A k \in 1 .. n : f[k] = f[k - 1] \o piece[k]
    <3>1. \A k \in 1 .. n : k - 1 \in 0 .. n
      OBVIOUS
    <3> QED
      BY <2>7, <2>8, <3>1
  <2>11. Joins(f, piece, n)
    BY <2>6, <2>9, <2>10 DEF Joins
  <2> QED
    BY <2>1, <2>9, <2>11
<1> QED
  BY <1>1, <1>2

\* They lie in it one behind the other.
LEMMA FlattenIs ==
  ASSUME NEW n \in Nat, NEW piece \in [1 .. n -> Seq(Nat)]
  PROVE  /\ FlattenSeq(piece) \in Seq(Nat)
         /\ \E pos : Laid(FlattenSeq(piece), piece, n, pos)
<1>1. PICK f : Joins(f, piece, n) /\ FlattenSeq(piece) = f[n]
  BY FlattenJoins
<1>2. ASSUME NEW k \in 1 .. n
      PROVE  /\ f[k - 1] \in Seq(Nat) /\ f[k] \in Seq(Nat)
             /\ Len(f[k - 1]) \in Nat /\ Len(f[k]) \in Nat /\ Len(piece[k]) \in Nat
             /\ Len(f[k]) = Len(f[k - 1]) + Len(piece[k])
             /\ \A j \in 1 .. Len(f[k - 1]) : f[k][j] = f[k - 1][j]
             /\ \A j \in 1 .. Len(piece[k]) : f[k][Len(f[k - 1]) + j] = piece[k][j]
  <2>1. f[k - 1] \in Seq(Nat) /\ piece[k] \in Seq(Nat) /\ f[k] = f[k - 1] \o piece[k]
    <3>1. k - 1 \in 0 .. n
      OBVIOUS
    <3> QED
      BY <1>1, <3>1 DEF Joins
  <2> QED
    BY <2>1, JoinIs
<1> DEFINE Holds(k, m) ==
             /\ Len(f[k]) <= Len(f[m])
             /\ \A j \in 1 .. Len(piece[k]) : f[m][Len(f[k - 1]) + j] = piece[k][j]
           G == { m \in 0 .. n : \A k \in 1 .. m : Holds(k, m) }
<1>3. \A m \in 0 .. n : m \in G
  <2>1. 0 \in G
    OBVIOUS
  <2>2. ASSUME NEW m \in 1 .. n, m - 1 \in G
        PROVE  m \in G
    <3>1. Holds(m, m)
      <4>1. /\ Len(f[m]) \in Nat
            /\ \A j \in 1 .. Len(piece[m]) : f[m][Len(f[m - 1]) + j] = piece[m][j]
        BY <1>2
      <4>2. Len(f[m]) <= Len(f[m])
        BY <4>1
      <4> QED
        BY <4>1, <4>2
    <3>2. ASSUME NEW k \in 1 .. m - 1
          PROVE  Holds(k, m)
      <4>1. Holds(k, m - 1) /\ k \in 1 .. n
        BY <2>2
      <4>2. Len(f[k]) <= Len(f[m])
        <5>1. Len(f[k]) \in Nat
          BY <1>2, <4>1
        <5>2. /\ Len(f[m]) = Len(f[m - 1]) + Len(piece[m])
              /\ Len(f[m - 1]) \in Nat /\ Len(piece[m]) \in Nat
          BY <1>2
        <5>3. Len(f[k]) <= Len(f[m - 1])
          BY <4>1
        <5>4. \A a, b, c \in Nat : a <= b => a <= b + c
          OBVIOUS
        <5> QED
          BY ONLY <5>1, <5>2, <5>3, <5>4
      <4>3. ASSUME NEW j \in 1 .. Len(piece[k])
            PROVE  f[m][Len(f[k - 1]) + j] = piece[k][j]
        <5>1. Len(f[k]) = Len(f[k - 1]) + Len(piece[k]) /\ Len(f[k - 1]) \in Nat
              /\ Len(piece[k]) \in Nat /\ Len(f[k]) <= Len(f[m - 1]) /\ Len(f[m - 1]) \in Nat
          BY <1>2, <4>1
        <5>2. \A a, b, c, d \in Nat : c = a + b /\ c <= d =>
                \A x \in 1 .. b : a + x \in 1 .. d
          OBVIOUS
        <5>3. Len(f[k - 1]) + j \in 1 .. Len(f[m - 1])
          <6>1. Len(f[k]) \in Nat
            BY <1>2, <4>1
          <6> QED
            BY <5>1, <5>2, <6>1
        <5>4. f[m][Len(f[k - 1]) + j] = f[m - 1][Len(f[k - 1]) + j]
          BY <1>2, <5>3
        <5> QED
          BY <4>1, <5>4
      <4> QED
        BY <4>2, <4>3
    <3> HIDE DEF Holds
    <3> QED
      BY <3>1, <3>2
  <2> HIDE DEF G
  <2> QED
    BY <2>1, <2>2, UpTo
<1>4. \A k \in 1 .. n : Holds(k, n)
  BY <1>3
<1> HIDE DEF G
<1> DEFINE pos == [k \in 0 .. n |-> Len(f[k])]
<1>5. f \in [0 .. n -> Seq(Nat)] /\ f[0] = << >>
  BY <1>1 DEF Joins
<1>6. pos \in [0 .. n -> Nat] /\ pos[0] = 0 /\ pos[n] = Len(f[n])
  BY <1>5
<1>7. \A k \in 1 .. n : pos[k] = Len(f[k]) /\ pos[k - 1] = Len(f[k - 1])
  OBVIOUS
<1> HIDE DEF pos
<1>8. Laid(f[n], piece, n, pos)
  <2>1. ASSUME NEW k \in 1 .. n
        PROVE  /\ pos[k] = pos[k - 1] + Len(piece[k])
               /\ \A j \in 1 .. Len(piece[k]) : f[n][pos[k - 1] + j] = piece[k][j]
    <3>1. pos[k] = Len(f[k]) /\ pos[k - 1] = Len(f[k - 1])
      BY <1>7
    <3>2. Len(f[k]) = Len(f[k - 1]) + Len(piece[k])
      BY <1>2
    <3>3. \A j \in 1 .. Len(piece[k]) : f[n][Len(f[k - 1]) + j] = piece[k][j]
      BY <1>4
    <3> QED
      BY ONLY <3>1, <3>2, <3>3
  <2> QED
    BY ONLY <1>6, <2>1 DEF Laid
<1>9. f[n] \in Seq(Nat)
  BY <1>5
<1> QED
  BY <1>1, <1>8, <1>9

\* Every piece takes room, and all lie in the sequence.
LEMMA LaidIn ==
  ASSUME NEW n \in Nat, NEW piece \in [1 .. n -> Seq(Nat)], NEW t \in Seq(Nat),
         NEW pos, Laid(t, piece, n, pos), \A k \in 1 .. n : Len(piece[k]) > 0
  PROVE  \A k \in 0 .. n : pos[k] \in Nat /\ k <= pos[k] /\ pos[k] <= Len(t)
<1>1. /\ pos \in [0 .. n -> Nat] /\ pos[0] = 0 /\ pos[n] = Len(t)
      /\ \A k \in 1 .. n : pos[k] = pos[k - 1] + Len(piece[k])
  BY DEF Laid
<1>2. \A k \in 1 .. n : pos[k] \in Nat /\ pos[k - 1] \in Nat /\ pos[k] >= pos[k - 1] + 1
  <2> SUFFICES ASSUME NEW k \in 1 .. n
               PROVE  pos[k] \in Nat /\ pos[k - 1] \in Nat /\ pos[k] >= pos[k - 1] + 1
    OBVIOUS
  <2>1. Len(piece[k]) \in Nat /\ Len(piece[k]) > 0
    OBVIOUS
  <2>2. pos[k] \in Nat /\ pos[k - 1] \in Nat
    <3>1. k \in 0 .. n /\ k - 1 \in 0 .. n
      OBVIOUS
    <3> QED
      BY ONLY <1>1, <3>1
  <2>3. pos[k] = pos[k - 1] + Len(piece[k])
    BY <1>1
  <2> QED
    BY ONLY <2>1, <2>2, <2>3
<1> DEFINE Low == { k \in 0 .. n : k <= pos[k] }
           High == { k \in 0 .. n : pos[n - k] <= pos[n] }
<1>3. \A k \in 0 .. n : k \in Low
  <2>1. 0 \in Low
    BY <1>1
  <2>2. ASSUME NEW k \in 1 .. n, k - 1 \in Low
        PROVE  k \in Low
    <3>1. k - 1 <= pos[k - 1]
      BY <2>2
    <3>2. pos[k] \in Nat /\ pos[k - 1] \in Nat /\ pos[k] >= pos[k - 1] + 1
      BY ONLY <1>2, k \in 1 .. n
    <3>3. k \in 0 .. n /\ k \in Int
      OBVIOUS
    <3>4. k <= pos[k]
      BY ONLY <3>1, <3>2, <3>3
    <3> QED
      BY <3>3, <3>4
  <2> HIDE DEF Low
  <2> QED
    BY <2>1, <2>2, UpTo
<1>4. \A k \in 0 .. n : k \in High
  <2>1. 0 \in High
    BY <1>1
  <2>2. ASSUME NEW k \in 1 .. n, k - 1 \in High
        PROVE  k \in High
    <3>1. n - k + 1 \in 1 .. n /\ n - (k - 1) = n - k + 1 /\ (n - k + 1) - 1 = n - k
      OBVIOUS
    <3>2. pos[n - k + 1] <= pos[n]
      BY <2>2, <3>1
    <3>3. pos[n] \in Nat
      BY <1>1
    <3>4. /\ pos[n - k + 1] >= pos[(n - k + 1) - 1] + 1
          /\ pos[n - k + 1] \in Nat /\ pos[(n - k + 1) - 1] \in Nat
      BY ONLY <1>2, <3>1
    <3>5. pos[n - k] <= pos[n]
      BY ONLY <3>1, <3>2, <3>3, <3>4
    <3> QED
      BY <3>5
  <2> HIDE DEF High
  <2> QED
    BY <2>1, <2>2, UpTo
<1>5. \A k \in 0 .. n : n - k \in 0 .. n /\ n - (n - k) = k
  OBVIOUS
<1>6. \A k \in 0 .. n : pos[k] <= pos[n]
  BY <1>4, <1>5
<1> QED
  BY <1>1, <1>3, <1>6

-----------------------------------------------------------------------------
(* Names in a message. *)

\* The memory of a socket.
Ring == Seq(Nat) \ {<< >>}

\* w lies in t from place k on.
Lies(t, w, k) ==
  /\ k - 1 + Len(w) <= Len(t)
  /\ \A j \in 1 .. Len(w) : At(t, k - 1 + j) = w[j]

\* Behind the last cell is the first.
LEMMA AtIs ==
  ASSUME NEW t \in Ring, NEW k \in Nat
  PROVE  At(t, k) \in Nat /\ (k \in 1 .. Len(t) => At(t, k) = t[k])
<1>1. t \in Seq(Nat) /\ Len(t) \in Nat /\ Len(t) > 0
  BY DEF Ring
<1>2. (k - 1) % Len(t) \in 0 .. Len(t) - 1
  <2>1. \A n \in Nat, x \in Int : n > 0 => x % n \in 0 .. n - 1
    OBVIOUS
  <2> QED
    BY <1>1, <2>1
<1>3. ((k - 1) % Len(t)) + 1 \in 1 .. Len(t)
  BY <1>1, <1>2
<1>4. t[((k - 1) % Len(t)) + 1] \in Nat
  BY <1>1, <1>3
<1>5. ASSUME k \in 1 .. Len(t)
      PROVE  ((k - 1) % Len(t)) + 1 = k
  <2>1. \A n \in Nat, x \in Nat : x < n => x % n = x
    OBVIOUS
  <2>2. k - 1 \in Nat /\ k - 1 < Len(t)
    BY <1>1, <1>5
  <2>3. (k - 1) % Len(t) = k - 1
    BY <1>1, <2>1, <2>2
  <2> QED
    BY <2>3
<1> QED
  BY <1>4, <1>5 DEF At

\* A state of the loop of dumpName().
Cell(left, k) == [left |-> left, k |-> k]

\* f is where it leaves off, from each of its states.
Dumps(f, t) ==
  \A left \in 0 .. Len(t), k \in Nat :
    f[Cell(left, k)] = IF At(t, k) = 0 THEN k + 1
                       ELSE IF At(t, k) >= Pointer THEN k + 2
                       ELSE IF left = 0 THEN Never
                       ELSE f[Cell(left - 1, k + 1 + At(t, k))]

\* dumpName() is that loop.
LEMMA DumpIs ==
  ASSUME NEW t \in Ring
  PROVE  \E f : /\ Dumps(f, t)
                /\ \A k \in Nat : dumpName(t, k) = f[Cell(Len(t), k)]
                /\ \A left \in 0 .. Len(t), k \in Nat : f[Cell(left, k)] \in Nat
<1> DEFINE D == [left : 0 .. Len(t), k : Nat]
           B == Len(t)
           Body(g, s) == CASE At(t, s.k) = 0 -> s.k + 1
                           [] At(t, s.k) >= Pointer -> s.k + 2
                           [] OTHER -> IF s.left = 0 THEN Never
                                       ELSE g[[left |-> s.left - 1, k |-> s.k + 1 + At(t, s.k)]]
           runs == CHOOSE g : g = [s \in D |-> Body(g, s)]
           Stop == { s \in D : At(t, s.k) = 0 \/ At(t, s.k) >= Pointer \/ s.left = 0 }
           Further(s) == [left |-> s.left - 1, k |-> s.k + 1 + At(t, s.k)]
           N == [s \in D |-> IF s.left = 0 THEN s ELSE Further(s)]
           R == [s \in D |-> IF At(t, s.k) = 0 THEN s.k + 1
                             ELSE IF At(t, s.k) >= Pointer THEN s.k + 2 ELSE Never]
           M == [s \in D |-> s.left]
           G == { s \in D : runs[s] \in Nat }
           none == {}
<1>1. \A k \in Nat : dumpName(t, k) = runs[[left |-> Len(t), k |-> k]]
  BY DEF dumpName
<1>2. B \in Nat
  BY DEF Ring
<1>3. \A s \in D : At(t, s.k) \in Nat /\ s.left \in Nat /\ s.left <= B /\ s.k \in Nat
  BY <1>2, AtIs
<1>4. ASSUME NEW s \in D, s.left # 0
      PROVE  Further(s) \in D /\ Further(s).left = s.left - 1
  <2>1. s.left - 1 \in 0 .. Len(t)
    BY <1>2, <1>3, <1>4
  <2>2. s.k + 1 + At(t, s.k) \in Nat
    BY <1>3
  <2> QED
    BY <2>1, <2>2
<1>5. N \in [D -> D] /\ M \in [D -> 0 .. B]
  <2>1. \A s \in D : (IF s.left = 0 THEN s ELSE Further(s)) \in D
    <3> HIDE DEF Further, D
    <3> QED
      BY <1>4
  <2>2. \A s \in D : s.left \in 0 .. B
    OBVIOUS
  <2> HIDE DEF Further, D
  <2> QED
    BY <2>1, <2>2
<1>6. Descends(D, N, Stop, M)
  <2> SUFFICES ASSUME NEW s \in D, s \notin Stop PROVE M[N[s]] < M[s]
    BY DEF Descends
  <2>1. s.left # 0
    OBVIOUS
  <2>2. s.left \in Nat
    BY <1>3
  <2>3. Further(s) \in D /\ Further(s).left = s.left - 1
    BY <1>4, <2>1
  <2> HIDE DEF Further, D
  <2>4. N[s] = Further(s) /\ M[s] = s.left /\ M[Further(s)] = s.left - 1
    BY <2>1, <2>3
  <2> HIDE DEF N, M
  <2> QED
    BY <2>2, <2>4
<1>7. PICK f : Loops(f, D, N, Stop, none, none, R, R)
  <2> HIDE DEF D, N, Stop, R, B, M, none
  <2> QED
    BY <1>2, <1>5, <1>6, Recursive
<1>8. f = [s \in D |-> Body(f, s)]
  <2>1. ASSUME NEW s \in D
        PROVE  f[s] = Body(f, s)
    <3>1. At(t, s.k) \in Nat /\ Pointer \in Nat /\ Pointer > 0
      BY <1>3, DnsAssumption
    <3>2. f[s] = IF s \in Stop THEN R[s] ELSE f[N[s]]
      BY <1>7 DEF Loops
    <3>3. s \notin Stop => f[s] = f[Further(s)]
      BY <3>2
    <3>4. s \in Stop => f[s] = R[s]
      BY <3>2
    <3>5. s \in Stop <=> At(t, s.k) = 0 \/ At(t, s.k) >= Pointer \/ s.left = 0
      OBVIOUS
    <3>6. R[s] = IF At(t, s.k) = 0 THEN s.k + 1
                 ELSE IF At(t, s.k) >= Pointer THEN s.k + 2 ELSE Never
      OBVIOUS
    <3> HIDE DEF Stop, R, N, D
    <3> QED
      BY <3>1, <3>3, <3>4, <3>5, <3>6
  <2>2. f = [s \in D |-> f[s]]
    BY <1>7 DEF Loops
  <2> HIDE DEF Body, D
  <2> QED
    BY <2>1, <2>2
<1>9. runs = [s \in D |-> Body(runs, s)]
  <2> HIDE DEF Body, D
  <2> QED
    BY <1>8
<1>10. \A s \in D : runs[s] = Body(runs, s)
  <2> HIDE DEF Body, runs, D
  <2> QED
    BY <1>9
<1>11. ASSUME NEW s \in D, s \in Stop \/ N[s] \in G
       PROVE  s \in G
  <2>1. /\ At(t, s.k) \in Nat /\ s.k \in Nat /\ Pointer \in Nat /\ Pointer > 0
        /\ Never \in Nat
    BY <1>3, DnsAssumption DEF Never
  <2>2. runs[s] = Body(runs, s)
    BY <1>10
  <2>3. s.left # 0 => N[s] = Further(s)
    OBVIOUS
  <2> HIDE DEF runs, N, D
  <2>4. CASE s \in Stop
    BY <2>1, <2>2, <2>4
  <2>5. CASE s \notin Stop
    <3>1. runs[N[s]] \in Nat /\ s.left # 0
      BY <1>11, <2>5
    <3>2. runs[s] = runs[Further(s)]
      BY <2>2, <2>5
    <3> QED
      BY <2>3, <3>1, <3>2
  <2> QED
    BY <2>4, <2>5
<1>12. \A s \in D : s \in G
  <2>1. Spreads(D, N, Stop, G)
    <3> HIDE DEF D, N, Stop, G
    <3> QED
      BY <1>11 DEF Spreads
  <2> HIDE DEF D, N, Stop, B, M, G
  <2> QED
    BY <1>2, <1>5, <1>6, <2>1, Descent
<1>13. \A left \in 0 .. Len(t), k \in Nat : Cell(left, k) \in D
  BY DEF Cell
<1>14. ASSUME NEW left \in 0 .. Len(t), NEW k \in Nat
       PROVE  runs[Cell(left, k)] = IF At(t, k) = 0 THEN k + 1
                                    ELSE IF At(t, k) >= Pointer THEN k + 2
                                    ELSE IF left = 0 THEN Never
                                    ELSE runs[Cell(left - 1, k + 1 + At(t, k))]
  <2>1. runs[Cell(left, k)] = Body(runs, Cell(left, k))
    BY <1>10, <1>13
  <2>2. Cell(left, k).left = left /\ Cell(left, k).k = k
    BY DEF Cell
  <2>3. At(t, k) \in Nat /\ Pointer \in Nat /\ Pointer > 0
    BY AtIs, DnsAssumption
  <2>4. [left |-> left - 1, k |-> k + 1 + At(t, k)] = Cell(left - 1, k + 1 + At(t, k))
    BY DEF Cell
  <2> HIDE DEF runs
  <2> QED
    BY <2>1, <2>2, <2>3, <2>4
<1>15. \A k \in Nat : dumpName(t, k) = runs[Cell(Len(t), k)]
  BY <1>1 DEF Cell
<1>16. \A left \in 0 .. Len(t), k \in Nat : runs[Cell(left, k)] \in Nat
  BY <1>12, <1>13
<1> HIDE DEF runs
<1>17. Dumps(runs, t)
  BY <1>14 DEF Dumps
<1> QED
  BY <1>15, <1>16, <1>17

\* Where it leaves off is a place, or Never.
LEMMA DumpGoesOn ==
  ASSUME NEW t \in Ring
  PROVE  \A k \in Nat : dumpName(t, k) \in Nat
<1>1. Len(t) \in 0 .. Len(t)
  BY DEF Ring
<1> QED
  BY <1>1, DumpIs

\* It leaves off at once behind a pointer.
LEMMA DumpsPointer ==
  ASSUME NEW t \in Ring, NEW k \in Nat, At(t, k) = Pointer
  PROVE  dumpName(t, k) = k + 2
<1>1. Len(t) \in 0 .. Len(t) /\ Pointer \in Nat /\ Pointer > 0
  BY DnsAssumption DEF Ring
<1>2. PICK f : Dumps(f, t) /\ dumpName(t, k) = f[Cell(Len(t), k)]
  BY DumpIs
<1>3. At(t, k) # 0 /\ At(t, k) >= Pointer
  BY <1>1
<1> QED
  BY <1>1, <1>2, <1>3 DEF Dumps

\* Where the labels of a name are: each behind its length, and a zero behind the last.
Spelled(w, name, pos) ==
  /\ pos \in [0 .. Len(name) -> Nat] /\ pos[0] = 0
  /\ w \in Seq(Nat) /\ Len(w) = pos[Len(name)] + 1 /\ w[Len(w)] = 0
  /\ \A k \in 1 .. Len(name) :
       /\ pos[k] = pos[k - 1] + 1 + Len(name[k]) /\ pos[k] < Len(w)
       /\ w[pos[k - 1] + 1] = Len(name[k])

\* A label has no dot in it, and is shorter than a pointer is large.
LEMMA LabelIs ==
  ASSUME NEW name \in Seq(Label)
  PROVE  /\ Len(name) \in Nat
         /\ \A k \in 1 .. Len(name) :
              name[k] \in Seq(Nat) /\ Len(name[k]) \in Nat
              /\ Len(name[k]) > 0 /\ Len(name[k]) < Pointer
              /\ \A j \in 1 .. Len(name[k]) : name[k][j] # Dot
<1> SUFFICES ASSUME NEW k \in 1 .. Len(name)
             PROVE  name[k] \in Seq(Nat) /\ Len(name[k]) \in Nat
                    /\ Len(name[k]) > 0 /\ Len(name[k]) < Pointer
                    /\ \A j \in 1 .. Len(name[k]) : name[k][j] # Dot
  OBVIOUS
<1>1. name[k] \in Label
  OBVIOUS
<1>2. name[k] \in Seq(Byte \ {0, Dot}) /\ Len(name[k]) \in 1 .. Pointer - 1
  BY <1>1 DEF Label
<1>3. \A j \in 1 .. Len(name[k]) : name[k][j] \in Byte \ {0, Dot}
  BY <1>2
<1>4. name[k] \in Seq(Nat)
  BY <1>2, DnsAssumption DEF Byte
<1> QED
  BY <1>2, <1>3, <1>4, DnsAssumption

\* A name as it goes over the wire has its labels in their places.
LEMMA WireNameIs ==
  ASSUME NEW name \in Seq(Label)
  PROVE  \E pos : Spelled(WireName(name), name, pos)
<1> DEFINE n == Len(name)
           piece == [k \in 1 .. n |-> << Len(name[k]) >> \o name[k]]
           flat == FlattenSeq(piece)
           w == WireName(name)
<1>1. n \in Nat
  OBVIOUS
<1>2. ASSUME NEW k \in 1 .. n
      PROVE  /\ piece[k] \in Seq(Nat) /\ Len(piece[k]) = 1 + Len(name[k])
             /\ piece[k][1] = Len(name[k]) /\ Len(name[k]) \in Nat
  <2>1. name[k] \in Seq(Nat) /\ Len(name[k]) \in Nat
    BY LabelIs
  <2> DEFINE head == << Len(name[k]) >>
  <2>2. head \in Seq(Nat) /\ Len(head) = 1 /\ head[1] = Len(name[k])
    BY <2>1
  <2>3. piece[k] = head \o name[k]
    OBVIOUS
  <2> HIDE DEF head, piece
  <2>4. /\ head \o name[k] \in Seq(Nat) /\ Len(head \o name[k]) = Len(head) + Len(name[k])
        /\ \A j \in 1 .. Len(head) : (head \o name[k])[j] = head[j]
    <3>1. head \in Seq(Nat) /\ name[k] \in Seq(Nat)
      BY <2>1, <2>2
    <3> DEFINE tail == name[k]
    <3> HIDE DEF tail
    <3>2. tail = name[k]
      BY DEF tail
    <3>3. /\ head \o tail \in Seq(Nat) /\ Len(head \o tail) = Len(head) + Len(tail)
          /\ \A j \in 1 .. Len(head) : (head \o tail)[j] = head[j]
      <4>1. head \in Seq(Nat) /\ tail \in Seq(Nat)
        BY <3>1, <3>2
      <4> QED
        BY ONLY <4>1, JoinIs
    <3> QED
      BY ONLY <3>2, <3>3
  <2> QED
    BY <2>1, <2>2, <2>3, <2>4
<1>3. piece \in [1 .. n -> Seq(Nat)]
  <2>1. \A k \in 1 .. n : piece[k] \in Seq(Nat)
    BY <1>2
  <2>2. piece = [k \in 1 .. n |-> piece[k]]
    OBVIOUS
  <2> HIDE DEF piece
  <2> QED
    BY <2>1, <2>2
<1>4. w = flat \o << 0 >>
  BY DEF WireName
<1> HIDE DEF piece, n, flat, w
<1>5. flat \in Seq(Nat) /\ \E pos : Laid(flat, piece, n, pos)
  BY <1>1, <1>3, FlattenIs DEF flat
<1>6. PICK pos : Laid(flat, piece, n, pos)
  BY <1>5
<1>7. \A k \in 0 .. n : pos[k] \in Nat /\ k <= pos[k] /\ pos[k] <= Len(flat)
  <2>1. \A k \in 1 .. n : Len(piece[k]) > 0
    BY <1>2
  <2> QED
    BY <1>1, <1>3, <1>5, <1>6, <2>1, LaidIn
<1>8. /\ w \in Seq(Nat) /\ Len(w) = Len(flat) + 1 /\ Len(flat) \in Nat /\ w[Len(flat) + 1] = 0
      /\ \A j \in 1 .. Len(flat) : w[j] = flat[j]
  <2> DEFINE end == << 0 >>
  <2>1. end \in Seq(Nat) /\ Len(end) = 1 /\ end[1] = 0
    OBVIOUS
  <2>2. w = flat \o end
    BY <1>4
  <2> HIDE DEF end
  <2>s. flat \in Seq(Nat) /\ end \in Seq(Nat)
    BY <1>5, <2>1
  <2>3. /\ flat \o end \in Seq(Nat) /\ Len(flat \o end) = Len(flat) + Len(end)
        /\ Len(flat) \in Nat /\ Len(end) \in Nat
        /\ \A j \in 1 .. Len(flat) : (flat \o end)[j] = flat[j]
        /\ \A j \in 1 .. Len(end) : (flat \o end)[Len(flat) + j] = end[j]
    BY ONLY <2>s, JoinIs
  <2> QED
    BY <2>1, <2>2, <2>3
<1>9. pos \in [0 .. n -> Nat] /\ pos[0] = 0 /\ pos[n] = Len(flat)
  BY <1>6 DEF Laid
<1>10. ASSUME NEW k \in 1 .. n
       PROVE  /\ pos[k] = pos[k - 1] + 1 + Len(name[k]) /\ pos[k] < Len(w)
              /\ w[pos[k - 1] + 1] = Len(name[k])
  <2>1. /\ pos[k] = pos[k - 1] + Len(piece[k])
        /\ \A j \in 1 .. Len(piece[k]) : flat[pos[k - 1] + j] = piece[k][j]
    BY <1>6 DEF Laid
  <2>2. k - 1 \in 0 .. n /\ pos[k - 1] \in Nat /\ pos[k] \in Nat /\ pos[k] <= Len(flat)
    BY <1>1, <1>7
  <2>3. pos[k] = pos[k - 1] + 1 + Len(name[k]) /\ flat[pos[k - 1] + 1] = Len(name[k])
    <3>1. Len(piece[k]) = 1 + Len(name[k]) /\ Len(name[k]) \in Nat
          /\ piece[k][1] = Len(name[k])
      BY <1>2
    <3> HIDE DEF piece
    <3>2. 1 \in 1 .. Len(piece[k])
      BY <3>1
    <3>3. pos[k - 1] + Len(piece[k]) = pos[k - 1] + 1 + Len(name[k])
      BY <2>2, <3>1
    <3>4. pos[k] = pos[k - 1] + 1 + Len(name[k])
      BY ONLY <2>1, <3>3
    <3> QED
      BY ONLY <2>1, <3>1, <3>2, <3>4
  <2>4. pos[k - 1] + 1 \in 1 .. Len(flat)
    <3>1. Len(name[k]) \in Nat
      BY <1>2
    <3>2. Len(flat) \in Nat
      BY <1>8
    <3>3. \A a, b, c, d \in Nat : d = a + 1 + b /\ d <= c => a + 1 \in 1 .. c
      OBVIOUS
    <3> QED
      BY ONLY <2>2, <2>3, <3>1, <3>2, <3>3
  <2> QED
    BY <1>8, <2>2, <2>3, <2>4
<1> QED
  BY <1>8, <1>9, <1>10 DEF Spelled, n, w

\* dumpName() passes a whole name, in fewer rounds than the memory has cells.
LEMMA NameDumped ==
  ASSUME NEW name \in Seq(Label), NEW t \in Ring, NEW first \in Nat \ {0},
         Lies(t, WireName(name), first)
  PROVE  /\ dumpName(t, first) = first + Len(WireName(name))
         /\ WireName(name) \in Seq(Nat) /\ Len(WireName(name)) \in Nat
<1> DEFINE w == WireName(name)
           n == Len(name)
           L == Len(t)
<1>1. PICK pos : Spelled(w, name, pos)
  BY WireNameIs
<1>2. /\ pos \in [0 .. n -> Nat] /\ pos[0] = 0 /\ n \in Nat
      /\ w \in Seq(Nat) /\ Len(w) \in Nat /\ Len(w) = pos[n] + 1 /\ w[Len(w)] = 0
  BY <1>1 DEF Spelled
<1>f. first \in Nat /\ first > 0 /\ L \in Nat
  BY DEF Ring
<1>l. \A k \in 1 .. n : Len(name[k]) \in Nat /\ Len(name[k]) > 0 /\ Len(name[k]) < Pointer
  BY LabelIs
<1>k. \A k \in 1 .. n : /\ pos[k] = pos[k - 1] + 1 + Len(name[k]) /\ pos[k] < Len(w)
                       /\ w[pos[k - 1] + 1] = Len(name[k])
  BY <1>1 DEF Spelled
<1>d. PICK f : Dumps(f, t) /\ \A k \in Nat : dumpName(t, k) = f[Cell(L, k)]
  BY DumpIs
<1> DEFINE G == { k \in 0 .. n : /\ k <= pos[k]
                                 /\ dumpName(t, first) = f[Cell(L - k, first + pos[k])] }
<1>r. Len(w) <= L
  <2>1. first - 1 + Len(w) <= L
    BY DEF Lies
  <2> HIDE DEF w, L
  <2> QED
    BY <1>2, <1>f, <2>1
<1>3. \A j \in 1 .. Len(w) : At(t, first - 1 + j) = w[j]
  BY DEF Lies
<1>m. ASSUME NEW k \in 0 .. L, NEW a \in Nat
      PROVE  f[Cell(k, a)] = IF At(t, a) = 0 THEN a + 1
                             ELSE IF At(t, a) >= Pointer THEN a + 2
                             ELSE IF k = 0 THEN Never
                             ELSE f[Cell(k - 1, a + 1 + At(t, a))]
  BY <1>d DEF Dumps
<1> HIDE DEF w, n, L
<1>4. \A k \in 0 .. n : k \in G
  <2>1. 0 \in G
    BY <1>2, <1>d, <1>f
  <2>2. ASSUME NEW k \in 1 .. n, k - 1 \in G
        PROVE  k \in G
    <3>1. /\ pos[k] = pos[k - 1] + 1 + Len(name[k]) /\ pos[k] < Len(w)
          /\ w[pos[k - 1] + 1] = Len(name[k])
      BY <1>k
    <3>2. Len(name[k]) \in Nat /\ Len(name[k]) > 0 /\ Len(name[k]) < Pointer
          /\ pos[k - 1] \in Nat /\ pos[k] \in Nat
      BY <1>2, <1>l
    <3>3. At(t, first + pos[k - 1]) = Len(name[k])
      <4>1. pos[k - 1] + 1 \in 1 .. Len(w)
        <5>1. Len(w) \in Nat
          BY <1>2
        <5>2. \A a, b, c \in Nat : a + 1 + b < c => a + 1 \in 1 .. c
          OBVIOUS
        <5> QED
          BY ONLY <3>1, <3>2, <5>1, <5>2
      <4>2. first - 1 + (pos[k - 1] + 1) = first + pos[k - 1]
        BY <1>f, <3>2
      <4> QED
        BY <1>3, <3>1, <4>1, <4>2
    <3>a. k \in Nat /\ k > 0 /\ k - 1 <= pos[k - 1] /\ n \in Nat
      BY <1>2, <2>2
    <3>b. k <= pos[k] /\ L - (k - 1) \in 0 .. L /\ L - (k - 1) # 0 /\ L - (k - 1) - 1 = L - k
      <4>1. \A p, q, l, m, x, j \in Nat :
              j > 0 /\ j - 1 <= p /\ q = p + 1 + x /\ q < m /\ m <= l
                => j <= q /\ l - (j - 1) \in 0 .. l /\ l - (j - 1) # 0 /\ l - (j - 1) - 1 = l - j
        OBVIOUS
      <4>2. Len(w) \in Nat /\ L \in Nat
        BY <1>2, <1>f
      <4> QED
        BY ONLY <1>r, <3>1, <3>2, <3>a, <4>1, <4>2
    <3>4. f[Cell(L - (k - 1), first + pos[k - 1])]
            = f[Cell(L - k, first + pos[k - 1] + 1 + Len(name[k]))]
      <4> DEFINE a == first + pos[k - 1]
                 i == L - (k - 1)
      <4>1. a \in Nat /\ Pointer \in Nat /\ i \in 0 .. L /\ i # 0 /\ i - 1 = L - k
        BY <1>f, <3>2, <3>b, DnsAssumption
      <4>2. At(t, a) = Len(name[k])
        BY <3>3
      <4> HIDE DEF a, i
      <4>3. f[Cell(i, a)] = IF At(t, a) = 0 THEN a + 1
                            ELSE IF At(t, a) >= Pointer THEN a + 2
                            ELSE IF i = 0 THEN Never
                            ELSE f[Cell(i - 1, a + 1 + At(t, a))]
        BY <1>m, <4>1
      <4>4. At(t, a) # 0 /\ ~ At(t, a) >= Pointer
        BY <3>2, <4>1, <4>2
      <4>5. f[Cell(i, a)] = f[Cell(L - k, a + 1 + Len(name[k]))]
        BY <4>1, <4>2, <4>3, <4>4
      <4> QED
        BY <4>5 DEF a, i
    <3>5. first + pos[k - 1] + 1 + Len(name[k]) = first + pos[k]
      <4>1. pos[k] = pos[k - 1] + 1 + Len(name[k])
        BY <3>1
      <4>2. first \in Nat /\ pos[k - 1] \in Nat /\ Len(name[k]) \in Nat
        BY <1>f, <3>2
      <4>3. \A a, b, c \in Nat : a + b + 1 + c = a + (b + 1 + c)
        OBVIOUS
      <4> QED
        BY ONLY <4>1, <4>2, <4>3
    <3>6. dumpName(t, first) = f[Cell(L - (k - 1), first + pos[k - 1])]
      BY <2>2
    <3>7. dumpName(t, first) = f[Cell(L - k, first + pos[k])]
      BY ONLY <3>4, <3>5, <3>6
    <3> QED
      BY <3>7, <3>a, <3>b
  <2> HIDE DEF G
  <2> QED
    BY <1>2, <2>1, <2>2, UpTo
<1>5. n <= pos[n] /\ dumpName(t, first) = f[Cell(L - n, first + pos[n])]
  <2>1. n \in G
    BY <1>2, <1>4
  <2> QED
    BY <2>1
<1>6. At(t, first + pos[n]) = 0 /\ first + pos[n] \in Nat
  <2>1. pos[n] \in Nat
    BY <1>2
  <2>2. Len(w) = pos[n] + 1 /\ Len(w) \in Nat /\ w[Len(w)] = 0
    BY <1>2
  <2>3. Len(w) \in 1 .. Len(w)
    BY <2>1, <2>2
  <2>4. first - 1 + Len(w) = first + pos[n]
    BY <1>f, <2>1, <2>2
  <2> QED
    BY <1>3, <1>f, <2>1, <2>2, <2>3, <2>4
<1>7. f[Cell(L - n, first + pos[n])] = first + pos[n] + 1
  <2> DEFINE a == first + pos[n]
             i == L - n
  <2>1. a \in Nat /\ At(t, a) = 0
    BY <1>6
  <2>2. i \in 0 .. L
    <3>1. pos[n] \in Nat /\ Len(w) = pos[n] + 1 /\ n \in Nat
      BY <1>2
    <3> QED
      BY <1>5, <1>f, <1>r, <3>1
  <2> HIDE DEF a, i
  <2>3. f[Cell(i, a)] = a + 1
    BY <1>m, <2>1, <2>2
  <2> QED
    BY <2>3 DEF a, i
<1>8. pos[n] \in Nat
  BY <1>2
<1>9. dumpName(t, first) = first + Len(w)
  BY <1>2, <1>5, <1>7, <1>8, <1>f
<1> QED
  BY <1>2, <1>9 DEF w

-----------------------------------------------------------------------------
(* Answers. *)

\* One round of the loop over the answers.
LEMMA AnswersStep ==
  ASSUME NEW t \in Ring, NEW n \in - Half .. Half, NEW first \in Nat
  PROVE  LET head == dumpName(t, first) IN
           Answers(t, n, first) =
             IF n <= 0 THEN [code |-> 2, answer |-> 0]
             ELSE IF head = Never THEN [code |-> Endless, answer |-> 0]
             ELSE IF At(t, head) = TypeA THEN [code |-> 1, answer |-> At(t, head + 2)]
             ELSE Answers(t, n - 1, head + 2 + At(t, head + 1))
<1> DEFINE D == [n : - Half .. Half, k : Nat]
           Owner(k) == dumpName(t, k)
           Body(g, s) == CASE s.n <= 0 -> [code |-> 2, answer |-> 0]
                           [] s.n > 0 /\ Owner(s.k) = Never -> [code |-> Endless, answer |-> 0]
                           [] s.n > 0 /\ Owner(s.k) # Never /\ At(t, Owner(s.k)) = TypeA ->
                                [code |-> 1, answer |-> At(t, Owner(s.k) + 2)]
                           [] OTHER -> g[[n |-> s.n - 1,
                                          k |-> Owner(s.k) + 2 + At(t, Owner(s.k) + 1)]]
           loop == CHOOSE g : g = [s \in D |-> Body(g, s)]
           Further(s) == [n |-> s.n - 1, k |-> Owner(s.k) + 2 + At(t, Owner(s.k) + 1)]
           N == [s \in D |-> IF s.n <= 0 THEN s ELSE Further(s)]
           Stop == { s \in D : s.n <= 0 \/ Owner(s.k) = Never \/ At(t, Owner(s.k)) = TypeA }
           R == [s \in D |-> IF s.n <= 0 THEN [code |-> 2, answer |-> 0]
                             ELSE IF Owner(s.k) = Never THEN [code |-> Endless, answer |-> 0]
                             ELSE [code |-> 1, answer |-> At(t, Owner(s.k) + 2)]]
           M == [s \in D |-> IF s.n <= 0 THEN 0 ELSE s.n]
           none == {}
           start == [n |-> n, k |-> first]
<1>1. \A m, k : Answers(t, m, k) = loop[[n |-> m, k |-> k]]
  BY DEF Answers
<1>2. Half \in Nat /\ \A k \in Nat : Owner(k) \in Nat /\ Owner(k) + 2 + At(t, Owner(k) + 1) \in Nat
  <2>1. ASSUME NEW k \in Nat
        PROVE  Owner(k) \in Nat /\ Owner(k) + 2 + At(t, Owner(k) + 1) \in Nat
    <3>1. Owner(k) \in Nat
      BY DumpGoesOn
    <3> HIDE DEF Owner
    <3>2. Owner(k) + 1 \in Nat
      BY <3>1
    <3>3. At(t, Owner(k) + 1) \in Nat
      BY <3>2, AtIs
    <3> QED
      BY <3>1, <3>3
  <2> QED
    BY <2>1, DnsAssumption
<1> HIDE DEF Owner
<1>3. ASSUME NEW s \in D, ~ s.n <= 0
      PROVE  /\ s.n \in Int /\ s.n > 0 /\ s.n <= Half /\ Further(s) \in D /\ Further(s).n = s.n - 1
  <2>1. s.n \in - Half .. Half /\ s.k \in Nat
    OBVIOUS
  <2>2. s.n \in Int /\ s.n > 0 /\ s.n <= Half
    BY <1>2, <1>3, <2>1
  <2>3. s.n - 1 \in - Half .. Half
    <3>1. \A h \in Nat, x \in Int : x > 0 /\ x <= h => x - 1 \in - h .. h
      OBVIOUS
    <3> QED
      BY <1>2, <2>2, <3>1
  <2> QED
    BY <1>2, <2>1, <2>2, <2>3
<1>4. \A s \in D : s.n \in Int
  BY <1>2
<1>5. PICK f : Loops(f, D, N, Stop, none, none, R, R)
  <2>1. N \in [D -> D]
    <3>1. \A s \in D : (IF s.n <= 0 THEN s ELSE Further(s)) \in D
      <4> HIDE DEF Further, D
      <4> QED
        BY <1>3
    <3> HIDE DEF Further, D
    <3> QED
      BY <3>1
  <2>2. M \in [D -> 0 .. Half]
    <3>1. ASSUME NEW s \in D
          PROVE  (IF s.n <= 0 THEN 0 ELSE s.n) \in 0 .. Half
      <4>1. CASE s.n <= 0
        BY <1>2, <4>1
      <4>2. CASE ~ s.n <= 0
        <5>1. s.n \in Int /\ s.n > 0 /\ s.n <= Half
          BY <1>3, <4>2
        <5> QED
          BY <1>2, <4>2, <5>1
      <4> QED
        BY <4>1, <4>2
    <3> HIDE DEF D
    <3> QED
      BY <3>1
  <2>3. Descends(D, N, Stop, M)
    <3> SUFFICES ASSUME NEW s \in D, s \notin Stop PROVE M[N[s]] < M[s]
      BY DEF Descends
    <3>1. ~ s.n <= 0
      OBVIOUS
    <3>2. /\ s.n \in Int /\ s.n > 0 /\ Further(s) \in D /\ Further(s).n = s.n - 1
      BY <1>3, <3>1
    <3> HIDE DEF Further, D
    <3>3. N[s] = Further(s) /\ M[s] = s.n
      BY <3>1
    <3>4. M[Further(s)] = IF s.n - 1 <= 0 THEN 0 ELSE s.n - 1
      BY <3>2
    <3> HIDE DEF N, M
    <3> QED
      BY <3>2, <3>3, <3>4
  <2> HIDE DEF D, N, Stop, R, M, none
  <2> QED
    BY <1>2, <2>1, <2>2, <2>3, Recursive
<1>6. f = [s \in D |-> Body(f, s)]
  <2>1. ASSUME NEW s \in D
        PROVE  f[s] = Body(f, s)
    <3>1. f[s] = IF s \in Stop THEN R[s] ELSE f[N[s]]
      BY <1>5 DEF Loops
    <3>2. s.n \in Int
      BY <1>4
    <3>3. CASE s.n <= 0
      <4>1. f[s] = [code |-> 2, answer |-> 0]
        BY <3>1, <3>3
      <4> QED
        BY <3>2, <3>3, <4>1
    <3>6. CASE s.n > 0 /\ Owner(s.k) = Never
      <4>1. ~ s.n <= 0
        BY <3>2, <3>6
      <4>2. f[s] = [code |-> Endless, answer |-> 0]
        BY <3>1, <3>6, <4>1
      <4> QED
        BY <3>6, <4>1, <4>2
    <3>4. CASE s.n > 0 /\ Owner(s.k) # Never /\ At(t, Owner(s.k)) = TypeA
      <4>1. ~ s.n <= 0
        BY <3>2, <3>4
      <4>2. f[s] = [code |-> 1, answer |-> At(t, Owner(s.k) + 2)]
        BY <3>1, <3>4, <4>1
      <4> QED
        BY <3>4, <4>1, <4>2
    <3>5. CASE s.n > 0 /\ Owner(s.k) # Never /\ At(t, Owner(s.k)) # TypeA
      <4>1. ~ s.n <= 0
        BY <3>2, <3>5
      <4>2. f[s] = f[Further(s)]
        BY <3>1, <3>5, <4>1
      <4> QED
        BY <3>5, <4>1, <4>2
    <3> QED
      BY <3>2, <3>3, <3>4, <3>5, <3>6
  <2>2. f = [s \in D |-> f[s]]
    BY <1>5 DEF Loops
  <2> HIDE DEF Body, D
  <2> QED
    BY <2>1, <2>2
<1>7. loop = [s \in D |-> Body(loop, s)]
  <2> HIDE DEF Body, D
  <2> QED
    BY <1>6
<1>8. start \in D /\ start.n = n /\ start.k = first
  OBVIOUS
<1>9. loop[start] = Body(loop, start)
  <2> HIDE DEF Body, D, loop, start
  <2> QED
    BY <1>7, <1>8
<1>10. n \in Int
  BY <1>2
<1>11. Answers(t, n, first) = loop[start] /\
       Answers(t, n - 1, Owner(first) + 2 + At(t, Owner(first) + 1)) = loop[Further(start)]
  <2> HIDE DEF loop
  <2> QED
    BY <1>1, <1>8
<1> HIDE DEF loop
<1>12. Body(loop, start) = IF n <= 0 THEN [code |-> 2, answer |-> 0]
         ELSE IF Owner(first) = Never THEN [code |-> Endless, answer |-> 0]
         ELSE IF At(t, Owner(first)) = TypeA THEN [code |-> 1, answer |-> At(t, Owner(first) + 2)]
         ELSE loop[Further(start)]
  BY <1>8, <1>10
<1> HIDE DEF Body, Further, start
<1>13. Answers(t, n, first) = IF n <= 0 THEN [code |-> 2, answer |-> 0]
         ELSE IF Owner(first) = Never THEN [code |-> Endless, answer |-> 0]
         ELSE IF At(t, Owner(first)) = TypeA THEN [code |-> 1, answer |-> At(t, Owner(first) + 2)]
         ELSE Answers(t, n - 1, Owner(first) + 2 + At(t, Owner(first) + 1))
  BY <1>9, <1>11, <1>12
<1> QED
  BY <1>13 DEF Owner

\* What lies in t lies there part by part.
LEMMA LiesApart ==
  ASSUME NEW t \in Ring, NEW u \in Seq(Nat), NEW v \in Seq(Nat), NEW k \in Nat,
         Lies(t, u \o v, k)
  PROVE  Lies(t, u, k) /\ Lies(t, v, k + Len(u))
<1>1. /\ Len(u \o v) = Len(u) + Len(v) /\ Len(u) \in Nat /\ Len(v) \in Nat
      /\ \A j \in 1 .. Len(u) : (u \o v)[j] = u[j]
      /\ \A j \in 1 .. Len(v) : (u \o v)[Len(u) + j] = v[j]
  BY ONLY u \in Seq(Nat), v \in Seq(Nat), JoinIs
<1>2. /\ k - 1 + Len(u \o v) <= Len(t) /\ Len(t) \in Nat
      /\ \A j \in 1 .. Len(u \o v) : At(t, k - 1 + j) = (u \o v)[j]
  BY DEF Lies, Ring
<1> DEFINE w == u \o v
<1> HIDE DEF w
<1>3. ASSUME NEW j \in 1 .. Len(u)
      PROVE  At(t, k - 1 + j) = u[j]
  <2>1. j \in 1 .. Len(w)
    BY <1>1 DEF w
  <2> QED
    BY <1>1, <1>2, <2>1 DEF w
<1>4. ASSUME NEW j \in 1 .. Len(v)
      PROVE  At(t, k + Len(u) - 1 + j) = v[j]
  <2>1. Len(u) + j \in 1 .. Len(w)
    BY <1>1 DEF w
  <2>2. k - 1 + (Len(u) + j) = k + Len(u) - 1 + j
    BY <1>1
  <2>3. At(t, k - 1 + (Len(u) + j)) = w[Len(u) + j]
    BY <1>2, <2>1 DEF w
  <2> QED
    BY <1>1, <2>2, <2>3 DEF w
<1>5. k - 1 + Len(u) <= Len(t) /\ k + Len(u) - 1 + Len(v) <= Len(t)
  <2>1. \A a, b, c, d \in Nat : a - 1 + (b + c) <= d => a - 1 + b <= d /\ a + b - 1 + c <= d
    OBVIOUS
  <2>2. k - 1 + (Len(u) + Len(v)) <= Len(t)
    BY <1>1, <1>2
  <2> QED
    BY <1>1, <1>2, <2>1, <2>2
<1> QED
  BY <1>3, <1>4, <1>5 DEF Lies

\* A message lies in the memory it was written to from its first place on.
LEMMA MemoryIs ==
  ASSUME NEW w \in Ring, NEW t \in Memory(w)
  PROVE  t \in Ring /\ Lies(t, w, 1)
<1>1. PICK ring \in Rings : t = w \o SubSeq(ring, Len(w) + 1, Len(ring))
  BY DEF Memory
<1> DEFINE tail == SubSeq(ring, Len(w) + 1, Len(ring))
<1>2. w \in Seq(Nat) /\ Len(w) \in Nat /\ Len(w) > 0
  BY DEF Ring
<1>3. tail \in Seq(Nat)
  <2>1. ring \in Seq(Nat) /\ Len(ring) \in Nat
    BY LookupAssumption, DnsAssumption DEF Byte
  <2>2. Len(w) + 1 \in Int /\ Len(ring) \in Int
        /\ \A i \in Len(w) + 1 .. Len(ring) : ring[i] \in Nat
    BY <1>2, <2>1
  <2> QED
    BY ONLY <2>2, SubSeqProperties
<1> HIDE DEF tail
<1>4. /\ t \in Seq(Nat) /\ Len(t) = Len(w) + Len(tail) /\ Len(tail) \in Nat
      /\ \A j \in 1 .. Len(w) : t[j] = w[j]
  <2>1. /\ w \o tail \in Seq(Nat) /\ Len(w \o tail) = Len(w) + Len(tail) /\ Len(tail) \in Nat
        /\ \A j \in 1 .. Len(w) : (w \o tail)[j] = w[j]
    BY ONLY <1>2, <1>3, JoinIs
  <2> QED
    BY <1>1, <2>1 DEF tail
<1>5. t \in Ring
  BY <1>2, <1>4 DEF Ring
<1>6. ASSUME NEW j \in 1 .. Len(w)
      PROVE  At(t, 1 - 1 + j) = w[j]
  <2>1. j \in Nat /\ j \in 1 .. Len(t) /\ 1 - 1 + j = j
    BY <1>2, <1>4
  <2>2. At(t, j) = t[j]
    BY <1>5, <2>1, AtIs
  <2> QED
    BY <1>4, <2>1, <2>2
<1>7. 1 - 1 + Len(w) <= Len(t)
  BY <1>2, <1>4
<1> QED
  BY <1>5, <1>6, <1>7 DEF Lies

\* The parts of a record.
LEMMA RecordIs ==
  ASSUME NEW r \in Record
  PROVE  /\ r.pointer \in BOOLEAN /\ r.type \in Nat /\ r.rdata \in Seq(Nat)
         /\ Len(r.rdata) \in Nat /\ (r.type = TypeA => Len(r.rdata) > 0)
<1>1. r \in [pointer : BOOLEAN, type : Byte, rdata : Seq(Byte)]
      /\ (r.type = TypeA => r.rdata # << >>)
  BY DEF Record
<1>2. r.pointer \in BOOLEAN /\ r.type \in Byte /\ r.rdata \in Seq(Byte)
  BY <1>1
<1>3. r.type \in Nat /\ r.rdata \in Seq(Nat)
  BY <1>2, DnsAssumption DEF Byte
<1>4. Len(r.rdata) \in Nat /\ (r.rdata # << >> => Len(r.rdata) > 0)
  BY <1>3
<1> QED
  BY <1>1, <1>2, <1>3, <1>4

\* What the loop finds of a record: where its head is, and what is in it.
ReadsRecord(t, r, cells, k) ==
  LET head == dumpName(t, k) IN
    /\ head \in Nat /\ head # Never /\ At(t, head) = r.type /\ At(t, head + 1) = Len(r.rdata)
    /\ head + 2 + Len(r.rdata) = k + Len(cells)
    /\ r.type = TypeA => At(t, head + 2) = r.rdata[1]

\* A record that lies in t is found there, whichever way its owner is written.
LEMMA RecordRead ==
  ASSUME NEW r \in Record, NEW name \in Seq(Label), NEW t \in Ring, NEW k \in Nat, k > 0,
         Lies(t, RecordCells(r, name), k)
  PROVE  ReadsRecord(t, r, RecordCells(r, name), k)
<1> DEFINE pointer == << Pointer, 2 >>
           owner == IF r.pointer THEN pointer ELSE WireName(name)
           fields == << r.type, Len(r.rdata) >>
           body == fields \o r.rdata
           cells == RecordCells(r, name)
<1>1. /\ r.pointer \in BOOLEAN /\ r.type \in Nat /\ r.rdata \in Seq(Nat)
      /\ Len(r.rdata) \in Nat /\ (r.type = TypeA => Len(r.rdata) > 0)
  BY RecordIs
<1>2. cells = owner \o body
  BY DEF RecordCells
<1>3. /\ pointer \in Seq(Nat) /\ Len(pointer) = 2 /\ pointer[1] = Pointer
      /\ Pointer \in Nat /\ Pointer > 0
  BY DnsAssumption
<1>4. WireName(name) \in Seq(Nat) /\ Len(WireName(name)) \in Nat
  <2>1. PICK pos : Spelled(WireName(name), name, pos)
    BY WireNameIs
  <2> QED
    BY <2>1 DEF Spelled
<1>5. fields \in Seq(Nat) /\ Len(fields) = 2 /\ fields[1] = r.type /\ fields[2] = Len(r.rdata)
  BY <1>1
<1> HIDE DEF pointer, fields, cells
<1>6. owner \in Seq(Nat) /\ Len(owner) \in Nat
  BY <1>3, <1>4
<1>7. body \in Seq(Nat) /\ Len(body) = 2 + Len(r.rdata)
  <2>1. /\ fields \o r.rdata \in Seq(Nat)
        /\ Len(fields \o r.rdata) = Len(fields) + Len(r.rdata)
    <3> DEFINE rdata == r.rdata
    <3>1. fields \in Seq(Nat) /\ rdata \in Seq(Nat)
      BY <1>1, <1>5
    <3> HIDE DEF rdata
    <3>2. fields \o rdata \in Seq(Nat) /\ Len(fields \o rdata) = Len(fields) + Len(rdata)
      BY ONLY <3>1, JoinIs
    <3> QED
      BY <3>2 DEF rdata
  <2> QED
    BY <1>5, <2>1
<1> HIDE DEF owner, body
<1>8. Lies(t, owner, k) /\ Lies(t, body, k + Len(owner)) /\ Len(cells) = Len(owner) + Len(body)
  <2>1. Lies(t, owner \o body, k)
    BY <1>2 DEF cells
  <2>2. Lies(t, owner, k) /\ Lies(t, body, k + Len(owner))
    BY <1>6, <1>7, <2>1, LiesApart
  <2>3. Len(owner \o body) = Len(owner) + Len(body)
    BY ONLY <1>6, <1>7, JoinIs
  <2> QED
    BY <1>2, <2>2, <2>3
<1> DEFINE head == k + Len(owner)
<1>9. head \in Nat /\ head # Never
  BY <1>6 DEF Never
<1>10. dumpName(t, k) = head
  <2>1. CASE r.pointer
    <3>1. owner = pointer /\ 1 \in 1 .. Len(pointer) /\ k - 1 + 1 = k /\ Len(owner) = 2
      BY <1>3, <2>1 DEF owner
    <3>2. At(t, k) = Pointer
      BY <1>3, <1>8, <3>1 DEF Lies
    <3>4. dumpName(t, k) = k + 2
      BY <3>2, DumpsPointer
    <3> QED
      BY <3>1, <3>4
  <2>2. CASE ~ r.pointer
    <3>1. owner = WireName(name)
      BY <2>2 DEF owner
    <3>2. k \in Nat \ {0}
      OBVIOUS
    <3>3. dumpName(t, k) = k + Len(WireName(name))
      BY <1>8, <3>1, <3>2, NameDumped
    <3> QED
      BY <3>1, <3>3
  <2> QED
    BY <1>1, <2>1, <2>2
<1>11. Lies(t, fields, head) /\ Lies(t, r.rdata, head + 2)
  <2>1. Lies(t, fields \o r.rdata, head)
    BY <1>8 DEF body
  <2> HIDE DEF head
  <2>2. Lies(t, fields, head) /\ Lies(t, r.rdata, head + Len(fields))
    BY <1>1, <1>5, <1>9, <2>1, LiesApart
  <2> QED
    BY <1>5, <2>2
<1> HIDE DEF head
<1>12. At(t, head) = r.type /\ At(t, head + 1) = Len(r.rdata)
  <2>1. 1 \in 1 .. Len(fields) /\ 2 \in 1 .. Len(fields)
    BY <1>5
  <2>2. head - 1 + 1 = head /\ head - 1 + 2 = head + 1
    BY <1>9
  <2>3. At(t, head - 1 + 1) = fields[1] /\ At(t, head - 1 + 2) = fields[2]
    BY <1>11, <2>1 DEF Lies
  <2> QED
    BY <1>5, <2>2, <2>3
<1>13. ASSUME r.type = TypeA
       PROVE  At(t, head + 2) = r.rdata[1]
  <2>1. 1 \in 1 .. Len(r.rdata)
    BY <1>1, <1>13
  <2> DEFINE a == head + 2
  <2>2. Lies(t, r.rdata, a) /\ a \in Nat
    BY <1>9, <1>11
  <2> HIDE DEF a
  <2>3. At(t, a - 1 + 1) = r.rdata[1] /\ a - 1 + 1 = a
    BY <2>1, <2>2 DEF Lies
  <2>4. At(t, a) = r.rdata[1]
    BY <2>3
  <2> QED
    BY <2>4 DEF a
<1>14. head + 2 + Len(r.rdata) = k + Len(cells)
  <2>1. head = k + Len(owner) /\ Len(owner) \in Nat /\ Len(r.rdata) \in Nat
    BY <1>1, <1>6 DEF head
  <2>2. Len(cells) = Len(owner) + (2 + Len(r.rdata))
    BY <1>7, <1>8
  <2>3. \A a, b, c \in Nat : (a + b) + 2 + c = a + (b + (2 + c))
    OBVIOUS
  <2>4. k + Len(owner) + 2 + Len(r.rdata) = k + (Len(owner) + (2 + Len(r.rdata)))
    BY ONLY <2>1, <2>3, k \in Nat
  <2> QED
    BY <2>1, <2>2, <2>4, Zenon
<1> QED
  BY <1>9, <1>10, <1>12, <1>13, <1>14 DEF ReadsRecord, cells

\* The address of the first A record.
FirstAddress(records, ip) ==
  \E k \in DOMAIN records :
    /\ records[k].type = TypeA /\ ip = records[k].rdata[1]
    /\ \A j \in DOMAIN records : records[j].type = TypeA => k <= j

\* The records in t, each as it should be, from the places pos.
Lined(t, records, name, first, pos) ==
  /\ pos \in [0 .. Len(records) -> Nat] /\ pos[0] = first
  /\ \A k \in 1 .. Len(records) :
       /\ pos[k - 1] > 0 /\ pos[k] = pos[k - 1] + Len(RecordCells(records[k], name))
       /\ Lies(t, RecordCells(records[k], name), pos[k - 1])

\* The loop over the answers finds it, or that there is none.
LEMMA AnswersFind ==
  ASSUME NEW name \in Seq(Label), NEW records \in Seq(Record), Len(records) < Half,
         NEW t \in Ring, NEW first, NEW pos, Lined(t, records, name, first, pos)
  PROVE  LET result == Answers(t, Len(records), first) IN
           IF \E k \in DOMAIN records : records[k].type = TypeA
           THEN result.code = 1 /\ FirstAddress(records, result.answer)
           ELSE result.code = 2
<1> DEFINE m == Len(records)
           found == { k \in 1 .. m : records[k].type = TypeA }
           None(j) == \A k \in 1 .. j : k \notin found
           G == { j \in 0 .. m : None(j) => Answers(t, m, first) = Answers(t, m - j, pos[j]) }
<1>1. m \in Nat /\ DOMAIN records = 1 .. m /\ Half \in Nat /\ m < Half
  BY DnsAssumption
<1>2. /\ pos \in [0 .. m -> Nat] /\ pos[0] = first
      /\ \A k \in 1 .. m :
           /\ pos[k - 1] > 0 /\ pos[k] = pos[k - 1] + Len(RecordCells(records[k], name))
           /\ Lies(t, RecordCells(records[k], name), pos[k - 1])
  BY DEF Lined
<1>3. ASSUME NEW k \in 1 .. m
      PROVE  /\ k - 1 \in 0 .. m /\ pos[k - 1] \in Nat
             /\ ReadsRecord(t, records[k], RecordCells(records[k], name), pos[k - 1])
  <2>1. records[k] \in Record
    BY <1>1
  <2>2. k - 1 \in 0 .. m /\ pos[k - 1] \in Nat
    <3> HIDE DEF m
    <3>1. k - 1 \in 0 .. m
      BY <1>1
    <3> QED
      BY <1>2, <3>1
  <2> QED
    BY <1>2, <2>1, <2>2, RecordRead
<1> HIDE DEF m
<1>4. ASSUME NEW j \in 0 .. m, NEW k \in Nat
      PROVE  LET head == dumpName(t, k) IN
               Answers(t, j, k) =
                 IF j <= 0 THEN [code |-> 2, answer |-> 0]
                 ELSE IF head = Never THEN [code |-> Endless, answer |-> 0]
                 ELSE IF At(t, head) = TypeA THEN [code |-> 1, answer |-> At(t, head + 2)]
                 ELSE Answers(t, j - 1, head + 2 + At(t, head + 1))
  <2>1. j \in - Half .. Half
    BY <1>1
  <2> QED
    BY <2>1, AnswersStep
<1>5. \A j \in 0 .. m : j \in G
  <2>1. 0 \in G
    BY <1>1, <1>2
  <2>2. ASSUME NEW k \in 1 .. m, k - 1 \in G, None(k)
        PROVE  Answers(t, m, first) = Answers(t, m - k, pos[k])
    <3>1. None(k - 1) /\ k \notin found
      BY <2>2
    <3>2. Answers(t, m, first) = Answers(t, m - (k - 1), pos[k - 1])
      BY <2>2, <3>1
    <3> DEFINE head == dumpName(t, pos[k - 1])
               j == m - (k - 1)
    <3>3. j \in 0 .. m /\ ~ j <= 0 /\ j - 1 = m - k
      BY <1>1
    <3>4. /\ pos[k - 1] \in Nat /\ head \in Nat /\ head # Never /\ At(t, head) = records[k].type
          /\ At(t, head + 1) = Len(records[k].rdata)
          /\ head + 2 + Len(records[k].rdata) = pos[k - 1] + Len(RecordCells(records[k], name))
      BY <1>3 DEF ReadsRecord
    <3>5. At(t, head) # TypeA
      BY <3>1, <3>4
    <3>6. head + 2 + At(t, head + 1) = pos[k]
      BY <1>2, <3>4
    <3>7. Answers(t, j, pos[k - 1]) = Answers(t, j - 1, head + 2 + At(t, head + 1))
      <4> HIDE DEF j
      <4> QED
        BY <1>4, <3>3, <3>4, <3>5
    <3> QED
      BY <3>2, <3>3, <3>6, <3>7
  <2>3. \A k \in 1 .. m : k - 1 \in G => k \in G
    <3> HIDE DEF None
    <3> QED
      BY <2>2
  <2> HIDE DEF G
  <2> QED
    BY <1>1, <2>1, <2>3, UpTo
<1>6. CASE found = {}
  <2>1. None(m)
    BY <1>6
  <2>2. Answers(t, m, first) = Answers(t, m - m, pos[m])
    <3>1. m \in G
      BY <1>1, <1>5
    <3> HIDE DEF None
    <3> QED
      BY <2>1, <3>1
  <2>3. m - m = 0 /\ 0 \in 0 .. m /\ pos[m] \in Nat
    BY <1>1, <1>2
  <2>4. Answers(t, 0, pos[m]) = [code |-> 2, answer |-> 0]
    BY <1>4, <2>3
  <2> QED
    BY <1>1, <1>6, <2>2, <2>3, <2>4 DEF m
<1>7. CASE found # {}
  <2>1. found \in SUBSET Nat
    BY <1>1
  <2>2. PICK k \in found : \A j \in found : k <= j
    <3> HIDE DEF found
    <3> QED
      BY <1>7, <2>1, HasFirst
  <2>3. k \in 1 .. m /\ records[k].type = TypeA
    OBVIOUS
  <2>4. None(k - 1)
    BY <1>1, <2>2
  <2>5. Answers(t, m, first) = Answers(t, m - (k - 1), pos[k - 1])
    <3>1. k - 1 \in G
      BY <1>3, <1>5, <2>3
    <3> HIDE DEF None
    <3> QED
      BY <2>4, <3>1
  <2> DEFINE head == dumpName(t, pos[k - 1])
             j == m - (k - 1)
  <2>6. j \in 0 .. m /\ ~ j <= 0
    BY <1>1, <2>3
  <2>7. /\ pos[k - 1] \in Nat /\ head \in Nat /\ head # Never /\ At(t, head) = TypeA
        /\ At(t, head + 2) = records[k].rdata[1]
    BY <1>3, <2>3 DEF ReadsRecord
  <2>8. Answers(t, j, pos[k - 1]) = [code |-> 1, answer |-> At(t, head + 2)]
    <3> HIDE DEF j
    <3> QED
      BY <1>4, <2>6, <2>7
  <2>9. FirstAddress(records, records[k].rdata[1])
    <3>1. \A i \in DOMAIN records : records[i].type = TypeA => k <= i
      BY <1>1, <2>2
    <3> QED
      BY <1>1, <2>3, <3>1 DEF FirstAddress
  <2>10. \E i \in DOMAIN records : records[i].type = TypeA
    BY <1>1, <2>3
  <2>11. Answers(t, m, first).code = 1
         /\ Answers(t, m, first).answer = records[k].rdata[1]
    BY <2>5, <2>7, <2>8
  <2> QED
    BY <2>9, <2>10, <2>11 DEF m
<1> QED
  BY <1>6, <1>7

\* A record takes room.
LEMMA RecordCellsAre ==
  ASSUME NEW r \in Record, NEW name \in Seq(Label)
  PROVE  /\ RecordCells(r, name) \in Seq(Nat) /\ Len(RecordCells(r, name)) \in Nat
         /\ Len(RecordCells(r, name)) > 0
<1> DEFINE pointer == << Pointer, 2 >>
           owner == IF r.pointer THEN pointer ELSE WireName(name)
           fields == << r.type, Len(r.rdata) >>
<1>1. /\ r.pointer \in BOOLEAN /\ r.type \in Nat /\ r.rdata \in Seq(Nat)
      /\ Len(r.rdata) \in Nat /\ (r.type = TypeA => Len(r.rdata) > 0)
  BY RecordIs
<1>2. RecordCells(r, name) = owner \o (fields \o r.rdata)
  BY DEF RecordCells
<1>3. pointer \in Seq(Nat) /\ fields \in Seq(Nat) /\ Len(fields) = 2
  BY <1>1, DnsAssumption
<1>4. WireName(name) \in Seq(Nat)
  <2>1. PICK pos : Spelled(WireName(name), name, pos)
    BY WireNameIs
  <2> QED
    BY <2>1 DEF Spelled
<1> HIDE DEF pointer, fields
<1>5. owner \in Seq(Nat)
  BY <1>3, <1>4
<1> HIDE DEF owner
<1> DEFINE body == fields \o r.rdata
<1>6. body \in Seq(Nat) /\ Len(body) = Len(fields) + Len(r.rdata)
  BY ONLY <1>1, <1>3, JoinIs
<1> HIDE DEF body
<1>7. /\ owner \o body \in Seq(Nat) /\ Len(owner \o body) = Len(owner) + Len(body)
      /\ Len(owner) \in Nat
  BY ONLY <1>5, <1>6, JoinIs
<1> QED
  BY <1>1, <1>2, <1>3, <1>6, <1>7 DEF body

\* Where everything is in an answer, whatever follows it.
Placed(t, rcode, records, name) ==
  /\ t \in Ring /\ t[1] = Half + rcode /\ t[2] = Len(records) /\ dumpName(t, 3) # Never
  /\ \E pos : Lined(t, records, name, dumpName(t, 3) + 1, pos)

\* An answer has everything in its place.
LEMMA AnswerPlaced ==
  ASSUME NEW rcode \in Nat, NEW records \in Seq(Record), NEW name \in Seq(Label),
         NEW t \in Memory(AnswerCells(rcode, records, name))
  PROVE  Placed(t, rcode, records, name)
<1> DEFINE m == Len(records)
           h == << Half + rcode, m >>
           w == WireName(name)
           q == << TypeA >>
           piece == [k \in 1 .. m |-> RecordCells(records[k], name)]
           flat == FlattenSeq(piece)
           cells == AnswerCells(rcode, records, name)
<1>1. m \in Nat /\ \A k \in 1 .. m : records[k] \in Record
  OBVIOUS
<1>2. h \in Seq(Nat) /\ Len(h) = 2 /\ h[1] = Half + rcode /\ h[2] = m
  BY <1>1, DnsAssumption
<1>3. q \in Seq(Nat) /\ Len(q) = 1
  BY DEF TypeA
<1>4. w \in Seq(Nat) /\ Len(w) \in Nat
  <2>1. PICK pos : Spelled(w, name, pos)
    BY WireNameIs
  <2> QED
    BY <2>1 DEF Spelled
<1>5. cells = ((h \o w) \o q) \o flat
  BY DEF AnswerCells
<1> HIDE DEF m
<1>6. piece \in [1 .. m -> Seq(Nat)]
      /\ \A k \in 1 .. m : piece[k] = RecordCells(records[k], name)
  <2>1. \A k \in 1 .. m : RecordCells(records[k], name) \in Seq(Nat)
    BY <1>1, RecordCellsAre
  <2> QED
    BY <2>1
<1> HIDE DEF h, w, q, piece, flat, cells
<1>7. flat \in Seq(Nat) /\ \E pos : Laid(flat, piece, m, pos)
  BY <1>1, <1>6, FlattenIs DEF flat
<1>8. PICK pos : Laid(flat, piece, m, pos)
  BY <1>7
<1> DEFINE hw == h \o w
           hwq == hw \o q
<1>9. hw \in Seq(Nat) /\ Len(hw) = Len(h) + Len(w)
  BY ONLY <1>2, <1>4, JoinIs
<1> HIDE DEF hw
<1>10. hwq \in Seq(Nat) /\ Len(hwq) = Len(hw) + Len(q)
  BY ONLY <1>3, <1>9, JoinIs
<1> HIDE DEF hwq
<1>11. cells \in Seq(Nat) /\ Len(cells) = Len(hwq) + Len(flat) /\ Len(flat) \in Nat
  <2>1. hwq \o flat \in Seq(Nat) /\ Len(hwq \o flat) = Len(hwq) + Len(flat) /\ Len(flat) \in Nat
    BY ONLY <1>7, <1>10, JoinIs
  <2> QED
    BY <1>5, <2>1 DEF hwq, hw
<1>c. cells \in Ring
  BY <1>2, <1>3, <1>4, <1>9, <1>10, <1>11 DEF Ring
<1>12. t \in Ring /\ Lies(t, cells, 1)
  <2>1. t \in Memory(cells)
    BY DEF cells
  <2> QED
    BY <1>c, <2>1, MemoryIs
<1>13. t[1] = Half + rcode /\ t[2] = m
  <2>a. cells \in Seq(Nat)
    BY <1>11
  <2>1. \A j \in 1 .. Len(cells) : t[j] = cells[j]
    <3> SUFFICES ASSUME NEW j \in 1 .. Len(cells) PROVE t[j] = cells[j]
      OBVIOUS
    <3>1. Len(t) \in Nat /\ Len(cells) \in Nat /\ 1 - 1 + Len(cells) <= Len(t)
      BY <1>12, <2>a DEF Lies, Ring
    <3>2. j \in Nat /\ j \in 1 .. Len(t) /\ 1 - 1 + j = j
      BY <3>1
    <3>3. At(t, 1 - 1 + j) = cells[j]
      BY <1>12 DEF Lies
    <3>4. At(t, j) = t[j]
      BY <1>12, <3>2, AtIs
    <3> QED
      BY <3>2, <3>3, <3>4
  <2>2. /\ \A j \in 1 .. Len(hwq) : (hwq \o flat)[j] = hwq[j]
    BY ONLY <1>7, <1>10, JoinIs
  <2>3. \A j \in 1 .. Len(hw) : (hw \o q)[j] = hw[j]
    BY ONLY <1>3, <1>9, JoinIs
  <2>4. \A j \in 1 .. Len(h) : (h \o w)[j] = h[j]
    BY ONLY <1>2, <1>4, JoinIs
  <2>5. Len(hw) = 2 + Len(w) /\ Len(hwq) = 3 + Len(w) /\ Len(cells) = 3 + Len(w) + Len(flat)
    BY <1>2, <1>3, <1>4, <1>9, <1>10, <1>11
  <2>6. /\ 1 \in 1 .. Len(cells) /\ 1 \in 1 .. Len(hwq) /\ 1 \in 1 .. Len(hw)
        /\ 2 \in 1 .. Len(cells) /\ 2 \in 1 .. Len(hwq) /\ 2 \in 1 .. Len(hw)
    BY <1>4, <1>11, <2>5
  <2>b. 1 \in 1 .. Len(h) /\ 2 \in 1 .. Len(h)
    BY <1>2
  <2>7. cells = hwq \o flat /\ hwq = hw \o q /\ hw = h \o w
    BY <1>5 DEF hwq, hw
  <2>8. t[1] = cells[1] /\ t[2] = cells[2]
    BY <2>1, <2>6
  <2>9. cells[1] = hwq[1] /\ cells[2] = hwq[2]
    BY <2>2, <2>6, <2>7
  <2>10. hwq[1] = hw[1] /\ hwq[2] = hw[2]
    BY <2>3, <2>6, <2>7
  <2>11. hw[1] = h[1] /\ hw[2] = h[2]
    BY <2>b, <2>4, <2>7
  <2> QED
    BY <1>2, <2>8, <2>9, <2>10, <2>11
<1>14. Lies(t, w, 3) /\ Lies(t, flat, 4 + Len(w))
  <2>1. Lies(t, hwq \o flat, 1)
    BY <1>5, <1>12 DEF hwq, hw
  <2>2. Lies(t, hwq, 1) /\ Lies(t, flat, 1 + Len(hwq))
    BY <1>7, <1>10, <1>12, <2>1, LiesApart
  <2>3. Lies(t, hw \o q, 1)
    BY <2>2 DEF hwq
  <2>4. Lies(t, hw, 1)
    BY <1>3, <1>9, <1>12, <2>3, LiesApart
  <2>5. Lies(t, h \o w, 1)
    BY <2>4 DEF hw
  <2>6. Lies(t, w, 1 + Len(h))
    BY <1>2, <1>4, <1>12, <2>5, LiesApart
  <2>7. 1 + Len(h) = 3 /\ 1 + Len(hwq) = 4 + Len(w)
    BY <1>2, <1>3, <1>4, <1>9, <1>10
  <2> QED
    BY <2>2, <2>6, <2>7
<1>15. dumpName(t, 3) + 1 = 4 + Len(w) /\ dumpName(t, 3) # Never
  <2>1. 3 \in Nat \ {0} /\ Lies(t, WireName(name), 3)
    BY <1>14 DEF w
  <2>2. dumpName(t, 3) = 3 + Len(w)
    BY <1>12, <2>1, NameDumped DEF w
  <2> QED
    BY <1>4, <2>2 DEF Never
<1> DEFINE base == 4 + Len(w)
           at == [k \in 0 .. m |-> base + pos[k]]
<1>16. pos \in [0 .. m -> Nat] /\ pos[0] = 0
  BY <1>8 DEF Laid
<1>17. base \in Nat /\ base > 0
  BY <1>4
<1> HIDE DEF base
<1>18. at \in [0 .. m -> Nat] /\ at[0] = base
  BY <1>1, <1>16, <1>17
<1>19. ASSUME NEW k \in 1 .. m
       PROVE  /\ at[k - 1] > 0 /\ at[k] = at[k - 1] + Len(RecordCells(records[k], name))
              /\ Lies(t, RecordCells(records[k], name), at[k - 1])
  <2>1. /\ pos[k] = pos[k - 1] + Len(piece[k])
        /\ \A j \in 1 .. Len(piece[k]) : flat[pos[k - 1] + j] = piece[k][j]
    BY <1>8 DEF Laid
  <2>2. k - 1 \in 0 .. m /\ pos[k - 1] \in Nat /\ at[k - 1] = base + pos[k - 1]
        /\ at[k] = base + pos[k]
    <3>1. k - 1 \in 0 .. m /\ k \in 0 .. m
      BY <1>1
    <3> QED
      BY <1>16, <3>1
  <2>3. piece[k] = RecordCells(records[k], name) /\ Len(piece[k]) \in Nat /\ Len(piece[k]) > 0
    BY <1>1, <1>6, RecordCellsAre
  <2> HIDE DEF at
  <2>4. at[k - 1] > 0 /\ at[k] = at[k - 1] + Len(piece[k])
    BY <1>17, <2>1, <2>2, <2>3
  <2>5. pos[k] <= Len(flat)
    <3>1. \A i \in 1 .. m : Len(piece[i]) > 0
      BY <1>1, <1>6, RecordCellsAre
    <3>2. \A i \in 0 .. m : pos[i] \in Nat /\ i <= pos[i] /\ pos[i] <= Len(flat)
      BY <1>1, <1>6, <1>7, <1>8, <3>1, LaidIn
    <3> QED
      BY <1>1, <3>2
  <2>6. ASSUME NEW j \in 1 .. Len(piece[k])
        PROVE  At(t, at[k - 1] - 1 + j) = piece[k][j]
    <3>1. pos[k - 1] + j \in 1 .. Len(flat)
      <4>1. pos[k] = pos[k - 1] + Len(piece[k]) /\ pos[k - 1] \in Nat /\ Len(piece[k]) \in Nat
            /\ pos[k] <= Len(flat) /\ Len(flat) \in Nat
        BY <1>11, <2>1, <2>2, <2>3, <2>5
      <4> QED
        BY <4>1
    <3>2. At(t, base - 1 + (pos[k - 1] + j)) = flat[pos[k - 1] + j]
      BY <1>14, <3>1 DEF Lies, base
    <3>3. base - 1 + (pos[k - 1] + j) = at[k - 1] - 1 + j
      BY <1>17, <2>2
    <3> QED
      BY <2>1, <3>2, <3>3
  <2>7. Lies(t, piece[k], at[k - 1])
    <3>1. base - 1 + Len(flat) <= Len(t) /\ Len(t) \in Nat /\ Len(flat) \in Nat
      BY <1>11, <1>12, <1>14 DEF Lies, base, Ring
    <3>2. /\ pos[k] = pos[k - 1] + Len(piece[k]) /\ pos[k] <= Len(flat) /\ pos[k - 1] \in Nat
          /\ at[k - 1] = base + pos[k - 1] /\ Len(piece[k]) \in Nat
      BY <2>1, <2>2, <2>3, <2>5
    <3> DEFINE before == pos[k - 1]
               size == Len(piece[k])
               written == Len(flat)
               there == Len(t)
    <3>3. /\ base \in Nat /\ before \in Nat /\ size \in Nat /\ written \in Nat /\ there \in Nat
          /\ before + size <= written /\ base - 1 + written <= there
          /\ at[k - 1] = base + before
      BY <1>17, <3>1, <3>2
    <3>4. at[k - 1] - 1 + size <= there
      <4> HIDE DEF before, size, written, there
      <4> QED
        BY <3>3
    <3> QED
      BY <2>6, <3>4 DEF Lies
  <2> QED
    BY <2>3, <2>4, <2>7
<1> HIDE DEF at
<1>20. Lined(t, records, name, base, at)
  BY <1>18, <1>19 DEF Lined, m
<1>21. Lined(t, records, name, dumpName(t, 3) + 1, at)
  BY <1>15, <1>20 DEF base
<1> QED
  BY <1>12, <1>13, <1>15, <1>21 DEF Placed, m

\* finished() understands it.
LEMMA ParseUnderstands ==
  ASSUME NEW rcode \in 0 .. Rcodes - 1, NEW records \in Seq(Record), Len(records) < Half,
         NEW name \in Seq(Label), NEW t, Placed(t, rcode, records, name)
  PROVE  IF rcode # 0 THEN Parse(t).code = 16 + rcode
         ELSE IF \E k \in DOMAIN records : records[k].type = TypeA
         THEN Parse(t).code = 1 /\ FirstAddress(records, Parse(t).answer)
         ELSE Parse(t).code = 2
<1>1. t[1] % Rcodes = rcode
  BY DnsAssumption DEF Placed
<1>2. Signed(t[2]) = Len(records)
  <2>1. t[2] = Len(records) /\ Len(records) \in Nat /\ Half \in Nat
    BY DnsAssumption DEF Placed
  <2> QED
    BY <2>1 DEF Signed
<1>3. CASE rcode # 0
  BY <1>1, <1>3 DEF Parse
<1>4. CASE rcode = 0
  <2> DEFINE first == dumpName(t, 3) + 1
             result == Answers(t, Len(records), first)
  <2>1. Parse(t) = result
    <3>1. dumpName(t, 3) # Never
      BY DEF Placed
    <3> QED
      BY <1>1, <1>2, <1>4, <3>1 DEF Parse
  <2>2. t \in Ring /\ \E pos : Lined(t, records, name, first, pos)
    BY DEF Placed
  <2>3. PICK pos : Lined(t, records, name, first, pos)
    BY <2>2
  <2> HIDE DEF first
  <2>4. IF \E k \in DOMAIN records : records[k].type = TypeA
        THEN result.code = 1 /\ FirstAddress(records, result.answer)
        ELSE result.code = 2
    BY <2>2, <2>3, AnswersFind
  <2> QED
    BY <1>4, <2>1, <2>4
<1> QED
  BY <1>3, <1>4

-----------------------------------------------------------------------------
(* The question. *)

\* The loop before a round, with its x and n.
Round(x, n) == [x |-> x, n |-> n]

\* f is what the loop over the characters writes, from each of its states.
Spells(f, domain) ==
  \A x, n \in Nat :
    f[Round(x, n)] = IF x > Len(domain) THEN << >>
                   ELSE IF x = Len(domain) \/ domain[x + 1] = Dot
                   THEN (<< n + 1 >> \o SubSeq(domain, x - n, x)) \o f[Round(x + 2, 0)]
                   ELSE f[Round(x + 1, n + 1)]

\* QName() is that loop.
LEMMA QNameSpells ==
  ASSUME NEW domain \in Seq(Nat)
  PROVE  \E f : Spells(f, domain) /\ QName(domain) = f[Round(1, 0)]
<1> DEFINE D == [x : Nat, n : Nat]
           B == Len(domain) + 1
           Ends(s) == s.x = Len(domain) \/ domain[s.x + 1] = Dot
           Writes(s) == << s.n + 1 >> \o SubSeq(domain, s.x - s.n, s.x)
           Body(g, s) == CASE s.x > Len(domain) -> << >>
                           [] s.x <= Len(domain) /\ Ends(s) ->
                                Writes(s) \o g[[x |-> s.x + 2, n |-> 0]]
                           [] OTHER -> g[[x |-> s.x + 1, n |-> s.n + 1]]
           loop == CHOOSE g : g = [s \in D |-> Body(g, s)]
           Stop == { s \in D : s.x > Len(domain) }
           Adds == { s \in D : Ends(s) }
           N == [s \in D |-> IF Ends(s) THEN [x |-> s.x + 2, n |-> 0]
                             ELSE [x |-> s.x + 1, n |-> s.n + 1]]
           R == [s \in D |-> << >>]
           P == [s \in D |-> Writes(s)]
           M == [s \in D |-> IF s.x <= Len(domain) THEN B - s.x ELSE 0]
           none == {}
<1>1. QName(domain) = loop[Round(1, 0)]
  BY DEF QName, Round
<1>2. Len(domain) \in Nat /\ B \in Nat
  OBVIOUS
<1>3. \A s \in D : s.x \in Nat /\ s.n \in Nat
  OBVIOUS
<1> HIDE DEF Ends, Writes
<1>4. PICK f : Loops(f, D, N, Stop, Adds, none, R, P)
  <2>1. N \in [D -> D]
    <3>1. \A s \in D : s.x + 2 \in Nat /\ s.x + 1 \in Nat /\ s.n + 1 \in Nat
      BY <1>3
    <3> QED
      BY <3>1
  <2>2. M \in [D -> 0 .. B]
    <3>1. \A x \in Nat : (IF x <= Len(domain) THEN B - x ELSE 0) \in 0 .. B
      BY <1>2
    <3>2. \A s \in D : (IF s.x <= Len(domain) THEN B - s.x ELSE 0) \in 0 .. B
      BY <1>3, <3>1
    <3> HIDE DEF D, B
    <3> QED
      BY <3>2
  <2>3. Descends(D, N, Stop, M)
    <3> SUFFICES ASSUME NEW s \in D, s \notin Stop PROVE M[N[s]] < M[s]
      BY DEF Descends
    <3>1. s.x \in Nat /\ s.x <= Len(domain)
      BY <1>2, <1>3
    <3>2. N[s].x \in Nat /\ N[s].x >= s.x + 1
      BY <3>1
    <3>3. N[s] \in D
      BY <2>1
    <3> HIDE DEF N, Stop, D
    <3>4. M[s] = B - s.x /\ M[N[s]] = IF N[s].x <= Len(domain) THEN B - N[s].x ELSE 0
      BY <3>1, <3>3
    <3> HIDE DEF M
    <3> QED
      BY <1>2, <3>1, <3>2, <3>4
  <2> HIDE DEF D, N, Stop, Adds, R, P, B, M, none
  <2> QED
    BY <1>2, <2>1, <2>2, <2>3, Recursive
<1>5. f = [s \in D |-> Body(f, s)]
  <2>1. ASSUME NEW s \in D
        PROVE  f[s] = Body(f, s)
    <3>1. f[s] = IF s \in Stop THEN R[s]
                 ELSE IF s \in Adds THEN P[s] \o f[N[s]] ELSE f[N[s]]
      BY <1>4 DEF Loops
    <3>2. s.x \in Nat
      BY <1>3
    <3> QED
      BY <1>2, <3>1, <3>2
  <2>2. f = [s \in D |-> f[s]]
    BY <1>4 DEF Loops
  <2> HIDE DEF Body, D
  <2> QED
    BY <2>1, <2>2
<1>6. loop = [s \in D |-> Body(loop, s)]
  <2> HIDE DEF Body, D
  <2> QED
    BY <1>5
<1> HIDE DEF loop
<1>7. ASSUME NEW x \in Nat, NEW n \in Nat
      PROVE  loop[Round(x, n)] = IF x > Len(domain) THEN << >>
               ELSE IF x = Len(domain) \/ domain[x + 1] = Dot
               THEN (<< n + 1 >> \o SubSeq(domain, x - n, x)) \o loop[Round(x + 2, 0)]
               ELSE loop[Round(x + 1, n + 1)]
  <2> DEFINE s == Round(x, n)
  <2>1. s \in D /\ s.x = x /\ s.n = n
    BY DEF Round
  <2>2. loop[s] = Body(loop, s)
    <3> HIDE DEF Body, D, s
    <3> QED
      BY <1>6, <2>1
  <2>3. (Ends(s) <=> x = Len(domain) \/ domain[x + 1] = Dot)
        /\ Writes(s) = << n + 1 >> \o SubSeq(domain, x - n, x)
    BY <2>1 DEF Ends, Writes
  <2> HIDE DEF s, D
  <2>4. Body(loop, s) = IF x > Len(domain) THEN << >>
               ELSE IF Ends(s) THEN Writes(s) \o loop[Round(x + 2, 0)]
               ELSE loop[Round(x + 1, n + 1)]
    BY <1>2, <2>1 DEF Round
  <2> HIDE DEF Body
  <2>5. loop[s] = IF x > Len(domain) THEN << >>
               ELSE IF x = Len(domain) \/ domain[x + 1] = Dot
               THEN (<< n + 1 >> \o SubSeq(domain, x - n, x)) \o loop[Round(x + 2, 0)]
               ELSE loop[Round(x + 1, n + 1)]
    BY <2>2, <2>3, <2>4, Zenon
  <2> QED
    BY <2>5 DEF s
<1>8. Spells(loop, domain)
  BY <1>7 DEF Spells
<1> QED
  BY <1>1, <1>8

\* The labels of a name in the string: at[k - 1] characters are before label k, and dots
\* between them.
Dots(domain, name, at) ==
  /\ at \in [0 .. Len(name) -> Nat] /\ at[0] = 0
  /\ domain \in Seq(Nat) /\ at[Len(name)] = Len(domain) + 1
  /\ \A k \in 1 .. Len(name) :
       /\ at[k] = at[k - 1] + Len(name[k]) + 1 /\ at[k] <= Len(domain) + 1
       /\ \A j \in 1 .. Len(name[k]) : domain[at[k - 1] + j] = name[k][j]
       /\ k < Len(name) => domain[at[k]] = Dot

\* The string has the labels in their places.
LEMMA DottedIs ==
  ASSUME NEW name \in Seq(Label), name # << >>
  PROVE  \E at : Dots(Dotted(name), name, at)
<1> DEFINE n == Len(name)
           dot == << Dot >>
           piece == [k \in 1 .. n |-> IF k = 1 THEN name[k] ELSE << Dot >> \o name[k]]
           domain == FlattenSeq(piece)
<1>1. n \in Nat /\ n > 0
  OBVIOUS
<1>2. \A k \in 1 .. n : name[k] \in Seq(Nat) /\ Len(name[k]) \in Nat /\ Len(name[k]) > 0
  BY LabelIs
<1>3. dot \in Seq(Nat) /\ Len(dot) = 1 /\ dot[1] = Dot
  BY DnsAssumption
<1> HIDE DEF n, dot
<1>4. ASSUME NEW k \in 1 .. n, k # 1
      PROVE  /\ piece[k] \in Seq(Nat) /\ Len(piece[k]) = 1 + Len(name[k]) /\ piece[k][1] = Dot
             /\ \A j \in 1 .. Len(name[k]) : piece[k][1 + j] = name[k][j]
  <2>1. piece[k] = dot \o name[k]
    BY <1>4 DEF dot
  <2>2. dot \in Seq(Nat) /\ name[k] \in Seq(Nat)
    BY <1>2, <1>3
  <2>3. /\ dot \o name[k] \in Seq(Nat) /\ Len(dot \o name[k]) = Len(dot) + Len(name[k])
        /\ \A j \in 1 .. Len(dot) : (dot \o name[k])[j] = dot[j]
        /\ \A j \in 1 .. Len(name[k]) : (dot \o name[k])[Len(dot) + j] = name[k][j]
    BY ONLY <2>2, JoinIs
  <2> HIDE DEF piece
  <2>4. 1 \in 1 .. Len(dot)
    BY <1>3
  <2> QED
    BY <1>3, <2>1, <2>3, <2>4
<1>5. piece[1] = name[1]
  BY <1>1
<1>6. piece \in [1 .. n -> Seq(Nat)]
  <2>1. \A k \in 1 .. n : piece[k] \in Seq(Nat)
    <3> HIDE DEF piece
    <3> QED
      BY <1>2, <1>4, <1>5
  <2>2. piece = [k \in 1 .. n |-> piece[k]]
    OBVIOUS
  <2> HIDE DEF piece
  <2> QED
    BY <2>1, <2>2
<1>7. domain = Dotted(name)
  BY DEF Dotted, n
<1> HIDE DEF piece, domain
<1>8. domain \in Seq(Nat) /\ \E pos : Laid(domain, piece, n, pos)
  BY <1>1, <1>6, FlattenIs DEF domain
<1>9. PICK pos : Laid(domain, piece, n, pos)
  BY <1>8
<1>10. \A k \in 1 .. n : Len(piece[k]) \in Nat /\ Len(piece[k]) > 0
  BY <1>2, <1>4, <1>5
<1>11. \A k \in 0 .. n : pos[k] \in Nat /\ k <= pos[k] /\ pos[k] <= Len(domain)
  BY <1>1, <1>6, <1>8, <1>9, <1>10, LaidIn
<1>12. /\ pos \in [0 .. n -> Nat] /\ pos[0] = 0 /\ pos[n] = Len(domain)
       /\ \A k \in 1 .. n :
            /\ pos[k] = pos[k - 1] + Len(piece[k])
            /\ \A j \in 1 .. Len(piece[k]) : domain[pos[k - 1] + j] = piece[k][j]
  BY <1>9 DEF Laid
<1> DEFINE at == [k \in 0 .. n |-> IF k = 0 THEN 0 ELSE pos[k] + 1]
<1>13. at \in [0 .. n -> Nat] /\ at[0] = 0 /\ at[n] = Len(domain) + 1
       /\ \A k \in 1 .. n : at[k] = pos[k] + 1
  <2>1. \A k \in 0 .. n : (IF k = 0 THEN 0 ELSE pos[k] + 1) \in Nat
    BY <1>11
  <2>2. n \in 0 .. n /\ n # 0 /\ 0 \in 0 .. n
    BY <1>1
  <2> QED
    BY <1>12, <2>1, <2>2
<1> HIDE DEF at
<1>14. ASSUME NEW k \in 1 .. n
       PROVE  /\ at[k] = at[k - 1] + Len(name[k]) + 1 /\ at[k] <= Len(domain) + 1
              /\ \A j \in 1 .. Len(name[k]) : domain[at[k - 1] + j] = name[k][j]
  <2>1. at[k] = pos[k] + 1 /\ pos[k] \in Nat /\ pos[k - 1] \in Nat /\ Len(domain) \in Nat
        /\ pos[k] <= Len(domain) /\ pos[k] = pos[k - 1] + Len(piece[k]) /\ Len(name[k]) \in Nat
    <3>1. k \in 0 .. n /\ k - 1 \in 0 .. n
      BY <1>1
    <3> QED
      BY <1>2, <1>8, <1>11, <1>12, <1>13, <3>1
  <2>2. at[k] <= Len(domain) + 1
    BY <2>1
  <2>3. CASE k = 1
    <3>1. at[k - 1] = 0 /\ pos[k - 1] = 0 /\ piece[k] = name[k]
      BY <1>5, <1>12, <1>13, <2>3
    <3>2. at[k] = at[k - 1] + Len(name[k]) + 1
      BY <2>1, <3>1
    <3> QED
      BY <1>12, <2>2, <3>1, <3>2
  <2>4. CASE k # 1
    <3>1. k - 1 \in 1 .. n
      BY <1>1, <2>4
    <3>2. at[k - 1] = pos[k - 1] + 1 /\ Len(piece[k]) = 1 + Len(name[k])
      BY <1>4, <1>13, <2>4, <3>1
    <3>3. at[k] = at[k - 1] + Len(name[k]) + 1
      <4>1. at[k] = (pos[k - 1] + (1 + Len(name[k]))) + 1 /\ pos[k - 1] \in Nat
            /\ Len(name[k]) \in Nat
        BY <2>1, <3>2
      <4>2. \A a, b \in Nat : (a + (1 + b)) + 1 = (a + 1) + b + 1
        OBVIOUS
      <4> QED
        BY ONLY <3>2, <4>1, <4>2
    <3>4. ASSUME NEW j \in 1 .. Len(name[k])
          PROVE  domain[at[k - 1] + j] = name[k][j]
      <4>1. 1 + j \in 1 .. Len(piece[k])
        BY <2>1, <3>2
      <4>3. pos[k - 1] + (1 + j) = at[k - 1] + j
        <5>1. pos[k - 1] \in Nat /\ at[k - 1] = pos[k - 1] + 1 /\ j \in Nat
          BY <2>1, <3>2
        <5> QED
          BY ONLY <5>1
      <4>2. domain[pos[k - 1] + (1 + j)] = piece[k][1 + j]
        BY <1>12, <4>1
      <4> QED
        BY <1>4, <2>4, <4>2, <4>3
    <3> QED
      BY <2>2, <3>3, <3>4
  <2> QED
    BY <2>3, <2>4
<1>15. ASSUME NEW k \in 1 .. n, k < n
       PROVE  domain[at[k]] = Dot
  <2>1. k + 1 \in 1 .. n /\ k + 1 # 1 /\ k + 1 - 1 = k
    BY <1>1, <1>15
  <2>2. 1 \in 1 .. Len(piece[k + 1]) /\ piece[k + 1][1] = Dot
    BY <1>4, <1>10, <2>1
  <2>3. domain[pos[k] + 1] = piece[k + 1][1]
    BY <1>12, <2>1, <2>2
  <2> QED
    BY <1>13, <2>2, <2>3
<1>16. Dots(domain, name, at)
  BY <1>8, <1>13, <1>14, <1>15 DEF Dots, n
<1> QED
  BY <1>7, <1>16

\* From the begin of label k the loop comes to the begin of the next, and has written it.
Written(f, name, at, k) ==
  f[Round(at[k - 1] + 1, 0)] = (<< Len(name[k]) >> \o name[k]) \o f[Round(at[k] + 1, 0)]

\* The rounds within a label write nothing, and the one at its end writes it.
LEMMA LabelWritten ==
  ASSUME NEW name \in Seq(Label), NEW domain, NEW at, Dots(domain, name, at),
         NEW f, Spells(f, domain), NEW k \in 1 .. Len(name)
  PROVE  Written(f, name, at, k)
<1> DEFINE l == name[k]
           size == Len(l)
           a == at[k - 1]
           end == Len(domain)
<1>1. l \in Seq(Nat) /\ size \in Nat /\ size > 0 /\ Len(name) \in Nat
      /\ \A j \in 1 .. size : l[j] # Dot
  BY LabelIs
<1>2. a \in Nat /\ at[k] = a + size + 1 /\ at[k] <= end + 1 /\ end \in Nat
      /\ domain \in Seq(Nat)
  <2>1. k - 1 \in 0 .. Len(name)
    BY <1>1
  <2>2. at \in [0 .. Len(name) -> Nat] /\ domain \in Seq(Nat)
    BY DEF Dots
  <2>3. at[k] = at[k - 1] + Len(name[k]) + 1 /\ at[k] <= Len(domain) + 1
    BY DEF Dots
  <2>4. a \in Nat
    BY <2>1, <2>2
  <2>5. end \in Nat
    BY <2>2
  <2> QED
    BY <2>2, <2>3, <2>4, <2>5
<1>3. /\ \A j \in 1 .. size : domain[a + j] = l[j]
      /\ k < Len(name) => domain[at[k]] = Dot
      /\ k = Len(name) => at[k] = end + 1
  BY DEF Dots
<1> HIDE DEF l, size, a, end
<1>4. \A x, n \in Nat :
        f[Round(x, n)] = IF x > end THEN << >>
                         ELSE IF x = end \/ domain[x + 1] = Dot
                         THEN (<< n + 1 >> \o SubSeq(domain, x - n, x)) \o f[Round(x + 2, 0)]
                         ELSE f[Round(x + 1, n + 1)]
  BY DEF Spells, end
<1> DEFINE last == size - 1
           G == { i \in 0 .. last : f[Round(a + 1, 0)] = f[Round(a + 1 + i, i)] }
<1>5. last \in Nat /\ last + 1 = size
  BY <1>1
<1>6. last \in G
  <2>1. 0 \in G
    <3>1. a + 1 + 0 = a + 1
      BY <1>2
    <3> QED
      BY <1>5, <3>1
  <2>2. ASSUME NEW i \in 1 .. last, i - 1 \in G
        PROVE  i \in G
    <3> DEFINE x == a + 1 + (i - 1)
               n == i - 1
    <3>1. x \in Nat /\ n \in Nat /\ x + 1 = a + 1 + i /\ n + 1 = i /\ x + 1 = a + (i + 1)
      BY <1>2, <1>5
    <3>2. x < end
      <4>1. \A p, q, r, e \in Nat : r + 1 = q /\ p + q + 1 <= e + 1 /\ n + 1 <= r
              => p + 1 + n < e
        BY <3>1
      <4> QED
        BY <1>1, <1>2, <1>5, <3>1, <4>1
    <3>3. i + 1 \in 1 .. size
      BY <1>1, <1>5
    <3>4. domain[x + 1] # Dot
      <4>1. domain[a + (i + 1)] = l[i + 1]
        BY <1>3, <3>3
      <4> QED
        BY <1>1, <3>1, <3>3, <4>1
    <3>5. f[Round(a + 1, 0)] = f[Round(x, n)]
      BY <2>2
    <3>6. Round(x + 1, n + 1) = Round(a + 1 + i, i)
      BY <3>1
    <3> HIDE DEF x, n
    <3>7. f[Round(x, n)] = f[Round(x + 1, n + 1)]
      <4>1. ~ x > end /\ x # end
        BY <1>2, <3>1, <3>2
      <4> QED
        BY <1>4, <3>1, <3>4, <4>1
    <3>8. f[Round(a + 1, 0)] = f[Round(a + 1 + i, i)]
      BY <3>5, <3>6, <3>7
    <3> QED
      BY <1>5, <3>8
  <2> HIDE DEF G, last
  <2>3. \A i \in 0 .. last : i \in G
    BY <1>5, <2>1, <2>2, UpTo
  <2> QED
    BY <1>5, <2>3
<1>7. f[Round(a + 1, 0)] = f[Round(a + size, last)]
  <2>1. a + 1 + last = a + size
    BY <1>1, <1>2
  <2> QED
    BY <1>6, <2>1
<1> DEFINE x == a + size
<1>8. x \in Nat /\ x <= end /\ x + 1 = at[k] /\ x + 2 = at[k] + 1 /\ x - last = a + 1
  BY <1>1, <1>2
<1>9. x = end \/ domain[x + 1] = Dot
  <2>1. CASE k = Len(name)
    BY <1>2, <1>3, <1>8, <2>1
  <2>2. CASE k < Len(name)
    BY <1>3, <1>8, <2>2
  <2> QED
    BY <1>1, <2>1, <2>2
<1>10. SubSeq(domain, a + 1, x) = l
  <2>1. \A i \in a + 1 .. x : domain[i] \in Nat
    <3>1. \A i \in a + 1 .. x : i \in 1 .. Len(domain)
      BY <1>2, <1>8 DEF end
    <3>2. \A i \in 1 .. Len(domain) : domain[i] \in Nat
      BY <1>2
    <3> HIDE DEF x
    <3> QED
      BY <3>1, <3>2
  <2>2. a + 1 \in Int /\ x \in Int
    BY <1>2, <1>8
  <2> DEFINE b == a + 1
             part == SubSeq(domain, b, x)
  <2>3. /\ part \in Seq(Nat) /\ Len(part) = IF b <= x THEN x - b + 1 ELSE 0
        /\ \A i \in 1 .. x - b + 1 : part[i] = domain[b + i - 1]
    <3> HIDE DEF b, x
    <3> QED
      BY <2>1, <2>2, SubSeqProperties DEF b
  <2>4. b <= x /\ x - b + 1 = size
    BY <1>1, <1>2
  <2>5. Len(part) = size
    BY <2>3, <2>4
  <2>6. ASSUME NEW i \in 1 .. size
        PROVE  part[i] = l[i]
    <3>1. b + i - 1 = a + i
      BY <1>1, <1>2
    <3> HIDE DEF part, b, x
    <3> QED
      BY <1>3, <2>3, <2>4, <3>1
  <2> HIDE DEF part
  <2>7. part = l
    BY <1>1, <2>3, <2>5, <2>6, SeqEqual DEF size
  <2> QED
    BY <2>7 DEF part
<1> HIDE DEF x, last
<1>11. f[Round(x, last)] = (<< last + 1 >> \o SubSeq(domain, x - last, x)) \o f[Round(x + 2, 0)]
  <2>1. ~ x > end
    BY <1>2, <1>8
  <2> QED
    BY <1>4, <1>5, <1>8, <1>9, <2>1
<1>12. f[Round(x, last)] = (<< size >> \o l) \o f[Round(at[k] + 1, 0)]
  BY <1>5, <1>8, <1>10, <1>11
<1> QED
  BY <1>7, <1>12 DEF a, x, size, l, Written

\* The loop writes the name as it goes over the wire.
LEMMA NameWritten ==
  ASSUME NEW name \in Seq(Label), name # << >>
  PROVE  Question(Dotted(name)) = WireName(name) \o << TypeA >>
<1> DEFINE n == Len(name)
           domain == Dotted(name)
           piece == [k \in 1 .. n |-> << Len(name[k]) >> \o name[k]]
           flat == FlattenSeq(piece)
<1>1. PICK at : Dots(domain, name, at)
  BY DottedIs
<1>2. n \in Nat /\ n > 0 /\ at \in [0 .. n -> Nat] /\ at[0] = 0 /\ at[n] = Len(domain) + 1
      /\ domain \in Seq(Nat) /\ Len(domain) \in Nat
  BY <1>1 DEF Dots
<1> HIDE DEF domain
<1>3. PICK f : Spells(f, domain) /\ QName(domain) = f[Round(1, 0)]
  BY <1>2, QNameSpells
<1>4. piece \in [1 .. n -> Seq(Nat)]
      /\ \A k \in 1 .. n : piece[k] = << Len(name[k]) >> \o name[k]
  <2>1. ASSUME NEW k \in 1 .. n
        PROVE  << Len(name[k]) >> \o name[k] \in Seq(Nat)
    <3> DEFINE head == << Len(name[k]) >>
    <3>1. name[k] \in Seq(Nat) /\ Len(name[k]) \in Nat
      BY LabelIs
    <3>2. head \in Seq(Nat) /\ name[k] \in Seq(Nat)
      BY <3>1
    <3> HIDE DEF head
    <3>3. head \o name[k] \in Seq(Nat)
      BY ONLY <3>2, JoinIs
    <3> QED
      BY <3>3 DEF head
  <2> QED
    BY <2>1
<1>5. WireName(name) = flat \o << 0 >>
  BY DEF WireName
<1>6. ASSUME NEW k \in 1 .. n
      PROVE  f[Round(at[k - 1] + 1, 0)] = piece[k] \o f[Round(at[k] + 1, 0)]
  <2>1. Written(f, name, at, k)
    BY <1>1, <1>3, LabelWritten
  <2> QED
    BY <1>4, <2>1 DEF Written
<1> HIDE DEF n, piece, flat
<1> DEFINE rest == [k \in 0 .. n |-> f[Round(at[k] + 1, 0)]]
<1>7. rest[n] = << >>
  <2>1. at[n] + 1 \in Nat /\ at[n] + 1 > Len(domain)
    BY <1>2
  <2>2. f[Round(at[n] + 1, 0)] = << >>
    BY <1>3, <2>1 DEF Spells
  <2> QED
    BY <1>2, <2>2
<1>8. rest[0] = QName(domain)
  <2>1. at[0] + 1 = 1
    BY <1>2
  <2> QED
    BY <1>2, <1>3, <2>1
<1>9. \A k \in 1 .. n : rest[k - 1] = piece[k] \o rest[k]
  <2>1. \A k \in 1 .. n : k - 1 \in 0 .. n /\ k \in 0 .. n
    BY <1>2
  <2> QED
    BY <1>6, <2>1
<1> HIDE DEF rest
<1>10. \A k \in 0 .. n : rest[k] \in Seq(Nat)
  <2> DEFINE G == { j \in 0 .. n : rest[n - j] \in Seq(Nat) }
  <2>1. 0 \in G
    <3>1. n - 0 = n /\ << >> \in Seq(Nat)
      BY <1>2
    <3>2. rest[n - 0] \in Seq(Nat)
      BY <1>7, <3>1
    <3> QED
      BY <1>2, <3>2
  <2>2. ASSUME NEW j \in 1 .. n, j - 1 \in G
        PROVE  j \in G
    <3>1. n - j + 1 \in 1 .. n /\ n - (j - 1) = n - j + 1 /\ (n - j + 1) - 1 = n - j
      BY <1>2
    <3>2. rest[n - j + 1] \in Seq(Nat) /\ piece[n - j + 1] \in Seq(Nat)
      BY <1>4, <2>2, <3>1
    <3>3. piece[n - j + 1] \o rest[n - j + 1] \in Seq(Nat)
      BY ONLY <3>2, JoinIs
    <3>4. rest[n - j] \in Seq(Nat)
      BY <1>9, <3>1, <3>3
    <3> QED
      BY <3>4
  <2> HIDE DEF G
  <2>3. \A j \in 0 .. n : j \in G
    BY <1>2, <2>1, <2>2, UpTo
  <2>4. \A k \in 0 .. n : n - k \in 0 .. n /\ n - (n - k) = k
    BY <1>2
  <2> QED
    BY <2>3, <2>4 DEF G
<1>11. PICK g : Joins(g, piece, n) /\ flat = g[n]
  BY <1>2, <1>4, FlattenJoins DEF flat
<1>12. g \in [0 .. n -> Seq(Nat)] /\ g[0] = << >>
       /\ \A k \in 1 .. n : g[k] = g[k - 1] \o piece[k]
  BY <1>11 DEF Joins
<1> DEFINE G == { k \in 0 .. n : QName(domain) = g[k] \o rest[k] }
<1>13. \A k \in 0 .. n : k \in G
  <2>1. 0 \in G
    <3>1. rest[0] \in Seq(Nat) /\ 0 \in 0 .. n
      BY <1>2, <1>10
    <3>2. << >> \o rest[0] = rest[0]
      BY ONLY <3>1, ConcatEmptySeq
    <3> QED
      BY <1>8, <1>12, <3>1, <3>2
  <2>2. ASSUME NEW k \in 1 .. n, k - 1 \in G
        PROVE  k \in G
    <3>1. g[k - 1] \in Seq(Nat) /\ piece[k] \in Seq(Nat) /\ rest[k] \in Seq(Nat)
      <4>1. k - 1 \in 0 .. n /\ k \in 0 .. n
        BY <1>2
      <4> QED
        BY <1>4, <1>10, <1>12, <4>1
    <3>2. (g[k - 1] \o piece[k]) \o rest[k] = g[k - 1] \o (piece[k] \o rest[k])
      <4>1. \A u, v, w \in Seq(Nat) : (u \o v) \o w = u \o (v \o w)
        BY ConcatAssociative
      <4> QED
        BY ONLY <3>1, <4>1
    <3>3. QName(domain) = g[k - 1] \o rest[k - 1]
      BY <2>2
    <3>4. QName(domain) = g[k] \o rest[k]
      BY <1>9, <1>12, <3>2, <3>3
    <3>5. k \in 0 .. n
      BY <1>2
    <3> QED
      BY <3>4, <3>5
  <2> HIDE DEF G
  <2> QED
    BY <1>2, <2>1, <2>2, UpTo
<1>14. QName(domain) = flat /\ flat \in Seq(Nat)
  <2>1. n \in 0 .. n
    BY <1>2
  <2>2. n \in G
    BY <1>13, <2>1
  <2>3. QName(domain) = g[n] \o rest[n]
    BY <2>2
  <2>4. g[n] \in Seq(Nat)
    BY <1>12, <2>1
  <2>5. g[n] \o << >> = g[n]
    BY ONLY <2>4, ConcatEmptySeq
  <2> QED
    BY <1>7, <1>11, <2>3, <2>4, <2>5
<1>15. (flat \o << 0 >>) \o << TypeA >> = flat \o << 0, TypeA >>
  <2> DEFINE zero == << 0 >>
             q == << TypeA >>
             both == << 0, TypeA >>
             joined == zero \o q
  <2>1. flat \in Seq(Nat) /\ zero \in Seq(Nat) /\ q \in Seq(Nat)
    BY <1>14 DEF TypeA
  <2>2. /\ Len(zero) = 1 /\ Len(q) = 1 /\ zero[1] = 0 /\ q[1] = TypeA
        /\ both \in Seq(Nat) /\ Len(both) = 2 /\ both[1] = 0 /\ both[2] = TypeA
    BY DEF TypeA
  <2> HIDE DEF zero, q, both
  <2>3. /\ zero \o q \in Seq(Nat) /\ Len(zero \o q) = Len(zero) + Len(q)
        /\ \A j \in 1 .. Len(zero) : (zero \o q)[j] = zero[j]
        /\ \A j \in 1 .. Len(q) : (zero \o q)[Len(zero) + j] = q[j]
    <3>1. zero \in Seq(Nat) /\ q \in Seq(Nat)
      BY <2>1
    <3> QED
      BY ONLY <3>1, JoinIs
  <2>4. /\ joined \in Seq(Nat) /\ Len(joined) = 2 /\ joined[1] = 0 /\ joined[2] = TypeA
    <3>1. 1 \in 1 .. Len(zero) /\ 1 \in 1 .. Len(q) /\ Len(zero) + 1 = 2
      BY <2>2
    <3> QED
      BY <2>2, <2>3, <3>1
  <2> HIDE DEF joined
  <2>5. \A i \in 1 .. Len(joined) : joined[i] = both[i]
    BY <2>2, <2>4
  <2>6. joined = both
    BY <2>2, <2>4, <2>5, SeqEqual
  <2>7. (flat \o zero) \o q = flat \o joined
    <3>1. (flat \o zero) \o q = flat \o (zero \o q)
      BY ONLY <2>1, ConcatAssociative
    <3> QED
      BY <3>1 DEF joined
  <2> QED
    BY <2>6, <2>7 DEF zero, q, both
<1>16. Question(domain) = flat \o << 0, TypeA >>
  BY <1>14 DEF Question
<1> QED
  BY <1>5, <1>15, <1>16 DEF domain

-----------------------------------------------------------------------------
(* The theorem. *)

\* What the code says of an answer is what its records say, first of all their first
\* address.
LEMMA AnswerUnderstood ==
  ASSUME NEW r \in DnsReplies, NEW name \in Names, Len(r.records) < Half,
         NEW t \in Memory(AnswerCells(r.rcode, r.records, name)),
         NEW result, NEW ip, result = Parse(t).code, result = 1 => ip = Parse(t).answer
  PROVE  Understood(r, result, ip)
<1> DEFINE found == { k \in DOMAIN r.records : r.records[k].type = TypeA }
<1>1. r.rcode \in 0 .. Rcodes - 1 /\ r.records \in Seq(Record) /\ name \in Seq(Label)
  BY LookupAssumption
<1>2. r.rcode \in Nat
  BY <1>1, DnsAssumption
<1>3. Placed(t, r.rcode, r.records, name)
  BY <1>1, <1>2, AnswerPlaced
<1>4. IF r.rcode # 0 THEN Parse(t).code = 16 + r.rcode
      ELSE IF \E k \in DOMAIN r.records : r.records[k].type = TypeA
      THEN Parse(t).code = 1 /\ FirstAddress(r.records, Parse(t).answer)
      ELSE Parse(t).code = 2
  BY <1>1, <1>3, ParseUnderstands
<1>5. result = Parse(t).code /\ (result = 1 => ip = Parse(t).answer)
  OBVIOUS
<1>6. CASE r.rcode # 0
  BY <1>4, <1>5, <1>6 DEF Understood
<1>7. CASE r.rcode = 0 /\ found = {}
  <2>1. result = 2
    BY <1>4, <1>5, <1>7
  <2> QED
    BY <1>7, <2>1 DEF Understood
<1>8. CASE r.rcode = 0 /\ found # {}
  <2>1. result = 1 /\ FirstAddress(r.records, ip)
    BY <1>4, <1>5, <1>8
  <2>2. \E k \in found : (\A j \in found : k <= j) /\ ip = r.records[k].rdata[1]
    BY <2>1 DEF FirstAddress
  <2> QED
    BY <1>8, <2>1, <2>2 DEF Understood
<1> QED
  BY <1>6, <1>7, <1>8

\* The question sent spells the name, and a whole answer of fewer than 128 records is
\* understood, however its names are written, wherever in the message the first address is,
\* and whatever read() finds behind it (Dns.cpp:43-64, 77-133).
THEOREM AnswerIsRight == Spec => []AnswerRight
<1>1. QuestionRight
  <2> SUFFICES ASSUME NEW name \in Names
               PROVE  Question(Dotted(name)) = WireName(name) \o << TypeA >>
    BY DEF QuestionRight
  <2>1. name \in Seq(Label) /\ name # << >>
    BY LookupAssumption
  <2> QED
    BY <2>1, NameWritten
<1>2. ASSUME AnswerInv, from["dns"] # 0, asker[from["dns"]] = "dns",
             reply[from["dns"]].whole, Len(reply[from["dns"]].means.records) < Half
      PROVE  Understood(reply[from["dns"]].means, code["dns"], answer["dns"])
  <2> DEFINE q == from["dns"]
  <2>1. q \in Query /\ reply[q] # NoReply /\ Found("dns", q) /\ labels \in Names
    BY <1>2 DEF AnswerInv, LookupInv, Ranges, Reads, Replies, Query, Client
  <2>2. reply[q] \in Full(q)
    BY <1>2, <2>1 DEF AnswerInv, Replies
  <2>3. PICK r \in DnsReplies :
          reply[q].cells = AnswerCells(r.rcode, r.records, labels) /\ reply[q].means = r
    <3>1. asker[q] = "dns"
      BY <1>2
    <3> HIDE DEF q
    <3>2. PICK r \in DnsReplies :
            reply[q] = [cells |-> AnswerCells(r.rcode, r.records, labels), whole |-> TRUE,
                        means |-> r]
      BY <2>2, <3>1, Zenon DEF Full
    <3> QED
      BY <3>2
  <2>4. Len(r.records) < Half
    BY <1>2, <2>3
  <2> HIDE DEF q
  <2> DEFINE cells == AnswerCells(r.rcode, r.records, labels)
  <2>5. PICK t \in Memory(cells) :
          code["dns"] = Parse(t).code /\ (Parse(t).code = 1 => answer["dns"] = Parse(t).answer)
    BY <2>1, <2>3 DEF Found, Result
  <2>6. Understood(r, code["dns"], answer["dns"])
    BY <2>1, <2>4, <2>5, AnswerUnderstood
  <2> QED
    BY <2>3, <2>6 DEF q
<1>3. AnswerInv => AnswerRight
  BY <1>1, <1>2 DEF AnswerRight
<1> QED
  BY <1>3, AnswersInvariant, PTL

\* date() agrees with the calendar for every year but those that follow a leap year, and a
\* whole NTP answer gives its time, whatever follows the packet (Ntp.cpp:36, 74-104).
THEOREM TimeIsRight == Spec => []TimeRight
<1>1. DateAgrees
  <2>1. Years \subseteq Nat
    BY LookupAssumption
  <2> QED
    BY <2>1, DateIsRight DEF DateAgrees
<1>2. ASSUME AnswerInv, from["ntp"] # 0, asker[from["ntp"]] = "ntp", reply[from["ntp"]].whole
      PROVE  code["ntp"] = 1 /\ answer["ntp"] = Time
  <2> DEFINE q == from["ntp"]
  <2>1. q \in Query /\ reply[q] # NoReply /\ Found("ntp", q)
    BY <1>2 DEF AnswerInv, LookupInv, Ranges, Reads, Query, Client
  <2>2. reply[q] \in Full(q)
    BY <1>2, <2>1 DEF AnswerInv, Replies
  <2>3. reply[q].cells = NtpCells
    BY <1>2, <2>2 DEF Full, NoReply
  <2> HIDE DEF q
  <2>4. PICK t \in Memory(NtpCells) :
          /\ code["ntp"] = Result("ntp", t).code
          /\ Result("ntp", t).code = 1 => answer["ntp"] = Result("ntp", t).answer
    BY <2>1, <2>3 DEF Found
  <2>5. At(t, TimeCell) = Time
    <3>1. NtpCells \in Seq(Nat) /\ Len(NtpCells) = 6 /\ NtpCells[5] = Time
      BY LookupAssumption, DnsAssumption DEF NtpCells, Byte
    <3>2. NtpCells \in Ring /\ 5 \in 1 .. Len(NtpCells)
      <4>1. \A s \in Seq(Nat) : Len(s) = 6 => s # << >> /\ 5 \in 1 .. Len(s)
        OBVIOUS
      <4>2. NtpCells # << >> /\ 5 \in 1 .. Len(NtpCells)
        BY ONLY <3>1, <4>1
      <4> QED
        BY ONLY <3>1, <4>2 DEF Ring
    <3>3. t \in Ring /\ Lies(t, NtpCells, 1)
      <4> HIDE DEF NtpCells
      <4> QED
        BY <3>2, MemoryIs
    <3>4. At(t, 1 - 1 + 5) = NtpCells[5]
      <4> HIDE DEF NtpCells
      <4> QED
        BY <3>2, <3>3 DEF Lies
    <3> QED
      BY <3>1, <3>4 DEF TimeCell
  <2> QED
    BY <2>4, <2>5 DEF Result
<1>3. AnswerInv => TimeRight
  BY <1>1, <1>2 DEF TimeRight
<1> QED
  BY <1>3, AnswersInvariant, PTL

\* A whole answer to a DNS query has everything in its place.
LEMMA WholeIsPlaced ==
  ASSUME AnswerInv, NEW q \in Query, reply[q] # NoReply,
         reply[q].whole, asker[q] = "dns",
         NEW t \in Memory(reply[q].cells)
  PROVE  \E r \in DnsReplies : Placed(t, r.rcode, r.records, labels)
<1>1. reply[q] \in Full(q) /\ asker[q] = "dns" /\ labels \in Names
  BY DEF AnswerInv, Replies
<1>2. PICK r \in DnsReplies :
        reply[q] = [cells |-> AnswerCells(r.rcode, r.records, labels), whole |-> TRUE,
                    means |-> r]
  BY <1>1, Zenon DEF Full
<1>3. /\ r.rcode \in 0 .. Rcodes - 1 /\ r.records \in Seq(Record) /\ labels \in Seq(Label)
      /\ r.rcode \in Nat
  BY <1>1, LookupAssumption, DnsAssumption
<1>4. t \in Memory(AnswerCells(r.rcode, r.records, labels))
  BY <1>2
<1>5. Placed(t, r.rcode, r.records, labels)
  BY <1>3, <1>4, AnswerPlaced
<1> QED
  BY <1>5

\* Of a whole answer finished() makes something, also of one with so many records that the
\* count is negative.
LEMMA PlacedEnds ==
  ASSUME NEW rcode \in 0 .. Rcodes - 1, NEW records \in Seq(Record),
         Len(records) \in Byte, NEW name \in Seq(Label), NEW t, Placed(t, rcode, records, name)
  PROVE  Parse(t).code # Endless
<1>1. CASE Len(records) < Half
  BY <1>1, ParseUnderstands, DnsAssumption DEF Endless
<1>2. CASE ~ Len(records) < Half
  <2>1. t[1] % Rcodes = rcode /\ t \in Ring /\ dumpName(t, 3) # Never /\ t[2] = Len(records)
    BY DnsAssumption DEF Placed
  <2>2. Signed(t[2]) \in - Half .. Half /\ Signed(t[2]) <= 0
    <3>1. \A h, n \in Nat : n < 2 * h /\ ~ n < h
            => n >= h /\ n - 2 * h \in - h .. h /\ n - 2 * h <= 0
      OBVIOUS
    <3>2. Half \in Nat /\ Len(records) \in Nat /\ Len(records) < 2 * Half
      BY DnsAssumption DEF Byte
    <3>3. Len(records) >= Half /\ Len(records) - 2 * Half \in - Half .. Half
          /\ Len(records) - 2 * Half <= 0
      BY ONLY <1>2, <3>1, <3>2
    <3>4. Signed(t[2]) = Len(records) - 2 * Half
      BY <2>1, <3>3 DEF Signed
    <3> QED
      BY ONLY <3>3, <3>4
  <2>3. dumpName(t, 3) + 1 \in Nat
    <3>1. \A k \in Nat : dumpName(t, k) \in Nat
      BY <2>1, DumpGoesOn
    <3>2. 3 \in Nat
      OBVIOUS
    <3>3. dumpName(t, 3) \in Nat
      BY ONLY <3>1, <3>2
    <3> QED
      BY ONLY <3>3
  <2>4. Answers(t, Signed(t[2]), dumpName(t, 3) + 1) = [code |-> 2, answer |-> 0]
    <3> DEFINE n == Signed(t[2])
               k == dumpName(t, 3) + 1
    <3>1. n \in - Half .. Half /\ n <= 0 /\ k \in Nat /\ t \in Ring
      BY <2>1, <2>2, <2>3
    <3> HIDE DEF n, k
    <3>2. Answers(t, n, k) = [code |-> 2, answer |-> 0]
      BY <3>1, AnswersStep
    <3> QED
      BY <3>2 DEF n, k
  <2>5. rcode \in Nat
    BY DnsAssumption
  <2> QED
    BY <2>1, <2>4, <2>5 DEF Parse, Endless
<1> QED
  BY <1>1, <1>2

\* If finished() hangs, then not in a whole answer to a DNS query: dumpName() (Dns.cpp:140-155)
\* leaves off in every name of it, whatever is in the memory behind.
THEOREM HangsInScrapsOnly == Spec => []WholeAnswersEnd
<1>1. AnswerInv => WholeAnswersEnd
  <2> SUFFICES ASSUME AnswerInv, hung # 0, reply[hung].whole, asker[hung] = "dns"
               PROVE  FALSE
    BY DEF WholeAnswersEnd
  <2>1. hung \in Query /\ reply[hung] # NoReply
    BY DEF AnswerInv, Hangs
  <2>2. PICK t \in Memory(reply[hung].cells) : Parse(t).code = Endless
    BY DEF AnswerInv, Hangs
  <2>3. PICK r \in DnsReplies : Placed(t, r.rcode, r.records, labels)
    BY <2>1, WholeIsPlaced
  <2>4. r.rcode \in 0 .. Rcodes - 1 /\ r.records \in Seq(Record) /\ Len(r.records) \in Byte
        /\ labels \in Seq(Label)
    BY LookupAssumption DEF AnswerInv, Replies
  <2> QED
    BY <2>2, <2>3, <2>4, PlacedEnds
<1> QED
  BY <1>1, AnswersInvariant, PTL
=============================================================================
