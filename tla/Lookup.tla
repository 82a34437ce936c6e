------------------------------- MODULE Lookup -------------------------------
(***************************************************************************)
(* The DNS and the NTP client, Ethernet/Dns.cpp and Ethernet/Ntp.cpp, on   *)
(* one pool of sockets, in a sketch that polls both.                       *)
(*                                                                         *)
(* A query takes whichever socket is closed and its number for a source    *)
(* port, and is over when finished() has closed the socket: read an        *)
(* answer, found an error, or waited for too long.  Nothing but the port   *)
(* tells whose answer a datagram is: the ID of every DNS query is the      *)
(* same, and neither client looks at where an answer comes from.  So what  *)
(* the network delivers late, or twice, may reach a query it is not for.   *)
(*                                                                         *)
(* The sketch begins a query when the one before is over, and goes on to   *)
(* poll although it could not be sent, as the example does (it does not    *)
(* look at what resolve() returns).  A UDP socket changes only when a      *)
(* client acts (SocketPool), so resolve(), request() and finished() are    *)
(* one step each -- but for a finished() that does not end: dumpName()     *)
(* reads on past the end of an answer that was cut, and if it meets no     *)
(* zero and no pointer, all round the memory of the socket, it never       *)
(* returns, and the sketch with it.                                        *)
(***************************************************************************)
EXTENDS DnsMessage, NtpDate, FiniteSetsExt

CONSTANTS
  MaxSock,      \* sockets
  MaxQuery,     \* bound: queries of both clients
  MaxQueue,     \* bound: datagrams waiting in one socket
  Names,        \* the names to look up, as sequences of labels
  DnsReplies,   \* what a DNS server says: return code and records
  Cuts,         \* the lengths at which an answer may end too early
  Time,         \* the cell of an NTP packet the time is made of, as a server fills it
  Years,        \* bound: the years, after 1970, date() is asked for
  Rings         \* what the memory of a socket may hold when a datagram is written to it

ASSUME LookupAssumption ==
  /\ MaxSock \in Nat \ {0}
  /\ MaxQuery \in Nat \ {0}
  /\ MaxQueue \in Nat \ {0}
  /\ Cuts \subseteq Nat \ {0, 1}
  /\ Time \in Byte
  /\ Names \subseteq Seq(Label) \ {<< >>}
  /\ DnsReplies \subseteq [rcode : 0 .. Rcodes - 1, records : Seq(Record)]
  /\ \A r \in DnsReplies : Len(r.records) \in Byte
  /\ Years \subseteq Nat
  /\ Rings \subseteq Seq(Byte)

Sock == 0 .. MaxSock - 1
NoSock == MaxSock
Query == 1 .. MaxQuery
Client == {"dns", "ntp"}

\* NTP_PACKET_SIZE, where the time is in the packet, and the header of a datagram, in
\* cells of eight bytes.
PacketSize == 6
TimeCell == 5
NoTime == 8

\* An NTP server's answer.
NtpCells == << 4, 1, 0, 0, Time, 0 >>

VARIABLES
  labels,       \* the name that is looked up
  holder,       \* who has a socket open: a client, another part of the sketch, or "none"
  queue,        \* the datagrams a socket has received, by the query they answer
  count,        \* queries sent
  port,         \* the source port of a query, less 1024
  asker,        \* whose query it is
  reply,        \* what the server has answered: cells, and what they mean
  sock,         \* _sock of each client
  query,        \* its last query
  waiting,      \* has its query begun and not ended?
  expired,      \* millis() - _startTime > DNS_TIMEOUT
  code,         \* what finished() has said
  answer,       \* _answer, or the cell _time is made of
  from,         \* history: the query whose answer was read
  hung          \* the query whose answer finished() hangs in, or 0

pool == << holder, queue >>
wire == << count, port, asker, reply >>
client == << sock, query, waiting, expired, code, answer, from >>
vars == << labels, pool, wire, client, hung >>

NoReply == [cells |-> << >>, whole |-> FALSE, means |-> [rcode |-> 0, records |-> << >>]]

Init ==
  /\ labels \in Names
  /\ holder = [s \in Sock |-> "none"]
  /\ queue = [s \in Sock |-> << >>]
  /\ count = 0
  /\ port = [q \in Query |-> NoSock]
  /\ asker = [q \in Query |-> "none"]
  /\ reply = [q \in Query |-> NoReply]
  /\ sock = [c \in Client |-> NoSock]
  /\ query = [c \in Client |-> 0]
  /\ waiting = [c \in Client |-> FALSE]
  /\ expired = [c \in Client |-> FALSE]     \* _startTime is zero, the start of the sketch
  /\ code = [c \in Client |-> 0]
  /\ answer = [c \in Client |-> IF c = "ntp" THEN NoTime ELSE 0]
  /\ from = [c \in Client |-> 0]
  /\ hung = 0

-----------------------------------------------------------------------------
(* The clients.  They act only while the sketch does not hang. *)

Closed == { s \in Sock : holder[s] = "none" }

\* Mutant: one port for all.
SourcePort_Fixed(s) == 0

\* init() of ASocket: 1024 + _sock
SourcePort(s) == s

\* resolve() and request(): a socket is opened and the query sent.
Ask(c) ==
  /\ hung = 0 /\ ~waiting[c] /\ Closed # {}
  /\ count < MaxQuery
  /\ LET s == Min(Closed) IN
       /\ holder' = [holder EXCEPT ![s] = c]
       /\ queue' = [queue EXCEPT ![s] = << >>]
       /\ sock' = [sock EXCEPT ![c] = s]
       /\ port' = [port EXCEPT ![count + 1] = SourcePort(s)]
  /\ count' = count + 1
  /\ asker' = [asker EXCEPT ![count + 1] = c]
  /\ query' = [query EXCEPT ![c] = count + 1]
  /\ waiting' = [waiting EXCEPT ![c] = TRUE]
  /\ expired' = [expired EXCEPT ![c] = FALSE]
  /\ code' = [code EXCEPT ![c] = 0]
  /\ from' = [from EXCEPT ![c] = 0]
  /\ UNCHANGED << labels, reply, answer, hung >>

\* No socket to be had; the time of the last query still counts.
AskFails(c) ==
  /\ hung = 0 /\ ~waiting[c] /\ Closed = {}
  /\ sock' = [sock EXCEPT ![c] = NoSock]
  /\ waiting' = [waiting EXCEPT ![c] = TRUE]
  /\ code' = [code EXCEPT ![c] = 0]
  /\ from' = [from EXCEPT ![c] = 0]
  /\ UNCHANGED << labels, pool, wire, query, expired, answer, hung >>

\* available(): headers and data of all datagrams received; 0 without a socket.
Available(c) ==
  IF sock[c] = NoSock \/ queue[sock[c]] = << >> THEN 0
  ELSE LET received == queue[sock[c]]
           size(k) == 1 + Len(reply[received[k]].cells)
       IN MapThenSumSet(size, DOMAIN received)

\* What available() must come to: a datagram with a DNS header, or with an NTP packet but
\* for the eight bytes of the datagram's own header.
Needed(c) == IF c = "dns" THEN 3 ELSE PacketSize

\* Mutant: an error leaves the socket open.
CloseAfter_KeepOnError(c, result) ==
  IF result > 16 THEN UNCHANGED << holder, queue, sock >>
  ELSE /\ holder' = [s \in Sock |-> IF s = sock[c] THEN "none" ELSE holder[s]]
       /\ queue' = [s \in Sock |-> IF s = sock[c] THEN << >> ELSE queue[s]]
       /\ sock' = [sock EXCEPT ![c] = NoSock]

\* close(), on every way out of finished().
CloseAfter(c, result) ==
  /\ holder' = [s \in Sock |-> IF s = sock[c] THEN "none" ELSE holder[s]]
  /\ queue' = [s \in Sock |-> IF s = sock[c] THEN << >> ELSE queue[s]]
  /\ sock' = [sock EXCEPT ![c] = NoSock]

\* The memory of the socket, from the first cell of a datagram on and round to it again.
Memory(cells) == { cells \o SubSeq(ring, Len(cells) + 1, Len(ring)) : ring \in Rings }

\* What finished() makes of it.
Result(c, t) ==
  IF c = "dns" THEN Parse(t) ELSE [code |-> 1, answer |-> At(t, TimeCell)]

\* Enough has been received for finished() to read.
Readable(c) == hung = 0 /\ waiting[c] /\ Available(c) >= Needed(c)

\* finished() with enough received: the answer is read and the query over.
FinishedReads(c) ==
  /\ Readable(c)
  /\ LET q == Head(queue[sock[c]]) IN
       \E t \in Memory(reply[q].cells) :
         LET result == Result(c, t) IN
           /\ result.code # Endless
           /\ code' = [code EXCEPT ![c] = result.code]
           /\ answer' = [answer EXCEPT ![c] = IF result.code = 1 THEN result.answer ELSE @]
           /\ from' = [from EXCEPT ![c] = q]
           /\ CloseAfter(c, result.code)
  /\ waiting' = [waiting EXCEPT ![c] = FALSE]
  /\ UNCHANGED << labels, wire, query, expired, hung >>

\* finished() that never returns, as dumpName() does not.
FinishedHangs(c) ==
  /\ Readable(c)
  /\ LET q == Head(queue[sock[c]]) IN
       /\ \E t \in Memory(reply[q].cells) : Result(c, t).code = Endless
       /\ hung' = q
  /\ UNCHANGED << labels, pool, wire, client >>

\* Another round of its loop.
DumpOn == hung # 0 /\ UNCHANGED vars

\* Mutant: the time is looked at only while nothing has come.
FinishedExpires_Silent(c) ==
  /\ hung = 0 /\ waiting[c] /\ Available(c) = 0 /\ expired[c]
  /\ code' = [code EXCEPT ![c] = 3]
  /\ CloseAfter(c, 3)
  /\ waiting' = [waiting EXCEPT ![c] = FALSE]
  /\ UNCHANGED << labels, wire, query, expired, answer, from, hung >>

\* finished() after too long a time; before that it returns 0 and changes nothing.
FinishedExpires(c) ==
  /\ hung = 0 /\ waiting[c] /\ Available(c) < Needed(c) /\ expired[c]
  /\ code' = [code EXCEPT ![c] = 3]
  /\ CloseAfter(c, 3)
  /\ waiting' = [waiting EXCEPT ![c] = FALSE]
  /\ UNCHANGED << labels, wire, query, expired, answer, from, hung >>

-----------------------------------------------------------------------------
(* The rest of the sketch, time, servers and the network. *)

\* A socket is opened and closed by others, who have ports of their own.
OthersOpen ==
  /\ hung = 0 /\ Closed # {}
  /\ holder' = [holder EXCEPT ![Min(Closed)] = "other"]
  /\ UNCHANGED << labels, queue, wire, client, hung >>

OthersClose(s) ==
  /\ hung = 0 /\ holder[s] = "other"
  /\ holder' = [holder EXCEPT ![s] = "none"]
  /\ UNCHANGED << labels, queue, wire, client, hung >>

Expire(c) ==
  /\ waiting[c] /\ ~expired[c]
  /\ expired' = [expired EXCEPT ![c] = TRUE]
  /\ UNCHANGED << labels, pool, wire, sock, query, waiting, code, answer, from, hung >>

\* The answers a server may give to a query: as they should be, or cut.
Full(q) ==
  IF asker[q] = "dns"
  THEN { [cells |-> AnswerCells(r.rcode, r.records, labels), whole |-> TRUE, means |-> r] :
           r \in DnsReplies }
  ELSE { [NoReply EXCEPT !.cells = NtpCells, !.whole = TRUE] }

Cut(r, n) == [r EXCEPT !.cells = SubSeq(@, 1, n), !.whole = FALSE]

Serve(q) ==
  /\ q <= count /\ reply[q] = NoReply
  /\ \E r \in Full(q) :
       reply' = [reply EXCEPT ![q] = r]
         \/ \E n \in Cuts : n < Len(r.cells) /\ reply' = [reply EXCEPT ![q] = Cut(r, n)]
  /\ UNCHANGED << labels, pool, count, port, asker, client, hung >>

\* An answer arrives, for the first time or again, where its port is open.
Deliver(q, s) ==
  /\ q <= count /\ reply[q] # NoReply
  /\ holder[s] \in Client /\ SourcePort(s) = port[q]
  /\ Len(queue[s]) < MaxQueue
  /\ queue' = [queue EXCEPT ![s] = Append(@, q)]
  /\ UNCHANGED << labels, holder, wire, client, hung >>

Poll(c) == FinishedReads(c) \/ FinishedHangs(c) \/ FinishedExpires(c)

Next ==
  \/ \E c \in Client : Ask(c) \/ AskFails(c) \/ Poll(c) \/ Expire(c)
  \/ DumpOn \/ OthersOpen \/ \E s \in Sock : OthersClose(s)
  \/ \E q \in Query : Serve(q) \/ \E s \in Sock : Deliver(q, s)

\* Both clients are polled, and time goes by.
Spec == /\ Init /\ [][Next]_vars
        /\ \A c \in Client : WF_vars(Poll(c)) /\ WF_vars(Expire(c))

-----------------------------------------------------------------------------
(* Properties. *)

\* A client has a socket only while its query lasts, and then the one that is open in its
\* name: no way out of finished() leaves a socket behind, of a pool of four.
NoSocketLeft ==
  \A c \in Client : { s \in Sock : holder[s] = c } =
                      IF waiting[c] /\ sock[c] # NoSock THEN { sock[c] } ELSE {}

\* An answer that is read is the one to the present query, or a late one to a query that
\* is over (they have the same ID, Dns.cpp:24): never one that another client waits for.
Waits(q) == \E c \in Client : waiting[c] /\ query[c] = q /\ sock[c] # NoSock
OwnOrLate ==
  [][\A c \in Client : from'[c] # from[c] /\ from'[c] # 0
       => from'[c] = query[c] \/ ~Waits(from'[c])]_vars

\* The question sent has the labels of the name (Dns.cpp:51-60 moves its index in two
\* places), and an answer that is whole and has fewer than 128 records is understood: the
\* first A record's address, or the code that says why there is none.
Understood(means, result, ip) ==
  LET found == { k \in DOMAIN means.records : means.records[k].type = TypeA } IN
    CASE means.rcode # 0 -> result = 16 + means.rcode
      [] means.rcode = 0 /\ found = {} -> result = 2
      [] OTHER -> result = 1 /\ \E k \in found : /\ \A j \in found : k <= j
                                               /\ ip = means.records[k].rdata[1]

QuestionRight ==
  \A name \in Names : Question(Dotted(name)) = WireName(name) \o << TypeA >>

AnswerRight ==
  /\ QuestionRight
  /\ from["dns"] # 0 /\ asker[from["dns"]] = "dns" =>
       LET r == reply[from["dns"]] IN
         r.whole /\ Len(r.means.records) < Half => Understood(r.means, code["dns"], answer["dns"])

\* The time comes out of the answer if the answer has it, and date() turns a time into the
\* right year and day of the month -- but for the first and the last two days of a year, and
\* for the whole year after a leap year, as it counts the leap day too late.  The month is
\* another matter (MonthFromOne).
Inner(y) == 1 .. LengthOf(y) - 3
DateAgrees == \A y \in Years : Leap(y - 1) \/ Agrees(y, Inner(y))

TimeRight ==
  /\ DateAgrees
  /\ from["ntp"] # 0 /\ asker[from["ntp"]] = "ntp" /\ reply[from["ntp"]].whole
       => code["ntp"] = 1 /\ answer["ntp"] = Time

\* What date() gives a sketch for a month, once it has the time, counts from 1, as the
\* comment says (Ntp.cpp:130) and the example prints it.
MonthFromOne ==
  code["ntp"] = 1 => \A y \in Years : Leap(y - 1) \/ MonthAgrees(y, Inner(y))

\* dumpName() leaves off in every name of a whole answer to a DNS query, whatever is in the
\* memory behind it: finished() can only hang in an answer that was cut, or is not one.
WholeAnswersEnd == hung # 0 => ~(reply[hung].whole /\ asker[hung] = "dns")

\* Every query comes to an end, also if only scraps of an answer arrive, unless the sketch
\* hangs in one of them.
QueryEnds == \A c \in Client : waiting[c] ~> ~waiting[c] \/ hung # 0
=============================================================================
