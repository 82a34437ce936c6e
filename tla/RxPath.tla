------------------------------- MODULE RxPath -------------------------------
(***************************************************************************)
(* The receive buffer of a socket: available(), read(), readSkip() and     *)
(* beginRecvUDP() of Ethernet/ASocket.cpp, recv() and recvfrom() of        *)
(* utility/socket.c, read_data() of utility/w5100.c, on the buffers        *)
(* sysinit() has laid out (BufferMap).                                     *)
(*                                                                         *)
(* The chip writes what arrives behind its own pointer, on a UDP socket    *)
(* with a header (sender and length) before each datagram.  The driver     *)
(* reads at the pointer RX_RD, moves it, and commands RECV; only then does *)
(* the chip give the space free and lower RX_RSR.  All pointers are 16-bit *)
(* counters that wrap at Wrap, not at the end of the ring.                 *)
(*                                                                         *)
(* The sketch is one that keeps the rule of this interface: it asks for no *)
(* more bytes than available() has told it of or, on a UDP socket, than    *)
(* are left of the datagram, and it reads or skips a datagram to its end   *)
(* before it begins the next.  Nothing in the code checks that.            *)
(***************************************************************************)
EXTENDS BufferMap, SequencesExt

CONSTANTS
  Wrap,         \* 2^16: where pointers wrap
  Header,       \* the bytes of a datagram's header: 8 in the code, here sender and length
  Data,         \* the values of a byte
  Sender,       \* the addresses datagrams come from
  Junk,         \* what a cell holds that is not (or no more) a byte to be read
  MaxData,      \* bound: the longest datagram
  MaxFill       \* bound: bytes in a ring at a time

ASSUME RxAssumption ==
  /\ Header = 2
  /\ MaxData \in Nat \ {0}
  /\ MaxFill \in Nat \ {0}
  /\ Wrap \in Nat \ {0}
  /\ \A c \in Code : SizeOf(c) <= Total => Wrap > SizeOf(c) /\ Wrap % SizeOf(c) = 0

Cell == Data \cup Sender \cup 0 .. MaxData \cup {Junk}
Pointer == 0 .. Wrap - 1

VARIABLES
  mode,     \* what the socket is open for
  me,       \* its number
  mem,      \* the receive memory of the chip
  wr,       \* where the chip puts the next byte
  rd,       \* Sn_RX_RD
  done,     \* Sn_RX_RD at the last RECV: the chip keeps what is from here on
  at,       \* where the thread is
  seen,     \* available(): RX_RSR when the call began
  avail,    \* its last answer, less what was read since
  left,     \* bytes left to read of the datagram begun
  asked,    \* bytes the read under way reads or skips
  got       \* what it hands to its caller

chip == << mode, me, mem, wr, done >>
vars == << map, chip, rd, at, seen, avail, left, asked, got >>

\* Sn_RX_RSR, and what the reader has before it.
RSR == (wr - done) % Wrap
Unread == (wr - rd) % Wrap

TypeOK ==
  /\ MapTypeOK
  /\ mode \in {"closed", "UDP", "TCP"}
  /\ me \in Chan
  /\ mem \in [First .. First + Total - 1 -> Cell]
  /\ wr \in Pointer /\ rd \in Pointer /\ done \in Pointer
  /\ at \in {"boot", "idle", "avail", "wait", "waiting", "recv"}
  /\ seen \in 0 .. 8 * Unit /\ avail \in 0 .. 8 * Unit
  /\ left \in 0 .. MaxData
  /\ asked \in 0 .. 8 * Unit
  /\ got \in Seq(Cell) /\ Len(got) <= 8 * Unit

Init ==
  /\ MapInit
  /\ mode = "closed" /\ me = 0
  /\ mem = [a \in First .. First + Total - 1 |-> Junk]
  /\ wr = 0 /\ rd = 0 /\ done = 0
  /\ at = "boot"
  /\ seen = 0 /\ avail = 0 /\ left = 0 /\ asked = 0 /\ got = << >>

-----------------------------------------------------------------------------
(* Bytes in the ring of the socket. *)

\* Mutant: the end of the buffer is not looked at.
read_data_NoWrap(p, len) ==
  [k \in 1 .. len |-> LET a == base[me] + (p % size[me]) + k - 1
                      IN IF a \in DOMAIN mem THEN mem[a] ELSE Junk]

\* read_data(): one run, or two when the end of the buffer comes first.
read_data(p, len) ==
  LET off == p % size[me]
      run == size[me] - off
      buf(a, n) == [k \in 1 .. n |-> mem[a + k - 1]]    \* wiz_read_buf()
  IN IF off + len > size[me]
     THEN buf(base[me] + off, run) \o buf(base[me], len - run)
     ELSE buf(base[me] + off, len)

\* The chip's own way to the cell a pointer means.
CellAt(p) == base[me] + (p % size[me])

\* The chip stores what arrives.
Store(bytes) ==
  /\ mem' = [a \in DOMAIN mem |->
               IF \E k \in DOMAIN bytes : a = CellAt(wr + k - 1)
               THEN bytes[CHOOSE k \in DOMAIN bytes : a = CellAt(wr + k - 1)]
               ELSE mem[a]]
  /\ wr' = (wr + Len(bytes)) % Wrap

-----------------------------------------------------------------------------
(* The thread. *)

Sysinit ==
  /\ at = "boot"
  /\ sysinitStep
  /\ UNCHANGED << chip, rd, at, seen, avail, left, asked, got >>

Booted ==
  /\ at = "boot" /\ i = NumChan
  /\ at' = "idle"
  /\ UNCHANGED << map, chip, rd, seen, avail, left, asked, got >>

\* init() of ASocket, or socket(): the chip begins with an empty ring, wherever that is.
\* A UDP socket is of use only if the ring can hold a datagram; the buffers are those of
\* a layout that fits the memory.
Open(protocol) ==
  /\ at = "idle" /\ mode = "closed"
  /\ sum <= Total
  /\ mode' = protocol
  /\ \E s \in Chan : size[s] > (IF protocol = "UDP" THEN Header ELSE 0) /\ me' = s
  /\ \E p \in Pointer : wr' = p /\ rd' = p /\ done' = p
  /\ avail' = 0 /\ left' = 0
  /\ UNCHANGED << map, mem, at, seen, asked, got >>

\* The chip's part of a closed socket; nobody looks at it before the next Open.
ChipClosed ==
  /\ mode' = "closed" /\ me' = 0
  /\ wr' = 0 /\ rd' = 0 /\ done' = 0
  /\ mem' = [a \in DOMAIN mem |-> Junk]

Close ==
  /\ at = "idle" /\ mode # "closed"
  /\ ChipClosed
  /\ avail' = 0 /\ left' = 0
  /\ UNCHANGED << map, at, seen, asked, got >>

Goto(place) ==
  /\ at' = place
  /\ UNCHANGED << map, chip, rd, avail, left, asked, got >>

\* Is the answer of getSn_RX_RSR() n?  RegRead16!AnswerSound: the register held it during
\* the call, or it is zero because a carry split the reading of a register that grew.
SizeRead(n) == n \in {seen, RSR} \cup (IF RSR > seen THEN {0} ELSE {})

\* available(): zero at once on a closed socket.
AvailClosed ==
  /\ at = "idle" /\ mode = "closed"
  /\ avail' = 0
  /\ UNCHANGED << map, chip, rd, at, seen, left, asked, got >>

AvailBegin ==
  /\ at = "idle" /\ mode # "closed"
  /\ seen' = RSR
  /\ Goto("avail")

AvailEnd ==
  /\ at = "avail"
  /\ \E n \in 0 .. 8 * Unit : SizeRead(n) /\ avail' = n
  /\ at' = "idle" /\ seen' = 0
  /\ UNCHANGED << map, chip, rd, left, asked, got >>

\* What the sketch may ask for.
MayRead == IF mode = "UDP" THEN left ELSE avail

\* Mutant: a pointer wider than 16 bits.
Take_Wide(n, bytes) ==
  /\ got' = bytes
  /\ rd' = rd + n
  /\ asked' = n
  /\ at' = "recv"
  /\ UNCHANGED << map, chip, seen >>

\* The heart of read(): n bytes are copied, RX_RD moves behind them, and RECV is next.
Take(n, bytes) ==
  /\ got' = bytes
  /\ rd' = (rd + n) % Wrap
  /\ asked' = n
  /\ at' = "recv"
  /\ UNCHANGED << map, chip, seen >>

\* What the sketch knows is left after it has taken n bytes.
Consume(n) ==
  /\ left' = IF mode = "UDP" THEN left - n ELSE 0
  /\ avail' = IF mode = "UDP" THEN 0 ELSE avail - n

\* read(buf, n) of a socket that is not closed.  recv() does the same, and goes on on a
\* closed one, too (socket.c:273-276): that is not modelled.
read(n) ==
  /\ at = "idle" /\ mode # "closed"
  /\ Take(n, read_data(rd, n))
  /\ Consume(n)

\* readSkip(n), or read() without a buffer; flush() of Client skips what is available.
readSkip(n) ==
  /\ at = "idle" /\ mode # "closed"
  /\ Take(n, << >>)
  /\ Consume(n)

\* read() finds the connection closed and does nothing: buf is what it was.
ReadClosed ==
  /\ at = "idle" /\ mode = "closed" /\ avail > 0
  /\ avail' = 0
  /\ UNCHANGED << map, chip, rd, at, seen, left, asked, got >>

\* sendCommand(Sn_CR_RECV): the chip takes the pointer over; the call returns.
Recv ==
  /\ at = "recv"
  /\ done' = rd
  /\ LET freed == { CellAt(done + k) : k \in 0 .. ((rd - done) % Wrap) - 1 } IN
       mem' = [a \in DOMAIN mem |-> IF a \in freed THEN Junk ELSE mem[a]]
  /\ at' = "idle" /\ asked' = 0 /\ got' = << >>
  /\ UNCHANGED << map, mode, me, wr, rd, seen, avail, left >>

\* Mutant: data is waited for, too.
HeaderThere_AndData(n) == n > Header

\* Do n bytes hold a header?
HeaderThere(n) == n >= Header

\* beginRecvUDP(): zero at once on a closed socket, or ask available() ...
BeginRecvUDP ==
  /\ at = "idle" /\ mode = "UDP" /\ left = 0
  /\ Goto("wait")
  /\ UNCHANGED seen

WaitBegin ==
  /\ at = "wait"
  /\ seen' = RSR
  /\ Goto("waiting")

\* ... until it tells of a header,
WaitAgain ==
  /\ at = "waiting"
  /\ \E n \in 0 .. 8 * Unit : SizeRead(n) /\ ~HeaderThere(n)
  /\ seen' = 0
  /\ Goto("wait")

\* Mutant: the length in the header is taken to count one byte too many.
ReadHeader_NoLength ==
  LET head == read_data(rd, Header) IN
    /\ at = "waiting"
    /\ \E n \in 0 .. 8 * Unit : SizeRead(n) /\ HeaderThere(n)
    /\ got' = head /\ asked' = Header /\ rd' = (rd + Header) % Wrap
    /\ left' = (IF head[2] > 0 THEN head[2] - 1 ELSE 0) /\ avail' = 0 /\ seen' = 0
    /\ at' = "recv"
    /\ UNCHANGED << map, chip >>

\* and read it: what follows is a datagram of the length it says.
ReadHeader ==
  LET head == read_data(rd, Header) IN
    /\ at = "waiting"
    /\ \E n \in 0 .. 8 * Unit : SizeRead(n) /\ HeaderThere(n)
    /\ got' = head /\ asked' = Header /\ rd' = (rd + Header) % Wrap
    /\ left' = head[2] /\ avail' = 0 /\ seen' = 0
    /\ at' = "recv"
    /\ UNCHANGED << map, chip >>

\* recvfrom() does not wait and does not look at the status, so the sketch calls it when
\* available() tells of a datagram.  It takes header and data at once, however long a
\* buffer its caller has.
recvfrom ==
  /\ at = "idle" /\ mode = "UDP" /\ left = 0 /\ avail >= Header
  /\ LET len == read_data(rd, Header)[2] IN
       Take(Header + len, read_data(rd, Header) \o read_data(rd + Header, len))
  /\ avail' = 0
  /\ UNCHANGED left

-----------------------------------------------------------------------------
(* The network, and the chip. *)

Fits(n) == RSR + n <= size[me] /\ RSR + n <= MaxFill

\* A datagram arrives whole; one that does not fit is dropped by the chip.
ArriveUDP ==
  /\ mode = "UDP"
  /\ \E n \in 0 .. MaxData : \E p \in Sender, d \in [1 .. n -> Data] :
        Fits(Header + n) /\ Store(<< p, n >> \o d)
  /\ UNCHANGED << map, mode, me, rd, done, at, seen, avail, left, asked, got >>

ArriveTCP ==
  /\ mode = "TCP"
  /\ Fits(1)
  /\ \E d \in Data : Store(<< d >>)
  /\ UNCHANGED << map, mode, me, rd, done, at, seen, avail, left, asked, got >>

\* A TCP connection closes at any time, also between two steps of a call.
Drop ==
  /\ mode = "TCP"
  /\ ChipClosed
  /\ UNCHANGED << map, at, seen, avail, left, asked, got >>

-----------------------------------------------------------------------------
Reading == \E n \in 1 .. MayRead : read(n) \/ readSkip(n)

InCall == AvailEnd \/ Recv \/ WaitBegin \/ WaitAgain \/ ReadHeader

Next == \/ Sysinit \/ Booted
        \/ Open("UDP") \/ Open("TCP") \/ Close
        \/ AvailClosed \/ AvailBegin \/ Reading \/ ReadClosed \/ BeginRecvUDP \/ recvfrom
        \/ InCall
        \/ ArriveUDP \/ ArriveTCP \/ Drop

\* A call that has begun runs on; of network and sketch nothing is asked.
Spec == Init /\ [][Next]_vars /\ WF_vars(InCall)

-----------------------------------------------------------------------------
(* Properties. *)

\* Between the pointers the ring is what arrived and was not read: no read takes a byte
\* twice, misses one, or takes one of another socket, across the end of the buffer and the
\* wrap of the pointers, while bytes arrive between its steps (ASocket.cpp:247-276).
Stream == INSTANCE InboundStream
  WITH queue <- IF mode = "closed" THEN << >>
                ELSE [k \in 1 .. Unread |-> mem[CellAt(rd + k - 1)]]

ImplementsStream == Stream!Spec

\* Whole[k]: the last k bytes of the ring are whole datagrams.
Whole[k \in 0 .. 8 * Unit] ==
  LET head == CellAt(wr - k)
      len == mem[CellAt(wr - k + 1)]
  IN \/ k = 0
     \/ /\ k >= Header
        /\ mem[head] \in Sender
        /\ len \in 0 .. k - Header
        /\ Whole[k - Header - len]

\* A reader of datagrams never loses its place: behind what is left of the datagram it is
\* in, the next byte is the first of a header (ASocket.cpp:398-412, socket.c:412-434).
Framed == mode = "UDP" => left <= Unread /\ Whole[Unread - left]

\* beginRecvUDP() has no timeout, but it returns once a datagram is there, also if every
\* size it reads is torn by an arrival (ASocket.cpp:396).
BeginRecvReturns == (at = "wait" /\ Unread > 0) ~> (at = "idle")
=============================================================================
