# A formal model of ASocket

ASocket is an Arduino library for the W5100 Ethernet controller: asynchronous
sockets (`ASocket`), the classic blocking `Client` and `Server` on top of them, and
clients for DHCP, DNS and NTP. This directory holds TLA+ models of its stateful
parts, the TLC runs that check them, and TLAPS proofs, for every value of the
constants, of every safety property the passing runs check.

All source paths below are under `src/Ethernet/`.

## 1. The system

There is one thread, the sketch (`setup()`, then `loop()` for ever). The interrupt
routine of `w5100.c` is compiled out by default (`utility/types.h`); `SocketApi` models
the build with it, too. What makes the library hard is its only partner: the W5100
carries out TCP by itself. It accepts, closes, resets and times out connections,
receives and acknowledges bytes, between any two of the single-byte bus cycles in which
the driver looks at it. Every look at a register is stale at once.

| component | state | operations | hard because | correct if |
|---|---|---|---|---|
| W5100 (hardware) | status, flags, pointers, buffers of `MAX_SOCK_NUM` = 4 sockets | commands in `Sn_CR`; TCP on its own | it acts at any time | (environment) |
| `ASocket`: life cycle (`ASocket.cpp`) | the number `_sock`, 255 for none | `init*`, `close`, `listenTCP`, `connectTCP`, `disconnectTCP`, `send`, `isSendComplete*` | nothing records whose a hardware socket is: a socket whose status reads CLOSED is free | no socket is taken from an open connection, none is lost, two handles never share one, a yes of `isSendComplete` is true |
| `ASocket`: transmit (`ASocket.cpp`, `utility/w5100.c`) | `_write_ptr`, `TX_WR`, `TX_RD`, the ring | `beginPacketTCP`, `write`, `send`, `write_data` | the free size does not count what is written and not sent; pointers wrap | the bytes that are taken leave in order and unaltered; `write` returns |
| `ASocket`: receive | `_read_ptr`, `RX_RD`, the ring | `available`, `read`, `readSkip`, `beginRecvUDP` | datagrams are framed by an 8-byte header in the same ring as the data | a reader that has read a datagram stands at the next header |
| Size registers (`utility/w5100.c`) | two bytes each, read one at a time | `getSn_TX_FSR`, `getSn_RX_RSR` | a carry between the bytes | the value returned was in the register |
| `Server` (`AServer.cpp`), `EthernetClass::_server_port` | the table from sockets to ports | `begin`, `accept`, `available`, `write` | no thread, no state of its own but the table; the table outlives connections | one listener per server, connections go to their server, sockets are recycled |
| `Client` (`AClient.cpp`) | an `ASocket` | `connect`, `read`, `write`, `flush`, `stop`, `connected` | polling loops on a status that may skip the value waited for | `connect` and `stop` return, `stop` gives the socket back |
| DHCP client (`Dhcp.cpp`) | transaction id, addresses | `beginWithDHCP` | late, foreign and malformed replies | the lease is one a server has given to this client |
| DNS client (`Dns.cpp`) | the answer | `resolve`, `finished` | late answers, record parsing | the answer belongs to the question |
| NTP client (`Ntp.cpp`) | the time | `request`, `finished`, `date` | calendar arithmetic | the date is that of the time stamp |
| Chip set-up (`utility/w5100.c`) | base, size and mask of each socket's buffers | `iinchip_init`, `sysinit` | sizes exceed the memory | buffers do not overlap |
| Legacy API (`utility/socket.c`), interrupt routine (`utility/w5100.c`) | `I_STATUS`, `local_port` | `socket`, `close`, `send`, `sendto`, `igmpsend`, `recv`, `recvfrom`, ... | blocking loops over flags that stay up until someone clears them, and that the routine moves | a call takes no flag of an earlier one for its own, and returns |

Parts meet in the chip's registers only: `Server` and `Client` hold an `ASocket`,
`ASocket` holds a socket number, and all facts about the socket are read from the
chip. `_server_port` (indexed by socket number) and the numbers in the handles are
the only things that outlive a connection, and the only ones that can be stale.

## 2. Modules

| module | models | kind |
|---|---|---|
| `W5100Status` | statuses, commands, the status changes the network makes | constants, shared |
| `W5100` | `Sn_SR`, `Sn_IR`, SEND under way, per socket | external chip |
| `SocketPool` | `ASocket` handles competing for sockets | specification |
| `MCSocketPool` | instances of it for TLC | model checking |
| `RegRead16` | the loop that reads a size register | specification, part of `TxPath` |
| `PacketStream` | what the transmit side does: a FIFO of packets, of what a call of `write()` can get in | abstract specification |
| `TxPath` | the transmit ring, its pointers and its free size; extends `RegRead16`, implements `PacketStream` | composition, refinement |
| `EthernetServer` | `Server`, the `Client` functions it uses, `_server_port` | specification |
| `Dhcp` | `beginWithDHCP`, its messages, DHCP servers and the network | specification |
| `DhcpOptions` | the loop of `parseDHCPResponse()` over the options of a reply | operators |
| `DhcpClient`, `MCDhcp` | `Dhcp` with the options read out of bytes; implements `Dhcp` | composition, refinement, model checking |
| `BufferMap` | the loop of `sysinit()` | specification |
| `InboundStream` | what the receive side promises: a queue of bytes | abstract specification |
| `RxPath` | the receive ring on the buffers of `BufferMap`; implements `InboundStream` | composition, refinement |
| `SocketApi` | the blocking calls of `socket.c`, both builds, with the interrupt routine | specification |
| `OutgoingClient` | a `Client` that connects, composed with `EthernetServer` | composition |
| `DnsMessage`, `NtpDate` | what the clients read out of answers | operators |
| `Lookup`, `MCLookup` | the DNS and the NTP client on one pool; composes the two above | specification, model checking |
| `SocketPoolProofs`, `RegRead16Proofs`, `TxPathProofs`, `SocketApiProofs` | theorems about the module each is named after | proofs |
| `DhcpProofs` | theorems about `Dhcp` and `DhcpClient`, with its parser | proofs |
| `RxPathProofs` | theorems about `BufferMap` and `RxPath` | proofs |
| `LookupProofs` | theorems about `Lookup`, with its messages and dates | proofs |
| `ServerProofs` | theorems about `EthernetServer`, alone and in `OutgoingClient` | proofs |

### SocketPool

State: the chip (`sr`, `ir`, `sending`), `sock[h]` (`_sock` of handle h), and `call`,
the call that is under way, because the chip moves while one is. `init()` is a step
per status it reads (`InitBegin`, `ScanMiss`, `ScanHit` or `ScanFail`) and one to open
the socket (`InitOpen`, `InitRefuse`); `isSendCompleteTCP/UDP` a step per register
they read. `sendCommand` writes `Sn_CR` and spins until the chip has cleared it; a
call that looks at the status and then gives one command is one step, because a
command that comes too late has no effect on a closed socket (`AfterCommand`).
`owner` and `unasked` are history variables: who opened the socket, and whether its
last `send` has been reported complete. `CallerRules` are the two rules a sketch must
keep and the library does not enforce; runs and theorems name those they need.

### RegRead16

The register, and the loop over its four bus cycles. It only grows during a call:
commands that lower it come from the same thread. A word is a pair of bytes of `Base`
values, so the theorem covers `Base` = 256. `TxPath` extends the module and makes the
register the free size of its ring.

### TxPath and PacketStream

`mem` is the ring, `wr`, `rd`, `ptr` the three pointers modulo `Wrap` (2^16 in the
code), `Size` the ring (2048). `write()` is the call (`WriteCall`), the reading of the free
size by the steps of `RegRead16`, byte by byte while the chip frees the ring (`PollCall`,
`PollOn`, `PollEnd`), the test (`PollAgain`, `WriteAbort`), and the copy. `bytes` is what
`write()` was called with. Of a call that is longer than the ring it takes only what the
ring can hold (`Cut`), and does not tell its caller; so does `PacketStream`, which keeps
the first `Limit` bytes of a call and drops the others: this is what the code does, not
what a caller would ask for (see the list in section 4). `PacketRule` is what a sketch must
do for a packet of several `write`s; `Client::write` keeps it by sending after every write.
The refinement mapping reads the queue and the packet out of the ring between the pointers.

### EthernetServer

The thread's place, and the chip's status, receive size and port. `accept()` and
`available()` read the status up to three times per socket; each read is a step, and the
network moves in between. The sketch serves `NumServers` servers in turn and does what
`examples/ChatServer` and `examples/WebServer` do with a client: read a byte and write
to all, read and go on, or stop it. `Server::write()` goes through the sockets of its
port that are in ESTABLISHED. `ASocket::write()` is the loop of the code there: a look
at the free size (`WriteRoom`), then one at the status, after which it asks again, or
gives up (`WriteFull`), or copies if there is room (`WriteFree`). The model has no ring
here (`TxPath` has), so there may be room or not at every look: a peer need not take
what it is sent, and then the loop never ends (`WriteHangs`).

### Dhcp, DhcpOptions, DhcpClient

The state machine of `beginWithDHCP` (`state`, `type`, `xid`), what it remembers of
replies (`localIp`, `serverIp`, `conf` for the options), and what it writes to the chip.
`parseDHCPResponse` is one step per kind of datagram at the head of the buffer: a stray
one, a reply for another client or transaction (left half read: `torn`), one of its own;
or the timeout. Which of several answers comes first, late, or twice is up to the
network: `msgs` keeps every message ever sent, and any of them can arrive at any time.
The servers are external: an offer per transaction, an answer to a request that names
them. Of options `Dhcp` keeps only what they say. The loop that empties the buffer at the
end of a parse is one step, so it is assumed to outrun the network.

`DhcpClient` replaces one step, `ReadOurs`. A reply is bytes there: the options in any
order, with codes of `Dhcp.h` and addresses of four bytes, to the end of the message or
between pads; the client is left with what `Parse` of `DhcpOptions`, the loop of the code,
finds in them, given what it remembers. Bytes that are no server's are `Garbled`, so a
configuration put together from two servers would show. `ImplementsDhcp` says that no step
differs from `Dhcp`'s, so what is proved of `Dhcp` holds of the client that parses. The
order of a reply's options is chosen when it is read, as nobody looks at it before.

### BufferMap and RxPath

`BufferMap` is the loop of `sysinit()`, an iteration a step: the code of a channel, the
sum given away, and the base and size it gets (the mask is the size less one). A channel
that comes when the memory is used up keeps size 0, as in the code.

`RxPath` runs it first, with any argument. If the layout fits the memory, it then opens
sockets that were given a buffer, for UDP or TCP, one at a time and each with pointers
anywhere. `mem` is the memory of all channels, so a read outside its own buffer shows.
The chip writes at `wr`; the driver reads at `rd` and gives space free by RECV (`done`
follows `rd`): two steps, and arrivals come in between. Size readings may be torn
(`SizeRead`, as `RegRead16` allows). `read` is `ASocket::read()`; `recv()` does the same
on an open socket, on a closed one it is not modelled. `recvfrom` is the UDP case of the
legacy function, `beginRecvUDP` its poll and its header. The header is two cells, sender
and length; a datagram that does not fit is dropped by the chip. The refinement mapping
reads the queue of `InboundStream` out of the ring between `rd` and `wr`.

The sketch keeps a rule the library does not enforce: it asks for no more than
`available()` has told it of (on UDP: than is left of the datagram), and reads or skips
a datagram to its end before the next `beginRecvUDP()`. Without it frames are lost, as
the code keeps no record of the datagram's length.

### SocketApi

The chip with its flags (`ir`), `I_STATUS`, the thread's call and the routine. Every
bus cycle that reads or writes a flag is a step, so `putISR(s, getISR(s) & ~flag)` is
two, and the routine can run between them. The routine takes the sockets it saw in IR,
saves the flags of each and clears them, and looks again (`IsrAgain`). `interrupts` is
which build this is; it never changes. `full` says that the ring lacks the room the call
asks for; `fate` is a history variable, what became of a socket's last SEND.

`socket`, `close`, `send`, `sendto` and `igmpsend` are modelled with every wait;
`socket()` for a protocol it does not know returns after its `close()`. `listen`, `connect`
and `disconnect` are one command each. `send()` is called on
connected sockets or others, `sendto()` on sockets that are open for UDP.

### OutgoingClient

`connect()` is the scan of the pool (as in `EthernetServer`, a look a step), the
connection attempt, and the loop with its two looks at the status; `read()` and `stop()`
act on whatever socket the `Client` holds the number of, as the code does. `clean` is a
history variable: it falls when `connect()` takes a socket whose table entry is left
from a server, or when the `Client` uses a number whose socket a server has taken. The
`Client` waits for room in `write()` as the servers do.

### Lookup, DnsMessage, NtpDate

`resolve()`, `request()` and `finished()` are one step each, as nothing but these
clients changes a UDP socket. Other parts of the sketch open and close sockets, so
there may be none for a query. Servers answer every query, correctly, with an error, or
cut short; the network keeps every answer ever given and delivers it any number of times,
to whichever open socket has the source port it was sent to.

In `DnsMessage` what is special about a byte is given by constants: from where on a count
is negative (`Half`, `0x80` in the code) and a byte of a name begins a pointer (`Pointer`,
`0xc0`), where the flags above a return code begin (`Rcodes`), and what is a dot. TLC has
bytes of three bits, the proofs any. A name is its labels; `resolve()` gets them with
dots and writes each with its length (`QName`). Its counters are of eight bits in the code;
names are taken to be short enough for them (at most 253 characters, as DNS has it). The
code reads records without looking at how much there is, and `read()` does not stop where a
datagram ends: the socket's memory goes on behind it, with what was received before, and
round to its begin (`At`). `Rings` are the contents it may have before the datagram is
written to it. `dumpName()` looks for a zero or a pointer. If there is neither at any place
it comes to, it goes round for ever; as a place and the number of places are all it has, it
does so if it has read more cells than there are (`Never`). A `finished()` that never
returns is a step of its own (`FinishedHangs`); nothing else in the sketch moves after it
(`hung`, `DumpOn`), while time and network go on.
Type and length are read from the low byte of their field, as in
the code; the class is not looked at there, and not here. NTP packets are six cells of
eight bytes. `NtpDate` is `date()` for a count of any size, against a calendar with a leap
day in every fourth year, which is the true one to 2099. In the code the count is an
unsigned 32-bit number, which ends in 2106; TLC looks at the years to 2037, where its own
integers end. Year and day are one property (`TimeRight`), the month another
(`MonthFromOne`).

## 3. Runs

| run | instance | shows |
|---|---|---|
| `pool_ruled` | 3 handles, 2 sockets, all modes, both caller rules | `TypeOK`, `NoLeak`, `OpenOnlyClosed`, `InitFailsOnlyWhenFull`, `TcpDoneIsDone` |
| `pool_alias` | 2 handles, TCP, both rules | violation: `NoStaleHandle` (finding 1) |
| `tx_rule` | ring of 3, wrap at 6, register bytes of 2 values, writes up to 4 bytes of 2 values | `TypeOK`, `NoOverrun`, `AnswerSound`, `Terminates`, `ImplementsStream`, `WriteReturns` |
| `tx_chunked` | ring of 4, wrap at 8, writes up to 3 bytes, without `PacketRule` | violation: `NoOverrun` (finding 2) |
| `rx` | 2 channels, memory of 9 units, rings of 1 to 8 bytes, wrap at 16, datagrams up to 2 bytes | `TypeOK`, `LayoutSound`, `Framed`, `ImplementsStream`, `BeginRecvReturns` |
| `server_two` | 2 servers, 3 sockets | `TypeOK`, `OneListener`, `TableTrue`, `ListensAgain`, `FinishedIsFreed` |
| `server_last_words` | 1 server, 2 sockets | violation: `LastWordsAreRead` (finding 3) |
| `outgoing` | 1 server and a client, 3 sockets | `CleanIsSound`, `LoopGoesOn`, `ServersStillListen` |
| `socket_api` | 2 sockets, both builds | `TypeOK`, `FlagsTrue`, `CallsReturn` |
| `dhcp` | 2 servers with an address each, transactions up to 3, 1 datagram in the buffer, all orders of up to 6 options | `TypeOK`, `LeaseTrue`, `RequestTrue`, `Returns`, `ImplementsDhcp` |
| `lookup` | 2 sockets, 2 queries, 2 datagrams in a socket, 2 names, 5 answers whole or cut, memory of 40 cells | `NoSocketLeft`, `AnswerRight`, `TimeRight`, `WholeAnswersEnd`, `OwnOrLate`, `QueryEnds` |
| `month` | the same | violation: `MonthFromOne` (finding 4) |

Why the bounds are enough.

- Pool: two handles compete and a third is the one that is refused, two sockets are
  enough for a scan to pass one and take another; the theorems drop the bounds.
- Transmit ring: writes longer than the ring, packets that meet its end at every offset,
  pointers that wrap after two rounds (the wrap is a multiple of the size, as in the
  code). The free size goes from 0 to 3 in a register of two bits, so a carry between
  its bytes comes within a reading. The theorems drop the bounds, and with bytes of any
  number of values there can be any number of carries.
- Receive ring: every argument of `sysinit()` for two channels, so the socket has each of
  the four sizes, at either end of the memory, and the other channel begins right behind
  it; with 9 units some arguments fit and one asks for too much (`LayoutSound` covers it;
  sockets are opened on layouts that fit). Two
  datagrams with headers are in the ring at a time, in a ring of any size they fit, and
  pointers wrap while they are. The theorems drop all of these bounds.
- Server: with three sockets and two servers a listener, a connection and a finished
  connection of either server coexist, and the pool runs dry. Outgoing: one server is
  enough to leave a stale entry and to take a socket whose number the client still has.
  Theorems drop both.
- Legacy API: one call runs at a time, so a second socket is what flags can be confused
  with; the routine's loop has two to go through. The theorem drops the bound.
- DHCP: two servers are enough for the answers of one to mix with those of the other,
  three transactions for an answer to be late by one or by two, or by a whole call. A
  datagram waits in the buffer no longer than the client needs to come back to it, and
  order is already lost on the network, so one place is enough. Addresses and data hold
  codes and lengths of options, so a parser that loses its place shows. The theorems drop
  these bounds but for the number of transactions, which they allow to be any.
- Lookup: two queries, of one client or of both, are what a late answer needs: the query
  it belongs to and another. Two datagrams wait, so one is left unread behind the one that
  ends the query. Answers have an address, an alias before it, an alias alone, an error,
  and more records than a signed byte counts. An answer may be cut within the name of its
  question, where `dumpName()` goes on into the memory. That is all zeros, or such that a
  name is walked for ever from one place and ends with a pointer from the next. Dates are
  looked at for 68 years. The theorems drop these bounds.

Fairness. `TxPath`: the thread is in the loops of `write()` and of the size register and
does nothing else, and a peer takes the bytes of a connection that stays up (`Deliver`); if
it does not, `write()` does not return, and no code bounds that. So `EthernetServer` asks
only that the thread runs, and nothing of the network, not even that peers take what they
are sent: its liveness properties except the state in which the sketch is in `write()` for
ever, at a socket whose peer keeps the connection (`WriteHangs`). `OutgoingClient`: the
thread runs, and the chip ends every attempt to connect, as its retries are bounded; the
sketch does not use its `Client` for ever without coming to its servers (strong fairness,
as it is the sketch's choice in every round). Peers need not take bytes here, either;
what is excepted is `ConnectHangs` and `RoomHangs`. `RxPath`: a call that has begun runs
on; nothing is asked of the network. `SocketApi`: calls and routine run on, the chip ends
every SEND with a flag or closes the connection, and the peer takes what it is sent.
`Dhcp`: the thread runs and the deadline of the call passes; `Lookup`: both clients are
polled and time goes by; nothing is asked of servers or network, and what is excepted is
the hang in a cut answer. The safety runs of `SocketPool` need none.

## 4. Findings

1. `pool_alias`: a TCP connection closed by the network frees its socket while its
   handle still holds the number; the next `init()` takes it, and two handles act on
   one socket (`ASocket.cpp:58`).
2. `tx_chunked`: the free size read by `write()` does not count bytes written and not
   sent, so a packet of several pieces can overrun the ring (`ASocket.cpp:219`).
3. `server_last_words`: bytes of a client that closes right after sending are never
   offered, and its socket is never freed (`AServer.cpp:69`, `:51`).
4. `month`: `date()` gives the month from 0. `*month++;//make it 1 based` moves the pointer
   and not the month (`Ntp.cpp:130`), and the example prints it as part of a date.

Seen while modelling, and part of the models, without a run of their own:

- `ASocket::write()` drops what exceeds the ring without a word: the length is cut to
  `SSIZE`, and nothing is returned, as `return len` is commented out (`ASocket.cpp:212-214`,
  `:231`). A sketch that writes more than 2048 bytes in one call loses the rest.
  `ImplementsStream` has the cut in its abstract specification.
- `ASocket::write()` waits for ever for room that a connected peer does not make
  (`ASocket.cpp:217-225`), and a server's write to one such client stops the sketch and all
  its servers.
- `sendto()` is documented to return "-1" when it fails (`utility/socket.c:292`; the comments
  of `recv()`, `:259`, and `recvfrom()`, `:385`, say the same). It returns 0, and as its
  result is unsigned -1 could only be 65535. `TypeOK` of `SocketApi` has the 0 of the code.
- `dumpName()` can go on for ever in a cut answer: it follows lengths through whatever the
  receive memory holds until it meets a zero or a pointer (`Dns.cpp:144-154`).
  `WholeAnswersEnd` says that it takes a cut or foreign answer, `QueryEnds` that nothing
  else holds a query up.
- `isSendCompleteUDP()` says yes as long as no flag is up, so also while the datagram is
  being sent (`ASocket.cpp:159`).
- `connect()` waits for ESTABLISHED or CLOSED. A peer that accepts and closes between
  two looks leaves the socket in CLOSE_WAIT and the loop running (`AClient.cpp:31`):
  `LoopGoesOn` excepts this and the wait in `write()`.
- `send()` without a connection leaves its loop, commands SEND all the same and waits
  for a flag (`utility/socket.c:209-233`); `CallsReturn` is about connections.
- `recvfrom()` does not look at the length it is given (`utility/socket.c:430`), and
  `recv()` does not wait for data, as its comment says.
- `date()` is wrong during the year after a leap year and for a few days around every
  new year: the leap day is taken off a year late, and days are counted modulo 365
  (`Ntp.cpp:112`, `:115`). `TimeRight` says where year and day are right, and excepts these.
- A late answer to an earlier query is taken for the present one's if the query has the
  same socket (`Dns.cpp:24`): `OwnOrLate` says that this is the worst.
- `Client::read()` returns what its local variable happens to hold if the connection
  breaks between its two looks at the socket (`AClient.cpp:61-65`).
- The length of a DHCP option is added once more after a pad or an end (`Dhcp.cpp:324`).
  Behind the end nothing is left to lose, but a pad between options costs what follows it.
  `Dhcp` assumes servers that put none there.

## 5. Proofs

`SocketPoolProofs`, for every `MaxSock` in 1..254, every set of handles and protocols:

- `TypeCorrect`: `TypeOK` is inductive by itself.
- `PoolInvariant`: `PoolInv` is `OwnerIffOpen` (a socket has an owner exactly while it
  is open), `ScanSound` (a scan that has chosen a socket has chosen a closed one, and
  it stays closed) and `FreeAhead` (what was closed when the scan began is closed
  still and ahead of the scan). Its heart is that nothing but an OPEN wakes a closed
  socket (`NetLeavesClosed`, `CommandKeepsOpen`).
- `InitTakesOnlyClosed`, `InitFailsHonestly`: the two action properties, from it.
- `NothingLeaks`, from the rule "reinit_closed": with `NoLeak` the induction needs that
  the handle whose scan runs owns nothing, as the scan moves its number.
- `UdpHandlesAreOwn`, for sketches with UDP sockets only, whatever rules they break: the
  `NoStaleHandle` that `pool_alias` refutes for TCP.
- `TcpAnswerTrue`, from the rule "await_send": SEND_OK is up only when the last SEND
  of the socket is over, or is one that was reported already.

`RegRead16Proofs`: `AnswerIsSound`, for bytes of any size and any register that only grows
during a call: the readings that agree are one value of it.

`DhcpProofs`, for all servers, addresses, pools and bounds:

- `LeaseIsTrue`, `RequestIsTrue`, `TypesHold`, from one induction. `Control` says what
  each place in the code knows of the state; `Learnt` that what waits in the buffer was
  sent by someone (`RxSent`), that the reply acted upon is of this transaction and is
  where the address came from (`ReplyHeard`), that a lease in hand was granted
  (`LeaseHeard`), that nobody is remembered who has not made an offer (`OfferFirst`), and
  that the chip has no address during a call. The types need it too: that a request
  carries an address and not zeros depends on what was heard.
- `ClientImplements` and from it `ClientKeeps`: the client that parses is the one that is
  told. Assumed are servers with addresses and configurations of their own, none of them
  all zeros, and an option of any other code between theirs. The parser's loop is a
  function from rounds to its variables (`ParseRuns`); a round that begins at an
  option takes in what it says and ends behind it (`ReadsOption`). So when it is through,
  the type is the reply's, each part of the configuration the server's or, in a refusal,
  what it was, and the identifier that of the first server heard, in any order of the
  options (`ParseReads`, `MessageReads`). Pads may be before all options or behind all of
  them; between two is where the code goes wrong.

`RxPathProofs`, for any number of channels and senders, any memory and unit, pointers of
any width whose range is a multiple of the ring:

- `LayoutIsSound`: the loop invariant adds to `LayoutSound` that the buffers end where the
  sizes add up to. `LayoutStays` has it while sockets are used.
- `RxTypes`, `NeverLosesPlace`, `InboundImplemented`, from `RxInv`: the open socket's
  ring is one of the layout (`Sizes`, `Opened`), what is unread or read and not given
  free fits into it (`Pointers`), no call has been told of more than is there (`Calls`),
  and behind the `left` bytes of the datagram begun there are whole datagrams
  (`Placed`). Each action is described once by what it does to `Queue`, the unread bytes
  in order: only arrivals change cells of the ring, and they write behind the unread
  ones (`ArriveRing`), since places less than a round apart are different cells
  (`PlacesDiffer`); reading takes from the front, in one run or two (`ReadIs`). From
  there on framing is about sequences (`DatagramsArrive`, `DatagramsTake`) and not about
  rings. `Placed` says by a set of places that headers follow one another, where `Whole`
  of the model is recursive; that they agree is shown by the smallest place at which
  they would not (`WholeFromQueue`).

`TxPathProofs`, for a ring, pointers and bytes of any size, from `KeepsRule`:

- `RingHolds`, `TxTypes`, from `TxInv`: what is read of the free size was there at one
  moment of the reading or is zero, by the lemmas of `RegRead16Proofs`; between the poll
  of the free size and the copy the size read is still there, as the chip only sends in
  the meantime, and the rule says it covers the packet. `Ahead` and `Moved` carry
  distances over the wrap.
- `SizeReadIsSound`: whatever happens to the ring is a move of the register that the
  reading loop allows for, as the ring is never overrun.
- `StreamImplemented`: `TxPath` implements `PacketStream`, every step a step of the
  stream or none. As the wrap is a multiple of the size, a pointer and the one before it
  with their distance lead to the same cell (`SameCell`); a copy, in one run or two,
  puts the bytes of its call that do not exceed the ring behind the packet and touches
  no cell between `TX_RD` and there (`CopyAppends`), as `RingHolds` leaves room for it;
  `send()` only moves the border between packet and queue. Division with remainder is
  proved from its definition (`Divided`, `OneRemainder`).

`ServerProofs`, for any number of servers and sockets:

- `TableInvariant` and from it `ListenersSingle`, `TableIsTrue`, `ServerTypes`. `NotSeen`
  is why a server never begins a second listener: where `accept()` has seen none so far,
  there is none so far, because only this thread makes a socket listen. `InSetup` says the
  same of `setup()`. The invariant leaves out which places the thread may be in, so that
  the composition can use its lemmas.
- `CleanMeansSound`, with a `Client` beside the servers. While `clean` holds, `TableInv`
  holds in the composition: steps of servers and network by the lemmas above, and what
  the `Client` does to the pool is one of: nothing, a socket without an entry, or its own
  socket closed.

`SocketApiProofs`, for any number of sockets, in both builds:

- `FlagsAreTrue`, `ApiTypes`, from `ApiInv`. A SEND is under way only while a call
  waits for it, so SEND_OK, in `Sn_IR`, in `I_STATUS` or in the hands of `putISR`, is about
  that call (`OkIsOwn`). TIMEOUT is weaker, because a broken connection raises it, too
  (`TimeoutIsOwn` is about UDP): the flags cleared by `close()` are what keeps it from the
  next life of the socket.

`LookupProofs`, for any number of sockets and queries, whatever servers answer:

- `SocketsComeBack`, `AnswersAreOwnOrLate`, from `LookupInv`: a query that waits was sent
  from the port of the socket its client has (`SentFrom`), what waits in a socket was sent
  to that port (`Arrived`), a socket has one holder (`NoSocketLeft`), and a client that is
  done has forgotten its socket (`Forgets`). So the query an answer belongs to and the one
  it is read for have one socket, and if both wait, one client. That a scan for a free
  socket finds the lowest is well-foundedness of the naturals.
- `AnswerIsRight`, `TimeIsRight`, from `AnswerInv`: what a server has said is a reply to
  the name that is looked up, and never changes (`Replies`), what waits in a socket has
  been said (`Said`), and what a client holds is what `finished()` makes of what was said,
  written into some memory (`Reads`). The rest is about the loops.
  - Answers: pieces joined lie one behind the other (`FlattenIs`), so every part of a message
    has its place (`AnswerPlaced`); `dumpName()` leaves a name behind its root label, or
    behind the second byte of a pointer (`NameDumped`); a record that has no address is
    passed, and the first that has one ends the loop (`RecordRead`, `AnswersFind`); with
    fewer records than make a count negative, that is the answer (`ParseUnderstands`).
  - The question: between two dots the loop moves on a character a round, and at a dot it
    writes a label with its length (`LabelWritten`, `NameWritten`).
  - `HangsInScrapsOnly`: where every name has a place, `dumpName()` leaves off, for records of
    any number.
  - Dates (years and days): the day of the year is right where the leap days taken off
    are those that have been (`DaysCounted`), the loop over the months ends in the month
    the day is in (`MonthLoopEnds`), and so does the calendar (`CalendarIs`).
- `MonthIsBehind`: on all those days `date()` gives the month before the calendar's, which is
  what `month` finds.

Recursion. `QName`, `dumpName`, `Answers` and the months are functions that call themselves
further on. That there is such a function is `Recursive`, for loops in which a measure goes
down (`Descends`); what it comes to is shown by `Descent` and `UpTo`, induction with a set in
the place of a predicate, as the provers take no lemma with an operator for a parameter.

Assumed throughout are only the named assumptions of the modules on their constants: sets
and bounds that are not empty, rings that divide the range of their pointers, servers and
names that can be told apart. The rules a sketch must keep are hypotheses of the theorems
that need them, or guards of the specification (`RxPath`).

Only model-checked: what must happen at last (`Terminates`, `WriteReturns`,
`BeginRecvReturns`, `ListensAgain`, `FinishedIsFreed`, `LoopGoesOn`, `ServersStillListen`,
`CallsReturn`, `Returns`, `QueryEnds`). It rests on fairness, which is about what is
enabled, and that is out of the prover's reach.

## 6. Plan

1. (done) The pool, the size register, the transmit ring, the server, the DHCP client.
2. (done) `BufferMap`, `RxPath`, `OutgoingClient`, `SocketApi`, `Lookup`,
   `DhcpClient`.
3. (done) Proofs: transmit ring and its refinement, table and listeners alone and beside
   a `Client`, the flags of the legacy API, the layout of buffers, the sockets of lookups.
4. (done) Proofs about data: framing and the refinement of `InboundStream`, the DHCP
   parser, what is read out of answers, dates.
5. Several `Client`s at a time, and a server's table beside them.

## 7. Not modelled

- PPPoE in `utility/w5100.c`: compiled out, and the `md5.h` it includes is not in the
  repository.
- The setters of addresses and timeouts: they store bytes nothing here depends on.
- SPI bus cycles (`utility/spi.h`): a byte access is atomic.
- Conversions of strings and byte order: nearly all of `utility/sockutil.c` and `util.c`
  is disabled by `#if 0`; the rest, and `write_encode`, only format.
- `recv()` on a socket that is closed meanwhile: it has no test for that, as
  `ASocket::read()` has.
- IPRAW and MACRAW sockets, with their headers in `recvfrom()`; messages of the
  interrupt routine about address conflicts and unreachable ports, which are only
  printed; the flags CON and DISCON, which nobody waits for.
- Source ports and addresses in `SocketApi`, so the wrap of `local_port`, too.
- DHCP messages with pads between options, and malformed ones: shorter than the 240 bytes
  before the options (`Dhcp.cpp:266`), or with lengths beyond the message.
