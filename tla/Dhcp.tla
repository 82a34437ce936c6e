-------------------------------- MODULE Dhcp --------------------------------
(***************************************************************************)
(* The DHCP client: beginWithDHCP() of Ethernet/Dhcp.cpp with              *)
(* send_DHCP_MESSAGE() and parseDHCPResponse().                            *)
(*                                                                         *)
(* The client broadcasts to any number of servers, over a network that     *)
(* loses, delays, repeats and reorders messages.  msgs is every message    *)
(* ever sent between the client and the servers; a copy of any of them may *)
(* arrive at any time.  Datagrams for other clients arrive as well.        *)
(*                                                                         *)
(* A datagram is one element of the receive buffer, since it arrives and   *)
(* is counted whole.  The one case in which the client leaves the middle   *)
(* of one behind is "torn".  A torn datagram has zeros (its padding) where *)
(* the next call looks for a port.                                         *)
(*                                                                         *)
(* Assumed of servers: they send the options the client asks for, with no  *)
(* padding between them, and datagrams to the client's port are no shorter *)
(* than a BOOTP message.  "conf" stands for what the options configure     *)
(* (mask, gateway, DNS server), by the server that sent it.                *)
(***************************************************************************)
EXTENDS Integers, Sequences

CONSTANTS
  Server,       \* the DHCP servers
  Address,      \* the addresses they lease
  Pool,         \* those of each server
  None,         \* 0.0.0.0
  MaxXid,       \* bound: no transaction begins after this many
  MaxRx         \* bound: datagrams in the receive buffer

ASSUME DhcpAssumption ==
  /\ None \notin Server \cup Address
  /\ Pool \in [Server -> SUBSET Address]
  /\ MaxXid \in Nat \ {0}
  /\ MaxRx \in Nat \ {0}

VARIABLES
  at,           \* where the thread is
  state,        \* dhcp_state
  type,         \* messageType of the last parse
  xid,          \* _dhcpTransactionId
  localIp,      \* _dhcpLocalIp
  serverIp,     \* _dhcpDhcpServerIp
  conf,         \* _dhcpSubnetMask, _dhcpGatewayIp, _dhcpDnsServerIp
  expired,      \* has the timeout of the call run out?
  chip,         \* SIPR, GAR and SUBR of the chip
  rx,           \* the receive buffer
  torn,         \* has the head of rx been read in part?
  msgs          \* the messages ever sent

client == << at, state, type, xid, localIp, serverIp, conf, chip >>
vars == << at, state, type, xid, localIp, serverIp, conf, expired, chip, rx, torn, msgs >>

Xid == 0 .. MaxXid + 1

Reply == [type : {"OFFER", "ACK", "NAK"}, xid : Xid, from : Server, ip : Address]

Message == Reply \cup [type : {"DISCOVER"}, xid : Xid]
                 \cup [type : {"REQUEST"}, xid : Xid, ip : Address, server : Server]

\* A reply to another client, and a datagram that is no reply of a DHCP server.
Foreign == [type |-> "FOREIGN"]
Stray == [type |-> "STRAY"]

TypeOK ==
  /\ at \in {"idle", "loop", "act", "test", "end"}
  /\ state \in {"START", "DISCOVER", "REQUEST", "LEASED"}
  /\ type \in {"none", "timeout", "OFFER", "ACK", "NAK"}
  /\ xid \in Xid
  /\ localIp \in Address \cup {None}
  /\ serverIp \in Server \cup {None}
  /\ conf \in Server \cup {None}
  /\ expired \in BOOLEAN
  /\ chip \in [ip : Address \cup {None}, conf : Server \cup {None}]
  /\ rx \in Seq(Reply \cup {Foreign, Stray})
  /\ torn \in BOOLEAN
  /\ msgs \subseteq Message

Unset == [ip |-> None, conf |-> None]

Init ==
  /\ at = "idle" /\ state = "START" /\ type = "none"
  /\ xid = 0
  /\ localIp = None /\ serverIp = None /\ conf = None
  /\ expired = FALSE
  /\ chip = Unset
  /\ rx = << >> /\ torn = FALSE
  /\ msgs = {}

-----------------------------------------------------------------------------
(* beginWithDHCP(). *)

\* The call begins: everything learnt is forgotten, the chip is set up anew, without an
\* address, and a UDP socket is opened (which cannot fail, since the reset of the chip
\* has closed all sockets).
BeginWithDHCP ==
  /\ at = "idle" /\ xid < MaxXid
  /\ at' = "loop"
  /\ localIp' = None /\ serverIp' = None /\ conf' = None
  /\ chip' = Unset
  /\ UNCHANGED << state, type, xid, expired, rx, torn, msgs >>

\* send_DHCP_MESSAGE(): built from what the client knows now, and sent.
SendMessage(m) == msgs' = msgs \cup {m}

\* START: a new transaction.
Discover ==
  /\ at = "loop" /\ state = "START"
  /\ xid' = xid + 1
  /\ SendMessage([type |-> "DISCOVER", xid |-> xid'])
  /\ state' = "DISCOVER"
  /\ at' = "test"
  /\ UNCHANGED << type, localIp, serverIp, conf, expired, chip, rx, torn >>

\* DISCOVER, REQUEST: parseDHCPResponse() is called, and waits for a reply.
Waiting == at = "loop" /\ state \in {"DISCOVER", "REQUEST"}

HandleOffer ==
  /\ at = "act" /\ state = "DISCOVER" /\ type = "OFFER"
  /\ SendMessage([type |-> "REQUEST", xid |-> xid, ip |-> localIp, server |-> serverIp])
  /\ state' = "REQUEST"
  /\ at' = "test"
  /\ UNCHANGED << type, xid, localIp, serverIp, conf, expired, chip, rx, torn >>

HandleAck ==
  /\ at = "act" /\ state = "REQUEST" /\ type = "ACK"
  /\ state' = "LEASED"
  /\ at' = "test"
  /\ UNCHANGED << type, xid, localIp, serverIp, conf, expired, chip, rx, torn, msgs >>

\* Bound: time runs out before the transactions do.
Restartable == xid < MaxXid \/ expired

HandleNak ==
  /\ at = "act" /\ state = "REQUEST" /\ type = "NAK"
  /\ Restartable
  /\ state' = "START"
  /\ at' = "test"
  /\ UNCHANGED << type, xid, localIp, serverIp, conf, expired, chip, rx, torn, msgs >>

\* A message of a type the state does not expect.
HandleOther ==
  /\ at = "act"
  /\ << state, type >> \notin { << "DISCOVER", "OFFER" >>, << "REQUEST", "ACK" >>,
                                << "REQUEST", "NAK" >> }
  /\ at' = "test"
  /\ UNCHANGED << state, type, xid, localIp, serverIp, conf, expired, chip, rx, torn, msgs >>

\* Mutant: the answer "timeout" is not forgotten.
Test_KeepType ==
  /\ at = "test"
  /\ state' = IF type = "timeout" THEN "START" ELSE state
  /\ at' = IF state' = "LEASED" \/ expired THEN "end" ELSE "loop"
  /\ UNCHANGED << type, xid, localIp, serverIp, conf, expired, chip, rx, torn, msgs >>

\* Mutant: the time is looked at only when a transaction has come to nothing.
Test_AtStart ==
  /\ at = "test"
  /\ state' = IF type = "timeout" THEN "START" ELSE state
  /\ type' = IF type = "timeout" THEN "none" ELSE type
  /\ at' = IF state' = "LEASED" \/ (expired /\ state' = "START") THEN "end" ELSE "loop"
  /\ UNCHANGED << xid, localIp, serverIp, conf, expired, chip, rx, torn, msgs >>

\* The end of a round: no reply in time starts over; leased or out of time ends the loop.
Test ==
  /\ at = "test"
  /\ state' = IF type = "timeout" THEN "START" ELSE state
  /\ type' = IF type = "timeout" THEN "none" ELSE type
  /\ at' = IF state' = "LEASED" \/ expired THEN "end" ELSE "loop"
  /\ UNCHANGED << xid, localIp, serverIp, conf, expired, chip, rx, torn, msgs >>

\* Mutant: the address is set also if there is no lease.
Finish_Always ==
  /\ at = "end"
  /\ xid' = xid + 1
  /\ chip' = [ip |-> localIp, conf |-> conf]
  /\ rx' = << >> /\ torn' = FALSE
  /\ at' = "idle" /\ state' = "START" /\ type' = "none" /\ expired' = FALSE
  /\ UNCHANGED << localIp, serverIp, conf, msgs >>

\* The socket is closed, the chip gets the address if there is a lease, and the variables
\* of the call are gone.
Finish ==
  /\ at = "end"
  /\ xid' = xid + 1
  /\ chip' = IF state = "LEASED" THEN [ip |-> localIp, conf |-> conf] ELSE chip
  /\ rx' = << >> /\ torn' = FALSE
  /\ at' = "idle" /\ state' = "START" /\ type' = "none" /\ expired' = FALSE
  /\ UNCHANGED << localIp, serverIp, conf, msgs >>

-----------------------------------------------------------------------------
(* parseDHCPResponse(). *)

\* Nothing came for responseTimeout.
ReplyTimeout ==
  /\ Waiting /\ rx = << >>
  /\ Restartable
  /\ type' = "timeout"
  /\ at' = "test"
  /\ UNCHANGED << state, xid, localIp, serverIp, conf, expired, chip, rx, torn, msgs >>

\* At the end bytes are read until none is left.  What arrives meanwhile goes with them:
\* it might as well have been lost.
Flush == rx' = << >> /\ torn' = FALSE

\* What is read as a header comes from no server's port.
ReadStray ==
  /\ Waiting /\ rx # << >>
  /\ torn \/ Head(rx) = Stray
  /\ type' = "none"
  /\ Flush
  /\ at' = "act"
  /\ UNCHANGED << state, xid, localIp, serverIp, conf, expired, chip, msgs >>

\* Mutant: any transaction will do.
Ours_AnyXid(m) == m \notin {Foreign, Stray}

\* Is the reply for this client and this transaction?
Ours(m) == m \notin {Foreign, Stray} /\ m.xid = xid

\* If not, parse returns at once, and leaves the rest of it in the buffer.
ReadForeign ==
  /\ Waiting /\ rx # << >> /\ ~torn
  /\ Head(rx) # Stray /\ ~Ours(Head(rx))
  /\ type' = "none"
  /\ torn' = TRUE
  /\ at' = "act"
  /\ UNCHANGED << state, xid, localIp, serverIp, conf, expired, chip, rx, msgs >>

\* The address is taken from any reply, the server identifier from the first server
\* heard, the configuration from the replies that carry one.
ReadOurs ==
  /\ Waiting /\ rx # << >> /\ ~torn
  /\ Ours(Head(rx))
  /\ LET m == Head(rx) IN
       /\ localIp' = m.ip
       /\ type' = m.type
       /\ serverIp' = IF serverIp = None THEN m.from ELSE serverIp
       /\ conf' = IF m.type = "NAK" THEN conf ELSE m.from
  /\ Flush
  /\ at' = "act"
  /\ UNCHANGED << state, xid, expired, chip, msgs >>

-----------------------------------------------------------------------------
(* The servers and the network. *)

\* A server offers one address in a transaction.
Offer(s) ==
  \E d \in msgs, ip \in Pool[s] :
    /\ d.type = "DISCOVER"
    /\ ~ \E o \in msgs : o.type = "OFFER" /\ o.xid = d.xid /\ o.from = s
    /\ SendMessage([type |-> "OFFER", xid |-> d.xid, from |-> s, ip |-> ip])

\* It leases the address it is asked for, if it can, or refuses, in answer to a request
\* that names it.
Answer(s) ==
  \E r \in msgs, t \in {"ACK", "NAK"} :
    /\ r.type = "REQUEST" /\ r.server = s
    /\ t = "ACK" => r.ip \in Pool[s]
    /\ ~ \E a \in msgs : a.type \in {"ACK", "NAK"} /\ a.xid = r.xid /\ a.from = s
    /\ SendMessage([type |-> t, xid |-> r.xid, from |-> s, ip |-> r.ip])

Serve == /\ \E s \in Server : Offer(s) \/ Answer(s)
         /\ UNCHANGED << client, expired, rx, torn >>

Arrive ==
  /\ at # "idle" /\ Len(rx) < MaxRx
  /\ \E m \in (msgs \cap Reply) \cup {Foreign, Stray} : rx' = Append(rx, m)
  /\ UNCHANGED << client, expired, torn, msgs >>

\* The timeout of the call runs out.
Expire ==
  /\ at # "idle" /\ ~expired
  /\ expired' = TRUE
  /\ UNCHANGED << client, rx, torn, msgs >>

Run == \/ Discover \/ HandleOffer \/ HandleAck \/ HandleNak \/ HandleOther
       \/ Test \/ Finish
       \/ ReplyTimeout \/ ReadStray \/ ReadForeign \/ ReadOurs

Next == BeginWithDHCP \/ Run \/ Serve \/ Arrive \/ Expire

\* The thread runs and time goes by; nothing is asked of servers and network.
Spec == Init /\ [][Next]_vars /\ WF_vars(Run) /\ WF_vars(Expire)

-----------------------------------------------------------------------------
(* Properties. *)

\* The chip uses an address only if a server has leased it to this client in the last
\* transaction, and the configuration that came with that lease; whatever else arrives,
\* late, twice, or for others (Dhcp.cpp:65-72, 90-95, 253-259).
LeaseTrue ==
  chip.ip # None => \E a \in msgs : /\ a.type = "ACK" /\ a.xid + 1 = xid
                                    /\ a.ip = chip.ip /\ a.from = chip.conf

\* The client asks only for what it was offered in the same transaction, and names a
\* server that has offered something (Dhcp.cpp:178-196, 310-317).  It need not be the
\* same server: the identifier stays that of the first server heard in the call.
RequestTrue ==
  \A r \in msgs : r.type = "REQUEST" =>
    /\ \E o \in msgs : o.type = "OFFER" /\ o.xid = r.xid /\ o.ip = r.ip
    /\ \E o \in msgs : o.type = "OFFER" /\ o.from = r.server

\* beginWithDHCP() returns, also if foreign datagrams keep the client busy
\* (Dhcp.cpp:83, 232-236).
Returns == (at # "idle") ~> (at = "idle")
=============================================================================
