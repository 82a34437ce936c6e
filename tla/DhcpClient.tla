----------------------------- MODULE DhcpClient -----------------------------
(***************************************************************************)
(* The DHCP client with its parser.  In Dhcp the client hears what a       *)
(* server says; here a reply is the bytes of its options, in any order,    *)
(* and the client has what Parse finds in them.  That makes no             *)
(* difference: ImplementsDhcp.                                             *)
(*                                                                         *)
(* The addresses of servers and their configurations are bytes here.  The  *)
(* client's variables stay those of Dhcp: a server for its address or its  *)
(* configuration, Garbled for bytes that are no server's.                  *)
(***************************************************************************)
EXTENDS Dhcp, DhcpOptions

CONSTANTS
  Host,         \* the address of each server
  Config,       \* the addresses each configures
  Other,        \* an option the client passes over
  Garbled       \* what is no server

\* The options the client looks at.
Looked == Configured \cup {dhcpMessageType, dhcpServerIdentifier}

ASSUME ClientAssumption ==
  /\ Host \in [Server -> [1 .. AddressLength -> 0 .. 255]]
  /\ Config \in [Server -> [Configured -> [1 .. AddressLength -> 0 .. 255]]]
  /\ \A s \in Server : Host[s] # NoAddress /\ Config[s] # [c \in Configured |-> NoAddress]
  /\ \A s, t \in Server : s # t => Host[s] # Host[t] /\ Config[s] # Config[t]
  /\ Other \in [code : 0 .. 255 \ (Looked \cup Single), data : Seq(0 .. 255)]
  /\ Len(Other.data) <= 255
  /\ Garbled \notin Server \cup {None}

-----------------------------------------------------------------------------
(* Servers. *)

Codes == [OFFER |-> 2, ACK |-> 5, NAK |-> 6]

\* The options of a reply; a refusal configures nothing.
OptionsOf(t, s) ==
  { [code |-> dhcpMessageType, data |-> << Codes[t] >>],
    [code |-> dhcpServerIdentifier, data |-> Host[s]], Other }
  \cup IF t = "NAK" THEN {}
       ELSE { [code |-> c, data |-> Config[s][c]] : c \in Configured }

Pad == [code |-> padOption, data |-> << >>]
End == [code |-> endOption, data |-> << >>]

\* They come in any order, to the end of the message, or between pads.
Messages(t, s) ==
  LET orders == SetToSeqs(OptionsOf(t, s))
      padded == { << Pad >> \o o \o << End, Pad, Pad >> : o \in orders }
  IN { FlattenSeq([k \in DOMAIN o |-> Encode(o[k])]) : o \in orders \cup padded }

-----------------------------------------------------------------------------
(* What the client hears. *)

ConfBytes(c) == IF c = None THEN [o \in Configured |-> NoAddress] ELSE Config[c]
HostBytes(s) == IF s = None THEN NoAddress ELSE Host[s]

\* Which of these do the bytes stand for?
Known(bytes, BytesOf(_)) ==
  IF \E s \in Server \cup {None} : BytesOf(s) = bytes
  THEN CHOOSE s \in Server \cup {None} : BytesOf(s) = bytes
  ELSE Garbled

KnownType(b) == IF \E t \in DOMAIN Codes : Codes[t] = b
                THEN CHOOSE t \in DOMAIN Codes : Codes[t] = b ELSE "none"

\* All that can be heard in a reply of a server, by a client that remembers this much.
Heard ==
  [t \in DOMAIN Codes |-> [s \in Server |->
     [c \in Server \cup {None} |-> [i \in Server \cup {None} |->
        { [type |-> KnownType(f.type), conf |-> Known(f.conf, ConfBytes),
           serverIp |-> Known(f.serverIp, HostBytes)] :
          f \in { Parse(b, Host[s], ConfBytes(c), HostBytes(i)) : b \in Messages(t, s) } }]]]]

\* ReadOurs of Dhcp, with the options read out of the reply.
ReadOurReply ==
  /\ Waiting /\ rx # << >> /\ ~torn
  /\ Ours(Head(rx))
  /\ localIp' = Head(rx).ip
  /\ \E h \in Heard[Head(rx).type][Head(rx).from][conf][serverIp] :
        type' = h.type /\ conf' = h.conf /\ serverIp' = h.serverIp
  /\ Flush
  /\ at' = "act"
  /\ UNCHANGED << state, xid, expired, chip, msgs >>

RunClient == \/ Discover \/ HandleOffer \/ HandleAck \/ HandleNak \/ HandleOther
             \/ Test \/ Finish
             \/ ReplyTimeout \/ ReadStray \/ ReadForeign \/ ReadOurReply

NextClient == BeginWithDHCP \/ RunClient \/ Serve \/ Arrive \/ Expire

SpecClient == Init /\ [][NextClient]_vars /\ WF_vars(RunClient) /\ WF_vars(Expire)

-----------------------------------------------------------------------------
(* Properties. *)

\* Whatever the order of a server's options, and whatever their data look like, the client
\* is left with what the server meant: its type, its configuration and no part of another,
\* and the identifier of the first server heard (Dhcp.cpp:272-326).  What is proved of
\* Dhcp therefore holds of the client that parses.
ImplementsDhcp == Init /\ [][Next]_vars
=============================================================================
