---------------------------- MODULE DhcpOptions ----------------------------
(***************************************************************************)
(* The loop of parseDHCPResponse() (Dhcp.cpp) that reads the options of a  *)
(* reply: code, length and data, one after the other, and pads and an end  *)
(* that have neither length nor data.                                      *)
(***************************************************************************)
EXTENDS Integers, SequencesExt

padOption == 0
subnetMask == 1
routersOnSubnet == 3
dns == 6
dhcpMessageType == 53
dhcpServerIdentifier == 54
endOption == 255

\* The options whose addresses are the configuration.
Configured == { subnetMask, routersOnSubnet, dns }
Single == { padOption, endOption }
AddressLength == 4
NoAddress == << 0, 0, 0, 0 >>

\* An option as a server sends it.
Encode(o) == IF o.code \in Single THEN << o.code >> ELSE << o.code, Len(o.data) >> \o o.data

\* A byte of the message.  Nothing is known of what is behind it.
Byte(buffer, k) == IF k \in DOMAIN buffer THEN buffer[k] ELSE padOption

\* memcpy() of an address, whatever length the option gives.
AddressAt(buffer, k) == [j \in 1 .. AddressLength |-> Byte(buffer, k + j - 1)]

\* Mutant: the last server heard is remembered.
TakesServer_Any(remembered, svr_addr) == TRUE

\* The first server heard is remembered, and then what it says of itself.
TakesServer(remembered, svr_addr) == remembered \in { NoAddress, svr_addr }

\* One option.  What has a length sets opt_len, and what has none is still followed by a
\* step of opt_len, the length of the option before.
ReadOption(buffer, svr_addr, found) ==
  LET code == buffer[found.p]
      data == found.p + 2
      len == Byte(buffer, found.p + 1)
      passed == [found EXCEPT !.opt_len = len, !.p = data + len]
  IN CASE code \in Single -> [found EXCEPT !.p = @ + 1 + found.opt_len]
       [] code = dhcpMessageType -> [passed EXCEPT !.type = Byte(buffer, data)]
       [] code \in Configured -> [passed EXCEPT !.conf[code] = AddressAt(buffer, data)]
       [] code = dhcpServerIdentifier /\ TakesServer(found.serverIp, svr_addr) ->
            [passed EXCEPT !.serverIp = AddressAt(buffer, data)]
       [] OTHER -> passed

\* The loop: what a message leaves a client with that remembers a configuration and a
\* server.  A round passes at least one byte; rounds behind the message change nothing.
Parse(buffer, svr_addr, config, server) ==
  LET start == [p |-> 1, opt_len |-> 0, type |-> 0, conf |-> config, serverIp |-> server]
      found[round \in 0 .. Len(buffer)] ==
        IF round = 0 THEN start
        ELSE LET so_far == found[round - 1]
             IN IF so_far.p <= Len(buffer) THEN ReadOption(buffer, svr_addr, so_far)
                ELSE so_far
  IN found[Len(buffer)]
=============================================================================
