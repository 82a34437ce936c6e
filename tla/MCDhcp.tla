------------------------------- MODULE MCDhcp -------------------------------
(***************************************************************************)
(* DhcpClient for TLC: two servers, each with an address to lease.  The    *)
(* bytes look like codes and lengths of options, so a parser that loses    *)
(* its place finds something to read.                                      *)
(***************************************************************************)
EXTENDS DhcpClient, TLC

CONSTANTS s1, s2, a1, a2

TwoServers == {s1, s2}
TwoAddresses == {a1, a2}
OwnAddress == s1 :> {a1} @@ s2 :> {a2}

Hosts == s1 :> << 54, 4, 1, 6 >> @@ s2 :> << 10, 53, 1, 5 >>

Configs ==
  s1 :> (subnetMask :> << 255, 255, 1, 0 >>
         @@ routersOnSubnet :> << 54, 4, 1, 1 >> @@ dns :> << 3, 4, 0, 255 >>)
  @@ s2 :> (subnetMask :> << 255, 255, 0, 0 >>
            @@ routersOnSubnet :> << 6, 53, 1, 2 >> @@ dns :> << 3, 4, 0, 254 >>)

LeaseTime == [code |-> 51, data |-> << 53, 1, 6, 54 >>]
=============================================================================
