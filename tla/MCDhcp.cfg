CONSTANTS
  s1 = s1
  s2 = s2
  a1 = a1
  a2 = a2
  None = None
  Garbled = Garbled
  Server <- TwoServers
  Address <- TwoAddresses
  Pool <- OwnAddress
  Host <- Hosts
  Config <- Configs
  Other <- LeaseTime
  MaxXid = 3
  MaxRx = 1
SPECIFICATION SpecClient
INVARIANTS
  TypeOK
  LeaseTrue
  RequestTrue
PROPERTIES
  Returns
  ImplementsDhcp
\* After the last call within the bound the client is idle for good.
CHECK_DEADLOCK FALSE
