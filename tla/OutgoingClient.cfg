CONSTANTS
  MaxSock = 3
  NumServers = 1
  MaxRx = 1
SPECIFICATION OutSpec
INVARIANTS
  CleanIsSound
PROPERTIES
  LoopGoesOn
  ServersStillListen
