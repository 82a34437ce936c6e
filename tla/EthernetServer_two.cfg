CONSTANTS
  MaxSock = 3
  NumServers = 2
  MaxRx = 1
SPECIFICATION Spec
INVARIANTS
  TypeOK
  OneListener
  TableTrue
PROPERTIES
  ListensAgain
  FinishedIsFreed
