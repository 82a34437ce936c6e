CONSTANTS
  MaxSock = 2
  NumServers = 1
  MaxRx = 1
SPECIFICATION Spec
PROPERTY
  LastWordsAreRead
