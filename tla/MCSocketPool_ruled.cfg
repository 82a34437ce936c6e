CONSTANTS
  h1 = h1
  h2 = h2
  h3 = h3
  NoHandle = NoHandle
  MaxSock = 2
  Handle <- ThreeHandles
  Protocols <- AllProtocols
  CallerRules <- AllRules
SPECIFICATION Spec
SYMMETRY HandleSymmetry
INVARIANTS
  TypeOK
  NoLeak
PROPERTIES
  OpenOnlyClosed
  InitFailsOnlyWhenFull
  TcpDoneIsDone
