CONSTANTS
  h1 = h1
  h2 = h2
  h3 = h3
  NoHandle = NoHandle
  MaxSock = 2
  Handle <- TwoHandles
  Protocols <- TcpOnly
  CallerRules <- AllRules
SPECIFICATION Spec
SYMMETRY HandleSymmetry
INVARIANTS
  NoStaleHandle
