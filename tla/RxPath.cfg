CONSTANTS
  NumChan = 2
  Unit = 1
  Total = 9
  First = 1
  Wrap = 16
  Header = 2
  Data = {d1, d2}
  Sender = {p1}
  Junk = junk
  MaxData = 2
  MaxFill = 6
SPECIFICATION Spec
INVARIANTS
  TypeOK
  LayoutSound
  Framed
PROPERTIES
  ImplementsStream
  BeginRecvReturns
