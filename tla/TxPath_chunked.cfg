CONSTANTS
  Base = 3
  Size = 4
  Wrap = 8
  Data = {d1, d2}
  MaxLen = 3
  KeepsRule = FALSE
SPECIFICATION Spec
INVARIANT
  NoOverrun
