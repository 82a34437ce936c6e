CONSTANTS
  Base = 2
  Size = 3
  Wrap = 6
  Data = {d1, d2}
  MaxLen = 4
  KeepsRule = TRUE
SPECIFICATION Spec
INVARIANTS
  TypeOK
  NoOverrun
PROPERTIES
  AnswerSound
  Terminates
  ImplementsStream
  WriteReturns
