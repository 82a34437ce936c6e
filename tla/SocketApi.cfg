CONSTANTS
  MaxSock = 2
SPECIFICATION Spec
INVARIANTS
  TypeOK
  FlagsTrue
PROPERTIES
  CallsReturn
