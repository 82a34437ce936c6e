CONSTANTS
  Half = 4
  Pointer = 6
  Rcodes = 4
  Dot = 5
  MaxSock = 2
  MaxQuery = 2
  MaxQueue = 2
  Names <- MCNames
  DnsReplies <- MCDnsReplies
  Cuts = {4}
  Time = 6
  Years <- MCYears
  Rings <- MCRings
SPECIFICATION Spec
INVARIANTS
  NoSocketLeft
  AnswerRight
  TimeRight
  WholeAnswersEnd
PROPERTIES
  OwnOrLate
  QueryEnds
