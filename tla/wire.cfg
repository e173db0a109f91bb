SPECIFICATION FairSpec
CONSTANTS
  ReadTimeout = 2
  WriteTimeout = 1
  TlsTimeout = 1
  Limit = 2
  Requests = 2
  Room = 1
  MaxOdd = 2
  MaxHeard = 4
INVARIANTS
  WaitsWithNothingUnsaid
  HeardInOrder
  CallsAreBounded
PROPERTIES
  RepliesAreHeard
CHECK_DEADLOCK FALSE
