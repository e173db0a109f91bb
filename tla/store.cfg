SPECIFICATION Spec
CONSTANTS
  Faults = {"open", "write", "rename", "exists", "map"}
  Limits = {0, 3, 4}
  Counts = {1, 2}
  MaxOffered = 6
INVARIANTS
  TypeOK
  NothingSkipped
  OneVisibleCopy
  NothingLeftInTmp
PROPERTIES
  NoHole
  KeepsMaildirPromise
CHECK_DEADLOCK FALSE
