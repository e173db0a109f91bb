SPECIFICATION FairSpec
CONSTANTS
  NameServers = 2
  Kinds = {"stream", "dgram"}
  Ids = {1, 2}
  Questions = {"a", "b"}
  MaxAsked = 3
  MaxSlips = 2
INVARIANTS
  EveryServerIsTried
  AnswerMatches
  BalanceIsKept
PROPERTIES
  QueryEnds
CHECK_DEADLOCK FALSE
