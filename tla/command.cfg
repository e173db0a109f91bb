SPECIFICATION ContextSpec
CONSTANTS
  Locals = {"a", "b"}
  Domains = {"x"}
  Keywords = {"SIZE", "BODY"}
  Values = {"1"}
  Numbers = {7, 8, 17}
  MaxSize = 7
  MaxParams = 2
INVARIANTS
  AsWritten
CHECK_DEADLOCK FALSE
