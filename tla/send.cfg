SPECIFICATION FairSpec
CONSTANTS
  Extensions = {"STARTTLS", "PIPELINING", "CHUNKING"}
  UseEsmtp = TRUE
  MaxMx = 2
  MaxCalls = 4
  MaxChunks = 2
INVARIANTS
  MessagesAgree
  OutOfStepHasNoMail
PROPERTIES
  CallReturns
CHECK_DEADLOCK FALSE
