SPECIFICATION FairSpec
CONSTANTS
  Faults = {"open", "write", "rename", "exists"}
  Extensions = {"STARTTLS", "PIPELINING", "CHUNKING", "AUTH LOGIN"}
  Toggled = {"save", "noop", "auth", "bare_lf", "nosend", "pipe", "require_tls", "force_smtputf8", "pipeline_quit"}
  Size = 2
  MaxHosts = 2
INVARIANTS
  TakenOnce
  SaysWhatHappened
PROPERTIES
  Ends
CHECK_DEADLOCK FALSE
