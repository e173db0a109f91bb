CONSTANTS
  Texts <- MCTexts
  Incoming <- MCIncoming
  Servers = {"us", "them"}
  Statuses = {"none", "pass", "unknown"}
SPECIFICATION Spec
INVARIANTS
  ResultsAreOurs
  ViewsAreLive
  SpfIsOfTheDomain
CHECK_DEADLOCK FALSE
