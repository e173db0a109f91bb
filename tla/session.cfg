SPECIFICATION Spec
CONSTANTS
  Faults = {}
  Networked = TRUE
  Immortal = TRUE
  Senders = {alice, literal}
  Literals = {literal}
  LocalhostSenders = {}
  AllowedSenders = {alice}
  Identities = {client}
  MailFlags = {"BINARYMIME"}
  MaxRecipients = 2
  MaxUnrecognized = 2
  InitialSize = 3
  BroSize = 5
  HeaderSize = 1
  LineSizes = {1, 2}
  ChunkSizes = {0, 1, 3}
  TransferSize = 2
  ReadFailures = {"eof", "timeout", "maxed"}
  MaxMessages = 2
  alice = alice
  literal = literal
  client = client
  NoSender = NoSender
  NoIdentity = NoIdentity
  NoMessage = NoMessage
INVARIANTS
  TypeOK
  ReplyPerCommand
  StoredIsAcked
  OversizeNotDelivered
  PhaseMatchesState
PROPERTIES
  EnvelopeFrozen
  KeepsMailPromise
CHECK_DEADLOCK FALSE
