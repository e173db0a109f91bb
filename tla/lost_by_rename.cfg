SPECIFICATION Spec
CONSTANTS
  Faults = {"rename"}
  Networked = TRUE
  Immortal = TRUE
  Senders = {alice}
  Literals = {}
  LocalhostSenders = {}
  AllowedSenders = {alice}
  Identities = {client}
  MailFlags = {}
  MaxRecipients = 1
  MaxUnrecognized = 2
  InitialSize = 3
  BroSize = 5
  HeaderSize = 1
  LineSizes = {1, 2}
  ChunkSizes = {0, 1, 3}
  TransferSize = 2
  ReadFailures = {"eof", "timeout", "maxed"}
  MaxMessages = 2
  alice = alice
  client = client
  NoSender = NoSender
  NoIdentity = NoIdentity
  NoMessage = NoMessage
INVARIANTS
  AckedIsStored
CHECK_DEADLOCK FALSE
