SPECIFICATION FairSpec
CONSTANTS
  Faults = {"open", "write", "exists", "remove"}
  Networked = FALSE
  Immortal = FALSE
  Senders = {alice}
  Literals = {}
  LocalhostSenders = {}
  AllowedSenders = {alice}
  Identities = {client}
  MailFlags = {}
  MaxRecipients = 1
  MaxUnrecognized = 2
  InitialSize = 3
  BroSize = 5
  HeaderSize = 1
  LineSizes = {1, 2}
  ChunkSizes = {0, 3}
  TransferSize = 2
  ReadFailures = {"timeout"}
  MaxMessages = 2
  alice = alice
  client = client
  NoSender = NoSender
  NoIdentity = NoIdentity
  NoMessage = NoMessage
INVARIANTS
  AckedIsStored
PROPERTIES
  SessionEnds
CHECK_DEADLOCK FALSE
