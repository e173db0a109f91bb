SPECIFICATION ToolsSpec
CONSTANTS
  HeaderSize = 1
  AddressSize = 1
  MaxIndirs = 50
  LabelWrap = 8
  MaxLabel = 3
  MaxName = 7
  NameOctets = {0, 1, 2, 46, 64, 192}
  NameSize = 5
  Characters = {97, 46, 92}
  Letters = 9
  MaxLine = 2
  MinBlob = 26
  TextSize = 6
  Words = 3
  Rrs = 3
  VerifyDepth = 1
  Certs = 2
  Steps = 2
  Fields = 3
INVARIANTS
  NamesAreRead
  DataArrives
  EncodedIsDecoded
  ServersAreReached
  FieldsAreHeld
  PeerIsChecked
  AddressesAreRead
CHECK_DEADLOCK FALSE
