CONSTANTS
  Agents = {"depot", "vehicle"}
  Clients = {"ops"}
  ClientKinds = {"message", "shutdown", "garbled"}
  Topics = {"Go", "Ack"}
  SendsOf <- MCSendsOf
  Urls <- MCUrls
  MaxPosts = 2
  MaxFaults = 1
SPECIFICATION FairSpec
CHECK_DEADLOCK FALSE
INVARIANTS
  TypeOK
  ConfirmedInOrder
  StopsSoon
PROPERTIES
  ImplementsChannel
  CallsReturn
  MailboxDrains
  ShutdownEnds
