CONSTANTS
  Topics = {"Request", "Tick", "Unknown"}
  Peers = {"tms", "self"}
  TickTopics = {"Tick"}
  HandlerKind <- MCHandlerKind
  Proposals <- MCProposals
  InitialState = "free"
  States = {"free", "loaded"}
  Actions <- MCActions
  AllowedServers = {"ocpp"}
  Gates <- MCGates
  NoGate = NoGate
  MaxMessages = 2
  MaxIdle = 1
SPECIFICATION FairSpec
CHECK_DEADLOCK FALSE
INVARIANTS
  TypeOK
  Enforcement
  Accounting
  AuditTrail
  VerdictBeforeEffect
  MessagesConserved
  CountersMatchTrace
  NeverViolates
PROPERTIES
  ImplementsAgent
  ImplementsLiveAgent
  TickThreadsEnd
