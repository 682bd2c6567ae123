CONSTANTS
  Topics = {"Request"}
  Peers = {"tms"}
  TickTopics = {}
  HandlerKind <- MCHandlerKind
  Proposals <- MCProposals
  InitialState = "free"
  States = {"free", "loaded"}
  Actions <- MCActions
  AllowedServers = {"ocpp"}
  Gates <- MCGates
  NoGate = NoGate
  MaxMessages = 2
  MaxIdle = 0
SPECIFICATION ScrapeSpec
CHECK_DEADLOCK FALSE
INVARIANTS
  PageBounds
