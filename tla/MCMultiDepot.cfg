CONSTANTS
  Setups <- MCSetups
  Starts <- MCStarts
  Gated = {"vehicle", "depot"}
  Senders = {"tms", "depot"}
  Topics <- MCTopics
  Seed <- MCSeed
  Handles <- DemoHandles
  React <- DemoReact
  Passes <- DemoPasses
  MaxSeeds = 2
  MaxEarly = 1
  MaxRounds = 20
SPECIFICATION FairSpec
CHECK_DEADLOCK FALSE
INVARIANTS
  OneEnd
  Answered
  RollupClean
PROPERTIES
  Settles
  ImplementsChannel
