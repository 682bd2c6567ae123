CONSTANTS
  CommandLines <- MCCommandLines
  Environments <- MCEnvironments
  Programs <- MCPrograms
  SpecFiles = {"a.spec", "b.spec"}
  Good <- MCGood
  Loopbacks <- MCLoopbacks
  Addresses <- MCAddresses
  Topics = {"Tick", "Ask"}
  MaxMessages = 1
  MaxChanges = 1
SPECIFICATION FairSpec
INVARIANTS
  TypeOK
  ParsedAsGiven
  RunnerAsConfigured
PROPERTIES
  ExitTells
  StopEnds
  Recovers
