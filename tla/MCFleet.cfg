CONSTANTS
  Depots = {"depot", "depot2"}
  VehicleStarts <- MCVehicleStarts
  DepotStarts <- MCDepotStarts
  Gatings <- MCGatings
  MaxPosts = 2
  MaxTicks = 1
  MaxFaults = 1
SPECIFICATION FairSpec
CHECK_DEADLOCK FALSE
INVARIANTS
  TypeOK
  OutcomeOnce
  OutcomeEarned
  CompletesOnPower
PROPERTIES
  ChainsEnd
  DenialsAnswered
