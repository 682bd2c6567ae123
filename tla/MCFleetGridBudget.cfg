CONSTANTS
  Depots = {"depot"}
  VehicleStarts <- MCVehicleStarts
  DepotStarts <- OnlyFree
  Gatings <- Deployed
  MaxPosts = 2
  MaxTicks = 1
  MaxFaults = 0
SPECIFICATION FairSpec
CHECK_DEADLOCK FALSE
INVARIANT GridBudget
