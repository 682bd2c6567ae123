CONSTANTS
  Depots = {"depot"}
  VehicleStarts <- MCVehicleStarts
  DepotStarts <- MCDepotStarts
  Gatings <- Deployed
  MaxPosts = 2
  MaxTicks = 1
  MaxFaults = 0
SPECIFICATION FairSpec
CHECK_DEADLOCK FALSE
PROPERTY FallsOver
