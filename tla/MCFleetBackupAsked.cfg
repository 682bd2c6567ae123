CONSTANTS
  Depots = {"depot", "depot2"}
  VehicleStarts <- OnlyLow
  DepotStarts <- OnlyFull
  Gatings <- Ungated
  MaxPosts = 2
  MaxTicks = 0
  MaxFaults = 0
SPECIFICATION FairSpec
CHECK_DEADLOCK FALSE
INVARIANT BackupAsked
