CONSTANTS
  CommandLines <- ComposeCommandLines
  Environments <- ComposeEnvironments
  Programs <- ComposePrograms
  SpecFiles = {"a.spec", "b.spec"}
  Good <- MCGood
  Loopbacks <- MCLoopbacks
  Addresses <- MCAddresses
  Topics = {"Tick", "Ask"}
  MaxMessages = 1
  MaxChanges = 0
SPECIFICATION FairSpec
PROPERTIES
  ComposeServes
