SPECIFICATION FairSpec
CONSTANTS
    MaxOwners = 10
    Releases <- MCReleases
    None <- MCNone
    Predates <- MCPredates
    Colds <- MCColds
    Tools <- MCTools
    Content <- MCContent
    Slots <- MCSlots
    First = "A"
    Desks <- MCDesks
INVARIANTS
  SelectionLoads
  RestoredIsOriginal
  NothingLost
PROPERTIES
  SwitchIsCold
  UpgradeSettles
