SPECIFICATION Spec
CONSTANTS
    Older <- MCOlder
    Newer <- MCNewer
    NoRelease <- MCNoRelease
    Desks <- OccupiedDesks
INVARIANT
  RetryStartsFromBefore
CHECK_DEADLOCK FALSE
