SPECIFICATION MCSpec
CONSTANTS
  Scopes <- TwoScopes
  NoLine = NoLine
  NoTarget = NoTarget
  NoFlight = NoFlight
  NoFound = NoFound
  MaxPause = 2
  MaxOwnerEpoch = 2
  MaxSession = 2
  MaxPress = 2
  MaxTurns = 4
  Faults = {"connect", "timeout", "open", "panic", "spawn", "restart"}
PROPERTIES
  LiftsOnlyWhatWasConfirmed
  NoPressOnAnOldStatus
  EntriesComeBack
CHECK_DEADLOCK FALSE
