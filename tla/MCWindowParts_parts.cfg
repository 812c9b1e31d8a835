SPECIFICATION MCSpec
CONSTANTS
  NoAnswer = NoAnswer
  MaxEpoch = 3
  MaxAsks = 4
  Faults = {"connect", "timeout", "fatal", "refused"}
  Events = {e1, e2}
  NoEvent = NoEvent
  NoRequest = NoRequest
  NoReader = NoReader
  Offline = Offline
  Unavailable = Unavailable
  MaxSession = 2
  MaxGeneration = 4
  MaxConnection = 2
  MaxReload = 1
  FrameFaults = {"fatal", "panic", "spawn"}
  Snapshot = 5
  MaxTime = 2
  SLACK = 1
  TIME_PROBES = 2
  READY_ATTEMPTS = 2
  SHUTDOWN_ATTEMPTS = 2
  MaxPresses = 4
  MaxTurns = 1
  Devices = {1, 2}
  Nobody = Nobody
  Bars <- CheckedBars
INVARIANTS
  AnswersOfOneRuntime
  SafeStart
  PaneShowsItsRequest
  LineEndsWithItsRequest
  OneWorkPerDevice
  SentAsAsked
CHECK_DEADLOCK FALSE
