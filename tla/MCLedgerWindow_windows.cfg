CONSTANTS
  tasks = tasks
  events = events
  noon = noon
  NoBound = NoBound
  NoView = NoView
  Filters = {tasks, events}
  DefaultFilter = tasks
  Bounds = {noon}
  WINDOW = 1
  MAX_WIDTH = 2
  FILL_WINDOWS = 2
  MaxHead = 2
  MaxSession = 2
  MaxGeneration = 3
  MaxQueue = 2
  Controls = {"filter", "cursor", "earlier", "jump", "follow", "unfollow", "close", "reopen"}
  Faults = {"read", "poll", "repin", "open", "thread", "panic"}
SPECIFICATION MCSpec
INVARIANTS
  WindowsContiguous
  OpenWindowHasReader
PROPERTIES
  OldReaderLeavesNothing
  BusyEnds
  FollowingCatchesUp
CHECK_DEADLOCK FALSE
