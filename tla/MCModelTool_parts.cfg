SPECIFICATION MCSpec
CONSTANTS
  Parts = {"pool", "cache", "watch"}
  Unsettled = Unsettled
  NoFrame = NoFrame
  WorkersMax = 2
  RestartBudget = 2
  BatchSize = 2
  MaxRequests = 3
  MaxCalls = 2
  Faults = {"start", "boot", "die", "timeout", "exception", "memory", "guard", "recycle", "reading"}
  Processes = {p, q}
  Nodes = {"low", "top"}
  Goals = {"top"}
  Inputs <- Inputs3
  Versions = {1, 2}
  Computations <- Computed
  Values = {"A", "B", "C"}
  NotYet = "none"
  Settings <- CheckedSettings
  Files = {rules}
  Snapshot = state
  Contents = {a, b, x}
  Absent = absent
  Unread = unread
  Broken = {x}
  Unexportable = {absent}
  Exported = {rules}
  Nothing = nothing
  Desks <- CheckedDesks
  First = {a, absent}
INVARIANTS
  EachBatchOnce
  ServedAsComputed
  IndexHasItsBlobs
  NoChangeLost
  ExportsAreStaged
PROPERTIES
  ImplementsCalls
  CallEnds
CHECK_DEADLOCK FALSE
