SPECIFICATION MCSpec
CONSTANTS
    Windows <- CheckedWindows
    Refusable = {"slow"}
    MaxEpoch = 2
    MaxQueue = 1
    MaxAsks = 1
    MaxWrites = 1
    START_TRIES = 2
INVARIANTS
  SliceIsOfTheEpoch
CHECK_DEADLOCK FALSE
PROPERTY
  StartReportSettles
  NoReadFromBeforeAWrite
