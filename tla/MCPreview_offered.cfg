SPECIFICATION Spec
CONSTANTS
    Accounts = {"alice", "bob"}
    Desks <- OfferedDesks
    MaxPosts = 2
CHECK_DEADLOCK FALSE
PROPERTIES
  OfferedShows
