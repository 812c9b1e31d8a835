SPECIFICATION Spec
CONSTANTS
    Accounts = {"alice", "bob"}
    Desks <- CheckedDesks
    MaxPosts = 2
INVARIANTS
  PictureIsItsOwn
CHECK_DEADLOCK FALSE
PROPERTIES
  NewestShows
