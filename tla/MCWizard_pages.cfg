SPECIFICATION FairSpec
CONSTANTS
    Older <- MCOlder
    Newer <- MCNewer
    NoRelease <- MCNoRelease
    Desks <- MCDesks
INVARIANTS
  AnswerIsOfItsQuestion
  LetGoOnlyWhenGivenUp
  CancelChangesNothing
  LostLineStops
  DowngradeConfirmed
PROPERTIES
  PageComesBack
CHECK_DEADLOCK FALSE
