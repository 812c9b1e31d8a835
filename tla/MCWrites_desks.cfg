SPECIFICATION Spec
CONSTANTS
    Desks <- CheckedDesks
    alice = alice
    bob = bob
    Accounts = {alice, bob}
    Times = {t, u}
    Texts = {1, 3}
    Host = Host
    Nothing = Nothing
INVARIANTS
  SaidNotDoneIsNotDone
PROPERTIES
  RulesTakenAsPressed
  WritesComeBack
CHECK_DEADLOCK FALSE
