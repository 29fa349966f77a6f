CONSTANTS
  Keys = {k1}
  Requests = {q1}
  Tables = {t1}
  Configurations <- TwoMenus
  Dates = {1, 3}
  Parties = {1, 2}
  MaxTasks = 2
SPECIFICATION FairSpec
INVARIANTS TypeOK ComesAfterStart
PROPERTIES SavedShiftsAreChecked
CHECK_DEADLOCK FALSE
