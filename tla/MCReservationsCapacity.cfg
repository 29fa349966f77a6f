CONSTANTS
  Keys = {k1, k2}
  Requests = {q1, q2}
  Tables = {}
  Configurations <- Lunch
  Dates = {2}
  Parties = {1, 2, 3}
  MaxTasks = 0
SPECIFICATION Spec
INVARIANTS WithinCapacity
CHECK_DEADLOCK FALSE
