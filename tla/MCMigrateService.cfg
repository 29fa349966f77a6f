CONSTANTS
  u1 = u1
  u2 = u2
  w1 = w1
  w2 = w2
  Users = {u1, u2}
  NoProfile = {u2}
  Identities = {1, 2}
  Workers = {w1, w2}
  ChunkSize = 1
  MaxFailures = 2
  MaxPhases = 1
SPECIFICATION FairSpec
INVARIANTS TypeOK NothingIsLost EnabledWhenMoved
PROPERTIES Finishes
CHECK_DEADLOCK FALSE
