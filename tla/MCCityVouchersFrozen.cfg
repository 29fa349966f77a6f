CONSTANTS
  v1 = v1
  r1 = r1
  r2 = r2
  w1 = w1
  w2 = w2
  Vouchers = {v1}
  Redemptions = {r1, r2}
  Amounts = {1, 2, 3}
  Days = {0}
  Workers = {w1, w2}
  MaxHistory = 3
SPECIFICATION Spec
INVARIANTS BalanceMatchesLedger
CHECK_DEADLOCK FALSE
