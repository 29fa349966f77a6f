CONSTANTS
  Vouchers = {v1}
  Redemptions = {r1, r2}
  Amounts = {1, 2, 3}
  Days = {0}
  Workers = {w1, w2}
  MaxHistory = 3
  Requests = {q1, q2}
  Names = {n1}
  Holidays = {h1}
  Modules = {m1}
  NoPreferredPage = {m1}
  Purchases = {g1}
  Users = {u1}
  Units = {2}
  max_units_pp = 0
  MaxBought = 2
  Settings = {1, 2}
  Counts = {1, 3}
  MaxGiven = 3
  MaxScans = 2
  MaxTimes = 2
SPECIFICATION PublishingSpec
INVARIANTS TypeOK OneRedemptionPerState MerchantsPaidOnce NeverOverspent BalancesMatch PublishingIsSafe HandledOnce
PROPERTIES LoadedOnce ImplementsLedger ImplementsStampLedger
CHECK_DEADLOCK FALSE
CONSTRAINT FewAtOnce
SYMMETRY Symmetry
