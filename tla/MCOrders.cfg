CONSTANTS
  q1 = q1
  q2 = q2
  c1 = c1
  Requests = {q1, q2}
  Cities = {c1}
  Cards = Cards
  price <- Prices
  vat_pct = 10
  possible_counts = {1, 2}
  MaxMonths = 2
  MaxItems = 2
  MaxPayments = 2
SPECIFICATION OrdersSpec
CONSTRAINT WithCard
INVARIANTS AmountsAddUp OrdersArePaidOnce CitiesAreRecorded
PROPERTIES StaysLiveUnlessOverwritten
CHECK_DEADLOCK FALSE
SYMMETRY Symmetry
