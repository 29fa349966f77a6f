CONSTANTS
  q1 = q1
  q2 = q2
  Charges = {1}
  CreditCardDiscount = {1}
  Requests = {q1, q2}
  MaxNumber = 1
  MaxStripe = 2
SPECIFICATION Spec
INVARIANTS CapturedOnce
CHECK_DEADLOCK FALSE
