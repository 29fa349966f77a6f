CONSTANTS
  q1 = q1
  q2 = q2
  k1 = k1
  k2 = k2
  Charges = {1, 2}
  CreditCardDiscount = {1}
  Requests = {q1, q2}
  MaxNumber = 2
  MaxStripe = 2
SPECIFICATION RacesSpec
INVARIANTS TypeOK InvoicedOnce NumbersAccounted CardInvoiceIsCovered CapturedOnceEach OverbookingIsBounded
PROPERTIES PaidStaysPaid
CHECK_DEADLOCK FALSE
SYMMETRY Symmetry
