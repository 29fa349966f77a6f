CONSTANTS
  q1 = q1
  NotAnOrder = NotAnOrder
  NoOrder = NotAnOrder
  Orders = {1}
  Item <- OneSubscription
  ExtensionMonths = 2
  NextChargeDates = {}
  MaxMonth = 5
  MaxDate = 7
  MaxTasks = 2
SPECIFICATION BillingSpec
INVARIANTS TypeOK ChargedWhenDue MonthChargedOnce
PROPERTIES NoFreeMonth DueIsHandled ExecutedIsInvoiced
CHECK_DEADLOCK FALSE
