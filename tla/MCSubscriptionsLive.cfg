CONSTANTS
  NotAnOrder = NotAnOrder
  NoOrder = NotAnOrder
  Orders = {1, 2}
  Item <- TwoSubscriptions
  ExtensionMonths = 2
  NextChargeDates = {}
  MaxMonth = 3
  MaxDate = 5
  MaxTasks = 1
SPECIFICATION Spec
INVARIANTS OneLiveSubscription
CHECK_DEADLOCK FALSE
