SPECIFICATION Spec
CONSTANTS
  Requests = {q1}
  AllowLiveOrders = FALSE
  Life = 3
  Headroom = 2
  Interval = 1
  MaxClock = 3
INVARIANTS SwitchGuardsBroker
CHECK_DEADLOCK FALSE
