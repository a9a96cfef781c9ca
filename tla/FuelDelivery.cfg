SPECIFICATION DeliverySpec
CONSTANTS
  d1 = d1
  o1 = o1
  o2 = o2
  None = None
  NoOrder = NoOrder
  Dispensers <- OneDispenser
  Orders <- TwoOrders
  MaxAmount = 2
  Timeout = 1
  MaxTouches = 4
  MaxLifts = 2
  MaxHttp = 1
  MaxResponses = 1
SYMMETRY Symmetry
INVARIANTS
  ConfirmedWithinDelivered
  ToldIsExact
PROPERTIES
  FalseAlarmIsMissedEvent
CHECK_DEADLOCK FALSE
