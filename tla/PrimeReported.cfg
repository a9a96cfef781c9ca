SPECIFICATION Spec
CONSTANTS
  d1 = d1
  d2 = d2
  o1 = o1
  o2 = o2
  lg = lg
  None = None
  NoOrder = NoOrder
  NoGauge = NoGauge
  Dispensers <- OneDispenser
  Orders <- OneOrder
  Gauges <- OneGauge
  GaugeOf <- SharedTank
  DoubleTap = FALSE
  MaxTouches = 3
  MaxLifts = 1
  MaxFailed = 0
  MaxResponses = 1
  MaxHttp = 2
INVARIANTS
  ConfirmedIsReported
CHECK_DEADLOCK FALSE
