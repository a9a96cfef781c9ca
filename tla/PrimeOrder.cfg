SPECIFICATION StationSpec
CONSTANTS
  d1 = d1
  d2 = d2
  o1 = o1
  o2 = o2
  lg = lg
  None = None
  NoOrder = NoOrder
  NoGauge = NoGauge
  Dispensers <- TwoDispensers
  Orders <- TwoOrders
  Gauges <- OneGauge
  GaugeOf <- SharedTank
  DoubleTap = TRUE
  MaxTouches = 3
  MaxLifts = 1
  MaxFailed = 1
  MaxResponses = 1
  MaxHttp = 2
SYMMETRY Symmetry
INVARIANTS
  ConfirmedPerRecord
  DeliveryReportedOnce
  EveryTaskIsAsked
  SaleIsComplete
CHECK_DEADLOCK FALSE
