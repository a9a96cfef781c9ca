SPECIFICATION FairSpec
CONSTANTS
  g1 = g1
  g2 = g2
  o1 = o1
  GaugeSeq <- TwoGauges
  Orders <- OneOrder
  GaugeOf <- FirstTank
  Docs = {d1}
  NoGauge = NoGauge
  NoDoc = NoDoc
  NoReading = NoReading
  Deliveries = {19}
  MaxTouches = 4
  MaxPours = 1
  MaxFaults = 1
  MaxHttp = 2
INVARIANTS
  ReportInOrder
  SaleReadings
PROPERTIES
  PageFollowsTank
CHECK_DEADLOCK FALSE
