SPECIFICATION Spec
CONSTANTS
  d1 = d1
  d2 = d2
  d3 = d3
  p1 = p1
  p2 = p2
  DeviceSeq <- ThreeDevices
  ProductSeq <- TwoProducts
  ProductOf <- Nozzles
  None = None
  Broken = Broken
  Volumes <- TypedVolumes
  Prices <- TypedPrices
  StartPrices <- ShippedPrices
  FieldWidth = 3
  Word = 65536
  MaxTouches = 6
  MaxFaults = 1
  MaxRestarts = 1
INVARIANTS
  PricesAgree
  RestartRestores
  AcceptedListRead
CHECK_DEADLOCK FALSE
