SPECIFICATION Spec
CONSTANTS
  order1 = order1
  order2 = order2
  card1 = card1
  card2 = card2
  NoCard = NoCard
  NoPin = NoPin
  NoOrder = NoOrder
  Orders <- TwoOrders
  Cards <- TwoCards
  MaxRequests = 4
  MaxWithPinpad = 4
INVARIANTS
  SettlesOwnTransaction
  CancelledAtMostOnce
  OneResolveInFlight
  PinOfItsCard
  ChargeKeptForSettling
PROPERTIES
  NoSettleAfterAnswer
SYMMETRY MCSymmetry
CHECK_DEADLOCK FALSE
