SPECIFICATION Spec
CONSTANTS
  order1 = order1
  order2 = order2
  card1 = card1
  card2 = card2
  NoCard = NoCard
  NoPin = NoPin
  NoOrder = NoOrder
  Orders <- TwoOrders
  Cards <- OneCard
  MaxRequests = 6
  MaxWithPinpad = 0
PROPERTIES
  PendingKeptForCancel
CHECK_DEADLOCK FALSE
