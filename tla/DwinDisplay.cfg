SPECIFICATION Spec
CONSTANTS
  Pieces = {5}
  MaxInput = 4
  LenInteger = 5
  LenGroup = 3
  LenCardFirst = 3
  LenCardSecond = 6
  Screens <- AllScreens
  Strays = {90}
  Amounts = {1, 3}
  Balances <- FewBalances
  CardParts <- Cards
  MaxInFlight = 2
INVARIANTS
  NoTouchLost
  PinpadIsNumber
PROPERTIES
  TouchesInOrder
  OrderedIsShown
