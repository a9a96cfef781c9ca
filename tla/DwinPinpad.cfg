SPECIFICATION Spec
CONSTANTS
  Pieces = {5}
  MaxInput = 6
  LenInteger = 6
  LenGroup = 3
  LenCardFirst = 3
  LenCardSecond = 6
  Screens <- VolumeScreen
  Strays = {}
  Amounts = {1, 3}
  Balances <- FewBalances
  CardParts <- Cards
  MaxInFlight = 1
INVARIANTS
  KeepsRunning
