--------------------------- MODULE MCFuelReception ---------------------------
EXTENDS FuelReception, TLC
CONSTANTS g1, g2, o1
TwoGauges == <<g1, g2>>
OneOrder == {o1}
FirstTank == (o1 :> g1)
=============================================================================
