---------------------------- MODULE MCStationSetup ----------------------------
EXTENDS StationSetup, TLC
CONSTANTS d1, d2, d3, p1, p2
ThreeDevices == <<d1, d2, d3>>
TwoProducts == <<p1, p2>>
Nozzles == d1 :> p1 @@ d2 :> p2 @@ d3 :> p2

\* "12,5" and "700,00" litres.
TypedVolumes == {[value |-> 125, exponent |-> 1], [value |-> 70000, exponent |-> 2]}
\* "0,00", "99,9", "101" and "1000,5".
TypedPrices == {[value |-> 0, exponent |-> 2], [value |-> 999, exponent |-> 1],
                [value |-> 101, exponent |-> 0], [value |-> 10005, exponent |-> 1]}
\* No price yet, and "100,11".
ShippedPrices == {Unset, [value |-> 10011, exponent |-> 2]}
=============================================================================
