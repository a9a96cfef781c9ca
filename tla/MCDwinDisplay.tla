----------------------------- MODULE MCDwinDisplay -----------------------------
(* Displays with some of the buttons of the real one, every kind of button *)
(* among them.                                                             *)
EXTENDS DwinDisplay

Keys(p, ks) == {[vp |-> PadOf[p], key |-> k] : k \in ks}
Button(vp, ks) == {[vp |-> vp, key |-> k] : k \in ks}

PadScreen ==
  Keys("volume", {0, 1, Comma, 12, 13}) \cup Keys("service", {13}) \cup Button(BasicTouch, {5})
PriceScreen == Keys("price", {13})
StartScreen ==
  Button(PlainButton.CHOOSE_MULTI_TRK, {0}) \cup Button(<<113, 8>>, {257})
    \cup Button(ArrowButton.PAGINATION_TRK, {2}) \cup Button(VolumeButton, {256})
\* The third button is the one at 0x6780 for which handleDwinEvent() does nothing.
ServiceScreen ==
  Button(ServiceMenu, {4}) \cup Button(BasicTouch, {9}) \cup Button(<<103, 128>>, {1})

AllScreens == {PadScreen, PriceScreen, StartScreen, ServiceScreen}
VolumeScreen == {Keys("volume", {1, Comma, 12, 13})}

FewBalances == {[n |-> 2, negative |-> TRUE], [n |-> 4, negative |-> FALSE]}
Cards == {<<2, 3>>}
=============================================================================
