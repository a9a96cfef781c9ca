---------------------------- MODULE MCArkaimLogic ----------------------------
(* Two orders, so that the settlement of one meets the payment of the      *)
(* other, and one or two cards.                                            *)
EXTENDS ArkaimLogic, TLC

CONSTANTS order1, order2, card1, card2

TwoOrders == {order1, order2}
OneCard == {card1}
TwoCards == {card1, card2}

\* Orders and cards are only compared for equality.
MCSymmetry == Permutations(TwoOrders) \cup Permutations(TwoCards)
=============================================================================
