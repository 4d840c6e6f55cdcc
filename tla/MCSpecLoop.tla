---------------------------- MODULE MCSpecLoop ----------------------------
(* Small plans for the model checker: two cards in two lanes, the second  *)
(* waiting for the first or not, or three cards in two lanes.             *)
EXTENDS SpecLoop

ThreeCards == {1, 2, 3}
LanesOfThree == <<1, 2, 1>>
Free == <<{}, {}, {}>>

TwoCards == {1, 2}
TwoLanes == <<1, 2>>
Independent == <<{}, {}>>
Dependent == <<{}, {1}>>
=============================================================================
