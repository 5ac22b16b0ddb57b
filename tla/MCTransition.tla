---------------------------- MODULE MCTransition ----------------------------
(***************************************************************************)
(* Transition with three replicas on four nodes, or five.                  *)
(***************************************************************************)
EXTENDS Transition, TLC

CONSTANTS p1, p2

FourNodes == 1..4
FiveNodes == 1..5
ThePrimary == {1}
PrimaryOrSecond == {1, 2}
ThreeReplicas == <<1, 2, 3>>
PageSymmetry == Permutations(Pages)
=============================================================================
