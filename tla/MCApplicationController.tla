----------------------- MODULE MCApplicationController -----------------------
(* Constants for model checking ApplicationController. *)
EXTENDS ApplicationController, TLC

CONSTANTS m1, m2, a1, a2

MCSymmetry == Permutations(Managers)
MCReplicas == {-1, 1, 2}
MCNoneOrOne == {-1, 1}
MCTwoReplicas == {1, 2}
=============================================================================
