------------------------------ MODULE MCFooObjects ------------------------------
(* Constants for model checking FooObjects. *)
EXTENDS FooObjects, TLC

CONSTANTS n1, nginx, g1, p1, k1, k2

MCSymmetry == Permutations(ConditionLists)
=============================================================================
