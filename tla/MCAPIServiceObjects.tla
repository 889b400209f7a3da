-------------------------- MODULE MCAPIServiceObjects --------------------------
(* Constants for model checking APIServiceObjects. *)
EXTENDS APIServiceObjects, TLC

CONSTANTS s1, t1, t2, b1, b2, k1, k2

MCSymmetry == Permutations(Targets) \cup Permutations(Bundles) \cup Permutations(ConditionLists)
=============================================================================
