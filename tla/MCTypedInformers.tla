---------------------------- MODULE MCTypedInformers ----------------------------
(* Constants for model checking TypedInformers. *)
EXTENDS TypedInformers

CONSTANTS g1, g2, n1, n2
=============================================================================
