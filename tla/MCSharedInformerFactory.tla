----------------------- MODULE MCSharedInformerFactory -----------------------
(* Constants for model checking SharedInformerFactory. *)
EXTENDS SharedInformerFactory

CONSTANTS c1, c2, t1, t2, s1
=============================================================================
