---------------------------- MODULE MCEngineCore ----------------------------
(* Model-checking instances of EngineCore. *)
EXTENDS EngineCore, TLC

Symmetry == Permutations(Request)
=============================================================================
