------------------------------ MODULE MCMemory -------------------------------
(***************************************************************************)
(* Model-checking instance of Memory.                                      *)
(***************************************************************************)
EXTENDS Memory, TLC

CONSTANTS a1, a2, v1, v2

Interchangeable == Permutations(Assistants) \cup Permutations(Values)
=============================================================================
