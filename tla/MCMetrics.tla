------------------------------ MODULE MCMetrics ------------------------------
(***************************************************************************)
(* Model-checking instances of Metrics.                                    *)
(***************************************************************************)
EXTENDS Metrics

CONSTANTS s1, s2

MCSessions == {s1, s2}
MCSymmetry == Permutations(MCSessions)
=============================================================================
