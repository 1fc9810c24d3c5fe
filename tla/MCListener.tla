------------------------------ MODULE MCListener ------------------------------
(***************************************************************************)
(* Model-checking instances of Listener.                                   *)
(***************************************************************************)
EXTENDS Listener

FairSpec == Spec /\ ListenFairness
=============================================================================
