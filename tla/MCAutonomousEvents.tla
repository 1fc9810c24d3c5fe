-------------------------- MODULE MCAutonomousEvents --------------------------
(***************************************************************************)
(* Model-checking instances of AutonomousEvents.                           *)
(***************************************************************************)
EXTENDS AutonomousEvents

CONSTANTS p1, p2, low, joined, left

MCPublishers == {p1, p2}

FairSpec == EventsSpec /\ Fairness
=============================================================================
