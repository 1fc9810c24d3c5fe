--------------------------- MODULE MCVoiceSession ---------------------------
(***************************************************************************)
(* Model-checking instances of VoiceSession.                               *)
(***************************************************************************)
EXTENDS VoiceSession

CONSTANTS t1, t2, c1, c2

MCTurns == {t1, t2}
MCConns == {c1, c2}
MCMaxEvents == [t \in MCTurns |-> IF t = t1 THEN 1 ELSE 0]

FairSpec == Spec /\ ThreadFairness /\ NalaFairness
=============================================================================
