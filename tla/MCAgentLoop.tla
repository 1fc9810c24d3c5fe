----------------------------- MODULE MCAgentLoop -----------------------------
(***************************************************************************)
(* Model-checking instances of AgentLoop.                                  *)
(***************************************************************************)
EXTENDS AgentLoop

CONSTANTS a, b, w1, w2, w3

MCToolCalls == {a, b}
MCWorkers == {w1, w2, w3}

\* No fairness for the model: it may never answer.
SpecLlmMayHang == Spec /\ LoopFairness
=============================================================================
