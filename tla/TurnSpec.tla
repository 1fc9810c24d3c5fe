------------------------------- MODULE TurnSpec -------------------------------
(***************************************************************************)
(* What the callers of `process_from` rely on (the REPL in main.rs, the    *)
(* session loop in server.rs, `respond_to` for autonomous events): a turn  *)
(* ends with exactly one outcome, runs a bounded number of tools on the    *)
(* way, is only reported as cancelled if it was asked to stop, and does    *)
(* stop when asked.                                                        *)
(***************************************************************************)
EXTENDS Naturals

CONSTANTS ToolCap,   \* tool calls one turn may dispatch
          Outcomes   \* every way a turn can end

VARIABLES state, stop, tools, outcome

vars == <<state, stop, tools, outcome>>

Init == state = "idle" /\ stop = FALSE /\ tools = 0 /\ outcome = "None"

\* A turn starts; one that cannot even build its prompt is over at once.
Begin ==
  /\ state = "idle" /\ stop' = FALSE /\ tools' = 0
  /\ \/ state' = "running" /\ outcome' = "None"
     \/ state' = "idle" /\ outcome' = "Tool"

RunTool ==
  /\ state = "running" /\ tools < ToolCap /\ tools' = tools + 1
  /\ UNCHANGED <<state, stop, outcome>>

AskToStop ==
  /\ state = "running" /\ stop' = TRUE
  /\ UNCHANGED <<state, tools, outcome>>

End(o) ==
  /\ state = "running" /\ state' = "idle" /\ outcome' = o
  /\ o = "Cancelled" => stop
  /\ UNCHANGED <<stop, tools>>

Next == Begin \/ RunTool \/ AskToStop \/ \E o \in Outcomes : End(o)

Spec == Init /\ [][Next]_vars

\* A turn that was asked to stop ends.
StopEnds == (state = "running" /\ stop) ~> (state = "idle")

FairSpec == Spec /\ StopEnds
=============================================================================
