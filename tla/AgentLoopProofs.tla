--------------------------- MODULE AgentLoopProofs ---------------------------
(***************************************************************************)
(* Proofs about AgentLoop for every set of tool calls, every number of     *)
(* worker threads and every value of the limits.                           *)
(***************************************************************************)
EXTENDS AgentLoop, TLAPS

USE DEF Purposes, Outcomes, Results, Aborts, ReportedEvents

-----------------------------------------------------------------------------
(***************************************************************************)
(* The inductive invariant, in the parts each proof needs.                 *)
(***************************************************************************)

\* The tool loop only calls a tool it has, and only waits for one it started.
Shape ==
  /\ pc = "calling" => Len(queue) > 0
  /\ pc = "dispatching" => Len(history) > 0
  /\ toolCallCount = Len(history)

\* Below the limit whenever another tool could still be started.
BudgetInv ==
  /\ Len(history) <= ToolCap
  /\ pc \notin {"idle", "dispatching"} => Len(history) < ToolCap

\* identicalRepeats is at least the length of the run of equal calls that ends
\* the history.
RepeatInv ==
  /\ NoIdenticalRun
  /\ pc # "idle" /\ Len(history) > 0 =>
       /\ lastToolCall = history[Len(history)].call
       /\ \A k \in 1..Len(history) : SameCalls(Len(history), k) => k <= identicalRepeats

\* The finished calls of the history, and the failures that end them.
Finished == IF pc = "dispatching" THEN Len(history) - 1 ELSE Len(history)
FailedTail(n, k) == \A j \in (n - k + 1)..n : history[j].outcome = "error"
FailureInv ==
  /\ FailureRunEndsTurn
  /\ pc # "idle" => \A k \in 1..Finished :
                      FailedTail(Finished, k) => k <= consecutiveToolFailures

\* unverifiedMutation is about the last finished call; the gate was used if and
\* only if the model was asked to verify.
LastMutated == Len(history) > 0 /\ history[Len(history)].outcome = "mutated"
MutationInv == pc # "dispatching" => (unverifiedMutation <=> LastMutated)
GateInv ==
  /\ emitted["Verifying"] = (IF verificationGateUsed THEN 1 ELSE 0)
  /\ result = "Ok" => pc = "idle"
  /\ result = "Ok" /\ unverifiedMutation => verificationGateUsed
  /\ emitted["AnsweredUnverified"] =
       (IF result = "Ok" /\ unverifiedMutation THEN 1 ELSE 0)

LateInv ==
  /\ LateWorkBounded
  /\ ~cancel => lateCalls = 0 /\ lateTools = 0
  /\ pc \in {"planning", "fit", "backoff"} => lateCalls = 0
  /\ pc = "thinking" => lateCalls <= 1
  /\ pc = "waiting" /\ purpose # "generate" => lateCalls <= 1
  /\ pc = "calling" => lateTools = 0

-----------------------------------------------------------------------------
(***************************************************************************)
(* Type correctness.  Shape is proved along with it: the head of the queue *)
(* is a tool call only because the queue is not empty.                     *)
(***************************************************************************)
LEMMA CallData ==
  ASSUME NEW p \in Purposes, DataOK, StartCall(p)
  PROVE  pc' = "waiting" /\ purpose' = p /\ lateCalls' \in Nat /\ lateTools' \in Nat
  BY DEF DataOK, StartCall

LEMMA ReturnData ==
  ASSUME NEW r \in Results, NEW es, DataOK, Return(r, es)
  PROVE  /\ pc' = "idle" /\ result' \in Results /\ queue' \in Seq(ToolCalls)
         /\ emitted' \in [ReportedEvents -> Nat]
  BY DEF DataOK, Return, Emit

LEMMA AnswerTypes ==
  ASSUME NEW m \in Answers, m.kind = "tools"
  PROVE  m.calls \in Seq(ToolCalls)
  BY DEF Answers, Responses, Errors, Batches

\* The two ways the history changes: a call is added as running, and the last one
\* is given its outcome.
Entries == [call : ToolCalls, outcome : Outcomes \cup {"running"}]

LEMMA Added ==
  ASSUME NEW h \in Seq(Entries), NEW c \in ToolCalls,
         NEW g, g = Append(h, [call |-> c, outcome |-> "running"])
  PROVE  /\ g \in Seq(Entries) /\ Len(g) = Len(h) + 1
         /\ \A j \in 1..Len(h) : g[j] = h[j]
         /\ g[Len(g)] = [call |-> c, outcome |-> "running"]
  BY DEF Entries

LEMMA Settled ==
  ASSUME NEW h \in Seq(Entries), Len(h) > 0, NEW o \in Outcomes,
         NEW g, g = [h EXCEPT ![Len(h)] = [call |-> @.call, outcome |-> o]]
  PROVE  /\ g \in Seq(Entries) /\ Len(g) = Len(h)
         /\ \A j \in 1..(Len(h) - 1) : g[j] = h[j]
         /\ g[Len(h)] = [call |-> h[Len(h)].call, outcome |-> o]
<1>0. h[Len(h)] \in Entries
  OBVIOUS
<1>1. [call |-> h[Len(h)].call, outcome |-> o] \in Entries
  BY <1>0 DEF Entries
<1>2. g = [h EXCEPT ![Len(h)] = [call |-> h[Len(h)].call, outcome |-> o]]
  OBVIOUS
<1>3. QED
  BY <1>0, <1>1, <1>2

LEMMA FlagsStep == FlagsOK /\ [Next]_vars => FlagsOK'
<1> SUFFICES ASSUME FlagsOK, [Next]_vars PROVE FlagsOK'
  OBVIOUS
<1> USE DEF FlagsOK
<1>1. CASE ProcessFrom
  BY <1>1 DEF ProcessFrom, counters, threads, late
<1>2. CASE BuildPlan
  BY <1>2 DEF BuildPlan, counters, threads, late
<1>3. CASE LoopTop
  BY <1>3 DEF LoopTop, counters, threads, late
<1>4. CASE FitToBudget
  BY <1>4 DEF FitToBudget, counters, threads, late
<1>5. CASE Generate
  BY <1>5 DEF Generate, counters, threads, late
<1>6. CASE Retry
  BY <1>6 DEF Retry, counters, threads, late
<1>7. CASE ReceivePlanOrSummary
  BY <1>7 DEF ReceivePlanOrSummary, counters, threads, late
<1>8. CASE ReceiveFailure
  BY <1>8 DEF ReceiveFailure, counters, threads, late
<1>9. CASE ReceiveToolCalls
  BY <1>9 DEF ReceiveToolCalls, counters, threads, late
<1>10. CASE ReceiveText
  BY <1>10 DEF ReceiveText, counters, threads, late
<1>11. CASE ReceiveEmpty
  BY <1>11 DEF ReceiveEmpty, counters, threads, late
<1>12. CASE AbandonCall
  BY <1>12 DEF AbandonCall, counters, threads, late
<1>13. CASE NextTool
  BY <1>13 DEF NextTool, counters, threads, late
<1>14. CASE StartTool
  BY <1>14 DEF StartTool, counters, threads, late
<1>15. CASE FinishTool
  BY <1>15 DEF FinishTool, LeavesUnverified
<1>16. CASE PressCtrlC
  BY <1>16 DEF PressCtrlC, counters, threads, late
<1>17. ASSUME NEW w \in Workers, WorkerLock(w) PROVE FlagsOK'
  BY <1>17 DEF WorkerLock, counters, threads, late
<1>18. ASSUME NEW w \in Workers, WorkerSend(w) PROVE FlagsOK'
  BY <1>18 DEF WorkerSend, counters, threads, late
<1>19. CASE UNCHANGED vars
  BY <1>19 DEF vars, counters, threads, late
<1>20. QED
  BY <1>1, <1>2, <1>3, <1>4, <1>5, <1>6, <1>7, <1>8, <1>9, <1>10, <1>11, <1>12, <1>13,
     <1>14, <1>15, <1>16, <1>17, <1>18, <1>19 DEF Next, LoopStep, WorkerStep

LEMMA ThreadsStep == ThreadsOK /\ [Next]_vars => ThreadsOK'
<1> SUFFICES ASSUME ThreadsOK, [Next]_vars PROVE ThreadsOK'
  OBVIOUS
<1> USE DEF ThreadsOK
<1>1. CASE ProcessFrom
  BY <1>1 DEF ProcessFrom, threads, Receive
<1>2. CASE BuildPlan
  BY <1>2 DEF BuildPlan, StartCall
<1>3. CASE LoopTop
  BY <1>3 DEF LoopTop, threads, Receive
<1>4. CASE FitToBudget
  BY <1>4 DEF FitToBudget, StartCall, threads
<1>5. CASE Generate
  BY <1>5 DEF Generate, StartCall
<1>6. CASE Retry
  BY <1>6 DEF Retry, StartCall
<1>7. CASE ReceivePlanOrSummary
  BY <1>7 DEF ReceivePlanOrSummary, threads, Receive
<1>8. CASE ReceiveFailure
  BY <1>8 DEF ReceiveFailure, threads, Receive
<1>9. CASE ReceiveToolCalls
  BY <1>9 DEF ReceiveToolCalls, threads, Receive
<1>10. CASE ReceiveText
  BY <1>10 DEF ReceiveText, threads, Receive
<1>11. CASE ReceiveEmpty
  BY <1>11 DEF ReceiveEmpty, threads, Receive
<1>12. CASE AbandonCall
  BY <1>12 DEF AbandonCall, threads, Receive
<1>13. CASE NextTool
  BY <1>13 DEF NextTool, threads, Receive
<1>14. CASE StartTool
  BY <1>14 DEF StartTool, threads, Receive
<1>15. CASE FinishTool
  BY <1>15 DEF FinishTool, threads, Receive
<1>16. CASE PressCtrlC
  BY <1>16 DEF PressCtrlC, threads, Receive
<1>17. ASSUME NEW w \in Workers, WorkerLock(w) PROVE ThreadsOK'
  BY <1>17 DEF WorkerLock, threads, Receive
<1>18. ASSUME NEW w \in Workers, WorkerSend(w) PROVE ThreadsOK'
  BY <1>18 DEF WorkerSend, Sent
<1>19. CASE UNCHANGED vars
  BY <1>19 DEF vars, counters, threads, late
<1>20. QED
  BY <1>1, <1>2, <1>3, <1>4, <1>5, <1>6, <1>7, <1>8, <1>9, <1>10, <1>11, <1>12, <1>13,
     <1>14, <1>15, <1>16, <1>17, <1>18, <1>19 DEF Next, LoopStep, WorkerStep

LEMMA DataStep == DataOK /\ Shape /\ ThreadsOK /\ [Next]_vars => DataOK' /\ Shape'
<1> SUFFICES ASSUME DataOK, Shape, ThreadsOK, [Next]_vars PROVE DataOK' /\ Shape'
  OBVIOUS
<1> USE DEF DataOK, Shape, ThreadsOK
<1>1. CASE ProcessFrom
  BY <1>1, LimitsAssumption DEF ProcessFrom
<1>2. CASE BuildPlan
  BY <1>2, CallData DEF BuildPlan, counters
<1>3. CASE LoopTop
  BY <1>3, ReturnData DEF LoopTop, CancelledReturn, counters, late
<1>4. CASE FitToBudget
  BY <1>4, CallData DEF FitToBudget, counters, late
<1>5. CASE Generate
  BY <1>5, CallData DEF Generate, counters
<1>6. CASE Retry
  BY <1>6, CallData DEF Retry, NextAttempt, counters
<1>7. CASE ReceivePlanOrSummary
  BY <1>7 DEF ReceivePlanOrSummary, counters, late
<1>8. CASE ReceiveFailure
  BY <1>8, ReturnData DEF ReceiveFailure, CancelledReturn, counters, late
<1>9. CASE ReceiveToolCalls
  BY <1>9, AnswerTypes DEF ReceiveToolCalls, Receive, counters, late
<1>10. CASE ReceiveText
  <2>1. emitted' \in [ReportedEvents -> Nat]
    BY <1>10 DEF ReceiveText, Return, Emit
  <2>2. /\ pc' \in {"top", "idle"} /\ result' \in Results
        /\ queue' = queue \/ queue' = <<>>
    BY <1>10, Zenon DEF ReceiveText, Return, DataOK
  <2>3. queue' \in Seq(ToolCalls)
    <3>1. CASE queue' = queue
      BY <3>1
    <3>2. CASE queue' = <<>>
      BY <3>2
    <3>3. QED
      BY <2>2, <3>1, <3>2
  <2>4. UNCHANGED <<purpose, attempt, lastToolCall, identicalRepeats, toolCallCount,
                    emptyResponses, consecutiveToolFailures, history, lateCalls, lateTools>>
    BY <1>10 DEF ReceiveText, late
  <2>5. QED
    BY <2>1, <2>2, <2>3, <2>4
<1>11. CASE ReceiveEmpty
  <2>1. emptyResponses' \in Nat /\ pc' \in {"top", "idle"}
    BY <1>11 DEF ReceiveEmpty, Abort, Return
  <2>2. result' \in Results /\ queue' \in Seq(ToolCalls) /\ emitted' \in [ReportedEvents -> Nat]
    BY <1>11, ReturnData DEF ReceiveEmpty, Abort
  <2>3. QED
    BY <1>11, <2>1, <2>2 DEF ReceiveEmpty, late
<1>12. CASE AbandonCall
  BY <1>12, ReturnData DEF AbandonCall, CancelledReturn, counters, late
<1>13. CASE NextTool
  <2>1. /\ pc' \in {"top", "idle", "calling"} /\ result' \in Results
        /\ queue' \in Seq(ToolCalls) /\ emitted' \in [ReportedEvents -> Nat]
    BY <1>13, ReturnData DEF NextTool, CancelledReturn
  <2>2. pc' = "calling" => Len(queue') > 0
    BY <1>13 DEF NextTool, CancelledReturn, Return
  <2>3. QED
    BY <1>13, <2>1, <2>2 DEF NextTool, counters, late
<1>14. CASE StartTool
  <2>1. Head(queue) \in ToolCalls /\ Tail(queue) \in Seq(ToolCalls)
    BY <1>14 DEF StartTool
  <2>2. lastToolCall' \in ToolCalls /\ identicalRepeats' \in Nat
    BY <1>14, <2>1 DEF StartTool, Repeats
  <2>3. CASE LoopDetected(identicalRepeats')
    BY <1>14, <2>2, <2>3, ReturnData DEF StartTool, Abort
  <2>4. CASE ~LoopDetected(identicalRepeats')
    <3>1. /\ history' \in Seq([call : ToolCalls, outcome : Outcomes \cup {"running"}])
          /\ Len(history') = Len(history) + 1
      BY <1>14, <2>1, <2>4, Added DEF StartTool, Entries
    <3>2. toolCallCount' = toolCallCount + 1 /\ lateTools' \in Nat
      BY <1>14, <2>4 DEF StartTool
    <3>3. QED
      <4>1. pc' = "dispatching" /\ queue' \in Seq(ToolCalls) /\ emptyResponses' = 0
        BY <1>14, <2>1, <2>4 DEF StartTool
      <4>2. UNCHANGED <<purpose, attempt, consecutiveToolFailures, lateCalls, result, emitted>>
        BY <1>14, <2>4 DEF StartTool
      <4>3. DataOK'
        BY <2>2, <3>1, <3>2, <4>1, <4>2
      <4>4. Shape'
        BY <3>1, <3>2, <4>1
      <4>5. QED
        BY <4>3, <4>4
  <2>5. QED
    BY <2>3, <2>4
<1>15. CASE FinishTool
  <2>1. /\ history' \in Seq([call : ToolCalls, outcome : Outcomes \cup {"running"}])
        /\ Len(history') = Len(history)
    BY <1>15, Settled DEF FinishTool, Entries
  <2>2. consecutiveToolFailures' \in Nat
    BY <1>15 DEF FinishTool
  <2>3. /\ pc' \in {"executing", "idle"} /\ result' \in Results
        /\ queue' \in Seq(ToolCalls) /\ emitted' \in [ReportedEvents -> Nat]
    BY <1>15, ReturnData DEF FinishTool, Abort
  <2>4. QED
    BY <1>15, <2>1, <2>2, <2>3 DEF FinishTool, late
<1>16. CASE PressCtrlC
  BY <1>16 DEF PressCtrlC, counters, late
<1>17. ASSUME NEW w \in Workers, WorkerLock(w) PROVE DataOK' /\ Shape'
  BY <1>17 DEF WorkerLock, counters, late
<1>18. ASSUME NEW w \in Workers, WorkerSend(w) PROVE DataOK' /\ Shape'
  BY <1>18 DEF WorkerSend, counters, late
<1>19. CASE UNCHANGED vars
  BY <1>19 DEF vars, counters, threads, late
<1>20. QED
  BY <1>1, <1>2, <1>3, <1>4, <1>5, <1>6, <1>7, <1>8, <1>9, <1>10, <1>11, <1>12, <1>13,
     <1>14, <1>15, <1>16, <1>17, <1>18, <1>19 DEF Next, LoopStep, WorkerStep

LEMMA TypeInit == Init => TypeOK /\ Shape
<1> USE DEF Init
<1>1. Init => DataOK /\ Shape
  BY DEF DataOK, Shape
<1>2. Init => ThreadsOK
  BY DEF ThreadsOK
<1>3. Init => FlagsOK
  BY DEF FlagsOK
<1>4. QED
  BY <1>1, <1>2, <1>3 DEF TypeOK

LEMMA TypeStep == TypeOK /\ Shape /\ [Next]_vars => TypeOK' /\ Shape'
  BY FlagsStep, ThreadsStep, DataStep DEF TypeOK

\* Type correctness of the agent loop (agent_loop.rs), for every value of the
\* constants; with it, that the mutex around the model is only ever held by a
\* thread that is still running.
THEOREM TypeCorrect == Spec => []TypeOK
<1>1. Spec => [](TypeOK /\ Shape)
  BY TypeInit, TypeStep, PTL DEF Spec
<1>2. QED
  BY <1>1, PTL

-----------------------------------------------------------------------------
(***************************************************************************)
(* Answers and late work.                                                  *)
(***************************************************************************)
LEMMA ForeignStep == NoForeignAnswer /\ [Next]_vars => NoForeignAnswer'
<1> SUFFICES ASSUME NoForeignAnswer, [Next]_vars PROVE NoForeignAnswer'
  OBVIOUS
<1> USE DEF NoForeignAnswer
<1>1. CASE BuildPlan \/ Generate \/ Retry
  BY <1>1 DEF BuildPlan, Generate, Retry, StartCall
<1>2. CASE FitToBudget
  BY <1>2 DEF FitToBudget, StartCall, threads
<1>3. CASE ProcessFrom \/ LoopTop \/ NextTool \/ StartTool \/ FinishTool
  BY <1>3 DEF ProcessFrom, LoopTop, NextTool, StartTool, FinishTool, threads
<1>4. CASE ReceivePlanOrSummary \/ ReceiveFailure \/ ReceiveToolCalls \/ ReceiveText
             \/ ReceiveEmpty \/ AbandonCall
  BY <1>4 DEF ReceivePlanOrSummary, ReceiveFailure, ReceiveToolCalls, ReceiveText,
              ReceiveEmpty, AbandonCall, Receive
<1>5. CASE PressCtrlC
  BY <1>5 DEF PressCtrlC, threads
<1>6. ASSUME NEW w \in Workers, WorkerLock(w) PROVE NoForeignAnswer'
  BY <1>6 DEF WorkerLock
<1>7. ASSUME NEW w \in Workers, WorkerSend(w) PROVE NoForeignAnswer'
  BY <1>7 DEF WorkerSend, Sent
<1>8. CASE UNCHANGED vars
  BY <1>8 DEF vars, threads
<1>9. QED
  BY <1>1, <1>2, <1>3, <1>4, <1>5, <1>6, <1>7, <1>8 DEF Next, LoopStep, WorkerStep

\* call_llm gives every call a channel of its own: no answer a turn acts on was
\* generated for an abandoned call, whatever number of workers outlive theirs.
THEOREM NoForeignAnswerHolds == Spec => []NoForeignAnswer
<1>1. Init => NoForeignAnswer
  BY DEF Init, NoForeignAnswer
<1>2. QED
  BY <1>1, ForeignStep, PTL DEF Spec

LEMMA LateStep == DataOK /\ LateInv /\ [Next]_vars => LateInv'
<1> SUFFICES ASSUME DataOK, LateInv, [Next]_vars PROVE LateInv'
  OBVIOUS
<1>0. lateCalls \in Nat /\ lateTools \in Nat
  BY DEF DataOK
<1> USE <1>0 DEF LateInv, LateWorkBounded
<1>1. CASE ProcessFrom
  BY <1>1 DEF ProcessFrom
<1>2. CASE BuildPlan
  BY <1>2 DEF BuildPlan, StartCall
<1>3. CASE LoopTop
  BY <1>3 DEF LoopTop, CancelledReturn, Return, late
<1>4. CASE FitToBudget
  BY <1>4 DEF FitToBudget, StartCall, late
<1>5. CASE Generate
  BY <1>5 DEF Generate, StartCall
<1>6. CASE Retry
  BY <1>6 DEF Retry, StartCall
<1>7. CASE ReceivePlanOrSummary
  BY <1>7 DEF ReceivePlanOrSummary, Receive, late
<1>8. CASE ReceiveFailure
  BY <1>8 DEF ReceiveFailure, CancelledReturn, Return, late
<1>9. CASE ReceiveToolCalls
  BY <1>9 DEF ReceiveToolCalls, late
<1>10. CASE ReceiveText
  BY <1>10 DEF ReceiveText, Return, late
<1>11. CASE ReceiveEmpty
  BY <1>11 DEF ReceiveEmpty, Abort, Return, late
<1>12. CASE AbandonCall
  BY <1>12 DEF AbandonCall, CancelledReturn, Return, late
<1>13. CASE NextTool
  BY <1>13 DEF NextTool, CancelledReturn, Return, late
<1>14. CASE StartTool
  BY <1>14 DEF StartTool, Abort, Return
<1>15. CASE FinishTool
  BY <1>15 DEF FinishTool, Abort, Return, late
<1>16. CASE PressCtrlC
  BY <1>16 DEF PressCtrlC, late
<1>17. ASSUME NEW w \in Workers, WorkerLock(w) \/ WorkerSend(w) PROVE LateInv'
  BY <1>17 DEF WorkerLock, WorkerSend, late
<1>18. CASE UNCHANGED vars
  BY <1>18 DEF vars, late
<1>19. QED
  BY <1>1, <1>2, <1>3, <1>4, <1>5, <1>6, <1>7, <1>8, <1>9, <1>10, <1>11, <1>12, <1>13,
     <1>14, <1>15, <1>16, <1>17, <1>18 DEF Next, LoopStep, WorkerStep

\* Ctrl+C during a turn of process_from is followed by at most two LLM calls and
\* one tool, whatever the batches, the retries and the limits.
THEOREM LateWorkIsBounded == Spec => []LateWorkBounded
<1>1. Init => LateInv
  BY DEF Init, LateInv, LateWorkBounded
<1>2. TypeOK /\ LateInv /\ [Next]_vars => LateInv'
  BY LateStep DEF TypeOK
<1>3. LateInv => LateWorkBounded
  BY DEF LateInv
<1>4. QED
  BY <1>1, <1>2, <1>3, TypeCorrect, PTL DEF Spec

-----------------------------------------------------------------------------
(***************************************************************************)
(* What is reported.                                                       *)
(***************************************************************************)
LEMMA EventsStep ==
  DataOK /\ FlagsOK /\ EventsMatchResult /\ GateInv /\ [Next]_vars
    => EventsMatchResult' /\ GateInv'
<1> SUFFICES ASSUME DataOK, FlagsOK, EventsMatchResult, GateInv, [Next]_vars
             PROVE  EventsMatchResult' /\ GateInv'
  OBVIOUS
<1>0. emitted \in [ReportedEvents -> Nat] /\ result \in Results
  BY DEF DataOK
<1> USE <1>0 DEF EventsMatchResult, GateInv
<1>1. CASE ProcessFrom
  BY <1>1 DEF ProcessFrom
<1>2. CASE BuildPlan \/ FitToBudget \/ Generate \/ Retry
  BY <1>2 DEF BuildPlan, FitToBudget, Generate, Retry, StartCall, counters
<1>3. CASE LoopTop
  BY <1>3 DEF LoopTop, CancelledReturn, Return, Emit, counters
<1>4. CASE ReceivePlanOrSummary \/ ReceiveToolCalls
  BY <1>4 DEF ReceivePlanOrSummary, ReceiveToolCalls, Receive, counters
<1>5. CASE ReceiveFailure
  BY <1>5 DEF ReceiveFailure, Receive, CancelledReturn, Return, Emit, counters
<1>6. CASE ReceiveText
  BY <1>6 DEF ReceiveText, Receive, Return, Emit
<1>7. CASE ReceiveEmpty
  BY <1>7 DEF ReceiveEmpty, Receive, Abort, Return, Emit
<1>8. CASE AbandonCall
  BY <1>8 DEF AbandonCall, CancelledReturn, Return, Emit, counters
<1>9. CASE NextTool
  BY <1>9 DEF NextTool, CancelledReturn, Return, Emit, counters
<1>10. CASE StartTool
  BY <1>10 DEF StartTool, Abort, Return, Emit
<1>11. CASE FinishTool
  BY <1>11 DEF FinishTool, Abort, Return, Emit
<1>12. CASE PressCtrlC
  BY <1>12 DEF PressCtrlC, counters
<1>13. ASSUME NEW w \in Workers, WorkerLock(w) \/ WorkerSend(w)
       PROVE  EventsMatchResult' /\ GateInv'
  BY <1>13 DEF WorkerLock, WorkerSend, counters
<1>14. CASE UNCHANGED vars
  BY <1>14 DEF vars, counters
<1>15. QED
  BY <1>1, <1>2, <1>3, <1>4, <1>5, <1>6, <1>7, <1>8, <1>9, <1>10, <1>11, <1>12, <1>13,
     <1>14 DEF Next, LoopStep, WorkerStep

\* Whatever ends a turn of process_from, the event sinks and the caller are told
\* the same thing, once.
THEOREM EventsAgree == Spec => []EventsMatchResult
<1>1. Init => EventsMatchResult /\ GateInv
  BY DEF Init, EventsMatchResult, GateInv
<1>2. TypeOK /\ EventsMatchResult /\ GateInv /\ [Next]_vars => EventsMatchResult' /\ GateInv'
  BY EventsStep DEF TypeOK
<1>3. QED
  BY <1>1, <1>2, TypeCorrect, PTL DEF Spec

LEMMA MutationStep == DataOK /\ Shape /\ MutationInv /\ [Next]_vars => MutationInv'
<1> SUFFICES ASSUME DataOK, Shape, MutationInv, [Next]_vars PROVE MutationInv'
  OBVIOUS
<1>0. history \in Seq(Entries)
  BY DEF DataOK, Entries
<1> USE DEF MutationInv, LastMutated
<1>1. CASE ProcessFrom
  BY <1>1 DEF ProcessFrom
<1>2. CASE StartTool
  BY <1>2 DEF StartTool, Abort, Return
<1>3. CASE FinishTool
  <2>1. PICK o \in Outcomes :
          /\ history' = [history EXCEPT ![Len(history)] = [call |-> @.call, outcome |-> o]]
          /\ unverifiedMutation' = LeavesUnverified(o)
    BY <1>3 DEF FinishTool
  <2>2. Len(history') = Len(history) /\ Len(history) > 0 /\ history'[Len(history')].outcome = o
    BY <1>0, <1>3, <2>1, Settled DEF FinishTool, Shape
  <2>3. QED
    BY <2>1, <2>2 DEF LeavesUnverified
<1>4. CASE UNCHANGED <<history, unverifiedMutation>> /\ pc # "dispatching"
  BY <1>4
<1>5. CASE UNCHANGED <<history, unverifiedMutation, pc>>
  BY <1>5
<1>6. QED
  BY <1>1, <1>2, <1>3, <1>4, <1>5
     DEF Next, LoopStep, WorkerStep, vars, BuildPlan, LoopTop, FitToBudget, Generate, Retry,
         Receive, ReceivePlanOrSummary, ReceiveFailure, ReceiveToolCalls, ReceiveText,
         ReceiveEmpty, AbandonCall, NextTool, PressCtrlC, WorkerLock, WorkerSend, counters

\* A reply of process_from is flagged exactly when the last tool of its turn
\* changed something, and then the model had been asked to verify.
THEOREM UnverifiedFlagged == Spec => []UnverifiedAnswersAreFlagged
<1>1. Init => MutationInv
  BY DEF Init, MutationInv, LastMutated
<1>2. TypeOK /\ Shape /\ MutationInv /\ [Next]_vars => MutationInv'
  BY MutationStep DEF TypeOK
<1>3. Init => EventsMatchResult /\ GateInv
  BY DEF Init, EventsMatchResult, GateInv
<1>4. TypeOK /\ EventsMatchResult /\ GateInv /\ [Next]_vars => EventsMatchResult' /\ GateInv'
  BY EventsStep DEF TypeOK
<1>5. MutationInv /\ GateInv => UnverifiedAnswersAreFlagged
  BY DEF MutationInv, GateInv, UnverifiedAnswersAreFlagged, LastMutated
<1>6. QED
  BY <1>1, <1>2, <1>3, <1>4, <1>5, TypeInit, TypeStep, PTL DEF Spec

-----------------------------------------------------------------------------
(***************************************************************************)
(* The limits.                                                             *)
(***************************************************************************)
LEMMA BudgetStep == DataOK /\ Shape /\ BudgetInv /\ [Next]_vars => BudgetInv'
<1> SUFFICES ASSUME DataOK, Shape, BudgetInv, [Next]_vars PROVE BudgetInv'
  OBVIOUS
<1>0. /\ history \in Seq(Entries) /\ MaxToolCalls \in Nat /\ toolCallCount = Len(history)
      /\ pc = "dispatching" => Len(history) > 0
  BY LimitsAssumption DEF DataOK, Entries, Shape
<1> USE DEF BudgetInv, ToolCap
<1>1. CASE ProcessFrom
  BY <1>0, <1>1 DEF ProcessFrom
<1>2. CASE StartTool
  <2>1. CASE LoopDetected(identicalRepeats')
    BY <1>0, <1>2, <2>1 DEF StartTool, Abort, Return
  <2>2. CASE ~LoopDetected(identicalRepeats')
    <3>1. Head(queue) \in ToolCalls
      BY <1>2 DEF StartTool, DataOK, Shape
    <3>2. Len(history') = Len(history) + 1
      BY <1>0, <1>2, <2>2, <3>1, Added DEF StartTool
    <3>3. QED
      BY <1>0, <1>2, <2>2, <3>2 DEF StartTool
  <2>3. QED
    BY <2>1, <2>2
<1>3. CASE FinishTool
  <2>1. Len(history') = Len(history)
    BY <1>0, <1>3, Settled DEF FinishTool
  <2>2. pc' \notin {"idle", "dispatching"} => ~ToolLimitReached
    BY <1>3 DEF FinishTool, Abort, Return
  <2>3. QED
    BY <1>0, <1>3, <2>1, <2>2 DEF FinishTool, ToolLimitReached
<1>4. CASE UNCHANGED history /\ pc \notin {"idle", "dispatching"}
  BY <1>0, <1>4
<1>5. CASE UNCHANGED <<history, pc>>
  BY <1>5
<1>6. QED
  BY <1>1, <1>2, <1>3, <1>4, <1>5
     DEF Next, LoopStep, WorkerStep, vars, BuildPlan, LoopTop, FitToBudget, Generate, Retry,
         Receive, ReceivePlanOrSummary, ReceiveFailure, ReceiveToolCalls, ReceiveText,
         ReceiveEmpty, AbandonCall, NextTool, PressCtrlC, WorkerLock, WorkerSend, counters

\* What a tool start and a tool end do to the history, for the two run lemmas.
LEMMA StartedHistory ==
  ASSUME DataOK, Shape, StartTool, ~LoopDetected(identicalRepeats')
  PROVE  /\ history' \in Seq(Entries) /\ Len(history') = Len(history) + 1
         /\ \A j \in 1..Len(history) : history'[j] = history[j]
         /\ history'[Len(history) + 1].call = Head(queue)
         /\ history'[Len(history) + 1].outcome = "running"
<1>1. Head(queue) \in ToolCalls
  BY DEF StartTool, DataOK, Shape
<1>2. history \in Seq(Entries)
  BY DEF DataOK, Entries
<1>3. history' = Append(history, [call |-> Head(queue), outcome |-> "running"])
  BY DEF StartTool
<1>4. QED
  BY <1>1, <1>2, <1>3, Added

LEMMA FinishedHistory ==
  ASSUME DataOK, Shape, FinishTool
  PROVE  \E o \in Outcomes :
           /\ Len(history') = Len(history)
           /\ \A j \in 1..(Len(history) - 1) : history'[j] = history[j]
           /\ history'[Len(history)].call = history[Len(history)].call
           /\ history'[Len(history)].outcome = o
           /\ consecutiveToolFailures' = IF o = "error" THEN consecutiveToolFailures + 1 ELSE 0
<1>1. history \in Seq(Entries) /\ Len(history) > 0
  BY DEF DataOK, Entries, Shape, FinishTool
<1>2. PICK o \in Outcomes :
        /\ history' = [history EXCEPT ![Len(history)] = [call |-> @.call, outcome |-> o]]
        /\ consecutiveToolFailures' = IF o = "error" THEN consecutiveToolFailures + 1 ELSE 0
  BY DEF FinishTool
<1>3. QED
  BY <1>1, <1>2, Settled

LEMMA RepeatStep == DataOK /\ Shape /\ RepeatInv /\ [Next]_vars => RepeatInv'
<1> SUFFICES ASSUME DataOK, Shape, RepeatInv, [Next]_vars PROVE RepeatInv'
  OBVIOUS
<1>0. /\ Len(history) \in Nat /\ identicalRepeats \in Nat /\ MaxIdenticalRepeats \in Nat
  BY LimitsAssumption DEF DataOK
<1> USE DEF RepeatInv, NoIdenticalRun, SameCalls
<1>1. CASE ProcessFrom
  BY <1>1 DEF ProcessFrom
<1>2. CASE StartTool
  <2>1. CASE LoopDetected(identicalRepeats')
    BY <1>2, <2>1 DEF StartTool, Abort, Return
  <2>2. CASE ~LoopDetected(identicalRepeats')
    <3> DEFINE n == Len(history)
               c == Head(queue)
    <3>1. /\ Len(history') = n + 1 /\ \A j \in 1..n : history'[j] = history[j]
          /\ history'[n + 1].call = c
      BY <1>2, <2>2, StartedHistory
    <3>2. /\ lastToolCall' = c /\ identicalRepeats' = Repeats(c)
          /\ identicalRepeats' < MaxIdenticalRepeats /\ identicalRepeats' \in Nat
      BY <1>0, <1>2, <2>2 DEF StartTool, Repeats, LoopDetected
    <3>3. pc = "calling"
      BY <1>2 DEF StartTool
    <3>4. ASSUME NEW k \in 1..(n + 1),
                 \A j \in (n + 1 - k + 1)..(n + 1) : history'[j].call = history'[n + 1].call
          PROVE  k <= identicalRepeats'
      <4>1. CASE k = 1
        BY <1>0, <3>2, <4>1 DEF Repeats
      <4>2. CASE k > 1
        <5>1. n > 0 /\ k - 1 \in 1..n
          BY <1>0, <4>2
        <5>2. \A j \in (n - (k - 1) + 1)..n : history[j].call = c
          BY <1>0, <3>1, <3>4, <4>2
        <5>3. history[n].call = c
          BY <1>0, <5>1, <5>2
        <5>4. SameCalls(n, k - 1)
          BY <5>2, <5>3
        <5>5. k - 1 <= identicalRepeats /\ lastToolCall = c
          BY <3>3, <5>1, <5>3, <5>4
        <5>6. QED
          BY <1>0, <3>2, <5>5 DEF Repeats
      <4>3. QED
        BY <1>0, <4>1, <4>2
    <3>5. ASSUME NEW i \in 1..(n + 1), NEW k \in 1..i,
                 \A j \in (i - k + 1)..i : history'[j].call = history'[i].call
          PROVE  k < MaxIdenticalRepeats
      <4>1. CASE i = n + 1
        BY <1>0, <3>2, <3>4, <3>5, <4>1
      <4>2. CASE i \in 1..n
        <5>1. \A j \in (i - k + 1)..i : j \in 1..n
          BY <1>0, <4>2
        <5>2. SameCalls(i, k)
          BY <3>1, <3>5, <4>2, <5>1
        <5>3. QED
          BY <4>2, <5>2
      <4>3. QED
        BY <1>0, <4>1, <4>2
    <3>6. NoIdenticalRun'
      BY <3>1, <3>5
    <3>7. lastToolCall' = history'[Len(history')].call
      BY <3>1, <3>2
    <3>8. \A k \in 1..Len(history') : SameCalls(Len(history), k)' => k <= identicalRepeats'
      BY <3>1, <3>4
    <3>9. QED
      BY <3>6, <3>7, <3>8
  <2>3. QED
    BY <2>1, <2>2
<1>3. CASE FinishTool
  <2>1. /\ Len(history') = Len(history)
        /\ \A j \in 1..Len(history) : history'[j].call = history[j].call
    BY <1>0, <1>3, FinishedHistory
  <2>2. pc = "dispatching" /\ UNCHANGED <<lastToolCall, identicalRepeats>>
    BY <1>3 DEF FinishTool
  <2>3. Len(history) > 0
    BY <2>2 DEF Shape
  <2>4. \A i \in 1..Len(history) : \A k \in 1..i : SameCalls(i, k)' <=> SameCalls(i, k)
    BY <1>0, <2>1
  <2>5. NoIdenticalRun'
    BY <2>1, <2>4
  <2>6. lastToolCall' = history'[Len(history')].call
    BY <1>0, <2>1, <2>2, <2>3
  <2>7. \A k \in 1..Len(history') : SameCalls(Len(history), k)' => k <= identicalRepeats'
    BY <1>0, <2>1, <2>2, <2>3, <2>4
  <2>8. QED
    BY <2>5, <2>6, <2>7
<1>4. CASE UNCHANGED <<history, lastToolCall, identicalRepeats>> /\ pc # "idle"
  BY <1>4
<1>5. CASE UNCHANGED <<history, lastToolCall, identicalRepeats, pc>>
  BY <1>5
<1>6. QED
  BY <1>1, <1>2, <1>3, <1>4, <1>5
     DEF Next, LoopStep, WorkerStep, vars, BuildPlan, LoopTop, FitToBudget, Generate, Retry,
         Receive, ReceivePlanOrSummary, ReceiveFailure, ReceiveToolCalls, ReceiveText,
         ReceiveEmpty, AbandonCall, NextTool, PressCtrlC, WorkerLock, WorkerSend, counters

\* While a turn runs no run of failures has reached the limit.
NoFailureRun(n) ==
  \A i \in 1..n : MaxToolFailures \in 1..i => ~FailedTail(i, MaxToolFailures)

LEMMA FailureStep == DataOK /\ Shape /\ FailureInv /\ [Next]_vars => FailureInv'
<1> SUFFICES ASSUME DataOK, Shape, FailureInv, [Next]_vars PROVE FailureInv'
  OBVIOUS
<1>0. Len(history) \in Nat /\ consecutiveToolFailures \in Nat /\ MaxToolFailures \in Nat
  BY LimitsAssumption DEF DataOK
<1>a. pc # "idle" => NoFailureRun(Len(history))
  BY <1>0 DEF FailureInv, FailureRunEndsTurn, NoFailureRun, FailedTail
<1>b. NoFailureRun(Len(history))' => FailureRunEndsTurn'
  BY DEF FailureRunEndsTurn, NoFailureRun, FailedTail
<1>1. CASE ProcessFrom
  BY <1>1 DEF ProcessFrom, FailureInv, FailureRunEndsTurn, Finished
<1>2. CASE StartTool
  <2>1. CASE LoopDetected(identicalRepeats')
    <3>1. pc = "calling" /\ pc' = "idle" /\ UNCHANGED history
      BY <1>2, <2>1 DEF StartTool, Abort, Return
    <3>2. QED
      BY <1>a, <1>b, <3>1 DEF FailureInv, NoFailureRun, FailedTail
  <2>2. CASE ~LoopDetected(identicalRepeats')
    <3>0. PICK n \in Nat : n = Len(history)
      BY <1>0
    <3>1. /\ Len(history') = n + 1 /\ \A j \in 1..n : history'[j] = history[j]
          /\ history'[n + 1].outcome = "running"
      BY <1>2, <2>2, <3>0, StartedHistory
    <3>2. pc = "calling" /\ pc' = "dispatching" /\ UNCHANGED consecutiveToolFailures
      BY <1>2, <2>2 DEF StartTool
    <3>3. ASSUME NEW i \in 1..(n + 1), MaxToolFailures \in 1..i
          PROVE  ~FailedTail(i, MaxToolFailures)'
      <4>1. CASE i = n + 1
        BY <1>0, <3>1, <3>3, <4>1 DEF FailedTail
      <4>2. CASE i \in 1..n
        <5>1. \A j \in (i - MaxToolFailures + 1)..i : j \in 1..n
          BY <1>0, <3>3, <4>2
        <5>2. ~FailedTail(i, MaxToolFailures)
          BY <1>a, <3>0, <3>2, <3>3, <4>2 DEF NoFailureRun
        <5>3. QED
          BY <3>1, <5>1, <5>2 DEF FailedTail
      <4>3. QED
        BY <1>0, <4>1, <4>2
    <3>4. FailureRunEndsTurn'
      BY <1>b, <3>1, <3>3 DEF NoFailureRun
    <3>5. Finished = n /\ Finished' = n
      BY <3>0, <3>1, <3>2 DEF Finished
    <3>6. ASSUME NEW k \in 1..n PROVE FailedTail(n, k)' => FailedTail(n, k)
      <4>1. \A j \in (n - k + 1)..n : j \in 1..n
        OBVIOUS
      <4>2. QED
        BY <3>1, <4>1 DEF FailedTail
    <3>7. QED
      BY <3>2, <3>4, <3>5, <3>6 DEF FailureInv
  <2>3. QED
    BY <2>1, <2>2
<1>3. CASE FinishTool
  <2>0. PICK n \in Nat : n = Len(history)
    BY <1>0
  <2>1. PICK o \in Outcomes :
          /\ Len(history') = n
          /\ \A j \in 1..(n - 1) : history'[j] = history[j]
          /\ history'[n].outcome = o
          /\ consecutiveToolFailures' = IF o = "error" THEN consecutiveToolFailures + 1 ELSE 0
    BY <1>3, <2>0, FinishedHistory
  <2>2. pc = "dispatching" /\ n > 0
    BY <1>3, <2>0 DEF FinishTool, Shape
  <2>3. pc' \in {"idle", "executing"}
    BY <1>3 DEF FinishTool, Abort, Return
  <2>4. Finished = n - 1 /\ Finished' = n
    BY <2>0, <2>1, <2>2, <2>3 DEF Finished
  <2>5. ASSUME NEW k \in 1..n, FailedTail(n, k)'
        PROVE  k <= consecutiveToolFailures'
    <3>1. history'[n].outcome = "error"
      BY <2>2, <2>5 DEF FailedTail
    <3>2. consecutiveToolFailures' = consecutiveToolFailures + 1
      BY <2>1, <3>1
    <3>3. CASE k = 1
      BY <1>0, <3>2, <3>3
    <3>4. CASE k > 1
      <4>1. k - 1 \in 1..(n - 1)
        BY <3>4
      <4>2. \A j \in (n - 1 - (k - 1) + 1)..(n - 1) : j \in 1..(n - 1) /\ j \in (n - k + 1)..n
        BY <4>1
      <4>3. FailedTail(n - 1, k - 1)
        BY <2>1, <2>5, <4>2 DEF FailedTail
      <4>4. k - 1 <= consecutiveToolFailures
        BY <2>2, <2>4, <4>1, <4>3 DEF FailureInv
      <4>5. QED
        BY <1>0, <3>2, <4>4
    <3>5. QED
      BY <3>3, <3>4
  <2>6. ASSUME NEW i \in 1..n, MaxToolFailures \in 1..i, FailedTail(i, MaxToolFailures)'
        PROVE  i = n /\ pc' = "idle"
    <3>1. CASE i = n
      <4>1. MaxToolFailures <= consecutiveToolFailures'
        BY <2>5, <2>6, <3>1
      <4>2. consecutiveToolFailures' \in Nat
        BY <1>0, <2>1
      <4>3. ~(consecutiveToolFailures' < MaxToolFailures)
        BY <1>0, <4>1, <4>2
      <4>4. QED
        BY <1>3, <3>1, <4>3 DEF FinishTool, Abort, Return
    <3>2. CASE i \in 1..(n - 1)
      <4>1. \A j \in (i - MaxToolFailures + 1)..i : j \in 1..(n - 1)
        BY <2>6, <3>2
      <4>2. FailedTail(i, MaxToolFailures)
        BY <2>1, <2>6, <4>1 DEF FailedTail
      <4>3. QED
        BY <1>a, <2>0, <2>2, <2>6, <4>2 DEF NoFailureRun
    <3>3. QED
      BY <3>1, <3>2
  <2>7. FailureRunEndsTurn'
    BY <2>1, <2>6 DEF FailureRunEndsTurn, FailedTail
  <2>8. QED
    BY <2>4, <2>5, <2>7 DEF FailureInv
<1>4. CASE /\ UNCHANGED <<history, consecutiveToolFailures>>
           /\ {pc, pc'} \cap {"idle", "dispatching"} = {}
  BY <1>4 DEF FailureInv, FailureRunEndsTurn, Finished, FailedTail
<1>5. CASE UNCHANGED history /\ pc # "idle" /\ pc' = "idle"
  BY <1>a, <1>b, <1>5 DEF FailureInv, NoFailureRun, FailedTail
<1>6. CASE UNCHANGED <<history, consecutiveToolFailures, pc>>
  BY <1>6 DEF FailureInv, FailureRunEndsTurn, Finished, FailedTail
<1>7. CASE BuildPlan \/ FitToBudget \/ Generate \/ Retry
  BY <1>4, <1>7 DEF BuildPlan, FitToBudget, Generate, Retry, StartCall, counters
<1>8. CASE ReceivePlanOrSummary \/ ReceiveFailure \/ ReceiveToolCalls
  BY <1>4, <1>5, <1>8 DEF Receive, ReceivePlanOrSummary, ReceiveFailure, ReceiveToolCalls,
                          CancelledReturn, Return, counters
<1>9. CASE ReceiveText \/ ReceiveEmpty \/ AbandonCall
  BY <1>4, <1>5, <1>9 DEF Receive, ReceiveText, ReceiveEmpty, AbandonCall, Abort,
                          CancelledReturn, Return, counters
<1>10. CASE LoopTop \/ NextTool
  BY <1>4, <1>5, <1>10 DEF LoopTop, NextTool, CancelledReturn, Return, counters
<1>11. CASE PressCtrlC \/ WorkerStep \/ UNCHANGED vars
  BY <1>6, <1>11 DEF PressCtrlC, WorkerStep, WorkerLock, WorkerSend, vars, counters
<1>12. QED
  BY <1>1, <1>2, <1>3, <1>7, <1>8, <1>9, <1>10, <1>11 DEF Next, LoopStep

\* No turn dispatches more tools than LoopLimits allow, repeats a call as often
\* as max_identical_repeats, or goes on after max_consecutive_tool_failures
\* failures in a row: for every limit, every batch and every interleaving.
THEOREM LimitsAreKept == Spec => []LimitsHold
<1> DEFINE Runs == BudgetInv /\ RepeatInv /\ FailureInv
<1>1. Init => Runs
  <2>1. Init => BudgetInv
    BY LimitsAssumption DEF Init, BudgetInv, ToolCap
  <2>2. Init => RepeatInv
    BY DEF Init, RepeatInv, NoIdenticalRun
  <2>3. Init => FailureInv
    BY DEF Init, FailureInv, FailureRunEndsTurn, Finished
  <2>4. QED
    BY <2>1, <2>2, <2>3
<1>2. TypeOK /\ Shape /\ Runs /\ [Next]_vars => Runs'
  BY BudgetStep, RepeatStep, FailureStep DEF TypeOK
<1>3. Runs => LimitsHold
  BY DEF BudgetInv, RepeatInv, FailureInv, LimitsHold, WithinToolCap
<1>4. QED
  BY <1>1, <1>2, <1>3, TypeInit, TypeStep, PTL DEF Spec

-----------------------------------------------------------------------------
(***************************************************************************)
(* The refinement.                                                         *)
(***************************************************************************)

\* A step that returns is an End of the abstract turn; one that keeps the turn
\* running, and the flag and the number of tools as they are, is a stutter.
LEMMA Returning ==
  ASSUME NEW r \in Results, pc # "idle", pc' = "idle", result' = r,
         r = "Cancelled" => cancel, UNCHANGED cancel, Len(history') = Len(history)
  PROVE  Turn!Next
  BY DEF Turn!Next, Turn!End

LEMMA Running ==
  ASSUME pc # "idle", pc' # "idle", UNCHANGED <<result, cancel>>, Len(history') = Len(history)
  PROVE  UNCHANGED Turn!vars
  BY DEF Turn!vars

LEMMA TurnStep ==
  DataOK /\ Shape /\ BudgetInv /\ EventsMatchResult /\ [Next]_vars => [Turn!Next]_(Turn!vars)
<1> SUFFICES ASSUME DataOK, Shape, BudgetInv, EventsMatchResult, [Next]_vars
             PROVE  Turn!Next \/ UNCHANGED Turn!vars
  OBVIOUS
<1>1. CASE ProcessFrom
  BY <1>1, LimitsAssumption DEF ProcessFrom, Turn!Next, Turn!Begin
<1>2. CASE BuildPlan \/ FitToBudget \/ Generate \/ Retry
  BY <1>2, Running DEF BuildPlan, FitToBudget, Generate, Retry, StartCall
<1>3. CASE LoopTop \/ NextTool
  BY <1>3, Running, Returning DEF LoopTop, NextTool, CancelledReturn, Return
<1>4. CASE ReceivePlanOrSummary \/ ReceiveToolCalls
  BY <1>4, Running DEF ReceivePlanOrSummary, ReceiveToolCalls, Receive
<1>5. CASE ReceiveFailure
  BY <1>5, Running, Returning DEF ReceiveFailure, Receive, CancelledReturn, Return
<1>6. CASE ReceiveText
  BY <1>6, Running, Returning DEF ReceiveText, Receive, Return
<1>7. CASE ReceiveEmpty
  BY <1>7, Running, Returning DEF ReceiveEmpty, Receive, Abort, Return
<1>8. CASE AbandonCall
  BY <1>8, Running, Returning DEF AbandonCall, PollSeesCancel, CancelledReturn, Return
<1>9. CASE StartTool
  <2>1. CASE LoopDetected(identicalRepeats')
    BY <1>9, <2>1, Returning DEF StartTool, Abort, Return
  <2>2. CASE ~LoopDetected(identicalRepeats')
    <3>1. Len(history') = Len(history) + 1
      BY <1>9, <2>2, StartedHistory
    <3>2. /\ pc = "calling" /\ pc' = "dispatching" /\ UNCHANGED <<result, cancel>>
      BY <1>9, <2>2 DEF StartTool
    <3>3. Len(history) < ToolCap
      BY <3>2 DEF BudgetInv
    <3>4. QED
      BY <3>1, <3>2, <3>3 DEF Turn!Next, Turn!RunTool
  <2>3. QED
    BY <2>1, <2>2
<1>10. CASE FinishTool
  <2>1. Len(history') = Len(history)
    BY <1>10, FinishedHistory
  <2>2. QED
    BY <1>10, <2>1, Running, Returning DEF FinishTool, Abort, Return
<1>11. CASE PressCtrlC
  BY <1>11 DEF PressCtrlC, Turn!Next, Turn!AskToStop
<1>12. CASE WorkerStep \/ UNCHANGED vars
  BY <1>12 DEF WorkerStep, WorkerLock, WorkerSend, vars, Turn!vars
<1>13. QED
  BY <1>1, <1>2, <1>3, <1>4, <1>5, <1>6, <1>7, <1>8, <1>9, <1>10, <1>11, <1>12
     DEF Next, LoopStep

\* The agent loop implements the turn its callers see: one outcome per turn, no
\* more tools than the cap, cancelled only if asked to stop.
THEOREM LoopImplementsTurn == Spec => ImplementsTurn
<1>1. Init => Turn!Init
  BY DEF Init, Turn!Init
<1>2. Init => BudgetInv
  BY LimitsAssumption DEF Init, BudgetInv, ToolCap
<1>3. TypeOK /\ Shape /\ BudgetInv /\ [Next]_vars => BudgetInv'
  BY BudgetStep DEF TypeOK
<1>4. TypeOK /\ Shape /\ BudgetInv /\ EventsMatchResult /\ [Next]_vars
        => [Turn!Next]_(Turn!vars)
  BY TurnStep DEF TypeOK
<1>5. QED
  BY <1>1, <1>2, <1>3, <1>4, TypeInit, TypeStep, EventsAgree, PTL
     DEF Spec, ImplementsTurn, Turn!Spec
=============================================================================
