------------------------------ MODULE AgentLoop ------------------------------
(***************************************************************************)
(* One assistant serving turns: `Assistant::process_from` and the helpers  *)
(* it calls (apps/nala/src/application/agent_loop.rs), the background      *)
(* threads `call_llm` spawns, and the Ctrl+C flag of the local REPL.       *)
(*                                                                         *)
(* Three kinds of processes interleave:                                    *)
(*   - the turn's own thread, whose program counter is pc;                 *)
(*   - one LLM worker thread per call: it queues on the mutex around the   *)
(*     model, generates, and sends its result down the channel of its own  *)
(*     call.  A cancelled call is abandoned, not stopped, so its worker    *)
(*     outlives the call and even the turn;                                *)
(*   - the user, who may press Ctrl+C at any moment of a turn.             *)
(*                                                                         *)
(* The prompt's messages are not represented: whether a round needs a      *)
(* compaction call is a nondeterministic choice.                           *)
(***************************************************************************)
EXTENDS Naturals, Sequences, FiniteSets

CONSTANTS
  ToolCalls,            \* the distinct tool calls (name and arguments) a model may ask for
  MaxBatch,             \* bound: tool calls in one response
  Workers,              \* bound: LLM threads that can be alive at once
  PlanningEnabled,      \* Assistant.planning_enabled
  MaxToolCalls,         \* LoopLimits.max_tool_calls
  MaxIdenticalRepeats,  \* LoopLimits.max_identical_repeats
  MaxToolFailures,      \* LoopLimits.max_consecutive_tool_failures
  MaxLlmRetries,        \* LoopLimits.max_llm_retries
  None                  \* no tool call, no worker, no message

ASSUME LimitsAssumption ==
  /\ MaxToolCalls \in Nat
  /\ MaxIdenticalRepeats \in Nat
  /\ MaxToolFailures \in Nat
  /\ MaxLlmRetries \in Nat
  /\ PlanningEnabled \in BOOLEAN

ASSUME WorkersAssumption == IsFiniteSet(Workers) /\ MaxBatch \in Nat \ {0}

ASSUME NoneAssumption == None \notin ToolCalls /\ None \notin Workers

\* agent_loop.rs: MAX_EMPTY_RESPONSES
MaxEmptyResponses == 3

VARIABLES
  pc,            \* where process_from is
  purpose,       \* which helper made the LLM call being waited on
  attempt,       \* generate_with_retry: retries made so far
  queue,         \* tool calls of the current response still to run
  lastToolCall, identicalRepeats, toolCallCount,
  emptyResponses, consecutiveToolFailures,
  unverifiedMutation, verificationGateUsed,
  cancel,        \* the flag Ctrl+C sets
  result,        \* what the last process_from returned
  alive,         \* LLM worker threads that have not ended
  holder,        \* the worker that holds the model's mutex
  current,       \* the worker of the call being waited on
  channel,       \* what has arrived on that call's channel
  history,       \* ToolStarted/ToolCompleted events of this task, in order
  emitted,       \* how many of each reported event this task has emitted
  lateCalls,     \* LLM calls this turn started after Ctrl+C
  lateTools      \* tool calls this turn started after Ctrl+C

counters == <<lastToolCall, identicalRepeats, toolCallCount, emptyResponses,
              consecutiveToolFailures, unverifiedMutation, verificationGateUsed>>
threads  == <<alive, holder, current, channel>>
late     == <<lateCalls, lateTools>>
vars == <<pc, purpose, attempt, queue, counters, cancel, result, threads,
          history, emitted, late>>

Purposes == {"plan", "compact", "generate"}
Outcomes == {"read", "mutated", "error"}

\* What a worker can send back: a response with tool calls, with text or with
\* neither, or one of the three LlmErrors; "hangup" is the channel closing because
\* the worker stopped without a result, which call_llm reports as RequestFailed.
Batches   == UNION {[1..n -> ToolCalls] : n \in 1..MaxBatch}
Responses == {[kind |-> "tools", calls |-> b] : b \in Batches}
               \cup {[kind |-> k, calls |-> <<>>] : k \in {"text", "empty"}}
Errors    == {[kind |-> k, calls |-> <<>>] :
                k \in {"RequestFailed", "InvalidResponse", "ModelNotFound", "hangup"}}
Answers   == Responses \cup Errors

Aborts == {"LoopDetected", "ToolCallLimitExceeded", "EmptyResponse",
           "TooManyConsecutiveToolFailures"}
Results == Aborts \cup {"None", "Ok", "Llm", "Tool", "Cancelled"}

ReportedEvents == {"RequestCompleted", "RequestFailed", "Cancelled",
                   "AnsweredUnverified", "Verifying"}

IsRetryable(a) == a.kind \in {"RequestFailed", "hangup"}

\* Loop detection: how often in a row this call has now been asked for, and when
\* that is too often.
Repeats(call) == IF lastToolCall = call THEN identicalRepeats + 1 ELSE 1
LoopDetected(n) == n >= MaxIdenticalRepeats

Emit(es) == emitted' = [e \in ReportedEvents |->
                          IF e \in es THEN emitted[e] + 1 ELSE emitted[e]]

-----------------------------------------------------------------------------
Init ==
  /\ pc = "idle" /\ purpose = "generate" /\ attempt = 0 /\ queue = <<>>
  /\ lastToolCall = None /\ identicalRepeats = 0 /\ toolCallCount = 0
  /\ emptyResponses = 0 /\ consecutiveToolFailures = 0
  /\ unverifiedMutation = FALSE /\ verificationGateUsed = FALSE
  /\ cancel = FALSE /\ result = "None"
  /\ alive = {} /\ holder = None /\ current = None /\ channel = None
  /\ history = <<>> /\ emitted = [e \in ReportedEvents |-> 0]
  /\ lateCalls = 0 /\ lateTools = 0

\* The ways process_from returns.  `cancelled` and `abort` report RequestFailed;
\* an LLM or a context error is handed to the caller with `?` and reports nothing.
Return(r, es) ==
  /\ pc' = "idle" /\ result' = r /\ queue' = <<>>
  /\ Emit(es)

CancelledReturn == Return("Cancelled", {"Cancelled", "RequestFailed"})
AbortSilently(r) == Return(r, {})
Abort(r) == Return(r, {"RequestFailed"})

\* instrumented_call_llm and the spawn in call_llm: a fresh channel, a fresh thread.
StartCall(p) ==
  \E w \in Workers \ alive :
    /\ pc' = "waiting" /\ purpose' = p
    /\ alive' = alive \cup {w} /\ current' = w /\ channel' = None
    /\ lateCalls' = IF cancel THEN lateCalls + 1 ELSE lateCalls
    /\ UNCHANGED <<holder, lateTools>>

\* The REPL clears the flag and calls process_from; a context that cannot be
\* read ends the turn at once.  At most two calls of a turn are ever abandoned
\* (LateWorkBounded), so two free threads are enough to start one.
ProcessFrom ==
  /\ pc = "idle" /\ Cardinality(Workers \ alive) >= 2
  /\ cancel' = FALSE
  /\ lastToolCall' = None /\ identicalRepeats' = 0 /\ toolCallCount' = 0
  /\ emptyResponses' = 0 /\ consecutiveToolFailures' = 0
  /\ unverifiedMutation' = FALSE /\ verificationGateUsed' = FALSE
  /\ history' = <<>> /\ emitted' = [e \in ReportedEvents |-> 0]
  /\ lateCalls' = 0 /\ lateTools' = 0
  /\ \/ pc' = (IF PlanningEnabled THEN "planning" ELSE "top") /\ result' = "None"
     \/ pc' = "idle" /\ result' = "Tool"
  /\ UNCHANGED <<purpose, attempt, queue, threads>>

BuildPlan ==
  /\ pc = "planning" /\ StartCall("plan")
  /\ UNCHANGED <<attempt, queue, counters, cancel, result, history, emitted>>

\* The top of the loop: the only cancellation check between two rounds.
LoopTopUnchecked ==
  /\ pc = "top" /\ pc' = "fit"
  /\ UNCHANGED <<purpose, attempt, queue, counters, cancel, result, threads, history,
                 emitted, late>>

LoopTop ==
  /\ pc = "top"
  /\ \/ cancel /\ CancelledReturn
     \/ ~cancel /\ pc' = "fit" /\ UNCHANGED <<result, queue, emitted>>
  /\ UNCHANGED <<purpose, attempt, counters, cancel, threads, history, late>>

\* fit_to_budget: a round that is over budget, and has added evictable messages,
\* may make one more LLM call to summarise them.
FitToBudget ==
  /\ pc = "fit"
  /\ \/ /\ toolCallCount > 0 \/ emptyResponses > 0 \/ verificationGateUsed
        /\ StartCall("compact")
     \/ pc' = "thinking" /\ UNCHANGED <<purpose, threads, late>>
  /\ UNCHANGED <<attempt, queue, counters, cancel, result, history, emitted>>

Generate ==
  /\ pc = "thinking" /\ StartCall("generate") /\ attempt' = 0
  /\ UNCHANGED <<queue, counters, cancel, result, history, emitted>>

NextAttempt == attempt + 1

Retry ==
  /\ pc = "backoff" /\ StartCall("generate") /\ attempt' = NextAttempt
  /\ UNCHANGED <<queue, counters, cancel, result, history, emitted>>

-----------------------------------------------------------------------------
\* call_llm's wait ends with a message on the call's own channel ...
Receive == pc = "waiting" /\ channel # None /\ current' = None /\ channel' = None

\* build_plan and compact: a failure or an unusable answer only means no plan
\* or no summary.
ReceivePlanOrSummary ==
  /\ Receive
  /\ \/ purpose = "plan" /\ pc' = "top"
     \/ purpose = "compact" /\ pc' = "thinking"
  /\ UNCHANGED <<purpose, attempt, queue, counters, cancel, result, alive, holder,
                 history, emitted, late>>

ReceiveFailure ==
  /\ Receive /\ purpose = "generate" /\ channel.msg \in Errors
  /\ LET gaveUp == ~IsRetryable(channel.msg) \/ attempt >= MaxLlmRetries
     IN  \/ gaveUp /\ Return("Llm", {})
         \/ ~gaveUp /\ cancel /\ CancelledReturn
         \/ ~gaveUp /\ ~cancel /\ pc' = "backoff" /\ UNCHANGED <<result, queue, emitted>>
  /\ UNCHANGED <<purpose, attempt, counters, cancel, alive, holder, history, late>>

ReceiveToolCalls ==
  /\ Receive /\ purpose = "generate" /\ channel.msg.kind = "tools"
  /\ pc' = "executing" /\ queue' = channel.msg.calls
  /\ UNCHANGED <<purpose, attempt, counters, cancel, result, alive, holder,
                 history, emitted, late>>

\* A text answer: the verification gate holds the first unverified one back.
ReceiveText ==
  /\ Receive /\ purpose = "generate" /\ channel.msg.kind = "text"
  /\ IF unverifiedMutation /\ ~verificationGateUsed
     THEN /\ verificationGateUsed' = TRUE /\ pc' = "top" /\ Emit({"Verifying"})
          /\ UNCHANGED <<result, queue>>
     ELSE /\ Return("Ok", {"RequestCompleted"} \cup
                          (IF unverifiedMutation THEN {"AnsweredUnverified"} ELSE {}))
          /\ UNCHANGED verificationGateUsed
  /\ UNCHANGED <<purpose, attempt, lastToolCall, identicalRepeats, toolCallCount,
                 emptyResponses, consecutiveToolFailures, unverifiedMutation,
                 cancel, alive, holder, history, late>>

ReceiveEmpty ==
  /\ Receive /\ purpose = "generate" /\ channel.msg.kind = "empty"
  /\ emptyResponses' = emptyResponses + 1
  /\ IF emptyResponses' >= MaxEmptyResponses
     THEN Abort("EmptyResponse")
     ELSE pc' = "top" /\ UNCHANGED <<result, queue, emitted>>
  /\ UNCHANGED <<purpose, attempt, lastToolCall, identicalRepeats, toolCallCount,
                 consecutiveToolFailures, unverifiedMutation, verificationGateUsed,
                 cancel, alive, holder, history, late>>

PollSeesCancel == cancel

AbandonCall ==
  /\ pc = "waiting" /\ PollSeesCancel
  /\ current' = None /\ channel' = None
  /\ \/ purpose = "plan" /\ pc' = "top" /\ UNCHANGED <<result, queue, emitted>>
     \/ purpose = "compact" /\ pc' = "thinking" /\ UNCHANGED <<result, queue, emitted>>
     \/ purpose = "generate" /\ CancelledReturn
  /\ UNCHANGED <<purpose, attempt, counters, cancel, alive, holder, history, late>>

-----------------------------------------------------------------------------
\* The `for tool_call in response.tool_calls` loop, up to its cancellation check.
NextTool ==
  /\ pc = "executing"
  /\ \/ queue = <<>> /\ pc' = "top" /\ UNCHANGED <<result, queue, emitted>>
     \/ queue # <<>> /\ cancel /\ CancelledReturn
     \/ queue # <<>> /\ ~cancel /\ pc' = "calling" /\ UNCHANGED <<result, queue, emitted>>
  /\ UNCHANGED <<purpose, attempt, counters, cancel, threads, history, late>>

\* Loop detection, then the call is counted, reported and handed to the dispatcher.
StartTool ==
  /\ pc = "calling"
  /\ LET call == Head(queue) IN
     /\ lastToolCall' = call
     /\ identicalRepeats' = Repeats(call)
     /\ IF LoopDetected(identicalRepeats')
        THEN /\ Abort("LoopDetected")
             /\ UNCHANGED <<toolCallCount, emptyResponses, history, lateTools>>
        ELSE /\ pc' = "dispatching" /\ queue' = Tail(queue)
             /\ toolCallCount' = toolCallCount + 1 /\ emptyResponses' = 0
             /\ history' = Append(history, [call |-> call, outcome |-> "running"])
             /\ lateTools' = IF cancel THEN lateTools + 1 ELSE lateTools
             /\ UNCHANGED <<result, emitted>>
  /\ UNCHANGED <<purpose, attempt, consecutiveToolFailures, unverifiedMutation,
                 verificationGateUsed, cancel, threads, lateCalls>>

\* A mutation is unverified until any further call is made.
StickyMutation(o) == unverifiedMutation \/ o = "mutated"
LeavesUnverified(o) == o = "mutated"

AboveToolLimit == toolCallCount > MaxToolCalls
ToolLimitReached == toolCallCount >= MaxToolCalls

\* The dispatcher returns: an error is a failed call, a device's own error text is not.
FinishTool ==
  /\ pc = "dispatching"
  /\ \E o \in Outcomes :
       /\ history' = [history EXCEPT ![Len(history)] = [call |-> @.call, outcome |-> o]]
       /\ consecutiveToolFailures' = IF o = "error" THEN consecutiveToolFailures + 1 ELSE 0
       /\ unverifiedMutation' = LeavesUnverified(o)
  /\ \/ /\ consecutiveToolFailures' >= MaxToolFailures
        /\ Abort("TooManyConsecutiveToolFailures")
     \/ /\ consecutiveToolFailures' < MaxToolFailures
        /\ ToolLimitReached /\ Abort("ToolCallLimitExceeded")
     \/ /\ consecutiveToolFailures' < MaxToolFailures /\ ~ToolLimitReached
        /\ pc' = "executing" /\ UNCHANGED <<result, queue, emitted>>
  /\ UNCHANGED <<purpose, attempt, lastToolCall, identicalRepeats, toolCallCount,
                 emptyResponses, verificationGateUsed, cancel, threads, late>>

-----------------------------------------------------------------------------
PressCtrlC ==
  /\ pc # "idle" /\ ~cancel /\ cancel' = TRUE
  /\ UNCHANGED <<pc, purpose, attempt, queue, counters, result, threads, history,
                 emitted, late>>

WorkerLock(w) ==
  /\ w \in alive /\ holder = None /\ holder' = w
  /\ UNCHANGED <<pc, purpose, attempt, queue, counters, cancel, result, alive,
                 current, channel, history, emitted, late>>

\* The worker sends to the channel of the call it was spawned for, which nobody
\* reads any more if that call was abandoned, and drops the mutex.
SentToWhoeverWaits(w, a) == IF current # None THEN [from |-> w, msg |-> a] ELSE channel
Sent(w, a) == IF w = current THEN [from |-> w, msg |-> a] ELSE channel
WorkerSend(w) ==
  /\ holder = w /\ holder' = None /\ alive' = alive \ {w}
  /\ \E a \in Answers : channel' = Sent(w, a)
  /\ UNCHANGED <<pc, purpose, attempt, queue, counters, cancel, result, current,
                 history, emitted, late>>

LoopStep ==
  \/ BuildPlan \/ LoopTop \/ FitToBudget \/ Generate \/ Retry
  \/ ReceivePlanOrSummary \/ ReceiveFailure \/ ReceiveToolCalls \/ ReceiveText
  \/ ReceiveEmpty \/ AbandonCall \/ NextTool \/ StartTool \/ FinishTool

WorkerStep == \E w \in Workers : WorkerLock(w) \/ WorkerSend(w)

Next == ProcessFrom \/ LoopStep \/ PressCtrlC \/ WorkerStep

Spec == Init /\ [][Next]_vars

\* The turn's thread always runs on, and a dispatched tool always returns: every
\* tool and every device invocation is bounded by its own timeout.
LoopFairness == WF_vars(LoopStep)
\* A worker's HTTP client gives up after 300 s, so it always sends or hangs up.
WorkerFairness == WF_vars(WorkerStep)
-----------------------------------------------------------------------------
DataOK ==
  /\ pc \in {"idle", "planning", "top", "fit", "thinking", "waiting", "backoff",
             "executing", "calling", "dispatching"}
  /\ purpose \in Purposes /\ attempt \in Nat /\ queue \in Seq(ToolCalls)
  /\ lastToolCall \in ToolCalls \cup {None}
  /\ identicalRepeats \in Nat /\ toolCallCount \in Nat /\ emptyResponses \in Nat
  /\ consecutiveToolFailures \in Nat /\ result \in Results
  /\ history \in Seq([call : ToolCalls, outcome : Outcomes \cup {"running"}])
  /\ emitted \in [ReportedEvents -> Nat]
  /\ lateCalls \in Nat /\ lateTools \in Nat

ThreadsOK ==
  /\ alive \in SUBSET Workers /\ holder \in alive \cup {None}
  /\ current \in Workers \cup {None}
  /\ channel \in [from : Workers, msg : Answers] \cup {None}

FlagsOK == unverifiedMutation \in BOOLEAN /\ verificationGateUsed \in BOOLEAN
             /\ cancel \in BOOLEAN

\* Every variable holds a value the code's types allow, and only a thread that is
\* alive holds the model's mutex.
TypeOK == DataOK /\ ThreadsOK /\ FlagsOK

\* The number of tools one turn can dispatch: the limit is looked at after a call,
\* so even a limit of zero lets one through.
ToolCap == IF MaxToolCalls = 0 THEN 1 ELSE MaxToolCalls

WithinToolCap == Len(history) <= ToolCap

\* The last k tool calls dispatched up to the i-th are one and the same call.
SameCalls(i, k) == \A j \in (i - k + 1)..i : history[j].call = history[i].call

NoIdenticalRun ==
  \A i \in 1..Len(history) : \A k \in 1..i : SameCalls(i, k) => k < MaxIdenticalRepeats

FailureRunEndsTurn ==
  \A i \in 1..Len(history) :
    (MaxToolFailures \in 1..i /\ \A j \in (i - MaxToolFailures + 1)..i :
                                history[j].outcome = "error")
      => i = Len(history) /\ pc = "idle"

\* Whatever batches the model asks for, and however rounds interleave with
\* failures and retries, a turn never dispatches more tools than its limit, never
\* dispatches the same call max_identical_repeats times in a row, and dispatches
\* nothing after max_consecutive_tool_failures failures in a row (agent_loop.rs,
\* the limit checks of the tool loop).
LimitsHold == WithinToolCap /\ NoIdenticalRun /\ FailureRunEndsTurn

\* A reply is flagged AnsweredUnverified exactly when the last tool the turn ran
\* changed something, and never without the model having been asked, once, to
\* verify (agent_loop.rs, the verification gate).
UnverifiedAnswersAreFlagged ==
  result = "Ok" =>
    LET lastMutated == Len(history) > 0 /\ history[Len(history)].outcome = "mutated"
    IN  /\ emitted["AnsweredUnverified"] = (IF lastMutated THEN 1 ELSE 0)
        /\ lastMutated => emitted["Verifying"] = 1

\* What the sinks are told agrees with what the caller gets: one RequestCompleted
\* for a reply, one RequestFailed for an abort, Cancelled and RequestFailed for a
\* cancelled turn, and nothing terminal while the turn runs or after an LLM or
\* context error (agent_loop.rs: cancelled, abort and the `?` exits).
EventsMatchResult ==
  /\ emitted["RequestCompleted"] = (IF result = "Ok" THEN 1 ELSE 0)
  /\ emitted["RequestFailed"] = (IF result \in Aborts \cup {"Cancelled"} THEN 1 ELSE 0)
  /\ emitted["Cancelled"] = (IF result = "Cancelled" THEN 1 ELSE 0)
  /\ emitted["Verifying"] <= 1
  /\ pc # "idle" => result = "None"

\* Ctrl+C is not checked everywhere, but what slips through is bounded: after it
\* the turn starts at most two more LLM calls (a summary and the round's own) and
\* one more tool (call_llm, LoopTop and the tool loop's check).
LateWorkBounded == lateCalls <= 2 /\ lateTools <= 1

\* The answer a call is given was generated by that call's own worker: a worker
\* abandoned by an earlier call or an earlier turn cannot answer a later one
\* (call_llm: one channel per call).
NoForeignAnswer == channel # None => channel.from = current



\* A cancellation requested while generate_with_retry sleeps is honoured before
\* another LLM call is made, as its doc comment says.  The code does not keep to
\* it: TLC refutes this (README, disagreements), and no run checks it.
NoCallAfterCancelledBackoff ==
  [][pc = "backoff" /\ cancel => pc' # "waiting"]_vars

\* The refinement to TurnSpec.
Turn == INSTANCE TurnSpec WITH
          Outcomes <- Results,
          state <- IF pc = "idle" THEN "idle" ELSE "running",
          stop <- cancel, tools <- Len(history), outcome <- result

\* Every step of the loop is a step of the turn its callers see.
ImplementsTurn == Turn!Spec
=============================================================================
