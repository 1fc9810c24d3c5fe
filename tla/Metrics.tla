------------------------------- MODULE Metrics -------------------------------
(***************************************************************************)
(* The metrics sinks of Nala: every session (a server connection's thread, *)
(* the autonomous loop's, the REPL) wraps its events in its own            *)
(* `CsvMetricsSink` around its own `JsonlMetricsSink`                      *)
(* (apps/nala/src/adapters/metrics), and all of them append to the same    *)
(* files.  `nala metrics report` reads events.jsonl back                   *)
(* (application/metrics_report.rs).                                        *)
(*                                                                         *)
(* An event runs through both sinks on the session's thread.  What the     *)
(* sinks keep is private to it, so it changes in one step; the system      *)
(* calls on the shared files are queued in `todo` and are steps of their   *)
(* own, between which other sessions write and the process may be killed.  *)
(* The texts are reduced to what tells records apart: the task, its        *)
(* status, and for every call its index, status and whether usage is known.*)
(***************************************************************************)
EXTENDS Naturals, Sequences, FiniteSets, FiniteSetsExt, SequencesExt, Functions

CONSTANTS
  Sessions,    \* the threads that each own a chain of sinks
  MaxTasks,    \* bound: tasks started in all
  MaxWork,     \* bound: reported calls, failed system calls and kills in all
  MaxCalls,    \* bound: LLM calls of one task
  ToolOutcomes \* how tools end: some of "ok", "dispatch_error", "device_error"

ASSUME SessionsAssumption == IsFiniteSet(Sessions) /\ Sessions # {}
ASSUME BoundsAssumption == MaxTasks \in Nat /\ MaxWork \in Nat /\ MaxCalls \in Nat

CsvFiles == {"llm_calls", "tool_calls", "tasks"}

VARIABLES
  started,   \* TaskId::new: the process-wide counter
  phase,     \* "gone", "idle" or "running": the session's assistant
  task,      \* the task of the session's last RequestStarted, 0 before it
  index,     \* TaskState.next_call_index
  csv,       \* CsvMetricsSink: tasks, pending (0 or the call awaiting its usage)
  jsonl,     \* JsonlMetricsSink: tasks, pending (as above, with its position)
  todo,      \* the system calls the current event still has to make
  rows,      \* the three CSV files, by task: the order of rows across tasks does not matter
  lines,     \* events.jsonl: records, line ends and torn records
  truth,     \* history: what each task really did, and who ran it
  damaged,   \* history: tasks hit by a failed system call or a kill
  faults

sinks == <<csv, jsonl, todo>>
files == <<rows, lines>>
vars == <<started, phase, task, index, sinks, files, truth, damaged, faults>>

Ends == {"Ok", "Cancelled", "Abort", "Error"}
NoPending == [task |-> 0, call |-> 0, at |-> 0]
NewSink == [tasks |-> <<>>, pending |-> NoPending]

-----------------------------------------------------------------------------
\* The system calls a row or a line takes: write_row looks at the file's length,
\* then appends header and row with one write; append_json_line's writeln! on an
\* unbuffered file makes one write for the record and one for the line end.
WriteRow(f, row) == <<[op |-> "length", file |-> f, what |-> row]>>
WithoutLineEnd(rec) == <<[op |-> "json", file |-> "events", what |-> rec]>>
AppendJsonLine(rec) == <<[op |-> "json", file |-> "events", what |-> rec],
                         [op |-> "newline", file |-> "events", what |-> rec]>>

Without(tasks, t) == Restrict(tasks, DOMAIN tasks \ {t})
With(tasks, t, acc) == [u \in DOMAIN tasks \cup {t} |-> IF u = t THEN acc ELSE tasks[u]]
Quiet(k) == [sink |-> k, io |-> <<>>]

\* The error a task that never completed is recorded with.
Abandoned(acc) == IF acc.error = "" THEN "no terminal event" ELSE acc.error

-----------------------------------------------------------------------------
\* CsvMetricsSink.
CsvAccumulator == [llm |-> 0, tokens |-> 0, tools |-> 0, error |-> ""]

CsvTaskRow(t, acc, status, error) ==
  [task |-> t, status |-> status, error |-> error,
   llm |-> acc.llm, tokens |-> acc.tokens, tools |-> acc.tools]

CsvFinalize(k, t, status) ==
  IF t \in DOMAIN k.tasks
  THEN [sink |-> [k EXCEPT !.tasks = Without(@, t)],
        io |-> WriteRow("tasks", CsvTaskRow(t, k.tasks[t], status, ""))]
  ELSE Quiet(k)

\* flush_abandoned: every open task but `except` ends as an error.
CsvKeepAbandoned(k, except) == Quiet(k)
CsvFlushAbandoned(k, except) ==
  LET stale == SetToSeq(DOMAIN k.tasks \ except)
  IN  [sink |-> [k EXCEPT !.tasks = Restrict(@, DOMAIN @ \cap except)],
       io |-> FlattenSeq([i \in 1..Len(stale) |->
                LET acc == k.tasks[stale[i]]
                IN  WriteRow("tasks", CsvTaskRow(stale[i], acc, "error", Abandoned(acc)))])]

AddCall(acc, known) ==
  [llm |-> acc.llm + 1, tokens |-> acc.tokens + (IF known THEN 1 ELSE 0),
   tools |-> acc.tools, error |-> acc.error]

LlmRow(e, status, tokens) ==
  [task |-> e.task, call |-> e.call, status |-> status, tokens |-> tokens]

\* TokensUsed completes the row that LlmCompleted left pending, if it is that call's.
CsvTokensUsed(k, e) ==
  LET taken == [k EXCEPT !.pending = NoPending] IN
  IF k.pending.task = e.task /\ k.pending.call = e.call
  THEN [sink |-> IF e.task \in DOMAIN k.tasks
                 THEN [taken EXCEPT !.tasks[e.task] = AddCall(@, e.tokens)] ELSE taken,
        io |-> WriteRow("llm_calls", LlmRow(e, "ok", e.tokens))]
  ELSE Quiet(taken)

CsvLlmFailedUncounted(k, e) == [sink |-> k, io |-> WriteRow("llm_calls", LlmRow(e, "error", FALSE))]
CsvLlmFailed(k, e) ==
  [sink |-> IF e.task \in DOMAIN k.tasks
            THEN [k EXCEPT !.tasks[e.task] = AddCall(@, FALSE)] ELSE k,
   io |-> WriteRow("llm_calls", LlmRow(e, "error", FALSE))]

\* A tool's output is an error if it begins with "ERROR:", which the agent loop
\* writes for a dispatcher error; a device's own failure reads "ERROR (code): ..."
\* and counts as a success.
NoErrorSeen(o) == "ok"
ToolStatus(o) == IF o = "dispatch_error" THEN "error" ELSE "ok"

CsvToolCompleted(k, e) ==
  [sink |-> IF e.task \in DOMAIN k.tasks THEN [k EXCEPT !.tasks[e.task].tools = @ + 1] ELSE k,
   io |-> WriteRow("tool_calls", [task |-> e.task, status |-> ToolStatus(e.outcome)])]

CsvRecord(k, e) ==
  CASE e.kind = "RequestStarted" ->
         LET f == CsvFlushAbandoned(k, {e.task})
         IN  [f EXCEPT !.sink.tasks = With(@, e.task, CsvAccumulator)]
    [] e.kind = "LlmCompleted" ->
         Quiet([k EXCEPT !.pending = [task |-> e.task, call |-> e.call, at |-> 0]])
    [] e.kind = "TokensUsed" -> CsvTokensUsed(k, e)
    [] e.kind = "LlmFailed" -> CsvLlmFailed(k, e)
    [] e.kind = "ToolCompleted" -> CsvToolCompleted(k, e)
    [] e.kind = "RequestFailed" ->
         Quiet(IF e.task \in DOMAIN k.tasks THEN [k EXCEPT !.tasks[e.task].error = "reason"] ELSE k)
    [] e.kind = "RequestCompleted" -> CsvFinalize(k, e.task, "ok")
    [] e.kind = "Cancelled" -> CsvFinalize(k, e.task, "cancelled")

-----------------------------------------------------------------------------
\* JsonlMetricsSink: the whole task is one record, kept open until the task ends.
JsonAccumulator == [llm |-> <<>>, tools |-> <<>>, error |-> "", reply |-> FALSE]

TaskRecord(t, acc, status, error) ==
  [task |-> t, status |-> status, error |-> error, reply |-> acc.reply,
   llm |-> acc.llm, tools |-> acc.tools]

JsonFinalize(k, t, status) ==
  IF t \in DOMAIN k.tasks
  THEN [sink |-> [k EXCEPT !.tasks = Without(@, t)],
        io |-> AppendJsonLine(TaskRecord(t, k.tasks[t], status, k.tasks[t].error))]
  ELSE Quiet(k)

JsonFlushAbandoned(k, except) ==
  LET stale == SetToSeq(DOMAIN k.tasks \ except)
  IN  [sink |-> [k EXCEPT !.tasks = Restrict(@, DOMAIN @ \cap except)],
       io |-> FlattenSeq([i \in 1..Len(stale) |->
                LET acc == k.tasks[stale[i]]
                IN  AppendJsonLine(TaskRecord(stale[i], acc, "error", Abandoned(acc)))])]

Call(e, status) == [call |-> e.call, status |-> status, tokens |-> FALSE]

\* A completed call is recorded at once, and patched when its usage comes.
JsonTokensUsed(k, e) ==
  LET taken == [k EXCEPT !.pending = NoPending] IN
  IF k.pending.task = e.task /\ k.pending.call = e.call /\ e.task \in DOMAIN k.tasks
  THEN Quiet([taken EXCEPT !.tasks[e.task].llm[k.pending.at].tokens = e.tokens])
  ELSE Quiet(taken)

JsonOpenTask(k, e) ==
  CASE e.kind = "LlmCompleted" ->
         Quiet([tasks |-> [k.tasks EXCEPT ![e.task].llm = Append(@, Call(e, "ok"))],
                pending |-> [task |-> e.task, call |-> e.call,
                             at |-> Len(k.tasks[e.task].llm) + 1]])
    [] e.kind = "LlmFailed" ->
         Quiet([k EXCEPT !.tasks[e.task].llm = Append(@, Call(e, "error"))])
    [] e.kind = "ToolCompleted" ->
         Quiet([k EXCEPT !.tasks[e.task].tools = Append(@, ToolStatus(e.outcome))])
    [] e.kind = "RequestFailed" -> Quiet([k EXCEPT !.tasks[e.task].error = "reason"])
    [] e.kind = "RequestCompleted" ->
         JsonFinalize([k EXCEPT !.tasks[e.task].reply = TRUE], e.task, "ok")
    [] e.kind = "Cancelled" -> JsonFinalize(k, e.task, "cancelled")

JsonRecord(k, e) ==
  CASE e.kind = "RequestStarted" ->
         LET f == JsonFlushAbandoned(k, {e.task})
         IN  [f EXCEPT !.sink.tasks = With(@, e.task, JsonAccumulator)]
    [] e.kind = "TokensUsed" -> JsonTokensUsed(k, e)
    [] OTHER -> IF e.task \in DOMAIN k.tasks THEN JsonOpenTask(k, e) ELSE Quiet(k)

-----------------------------------------------------------------------------
\* emit: the CSV sink records the event, then hands it to the JSONL sink.
Through(st, e) ==
  LET c == CsvRecord(st.csv, e)
      j == JsonRecord(st.jsonl, e)
  IN  [csv |-> c.sink, jsonl |-> j.sink, io |-> st.io \o c.io \o j.io]

Sinks(s) == [csv |-> csv[s], jsonl |-> jsonl[s], io |-> <<>>]

\* The sinks become st, and what it takes to write is still to do.
Emit(s, st) ==
  /\ csv' = [csv EXCEPT ![s] = st.csv]
  /\ jsonl' = [jsonl EXCEPT ![s] = st.jsonl]
  /\ todo' = [todo EXCEPT ![s] = st.io]

Event(s, kind) == [kind |-> kind, task |-> task[s], call |-> index[s],
                   tokens |-> FALSE, outcome |-> "ok"]

\* The bound on what may still happen.
Work == faults + MapThenSumSet(LAMBDA t : Len(truth[t].llm) + Len(truth[t].tools), DOMAIN truth)
WorkLeft == Work < MaxWork

-----------------------------------------------------------------------------
Init ==
  /\ started = 0 /\ phase = [s \in Sessions |-> "gone"]
  /\ task = [s \in Sessions |-> 0] /\ index = [s \in Sessions |-> 0]
  /\ csv = [s \in Sessions |-> NewSink] /\ jsonl = [s \in Sessions |-> NewSink]
  /\ todo = [s \in Sessions |-> <<>>]
  /\ rows = [f \in CsvFiles |-> [t \in 0..MaxTasks |-> <<>>]] /\ lines = <<>>
  /\ truth = <<>> /\ damaged = {} /\ faults = 0

\* build_events for a new connection, for the autonomous loop or for the REPL.
Connect(s) ==
  /\ phase[s] = "gone" /\ todo[s] = <<>>
  /\ phase' = [phase EXCEPT ![s] = "idle"]
  /\ task' = [task EXCEPT ![s] = 0] /\ index' = [index EXCEPT ![s] = 0]
  /\ csv' = [csv EXCEPT ![s] = NewSink] /\ jsonl' = [jsonl EXCEPT ![s] = NewSink]
  /\ UNCHANGED <<started, todo, files, truth, damaged, faults>>

\* process_from begins.
StartTask(s) ==
  /\ phase[s] = "idle" /\ todo[s] = <<>> /\ started < MaxTasks
  /\ started' = started + 1
  /\ phase' = [phase EXCEPT ![s] = "running"]
  /\ task' = [task EXCEPT ![s] = started'] /\ index' = [index EXCEPT ![s] = 0]
  /\ Emit(s, Through(Sinks(s), [Event(s, "RequestStarted") EXCEPT !.task = started']))
  /\ truth' = Append(truth, [by |-> s, llm |-> <<>>, tools |-> <<>>, end |-> "none"])
  /\ UNCHANGED <<files, damaged, faults>>

\* instrumented_call_llm: a call answers (with or without its usage), fails, or is
\* cancelled, which no event tells.
CallLlm(s) ==
  /\ phase[s] = "running" /\ todo[s] = <<>> /\ WorkLeft /\ index[s] < MaxCalls
  /\ index' = [index EXCEPT ![s] = @ + 1]
  /\ LET e(kind) == [Event(s, kind) EXCEPT !.call = index'[s]]
         did(status, tokens) ==
           truth' = [truth EXCEPT ![task[s]].llm =
                       Append(@, [call |-> index'[s], status |-> status, tokens |-> tokens])]
     IN  \/ \E known \in BOOLEAN :
              /\ Emit(s, Through(Through(Sinks(s), e("LlmCompleted")),
                                 [e("TokensUsed") EXCEPT !.tokens = known]))
              /\ did("ok", known)
         \/ Emit(s, Through(Sinks(s), e("LlmFailed"))) /\ did("error", FALSE)
         \/ UNCHANGED <<sinks, truth>>
  /\ UNCHANGED <<started, phase, task, files, damaged, faults>>

RunTool(s) ==
  /\ phase[s] = "running" /\ todo[s] = <<>> /\ WorkLeft
  /\ \E o \in ToolOutcomes :
       /\ Emit(s, Through(Sinks(s), [Event(s, "ToolCompleted") EXCEPT !.outcome = o]))
       /\ truth' = [truth EXCEPT ![task[s]].tools = Append(@, o)]
  /\ UNCHANGED <<started, phase, task, index, files, damaged, faults>>

\* process_from returns: with a reply, cancelled, aborted by a limit, or with an
\* LLM or context error, which emits nothing.
AtEnd(s, r) ==
  CASE r = "Ok" -> Through(Sinks(s), Event(s, "RequestCompleted"))
    [] r = "Cancelled" -> Through(Through(Sinks(s), Event(s, "Cancelled")), Event(s, "RequestFailed"))
    [] r = "Abort" -> Through(Sinks(s), Event(s, "RequestFailed"))
    [] r = "Error" -> Sinks(s)

EndTask(s, r) ==
  /\ phase[s] = "running" /\ todo[s] = <<>>
  /\ phase' = [phase EXCEPT ![s] = "idle"]
  /\ Emit(s, AtEnd(s, r))
  /\ truth' = [truth EXCEPT ![task[s]].end = r]
  /\ UNCHANGED <<started, task, index, files, damaged, faults>>

\* The session ends and its sinks are dropped, the outer one first.
Disconnect(s) ==
  /\ phase[s] = "idle" /\ todo[s] = <<>>
  /\ phase' = [phase EXCEPT ![s] = "gone"]
  /\ LET c == CsvFlushAbandoned(csv[s], {})
         j == JsonFlushAbandoned(jsonl[s], {})
     IN  /\ csv' = [csv EXCEPT ![s] = c.sink] /\ jsonl' = [jsonl EXCEPT ![s] = j.sink]
         /\ todo' = [todo EXCEPT ![s] = c.io \o j.io]
  /\ UNCHANGED <<started, task, index, files, truth, damaged, faults>>

-----------------------------------------------------------------------------
\* The next system call of a session.
Done(s) == todo' = [todo EXCEPT ![s] = Tail(@)]

Header == [task |-> 0]
IsEmpty(f) == \A t \in DOMAIN rows[f] : rows[f][t] = <<>>

\* write_row finds the file empty, and will write a header: so may another session
\* that looks before this one writes.  A file that is not empty stays so, hence
\* looking at it and appending to it are one step.
LookAtLength(s) ==
  /\ todo[s] # <<>> /\ Head(todo[s]).op = "length" /\ IsEmpty(Head(todo[s]).file)
  /\ todo' = [todo EXCEPT ![s][1].op = "header_and_row"]
  /\ UNCHANGED <<started, phase, task, index, csv, jsonl, files, truth, damaged, faults>>

AppendRow(s) ==
  /\ todo[s] # <<>>
  /\ LET f == Head(todo[s]).file
         row == Head(todo[s]).what
         added == [rows[f] EXCEPT ![row.task] = Append(@, row)]
     IN  \/ /\ Head(todo[s]).op = "header_and_row"
            /\ rows' = [rows EXCEPT ![f] = [added EXCEPT ![0] = Append(@, Header)]]
         \/ /\ Head(todo[s]).op = "length" /\ ~IsEmpty(f)
            /\ rows' = [rows EXCEPT ![f] = added]
  /\ Done(s)
  /\ UNCHANGED <<started, phase, task, index, csv, jsonl, lines, truth, damaged, faults>>

LineEnd == [task |-> 0, what |-> "newline"]
Torn == [task |-> 0, what |-> "torn"]

AppendToLines(s) ==
  /\ todo[s] # <<>> /\ Head(todo[s]).op \in {"json", "newline"}
  /\ lines' = Append(lines, IF Head(todo[s]).op = "json" THEN Head(todo[s]).what ELSE LineEnd)
  /\ Done(s)
  /\ UNCHANGED <<started, phase, task, index, csv, jsonl, rows, truth, damaged, faults>>

\* A system call fails: a warning is printed and the row or line is given up.
SystemCallFails(s) ==
  /\ todo[s] # <<>> /\ WorkLeft /\ faults' = faults + 1
  /\ damaged' = damaged \cup {Head(todo[s]).what.task}
  /\ todo' = [todo EXCEPT ![s] = SubSeq(@, IF Head(@).op = "json" THEN 3 ELSE 2, Len(@))]
  /\ UNCHANGED <<started, phase, task, index, csv, jsonl, files, truth>>

\* The process is killed, and started again: the sinks are not dropped.  A record
\* being written may be cut off.
Kill ==
  /\ WorkLeft /\ faults' = faults + 1
  /\ damaged' = damaged \cup UNION {DOMAIN csv[s].tasks \cup DOMAIN jsonl[s].tasks
                                      \cup {todo[s][i].what.task : i \in DOMAIN todo[s]} :
                                    s \in Sessions}
  /\ lines' \in {lines} \cup {Append(lines, Torn) :
                  s \in {x \in Sessions : todo[x] # <<>> /\ Head(todo[x]).op = "json"}}
  /\ phase' = [s \in Sessions |-> "gone"] /\ todo' = [s \in Sessions |-> <<>>]
  /\ csv' = [s \in Sessions |-> NewSink] /\ jsonl' = [s \in Sessions |-> NewSink]
  /\ UNCHANGED <<started, task, index, rows, truth>>

Step(s) ==
  \/ Connect(s) \/ StartTask(s) \/ CallLlm(s) \/ RunTool(s) \/ Disconnect(s)
  \/ \E r \in Ends : EndTask(s, r)
  \/ LookAtLength(s) \/ AppendRow(s) \/ AppendToLines(s) \/ SystemCallFails(s)

Next == Kill \/ \E s \in Sessions : Step(s)

Spec == Init /\ [][Next]_vars
-----------------------------------------------------------------------------
\* parse_events: a line is read if it holds one whole record, and nothing else.
IsRecord(piece) == piece.task # 0
Readable(i) ==
  /\ IsRecord(lines[i])
  /\ i > 1 => lines[i - 1] = LineEnd
  /\ i < Len(lines) => lines[i + 1] = LineEnd

ParseEvents == {i \in 1..Len(lines) : Readable(i)}

\* The calls of a list whose tokens are known, and the tools that ended as x.
WithTokens(calls) == {j \in DOMAIN calls : calls[j].tokens}
EndedAs(tools, x) == {j \in DOMAIN tools : tools[j] = x}

\* The number of things all of the sets have.
Total(sets) == Cardinality(UNION {{i} \X sets[i] : i \in DOMAIN sets})

\* build_report: the totals over the lines read, without the rankings by source and
\* by name, the durations and the prices.
BuildReport ==
  [total_tasks |-> Cardinality(ParseEvents),
   total_tokens |-> Total([i \in ParseEvents |-> WithTokens(lines[i].llm)]),
   tool_usage |-> Total([i \in ParseEvents |-> DOMAIN lines[i].tools]),
   tool_errors |-> Total([i \in ParseEvents |-> EndedAs(lines[i].tools, "error")])]

-----------------------------------------------------------------------------
\* The task is over and the session that ran it has moved on, so that whatever
\* its sinks had to say of it has been said.
Settled(t) ==
  LET s == truth[t].by
  IN  todo[s] = <<>> /\ (task[s] # t \/ phase[s] = "gone" \/ truth[t].end \in {"Ok", "Cancelled"})

StatusOf(end) == CASE end = "Ok" -> "ok" [] end = "Cancelled" -> "cancelled" [] OTHER -> "error"
ErrorOf(end) == CASE end \in {"Ok", "Cancelled"} -> "" [] end = "Abort" -> "reason"
                  [] OTHER -> "no terminal event"

\* Every task that ends, however it ends and whichever event its turn leaves out,
\* has one row in tasks.csv and one record in events.jsonl, and both say how it
\* ended and why (finalize_task and flush_abandoned, from RequestStarted and from
\* Drop), unless a system call of its own failed or the process was killed.
RecordedOnce ==
  \A t \in 1..started : (Settled(t) /\ t \notin damaged) =>
    /\ Len(rows["tasks"][t]) = 1
    /\ Cardinality({i \in DOMAIN lines : lines[i].task = t}) = 1
    /\ rows["tasks"][t][1].status = StatusOf(truth[t].end)
    /\ rows["tasks"][t][1].error = ErrorOf(truth[t].end)
    /\ \A i \in DOMAIN lines : lines[i].task = t =>
         lines[i].status = StatusOf(truth[t].end) /\ lines[i].error = ErrorOf(truth[t].end)
           /\ lines[i].reply = (truth[t].end = "Ok")

\* The row of a task counts the very rows the other two files hold for it, and its
\* record lists the same calls, each with its own usage (handle_tokens_used, the
\* pairing of LlmCompleted with TokensUsed, and LlmFailed).
CountsAgree ==
  /\ \A t \in 1..started \ damaged : \A i \in DOMAIN rows["tasks"][t] :
       LET row == rows["tasks"][t][i] IN
       /\ row.llm = Len(rows["llm_calls"][t]) /\ row.tools = Len(rows["tool_calls"][t])
       /\ row.tokens = Cardinality(WithTokens(rows["llm_calls"][t]))
  /\ \A i \in DOMAIN lines : IsRecord(lines[i]) =>
       /\ lines[i].llm = truth[lines[i].task].llm
       /\ Len(lines[i].tools) = Len(truth[lines[i].task].tools)

\* The tasks the report reads are counted once each, and its totals are the usage
\* and the tools of those very tasks: spoilt lines take whole tasks out of the totals
\* and never change what is said of the others (parse_events, build_report).  Its
\* errors are the dispatcher's alone: a device's own failure counts as a success,
\* as in tool_status.
ReportIsSound ==
  LET read == {lines[i].task : i \in ParseEvents}
  IN  /\ BuildReport.total_tasks = Cardinality(read)
      /\ BuildReport.total_tokens = Total([t \in read |-> WithTokens(truth[t].llm)])
      /\ BuildReport.tool_usage = Total([t \in read |-> DOMAIN truth[t].tools])
      /\ BuildReport.tool_errors =
           Total([t \in read |-> EndedAs(truth[t].tools, "dispatch_error")])

\* The piece beside a record that spoils its line: a torn record, one of another
\* session, or one whose line end was lost to a failed write or a kill.
Glued(i) ==
  \E j \in {i - 1, i + 1} \cap (1..Len(lines)) :
    \/ lines[j] = Torn
    \/ /\ IsRecord(lines[j])
       /\ \/ lines[j].task \in damaged
          \/ truth[lines[j].task].by # truth[lines[i].task].by

\* A task that is over and that the report does not have was hit by a failed call or
\* a kill, or its record shares its line with a torn record, with one of another
\* session or with one that lost its line end: a session that writes alone and
\* undisturbed never spoils its own lines (append_json_line, parse_events).
MissedTasksAreGlued ==
  \A t \in 1..started :
    (Settled(t) /\ t \notin damaged /\ t \notin {lines[i].task : i \in ParseEvents}) =>
      \E i \in 1..Len(lines) : lines[i].task = t /\ Glued(i)

\* Every completed task's record is one line of events.jsonl, as the module's doc
\* comment says: the report reads every record that was written.  TLC refutes this
\* with two sessions (README, disagreements); no run checks it.
EveryRecordIsRead ==
  \A t \in 1..started : (Settled(t) /\ t \notin damaged) =>
    \E i \in ParseEvents : lines[i].task = t
=============================================================================
