---------------------------- MODULE MetricsProofs ----------------------------
(***************************************************************************)
(* Proofs about Metrics, for any number of sessions, tasks, calls and      *)
(* faults.                                                                 *)
(*                                                                         *)
(* The properties speak of files several sessions append to in turn, and   *)
(* each rests on the same invariant, MetricsInv: a session holds at most   *)
(* one open task, in both of its sinks, which have counted and listed what *)
(* the task did; what it has left to write is the row of that task's last  *)
(* call, or the row and the record of one task that is over; and every     *)
(* task of which neither is due has, unless damaged, one right row and one *)
(* right record, and never more than one.                                  *)
(*                                                                         *)
(* The lemmas go from an event in one sink, to a step of one session and   *)
(* the tasks it ran (LocalOK, on constants), to the actions.               *)
(***************************************************************************)
EXTENDS Metrics, SequenceTheorems, FiniteSetTheorems, TLAPS

-----------------------------------------------------------------------------
(***************************************************************************)
(* Sequences, and what the sinks do with each event.                       *)
(***************************************************************************)

\* A sequence, of whatever.
AnySeq(q) == Len(q) \in Nat /\ q = [i \in 1..Len(q) |-> q[i]]

\* Sequences of anything: the empty one, and one with an element more.
LEMMA EmptyIsASeq == AnySeq(<<>>)
BY DEF AnySeq

LEMMA AppendIsASeq ==
  ASSUME NEW q, AnySeq(q), NEW x
  PROVE  /\ AnySeq(Append(q, x)) /\ Len(Append(q, x)) = Len(q) + 1
         /\ \A i \in 1..Len(q) : Append(q, x)[i] = q[i]
         /\ Append(q, x)[Len(q) + 1] = x
<1> DEFINE S == {q[i] : i \in 1..Len(q)} \cup {x}
<1>1. q \in Seq(S) /\ x \in S
  BY DEF AnySeq
<1> HIDE DEF S
<1>2. /\ Append(q, x) \in Seq(S) /\ Len(Append(q, x)) = Len(q) + 1
      /\ \A i \in 1..Len(q) : Append(q, x)[i] = q[i]
      /\ Append(q, x)[Len(q) + 1] = x
  BY <1>1, AppendProperties
<1>3. \A a \in Seq(S) : AnySeq(a)
  BY DEF AnySeq
<1> QED BY <1>2, <1>3

\* What SetToSeq and FlattenSeq give a sink that holds one task, or none.
LEMMA SetOfOneToSeq == \A x : SetToSeq({x}) = <<x>>
<1> SUFFICES ASSUME NEW x PROVE SetToSeq({x}) = <<x>>
  OBVIOUS
<1>1. Cardinality({x}) = 1
  BY FS_Singleton
<1>2. <<x>> \in [1..1 -> {x}] /\ IsInjective(<<x>>)
  BY DEF IsInjective
<1>3. \A f \in [1..1 -> {x}] : f = <<x>>
  OBVIOUS
<1> QED BY <1>1, <1>2, <1>3 DEF SetToSeq

LEMMA NoneToSeq == Len(SetToSeq({})) = 0
<1>1. Cardinality({}) = 0
  BY FS_EmptySet
<1>2. <<>> \in [1..0 -> {}] /\ IsInjective(<<>>)
  BY DEF IsInjective
<1>3. \A f \in [1..0 -> {}] : Len(f) = 0
  OBVIOUS
<1> QED BY <1>1, <1>2, <1>3 DEF SetToSeq

LEMMA FlattenOne == \A q : FlattenSeq(<<q>>) = q
<1> SUFFICES ASSUME NEW q PROVE FlattenSeq(<<q>>) = q
  OBVIOUS
<1> DEFINE F(g) == g = [i \in 1..1 |-> IF i = 1 THEN <<q>>[i] ELSE g[i - 1] \o <<q>>[i]]
           h == CHOOSE g : F(g)
<1>1. F([i \in 1..1 |-> q])
  OBVIOUS
<1>2. F(h)
  BY <1>1
<1>3. h[1] = q
  <2> HIDE DEF h
  <2> QED BY <1>2
<1> QED BY <1>3 DEF FlattenSeq

\* A sink that waits for no usage and has no task open, or one.
Idle(k) == k = [tasks |-> k.tasks, pending |-> NoPending] /\ DOMAIN k.tasks = {}
Holds(k, t) ==
  k = [tasks |-> k.tasks, pending |-> NoPending] /\ k.tasks = [u \in {t} |-> k.tasks[t]]

CsvAcc(a) ==
  /\ a = [llm |-> a.llm, tokens |-> a.tokens, tools |-> a.tools, error |-> a.error]
  /\ a.llm \in Nat /\ a.tokens \in Nat /\ a.tools \in Nat
JsonAcc(a) ==
  /\ a = [llm |-> a.llm, tools |-> a.tools, error |-> a.error, reply |-> a.reply]
  /\ AnySeq(a.llm) /\ AnySeq(a.tools)

Op(o, f, w) == [op |-> o, file |-> f, what |-> w]

\* flush_abandoned of a sink without an open task, and of one that holds task t.
LEMMA CsvFlushIdle ==
  ASSUME NEW k, Idle(k), NEW x
  PROVE  Idle(CsvFlushAbandoned(k, x).sink) /\ CsvFlushAbandoned(k, x).io = <<>>
<1> DEFINE stale == SetToSeq(DOMAIN k.tasks \ x)
           io == [i \in 1..Len(stale) |->
                LET acc == k.tasks[stale[i]]
                IN  WriteRow("tasks", CsvTaskRow(stale[i], acc, "error", Abandoned(acc)))]
<1>1. DOMAIN k.tasks \ x = {} /\ DOMAIN k.tasks \cap x = {}
  BY DEF Idle
<1>2. Len(stale) = 0
  BY <1>1, NoneToSeq
<1>3. Len(io) = 0 /\ io = <<>>
  <2> HIDE DEF stale
  <2> QED BY <1>2
<1>4. FlattenSeq(io) = <<>>
  <2> HIDE DEF io
  <2> QED BY <1>3 DEF FlattenSeq
<1>5. CsvFlushAbandoned(k, x).io = FlattenSeq(io)
  BY DEF CsvFlushAbandoned
<1>6. CsvFlushAbandoned(k, x).sink = [k EXCEPT !.tasks = Restrict(@, DOMAIN @ \cap x)]
  BY DEF CsvFlushAbandoned
<1>7. Idle([k EXCEPT !.tasks = Restrict(@, DOMAIN @ \cap x)])
  BY <1>1 DEF Idle, Restrict
<1> QED BY <1>4, <1>5, <1>6, <1>7

LEMMA CsvFlushOne ==
  ASSUME NEW k, NEW t, Holds(k, t), NEW x, t \notin x
  PROVE  /\ Idle(CsvFlushAbandoned(k, x).sink)
         /\ CsvFlushAbandoned(k, x).io =
              <<Op("length", "tasks", CsvTaskRow(t, k.tasks[t], "error", Abandoned(k.tasks[t])))>>
<1> DEFINE stale == SetToSeq(DOMAIN k.tasks \ x)
           w(u) == CsvTaskRow(u, k.tasks[u], "error", Abandoned(k.tasks[u]))
           io == [i \in 1..Len(stale) |-> WriteRow("tasks", w(stale[i]))]
<1>1. DOMAIN k.tasks \ x = {t} /\ DOMAIN k.tasks \cap x = {}
  BY DEF Holds
<1>2. stale = <<t>>
  BY <1>1, SetOfOneToSeq
<1> HIDE DEF stale, w
<1>3. io = <<WriteRow("tasks", w(t))>>
  BY <1>2
<1>4. FlattenSeq(io) = WriteRow("tasks", w(t))
  <2> HIDE DEF io
  <2> QED BY <1>3, FlattenOne
<1>5. CsvFlushAbandoned(k, x).io = FlattenSeq(io)
  BY DEF CsvFlushAbandoned, stale, w
<1>6. CsvFlushAbandoned(k, x).sink = [k EXCEPT !.tasks = Restrict(@, DOMAIN @ \cap x)]
  BY DEF CsvFlushAbandoned
<1>7. Idle([k EXCEPT !.tasks = Restrict(@, DOMAIN @ \cap x)])
  BY <1>1 DEF Idle, Holds, Restrict
<1>8. WriteRow("tasks", w(t)) = <<Op("length", "tasks", w(t))>>
  BY DEF WriteRow, Op
<1> QED BY <1>4, <1>5, <1>6, <1>7, <1>8 DEF w

\* The same of the JSONL sink.
LEMMA JsonFlushIdle ==
  ASSUME NEW k, Idle(k), NEW x
  PROVE  Idle(JsonFlushAbandoned(k, x).sink) /\ JsonFlushAbandoned(k, x).io = <<>>
<1> DEFINE stale == SetToSeq(DOMAIN k.tasks \ x)
           io == [i \in 1..Len(stale) |->
                LET acc == k.tasks[stale[i]]
                IN  AppendJsonLine(TaskRecord(stale[i], acc, "error", Abandoned(acc)))]
<1>1. DOMAIN k.tasks \ x = {} /\ DOMAIN k.tasks \cap x = {}
  BY DEF Idle
<1>2. Len(stale) = 0
  BY <1>1, NoneToSeq
<1>3. Len(io) = 0 /\ io = <<>>
  <2> HIDE DEF stale
  <2> QED BY <1>2
<1>4. FlattenSeq(io) = <<>>
  <2> HIDE DEF io
  <2> QED BY <1>3 DEF FlattenSeq
<1>5. JsonFlushAbandoned(k, x).io = FlattenSeq(io)
  BY DEF JsonFlushAbandoned
<1>6. JsonFlushAbandoned(k, x).sink = [k EXCEPT !.tasks = Restrict(@, DOMAIN @ \cap x)]
  BY DEF JsonFlushAbandoned
<1>7. Idle([k EXCEPT !.tasks = Restrict(@, DOMAIN @ \cap x)])
  BY <1>1 DEF Idle, Restrict
<1> QED BY <1>4, <1>5, <1>6, <1>7

LEMMA JsonFlushOne ==
  ASSUME NEW k, NEW t, Holds(k, t), NEW x, t \notin x
  PROVE  /\ Idle(JsonFlushAbandoned(k, x).sink)
         /\ JsonFlushAbandoned(k, x).io =
              AppendJsonLine(TaskRecord(t, k.tasks[t], "error", Abandoned(k.tasks[t])))
<1> DEFINE stale == SetToSeq(DOMAIN k.tasks \ x)
           w(u) == TaskRecord(u, k.tasks[u], "error", Abandoned(k.tasks[u]))
           io == [i \in 1..Len(stale) |-> AppendJsonLine(w(stale[i]))]
<1>1. DOMAIN k.tasks \ x = {t} /\ DOMAIN k.tasks \cap x = {}
  BY DEF Holds
<1>2. stale = <<t>>
  BY <1>1, SetOfOneToSeq
<1> HIDE DEF stale, w
<1>3. io = <<AppendJsonLine(w(t))>>
  BY <1>2
<1>4. FlattenSeq(io) = AppendJsonLine(w(t))
  <2> HIDE DEF io
  <2> QED BY <1>3, FlattenOne
<1>5. JsonFlushAbandoned(k, x).io = FlattenSeq(io)
  BY DEF JsonFlushAbandoned, stale, w
<1>6. JsonFlushAbandoned(k, x).sink = [k EXCEPT !.tasks = Restrict(@, DOMAIN @ \cap x)]
  BY DEF JsonFlushAbandoned
<1>7. Idle([k EXCEPT !.tasks = Restrict(@, DOMAIN @ \cap x)])
  BY <1>1 DEF Idle, Holds, Restrict
<1> QED BY <1>4, <1>5, <1>6, <1>7 DEF w

\* What the events of a session do to the CSV sink.
LEMMA CsvStarts ==
  ASSUME NEW k, NEW e, e.kind = "RequestStarted", Idle(CsvFlushAbandoned(k, {e.task}).sink)
  PROVE  /\ Holds(CsvRecord(k, e).sink, e.task)
         /\ CsvRecord(k, e).sink.tasks[e.task] = CsvAccumulator
         /\ CsvRecord(k, e).io = CsvFlushAbandoned(k, {e.task}).io
<1> DEFINE f == CsvFlushAbandoned(k, {e.task})
<1>1. f = [sink |-> f.sink, io |-> f.io] /\ Idle(f.sink)
  BY DEF CsvFlushAbandoned
<1>2. CsvRecord(k, e) = [f EXCEPT !.sink.tasks = With(@, e.task, CsvAccumulator)]
  BY DEF CsvRecord
<1> HIDE DEF f
<1>3. CsvRecord(k, e) =
        [sink |-> [tasks |-> With(f.sink.tasks, e.task, CsvAccumulator), pending |-> NoPending],
         io |-> f.io]
  BY <1>1, <1>2 DEF Idle
<1>4. With(f.sink.tasks, e.task, CsvAccumulator) = [u \in {e.task} |-> CsvAccumulator]
  BY <1>1 DEF Idle, With
<1> QED BY <1>3, <1>4 DEF Holds, f

AnswerCounted(k, t, d, e) ==
  LET m == CsvRecord(k, d)
      n == CsvRecord(m.sink, e)
  IN  /\ m.io = <<>> /\ n.io = <<Op("length", "llm_calls", LlmRow(e, "ok", e.tokens))>>
      /\ Holds(n.sink, t) /\ n.sink.tasks[t] = AddCall(k.tasks[t], e.tokens)

\* An answered call is counted, with its usage, and its row is to be written.
LEMMA CsvAnswered ==
  ASSUME NEW k, NEW t, Holds(k, t), NEW d, NEW e,
         d.kind = "LlmCompleted", d.task = t, e.kind = "TokensUsed", e.task = t, e.call = d.call
  PROVE  AnswerCounted(k, t, d, e)
<1> DEFINE a == k.tasks[t]
           w == LlmRow(e, "ok", e.tokens)
           b == AddCall(a, e.tokens)
           m == CsvRecord(k, d)
           n == CsvRecord(m.sink, e)
           p == [task |-> t, call |-> d.call, at |-> 0]
<1>1. m = [sink |-> [tasks |-> k.tasks, pending |-> p], io |-> <<>>]
  BY DEF CsvRecord, Quiet, Holds
<1>2. n = CsvTokensUsed(m.sink, e)
  BY DEF CsvRecord
<1> DEFINE taken == [m.sink EXCEPT !.pending = NoPending]
<1>3. taken = [tasks |-> k.tasks, pending |-> NoPending]
  BY <1>1
<1>4. m.sink.pending.task = e.task /\ m.sink.pending.call = e.call /\ e.task \in DOMAIN m.sink.tasks
  BY <1>1 DEF Holds
<1> HIDE DEF m, n
<1>5. n = [sink |-> [taken EXCEPT !.tasks[e.task] = AddCall(@, e.tokens)],
           io |-> WriteRow("llm_calls", LlmRow(e, "ok", e.tokens))]
  BY <1>2, <1>4 DEF CsvTokensUsed
<1> HIDE DEF taken
<1>6. [taken EXCEPT !.tasks[e.task] = AddCall(@, e.tokens)]
      = [tasks |-> [u \in {t} |-> AddCall(a, e.tokens)], pending |-> NoPending]
  BY <1>3 DEF Holds
<1>7. Holds(n.sink, t) /\ n.sink.tasks[t] = b
  <2>1. n.sink = [tasks |-> [u \in {t} |-> b], pending |-> NoPending]
    BY <1>5, <1>6
  <2> HIDE DEF b
  <2> QED BY <2>1 DEF Holds
<1>8. n.io = <<Op("length", "llm_calls", w)>> /\ m.io = <<>>
  BY <1>1, <1>5 DEF WriteRow, Op
<1> HIDE DEF w, b
<1>9. /\ m.io = <<>> /\ n.io = <<Op("length", "llm_calls", w)>>
      /\ Holds(n.sink, t) /\ n.sink.tasks[t] = b
  BY <1>7, <1>8
<1> QED BY <1>9, Zenon DEF AnswerCounted, m, n, w, b

\* So is a failed one, without usage.
LEMMA CsvFails ==
  ASSUME NEW k, NEW t, Holds(k, t), NEW e, e.kind = "LlmFailed", e.task = t
  PROVE  LET n == CsvRecord(k, e)
         IN  /\ n.io = <<Op("length", "llm_calls", LlmRow(e, "error", FALSE))>>
             /\ Holds(n.sink, t) /\ n.sink.tasks[t] = AddCall(k.tasks[t], FALSE)
<1> DEFINE n == CsvRecord(k, e)
           b == AddCall(k.tasks[t], FALSE)
<1>1. n = CsvLlmFailed(k, e)
  BY DEF CsvRecord
<1>2. n = [sink |-> [k EXCEPT !.tasks[e.task] = AddCall(@, FALSE)],
           io |-> WriteRow("llm_calls", LlmRow(e, "error", FALSE))]
  BY <1>1 DEF CsvLlmFailed, Holds
<1>3. [k EXCEPT !.tasks[e.task] = AddCall(@, FALSE)]
      = [tasks |-> [u \in {t} |-> b], pending |-> NoPending]
  <2> DEFINE known == FALSE
  <2> HIDE DEF known
  <2>1. [k EXCEPT !.tasks[e.task] = AddCall(@, known)]
        = [tasks |-> [u \in {t} |-> AddCall(k.tasks[t], known)], pending |-> NoPending]
    BY DEF Holds
  <2> QED BY <2>1 DEF known
<1> HIDE DEF b, n
<1>4. n.sink = [tasks |-> [u \in {t} |-> b], pending |-> NoPending]
  BY <1>2, <1>3
<1>5. Holds(n.sink, t) /\ n.sink.tasks[t] = b
  BY <1>4 DEF Holds
<1>6. n.io = <<Op("length", "llm_calls", LlmRow(e, "error", FALSE))>>
  BY <1>2 DEF WriteRow, Op
<1> QED BY <1>5, <1>6 DEF b, n

\* A tool is counted, and its row is to be written.
LEMMA CsvRunsTool ==
  ASSUME NEW k, NEW t, Holds(k, t), CsvAcc(k.tasks[t]), NEW e, e.kind = "ToolCompleted", e.task = t
  PROVE  LET n == CsvRecord(k, e)
             a == k.tasks[t]
         IN  /\ n.io = <<Op("length", "tool_calls", [task |-> t, status |-> ToolStatus(e.outcome)])>>
             /\ Holds(n.sink, t)
             /\ n.sink.tasks[t] = [llm |-> a.llm, tokens |-> a.tokens, tools |-> a.tools + 1,
                                   error |-> a.error]
<1> DEFINE n == CsvRecord(k, e)
           a == k.tasks[t]
           b == [llm |-> a.llm, tokens |-> a.tokens, tools |-> a.tools + 1, error |-> a.error]
           row == [task |-> t, status |-> ToolStatus(e.outcome)]
<1>1. n = CsvToolCompleted(k, e)
  BY DEF CsvRecord
<1>2. n = [sink |-> [k EXCEPT !.tasks[e.task].tools = @ + 1], io |-> WriteRow("tool_calls", row)]
  BY <1>1 DEF CsvToolCompleted, Holds
<1>3. [a EXCEPT !.tools = @ + 1] = b
  BY DEF CsvAcc
<1>4. [k EXCEPT !.tasks[e.task].tools = @ + 1]
      = [tasks |-> [u \in {t} |-> [a EXCEPT !.tools = @ + 1]], pending |-> NoPending]
  BY DEF Holds
<1> HIDE DEF b, n, row
<1>5. n.sink = [tasks |-> [u \in {t} |-> b], pending |-> NoPending]
  BY <1>2, <1>3, <1>4
<1>6. Holds(n.sink, t) /\ n.sink.tasks[t] = b
  BY <1>5 DEF Holds
<1>7. n.io = <<Op("length", "tool_calls", row)>>
  BY <1>2 DEF WriteRow, Op
<1> QED BY <1>6, <1>7 DEF b, n, row

\* RequestFailed is kept as the error of the open task, and passes where there is none.
LEMMA CsvAborts ==
  ASSUME NEW k, NEW t, Holds(k, t), CsvAcc(k.tasks[t]), NEW e, e.kind = "RequestFailed", e.task = t
  PROVE  LET n == CsvRecord(k, e)
             a == k.tasks[t]
         IN  /\ n.io = <<>> /\ Holds(n.sink, t)
             /\ n.sink.tasks[t] = [llm |-> a.llm, tokens |-> a.tokens, tools |-> a.tools,
                                   error |-> "reason"]
<1> DEFINE n == CsvRecord(k, e)
           a == k.tasks[t]
           b == [llm |-> a.llm, tokens |-> a.tokens, tools |-> a.tools, error |-> "reason"]
<1>1. n = Quiet([k EXCEPT !.tasks[e.task].error = "reason"])
  BY DEF CsvRecord, Holds
<1>3. [a EXCEPT !.error = "reason"] = b
  BY DEF CsvAcc
<1>4. [k EXCEPT !.tasks[e.task].error = "reason"]
      = [tasks |-> [u \in {t} |-> [a EXCEPT !.error = "reason"]], pending |-> NoPending]
  BY DEF Holds
<1> HIDE DEF b, n
<1>5. n.sink = [tasks |-> [u \in {t} |-> b], pending |-> NoPending]
  BY <1>1, <1>3, <1>4 DEF Quiet
<1>6. Holds(n.sink, t) /\ n.sink.tasks[t] = b
  BY <1>5 DEF Holds
<1>7. n.io = <<>>
  BY <1>1 DEF Quiet
<1> QED BY <1>6, <1>7 DEF b, n

LEMMA CsvStaysIdle ==
  ASSUME NEW k, Idle(k), NEW e, e.kind = "RequestFailed"
  PROVE  CsvRecord(k, e) = Quiet(k)
BY DEF CsvRecord, Idle

\* The row and the record of a task that an event tells is over.
EndStatus(e) == IF e.kind = "Cancelled" THEN "cancelled" ELSE "ok"
EndReply(b, e) == IF e.kind = "Cancelled" THEN b.reply ELSE TRUE
EndRow(u, a, e) == CsvTaskRow(u, a, EndStatus(e), "")
EndRec(u, b, e) == [task |-> u, status |-> EndStatus(e), error |-> b.error, reply |-> EndReply(b, e),
                    llm |-> b.llm, tools |-> b.tools]

\* RequestCompleted and Cancelled take the task out, and its row is to be written.
LEMMA CsvEnds ==
  ASSUME NEW k, NEW t, Holds(k, t), NEW e, e.task = t,
         e.kind \in {"RequestCompleted", "Cancelled"}
  PROVE  LET n == CsvRecord(k, e)
         IN  Idle(n.sink) /\ n.io = <<Op("length", "tasks", EndRow(t, k.tasks[t], e))>>
<1> DEFINE n == CsvRecord(k, e)
           status == EndStatus(e)
<1>1. n = CsvFinalize(k, t, status)
  BY DEF CsvRecord, EndStatus
<1> HIDE DEF status
<1>2. n = [sink |-> [k EXCEPT !.tasks = Without(@, t)],
           io |-> WriteRow("tasks", CsvTaskRow(t, k.tasks[t], status, ""))]
  BY <1>1 DEF CsvFinalize, Holds
<1>3. Idle([k EXCEPT !.tasks = Without(@, t)])
  BY DEF Holds, Idle, Without, Restrict
<1> HIDE DEF n
<1>4. n.io = <<Op("length", "tasks", CsvTaskRow(t, k.tasks[t], status, ""))>>
  BY <1>2 DEF WriteRow, Op
<1>5. Idle(n.sink)
  BY <1>2, <1>3
<1> QED BY <1>4, <1>5 DEF n, status, EndRow

\* What they do to the JSONL sink.
LEMMA JsonStarts ==
  ASSUME NEW k, NEW e, e.kind = "RequestStarted", Idle(JsonFlushAbandoned(k, {e.task}).sink)
  PROVE  /\ Holds(JsonRecord(k, e).sink, e.task)
         /\ JsonRecord(k, e).sink.tasks[e.task] = JsonAccumulator
         /\ JsonRecord(k, e).io = JsonFlushAbandoned(k, {e.task}).io
<1> DEFINE f == JsonFlushAbandoned(k, {e.task})
<1>1. f = [sink |-> f.sink, io |-> f.io] /\ Idle(f.sink)
  BY DEF JsonFlushAbandoned
<1>2. JsonRecord(k, e) = [f EXCEPT !.sink.tasks = With(@, e.task, JsonAccumulator)]
  BY DEF JsonRecord
<1> HIDE DEF f
<1>3. JsonRecord(k, e) =
        [sink |-> [tasks |-> With(f.sink.tasks, e.task, JsonAccumulator), pending |-> NoPending],
         io |-> f.io]
  BY <1>1, <1>2 DEF Idle
<1>4. With(f.sink.tasks, e.task, JsonAccumulator) = [u \in {e.task} |-> JsonAccumulator]
  BY <1>1 DEF Idle, With
<1> QED BY <1>3, <1>4 DEF Holds, f

WithUsage(x, y) == [x EXCEPT !.tokens = y]
PatchLast(q, x, y) == [Append(q, x) EXCEPT ![Len(q) + 1].tokens = y]

\* Patching the usage of the last call is appending the call with it.
LEMMA LastPatched ==
  ASSUME NEW q, AnySeq(q), NEW x, NEW y
  PROVE  PatchLast(q, x, y) = Append(q, WithUsage(x, y))
<1> DEFINE z == [x EXCEPT !.tokens = y]
           n == Len(q)
           p == Append(q, x)
           r == Append(q, z)
<1>1. /\ n \in Nat
      /\ p = [i \in 1..(n + 1) |-> p[i]] /\ p[n + 1] = x /\ \A i \in 1..n : p[i] = q[i]
      /\ r = [i \in 1..(n + 1) |-> r[i]] /\ r[n + 1] = z /\ \A i \in 1..n : r[i] = q[i]
  BY AppendIsASeq DEF AnySeq
<1>z. z = [x EXCEPT !.tokens = y]
  OBVIOUS
<1> HIDE DEF p, r, n, z
<1>2. [p EXCEPT ![n + 1].tokens = y] = [i \in 1..(n + 1) |-> IF i = n + 1 THEN z ELSE p[i]]
  <2> DEFINE m == n + 1
             D == 1..(n + 1)
             v == [p EXCEPT ![m] = z]
  <2>1. m \in D /\ p = [i \in D |-> p[i]] /\ p[m] = x
    BY <1>1
  <2> HIDE DEF m, D
  <2>2. [p EXCEPT ![m].tokens = y] = [p EXCEPT ![m] = z]
    BY <2>1, <1>z
  <2>3. v = [p EXCEPT ![m] = z]
    OBVIOUS
  <2> HIDE DEF v
  <2>4. v = [i \in D |-> IF i = m THEN z ELSE p[i]]
    BY <2>1, <2>3
  <2> QED BY <2>2, <2>3, <2>4 DEF m, D
<1>3. \A i \in 1..(n + 1) : (IF i = n + 1 THEN z ELSE p[i]) = r[i]
  <2>1. \A i \in 1..(n + 1) : i = n + 1 \/ i \in 1..n
    BY <1>1
  <2> QED BY <1>1, <2>1
<1>4. [i \in 1..(n + 1) |-> IF i = n + 1 THEN z ELSE p[i]] = r
  BY <1>1, <1>3
<1> QED BY <1>2, <1>4 DEF p, r, n, z, PatchLast, WithUsage

\* One field of an accumulator changes.
LEMMA JsonFields ==
  ASSUME NEW a, JsonAcc(a), NEW y
  PROVE  /\ [a EXCEPT !.llm = y] = [llm |-> y, tools |-> a.tools, error |-> a.error, reply |-> a.reply]
         /\ [a EXCEPT !.tools = y] = [llm |-> a.llm, tools |-> y, error |-> a.error, reply |-> a.reply]
         /\ [a EXCEPT !.error = y] = [llm |-> a.llm, tools |-> a.tools, error |-> y, reply |-> a.reply]
         /\ [a EXCEPT !.reply = y] = [llm |-> a.llm, tools |-> a.tools, error |-> a.error, reply |-> y]
<1> DEFINE b == [a EXCEPT !.llm = y]
           c == [a EXCEPT !.tools = y]
           d == [a EXCEPT !.error = y]
           e == [a EXCEPT !.reply = y]
<1>0. a = [llm |-> a.llm, tools |-> a.tools, error |-> a.error, reply |-> a.reply]
  BY DEF JsonAcc
<1>1. b = [a EXCEPT !.llm = y] /\ c = [a EXCEPT !.tools = y]
      /\ d = [a EXCEPT !.error = y] /\ e = [a EXCEPT !.reply = y]
  OBVIOUS
<1> HIDE DEF b, c, d, e
<1>2. b = [llm |-> y, tools |-> a.tools, error |-> a.error, reply |-> a.reply]
  BY <1>0, <1>1
<1>3. c = [llm |-> a.llm, tools |-> y, error |-> a.error, reply |-> a.reply]
  BY <1>0, <1>1
<1>4. d = [llm |-> a.llm, tools |-> a.tools, error |-> y, reply |-> a.reply]
  BY <1>0, <1>1
<1>5. e = [llm |-> a.llm, tools |-> a.tools, error |-> a.error, reply |-> y]
  BY <1>0, <1>1
<1> QED BY <1>2, <1>3, <1>4, <1>5 DEF b, c, d, e

\* LlmCompleted and TokensUsed together record one call, with its usage.
LEMMA JsonAnswered ==
  ASSUME NEW k, NEW t, Holds(k, t), JsonAcc(k.tasks[t]), NEW d, NEW e,
         d.kind = "LlmCompleted", d.task = t, e.kind = "TokensUsed", e.task = t, e.call = d.call
  PROVE  LET m == JsonRecord(k, d)
             n == JsonRecord(m.sink, e)
             a == k.tasks[t]
             c == [call |-> d.call, status |-> "ok", tokens |-> e.tokens]
         IN  /\ m.io = <<>> /\ n.io = <<>> /\ Holds(n.sink, t)
             /\ n.sink.tasks[t] = [llm |-> Append(a.llm, c), tools |-> a.tools, error |-> a.error,
                                   reply |-> a.reply]
<1> DEFINE a == k.tasks[t]
           c0 == Call(d, "ok")
           c == [call |-> d.call, status |-> "ok", tokens |-> e.tokens]
           m == JsonRecord(k, d)
           n == JsonRecord(m.sink, e)
           p == [task |-> t, call |-> d.call, at |-> Len(a.llm) + 1]
           a0 == [llm |-> Append(a.llm, c0), tools |-> a.tools, error |-> a.error, reply |-> a.reply]
           b == [llm |-> Append(a.llm, c), tools |-> a.tools, error |-> a.error, reply |-> a.reply]
<1>1. c = [c0 EXCEPT !.tokens = e.tokens]
  BY DEF Call
<1>2. m = Quiet([tasks |-> [k.tasks EXCEPT ![t].llm = Append(@, c0)], pending |-> p])
  BY DEF JsonRecord, JsonOpenTask, Holds
<1> HIDE DEF c0, c
<1>3. [a EXCEPT !.llm = Append(@, c0)] = a0
  BY JsonFields
<1>4. [k.tasks EXCEPT ![t].llm = Append(@, c0)] = [u \in {t} |-> [a EXCEPT !.llm = Append(@, c0)]]
  BY DEF Holds
<1> HIDE DEF a0, m, n
<1>5. m = [sink |-> [tasks |-> [u \in {t} |-> a0], pending |-> p], io |-> <<>>]
  BY <1>2, <1>3, <1>4 DEF Quiet
<1>6. n = JsonTokensUsed(m.sink, e)
  BY DEF JsonRecord, n
<1> DEFINE taken == [m.sink EXCEPT !.pending = NoPending]
<1>7. taken = [tasks |-> [u \in {t} |-> a0], pending |-> NoPending]
  BY <1>5
<1>8. m.sink.pending.task = e.task /\ m.sink.pending.call = e.call /\ e.task \in DOMAIN m.sink.tasks
      /\ m.sink.pending.at = Len(a.llm) + 1
  BY <1>5
<1>9. n = Quiet([taken EXCEPT !.tasks[t].llm[Len(a.llm) + 1].tokens = e.tokens])
  BY <1>6, <1>8 DEF JsonTokensUsed
<1> HIDE DEF taken
<1>10. [taken EXCEPT !.tasks[t].llm[Len(a.llm) + 1].tokens = e.tokens]
       = [tasks |-> [u \in {t} |-> [a0 EXCEPT !.llm[Len(a.llm) + 1].tokens = e.tokens]],
          pending |-> NoPending]
  BY <1>7
<1>11. [a0 EXCEPT !.llm[Len(a.llm) + 1].tokens = e.tokens] = b
  <2>1. [Append(a.llm, c0) EXCEPT ![Len(a.llm) + 1].tokens = e.tokens] = Append(a.llm, c)
    <3> DEFINE q == a.llm
               y == e.tokens
    <3>1. AnySeq(q) /\ c = [c0 EXCEPT !.tokens = y]
      BY <1>1 DEF JsonAcc
    <3> HIDE DEF q, y
    <3>2. PatchLast(q, c0, y) = Append(q, WithUsage(c0, y))
      BY <3>1, LastPatched
    <3>3. WithUsage(c0, y) = c
      BY <3>1 DEF WithUsage
    <3>4. PatchLast(q, c0, y) = Append(q, c)
      BY <3>2, <3>3
    <3> QED BY <3>4 DEF q, y, PatchLast
  <2>2. JsonAcc(a0) /\ a0.llm = Append(a.llm, c0)
    <3>1. AnySeq(Append(a.llm, c0)) /\ AnySeq(a.tools)
      BY AppendIsASeq DEF JsonAcc
    <3> QED BY <3>1 DEF JsonAcc, a0
  <2>3. [a0 EXCEPT !.llm = Append(a.llm, c)] = b
    <3> DEFINE y == Append(a.llm, c)
    <3>1. a0.tools = a.tools /\ a0.error = a.error /\ a0.reply = a.reply
      BY DEF a0
    <3> HIDE DEF y
    <3>2. [a0 EXCEPT !.llm = y] = [llm |-> y, tools |-> a0.tools, error |-> a0.error, reply |-> a0.reply]
      BY <2>2, JsonFields
    <3> QED BY <3>1, <3>2 DEF y
  <2>4. [a0 EXCEPT !.llm[Len(a.llm) + 1].tokens = e.tokens]
        = [a0 EXCEPT !.llm = [a0.llm EXCEPT ![Len(a.llm) + 1].tokens = e.tokens]]
    BY <2>2
  <2> QED BY <2>1, <2>2, <2>3, <2>4
<1> HIDE DEF b
<1>12. n.sink = [tasks |-> [u \in {t} |-> b], pending |-> NoPending] /\ n.io = <<>>
  BY <1>9, <1>10, <1>11 DEF Quiet
<1>13. Holds(n.sink, t) /\ n.sink.tasks[t] = b
  BY <1>12 DEF Holds
<1>14. m.io = <<>>
  BY <1>5
<1> QED BY <1>12, <1>13, <1>14 DEF m, n, b, c

\* A failed call is recorded.
LEMMA JsonFails ==
  ASSUME NEW k, NEW t, Holds(k, t), JsonAcc(k.tasks[t]), NEW e, e.kind = "LlmFailed", e.task = t
  PROVE  LET n == JsonRecord(k, e)
             a == k.tasks[t]
             y == Append(k.tasks[t].llm, Call(e, "error"))
          IN  /\ n.io = <<>> /\ Holds(n.sink, t)
              /\ n.sink.tasks[t] = [llm |-> y, tools |-> a.tools, error |-> a.error, reply |-> a.reply]
<1> DEFINE n == JsonRecord(k, e)
           a == k.tasks[t]
           y == Append(k.tasks[t].llm, Call(e, "error"))
           b == [llm |-> y, tools |-> a.tools, error |-> a.error, reply |-> a.reply]
<1>1. n = Quiet([k EXCEPT !.tasks[t].llm = y])
  BY DEF JsonRecord, JsonOpenTask, Holds
<1> HIDE DEF y
<1>2. [a EXCEPT !.llm = y] = b
  BY JsonFields
<1>3. [k EXCEPT !.tasks[t].llm = y] = [tasks |-> [u \in {t} |-> [a EXCEPT !.llm = y]], pending |-> NoPending]
  BY DEF Holds
<1> HIDE DEF b, n
<1>4. n.sink = [tasks |-> [u \in {t} |-> b], pending |-> NoPending] /\ n.io = <<>>
  BY <1>1, <1>2, <1>3 DEF Quiet
<1>5. Holds(n.sink, t) /\ n.sink.tasks[t] = b
  BY <1>4 DEF Holds
<1> QED BY <1>4, <1>5 DEF b, n, y

\* A tool is recorded by its status.
LEMMA JsonRunsTool ==
  ASSUME NEW k, NEW t, Holds(k, t), JsonAcc(k.tasks[t]), NEW e, e.kind = "ToolCompleted", e.task = t
  PROVE  LET n == JsonRecord(k, e)
             a == k.tasks[t]
             y == Append(k.tasks[t].tools, ToolStatus(e.outcome))
          IN  /\ n.io = <<>> /\ Holds(n.sink, t)
              /\ n.sink.tasks[t] = [llm |-> a.llm, tools |-> y, error |-> a.error, reply |-> a.reply]
<1> DEFINE n == JsonRecord(k, e)
           a == k.tasks[t]
           y == Append(k.tasks[t].tools, ToolStatus(e.outcome))
           b == [llm |-> a.llm, tools |-> y, error |-> a.error, reply |-> a.reply]
<1>1. n = Quiet([k EXCEPT !.tasks[t].tools = y])
  BY DEF JsonRecord, JsonOpenTask, Holds
<1> HIDE DEF y
<1>2. [a EXCEPT !.tools = y] = b
  BY JsonFields
<1>3. [k EXCEPT !.tasks[t].tools = y] = [tasks |-> [u \in {t} |-> [a EXCEPT !.tools = y]], pending |-> NoPending]
  BY DEF Holds
<1> HIDE DEF b, n
<1>4. n.sink = [tasks |-> [u \in {t} |-> b], pending |-> NoPending] /\ n.io = <<>>
  BY <1>1, <1>2, <1>3 DEF Quiet
<1>5. Holds(n.sink, t) /\ n.sink.tasks[t] = b
  BY <1>4 DEF Holds
<1> QED BY <1>4, <1>5 DEF b, n, y

\* RequestFailed, as in the CSV sink.
LEMMA JsonAborts ==
  ASSUME NEW k, NEW t, Holds(k, t), JsonAcc(k.tasks[t]), NEW e, e.kind = "RequestFailed", e.task = t
  PROVE  LET n == JsonRecord(k, e)
             a == k.tasks[t]
             y == "reason"
          IN  /\ n.io = <<>> /\ Holds(n.sink, t)
              /\ n.sink.tasks[t] = [llm |-> a.llm, tools |-> a.tools, error |-> y, reply |-> a.reply]
<1> DEFINE n == JsonRecord(k, e)
           a == k.tasks[t]
           y == "reason"
           b == [llm |-> a.llm, tools |-> a.tools, error |-> y, reply |-> a.reply]
<1>1. n = Quiet([k EXCEPT !.tasks[t].error = y])
  BY DEF JsonRecord, JsonOpenTask, Holds
<1> HIDE DEF y
<1>2. [a EXCEPT !.error = y] = b
  BY JsonFields
<1>3. [k EXCEPT !.tasks[t].error = y] = [tasks |-> [u \in {t} |-> [a EXCEPT !.error = y]], pending |-> NoPending]
  BY DEF Holds
<1> HIDE DEF b, n
<1>4. n.sink = [tasks |-> [u \in {t} |-> b], pending |-> NoPending] /\ n.io = <<>>
  BY <1>1, <1>2, <1>3 DEF Quiet
<1>5. Holds(n.sink, t) /\ n.sink.tasks[t] = b
  BY <1>4 DEF Holds
<1> QED BY <1>4, <1>5 DEF b, n, y

LEMMA JsonStaysIdle ==
  ASSUME NEW k, Idle(k), NEW e, e.kind = "RequestFailed"
  PROVE  JsonRecord(k, e) = Quiet(k)
BY DEF JsonRecord, Idle

\* The whole task is one record, to be written with its line end.
LEMMA JsonEnds ==
  ASSUME NEW k, NEW t, Holds(k, t), JsonAcc(k.tasks[t]), NEW e, e.task = t,
         e.kind \in {"RequestCompleted", "Cancelled"}
  PROVE  LET n == JsonRecord(k, e)
         IN  Idle(n.sink) /\ n.io = AppendJsonLine(EndRec(t, k.tasks[t], e))
<1> DEFINE n == JsonRecord(k, e)
           a == k.tasks[t]
           status == IF e.kind = "Cancelled" THEN "cancelled" ELSE "ok"
           reply == IF e.kind = "Cancelled" THEN a.reply ELSE TRUE
           b == [llm |-> a.llm, tools |-> a.tools, error |-> a.error, reply |-> reply]
           l == [k EXCEPT !.tasks[t].reply = TRUE]
<1>1. \E j : Holds(j, t) /\ j.tasks[t] = b /\ n = JsonFinalize(j, t, status)
  <2>1. CASE e.kind = "Cancelled"
    <3>1. n = JsonFinalize(k, t, status)
      BY <2>1 DEF JsonRecord, JsonOpenTask, Holds
    <3>2. k.tasks[t] = b
      BY <2>1 DEF JsonAcc
    <3> QED BY <3>1, <3>2
  <2>2. CASE e.kind = "RequestCompleted"
    <3>1. n = JsonFinalize(l, t, status)
      BY <2>2 DEF JsonRecord, JsonOpenTask, Holds
    <3> DEFINE y == TRUE
    <3>a. b = [llm |-> a.llm, tools |-> a.tools, error |-> a.error, reply |-> y]
          /\ l = [k EXCEPT !.tasks[t].reply = y]
      BY <2>2
    <3> HIDE DEF y, b, l
    <3>2. [a EXCEPT !.reply = y] = b
      BY <3>a, JsonFields
    <3>3. l = [tasks |-> [u \in {t} |-> [a EXCEPT !.reply = y]], pending |-> NoPending]
      BY <3>a DEF Holds
    <3>4. l = [tasks |-> [u \in {t} |-> b], pending |-> NoPending]
      BY <3>2, <3>3
    <3>5. Holds(l, t) /\ l.tasks[t] = b
      BY <3>4 DEF Holds
    <3> QED BY <3>1, <3>5
  <2> QED BY <2>1, <2>2
<1>2. PICK j : Holds(j, t) /\ j.tasks[t] = b /\ n = JsonFinalize(j, t, status)
  BY <1>1
<1>3. n = [sink |-> [j EXCEPT !.tasks = Without(@, t)],
           io |-> AppendJsonLine(TaskRecord(t, b, status, b.error))]
  <2> HIDE DEF b, status, n
  <2> QED BY <1>2 DEF JsonFinalize, Holds
<1>4. Idle([j EXCEPT !.tasks = Without(@, t)])
  BY <1>2 DEF Holds, Idle, Without, Restrict
<1>5. TaskRecord(t, b, status, b.error) = EndRec(t, a, e)
  <2>1. status = EndStatus(e) /\ reply = EndReply(a, e)
    BY Zenon DEF EndStatus, EndReply
  <2> HIDE DEF status, reply
  <2> QED BY <2>1 DEF TaskRecord, EndRec
<1> HIDE DEF n
<1>6. Idle(n.sink) /\ n.io = AppendJsonLine(TaskRecord(t, b, status, b.error))
  <2> HIDE DEF b, status
  <2> QED BY <1>3, <1>4
<1> QED BY <1>5, <1>6 DEF n

-----------------------------------------------------------------------------
(***************************************************************************)
(* The invariant.  A session's sinks and what it has left to write (csv,   *)
(* jsonl, todo), the files (rows, lines) and what each task really did     *)
(* (truth) are related for each session by itself: the only thing sessions *)
(* share is the files, where each writes of its own tasks.                 *)
(***************************************************************************)

\* What is left to do of a session: the row of a call; the row and the record of a
\* task that is over, or what remains of that.
IsRowOp(x, fs) ==
  x = Op(x.op, x.file, x.what) /\ x.op \in {"length", "header_and_row"} /\ x.file \in fs
IsLineOp(x, o) == x = Op(o, "events", x.what)

QCall(q) == Len(q) = 1 /\ q = <<q[1]>> /\ IsRowOp(q[1], {"llm_calls", "tool_calls"})
QRow(q) ==
  /\ Len(q) = 3 /\ q = <<q[1], q[2], q[3]>> /\ IsRowOp(q[1], {"tasks"})
  /\ IsLineOp(q[2], "json") /\ IsLineOp(q[3], "newline")
  /\ q[2].what.task = q[1].what.task /\ q[3].what = q[2].what
QRec(q) ==
  /\ Len(q) = 2 /\ q = <<q[1], q[2]>>
  /\ IsLineOp(q[1], "json") /\ IsLineOp(q[2], "newline") /\ q[2].what = q[1].what
QEnd(q) == Len(q) = 1 /\ q = <<q[1]>> /\ IsLineOp(q[1], "newline")

\* The tasks whose row, and whose record, a session has still to write.
RowsDue(k, q) == DOMAIN k.tasks \cup (IF QRow(q) THEN {q[1].what.task} ELSE {})
RecordsDue(k, q) == DOMAIN k.tasks \cup (IF QRow(q) \/ QRec(q) THEN {q[1].what.task} ELSE {})

\* A row and a record that say what the task r did.
Statuses(tools) == [j \in 1..Len(tools) |-> ToolStatus(tools[j])]
GoodRow(w, r, rl, rt) ==
  /\ w.status = StatusOf(r.end) /\ w.error = ErrorOf(r.end)
  /\ w.llm = Len(rl) /\ w.tools = Len(rt) /\ w.tokens = Cardinality(WithTokens(rl))
GoodRec(w, r) ==
  /\ w.status = StatusOf(r.end) /\ w.error = ErrorOf(r.end) /\ w.reply = (r.end = "Ok")
  /\ w.llm = r.llm /\ w.tools = Statuses(r.tools)

\* The files and a task t: D and E are the tasks whose row and record are due, r what
\* t did, rl, rt, rk its rows, dm the damaged tasks and ln the lines.
FileOK(t, D, E, r, rl, rt, rk, dm, ln) ==
  /\ t \in D => rk = <<>>
  /\ t \notin D /\ t \notin dm => Len(rk) = 1 /\ GoodRow(rk[1], r, rl, rt)
  /\ t \in E => \A i \in 1..Len(ln) : ln[i].task # t
  /\ \A i, j \in 1..Len(ln) : ln[i].task = t /\ ln[j].task = t => i = j
  /\ t \notin E /\ t \notin dm => \E i \in 1..Len(ln) : ln[i].task = t
  /\ \A i \in 1..Len(ln) : ln[i].task = t => GoodRec(ln[i], r)

\* The accumulators a and b of the open task, r what it did so far.
ErrorSoFar(end) == IF end = "Abort" THEN "reason" ELSE ""
OpenOK(ph, a, b, r) ==
  /\ CsvAcc(a) /\ JsonAcc(b)
  /\ \/ ph = "running" /\ r.end = "none"
     \/ ph = "idle" /\ r.end \in {"Abort", "Error"}
  /\ a.error = ErrorSoFar(r.end) /\ b.error = ErrorSoFar(r.end)
  /\ b.reply = FALSE /\ b.llm = r.llm /\ b.tools = Statuses(r.tools)

\* It has counted the rows written and the one still to write.
CountsOK(a, q, rl, rt) ==
  \/ /\ ~QCall(q) /\ a.llm = Len(rl) /\ a.tools = Len(rt) /\ a.tokens = Cardinality(WithTokens(rl))
  \/ /\ QCall(q) /\ q[1].file = "llm_calls" /\ a.llm = Len(rl) + 1 /\ a.tools = Len(rt)
     /\ a.tokens = Cardinality(WithTokens(rl)) + (IF q[1].what.tokens THEN 1 ELSE 0)
  \/ /\ QCall(q) /\ q[1].file = "tool_calls" /\ a.llm = Len(rl) /\ a.tools = Len(rt) + 1
     /\ a.tokens = Cardinality(WithTokens(rl))

\* What session s has still to write is of its own tasks, and right; n tasks have
\* been started, tr is what they did, rw the rows.
QueueOK(s, u, k, q, n, tr, rw, dm) ==
  \/ q = <<>>
  \/ QCall(q) /\ q[1].what.task = u /\ u \in DOMAIN k.tasks
  \/ /\ QRow(q) \/ QRec(q) \/ QEnd(q)
     /\ LET c == q[1].what.task IN
          /\ c \in 1..n /\ tr[c].by = s /\ c \notin DOMAIN k.tasks
          /\ QRow(q) => /\ GoodRec(q[2].what, tr[c])
                        /\ c \notin dm => GoodRow(q[1].what, tr[c], rw["llm_calls"][c], rw["tool_calls"][c])
          /\ QRec(q) => GoodRec(q[1].what, tr[c])

\* Session s, whose last task is u.
SessionOK(s, u, ph, k, j, q, n, tr, rw, dm) ==
  /\ u \in 0..n /\ (u # 0 => tr[u].by = s) /\ ph \in {"gone", "idle", "running"}
  /\ \/ Idle(k) /\ Idle(j) /\ ph # "running"
     \/ /\ Holds(k, u) /\ Holds(j, u) /\ u # 0 /\ OpenOK(ph, k.tasks[u], j.tasks[u], tr[u])
        /\ u \notin dm => CountsOK(k.tasks[u], q, rw["llm_calls"][u], rw["tool_calls"][u])
  /\ QueueOK(s, u, k, q, n, tr, rw, dm)

\* The shapes of things.
TruthOK(n, tr) ==
  /\ n \in 0..MaxTasks /\ AnySeq(tr) /\ Len(tr) = n
  /\ \A t \in 1..n : /\ tr[t] = [by |-> tr[t].by, llm |-> tr[t].llm, tools |-> tr[t].tools, end |-> tr[t].end]
                     /\ tr[t].by \in Sessions /\ AnySeq(tr[t].llm) /\ AnySeq(tr[t].tools)
RowsOK(n, rw) ==
  /\ rw = [f \in CsvFiles |-> rw[f]]
  /\ \A f \in CsvFiles : /\ rw[f] = [t \in 0..MaxTasks |-> rw[f][t]]
                         /\ \A t \in 0..MaxTasks : AnySeq(rw[f][t])
                         /\ \A t \in (n + 1)..MaxTasks : rw[f][t] = <<>>
LinesOK(n, ln) == AnySeq(ln) /\ \A i \in 1..Len(ln) : ln[i].task \in 0..n
ShapesOK ==
  /\ phase = [s \in Sessions |-> phase[s]] /\ task = [s \in Sessions |-> task[s]]
  /\ csv = [s \in Sessions |-> csv[s]] /\ jsonl = [s \in Sessions |-> jsonl[s]]
  /\ todo = [s \in Sessions |-> todo[s]]

\* All that is said of session s and of the tasks it ran.
LocalOK(s, u, ph, k, j, q, n, tr, rw, dm, ln) ==
  /\ SessionOK(s, u, ph, k, j, q, n, tr, rw, dm)
  /\ \A t \in 1..n : tr[t].by = s =>
       FileOK(t, RowsDue(k, q), RecordsDue(k, q), tr[t],
              rw["llm_calls"][t], rw["tool_calls"][t], rw["tasks"][t], dm, ln)

Local(s) ==
  LocalOK(s, task[s], phase[s], csv[s], jsonl[s], todo[s], started, truth, rows, damaged, lines)

MetricsInv ==
  /\ ShapesOK /\ TruthOK(started, truth) /\ RowsOK(started, rows) /\ LinesOK(started, lines)
  /\ \A s \in Sessions : Local(s)

\* The concatenations that Through makes.
LEMMA ConcatFacts ==
  /\ <<>> \o <<>> = <<>>
  /\ \A x : <<>> \o <<x>> = <<x>> /\ <<x>> \o <<>> = <<x>>
  /\ \A x, y : <<>> \o <<x, y>> = <<x, y>>
  /\ \A x, y, z : <<x>> \o <<y, z>> = <<x, y, z>> /\ <<x, y, z>> \o <<>> = <<x, y, z>>
<1>1. <<>> \o <<>> = <<>>
  OBVIOUS
<1>2. \A x : <<>> \o <<x>> = <<x>> /\ <<x>> \o <<>> = <<x>>
  OBVIOUS
<1>3. \A x, y : <<>> \o <<x, y>> = <<x, y>>
  OBVIOUS
<1>4. ASSUME NEW x, NEW y, NEW z PROVE <<x>> \o <<y, z>> = <<x, y, z>>
  <2> DEFINE S == {x, y, z}
             q == <<x>> \o <<y, z>>
  <2>1. <<x>> \in Seq(S) /\ <<y, z>> \in Seq(S)
    OBVIOUS
  <2>2. /\ q \in Seq(S) /\ Len(q) = 3
        /\ q[1] = x /\ q[2] = y /\ q[3] = z
    BY <2>1, ConcatProperties
  <2> HIDE DEF q
  <2>3. q = <<x, y, z>>
    BY <2>2
  <2> QED BY <2>3 DEF q
<1>5. \A x, y, z : <<x, y, z>> \o <<>> = <<x, y, z>>
  OBVIOUS
<1> QED BY <1>1, <1>2, <1>3, <1>4, <1>5

\* The kinds of what is left to do exclude each other.
LEMMA EmptyQueue ==
  ASSUME NEW q, q = <<>>
  PROVE  ~QCall(q) /\ ~QRow(q) /\ ~QRec(q) /\ ~QEnd(q)
BY DEF QCall, QRow, QRec, QEnd

LEMMA Kinds ==
  ASSUME NEW q
  PROVE  /\ QCall(q) => q # <<>> /\ ~QRow(q) /\ ~QRec(q) /\ ~QEnd(q)
         /\ QRow(q) => q # <<>> /\ ~QCall(q) /\ ~QRec(q) /\ ~QEnd(q)
         /\ QRec(q) => q # <<>> /\ ~QCall(q) /\ ~QRow(q) /\ ~QEnd(q)
         /\ QEnd(q) => q # <<>> /\ ~QCall(q) /\ ~QRow(q) /\ ~QRec(q)
BY DEF QCall, QRow, QRec, QEnd, IsRowOp, IsLineOp, Op

\* What a call, and what the end of a task, leaves to do.
LEMMA CallQueue ==
  ASSUME NEW f, f \in {"llm_calls", "tool_calls"}, NEW w, NEW q, q = <<Op("length", f, w)>>
  PROVE  QCall(q) /\ q[1].file = f /\ q[1].what = w
BY DEF QCall, IsRowOp, Op

LEMMA EndQueue ==
  ASSUME NEW w, NEW v, v.task = w.task, NEW q,
         q = <<Op("length", "tasks", w), Op("json", "events", v), Op("newline", "events", v)>>
  PROVE  QRow(q) /\ q[1].what = w /\ q[2].what = v
BY DEF QRow, IsRowOp, IsLineOp, Op
\* The lines are as they were, or one more that is not of task t.
OthersLine(t, ln, ln2) == ln2 = ln \/ \E x : ln2 = Append(ln, x) /\ x.task # t

\* What is said of a task stands when nothing of it changes.
LEMMA FileKept ==
  ASSUME NEW t, NEW D, NEW E, NEW D2, NEW E2, NEW r, NEW rl, NEW rt, NEW rk,
         NEW dm, NEW dm2, NEW ln, NEW ln2, AnySeq(ln),
         FileOK(t, D, E, r, rl, rt, rk, dm, ln),
         t \in D <=> t \in D2, t \in E <=> t \in E2, dm \subseteq dm2, OthersLine(t, ln, ln2)
  PROVE  FileOK(t, D2, E2, r, rl, rt, rk, dm2, ln2)
<1>1. CASE ln2 = ln
  BY <1>1 DEF FileOK
<1>2. CASE \E x : ln2 = Append(ln, x) /\ x.task # t
  <2> PICK x : ln2 = Append(ln, x) /\ x.task # t
    BY <1>2
  <2>1. /\ Len(ln) \in Nat /\ Len(ln2) = Len(ln) + 1 /\ ln2[Len(ln) + 1] = x
        /\ \A i \in 1..Len(ln) : ln2[i] = ln[i]
    BY AppendIsASeq DEF AnySeq
  <2>2. \A i \in 1..Len(ln2) : ln2[i].task = t => i \in 1..Len(ln) /\ ln2[i] = ln[i]
    <3> SUFFICES ASSUME NEW i \in 1..Len(ln2), ln2[i].task = t
                 PROVE  i \in 1..Len(ln) /\ ln2[i] = ln[i]
      OBVIOUS
    <3>1. i = Len(ln) + 1 \/ i \in 1..Len(ln)
      BY <2>1
    <3> QED BY <3>1, <2>1
  <2>3. \A i \in 1..Len(ln) : i \in 1..Len(ln2)
    BY <2>1
  <2>4. (\E i \in 1..Len(ln) : ln[i].task = t) => \E i \in 1..Len(ln2) : ln2[i].task = t
    BY <2>1, <2>3
  <2>5. (\A i \in 1..Len(ln) : ln[i].task # t) => \A i \in 1..Len(ln2) : ln2[i].task # t
    BY <2>2
  <2>6. \A i, j \in 1..Len(ln2) : ln2[i].task = t /\ ln2[j].task = t => i = j
    BY <2>2 DEF FileOK
  <2>7. \A i \in 1..Len(ln2) : ln2[i].task = t => GoodRec(ln2[i], r)
    BY <2>2 DEF FileOK
  <2> QED BY <2>4, <2>5, <2>6, <2>7 DEF FileOK
<1> QED BY <1>1, <1>2 DEF OthersLine

\* What is said of a session stands when other sessions act.
LEMMA SessionKept ==
  ASSUME NEW s, NEW u, NEW ph, NEW k, NEW j, NEW q, NEW n \in Nat, NEW tr, NEW rw, NEW dm,
         NEW n2 \in Nat, NEW tr2, NEW rw2, NEW dm2, n <= n2, dm \subseteq dm2,
         SessionOK(s, u, ph, k, j, q, n, tr, rw, dm),
         \A t \in 1..n : tr[t].by = s => /\ tr2[t] = tr[t]
                                        /\ \A f \in CsvFiles : rw2[f][t] = rw[f][t]
  PROVE  SessionOK(s, u, ph, k, j, q, n2, tr2, rw2, dm2)
<1>0. {"llm_calls", "tool_calls"} \subseteq CsvFiles
  BY DEF CsvFiles
<1>1. u \in 0..n2 /\ (u # 0 => u \in 1..n /\ tr[u].by = s /\ tr2[u].by = s)
  BY DEF SessionOK
<1>2. u # 0 => /\ tr2[u] = tr[u] /\ rw2["llm_calls"][u] = rw["llm_calls"][u]
               /\ rw2["tool_calls"][u] = rw["tool_calls"][u]
  BY <1>0, <1>1
<1>3. \/ Idle(k) /\ Idle(j) /\ ph # "running"
      \/ /\ Holds(k, u) /\ Holds(j, u) /\ u # 0 /\ OpenOK(ph, k.tasks[u], j.tasks[u], tr2[u])
         /\ u \notin dm2 => CountsOK(k.tasks[u], q, rw2["llm_calls"][u], rw2["tool_calls"][u])
  BY <1>2 DEF SessionOK
<1>4. QueueOK(s, u, k, q, n2, tr2, rw2, dm2)
  <2> DEFINE c == q[1].what.task
  <2>1. CASE q = <<>> \/ (QCall(q) /\ q[1].what.task = u /\ u \in DOMAIN k.tasks)
    BY <2>1 DEF QueueOK
  <2>2. CASE /\ QRow(q) \/ QRec(q) \/ QEnd(q)
             /\ c \in 1..n /\ tr[c].by = s /\ c \notin DOMAIN k.tasks
             /\ QRow(q) => /\ GoodRec(q[2].what, tr[c])
                           /\ c \notin dm => GoodRow(q[1].what, tr[c], rw["llm_calls"][c], rw["tool_calls"][c])
             /\ QRec(q) => GoodRec(q[1].what, tr[c])
    <3>1. /\ tr2[c] = tr[c] /\ rw2["llm_calls"][c] = rw["llm_calls"][c]
          /\ rw2["tool_calls"][c] = rw["tool_calls"][c]
      BY <1>0, <2>2
    <3>2. c \in 1..n2
      BY <2>2
    <3> QED BY <2>2, <3>1, <3>2 DEF QueueOK
  <2> QED BY <2>1, <2>2 DEF SessionOK, QueueOK
<1>5. ph \in {"gone", "idle", "running"}
  BY DEF SessionOK
<1> QED BY <1>1, <1>2, <1>3, <1>4, <1>5 DEF SessionOK

\* So does what is said of the session and of all its tasks.
LEMMA LocalKept ==
  ASSUME NEW s, NEW u, NEW ph, NEW k, NEW j, NEW q, NEW n \in Nat, NEW tr, NEW rw, NEW dm, NEW ln,
         NEW n2 \in Nat, NEW tr2, NEW rw2, NEW dm2, NEW ln2,
         n <= n2, dm \subseteq dm2, AnySeq(ln),
         LocalOK(s, u, ph, k, j, q, n, tr, rw, dm, ln),
         \A t \in 1..n : tr[t].by = s => /\ tr2[t] = tr[t]
                                        /\ \A f \in CsvFiles : rw2[f][t] = rw[f][t]
                                        /\ OthersLine(t, ln, ln2),
         \A t \in 1..n2 : tr2[t].by = s => t \in 1..n /\ tr[t].by = s
  PROVE  LocalOK(s, u, ph, k, j, q, n2, tr2, rw2, dm2, ln2)
<1>1. SessionOK(s, u, ph, k, j, q, n2, tr2, rw2, dm2)
  BY SessionKept DEF LocalOK
<1>2. ASSUME NEW t \in 1..n2, tr2[t].by = s
      PROVE  FileOK(t, RowsDue(k, q), RecordsDue(k, q), tr2[t],
                    rw2["llm_calls"][t], rw2["tool_calls"][t], rw2["tasks"][t], dm2, ln2)
  <2>1. t \in 1..n /\ tr[t].by = s
    BY <1>2
  <2>2. /\ tr2[t] = tr[t] /\ rw2["llm_calls"][t] = rw["llm_calls"][t]
        /\ rw2["tool_calls"][t] = rw["tool_calls"][t] /\ rw2["tasks"][t] = rw["tasks"][t]
        /\ OthersLine(t, ln, ln2)
    BY <2>1 DEF CsvFiles
  <2>3. FileOK(t, RowsDue(k, q), RecordsDue(k, q), tr[t],
               rw["llm_calls"][t], rw["tool_calls"][t], rw["tasks"][t], dm, ln)
    BY <2>1 DEF LocalOK
  <2> QED BY <2>2, <2>3, FileKept
<1> QED BY <1>1, <1>2 DEF LocalOK

-----------------------------------------------------------------------------
(***************************************************************************)
(* Every kind of step, of one session and its tasks: which tasks' rows and *)
(* records are due before and after it, and that the accumulators, the     *)
(* queue and the files still agree.                                        *)
(***************************************************************************)

\* Nothing can be wrong about a task whose row and record are both due.
LEMMA FileDue ==
  ASSUME NEW t, NEW D, NEW E, NEW D2, NEW E2, NEW r, NEW rl, NEW rt, NEW rk, NEW dm, NEW ln,
         NEW r2, NEW rl2, NEW rt2, NEW dm2,
         FileOK(t, D, E, r, rl, rt, rk, dm, ln), t \in D, t \in E, t \in D2, t \in E2
  PROVE  FileOK(t, D2, E2, r2, rl2, rt2, rk, dm2, ln)
BY DEF FileOK

\* The tasks a sink holds.
LEMMA OpenTasks ==
  ASSUME NEW k, NEW u
  PROVE  (Idle(k) => DOMAIN k.tasks = {}) /\ (Holds(k, u) => DOMAIN k.tasks = {u})
BY DEF Idle, Holds

\* The tasks whose row and record are due, by what is left to do.
LEMMA DueSets ==
  ASSUME NEW k, NEW q
  PROVE  /\ q = <<>> \/ QCall(q) \/ QEnd(q) =>
              RowsDue(k, q) = DOMAIN k.tasks /\ RecordsDue(k, q) = DOMAIN k.tasks
         /\ QRow(q) => /\ RowsDue(k, q) = DOMAIN k.tasks \cup {q[1].what.task}
                       /\ RecordsDue(k, q) = DOMAIN k.tasks \cup {q[1].what.task}
         /\ QRec(q) => /\ RowsDue(k, q) = DOMAIN k.tasks
                       /\ RecordsDue(k, q) = DOMAIN k.tasks \cup {q[1].what.task}
<1>1. q = <<>> => ~QRow(q) /\ ~QRec(q)
  BY EmptyQueue
<1>2. /\ QCall(q) \/ QEnd(q) => ~QRow(q) /\ ~QRec(q)
      /\ QRec(q) => ~QRow(q)
  BY Kinds
<1> QED BY <1>1, <1>2, Zenon DEF RowsDue, RecordsDue

\* The task goes on: a call, a tool, or the end of a task that no event tells.
LEMMA OpenStep ==
  ASSUME NEW s, NEW u, NEW ph, NEW k, NEW j, NEW n \in Nat, NEW tr, NEW rw, NEW dm, NEW ln,
         NEW ph2, NEW k2, NEW j2, NEW q2, NEW tr2,
         AnySeq(ln), LocalOK(s, u, ph, k, j, <<>>, n, tr, rw, dm, ln), Holds(k, u), u # 0,
         ph2 \in {"gone", "idle", "running"}, Holds(k2, u), Holds(j2, u),
         OpenOK(ph2, k2.tasks[u], j2.tasks[u], tr2[u]),
         q2 = <<>> \/ (QCall(q2) /\ q2[1].what.task = u),
         u \notin dm => CountsOK(k2.tasks[u], q2, rw["llm_calls"][u], rw["tool_calls"][u]),
         tr2[u].by = s, \A t \in 1..n : t # u => tr2[t] = tr[t]
  PROVE  LocalOK(s, u, ph2, k2, j2, q2, n, tr2, rw, dm, ln)
<1>1. u \in 1..n /\ tr[u].by = s
  BY DEF LocalOK, SessionOK
<1>2. DOMAIN k.tasks = {u} /\ DOMAIN k2.tasks = {u}
  BY OpenTasks
<1>3. /\ RowsDue(k, <<>>) = {u} /\ RecordsDue(k, <<>>) = {u}
      /\ RowsDue(k2, q2) = {u} /\ RecordsDue(k2, q2) = {u}
  BY <1>2, DueSets
<1>4. SessionOK(s, u, ph2, k2, j2, q2, n, tr2, rw, dm)
  <2>1. QueueOK(s, u, k2, q2, n, tr2, rw, dm)
    BY <1>2 DEF QueueOK
  <2>2. u \in 0..n
    BY <1>1
  <2> QED BY <2>1, <2>2 DEF SessionOK
<1>5. ASSUME NEW t \in 1..n, tr2[t].by = s
      PROVE  FileOK(t, RowsDue(k2, q2), RecordsDue(k2, q2), tr2[t],
                    rw["llm_calls"][t], rw["tool_calls"][t], rw["tasks"][t], dm, ln)
  <2>1. tr[t].by = s
    BY <1>1, <1>5
  <2>2. FileOK(t, {u}, {u}, tr[t], rw["llm_calls"][t], rw["tool_calls"][t], rw["tasks"][t], dm, ln)
    BY <2>1, <1>3 DEF LocalOK
  <2>3. FileOK(t, {u}, {u}, tr2[t], rw["llm_calls"][t], rw["tool_calls"][t], rw["tasks"][t], dm, ln)
    <3>1. CASE t = u
      BY <2>2, <3>1, FileDue
    <3>2. CASE t # u
      BY <2>2, <3>2
    <3> QED BY <3>1, <3>2
  <2> QED BY <2>3, <1>3
<1> QED BY <1>4, <1>5 DEF LocalOK

\* The task is over, and its row and record are left to write.
LEMMA CloseStep ==
  ASSUME NEW s, NEW u, NEW ph, NEW k, NEW j, NEW n \in Nat, NEW tr, NEW rw, NEW dm, NEW ln,
         NEW ph2, NEW k2, NEW j2, NEW q2, NEW tr2,
         AnySeq(ln), LocalOK(s, u, ph, k, j, <<>>, n, tr, rw, dm, ln), Holds(k, u), u # 0,
         ph2 \in {"gone", "idle"}, Idle(k2), Idle(j2), QRow(q2), q2[1].what.task = u,
         GoodRec(q2[2].what, tr2[u]),
         u \notin dm => GoodRow(q2[1].what, tr2[u], rw["llm_calls"][u], rw["tool_calls"][u]),
         tr2[u].by = s, \A t \in 1..n : t # u => tr2[t] = tr[t]
  PROVE  LocalOK(s, u, ph2, k2, j2, q2, n, tr2, rw, dm, ln)
<1>1. u \in 1..n /\ tr[u].by = s
  BY DEF LocalOK, SessionOK
<1>2. DOMAIN k.tasks = {u} /\ DOMAIN k2.tasks = {}
  BY OpenTasks
<1>3. /\ RowsDue(k, <<>>) = {u} /\ RecordsDue(k, <<>>) = {u}
      /\ RowsDue(k2, q2) = {u} /\ RecordsDue(k2, q2) = {u}
  BY <1>2, DueSets
<1>4. SessionOK(s, u, ph2, k2, j2, q2, n, tr2, rw, dm)
  <2>0. ~QRec(q2)
    BY Kinds
  <2>1. QueueOK(s, u, k2, q2, n, tr2, rw, dm)
    BY <1>1, <1>2, <2>0 DEF QueueOK
  <2>2. u \in 0..n /\ ph2 # "running"
    BY <1>1
  <2> QED BY <2>1, <2>2 DEF SessionOK
<1>5. ASSUME NEW t \in 1..n, tr2[t].by = s
      PROVE  FileOK(t, RowsDue(k2, q2), RecordsDue(k2, q2), tr2[t],
                    rw["llm_calls"][t], rw["tool_calls"][t], rw["tasks"][t], dm, ln)
  <2>1. tr[t].by = s
    BY <1>1, <1>5
  <2>2. FileOK(t, {u}, {u}, tr[t], rw["llm_calls"][t], rw["tool_calls"][t], rw["tasks"][t], dm, ln)
    BY <2>1, <1>3 DEF LocalOK
  <2>3. FileOK(t, {u}, {u}, tr2[t], rw["llm_calls"][t], rw["tool_calls"][t], rw["tasks"][t], dm, ln)
    <3>1. CASE t = u
      BY <2>2, <3>1, FileDue
    <3>2. CASE t # u
      BY <2>2, <3>2
    <3> QED BY <3>1, <3>2
  <2> QED BY <2>3, <1>3
<1> QED BY <1>4, <1>5 DEF LocalOK

\* A session without a task stays so.
LEMMA IdleStep ==
  ASSUME NEW s, NEW u, NEW ph, NEW k, NEW j, NEW q, NEW n \in Nat, NEW tr, NEW rw, NEW dm, NEW ln,
         NEW u2, NEW ph2, NEW k2, NEW j2, NEW q2,
         LocalOK(s, u, ph, k, j, q, n, tr, rw, dm, ln), q = <<>>, Idle(k),
         u2 \in {0, u}, ph2 \in {"gone", "idle"}, Idle(k2), Idle(j2), q2 = <<>>
  PROVE  LocalOK(s, u2, ph2, k2, j2, q2, n, tr, rw, dm, ln)
<1>1. /\ RowsDue(k, q) = {} /\ RecordsDue(k, q) = {}
      /\ RowsDue(k2, q2) = {} /\ RecordsDue(k2, q2) = {}
  BY OpenTasks, DueSets
<1>2. u2 \in 0..n /\ (u2 # 0 => tr[u2].by = s)
  BY DEF LocalOK, SessionOK
<1>3. QueueOK(s, u2, k2, q2, n, tr, rw, dm)
  BY DEF QueueOK
<1>4. SessionOK(s, u2, ph2, k2, j2, q2, n, tr, rw, dm)
  BY <1>2, <1>3 DEF SessionOK
<1> QED BY <1>1, <1>4 DEF LocalOK

\* A new task n + 1 begins, and the one it finds open ends.
LEMMA StartStep ==
  ASSUME NEW s, NEW u, NEW ph, NEW k, NEW j, NEW q, NEW n \in Nat, NEW tr, NEW rw, NEW dm, NEW ln,
         NEW k2, NEW j2, NEW q2, NEW tr2, NEW v, v = n + 1,
         AnySeq(ln), LocalOK(s, u, ph, k, j, q, n, tr, rw, dm, ln), q = <<>>,
         \/ Idle(k) /\ q2 = <<>>
         \/ /\ Holds(k, u) /\ u # 0 /\ QRow(q2) /\ q2[1].what.task = u
            /\ GoodRec(q2[2].what, tr[u])
            /\ u \notin dm => GoodRow(q2[1].what, tr[u], rw["llm_calls"][u], rw["tool_calls"][u]),
         Holds(k2, v), Holds(j2, v), OpenOK("running", k2.tasks[v], j2.tasks[v], tr2[v]),
         CountsOK(k2.tasks[v], q2, rw["llm_calls"][v], rw["tool_calls"][v]),
         rw["tasks"][v] = <<>>, \A i \in 1..Len(ln) : ln[i].task \in 0..n,
         tr2[v].by = s, \A t \in 1..n : tr2[t] = tr[t]
  PROVE  LocalOK(s, v, "running", k2, j2, q2, v, tr2, rw, dm, ln)
<1> DEFINE D == RowsDue(k, q)
           E == RecordsDue(k, q)
           D2 == RowsDue(k2, q2)
           E2 == RecordsDue(k2, q2)
<1>0. u \in 0..n /\ (u # 0 => u \in 1..n /\ tr[u].by = s /\ u \in 1..v) /\ u # v /\ v \in 0..v /\ v # 0
  BY DEF LocalOK, SessionOK
<1>1. DOMAIN k2.tasks = {v} /\ (Idle(k) => DOMAIN k.tasks = {}) /\ (Holds(k, u) => DOMAIN k.tasks = {u})
  BY OpenTasks
<1>2. /\ v \in D2 /\ v \in E2
      /\ \A t \in 1..n : (t \in D <=> t \in D2) /\ (t \in E <=> t \in E2)
  <2>1. CASE Idle(k) /\ q2 = <<>>
    <3>1. D = {} /\ E = {} /\ D2 = {v} /\ E2 = {v}
      BY <1>1, <2>1, DueSets
    <3> QED BY <3>1
  <2>2. CASE Holds(k, u) /\ QRow(q2) /\ q2[1].what.task = u
    <3>1. D = {u} /\ E = {u} /\ D2 = {v} \cup {u} /\ E2 = {v} \cup {u}
      BY <1>1, <2>2, DueSets
    <3> QED BY <3>1
  <2> QED BY <2>1, <2>2
<1> HIDE DEF D, E, D2, E2
<1>3. QueueOK(s, v, k2, q2, v, tr2, rw, dm)
  <2>1. CASE q2 = <<>>
    BY <2>1 DEF QueueOK
  <2>2. CASE /\ u # 0 /\ QRow(q2) /\ q2[1].what.task = u
             /\ GoodRec(q2[2].what, tr[u])
             /\ u \notin dm => GoodRow(q2[1].what, tr[u], rw["llm_calls"][u], rw["tool_calls"][u])
    <3>1. ~QRec(q2) /\ tr2[u] = tr[u] /\ u \notin DOMAIN k2.tasks
      BY <2>2, <1>0, <1>1, Kinds
    <3> QED BY <2>2, <3>1, <1>0 DEF QueueOK
  <2> QED BY <2>1, <2>2
<1>4. SessionOK(s, v, "running", k2, j2, q2, v, tr2, rw, dm)
  BY <1>0, <1>3 DEF SessionOK
<1>5. ASSUME NEW t \in 1..v, tr2[t].by = s
      PROVE  FileOK(t, D2, E2, tr2[t],
                    rw["llm_calls"][t], rw["tool_calls"][t], rw["tasks"][t], dm, ln)
  <2>1. CASE t \in 1..n
    <3>1. FileOK(t, D, E, tr2[t], rw["llm_calls"][t], rw["tool_calls"][t], rw["tasks"][t], dm, ln)
      BY <1>5, <2>1 DEF LocalOK, D, E
    <3>2. (t \in D <=> t \in D2) /\ (t \in E <=> t \in E2)
      BY <1>2, <2>1
    <3> QED BY <3>1, <3>2, FileKept DEF OthersLine
  <2>2. CASE t = v
    <3>1. \A i \in 1..Len(ln) : ln[i].task # v
      BY <1>0
    <3> QED BY <1>2, <2>2, <3>1 DEF FileOK
  <2> QED BY <2>1, <2>2
<1> QED BY <1>4, <1>5 DEF LocalOK, D2, E2

\* The system calls.  What is said of the open task does not depend on them, save
\* for the row of its call.
LEMMA SessionQueue ==
  ASSUME NEW s, NEW u, NEW ph, NEW k, NEW j, NEW q, NEW n \in Nat, NEW tr, NEW rw, NEW dm,
         NEW q2, NEW rw2, NEW dm2, SessionOK(s, u, ph, k, j, q, n, tr, rw, dm), dm \subseteq dm2,
         u \notin dm2 => /\ ~QCall(q) /\ ~QCall(q2)
                         /\ rw2["llm_calls"][u] = rw["llm_calls"][u]
                         /\ rw2["tool_calls"][u] = rw["tool_calls"][u],
         QueueOK(s, u, k, q2, n, tr, rw2, dm2)
  PROVE  SessionOK(s, u, ph, k, j, q2, n, tr, rw2, dm2)
<1>1. ASSUME Holds(k, u), Holds(j, u), u # 0, u \notin dm2,
             u \notin dm => CountsOK(k.tasks[u], q, rw["llm_calls"][u], rw["tool_calls"][u])
      PROVE  CountsOK(k.tasks[u], q2, rw2["llm_calls"][u], rw2["tool_calls"][u])
  BY <1>1 DEF CountsOK
<1> QED BY <1>1 DEF SessionOK

\* The first of them finds the file empty.
LEMMA LookStep ==
  ASSUME NEW s, NEW u, NEW ph, NEW k, NEW j, NEW q, NEW n \in Nat, NEW tr, NEW rw, NEW dm, NEW ln,
         NEW q2, LocalOK(s, u, ph, k, j, q, n, tr, rw, dm, ln),
         \/ QCall(q) /\ QCall(q2) /\ q2[1].file = q[1].file
         \/ QRow(q) /\ QRow(q2) /\ q2[2].what = q[2].what,
         q2[1].what = q[1].what
  PROVE  LocalOK(s, u, ph, k, j, q2, n, tr, rw, dm, ln)
<1>1. RowsDue(k, q2) = RowsDue(k, q) /\ RecordsDue(k, q2) = RecordsDue(k, q)
  BY DueSets
<1>2. SessionOK(s, u, ph, k, j, q, n, tr, rw, dm)
  BY DEF LocalOK
<1>3. SessionOK(s, u, ph, k, j, q2, n, tr, rw, dm)
  <2>1. CASE QCall(q) /\ QCall(q2) /\ q2[1].file = q[1].file
    <3>1. QueueOK(s, u, k, q2, n, tr, rw, dm)
      <4>1. q # <<>> /\ ~QRow(q) /\ ~QRec(q) /\ ~QEnd(q)
        BY <2>1, Kinds
      <4>2. q[1].what.task = u /\ u \in DOMAIN k.tasks
        BY <1>2, <4>1 DEF SessionOK, QueueOK
      <4> QED BY <2>1, <4>2 DEF QueueOK
    <3>2. ASSUME NEW a, NEW rl, NEW rt, CountsOK(a, q, rl, rt) PROVE CountsOK(a, q2, rl, rt)
      BY <2>1, <3>2 DEF CountsOK
    <3> QED BY <1>2, <3>1, <3>2 DEF SessionOK
  <2>2. CASE QRow(q) /\ QRow(q2) /\ q2[2].what = q[2].what
    <3>1. q # <<>> /\ ~QCall(q) /\ ~QRec(q) /\ ~QCall(q2) /\ ~QRec(q2)
      BY <2>2, Kinds
    <3>2. QueueOK(s, u, k, q, n, tr, rw, dm)
      BY <1>2 DEF SessionOK
    <3>3. QueueOK(s, u, k, q2, n, tr, rw, dm)
      BY <2>2, <3>1, <3>2 DEF QueueOK
    <3> QED BY <1>2, <3>1, <3>3, SessionQueue
  <2> QED BY <2>1, <2>2
<1> QED BY <1>1, <1>3 DEF LocalOK

\* The calls with usage in a file, after a row more.
LEMMA TokensAppended ==
  ASSUME NEW q, AnySeq(q), NEW x
  PROVE  Cardinality(WithTokens(Append(q, x))) =
           Cardinality(WithTokens(q)) + (IF x.tokens THEN 1 ELSE 0)
<1> DEFINE W == WithTokens(q)
           W2 == WithTokens(Append(q, x))
           m == Len(q) + 1
<1>1. /\ Len(q) \in Nat /\ DOMAIN q = 1..Len(q)
      /\ DOMAIN Append(q, x) = 1..m /\ Append(q, x)[m] = x
      /\ \A i \in 1..Len(q) : Append(q, x)[i] = q[i]
  BY AppendIsASeq DEF AnySeq
<1>2. W \subseteq 1..Len(q) /\ m \notin W
  BY <1>1 DEF WithTokens
<1>3. IsFiniteSet(W)
  <2>1. IsFiniteSet(1..Len(q))
    BY <1>1, FS_Interval
  <2> HIDE DEF W
  <2> QED BY <1>2, <2>1, FS_Subset
<1>4. \A i : i \in 1..m <=> i = m \/ i \in 1..Len(q)
  BY <1>1
<1>5. CASE x.tokens
  <2>1. W2 = W \cup {m}
    BY <1>1, <1>4, <1>5 DEF WithTokens
  <2> HIDE DEF W, W2, m
  <2>2. Cardinality(W2) = Cardinality(W) + 1
    BY <1>2, <1>3, <2>1, FS_AddElement
  <2> QED BY <2>2, <1>5 DEF W, W2
<1>6. CASE ~x.tokens
  <2>1. W2 = W
    BY <1>1, <1>4, <1>6 DEF WithTokens
  <2>2. Cardinality(W) \in Nat
    BY <1>3, FS_CardinalityType
  <2> HIDE DEF W, W2, m
  <2>3. Cardinality(W2) = Cardinality(W) + 0
    BY <2>1, <2>2
  <2> QED BY <2>3, <1>6 DEF W, W2
<1> QED BY <1>5, <1>6

-----------------------------------------------------------------------------
(***************************************************************************)
(* The system calls.                                                       *)
(***************************************************************************)

\* The row of a call is written.
LEMMA CallRowStep ==
  ASSUME NEW s, NEW u, NEW ph, NEW k, NEW j, NEW q, NEW n \in Nat, NEW tr, NEW rw, NEW dm, NEW ln,
         NEW q2, NEW rw2, LocalOK(s, u, ph, k, j, q, n, tr, rw, dm, ln), QCall(q), q2 = <<>>,
         NEW f, NEW g, f = q[1].file, {f, g} = {"llm_calls", "tool_calls"},
         AnySeq(rw[f][u]), AnySeq(rw[g][u]),
         rw2[f][u] = Append(rw[f][u], q[1].what), rw2[g][u] = rw[g][u],
         \A t \in 1..n : /\ rw2["tasks"][t] = rw["tasks"][t]
                         /\ t # u => rw2[f][t] = rw[f][t] /\ rw2[g][t] = rw[g][t]
  PROVE  LocalOK(s, u, ph, k, j, q2, n, tr, rw2, dm, ln)
<1>1. SessionOK(s, u, ph, k, j, q, n, tr, rw, dm)
  BY DEF LocalOK
<1>2. q # <<>> /\ ~QRow(q) /\ ~QRec(q) /\ ~QEnd(q) /\ ~QCall(q2)
  BY Kinds, EmptyQueue
<1>3. u \in DOMAIN k.tasks
  BY <1>1, <1>2 DEF SessionOK, QueueOK
<1>4. u \in 1..n /\ DOMAIN k.tasks = {u}
  <2>1. ~Idle(k)
    BY <1>3 DEF Idle
  <2> QED BY <1>1, <2>1, OpenTasks DEF SessionOK
<1>5. /\ RowsDue(k, q) = {u} /\ RecordsDue(k, q) = {u}
      /\ RowsDue(k, q2) = {u} /\ RecordsDue(k, q2) = {u}
  BY <1>4, DueSets
<1>6. QueueOK(s, u, k, q2, n, tr, rw2, dm)
  BY DEF QueueOK
<1>7. ASSUME NEW a, CountsOK(a, q, rw["llm_calls"][u], rw["tool_calls"][u])
      PROVE  CountsOK(a, q2, rw2["llm_calls"][u], rw2["tool_calls"][u])
  <2>1. CASE f = "llm_calls"
    <3>1. g = "tool_calls" /\ q[1].file = "llm_calls"
      BY <2>1
    <3>2. /\ a.llm = Len(rw[f][u]) + 1 /\ a.tools = Len(rw[g][u])
          /\ a.tokens = Cardinality(WithTokens(rw[f][u])) + (IF q[1].what.tokens THEN 1 ELSE 0)
      BY <1>7, <2>1, <3>1 DEF CountsOK
    <3>3. Len(rw2[f][u]) = Len(rw[f][u]) + 1
      BY AppendIsASeq
    <3>4. Cardinality(WithTokens(rw2[f][u])) =
            Cardinality(WithTokens(rw[f][u])) + (IF q[1].what.tokens THEN 1 ELSE 0)
      BY TokensAppended
    <3>5. /\ a.llm = Len(rw2[f][u]) /\ a.tools = Len(rw2[g][u])
          /\ a.tokens = Cardinality(WithTokens(rw2[f][u]))
      BY <3>2, <3>3, <3>4, Zenon
    <3> QED BY <1>2, <2>1, <3>1, <3>5 DEF CountsOK
  <2>2. CASE f = "tool_calls"
    <3>1. g = "llm_calls" /\ q[1].file = "tool_calls"
      BY <2>2
    <3>2. /\ a.llm = Len(rw[g][u]) /\ a.tools = Len(rw[f][u]) + 1
          /\ a.tokens = Cardinality(WithTokens(rw[g][u]))
      BY <1>7, <2>2, <3>1 DEF CountsOK
    <3>3. Len(rw2[f][u]) = Len(rw[f][u]) + 1
      BY AppendIsASeq
    <3> QED BY <1>2, <2>2, <3>1, <3>2, <3>3 DEF CountsOK
  <2> QED BY <2>1, <2>2
<1>8. SessionOK(s, u, ph, k, j, q2, n, tr, rw2, dm)
  BY <1>1, <1>6, <1>7 DEF SessionOK
<1>9. ASSUME NEW t \in 1..n, tr[t].by = s
      PROVE  FileOK(t, {u}, {u}, tr[t],
                    rw2["llm_calls"][t], rw2["tool_calls"][t], rw2["tasks"][t], dm, ln)
  <2>1. FileOK(t, {u}, {u}, tr[t], rw["llm_calls"][t], rw["tool_calls"][t], rw["tasks"][t], dm, ln)
    BY <1>5, <1>9 DEF LocalOK
  <2>2. CASE t = u
    BY <2>1, <2>2, FileDue
  <2>3. CASE t # u
    <3>1. rw2["llm_calls"][t] = rw["llm_calls"][t] /\ rw2["tool_calls"][t] = rw["tool_calls"][t]
      BY <2>3
    <3> QED BY <2>1, <3>1
  <2> QED BY <2>2, <2>3
<1> QED BY <1>5, <1>8, <1>9 DEF LocalOK

\* The row of a task is written, and its record is left.
TaskRowAdded(n, u, c, w, rw, rw2) ==
  /\ rw2["tasks"][c] = Append(rw["tasks"][c], w)
  /\ rw2["llm_calls"][u] = rw["llm_calls"][u] /\ rw2["tool_calls"][u] = rw["tool_calls"][u]
  /\ \A t \in 1..n : /\ rw2["llm_calls"][t] = rw["llm_calls"][t]
                     /\ rw2["tool_calls"][t] = rw["tool_calls"][t]
                     /\ t # c => rw2["tasks"][t] = rw["tasks"][t]

LEMMA TaskRowStep ==
  ASSUME NEW s, NEW u, NEW ph, NEW k, NEW j, NEW q, NEW n \in Nat, NEW tr, NEW rw, NEW dm, NEW ln,
         NEW q2, NEW rw2, AnySeq(ln),
         LocalOK(s, u, ph, k, j, q, n, tr, rw, dm, ln), QRow(q), QRec(q2), q2[1].what = q[2].what,
         NEW c, c = q[1].what.task, TaskRowAdded(n, u, c, q[1].what, rw, rw2)
  PROVE  LocalOK(s, u, ph, k, j, q2, n, tr, rw2, dm, ln)
<1>0. /\ rw2["tasks"][c] = Append(rw["tasks"][c], q[1].what)
      /\ rw2["llm_calls"][u] = rw["llm_calls"][u] /\ rw2["tool_calls"][u] = rw["tool_calls"][u]
      /\ \A t \in 1..n : /\ rw2["llm_calls"][t] = rw["llm_calls"][t]
                         /\ rw2["tool_calls"][t] = rw["tool_calls"][t]
                         /\ t # c => rw2["tasks"][t] = rw["tasks"][t]
  BY DEF TaskRowAdded
<1>1. SessionOK(s, u, ph, k, j, q, n, tr, rw, dm)
  BY DEF LocalOK
<1>2. q # <<>> /\ ~QCall(q) /\ ~QCall(q2) /\ ~QRow(q2) /\ q2[1].what.task = c
  BY Kinds DEF QRow
<1>3. /\ c \in 1..n /\ tr[c].by = s /\ c \notin DOMAIN k.tasks /\ GoodRec(q[2].what, tr[c])
      /\ c \notin dm => GoodRow(q[1].what, tr[c], rw["llm_calls"][c], rw["tool_calls"][c])
  BY <1>1, <1>2 DEF SessionOK, QueueOK
<1>4. QueueOK(s, u, k, q2, n, tr, rw2, dm)
  BY <1>0, <1>2, <1>3 DEF QueueOK
<1>5. SessionOK(s, u, ph, k, j, q2, n, tr, rw2, dm)
  BY <1>0, <1>1, <1>2, <1>4, SessionQueue
<1> DEFINE D == RowsDue(k, q)
           E == RecordsDue(k, q)
           D2 == RowsDue(k, q2)
           E2 == RecordsDue(k, q2)
<1>6. D = DOMAIN k.tasks \cup {c} /\ E = DOMAIN k.tasks \cup {c} /\ D2 = DOMAIN k.tasks /\ E2 = E
  <2>1. D = DOMAIN k.tasks \cup {c} /\ E = DOMAIN k.tasks \cup {c}
    BY DueSets
  <2>2. D2 = DOMAIN k.tasks /\ E2 = DOMAIN k.tasks \cup {c}
    BY <1>2, DueSets
  <2> QED BY <2>1, <2>2
<1> HIDE DEF D, E, D2, E2
<1>7. ASSUME NEW t \in 1..n, tr[t].by = s
      PROVE  FileOK(t, D2, E2, tr[t],
                    rw2["llm_calls"][t], rw2["tool_calls"][t], rw2["tasks"][t], dm, ln)
  <2>0. /\ rw2["llm_calls"][t] = rw["llm_calls"][t] /\ rw2["tool_calls"][t] = rw["tool_calls"][t]
        /\ t # c => rw2["tasks"][t] = rw["tasks"][t]
    BY <1>0, Zenon
  <2>4. FileOK(t, D, E, tr[t], rw["llm_calls"][t], rw["tool_calls"][t], rw["tasks"][t], dm, ln)
    BY <1>7 DEF LocalOK, D, E
  <2>1. FileOK(t, D, E, tr[t], rw2["llm_calls"][t], rw2["tool_calls"][t], rw["tasks"][t], dm, ln)
    BY <2>0, <2>4
  <2>2. CASE t = c
    <3>1. rw["tasks"][c] = <<>>
      BY <1>6, <2>1, <2>2 DEF FileOK
    <3>2. Len(rw2["tasks"][c]) = 1 /\ rw2["tasks"][c][1] = q[1].what
      BY <1>0, <3>1
    <3>3. c \notin dm => GoodRow(rw2["tasks"][c][1], tr[c], rw2["llm_calls"][c], rw2["tool_calls"][c])
      BY <1>3, <2>0, <2>2, <3>2
    <3>4. t \notin D2
      BY <1>3, <1>6, <2>2
    <3> QED BY <1>6, <2>1, <2>2, <3>2, <3>3, <3>4 DEF FileOK
  <2>3. CASE t # c
    <3>1. (t \in D <=> t \in D2) /\ (t \in E <=> t \in E2) /\ rw2["tasks"][t] = rw["tasks"][t]
      BY <1>6, <2>0, <2>3
    <3> QED BY <2>1, <3>1, FileKept DEF OthersLine
  <2> QED BY <2>2, <2>3
<1> QED BY <1>5, <1>7 DEF LocalOK, D2, E2

\* The record of a task is written.
LEMMA RecordStep ==
  ASSUME NEW s, NEW u, NEW ph, NEW k, NEW j, NEW q, NEW n \in Nat, NEW tr, NEW rw, NEW dm, NEW ln,
         NEW q2, NEW ln2, AnySeq(ln),
         LocalOK(s, u, ph, k, j, q, n, tr, rw, dm, ln), QRec(q), QEnd(q2), q2[1].what = q[1].what,
         ln2 = Append(ln, q[1].what)
  PROVE  LocalOK(s, u, ph, k, j, q2, n, tr, rw, dm, ln2)
<1> DEFINE c == q[1].what.task
           D == RowsDue(k, q)
           E == RecordsDue(k, q)
           D2 == RowsDue(k, q2)
           E2 == RecordsDue(k, q2)
<1>1. SessionOK(s, u, ph, k, j, q, n, tr, rw, dm)
  BY DEF LocalOK
<1>2. q # <<>> /\ ~QCall(q) /\ ~QRow(q) /\ ~QCall(q2) /\ ~QRow(q2) /\ ~QRec(q2) /\ q2[1].what.task = c
  BY Kinds
<1>3. c \in 1..n /\ tr[c].by = s /\ c \notin DOMAIN k.tasks /\ GoodRec(q[1].what, tr[c])
  BY <1>1, <1>2 DEF SessionOK, QueueOK
<1>4. QueueOK(s, u, k, q2, n, tr, rw, dm)
  BY <1>2, <1>3 DEF QueueOK
<1>5. SessionOK(s, u, ph, k, j, q2, n, tr, rw, dm)
  BY <1>1, <1>2, <1>4, SessionQueue
<1>6. D = DOMAIN k.tasks /\ E = DOMAIN k.tasks \cup {c} /\ D2 = D /\ E2 = DOMAIN k.tasks
  BY <1>2, DueSets
<1>7. /\ Len(ln) \in Nat /\ Len(ln2) = Len(ln) + 1 /\ ln2[Len(ln) + 1] = q[1].what
      /\ \A i \in 1..Len(ln) : ln2[i] = ln[i]
  BY AppendIsASeq DEF AnySeq
<1> HIDE DEF c, D, E, D2, E2
<1>8. ASSUME NEW t \in 1..n, tr[t].by = s
      PROVE  FileOK(t, D2, E2, tr[t],
                    rw["llm_calls"][t], rw["tool_calls"][t], rw["tasks"][t], dm, ln2)
  <2>1. FileOK(t, D, E, tr[t], rw["llm_calls"][t], rw["tool_calls"][t], rw["tasks"][t], dm, ln)
    BY <1>8 DEF LocalOK, D, E
  <2>2. CASE t = c
    <3>1. t \in E /\ t \notin E2
      BY <1>3, <1>6, <2>2
    <3>2. \A i \in 1..Len(ln) : ln2[i].task # t
      BY <2>1, <3>1, <1>7 DEF FileOK
    <3>3. \A i \in 1..Len(ln2) : i = Len(ln) + 1 \/ ln2[i].task # t
      <4> SUFFICES ASSUME NEW i \in 1..Len(ln2) PROVE i = Len(ln) + 1 \/ ln2[i].task # t
        OBVIOUS
      <4>1. i = Len(ln) + 1 \/ i \in 1..Len(ln)
        BY <1>7
      <4> QED BY <3>2, <4>1
    <3>4. Len(ln) + 1 \in 1..Len(ln2) /\ ln2[Len(ln) + 1].task = t
      BY <1>7, <2>2 DEF c
    <3>5. /\ \A i, h \in 1..Len(ln2) : ln2[i].task = t /\ ln2[h].task = t => i = h
          /\ \E i \in 1..Len(ln2) : ln2[i].task = t
      BY <3>3, <3>4
    <3>6. \A i \in 1..Len(ln2) : ln2[i].task = t => GoodRec(ln2[i], tr[t])
      BY <1>3, <1>7, <2>2, <3>3
    <3> QED BY <1>6, <2>1, <3>1, <3>5, <3>6 DEF FileOK
  <2>3. CASE t # c
    <3>1. (t \in D <=> t \in D2) /\ (t \in E <=> t \in E2) /\ OthersLine(t, ln, ln2)
      BY <1>6, <2>3 DEF OthersLine, c
    <3> QED BY <2>1, <3>1, FileKept
  <2> QED BY <2>2, <2>3
<1> QED BY <1>5, <1>8 DEF LocalOK, D2, E2

\* The line of a record ends.
LEMMA LineEndStep ==
  ASSUME NEW s, NEW u, NEW ph, NEW k, NEW j, NEW q, NEW n \in Nat, NEW tr, NEW rw, NEW dm, NEW ln,
         NEW q2, NEW x, NEW ln2, AnySeq(ln),
         LocalOK(s, u, ph, k, j, q, n, tr, rw, dm, ln), QEnd(q), q2 = <<>>,
         ln2 = Append(ln, x), x.task = 0
  PROVE  LocalOK(s, u, ph, k, j, q2, n, tr, rw, dm, ln2)
<1>1. SessionOK(s, u, ph, k, j, q, n, tr, rw, dm)
  BY DEF LocalOK
<1>2. ~QCall(q) /\ ~QCall(q2)
  BY Kinds, EmptyQueue
<1>3. QueueOK(s, u, k, q2, n, tr, rw, dm)
  BY DEF QueueOK
<1>4. SessionOK(s, u, ph, k, j, q2, n, tr, rw, dm)
  BY <1>1, <1>2, <1>3, SessionQueue
<1>5. RowsDue(k, q2) = RowsDue(k, q) /\ RecordsDue(k, q2) = RecordsDue(k, q)
  BY DueSets
<1>6. \A t \in 1..n : OthersLine(t, ln, ln2)
  BY DEF OthersLine
<1> QED BY <1>4, <1>5, <1>6, FileKept DEF LocalOK

\* A system call fails.
LEMMA FailStep ==
  ASSUME NEW s, NEW u, NEW ph, NEW k, NEW j, NEW q, NEW n \in Nat, NEW tr, NEW rw, NEW dm, NEW ln,
         NEW q2, NEW dm2, AnySeq(ln), LocalOK(s, u, ph, k, j, q, n, tr, rw, dm, ln),
         \/ (QCall(q) \/ QRec(q) \/ QEnd(q)) /\ q2 = <<>>
         \/ QRow(q) /\ QRec(q2) /\ q2[1].what = q[2].what,
         dm2 = dm \cup {q[1].what.task}
  PROVE  LocalOK(s, u, ph, k, j, q2, n, tr, rw, dm2, ln)
<1> DEFINE c == q[1].what.task
           D == RowsDue(k, q)
           E == RecordsDue(k, q)
           D2 == RowsDue(k, q2)
           E2 == RecordsDue(k, q2)
<1>1. SessionOK(s, u, ph, k, j, q, n, tr, rw, dm)
  BY DEF LocalOK
<1>2. QueueOK(s, u, k, q2, n, tr, rw, dm2)
  <2>1. CASE q2 = <<>>
    BY <2>1 DEF QueueOK
  <2>2. CASE QRow(q) /\ QRec(q2) /\ q2[1].what = q[2].what
    <3>1. q # <<>> /\ ~QCall(q) /\ ~QRow(q2) /\ q2[1].what.task = c
      BY <2>2, Kinds DEF QRow
    <3>2. c \in 1..n /\ tr[c].by = s /\ c \notin DOMAIN k.tasks /\ GoodRec(q[2].what, tr[c])
      BY <1>1, <2>2, <3>1 DEF SessionOK, QueueOK
    <3> QED BY <2>2, <3>1, <3>2 DEF QueueOK
  <2> QED BY <2>1, <2>2
<1>3. QCall(q) => u \in dm2
  <2>1. QCall(q) => q # <<>> /\ ~QRow(q) /\ ~QRec(q) /\ ~QEnd(q)
    BY Kinds
  <2> QED BY <1>1, <2>1 DEF SessionOK, QueueOK
<1>4. ~QCall(q2)
  BY Kinds, EmptyQueue
<1>5. SessionOK(s, u, ph, k, j, q2, n, tr, rw, dm2)
  BY <1>1, <1>2, <1>3, <1>4, SessionQueue
<1>6. /\ \A t : t # c => (t \in D <=> t \in D2) /\ (t \in E <=> t \in E2)
      /\ D2 \subseteq D /\ E2 \subseteq E /\ c \in dm2
  <2>1. CASE (QCall(q) \/ QEnd(q)) /\ q2 = <<>>
    <3>1. D = DOMAIN k.tasks /\ D2 = D /\ E = D /\ E2 = D
      BY <2>1, DueSets
    <3> QED BY <3>1
  <2>2. CASE QRec(q) /\ q2 = <<>>
    <3>1. D = DOMAIN k.tasks /\ D2 = D /\ E = D \cup {c} /\ E2 = D
      BY <2>2, DueSets
    <3> QED BY <3>1
  <2>3. CASE QRow(q) /\ QRec(q2) /\ q2[1].what = q[2].what
    <3>0. q2[1].what.task = c
      BY <2>3 DEF QRow
    <3>1. D = D2 \cup {c} /\ D2 = DOMAIN k.tasks /\ E = D /\ E2 = E
      BY <2>3, <3>0, DueSets
    <3> QED BY <3>1
  <2> QED BY <2>1, <2>2, <2>3
<1> HIDE DEF c, D, E, D2, E2
<1>7. ASSUME NEW t \in 1..n, tr[t].by = s
      PROVE  FileOK(t, D2, E2, tr[t],
                    rw["llm_calls"][t], rw["tool_calls"][t], rw["tasks"][t], dm2, ln)
  <2>1. FileOK(t, D, E, tr[t], rw["llm_calls"][t], rw["tool_calls"][t], rw["tasks"][t], dm, ln)
    BY <1>7 DEF LocalOK, D, E
  <2>2. CASE t = c
    BY <1>6, <2>1, <2>2 DEF FileOK
  <2>3. CASE t # c
    BY <1>6, <2>1, <2>3, FileKept DEF OthersLine
  <2> QED BY <2>2, <2>3
<1> QED BY <1>5, <1>7 DEF LocalOK, D2, E2

\* The process is killed.
LEMMA KillStep ==
  ASSUME NEW s, NEW u, NEW ph, NEW k, NEW j, NEW q, NEW n \in Nat, NEW tr, NEW rw, NEW dm, NEW ln,
         NEW k2, NEW j2, NEW q2, NEW dm2, NEW ln2, AnySeq(ln),
         LocalOK(s, u, ph, k, j, q, n, tr, rw, dm, ln), Idle(k2), Idle(j2), q2 = <<>>,
         dm \subseteq dm2, DOMAIN k.tasks \subseteq dm2,
         QRow(q) \/ QRec(q) => q[1].what.task \in dm2,
         \A t \in 1..n : OthersLine(t, ln, ln2)
  PROVE  LocalOK(s, u, "gone", k2, j2, q2, n, tr, rw, dm2, ln2)
<1> DEFINE D == RowsDue(k, q)
           E == RecordsDue(k, q)
<1>1. D \subseteq dm2 /\ E \subseteq dm2
  BY DEF RowsDue, RecordsDue
<1>2. RowsDue(k2, q2) = {} /\ RecordsDue(k2, q2) = {}
  BY DueSets, OpenTasks
<1>3. SessionOK(s, u, "gone", k2, j2, q2, n, tr, rw, dm2)
  BY DEF LocalOK, SessionOK, QueueOK
<1> HIDE DEF D, E
<1>4. ASSUME NEW t \in 1..n, tr[t].by = s
      PROVE  FileOK(t, {}, {}, tr[t],
                    rw["llm_calls"][t], rw["tool_calls"][t], rw["tasks"][t], dm2, ln2)
  <2>1. FileOK(t, D, E, tr[t], rw["llm_calls"][t], rw["tool_calls"][t], rw["tasks"][t], dm, ln)
    BY <1>4 DEF LocalOK, D, E
  <2>2. FileOK(t, D, E, tr[t], rw["llm_calls"][t], rw["tool_calls"][t], rw["tasks"][t], dm2, ln2)
    BY <2>1, FileKept
  <2> QED BY <1>1, <2>2 DEF FileOK
<1> QED BY <1>2, <1>3, <1>4 DEF LocalOK

-----------------------------------------------------------------------------
(***************************************************************************)
(* From one session to all of them, and the actions.                       *)
(***************************************************************************)

\* A function from 1..n is a sequence.
LEMMA FunIsASeq ==
  ASSUME NEW n \in Nat, NEW q, q = [i \in 1..n |-> q[i]]
  PROVE  AnySeq(q) /\ Len(q) = n
<1> DEFINE S == {q[i] : i \in 1..n}
<1>1. q \in [1..n -> S]
  OBVIOUS
<1> HIDE DEF S
<1>2. q \in Seq(S) /\ DOMAIN q = 1..n
  BY <1>1
<1>3. Len(q) \in Nat /\ DOMAIN q = 1..Len(q)
  BY <1>2
<1>4. Len(q) = n
  BY <1>2, <1>3
<1> QED BY <1>4 DEF AnySeq

\* A step of session s leaves the invariant to be shown of s alone.
LEMMA StepOfOne ==
  ASSUME MetricsInv, NEW s \in Sessions, NEW u, NEW ph, NEW k, NEW j, NEW q,
         task' = [task EXCEPT ![s] = u], phase' = [phase EXCEPT ![s] = ph],
         csv' = [csv EXCEPT ![s] = k], jsonl' = [jsonl EXCEPT ![s] = j],
         todo' = [todo EXCEPT ![s] = q],
         TruthOK(started', truth'), RowsOK(started', rows'), LinesOK(started', lines'),
         started <= started', damaged \subseteq damaged',
         \A t \in 1..started : truth[t].by # s =>
            /\ truth'[t] = truth[t] /\ \A f \in CsvFiles : rows'[f][t] = rows[f][t]
            /\ OthersLine(t, lines, lines'),
         \A t \in 1..started' : truth'[t].by # s => t \in 1..started /\ truth[t].by = truth'[t].by,
         LocalOK(s, u, ph, k, j, q, started', truth', rows', damaged', lines')
  PROVE  MetricsInv'
<1>1. ShapesOK'
  BY DEF MetricsInv, ShapesOK
<1>2. started \in Nat /\ started' \in Nat /\ AnySeq(lines)
  BY DEF MetricsInv, TruthOK, LinesOK
<1>3. ASSUME NEW x \in Sessions PROVE Local(x)'
  <2>1. CASE x = s
    <3>1. task'[s] = u /\ phase'[s] = ph /\ csv'[s] = k /\ jsonl'[s] = j /\ todo'[s] = q
      BY DEF MetricsInv, ShapesOK
    <3> QED BY <2>1, <3>1 DEF Local
  <2>2. CASE x # s
    <3>1. /\ task'[x] = task[x] /\ phase'[x] = phase[x] /\ csv'[x] = csv[x]
          /\ jsonl'[x] = jsonl[x] /\ todo'[x] = todo[x]
      BY <2>2 DEF MetricsInv, ShapesOK
    <3>2. LocalOK(x, task[x], phase[x], csv[x], jsonl[x], todo[x], started, truth, rows, damaged, lines)
      BY DEF MetricsInv, Local
    <3>3. \A t \in 1..started : truth[t].by = x =>
            /\ truth'[t] = truth[t] /\ \A f \in CsvFiles : rows'[f][t] = rows[f][t]
            /\ OthersLine(t, lines, lines')
      BY <2>2
    <3>4. \A t \in 1..started' : truth'[t].by = x => t \in 1..started /\ truth[t].by = x
      BY <2>2
    <3>5. LocalOK(x, task[x], phase[x], csv[x], jsonl[x], todo[x], started', truth', rows', damaged', lines')
      BY <1>2, <3>2, <3>3, <3>4, LocalKept
    <3> QED BY <3>1, <3>5 DEF Local
  <2> QED BY <2>1, <2>2
<1> QED BY <1>1, <1>3 DEF MetricsInv

\* A step that leaves the files and what the tasks did alone.
LEMMA StepOfSinks ==
  ASSUME MetricsInv, NEW s \in Sessions, NEW u, NEW ph, NEW k, NEW j, NEW q,
         task' = [task EXCEPT ![s] = u], phase' = [phase EXCEPT ![s] = ph],
         csv' = [csv EXCEPT ![s] = k], jsonl' = [jsonl EXCEPT ![s] = j],
         todo' = [todo EXCEPT ![s] = q], UNCHANGED <<started, truth, files>>,
         damaged \subseteq damaged',
         LocalOK(s, u, ph, k, j, q, started, truth, rows, damaged', lines)
  PROVE  MetricsInv'
<1>1. started' = started /\ truth' = truth /\ rows' = rows /\ lines' = lines
  BY DEF files
<1>2. TruthOK(started', truth') /\ RowsOK(started', rows') /\ LinesOK(started', lines')
  BY <1>1 DEF MetricsInv
<1>3. started <= started'
  BY <1>1 DEF MetricsInv, TruthOK
<1>4. \A t \in 1..started : truth[t].by # s =>
            /\ truth'[t] = truth[t] /\ \A f \in CsvFiles : rows'[f][t] = rows[f][t]
            /\ OthersLine(t, lines, lines')
  BY <1>1 DEF OthersLine
<1>5. \A t \in 1..started' : truth'[t].by # s => t \in 1..started /\ truth[t].by = truth'[t].by
  BY <1>1
<1>6. LocalOK(s, u, ph, k, j, q, started', truth', rows', damaged', lines')
  BY <1>1
<1> QED BY <1>2, <1>3, <1>4, <1>5, <1>6, StepOfOne

\* A step of the task the session runs: only what it did changes.
LEMMA StepOfTask ==
  ASSUME MetricsInv, NEW s \in Sessions, NEW ph, NEW k, NEW j, NEW q, NEW r, task[s] # 0,
         r = [by |-> s, llm |-> r.llm, tools |-> r.tools, end |-> r.end],
         AnySeq(r.llm), AnySeq(r.tools),
         phase' = [phase EXCEPT ![s] = ph],
         csv' = [csv EXCEPT ![s] = k], jsonl' = [jsonl EXCEPT ![s] = j],
         todo' = [todo EXCEPT ![s] = q], UNCHANGED <<started, task, files, damaged>>,
         truth' = [truth EXCEPT ![task[s]] = r],
         LocalOK(s, task[s], ph, k, j, q, started, truth', rows, damaged, lines)
  PROVE  MetricsInv'
<1> DEFINE u == task[s]
<1>1. started' = started /\ task' = [task EXCEPT ![s] = u] /\ rows' = rows /\ lines' = lines
      /\ damaged' = damaged
  BY DEF files, MetricsInv, ShapesOK
<1>2. RowsOK(started', rows') /\ LinesOK(started', lines')
  BY <1>1 DEF MetricsInv
<1>3. started \in Nat /\ started <= started'
  BY <1>1 DEF MetricsInv, TruthOK
<1>4. u \in 1..started /\ truth[u].by = s
  BY <1>3 DEF MetricsInv, Local, LocalOK, SessionOK
<1>5. truth = [i \in 1..started |-> truth[i]]
  BY DEF MetricsInv, TruthOK, AnySeq
<1> HIDE DEF u
<1>6. /\ truth' = [i \in 1..started |-> truth'[i]] /\ truth'[u] = r
      /\ \A i \in 1..started : i # u => truth'[i] = truth[i]
  BY <1>4, <1>5 DEF u
<1>7. TruthOK(started', truth')
  <2>1. started \in 0..MaxTasks
    BY DEF MetricsInv, TruthOK
  <2>2. AnySeq(truth') /\ Len(truth') = started
    BY <1>3, <1>6, FunIsASeq
  <2>3. ASSUME NEW t \in 1..started
        PROVE  /\ truth'[t] = [by |-> truth'[t].by, llm |-> truth'[t].llm,
                               tools |-> truth'[t].tools, end |-> truth'[t].end]
               /\ truth'[t].by \in Sessions /\ AnySeq(truth'[t].llm) /\ AnySeq(truth'[t].tools)
    <3>1. CASE t = u
      <4>1. r.by = s
        OBVIOUS
      <4> QED BY <1>6, <3>1, <4>1
    <3>2. CASE t # u
      BY <1>6, <3>2 DEF MetricsInv, TruthOK
    <3> QED BY <3>1, <3>2
  <2> QED BY <1>1, <2>1, <2>2, <2>3 DEF TruthOK
<1>8. \A t \in 1..started : truth[t].by # s =>
            /\ truth'[t] = truth[t] /\ \A f \in CsvFiles : rows'[f][t] = rows[f][t]
            /\ OthersLine(t, lines, lines')
  BY <1>1, <1>4, <1>6 DEF OthersLine
<1>9. \A t \in 1..started' : truth'[t].by # s => t \in 1..started /\ truth[t].by = truth'[t].by
  <2>1. r.by = s
    OBVIOUS
  <2> QED BY <1>1, <1>6, <2>1
<1>10. LocalOK(s, u, ph, k, j, q, started', truth', rows', damaged', lines')
  BY <1>1 DEF u
<1>11. damaged \subseteq damaged'
  BY <1>1
<1> QED BY <1>1, <1>2, <1>3, <1>7, <1>8, <1>9, <1>10, <1>11, StepOfOne

\* What is known of a session that runs a task and has nothing left to write.
LEMMA Running ==
  ASSUME MetricsInv, NEW s \in Sessions, phase[s] = "running", todo[s] = <<>>
  PROVE  LET u == task[s]
             a == csv[s].tasks[u]
         IN  /\ u # 0 /\ u \in 1..started /\ Holds(csv[s], u) /\ Holds(jsonl[s], u)
             /\ OpenOK("running", a, jsonl[s].tasks[u], truth[u])
             /\ u \notin damaged =>
                  /\ a.llm = Len(rows["llm_calls"][u]) /\ a.tools = Len(rows["tool_calls"][u])
                  /\ a.tokens = Cardinality(WithTokens(rows["llm_calls"][u]))
             /\ truth[u] = [by |-> s, llm |-> truth[u].llm, tools |-> truth[u].tools, end |-> "none"]
             /\ AnySeq(truth[u].llm) /\ AnySeq(truth[u].tools)
             /\ truth = [i \in 1..started |-> truth[i]]
             /\ started \in Nat /\ AnySeq(lines) /\ Local(s)
<1> DEFINE u == task[s]
<1>1. Local(s) /\ started \in Nat /\ AnySeq(lines) /\ truth = [i \in 1..started |-> truth[i]]
  BY DEF MetricsInv, TruthOK, LinesOK, AnySeq
<1>2. SessionOK(s, u, "running", csv[s], jsonl[s], <<>>, started, truth, rows, damaged)
  BY <1>1 DEF Local, LocalOK
<1>3. /\ u # 0 /\ u \in 0..started /\ Holds(csv[s], u) /\ Holds(jsonl[s], u) /\ truth[u].by = s
      /\ OpenOK("running", csv[s].tasks[u], jsonl[s].tasks[u], truth[u])
      /\ u \notin damaged =>
           CountsOK(csv[s].tasks[u], <<>>, rows["llm_calls"][u], rows["tool_calls"][u])
  BY <1>2 DEF SessionOK
<1>4. u \in 1..started
  BY <1>1, <1>3
<1>5. /\ truth[u] = [by |-> s, llm |-> truth[u].llm, tools |-> truth[u].tools, end |-> truth[u].end]
      /\ AnySeq(truth[u].llm) /\ AnySeq(truth[u].tools)
  BY <1>3, <1>4 DEF MetricsInv, TruthOK
<1>6. truth[u].end = "none"
  BY <1>3 DEF OpenOK
<1>7. ~QCall(<<>>)
  BY EmptyQueue
<1> QED BY <1>1, <1>3, <1>4, <1>5, <1>6, <1>7 DEF CountsOK

\* The tools of a record, one more.
LEMMA StatusAppended ==
  ASSUME NEW q, AnySeq(q), NEW o
  PROVE  Statuses(Append(q, o)) = Append(Statuses(q), ToolStatus(o))
<1> DEFINE st(x) == ToolStatus(x)
           m == Len(q)
           l == [i \in 1..m |-> st(q[i])]
           h == [i \in 1..(m + 1) |-> st(Append(q, o)[i])]
<1>1. /\ m \in Nat /\ Len(Append(q, o)) = m + 1 /\ Append(q, o)[m + 1] = o
      /\ \A i \in 1..m : Append(q, o)[i] = q[i]
  BY AppendIsASeq DEF AnySeq
<1>2. Statuses(q) = l /\ Statuses(Append(q, o)) = h
  BY <1>1 DEF Statuses
<1> HIDE DEF st, m
<1>3. AnySeq(l) /\ Len(l) = m
  <2>1. m \in Nat /\ l = [i \in 1..m |-> l[i]]
    BY <1>1
  <2> HIDE DEF l
  <2> QED BY <2>1, FunIsASeq
<1>4. /\ AnySeq(Append(l, st(o))) /\ Len(Append(l, st(o))) = m + 1
      /\ \A i \in 1..m : Append(l, st(o))[i] = l[i]
      /\ Append(l, st(o))[m + 1] = st(o)
  <2> HIDE DEF l
  <2> QED BY <1>3, AppendIsASeq
<1>5. \A i \in 1..(m + 1) : h[i] = Append(l, st(o))[i]
  <2> SUFFICES ASSUME NEW i \in 1..(m + 1) PROVE h[i] = Append(l, st(o))[i]
    OBVIOUS
  <2>1. i = m + 1 \/ i \in 1..m
    BY <1>1
  <2> QED BY <1>1, <1>4, <2>1
<1>6. AnySeq(h) /\ Len(h) = m + 1
  <2>1. m + 1 \in Nat /\ h = [i \in 1..(m + 1) |-> h[i]]
    BY <1>1
  <2> HIDE DEF h
  <2> QED BY <2>1, FunIsASeq
<1>7. h = Append(l, st(o))
  <2> HIDE DEF h, l
  <2> QED BY <1>4, <1>5, <1>6 DEF AnySeq
<1> QED BY <1>2, <1>7 DEF st

\* The step of a task that goes on.
LEMMA Goes ==
  ASSUME MetricsInv, NEW s \in Sessions, phase[s] = "running", todo[s] = <<>>,
         NEW ph, NEW k, NEW j, NEW q, NEW r, NEW u, u = task[s],
         r = [by |-> s, llm |-> r.llm, tools |-> r.tools, end |-> r.end],
         AnySeq(r.llm), AnySeq(r.tools), ph \in {"idle", "running"},
         phase' = [phase EXCEPT ![s] = ph],
         csv' = [csv EXCEPT ![s] = k], jsonl' = [jsonl EXCEPT ![s] = j],
         todo' = [todo EXCEPT ![s] = q], UNCHANGED <<started, task, files, damaged>>,
         truth' = [truth EXCEPT ![u] = r],
         Holds(k, u), Holds(j, u), OpenOK(ph, k.tasks[u], j.tasks[u], r),
         q = <<>> \/ (QCall(q) /\ q[1].what.task = u),
         u \notin damaged => CountsOK(k.tasks[u], q, rows["llm_calls"][u], rows["tool_calls"][u])
  PROVE  MetricsInv'
<1>1. /\ u # 0 /\ u \in 1..started /\ Holds(csv[s], u) /\ started \in Nat /\ AnySeq(lines)
      /\ truth = [i \in 1..started |-> truth[i]] /\ Local(s)
  BY Running
<1>2. truth'[u] = r /\ r.by = s /\ \A t \in 1..started : t # u => truth'[t] = truth[t]
  BY <1>1
<1>3. LocalOK(s, u, "running", csv[s], jsonl[s], <<>>, started, truth, rows, damaged, lines)
  BY <1>1 DEF Local
<1>4. truth'[u].by = s /\ OpenOK(ph, k.tasks[u], j.tasks[u], truth'[u])
      /\ ph \in {"gone", "idle", "running"}
  BY <1>2
<1>5. LocalOK(s, u, ph, k, j, q, started, truth', rows, damaged, lines)
  <2> DEFINE T == truth'
             c == csv[s]
             d == jsonl[s]
  <2>1. /\ u # 0 /\ Holds(c, u) /\ started \in Nat /\ AnySeq(lines)
        /\ LocalOK(s, u, "running", c, d, <<>>, started, truth, rows, damaged, lines)
        /\ T[u].by = s /\ OpenOK(ph, k.tasks[u], j.tasks[u], T[u])
        /\ ph \in {"gone", "idle", "running"}
        /\ \A t \in 1..started : t # u => T[t] = truth[t]
    BY <1>1, <1>2, <1>3, <1>4
  <2> HIDE DEF T, c, d
  <2>2. LocalOK(s, u, ph, k, j, q, started, T, rows, damaged, lines)
    BY <2>1, OpenStep
  <2> QED BY <2>2 DEF T
<1> QED BY <1>1, <1>5, StepOfTask

\* The step of a task that is over.
LEMMA Closes ==
  ASSUME MetricsInv, NEW s \in Sessions, phase[s] = "running", todo[s] = <<>>,
         NEW k, NEW j, NEW q, NEW r, NEW u, u = task[s],
         r = [by |-> s, llm |-> r.llm, tools |-> r.tools, end |-> r.end],
         AnySeq(r.llm), AnySeq(r.tools),
         phase' = [phase EXCEPT ![s] = "idle"],
         csv' = [csv EXCEPT ![s] = k], jsonl' = [jsonl EXCEPT ![s] = j],
         todo' = [todo EXCEPT ![s] = q], UNCHANGED <<started, task, files, damaged>>,
         truth' = [truth EXCEPT ![u] = r],
         Idle(k), Idle(j), QRow(q), q[1].what.task = u, GoodRec(q[2].what, r),
         u \notin damaged => GoodRow(q[1].what, r, rows["llm_calls"][u], rows["tool_calls"][u])
  PROVE  MetricsInv'
<1>1. /\ u # 0 /\ u \in 1..started /\ Holds(csv[s], u) /\ started \in Nat /\ AnySeq(lines)
      /\ truth = [i \in 1..started |-> truth[i]] /\ Local(s)
  BY Running
<1>2. truth'[u] = r /\ r.by = s /\ \A t \in 1..started : t # u => truth'[t] = truth[t]
  BY <1>1
<1>3. LocalOK(s, u, "running", csv[s], jsonl[s], <<>>, started, truth, rows, damaged, lines)
  BY <1>1 DEF Local
<1>4. /\ truth'[u].by = s /\ GoodRec(q[2].what, truth'[u]) /\ "idle" \in {"gone", "idle"}
      /\ u \notin damaged => GoodRow(q[1].what, truth'[u], rows["llm_calls"][u], rows["tool_calls"][u])
  BY <1>2
<1>5. LocalOK(s, u, "idle", k, j, q, started, truth', rows, damaged, lines)
  BY <1>1, <1>2, <1>3, <1>4, CloseStep
<1> QED BY <1>1, <1>5, StepOfTask

\* A call more, in the accumulators and in what the task did.
LEMMA CallCounted ==
  ASSUME NEW a, NEW b, NEW r, OpenOK("running", a, b, r), AnySeq(r.llm),
         NEW known \in BOOLEAN, NEW c, NEW a2, NEW b2, NEW r2, a2 = AddCall(a, known),
         b2 = [llm |-> Append(b.llm, c), tools |-> b.tools, error |-> b.error, reply |-> b.reply],
         r2 = [by |-> r.by, llm |-> Append(r.llm, c), tools |-> r.tools, end |-> r.end]
  PROVE  OpenOK("running", a2, b2, r2)
<1>1. CsvAcc(a2) /\ a2.error = a.error
  <2>1. CASE known
    BY <2>1 DEF OpenOK, CsvAcc, AddCall
  <2>2. CASE ~known
    BY <2>2 DEF OpenOK, CsvAcc, AddCall
  <2> QED BY <2>1, <2>2
<1>2. b.llm = r.llm /\ AnySeq(Append(r.llm, c)) /\ JsonAcc(b)
  BY AppendIsASeq DEF OpenOK
<1>3. JsonAcc(b2)
  BY <1>2 DEF JsonAcc
<1>4. /\ b2.llm = r2.llm /\ b2.tools = b.tools /\ b2.error = b.error /\ b2.reply = b.reply
      /\ r2.tools = r.tools /\ r2.end = r.end
  BY <1>2
<1> QED BY <1>1, <1>3, <1>4 DEF OpenOK

\* The row of a call is queued as the accumulator counts it.
LEMMA CallRow ==
  ASSUME NEW a, NEW rl, NEW rt, NEW known, NEW w, w.tokens = known, NEW q,
         q = <<Op("length", "llm_calls", w)>>,
         a.llm = Len(rl), a.tools = Len(rt), a.tokens = Cardinality(WithTokens(rl))
  PROVE  QCall(q) /\ q[1].what = w /\ CountsOK(AddCall(a, known), q, rl, rt)
<1>1. QCall(q) /\ q[1].file = "llm_calls" /\ q[1].what = w
  BY CallQueue
<1>2. /\ AddCall(a, known).llm = Len(rl) + 1 /\ AddCall(a, known).tools = Len(rt)
      /\ AddCall(a, known).tokens = Cardinality(WithTokens(rl)) + (IF known THEN 1 ELSE 0)
  BY DEF AddCall
<1> QED BY <1>1, <1>2 DEF CountsOK

\* instrumented_call_llm keeps the invariant.
LEMMA CallKeeps == ASSUME MetricsInv, NEW s \in Sessions, CallLlm(s) PROVE MetricsInv'
<1> DEFINE u == task[s]
           i == index'[s]
           k == csv[s]
           j == jsonl[s]
           r == truth[u]
           did(status, tokens) ==
             truth' = [truth EXCEPT ![u].llm =
                         Append(@, [call |-> i, status |-> status, tokens |-> tokens])]
           E(kind) == [Event(s, kind) EXCEPT !.call = i]
           E2(kind, known) == [E(kind) EXCEPT !.tokens = known]
           After(c) == [by |-> s, llm |-> Append(r.llm, c), tools |-> r.tools, end |-> r.end]
<1>0. phase[s] = "running" /\ todo[s] = <<>> /\ UNCHANGED <<started, phase, task, files, damaged>>
  BY DEF CallLlm
<1>1. /\ u # 0 /\ u \in 1..started /\ Holds(k, u) /\ Holds(j, u)
      /\ OpenOK("running", k.tasks[u], j.tasks[u], r)
      /\ u \notin damaged =>
           /\ k.tasks[u].llm = Len(rows["llm_calls"][u]) /\ k.tasks[u].tools = Len(rows["tool_calls"][u])
           /\ k.tasks[u].tokens = Cardinality(WithTokens(rows["llm_calls"][u]))
      /\ r = [by |-> s, llm |-> r.llm, tools |-> r.tools, end |-> "none"]
      /\ AnySeq(r.llm) /\ AnySeq(r.tools) /\ truth = [x \in 1..started |-> truth[x]]
  BY <1>0, Running
<1>2. Holds(k, u) /\ Holds(j, u) /\ CsvAcc(k.tasks[u]) /\ JsonAcc(j.tasks[u])
  BY <1>1 DEF OpenOK
<1>3. phase' = [phase EXCEPT ![s] = "running"]
  BY <1>0 DEF MetricsInv, ShapesOK
<1>4. ASSUME NEW status, NEW tokens, did(status, tokens)
      PROVE  truth' = [truth EXCEPT ![u] = After([call |-> i, status |-> status, tokens |-> tokens])]
  <2> DEFINE y == Append(r.llm, [call |-> i, status |-> status, tokens |-> tokens])
  <2>1. truth' = [truth EXCEPT ![u] = [r EXCEPT !.llm = y]]
    BY <1>1, <1>4
  <2> HIDE DEF y, r
  <2>2. [r EXCEPT !.llm = y] = [by |-> s, llm |-> y, tools |-> r.tools, end |-> r.end]
    BY <1>1
  <2> QED BY <2>1, <2>2 DEF y
<1>5. ASSUME NEW kind, NEW known
      PROVE  /\ E(kind).kind = kind /\ E(kind).task = u /\ E(kind).call = i
             /\ E2(kind, known).kind = kind /\ E2(kind, known).task = u
             /\ E2(kind, known).call = i /\ E2(kind, known).tokens = known
  BY DEF Event
<1>6. \/ \E known \in BOOLEAN :
           /\ Emit(s, Through(Through(Sinks(s), E("LlmCompleted")), E2("TokensUsed", known)))
           /\ did("ok", known)
      \/ Emit(s, Through(Sinks(s), E("LlmFailed"))) /\ did("error", FALSE)
      \/ UNCHANGED <<sinks, truth>>
  BY DEF CallLlm
<1>7. Sinks(s) = [csv |-> k, jsonl |-> j, io |-> <<>>]
  BY DEF Sinks
<1> HIDE DEF E, E2, did, After, i, k, j, r, u
<1>8. CASE UNCHANGED <<sinks, truth>>
  <2>1. csv' = csv /\ jsonl' = jsonl /\ todo' = todo /\ truth' = truth /\ rows' = rows /\ lines' = lines
        /\ started' = started /\ phase' = phase /\ task' = task /\ damaged' = damaged
    BY <1>0, <1>8 DEF sinks, files
  <2> QED BY <2>1 DEF MetricsInv, ShapesOK, Local
<1>9. ASSUME NEW known \in BOOLEAN, did("ok", known),
             Emit(s, Through(Through(Sinks(s), E("LlmCompleted")), E2("TokensUsed", known)))
      PROVE  MetricsInv'
  <2> DEFINE d == E("LlmCompleted")
             e == E2("TokensUsed", known)
             m == CsvRecord(k, d)
             n == CsvRecord(m.sink, e)
             jm == JsonRecord(j, d)
             jn == JsonRecord(jm.sink, e)
             w == LlmRow(e, "ok", e.tokens)
             c == [call |-> i, status |-> "ok", tokens |-> known]
             b == j.tasks[u]
             st == Through(Through(Sinks(s), d), e)
  <2>1. /\ d.kind = "LlmCompleted" /\ d.task = u /\ e.kind = "TokensUsed" /\ e.task = u
        /\ e.call = d.call /\ d.call = i
    BY <1>5
  <2>0. e.tokens = known
    BY <1>5
  <2> HIDE DEF d, e
  <2>2. /\ m.io = <<>> /\ n.io = <<Op("length", "llm_calls", w)>> /\ Holds(n.sink, u)
        /\ n.sink.tasks[u] = AddCall(k.tasks[u], known)
    <3>1. AnswerCounted(k, u, d, e)
      BY <1>2, <2>1, CsvAnswered
    <3> QED BY <2>0, <3>1, Zenon DEF AnswerCounted
  <2>3. /\ jm.io = <<>> /\ jn.io = <<>> /\ Holds(jn.sink, u)
        /\ jn.sink.tasks[u] = [llm |-> Append(b.llm, c), tools |-> b.tools, error |-> b.error, reply |-> b.reply]
    BY <1>2, <2>1, <2>0, JsonAnswered
  <2>4. Through(Sinks(s), d) = [csv |-> m.sink, jsonl |-> jm.sink, io |-> <<>> \o m.io \o jm.io]
    BY <1>7 DEF Through
  <2> HIDE DEF m, n, jm, jn, w
  <2>5. st.csv = n.sink /\ st.jsonl = jn.sink /\ st.io = <<>> \o m.io \o jm.io \o n.io \o jn.io
    BY <2>4 DEF Through, n, jn
  <2>6. st.io = <<Op("length", "llm_calls", w)>>
    BY <2>2, <2>3, <2>5, ConcatFacts
  <2> HIDE DEF st
  <2>7. /\ csv' = [csv EXCEPT ![s] = n.sink] /\ jsonl' = [jsonl EXCEPT ![s] = jn.sink]
        /\ todo' = [todo EXCEPT ![s] = st.io]
    BY <1>9, <2>5 DEF Emit, st, d, e
  <2>8. truth' = [truth EXCEPT ![u] = After(c)]
    BY <1>4, <1>9
  <2>9. w.tokens = known /\ w.task = u
    BY <2>0, <2>1 DEF w, LlmRow
  <2>10. /\ QCall(st.io) /\ st.io[1].what.task = u
         /\ u \notin damaged => CountsOK(n.sink.tasks[u], st.io, rows["llm_calls"][u], rows["tool_calls"][u])
    <3>1. QCall(st.io) /\ st.io[1].what = w
      BY <2>6, CallQueue
    <3>2. u \notin damaged =>
            CountsOK(AddCall(k.tasks[u], known), st.io, rows["llm_calls"][u], rows["tool_calls"][u])
      BY <1>1, <2>6, <2>9, CallRow
    <3> QED BY <2>2, <2>9, <3>1, <3>2
  <2>11. /\ After(c) = [by |-> s, llm |-> Append(r.llm, c), tools |-> r.tools, end |-> r.end]
         /\ r.by = s
    BY <1>1 DEF After
  <2> HIDE DEF c
  <2>12. OpenOK("running", n.sink.tasks[u], jn.sink.tasks[u], After(c))
    <3>1. /\ OpenOK("running", k.tasks[u], b, r) /\ AnySeq(r.llm)
          /\ After(c) = [by |-> r.by, llm |-> Append(r.llm, c), tools |-> r.tools, end |-> r.end]
      BY <1>1, <2>11
    <3> QED BY <2>2, <2>3, <3>1, CallCounted
  <2>13. /\ After(c) = [by |-> s, llm |-> After(c).llm, tools |-> After(c).tools, end |-> After(c).end]
         /\ AnySeq(After(c).llm) /\ AnySeq(After(c).tools)
    BY <1>1, <2>11, AppendIsASeq
  <2> QED BY <1>0, <1>3, <2>2, <2>3, <2>7, <2>8, <2>10, <2>12, <2>13, Goes DEF u
<1>10. ASSUME Emit(s, Through(Sinks(s), E("LlmFailed"))), did("error", FALSE)
       PROVE  MetricsInv'
  <2> DEFINE e == E("LlmFailed")
             n == CsvRecord(k, e)
             jn == JsonRecord(j, e)
             w == LlmRow(e, "error", FALSE)
             c == [call |-> i, status |-> "error", tokens |-> FALSE]
             b == j.tasks[u]
             st == Through(Sinks(s), e)
  <2>1. e.kind = "LlmFailed" /\ e.task = u /\ e.call = i
    BY <1>5
  <2> HIDE DEF e
  <2>2. /\ n.io = <<Op("length", "llm_calls", w)>> /\ Holds(n.sink, u)
        /\ n.sink.tasks[u] = AddCall(k.tasks[u], FALSE)
    BY <1>2, <2>1, CsvFails
  <2>3. /\ jn.io = <<>> /\ Holds(jn.sink, u)
        /\ jn.sink.tasks[u] = [llm |-> Append(b.llm, c), tools |-> b.tools, error |-> b.error, reply |-> b.reply]
    <3>1. Call(e, "error") = c
      BY <2>1 DEF Call
    <3>2. /\ jn.io = <<>> /\ Holds(jn.sink, u)
          /\ jn.sink.tasks[u] = [llm |-> Append(b.llm, Call(e, "error")), tools |-> b.tools,
                                 error |-> b.error, reply |-> b.reply]
      BY <1>2, <2>1, JsonFails
    <3> HIDE DEF jn
    <3> QED BY <3>1, <3>2
  <2> HIDE DEF w
  <2>4. st = [csv |-> n.sink, jsonl |-> jn.sink, io |-> <<>> \o n.io \o jn.io]
    BY <1>7 DEF Through
  <2> HIDE DEF n, jn, st
  <2>5. st.csv = n.sink /\ st.jsonl = jn.sink /\ st.io = <<>> \o n.io \o jn.io
    BY <2>4
  <2>6. st.io = <<Op("length", "llm_calls", w)>>
    BY <2>2, <2>3, <2>5, ConcatFacts
  <2> HIDE DEF st
  <2>7. /\ csv' = [csv EXCEPT ![s] = n.sink] /\ jsonl' = [jsonl EXCEPT ![s] = jn.sink]
        /\ todo' = [todo EXCEPT ![s] = st.io]
    BY <1>10, <2>5 DEF Emit, st, e
  <2>8. truth' = [truth EXCEPT ![u] = After(c)]
    BY <1>4, <1>10
  <2>9. w.tokens = FALSE /\ w.task = u
    BY <2>1 DEF w, LlmRow
  <2>10. /\ QCall(st.io) /\ st.io[1].what.task = u
         /\ u \notin damaged => CountsOK(n.sink.tasks[u], st.io, rows["llm_calls"][u], rows["tool_calls"][u])
    <3>1. QCall(st.io) /\ st.io[1].what = w
      BY <2>6, CallQueue
    <3>2. u \notin damaged =>
            CountsOK(AddCall(k.tasks[u], FALSE), st.io, rows["llm_calls"][u], rows["tool_calls"][u])
      BY <1>1, <2>6, <2>9, CallRow
    <3> QED BY <2>2, <2>9, <3>1, <3>2
  <2>11. /\ After(c) = [by |-> s, llm |-> Append(r.llm, c), tools |-> r.tools, end |-> r.end]
         /\ r.by = s
    BY <1>1 DEF After
  <2> HIDE DEF c
  <2>12. OpenOK("running", n.sink.tasks[u], jn.sink.tasks[u], After(c))
    <3>1. /\ OpenOK("running", k.tasks[u], b, r) /\ AnySeq(r.llm)
          /\ After(c) = [by |-> r.by, llm |-> Append(r.llm, c), tools |-> r.tools, end |-> r.end]
      BY <1>1, <2>11
    <3> QED BY <2>2, <2>3, <3>1, CallCounted
  <2>13. /\ After(c) = [by |-> s, llm |-> After(c).llm, tools |-> After(c).tools, end |-> After(c).end]
         /\ AnySeq(After(c).llm) /\ AnySeq(After(c).tools)
    BY <1>1, <2>11, AppendIsASeq
  <2> QED BY <1>0, <1>3, <2>2, <2>3, <2>7, <2>8, <2>10, <2>12, <2>13, Goes DEF u
<1> QED BY <1>6, <1>8, <1>9, <1>10

\* So does a tool call.
LEMMA ToolKeeps == ASSUME MetricsInv, NEW s \in Sessions, RunTool(s) PROVE MetricsInv'
<1> DEFINE u == task[s]
           k == csv[s]
           j == jsonl[s]
           r == truth[u]
           E(o) == [Event(s, "ToolCompleted") EXCEPT !.outcome = o]
<1>0. phase[s] = "running" /\ todo[s] = <<>> /\ UNCHANGED <<started, phase, task, files, damaged>>
  BY DEF RunTool
<1>1. /\ u # 0 /\ u \in 1..started /\ Holds(k, u) /\ Holds(j, u)
      /\ OpenOK("running", k.tasks[u], j.tasks[u], r)
      /\ u \notin damaged =>
           /\ k.tasks[u].llm = Len(rows["llm_calls"][u]) /\ k.tasks[u].tools = Len(rows["tool_calls"][u])
           /\ k.tasks[u].tokens = Cardinality(WithTokens(rows["llm_calls"][u]))
      /\ r = [by |-> s, llm |-> r.llm, tools |-> r.tools, end |-> "none"]
      /\ AnySeq(r.llm) /\ AnySeq(r.tools) /\ truth = [x \in 1..started |-> truth[x]]
  BY <1>0, Running
<1>2. Holds(k, u) /\ Holds(j, u) /\ CsvAcc(k.tasks[u]) /\ JsonAcc(j.tasks[u])
  BY <1>1 DEF OpenOK
<1>3. phase' = [phase EXCEPT ![s] = "running"]
  BY <1>0 DEF MetricsInv, ShapesOK
<1> PICK o \in ToolOutcomes :
      /\ Emit(s, Through(Sinks(s), E(o)))
      /\ truth' = [truth EXCEPT ![u].tools = Append(@, o)]
  BY DEF RunTool
<1> DEFINE e == E(o)
           n == CsvRecord(k, e)
           jn == JsonRecord(j, e)
           w == [task |-> u, status |-> ToolStatus(o)]
           a == k.tasks[u]
           b == j.tasks[u]
           y == Append(r.tools, o)
           r2 == [by |-> s, llm |-> r.llm, tools |-> y, end |-> r.end]
           st == Through(Sinks(s), e)
<1>4. e.kind = "ToolCompleted" /\ e.task = u /\ e.outcome = o
  BY DEF Event
<1>5. Sinks(s) = [csv |-> k, jsonl |-> j, io |-> <<>>]
  BY DEF Sinks
<1>6. truth' = [truth EXCEPT ![u] = r2]
  <2>1. truth' = [truth EXCEPT ![u] = [r EXCEPT !.tools = y]]
    BY <1>1
  <2> HIDE DEF y, r
  <2>2. [r EXCEPT !.tools = y] = r2
    BY <1>1
  <2> QED BY <2>1, <2>2
<1>7. /\ csv' = [csv EXCEPT ![s] = st.csv] /\ jsonl' = [jsonl EXCEPT ![s] = st.jsonl]
      /\ todo' = [todo EXCEPT ![s] = st.io]
  BY DEF Emit
<1> HIDE DEF e, E, k, j, r, u
<1>8. /\ n.io = <<Op("length", "tool_calls", w)>> /\ Holds(n.sink, u)
      /\ n.sink.tasks[u] = [llm |-> a.llm, tokens |-> a.tokens, tools |-> a.tools + 1, error |-> a.error]
  <2>1. /\ n.io = <<Op("length", "tool_calls", [task |-> u, status |-> ToolStatus(e.outcome)])>>
        /\ Holds(n.sink, u)
        /\ n.sink.tasks[u] = [llm |-> a.llm, tokens |-> a.tokens, tools |-> a.tools + 1, error |-> a.error]
    BY <1>2, <1>4, CsvRunsTool
  <2> HIDE DEF n, a
  <2> QED BY <1>4, <2>1
<1>9. /\ jn.io = <<>> /\ Holds(jn.sink, u)
      /\ jn.sink.tasks[u] = [llm |-> b.llm, tools |-> Append(b.tools, ToolStatus(o)),
                             error |-> b.error, reply |-> b.reply]
  <2>1. /\ jn.io = <<>> /\ Holds(jn.sink, u)
        /\ jn.sink.tasks[u] = [llm |-> b.llm, tools |-> Append(b.tools, ToolStatus(e.outcome)),
                               error |-> b.error, reply |-> b.reply]
    BY <1>2, <1>4, JsonRunsTool
  <2> HIDE DEF jn, b
  <2> QED BY <1>4, <2>1
<1>10. st = [csv |-> n.sink, jsonl |-> jn.sink, io |-> <<>> \o n.io \o jn.io]
  BY <1>5 DEF Through
<1> HIDE DEF n, jn, w, st
<1>11. st.csv = n.sink /\ st.jsonl = jn.sink /\ st.io = <<Op("length", "tool_calls", w)>>
  BY <1>8, <1>9, <1>10, ConcatFacts
<1>12. QCall(st.io) /\ st.io[1].file = "tool_calls" /\ st.io[1].what.task = u
  <2>1. w.task = u
    BY DEF w
  <2>2. QCall(st.io) /\ st.io[1].file = "tool_calls" /\ st.io[1].what = w
    BY <1>11, CallQueue
  <2> QED BY <2>1, <2>2
<1>13. u \notin damaged => CountsOK(n.sink.tasks[u], st.io, rows["llm_calls"][u], rows["tool_calls"][u])
  <2> SUFFICES ASSUME u \notin damaged
               PROVE  CountsOK(n.sink.tasks[u], st.io, rows["llm_calls"][u], rows["tool_calls"][u])
    OBVIOUS
  <2>1. /\ n.sink.tasks[u].llm = Len(rows["llm_calls"][u])
        /\ n.sink.tasks[u].tools = Len(rows["tool_calls"][u]) + 1
        /\ n.sink.tasks[u].tokens = Cardinality(WithTokens(rows["llm_calls"][u]))
    BY <1>1, <1>8
  <2> QED BY <1>12, <2>1 DEF CountsOK
<1>14. /\ r2 = [by |-> s, llm |-> r2.llm, tools |-> r2.tools, end |-> r2.end]
       /\ AnySeq(r2.llm) /\ AnySeq(r2.tools)
  BY <1>1, AppendIsASeq
<1>15. OpenOK("running", n.sink.tasks[u], jn.sink.tasks[u], r2)
  <2>1. CsvAcc(n.sink.tasks[u]) /\ n.sink.tasks[u].error = a.error
    BY <1>2, <1>8 DEF CsvAcc
  <2>2. b.tools = Statuses(r.tools) /\ b.llm = r.llm /\ AnySeq(b.tools) /\ AnySeq(b.llm)
    BY <1>1, <1>2 DEF OpenOK, JsonAcc
  <2> DEFINE z == Append(b.tools, ToolStatus(o))
  <2>3. z = Statuses(y) /\ AnySeq(z)
    BY <1>1, <2>2, StatusAppended, AppendIsASeq
  <2> HIDE DEF z, y
  <2>4. jn.sink.tasks[u] = [llm |-> b.llm, tools |-> z, error |-> b.error, reply |-> b.reply]
    BY <1>9 DEF z
  <2>5. JsonAcc(jn.sink.tasks[u])
    BY <2>2, <2>3, <2>4 DEF JsonAcc
  <2>6. /\ r2.end = r.end /\ r2.llm = r.llm /\ r2.tools = y
        /\ jn.sink.tasks[u].llm = b.llm /\ jn.sink.tasks[u].tools = z
        /\ jn.sink.tasks[u].error = b.error /\ jn.sink.tasks[u].reply = b.reply
    BY <2>4
  <2> QED BY <1>1, <2>1, <2>2, <2>3, <2>5, <2>6 DEF OpenOK
<1> HIDE DEF r2
<1> QED BY <1>0, <1>3, <1>6, <1>7, <1>8, <1>9, <1>11, <1>12, <1>13, <1>14, <1>15, Goes DEF u

\* A new chain of sinks.
LEMMA NewSinkIsIdle == Idle(NewSink)
<1>1. DOMAIN <<>> = {}
  OBVIOUS
<1> QED BY <1>1 DEF Idle, NewSink

LEMMA ConnectKeeps == ASSUME MetricsInv, NEW s \in Sessions, Connect(s) PROVE MetricsInv'
<1>1. /\ phase[s] = "gone" /\ todo[s] = <<>> /\ phase' = [phase EXCEPT ![s] = "idle"]
      /\ task' = [task EXCEPT ![s] = 0]
      /\ csv' = [csv EXCEPT ![s] = NewSink] /\ jsonl' = [jsonl EXCEPT ![s] = NewSink]
      /\ UNCHANGED <<started, truth, files>> /\ todo' = todo /\ damaged' = damaged
  BY DEF Connect
<1>2. todo' = [todo EXCEPT ![s] = <<>>] /\ damaged \subseteq damaged'
  BY <1>1 DEF MetricsInv, ShapesOK
<1>3. started \in Nat
  BY DEF MetricsInv, TruthOK
<1>4. LocalOK(s, task[s], "gone", csv[s], jsonl[s], <<>>, started, truth, rows, damaged, lines)
  BY <1>1 DEF MetricsInv, Local
<1>5. Idle(csv[s])
  BY <1>4 DEF LocalOK, SessionOK, OpenOK
<1>6. LocalOK(s, 0, "idle", NewSink, NewSink, <<>>, started, truth, rows, damaged, lines)
  BY <1>3, <1>4, <1>5, NewSinkIsIdle, IdleStep
<1> QED BY <1>1, <1>2, <1>6, StepOfSinks

\* What is written of a task at its end.
LEMMA WrittenAtEnd ==
  ASSUME NEW u, NEW w, NEW v, w.task = u, v.task = u
  PROVE  /\ <<>> \o <<Op("length", "tasks", w)>> \o AppendJsonLine(v) =
               <<Op("length", "tasks", w), Op("json", "events", v), Op("newline", "events", v)>>
         /\ \A q : q = <<Op("length", "tasks", w), Op("json", "events", v), Op("newline", "events", v)>> =>
              QRow(q) /\ q[1].what = w /\ q[2].what = v /\ q[1].what.task = u
<1>1. <<>> \o <<Op("length", "tasks", w)>> \o AppendJsonLine(v) =
        <<Op("length", "tasks", w), Op("json", "events", v), Op("newline", "events", v)>>
  <2> DEFINE x == Op("length", "tasks", w)
             y == Op("json", "events", v)
             z == Op("newline", "events", v)
  <2>1. AppendJsonLine(v) = <<y, z>>
    BY DEF AppendJsonLine, Op
  <2> HIDE DEF x, y, z
  <2>2. <<>> \o <<x>> \o <<y, z>> = <<x, y, z>>
    BY ConcatFacts
  <2> QED BY <2>1, <2>2 DEF x, y, z
<1>2. ASSUME NEW q, q = <<Op("length", "tasks", w), Op("json", "events", v), Op("newline", "events", v)>>
      PROVE  QRow(q) /\ q[1].what = w /\ q[2].what = v /\ q[1].what.task = u
  <2>1. QRow(q) /\ q[1].what = w /\ q[2].what = v
    BY <1>2, EndQueue
  <2> QED BY <2>1
<1> QED BY <1>1, <1>2

\* The row and the record are right: of a task told to be over, and of an abandoned one.
LEMMA RightAtEnd ==
  ASSUME NEW u, NEW a, NEW b, NEW r, NEW r2, NEW rl, NEW rt, OpenOK("running", a, b, r),
         r2.llm = r.llm, r2.tools = r.tools, NEW e,
         (r2.end = "Ok" /\ e.kind = "RequestCompleted") \/ (r2.end = "Cancelled" /\ e.kind = "Cancelled")
  PROVE  /\ (a.llm = Len(rl) /\ a.tools = Len(rt) /\ a.tokens = Cardinality(WithTokens(rl))) =>
              GoodRow(EndRow(u, a, e), r2, rl, rt)
         /\ GoodRec(EndRec(u, b, e), r2)
<1> DEFINE status == EndStatus(e)
           reply == EndReply(b, e)
<1>1. status = StatusOf(r2.end) /\ "" = ErrorOf(r2.end) /\ b.error = "" /\ b.reply = FALSE
  BY DEF StatusOf, ErrorOf, OpenOK, ErrorSoFar, EndStatus
<1>2. b.llm = r.llm /\ b.tools = Statuses(r.tools)
  BY DEF OpenOK
<1>3. reply = (r2.end = "Ok")
  <2>1. CASE r2.end = "Ok" /\ e.kind = "RequestCompleted"
    BY <2>1 DEF EndReply
  <2>2. CASE r2.end = "Cancelled" /\ e.kind = "Cancelled"
    BY <1>1, <2>2 DEF EndReply
  <2> QED BY <2>1, <2>2
<1> HIDE DEF reply, status
<1>4. (a.llm = Len(rl) /\ a.tools = Len(rt) /\ a.tokens = Cardinality(WithTokens(rl))) =>
              GoodRow(CsvTaskRow(u, a, status, ""), r2, rl, rt)
  BY <1>1 DEF GoodRow, CsvTaskRow
<1>5. GoodRec([task |-> u, status |-> status, error |-> b.error, reply |-> reply,
               llm |-> b.llm, tools |-> b.tools], r2)
  BY <1>1, <1>2, <1>3 DEF GoodRec
<1> QED BY <1>4, <1>5 DEF reply, status, EndRow, EndRec

\* An abandoned task ended as an error, with its reason if an event gave one.
LEMMA RightWhenAbandoned ==
  ASSUME NEW u, NEW a, NEW b, NEW r, NEW rl, NEW rt, OpenOK("idle", a, b, r)
  PROVE  /\ (a.llm = Len(rl) /\ a.tools = Len(rt) /\ a.tokens = Cardinality(WithTokens(rl))) =>
              GoodRow(CsvTaskRow(u, a, "error", Abandoned(a)), r, rl, rt)
         /\ GoodRec(TaskRecord(u, b, "error", Abandoned(b)), r)
<1>1. r.end \in {"Abort", "Error"} /\ a.error = ErrorSoFar(r.end) /\ b.error = ErrorSoFar(r.end)
  BY DEF OpenOK
<1>2. "error" = StatusOf(r.end) /\ Abandoned(a) = ErrorOf(r.end) /\ Abandoned(b) = ErrorOf(r.end)
  BY <1>1 DEF StatusOf, ErrorOf, Abandoned, ErrorSoFar
<1>3. b.reply = FALSE /\ b.llm = r.llm /\ b.tools = Statuses(r.tools)
  BY DEF OpenOK
<1>4. b.reply = (r.end = "Ok")
  BY <1>1, <1>3
<1>5. GoodRec(TaskRecord(u, b, "error", Abandoned(b)), r)
  BY <1>2, <1>3, <1>4 DEF GoodRec, TaskRecord
<1> QED BY <1>2, <1>5 DEF GoodRow, CsvTaskRow

\* The system calls for a task that is over.
AllAtEnd(w, v) == <<Op("length", "tasks", w), Op("json", "events", v), Op("newline", "events", v)>>
Fresh(k, j) == [csv |-> k, jsonl |-> j, io |-> <<>>]

\* They are what both sinks together queue.
LEMMA AllAtEndIs ==
  ASSUME NEW w, NEW v, w.task = v.task
  PROVE  <<>> \o <<Op("length", "tasks", w)>> \o AppendJsonLine(v) = AllAtEnd(w, v)
BY WrittenAtEnd DEF AllAtEnd

LEMMA AllAtEndShape ==
  ASSUME NEW u, NEW w, NEW v, w.task = u, v.task = u
  PROVE  /\ QRow(AllAtEnd(w, v)) /\ AllAtEnd(w, v)[1].what = w /\ AllAtEnd(w, v)[2].what = v
         /\ AllAtEnd(w, v)[1].what.task = u
         /\ AllAtEnd(w, v) \o <<>> = AllAtEnd(w, v)
<1>2. \A q : q = AllAtEnd(w, v) =>
        QRow(q) /\ q[1].what = w /\ q[2].what = v /\ q[1].what.task = u
  <2> SUFFICES ASSUME NEW q, q = AllAtEnd(w, v)
               PROVE  QRow(q) /\ q[1].what = w /\ q[2].what = v /\ q[1].what.task = u
    OBVIOUS
  <2>1. v.task = w.task /\ q = <<Op("length", "tasks", w), Op("json", "events", v), Op("newline", "events", v)>>
    BY DEF AllAtEnd
  <2>2. QRow(q) /\ q[1].what = w /\ q[2].what = v
    BY <2>1, EndQueue
  <2> QED BY <2>2
<1>3. AllAtEnd(w, v) \o <<>> = AllAtEnd(w, v)
  BY ConcatFacts DEF AllAtEnd
<1> QED BY <1>2, <1>3

\* The sinks after the event.
LEMMA ClosingEvent ==
  ASSUME NEW k, NEW j, NEW u, Holds(k, u), Holds(j, u), JsonAcc(j.tasks[u]), NEW e, e.task = u,
         e.kind \in {"RequestCompleted", "Cancelled"}
  PROVE  LET st == Through(Fresh(k, j), e)
         IN  /\ Idle(st.csv) /\ Idle(st.jsonl)
             /\ st.io = AllAtEnd(EndRow(u, k.tasks[u], e), EndRec(u, j.tasks[u], e))
<1> DEFINE n == CsvRecord(k, e)
           m == JsonRecord(j, e)
           w == EndRow(u, k.tasks[u], e)
           v == EndRec(u, j.tasks[u], e)
<1>1. Idle(n.sink) /\ n.io = <<Op("length", "tasks", w)>>
  BY CsvEnds
<1>2. Idle(m.sink) /\ m.io = AppendJsonLine(v)
  BY JsonEnds
<1>3. Through(Fresh(k, j), e) = [csv |-> n.sink, jsonl |-> m.sink, io |-> <<>> \o n.io \o m.io]
  BY DEF Through, Fresh
<1>4. w.task = u /\ v.task = u
  BY DEF EndRow, EndRec, CsvTaskRow
<1> HIDE DEF n, m, w, v
<1>5. <<>> \o n.io \o m.io = AllAtEnd(w, v)
  <2>1. <<>> \o <<Op("length", "tasks", w)>> \o AppendJsonLine(v) = AllAtEnd(w, v)
    BY <1>4, AllAtEndIs
  <2> QED BY <1>1, <1>2, <2>1
<1>6. Through(Fresh(k, j), e) = [csv |-> n.sink, jsonl |-> m.sink, io |-> AllAtEnd(w, v)]
  BY <1>3, <1>5
<1> QED BY <1>1, <1>2, <1>6 DEF w, v

\* RequestFailed after it changes nothing.
LEMMA NothingAfter ==
  ASSUME NEW st, Idle(st.csv), Idle(st.jsonl), st.io \o <<>> = st.io,
         NEW f, f.kind = "RequestFailed"
  PROVE  LET st2 == Through(st, f)
         IN  st2.csv = st.csv /\ st2.jsonl = st.jsonl /\ st2.io = st.io
<1>1. CsvRecord(st.csv, f) = Quiet(st.csv) /\ JsonRecord(st.jsonl, f) = Quiet(st.jsonl)
  BY CsvStaysIdle, JsonStaysIdle
<1>2. Through(st, f) = [csv |-> st.csv, jsonl |-> st.jsonl, io |-> st.io \o <<>> \o <<>>]
  BY <1>1 DEF Through, Quiet
<1>3. st.io \o <<>> \o <<>> = st.io
  BY Zenon
<1> QED BY <1>2, <1>3

\* RequestFailed alone leaves the task open, with a reason.
LEMMA AbortEvent ==
  ASSUME NEW k, NEW j, NEW u, Holds(k, u), Holds(j, u), NEW r, NEW r2,
         OpenOK("running", k.tasks[u], j.tasks[u], r),
         NEW e, e.task = u, e.kind = "RequestFailed",
         NEW st, st = Through([csv |-> k, jsonl |-> j, io |-> <<>>], e),
         r2 = [by |-> r.by, llm |-> r.llm, tools |-> r.tools, end |-> "Abort"]
  PROVE  /\ Holds(st.csv, u) /\ Holds(st.jsonl, u) /\ st.io = <<>>
         /\ OpenOK("idle", st.csv.tasks[u], st.jsonl.tasks[u], r2)
         /\ st.csv.tasks[u].llm = k.tasks[u].llm /\ st.csv.tasks[u].tools = k.tasks[u].tools
         /\ st.csv.tasks[u].tokens = k.tasks[u].tokens
<1> DEFINE n == CsvRecord(k, e)
           m == JsonRecord(j, e)
           a == k.tasks[u]
           b == j.tasks[u]
<1>1. CsvAcc(a) /\ JsonAcc(b)
  BY DEF OpenOK
<1>2. /\ n.io = <<>> /\ Holds(n.sink, u)
      /\ n.sink.tasks[u] = [llm |-> a.llm, tokens |-> a.tokens, tools |-> a.tools, error |-> "reason"]
  BY <1>1, CsvAborts
<1>3. /\ m.io = <<>> /\ Holds(m.sink, u)
      /\ m.sink.tasks[u] = [llm |-> b.llm, tools |-> b.tools, error |-> "reason", reply |-> b.reply]
  BY <1>1, JsonAborts
<1>4. st = [csv |-> n.sink, jsonl |-> m.sink, io |-> <<>> \o n.io \o m.io]
  BY DEF Through
<1> HIDE DEF n, m
<1>5. st.csv = n.sink /\ st.jsonl = m.sink /\ st.io = <<>>
  BY <1>2, <1>3, <1>4, ConcatFacts
<1>6. CsvAcc(n.sink.tasks[u]) /\ JsonAcc(m.sink.tasks[u])
  BY <1>1, <1>2, <1>3 DEF CsvAcc, JsonAcc
<1>7. OpenOK("idle", n.sink.tasks[u], m.sink.tasks[u], r2)
  <2>1. b.reply = FALSE /\ b.llm = r.llm /\ b.tools = Statuses(r.tools)
    BY DEF OpenOK
  <2>2. r2.end = "Abort" /\ r2.llm = r.llm /\ r2.tools = r.tools
    OBVIOUS
  <2>3. ErrorSoFar(r2.end) = "reason"
    BY <2>2 DEF ErrorSoFar
  <2>4. /\ n.sink.tasks[u].error = "reason" /\ m.sink.tasks[u].error = "reason"
        /\ m.sink.tasks[u].llm = b.llm /\ m.sink.tasks[u].tools = b.tools
        /\ m.sink.tasks[u].reply = b.reply
    BY <1>2, <1>3
  <2> QED BY <1>6, <2>1, <2>2, <2>3, <2>4 DEF OpenOK
<1>8. /\ n.sink.tasks[u].llm = k.tasks[u].llm /\ n.sink.tasks[u].tools = k.tasks[u].tools
      /\ n.sink.tasks[u].tokens = k.tasks[u].tokens
  BY <1>2
<1> QED BY <1>2, <1>3, <1>5, <1>7, <1>8

\* However process_from returns, the invariant holds.
LEMMA EndKeeps ==
  ASSUME MetricsInv, NEW s \in Sessions, NEW r \in Ends, EndTask(s, r) PROVE MetricsInv'
<1> DEFINE u == task[s]
           k == csv[s]
           j == jsonl[s]
           g == truth[u]
           g2 == [by |-> s, llm |-> g.llm, tools |-> g.tools, end |-> r]
           st == AtEnd(s, r)
           rl == rows["llm_calls"][u]
           rt == rows["tool_calls"][u]
<1>0. /\ phase[s] = "running" /\ todo[s] = <<>> /\ UNCHANGED <<started, task, files, damaged>>
      /\ phase' = [phase EXCEPT ![s] = "idle"]
      /\ csv' = [csv EXCEPT ![s] = st.csv] /\ jsonl' = [jsonl EXCEPT ![s] = st.jsonl]
      /\ todo' = [todo EXCEPT ![s] = st.io]
      /\ truth' = [truth EXCEPT ![u].end = r]
  BY DEF EndTask, Emit
<1>1. /\ u # 0 /\ u \in 1..started /\ Holds(k, u) /\ Holds(j, u)
      /\ OpenOK("running", k.tasks[u], j.tasks[u], g)
      /\ u \notin damaged =>
           /\ k.tasks[u].llm = Len(rl) /\ k.tasks[u].tools = Len(rt)
           /\ k.tasks[u].tokens = Cardinality(WithTokens(rl))
      /\ g = [by |-> s, llm |-> g.llm, tools |-> g.tools, end |-> "none"]
      /\ AnySeq(g.llm) /\ AnySeq(g.tools) /\ truth = [x \in 1..started |-> truth[x]]
  BY <1>0, Running
<1>2. Holds(k, u) /\ Holds(j, u) /\ CsvAcc(k.tasks[u]) /\ JsonAcc(j.tasks[u])
  BY <1>1 DEF OpenOK
<1>3. truth' = [truth EXCEPT ![u] = g2]
  <2>1. truth' = [truth EXCEPT ![u] = [g EXCEPT !.end = r]]
    BY <1>0, <1>1
  <2> HIDE DEF g
  <2>2. [g EXCEPT !.end = r] = g2
    BY <1>1
  <2> QED BY <2>1, <2>2
<1>4. /\ g2.llm = g.llm /\ g2.tools = g.tools /\ g2.end = r /\ g.by = s
      /\ g2 = [by |-> s, llm |-> g2.llm, tools |-> g2.tools, end |-> g2.end]
      /\ AnySeq(g2.llm) /\ AnySeq(g2.tools)
  BY <1>1
<1>5. \A kind : Event(s, kind).kind = kind /\ Event(s, kind).task = u
  BY DEF Event
<1>6. Sinks(s) = Fresh(k, j)
  BY DEF Sinks, Fresh
<1> HIDE DEF u, k, j, g, rl, rt
<1>7. ASSUME NEW e, e.task = u,
             (r = "Ok" /\ e.kind = "RequestCompleted") \/ (r = "Cancelled" /\ e.kind = "Cancelled"),
             LET b == Through(Sinks(s), e)
             IN  st.csv = b.csv /\ st.jsonl = b.jsonl /\ st.io = b.io
      PROVE  MetricsInv'
  <2> DEFINE b == Through(Fresh(k, j), e)
             w == EndRow(u, k.tasks[u], e)
             v == EndRec(u, j.tasks[u], e)
  <2>0. e.kind \in {"RequestCompleted", "Cancelled"} /\ e.task = u
    BY <1>7
  <2>1. Idle(b.csv) /\ Idle(b.jsonl) /\ b.io = AllAtEnd(w, v)
    BY <1>2, <2>0, ClosingEvent
  <2>2. st.csv = b.csv /\ st.jsonl = b.jsonl /\ st.io = b.io
    BY <1>6, <1>7
  <2>3. w.task = u /\ v.task = u
    BY DEF EndRow, EndRec, CsvTaskRow
  <2>4. /\ OpenOK("running", k.tasks[u], j.tasks[u], g)
        /\ (g2.end = "Ok" /\ e.kind = "RequestCompleted") \/ (g2.end = "Cancelled" /\ e.kind = "Cancelled")
    BY <1>1, <1>4, <1>7
  <2> HIDE DEF g2
  <2>5. /\ (k.tasks[u].llm = Len(rl) /\ k.tasks[u].tools = Len(rt)
              /\ k.tasks[u].tokens = Cardinality(WithTokens(rl))) =>
             GoodRow(w, g2, rl, rt)
        /\ GoodRec(v, g2)
    BY <1>4, <2>4, RightAtEnd
  <2> HIDE DEF w, v, b, st
  <2>6. /\ QRow(st.io) /\ st.io[1].what = w /\ st.io[2].what = v /\ st.io[1].what.task = u
    BY <2>1, <2>2, <2>3, AllAtEndShape
  <2>7. Idle(st.csv) /\ Idle(st.jsonl) /\ GoodRec(st.io[2].what, g2)
        /\ (u \notin damaged => GoodRow(st.io[1].what, g2, rows["llm_calls"][u], rows["tool_calls"][u]))
    BY <1>1, <2>1, <2>2, <2>5, <2>6 DEF rl, rt
  <2> QED BY <1>0, <1>3, <1>4, <2>6, <2>7, Closes DEF u
<1>8. CASE r = "Ok"
  <2> DEFINE e == Event(s, "RequestCompleted")
  <2>1. st = Through(Sinks(s), e)
    BY <1>8 DEF AtEnd
  <2>2. e.task = u /\ e.kind = "RequestCompleted"
    BY <1>5
  <2> HIDE DEF e, st
  <2>3. LET b == Through(Sinks(s), e)
        IN  st.csv = b.csv /\ st.jsonl = b.jsonl /\ st.io = b.io
    BY <2>1
  <2> QED BY <1>7, <1>8, <2>2, <2>3, Zenon
<1>9. CASE r = "Cancelled"
  <2> DEFINE e == Event(s, "Cancelled")
             b == Through(Sinks(s), e)
  <2>1. st = Through(b, Event(s, "RequestFailed"))
    BY <1>9 DEF AtEnd
  <2>2. e.task = u /\ e.kind = "Cancelled" /\ Event(s, "RequestFailed").kind = "RequestFailed"
    BY <1>5
  <2> DEFINE w == EndRow(u, k.tasks[u], e)
             v == EndRec(u, j.tasks[u], e)
  <2> HIDE DEF e
  <2>3. Idle(b.csv) /\ Idle(b.jsonl) /\ b.io = AllAtEnd(w, v)
    BY <1>2, <1>6, <2>2, ClosingEvent
  <2>4. w.task = u /\ v.task = u
    BY DEF EndRow, EndRec, CsvTaskRow
  <2> HIDE DEF w, v, b, st
  <2>5. b.io \o <<>> = b.io
    BY <2>3, <2>4, AllAtEndShape
  <2>6. st.csv = b.csv /\ st.jsonl = b.jsonl /\ st.io = b.io
    BY <2>1, <2>2, <2>3, <2>5, NothingAfter
  <2> QED BY <1>7, <1>9, <2>2, <2>6 DEF b
<1>10. ASSUME r \in {"Abort", "Error"},
              /\ Holds(st.csv, u) /\ Holds(st.jsonl, u) /\ st.io = <<>>
              /\ OpenOK("idle", st.csv.tasks[u], st.jsonl.tasks[u], g2)
              /\ st.csv.tasks[u].llm = k.tasks[u].llm /\ st.csv.tasks[u].tools = k.tasks[u].tools
              /\ st.csv.tasks[u].tokens = k.tasks[u].tokens
       PROVE  MetricsInv'
  <2> HIDE DEF st, g2
  <2>1. ~QCall(st.io)
    BY <1>10, EmptyQueue
  <2>2. u \notin damaged => CountsOK(st.csv.tasks[u], st.io, rows["llm_calls"][u], rows["tool_calls"][u])
    BY <1>1, <1>10, <2>1 DEF CountsOK, rl, rt
  <2>3. "idle" \in {"idle", "running"}
    OBVIOUS
  <2>4. /\ Holds(st.csv, u) /\ Holds(st.jsonl, u) /\ st.io = <<>>
        /\ OpenOK("idle", st.csv.tasks[u], st.jsonl.tasks[u], g2)
    BY <1>10
  <2>6. st.io = <<>> \/ (QCall(st.io) /\ st.io[1].what.task = u)
    BY <2>4, Zenon
  <2>5. /\ phase[s] = "running" /\ todo[s] = <<>> /\ UNCHANGED <<started, task, files, damaged>>
        /\ phase' = [phase EXCEPT ![s] = "idle"]
        /\ csv' = [csv EXCEPT ![s] = st.csv] /\ jsonl' = [jsonl EXCEPT ![s] = st.jsonl]
        /\ todo' = [todo EXCEPT ![s] = st.io]
        /\ g2 = [by |-> s, llm |-> g2.llm, tools |-> g2.tools, end |-> g2.end]
        /\ AnySeq(g2.llm) /\ AnySeq(g2.tools)
    BY <1>0, <1>4
  <2> QED BY <1>3, <2>2, <2>3, <2>4, <2>5, <2>6, Goes DEF u
<1>11. CASE r = "Abort"
  <2> DEFINE e == Event(s, "RequestFailed")
  <2>1. st = Through([csv |-> k, jsonl |-> j, io |-> <<>>], e) /\ e.task = u /\ e.kind = "RequestFailed"
    BY <1>5, <1>6, <1>11 DEF AtEnd, Fresh
  <2>2. g2 = [by |-> g.by, llm |-> g.llm, tools |-> g.tools, end |-> "Abort"]
    BY <1>4, <1>11
  <2>3. OpenOK("running", k.tasks[u], j.tasks[u], g)
    BY <1>1
  <2> HIDE DEF st, e, g2
  <2>4. /\ Holds(st.csv, u) /\ Holds(st.jsonl, u) /\ st.io = <<>>
        /\ OpenOK("idle", st.csv.tasks[u], st.jsonl.tasks[u], g2)
        /\ st.csv.tasks[u].llm = k.tasks[u].llm /\ st.csv.tasks[u].tools = k.tasks[u].tools
        /\ st.csv.tasks[u].tokens = k.tasks[u].tokens
    BY <1>2, <2>1, <2>2, <2>3, AbortEvent
  <2> QED BY <1>10, <1>11, <2>4
<1>12. CASE r = "Error"
  <2>1. st = Fresh(k, j)
    BY <1>6, <1>12 DEF AtEnd
  <2> HIDE DEF st
  <2>2. st.csv = k /\ st.jsonl = j /\ st.io = <<>>
    BY <2>1 DEF Fresh
  <2>3. g2.end = "Error" /\ g.end = "none"
    BY <1>1, <1>4, <1>12
  <2> HIDE DEF g2
  <2>4. OpenOK("idle", k.tasks[u], j.tasks[u], g2)
    BY <1>1, <1>4, <2>3 DEF OpenOK, ErrorSoFar
  <2> QED BY <1>2, <1>10, <1>12, <2>2, <2>4
<1> QED BY <1>8, <1>9, <1>11, <1>12 DEF Ends

\* What flush_abandoned leaves to write, of session s that has ended its turn: q.
FlushOK(s, u, k, q) ==
  \/ Idle(k) /\ q = <<>>
  \/ /\ Holds(k, u) /\ u # 0 /\ QRow(q) /\ q[1].what.task = u /\ GoodRec(q[2].what, truth[u])
     /\ u \notin damaged => GoodRow(q[1].what, truth[u], rows["llm_calls"][u], rows["tool_calls"][u])

\* Both sinks abandon the same task, if any.
LEMMA Flushed ==
  ASSUME MetricsInv, NEW s \in Sessions, phase[s] = "idle", todo[s] = <<>>, NEW x, task[s] \notin x
  PROVE  LET c == CsvFlushAbandoned(csv[s], x)
             d == JsonFlushAbandoned(jsonl[s], x)
         IN  /\ Idle(c.sink) /\ Idle(d.sink) /\ <<>> \o c.io \o d.io = c.io \o d.io
             /\ FlushOK(s, task[s], csv[s], c.io \o d.io)
<1> DEFINE u == task[s]
           k == csv[s]
           j == jsonl[s]
           c == CsvFlushAbandoned(k, x)
           d == JsonFlushAbandoned(j, x)
           rl == rows["llm_calls"][u]
           rt == rows["tool_calls"][u]
<1>1. SessionOK(s, u, "idle", k, j, <<>>, started, truth, rows, damaged)
  BY DEF MetricsInv, Local, LocalOK
<1> HIDE DEF u, k, j, rl, rt
<1>2. CASE Idle(k) /\ Idle(j)
  <2>1. Idle(c.sink) /\ c.io = <<>> /\ Idle(d.sink) /\ d.io = <<>>
    BY <1>2, CsvFlushIdle, JsonFlushIdle
  <2> HIDE DEF c, d
  <2>2. c.io \o d.io = <<>> /\ <<>> \o c.io \o d.io = <<>>
    BY <2>1, ConcatFacts
  <2>3. FlushOK(s, u, k, c.io \o d.io)
    BY <1>2, <2>2 DEF FlushOK
  <2> QED BY <2>1, <2>2, <2>3 DEF c, d, u, k, j
<1>3. CASE Holds(k, u)
  <2>0. ~Idle(k)
    BY <1>3 DEF Idle, Holds
  <2>1. /\ Holds(j, u) /\ u # 0 /\ OpenOK("idle", k.tasks[u], j.tasks[u], truth[u])
        /\ u \notin damaged => CountsOK(k.tasks[u], <<>>, rl, rt)
    BY <1>1, <2>0 DEF SessionOK, rl, rt
  <2> DEFINE w == CsvTaskRow(u, k.tasks[u], "error", Abandoned(k.tasks[u]))
             v == TaskRecord(u, j.tasks[u], "error", Abandoned(j.tasks[u]))
  <2>2. u \notin x
    BY DEF u
  <2>3. Idle(c.sink) /\ c.io = <<Op("length", "tasks", w)>>
    BY <1>3, <2>2, CsvFlushOne
  <2>4. Idle(d.sink) /\ d.io = AppendJsonLine(v)
    BY <2>1, <2>2, JsonFlushOne
  <2>5. w.task = u /\ v.task = u
    BY DEF CsvTaskRow, TaskRecord
  <2>6. /\ (k.tasks[u].llm = Len(rl) /\ k.tasks[u].tools = Len(rt)
              /\ k.tasks[u].tokens = Cardinality(WithTokens(rl))) =>
             GoodRow(w, truth[u], rl, rt)
        /\ GoodRec(v, truth[u])
    BY <2>1, RightWhenAbandoned
  <2> HIDE DEF c, d, w, v
  <2>7. <<>> \o c.io \o d.io = AllAtEnd(w, v) /\ c.io \o d.io = AllAtEnd(w, v)
    <3>1. <<>> \o <<Op("length", "tasks", w)>> \o AppendJsonLine(v) = AllAtEnd(w, v)
      BY <2>5, AllAtEndIs
    <3>2. <<>> \o <<Op("length", "tasks", w)>> = <<Op("length", "tasks", w)>>
      BY ConcatFacts
    <3> QED BY <2>3, <2>4, <3>1, <3>2
  <2>8. /\ QRow(AllAtEnd(w, v)) /\ AllAtEnd(w, v)[1].what = w /\ AllAtEnd(w, v)[2].what = v
        /\ AllAtEnd(w, v)[1].what.task = u
    BY <2>5, AllAtEndShape
  <2>9. u \notin damaged => GoodRow(w, truth[u], rl, rt)
    <3>1. ~QCall(<<>>)
      BY EmptyQueue
    <3> QED BY <2>1, <2>6, <3>1 DEF CountsOK
  <2>10. FlushOK(s, u, k, AllAtEnd(w, v))
    BY <1>3, <2>1, <2>6, <2>8, <2>9 DEF FlushOK, rl, rt
  <2> QED BY <2>3, <2>4, <2>7, <2>10 DEF c, d, u, k, j
<1> QED BY <1>1, <1>2, <1>3 DEF SessionOK

\* Dropping the sinks keeps the invariant.
LEMMA DisconnectKeeps == ASSUME MetricsInv, NEW s \in Sessions, Disconnect(s) PROVE MetricsInv'
<1> DEFINE u == task[s]
           c == CsvFlushAbandoned(csv[s], {})
           d == JsonFlushAbandoned(jsonl[s], {})
           q == c.io \o d.io
<1>1. /\ phase[s] = "idle" /\ todo[s] = <<>> /\ phase' = [phase EXCEPT ![s] = "gone"]
      /\ csv' = [csv EXCEPT ![s] = c.sink] /\ jsonl' = [jsonl EXCEPT ![s] = d.sink]
      /\ todo' = [todo EXCEPT ![s] = q] /\ UNCHANGED <<started, truth, files>>
      /\ task' = task /\ damaged' = damaged
  BY DEF Disconnect
<1>2. task' = [task EXCEPT ![s] = u] /\ damaged \subseteq damaged'
  BY <1>1 DEF MetricsInv, ShapesOK
<1>3. Idle(c.sink) /\ Idle(d.sink) /\ FlushOK(s, u, csv[s], q)
  <2>1. task[s] \notin {}
    OBVIOUS
  <2> QED BY <1>1, <2>1, Flushed
<1>4. started \in Nat /\ AnySeq(lines)
  BY DEF MetricsInv, TruthOK, LinesOK
<1>5. LocalOK(s, u, "idle", csv[s], jsonl[s], <<>>, started, truth, rows, damaged, lines)
  BY <1>1 DEF MetricsInv, Local
<1> HIDE DEF c, d, q, u
<1>6. CASE Idle(csv[s]) /\ q = <<>>
  <2>1. LocalOK(s, u, "gone", c.sink, d.sink, q, started, truth, rows, damaged, lines)
    BY <1>3, <1>4, <1>5, <1>6, IdleStep
  <2> QED BY <1>1, <1>2, <2>1, StepOfSinks
<1>7. CASE /\ Holds(csv[s], u) /\ u # 0 /\ QRow(q) /\ q[1].what.task = u /\ GoodRec(q[2].what, truth[u])
           /\ u \notin damaged => GoodRow(q[1].what, truth[u], rows["llm_calls"][u], rows["tool_calls"][u])
  <2>1. truth[u].by = s
    BY <1>5, <1>7 DEF LocalOK, SessionOK
  <2>2. LocalOK(s, u, "gone", c.sink, d.sink, q, started, truth, rows, damaged, lines)
    BY <1>3, <1>4, <1>5, <1>7, <2>1, CloseStep
  <2> QED BY <1>1, <1>2, <2>2, StepOfSinks
<1> QED BY <1>3, <1>6, <1>7 DEF FlushOK

\* A new task keeps it, and ends what the last one left open.
LEMMA StartKeeps == ASSUME MetricsInv, NEW s \in Sessions, StartTask(s) PROVE MetricsInv'
<1> DEFINE u == task[s]
           v == started + 1
           k == csv[s]
           j == jsonl[s]
           e == [Event(s, "RequestStarted") EXCEPT !.task = started']
           c == CsvFlushAbandoned(k, {v})
           d == JsonFlushAbandoned(j, {v})
           q == c.io \o d.io
           st == Through(Sinks(s), e)
           r == [by |-> s, llm |-> <<>>, tools |-> <<>>, end |-> "none"]
<1>1. /\ phase[s] = "idle" /\ todo[s] = <<>> /\ started < MaxTasks /\ started' = v
      /\ phase' = [phase EXCEPT ![s] = "running"] /\ task' = [task EXCEPT ![s] = started']
      /\ csv' = [csv EXCEPT ![s] = st.csv] /\ jsonl' = [jsonl EXCEPT ![s] = st.jsonl]
      /\ todo' = [todo EXCEPT ![s] = st.io] /\ truth' = Append(truth, r)
      /\ rows' = rows /\ lines' = lines /\ damaged' = damaged
  BY DEF StartTask, Emit, files
<1>2. started \in 0..MaxTasks /\ started \in Nat /\ MaxTasks \in Nat /\ v \in Nat /\ v \in 1..MaxTasks
      /\ AnySeq(truth) /\ Len(truth) = started /\ AnySeq(lines)
      /\ \A i \in 1..Len(lines) : lines[i].task \in 0..started
  BY <1>1, BoundsAssumption DEF MetricsInv, TruthOK, LinesOK
<1>3. LocalOK(s, u, "idle", k, j, <<>>, started, truth, rows, damaged, lines)
  BY <1>1 DEF MetricsInv, Local
<1>4. u \in 0..started /\ u \notin {v}
  BY <1>2, <1>3 DEF LocalOK, SessionOK
<1>5. Idle(c.sink) /\ Idle(d.sink) /\ <<>> \o c.io \o d.io = q /\ FlushOK(s, u, k, q)
  BY <1>1, <1>4, Flushed
<1>6. e.kind = "RequestStarted" /\ e.task = v
  BY <1>1 DEF Event
<1>7. Sinks(s) = [csv |-> k, jsonl |-> j, io |-> <<>>]
  BY DEF Sinks
<1> HIDE DEF e, c, d, k, j, u, v
<1>8. /\ Holds(CsvRecord(k, e).sink, v) /\ CsvRecord(k, e).sink.tasks[v] = CsvAccumulator
      /\ CsvRecord(k, e).io = c.io
  BY <1>5, <1>6, CsvStarts DEF c
<1>9. /\ Holds(JsonRecord(j, e).sink, v) /\ JsonRecord(j, e).sink.tasks[v] = JsonAccumulator
      /\ JsonRecord(j, e).io = d.io
  BY <1>5, <1>6, JsonStarts DEF d
<1>10. st = [csv |-> CsvRecord(k, e).sink, jsonl |-> JsonRecord(j, e).sink, io |-> <<>> \o c.io \o d.io]
  <2>1. st = [csv |-> CsvRecord(k, e).sink, jsonl |-> JsonRecord(j, e).sink,
              io |-> <<>> \o CsvRecord(k, e).io \o JsonRecord(j, e).io]
    BY <1>7 DEF Through
  <2> HIDE DEF st
  <2> QED BY <1>8, <1>9, <2>1
<1> HIDE DEF st, q
<1>11. /\ Holds(st.csv, v) /\ st.csv.tasks[v] = CsvAccumulator
       /\ Holds(st.jsonl, v) /\ st.jsonl.tasks[v] = JsonAccumulator /\ st.io = q
  BY <1>5, <1>8, <1>9, <1>10
<1>12. /\ truth'[v] = r /\ AnySeq(truth') /\ Len(truth') = v
       /\ \A t \in 1..started : truth'[t] = truth[t]
  BY <1>1, <1>2, AppendIsASeq DEF v
<1>13. OpenOK("running", st.csv.tasks[v], st.jsonl.tasks[v], truth'[v]) /\ truth'[v].by = s
  <2>1. Statuses(<<>>) = <<>>
    BY DEF Statuses
  <2>2. AnySeq(<<>>)
    BY EmptyIsASeq
  <2>3. r.by = s /\ r.llm = <<>> /\ r.tools = <<>> /\ r.end = "none"
    OBVIOUS
  <2>4. CsvAcc(CsvAccumulator) /\ CsvAccumulator.error = ""
    BY DEF CsvAcc, CsvAccumulator
  <2>5. /\ JsonAcc(JsonAccumulator) /\ JsonAccumulator.error = "" /\ JsonAccumulator.reply = FALSE
        /\ JsonAccumulator.llm = <<>> /\ JsonAccumulator.tools = <<>>
    BY <2>2 DEF JsonAcc, JsonAccumulator
  <2> HIDE DEF r
  <2> QED BY <1>11, <1>12, <2>1, <2>3, <2>4, <2>5 DEF OpenOK, ErrorSoFar
<1>14. rows["tasks"][v] = <<>> /\ rows["llm_calls"][v] = <<>> /\ rows["tool_calls"][v] = <<>>
  BY <1>2 DEF MetricsInv, RowsOK, CsvFiles, v
<1>15. ~QCall(q)
  BY <1>5, Kinds, EmptyQueue DEF FlushOK
<1>16. CountsOK(st.csv.tasks[v], st.io, rows["llm_calls"][v], rows["tool_calls"][v])
  <2>1. WithTokens(<<>>) = {}
    BY DEF WithTokens
  <2>2. Cardinality({}) = 0
    BY FS_EmptySet
  <2>3. CsvAccumulator.llm = 0 /\ CsvAccumulator.tools = 0 /\ CsvAccumulator.tokens = 0 /\ Len(<<>>) = 0
    BY DEF CsvAccumulator
  <2> QED BY <1>11, <1>14, <1>15, <2>1, <2>2, <2>3 DEF CountsOK
<1>17. LocalOK(s, v, "running", st.csv, st.jsonl, st.io, v, truth', rows, damaged, lines)
  <2> DEFINE T == truth'
             a == st.csv
             b == st.jsonl
  <2>1. /\ started \in Nat /\ v = started + 1 /\ AnySeq(lines)
        /\ LocalOK(s, u, "idle", k, j, <<>>, started, truth, rows, damaged, lines)
        /\ Holds(a, v) /\ Holds(b, v) /\ OpenOK("running", a.tasks[v], b.tasks[v], T[v])
        /\ CountsOK(a.tasks[v], q, rows["llm_calls"][v], rows["tool_calls"][v])
        /\ rows["tasks"][v] = <<>> /\ \A i \in 1..Len(lines) : lines[i].task \in 0..started
        /\ T[v].by = s /\ \A t \in 1..started : T[t] = truth[t]
    BY <1>2, <1>3, <1>11, <1>12, <1>13, <1>14, <1>16 DEF v
  <2>2. \/ Idle(k) /\ q = <<>>
        \/ /\ Holds(k, u) /\ u # 0 /\ QRow(q) /\ q[1].what.task = u /\ GoodRec(q[2].what, truth[u])
           /\ u \notin damaged => GoodRow(q[1].what, truth[u], rows["llm_calls"][u], rows["tool_calls"][u])
    BY <1>5 DEF FlushOK
  <2> HIDE DEF T, a, b
  <2>3. LocalOK(s, v, "running", a, b, q, v, T, rows, damaged, lines)
    BY <2>1, <2>2, StartStep
  <2> QED BY <1>11, <2>3 DEF T, a, b
<1>18. TruthOK(started', truth')
  <2>1. v \in 0..MaxTasks
    BY <1>2
  <2>2. ASSUME NEW t \in 1..v
        PROVE  /\ truth'[t] = [by |-> truth'[t].by, llm |-> truth'[t].llm,
                               tools |-> truth'[t].tools, end |-> truth'[t].end]
               /\ truth'[t].by \in Sessions /\ AnySeq(truth'[t].llm) /\ AnySeq(truth'[t].tools)
    <3>1. t = v \/ t \in 1..started
      BY <1>2 DEF v
    <3>2. CASE t = v
      BY <1>12, <3>2, EmptyIsASeq
    <3>3. CASE t \in 1..started
      BY <1>12, <3>3 DEF MetricsInv, TruthOK
    <3> QED BY <3>1, <3>2, <3>3
  <2> QED BY <1>1, <1>12, <2>1, <2>2 DEF TruthOK
<1>19. RowsOK(started', rows') /\ LinesOK(started', lines')
  <2>1. \A t \in (v + 1)..MaxTasks : t \in (started + 1)..MaxTasks
    BY <1>2 DEF v
  <2>2. \A t \in 0..started : t \in 0..v
    BY <1>2 DEF v
  <2> QED BY <1>1, <2>1, <2>2 DEF MetricsInv, RowsOK, LinesOK
<1>20. \A t \in 1..started : truth[t].by # s =>
            /\ truth'[t] = truth[t] /\ \A f \in CsvFiles : rows'[f][t] = rows[f][t]
            /\ OthersLine(t, lines, lines')
  BY <1>1, <1>12 DEF OthersLine
<1>21. \A t \in 1..started' : truth'[t].by # s => t \in 1..started /\ truth[t].by = truth'[t].by
  <2> SUFFICES ASSUME NEW t \in 1..v, truth'[t].by # s
               PROVE  t \in 1..started /\ truth[t].by = truth'[t].by
    BY <1>1
  <2>1. t = v \/ t \in 1..started
    BY <1>2 DEF v
  <2> QED BY <1>12, <1>13, <2>1
<1>22. started <= started' /\ damaged \subseteq damaged'
  BY <1>1, <1>2 DEF v
<1>23. LocalOK(s, v, "running", st.csv, st.jsonl, st.io, started', truth', rows', damaged', lines')
  BY <1>1, <1>17
<1>24. task' = [task EXCEPT ![s] = v]
  BY <1>1
<1> QED BY <1>1, <1>18, <1>19, <1>20, <1>21, <1>22, <1>23, <1>24, StepOfOne

-----------------------------------------------------------------------------
(***************************************************************************)
(* The actions that write.                                                 *)
(***************************************************************************)

\* What is left after the first system call.
LEMMA Tails ==
  ASSUME NEW q
  PROVE  /\ QCall(q) => Head(q) = q[1] /\ Tail(q) = <<>> /\ Len(q) = 1
         /\ QRow(q) => /\ Head(q) = q[1] /\ QRec(Tail(q)) /\ Tail(q)[1].what = q[2].what
                       /\ Tail(q)[2].what = q[3].what /\ Tail(q) = <<q[2], q[3]>> /\ Len(q) = 3
         /\ QRec(q) => Head(q) = q[1] /\ QEnd(Tail(q)) /\ Tail(q)[1].what = q[2].what /\ Len(q) = 2
         /\ QEnd(q) => Head(q) = q[1] /\ Tail(q) = <<>> /\ Len(q) = 1
<1>1. ASSUME NEW a PROVE Head(<<a>>) = a /\ Tail(<<a>>) = <<>>
  OBVIOUS
<1>2. ASSUME NEW a, NEW b PROVE Head(<<a, b>>) = a /\ Tail(<<a, b>>) = <<b>>
  OBVIOUS
<1>3. ASSUME NEW a, NEW b, NEW c PROVE Head(<<a, b, c>>) = a /\ Tail(<<a, b, c>>) = <<b, c>>
  OBVIOUS
<1>4. QCall(q) => Head(q) = q[1] /\ Tail(q) = <<>> /\ Len(q) = 1
  <2> SUFFICES ASSUME QCall(q) PROVE Head(q) = q[1] /\ Tail(q) = <<>> /\ Len(q) = 1
    OBVIOUS
  <2>1. q = <<q[1]>> /\ Len(q) = 1
    BY DEF QCall
  <2> QED BY <1>1, <2>1
<1>5. QEnd(q) => Head(q) = q[1] /\ Tail(q) = <<>> /\ Len(q) = 1
  <2> SUFFICES ASSUME QEnd(q) PROVE Head(q) = q[1] /\ Tail(q) = <<>> /\ Len(q) = 1
    OBVIOUS
  <2>1. q = <<q[1]>> /\ Len(q) = 1
    BY DEF QEnd
  <2> QED BY <1>1, <2>1
<1>6. QRec(q) => Head(q) = q[1] /\ QEnd(Tail(q)) /\ Tail(q)[1].what = q[2].what /\ Len(q) = 2
  <2> SUFFICES ASSUME QRec(q)
               PROVE  Head(q) = q[1] /\ QEnd(Tail(q)) /\ Tail(q)[1].what = q[2].what /\ Len(q) = 2
    OBVIOUS
  <2>1. q = <<q[1], q[2]>> /\ Len(q) = 2 /\ IsLineOp(q[2], "newline")
    BY DEF QRec
  <2>2. Head(q) = q[1] /\ Tail(q) = <<q[2]>>
    BY <1>2, <2>1
  <2> QED BY <2>1, <2>2 DEF QEnd
<1>7. QRow(q) => /\ Head(q) = q[1] /\ QRec(Tail(q)) /\ Tail(q)[1].what = q[2].what
                 /\ Tail(q)[2].what = q[3].what /\ Tail(q) = <<q[2], q[3]>> /\ Len(q) = 3
  <2> SUFFICES ASSUME QRow(q)
               PROVE  /\ Head(q) = q[1] /\ QRec(Tail(q)) /\ Tail(q)[1].what = q[2].what
                      /\ Tail(q)[2].what = q[3].what /\ Tail(q) = <<q[2], q[3]>> /\ Len(q) = 3
    OBVIOUS
  <2>1. /\ q = <<q[1], q[2], q[3]>> /\ Len(q) = 3 /\ IsLineOp(q[2], "json")
        /\ IsLineOp(q[3], "newline") /\ q[3].what = q[2].what
    BY DEF QRow
  <2>2. PICK a, b, c : a = q[1] /\ b = q[2] /\ c = q[3]
    OBVIOUS
  <2>3. q = <<a, b, c>>
    BY <2>1, <2>2
  <2>4. Head(q) = a /\ Tail(q) = <<b, c>>
    BY <1>3, <2>3
  <2>5. QRec(<<b, c>>)
    BY <2>1, <2>2 DEF QRec
  <2>6. Tail(q)[1] = b /\ Tail(q)[2] = c
    <3>1. <<b, c>>[1] = b /\ <<b, c>>[2] = c
      OBVIOUS
    <3> QED BY <2>4, <3>1, Zenon
  <2>8. QRec(Tail(q))
    BY <2>4, <2>5, Zenon
  <2>7. Tail(q) = <<q[2], q[3]>>
    BY <2>2, <2>4, Zenon
  <2> QED BY <2>1, <2>2, <2>4, <2>6, <2>7, <2>8, Zenon
<1> QED BY <1>4, <1>5, <1>6, <1>7

\* A session that has something left to write.
LEMMA Busy ==
  ASSUME MetricsInv, NEW s \in Sessions, todo[s] # <<>>
  PROVE  LET q == todo[s]
             c == q[1].what.task
         IN  /\ QCall(q) \/ QRow(q) \/ QRec(q) \/ QEnd(q)
             /\ QCall(q) => c = task[s]
             /\ c \in 1..started /\ truth[c].by = s /\ Head(q) = q[1]
             /\ LocalOK(s, task[s], phase[s], csv[s], jsonl[s], q, started, truth, rows, damaged, lines)
             /\ started \in Nat /\ started <= MaxTasks /\ AnySeq(lines)
<1> DEFINE q == todo[s]
           c == q[1].what.task
           u == task[s]
<1>1. /\ LocalOK(s, u, phase[s], csv[s], jsonl[s], q, started, truth, rows, damaged, lines)
      /\ started \in Nat /\ started <= MaxTasks /\ AnySeq(lines)
  BY BoundsAssumption DEF MetricsInv, TruthOK, LinesOK, Local
<1>2. SessionOK(s, u, phase[s], csv[s], jsonl[s], q, started, truth, rows, damaged)
  BY <1>1 DEF LocalOK
<1>3. QCall(q) \/ QRow(q) \/ QRec(q) \/ QEnd(q)
  BY <1>2 DEF SessionOK, QueueOK
<1>4. Head(q) = q[1]
  BY <1>3, Tails
<1> HIDE DEF q
<1>5. CASE QCall(q)
  <2>1. ~QRow(q) /\ ~QRec(q) /\ ~QEnd(q) /\ q # <<>>
    BY <1>5, Kinds
  <2>2. c = u /\ u \in DOMAIN csv[s].tasks
    BY <1>2, <2>1 DEF SessionOK, QueueOK
  <2>3. ~Idle(csv[s])
    BY <2>2 DEF Idle
  <2>4. u \in 0..started /\ u # 0 /\ truth[u].by = s
    BY <1>2, <2>3 DEF SessionOK
  <2>5. u \in 1..started
    BY <1>1, <2>4
  <2> QED BY <1>1, <1>3, <1>4, <2>2, <2>4, <2>5 DEF q
<1>6. CASE ~QCall(q)
  <2>1. c \in 1..started /\ truth[c].by = s
    BY <1>2, <1>6 DEF SessionOK, QueueOK, q
  <2> QED BY <1>1, <1>3, <1>4, <1>6, <2>1 DEF q
<1> QED BY <1>5, <1>6

\* A look at the length of a file.
LEMMA LookKeeps == ASSUME MetricsInv, NEW s \in Sessions, LookAtLength(s) PROVE MetricsInv'
<1> DEFINE q == todo[s]
           x == [q[1] EXCEPT !.op = "header_and_row"]
           q2 == [q EXCEPT ![1] = x]
<1>1. /\ q # <<>> /\ Head(q).op = "length" /\ todo' = [todo EXCEPT ![s][1].op = "header_and_row"]
      /\ task' = task /\ phase' = phase /\ csv' = csv /\ jsonl' = jsonl
      /\ UNCHANGED <<started, truth, files>> /\ damaged' = damaged
  BY DEF LookAtLength
<1>2. (QCall(q) \/ QRow(q) \/ QRec(q) \/ QEnd(q)) /\ Head(q) = q[1]
  BY <1>1, Busy
<1>3. /\ task' = [task EXCEPT ![s] = task[s]] /\ phase' = [phase EXCEPT ![s] = phase[s]]
      /\ csv' = [csv EXCEPT ![s] = csv[s]] /\ jsonl' = [jsonl EXCEPT ![s] = jsonl[s]]
      /\ damaged \subseteq damaged'
  BY <1>1 DEF MetricsInv, ShapesOK
<1>4. todo' = [todo EXCEPT ![s] = q2]
  BY <1>1
<1>5. LocalOK(s, task[s], phase[s], csv[s], jsonl[s], q, started, truth, rows, damaged, lines)
      /\ started \in Nat
  BY <1>1, Busy
<1> HIDE DEF q
<1>6. QCall(q) \/ QRow(q)
  BY <1>1, <1>2 DEF QRec, QEnd, IsLineOp, Op
<1>7. q[1] = Op("length", q[1].file, q[1].what)
  BY <1>1, <1>2, <1>6 DEF QCall, QRow, IsRowOp, Op
<1>8. x = Op("header_and_row", q[1].file, q[1].what)
  BY <1>7 DEF Op
<1> HIDE DEF x
<1>9. x.op = "header_and_row" /\ x.file = q[1].file /\ x.what = q[1].what /\ x = Op(x.op, x.file, x.what)
  BY <1>8 DEF Op
<1>10. /\ \/ QCall(q) /\ QCall(q2) /\ q2[1].file = q[1].file
          \/ QRow(q) /\ QRow(q2) /\ q2[2].what = q[2].what
       /\ q2[1].what = q[1].what
  <2>1. CASE QCall(q)
    <3>1. q = <<q[1]>> /\ q[1].file \in {"llm_calls", "tool_calls"}
      BY <2>1 DEF QCall, IsRowOp
    <3>2. q2 = <<x>>
      BY <3>1
    <3> HIDE DEF q2
    <3> QED BY <1>9, <2>1, <3>1, <3>2 DEF QCall, IsRowOp
  <2>2. CASE QRow(q)
    <3>1. /\ q = <<q[1], q[2], q[3]>> /\ q[1].file \in {"tasks"} /\ IsLineOp(q[2], "json")
          /\ IsLineOp(q[3], "newline") /\ q[2].what.task = q[1].what.task /\ q[3].what = q[2].what
      BY <2>2 DEF QRow, IsRowOp
    <3>2. q2 = <<x, q[2], q[3]>>
      BY <3>1
    <3> HIDE DEF q2
    <3>3. q2[1] = x /\ q2[2] = q[2] /\ q2[3] = q[3] /\ Len(q2) = 3 /\ q2 = <<q2[1], q2[2], q2[3]>>
      BY <3>2
    <3>4. IsRowOp(x, {"tasks"})
      BY <1>9, <3>1 DEF IsRowOp
    <3>5. QRow(q2)
      BY <1>9, <3>1, <3>3, <3>4 DEF QRow
    <3>6. q2[1].what = q[1].what /\ q2[2].what = q[2].what
      BY <1>9, <3>3
    <3> QED BY <2>2, <3>5, <3>6, Zenon
  <2> QED BY <1>6, <2>1, <2>2
<1> HIDE DEF q2
<1>11. LocalOK(s, task[s], phase[s], csv[s], jsonl[s], q2, started, truth, rows, damaged, lines)
  BY <1>5, <1>10, LookStep
<1>12. LocalOK(s, task[s], phase[s], csv[s], jsonl[s], q2, started, truth, rows, damaged', lines)
  BY <1>1, <1>11
<1>13. UNCHANGED <<started, truth, files>>
  BY <1>1
<1> QED BY <1>3, <1>4, <1>12, <1>13, StepOfSinks

\* File f has row w more, and perhaps a header.
RowWritten(rw, rw2, f, w) ==
  LET a == [rw[f] EXCEPT ![w.task] = Append(@, w)]
  IN  \/ rw2 = [rw EXCEPT ![f] = a]
      \/ rw2 = [rw EXCEPT ![f] = [a EXCEPT ![0] = Append(@, Header)]]

RowAddedOK(n, rw, rw2, f, c, w) ==
  /\ RowsOK(n, rw2) /\ rw2[f][c] = Append(rw[f][c], w)
  /\ \A g \in CsvFiles : g # f => rw2[g] = rw[g]
  /\ \A g \in CsvFiles : \A t \in 1..n : g # f \/ t # c => rw2[g][t] = rw[g][t]

\* The rows of every other task are as they were.
LEMMA RowAdded ==
  ASSUME NEW n \in Nat, NEW rw, RowsOK(n, rw), n <= MaxTasks, NEW f \in CsvFiles, NEW c \in 1..n,
         NEW w, w.task = c, NEW rw2, RowWritten(rw, rw2, f, w)
  PROVE  RowAddedOK(n, rw, rw2, f, c, w)
<1> DEFINE a == [rw[f] EXCEPT ![c] = Append(@, w)]
<1>0. MaxTasks \in Nat
  BY BoundsAssumption
<1>8. \/ rw2 = [rw EXCEPT ![f] = a]
      \/ rw2 = [rw EXCEPT ![f] = [a EXCEPT ![0] = Append(@, Header)]]
  BY DEF RowWritten
<1>1. /\ rw = [g \in CsvFiles |-> rw[g]] /\ rw[f] = [t \in 0..MaxTasks |-> rw[f][t]]
      /\ \A t \in 0..MaxTasks : AnySeq(rw[f][t])
      /\ \A t \in (n + 1)..MaxTasks : rw[f][t] = <<>>
  BY DEF RowsOK
<1>2. /\ c \in 0..MaxTasks /\ c # 0 /\ 0 \in 0..MaxTasks
      /\ \A t \in (n + 1)..MaxTasks : t # 0 /\ t # c /\ t \in 0..MaxTasks
  BY <1>0
<1>3. /\ a = [t \in 0..MaxTasks |-> a[t]] /\ a[c] = Append(rw[f][c], w)
      /\ \A t \in 0..MaxTasks : t # c => a[t] = rw[f][t]
  BY <1>1, <1>2
<1>4. AnySeq(Append(rw[f][c], w))
  BY <1>1, <1>2, AppendIsASeq
<1> HIDE DEF a
<1> DEFINE b == rw2[f]
<1>5. /\ b = [t \in 0..MaxTasks |-> b[t]] /\ b[c] = Append(rw[f][c], w) /\ AnySeq(b[0])
      /\ \A t \in 0..MaxTasks : t # c /\ t # 0 => b[t] = rw[f][t]
      /\ rw2 = [g \in CsvFiles |-> rw2[g]] /\ \A g \in CsvFiles : g # f => rw2[g] = rw[g]
  <2>1. CASE rw2 = [rw EXCEPT ![f] = a]
    <3>1. b = a /\ rw2 = [g \in CsvFiles |-> rw2[g]] /\ \A g \in CsvFiles : g # f => rw2[g] = rw[g]
      BY <1>1, <2>1
    <3> HIDE DEF b
    <3> QED BY <1>1, <1>2, <1>3, <3>1
  <2>2. CASE rw2 = [rw EXCEPT ![f] = [a EXCEPT ![0] = Append(@, Header)]]
    <3> DEFINE d == [a EXCEPT ![0] = Append(@, Header)]
    <3>1. /\ d = [t \in 0..MaxTasks |-> d[t]] /\ d[0] = Append(a[0], Header)
          /\ \A t \in 0..MaxTasks : t # 0 => d[t] = a[t]
      BY <1>2, <1>3
    <3>2. rw2 = [rw EXCEPT ![f] = d]
      BY <2>2
    <3> HIDE DEF d
    <3>3. b = d /\ rw2 = [g \in CsvFiles |-> rw2[g]] /\ \A g \in CsvFiles : g # f => rw2[g] = rw[g]
      BY <1>1, <3>2
    <3>4. AnySeq(Append(a[0], Header))
      BY <1>1, <1>2, <1>3, AppendIsASeq
    <3> HIDE DEF b
    <3> QED BY <1>2, <1>3, <3>1, <3>3, <3>4
  <2> QED BY <1>8, <2>1, <2>2
<1>6. RowsOK(n, rw2)
  <2>1. ASSUME NEW g \in CsvFiles
        PROVE  /\ rw2[g] = [t \in 0..MaxTasks |-> rw2[g][t]]
               /\ \A t \in 0..MaxTasks : AnySeq(rw2[g][t])
               /\ \A t \in (n + 1)..MaxTasks : rw2[g][t] = <<>>
    <3>1. CASE g = f
      <4>1. \A t \in 0..MaxTasks : AnySeq(b[t])
        BY <1>1, <1>4, <1>5
      <4>2. \A t \in (n + 1)..MaxTasks : b[t] = <<>>
        BY <1>1, <1>2, <1>5
      <4> QED BY <1>5, <3>1, <4>1, <4>2
    <3>2. CASE g # f
      BY <1>5, <3>2 DEF RowsOK
    <3> QED BY <3>1, <3>2
  <2> QED BY <1>5, <2>1 DEF RowsOK
<1>7. ASSUME NEW g \in CsvFiles, NEW t \in 1..n, g # f \/ t # c PROVE rw2[g][t] = rw[g][t]
  <2>1. t \in 0..MaxTasks /\ t # 0
    BY <1>0
  <2> QED BY <1>5, <1>7, <2>1
<1> QED BY <1>5, <1>6, <1>7 DEF RowAddedOK

\* A row is appended.
LEMMA RowKeeps == ASSUME MetricsInv, NEW s \in Sessions, AppendRow(s) PROVE MetricsInv'
<1> DEFINE q == todo[s]
           u == task[s]
           f == q[1].file
           w == q[1].what
           c == w.task
           q2 == Tail(q)
<1>0. todo[s] # <<>>
  BY DEF AppendRow
<1>1. /\ QCall(q) \/ QRow(q) \/ QRec(q) \/ QEnd(q)
      /\ QCall(q) => c = task[s]
      /\ c \in 1..started /\ truth[c].by = s /\ Head(q) = q[1]
      /\ LocalOK(s, task[s], phase[s], csv[s], jsonl[s], q, started, truth, rows, damaged, lines)
      /\ started \in Nat /\ started <= MaxTasks /\ AnySeq(lines)
  BY <1>0, Busy
<1>2. /\ Head(q).op \in {"length", "header_and_row"}
      /\ RowWritten(rows, rows', Head(q).file, Head(q).what)
      /\ todo' = [todo EXCEPT ![s] = q2]
      /\ started' = started /\ phase' = phase /\ task' = task /\ csv' = csv /\ jsonl' = jsonl
      /\ lines' = lines /\ truth' = truth /\ damaged' = damaged
  BY DEF AppendRow, Done, RowWritten
<1>3. /\ task' = [task EXCEPT ![s] = u] /\ phase' = [phase EXCEPT ![s] = phase[s]]
      /\ csv' = [csv EXCEPT ![s] = csv[s]] /\ jsonl' = [jsonl EXCEPT ![s] = jsonl[s]]
  BY <1>2 DEF MetricsInv, ShapesOK
<1>4. QCall(q) \/ QRow(q)
  BY <1>1, <1>2 DEF QRec, QEnd, IsLineOp, Op
<1>5. QCall(q) => f \in {"llm_calls", "tool_calls"}
  BY DEF QCall, IsRowOp
<1>6. QRow(q) => f = "tasks"
  BY DEF QRow, IsRowOp
<1>7. f \in CsvFiles /\ RowsOK(started, rows)
  BY <1>4, <1>5, <1>6 DEF CsvFiles, MetricsInv
<1> HIDE DEF q
<1>8. RowWritten(rows, rows', f, w)
  BY <1>1, <1>2
<1>14. c = q[1].what.task /\ c = w.task
  OBVIOUS
<1> HIDE DEF f, w, c
<1>9. /\ RowsOK(started, rows') /\ rows'[f][c] = Append(rows[f][c], w)
      /\ \A g \in CsvFiles : g # f => rows'[g] = rows[g]
      /\ \A g \in CsvFiles : \A t \in 1..started : g # f \/ t # c => rows'[g][t] = rows[g][t]
  <2> DEFINE R == rows'
  <2>1. RowWritten(rows, R, f, w) /\ c \in 1..started /\ started \in Nat /\ started <= MaxTasks
    BY <1>1, <1>8
  <2> HIDE DEF R
  <2>2. RowAddedOK(started, rows, R, f, c, w)
    BY <1>7, <1>14, <2>1, RowAdded
  <2> QED BY <2>2 DEF R, RowAddedOK
<1>10. LocalOK(s, u, phase[s], csv[s], jsonl[s], q2, started, truth, rows', damaged, lines)
  <2> DEFINE R == rows'
             h == phase[s]
             k == csv[s]
             j == jsonl[s]
  <2>1. /\ RowsOK(started, R) /\ R[f][c] = Append(rows[f][c], w)
        /\ \A g \in CsvFiles : g # f => R[g] = rows[g]
        /\ \A g \in CsvFiles : \A t \in 1..started : g # f \/ t # c => R[g][t] = rows[g][t]
    BY <1>9
  <2>2. /\ LocalOK(s, u, h, k, j, q, started, truth, rows, damaged, lines) /\ c \in 1..started
        /\ started \in Nat /\ AnySeq(lines) /\ {"llm_calls", "tool_calls", "tasks"} = CsvFiles
        /\ started <= MaxTasks
    BY <1>1 DEF CsvFiles
  <2> HIDE DEF R, h, k, j
  <2>3. CASE QCall(q)
    <3>1. q2 = <<>> /\ u = c /\ f \in {"llm_calls", "tool_calls"}
      BY <1>1, <1>5, <2>3, Tails DEF c, w
    <3> HIDE DEF u, q2
    <3> DEFINE g == IF f = "llm_calls" THEN "tool_calls" ELSE "llm_calls"
    <3>2. {f, g} = {"llm_calls", "tool_calls"} /\ g # f /\ g \in CsvFiles
      BY <2>2, <3>1
    <3> HIDE DEF g
    <3>3. AnySeq(rows[f][u]) /\ AnySeq(rows[g][u])
      <4>1. u \in 0..MaxTasks
        BY <2>2, <3>1, BoundsAssumption
      <4> QED BY <1>7, <3>2, <4>1 DEF RowsOK
    <3>4. /\ R[f][u] = Append(rows[f][u], q[1].what) /\ R[g][u] = rows[g][u]
          /\ \A t \in 1..started : /\ R["tasks"][t] = rows["tasks"][t]
                                   /\ t # u => R[f][t] = rows[f][t] /\ R[g][t] = rows[g][t]
      <4>1. "tasks" # f /\ "tasks" \in CsvFiles
        BY <2>2, <3>1
      <4> QED BY <1>7, <2>1, <2>2, <3>1, <3>2, <4>1 DEF w
    <3>5. f = q[1].file
      BY DEF f
    <3>6. LocalOK(s, u, h, k, j, q2, started, truth, R, damaged, lines)
      BY <2>2, <2>3, <3>1, <3>2, <3>3, <3>4, <3>5, CallRowStep
    <3> QED BY <3>6 DEF R, h, k, j
  <2>4. CASE QRow(q)
    <3>1. QRec(q2) /\ q2[1].what = q[2].what /\ f = "tasks"
      BY <1>6, <2>4, Tails
    <3>3. R["llm_calls"] = rows["llm_calls"] /\ R["tool_calls"] = rows["tool_calls"]
      BY <2>1, <2>2, <3>1
    <3>4. \A t \in 1..started : t # c => R["tasks"][t] = rows["tasks"][t]
      BY <1>7, <2>1, <3>1
    <3>5. /\ R["llm_calls"][u] = rows["llm_calls"][u] /\ R["tool_calls"][u] = rows["tool_calls"][u]
          /\ \A t \in 1..started : /\ R["llm_calls"][t] = rows["llm_calls"][t]
                                   /\ R["tool_calls"][t] = rows["tool_calls"][t]
                                   /\ t # c => R["tasks"][t] = rows["tasks"][t]
      BY <3>3, <3>4
    <3>6. R["tasks"][c] = Append(rows["tasks"][c], q[1].what) /\ c = q[1].what.task
      BY <1>14, <2>1, <3>1 DEF w
    <3>9. TaskRowAdded(started, u, c, q[1].what, rows, R)
      BY <3>5, <3>6 DEF TaskRowAdded
    <3> HIDE DEF u, q2
    <3>8. /\ LocalOK(s, u, h, k, j, q, started, truth, rows, damaged, lines) /\ started \in Nat
          /\ AnySeq(lines) /\ QRec(q2) /\ q2[1].what = q[2].what
      BY <2>2, <3>1
    <3>7. LocalOK(s, u, h, k, j, q2, started, truth, R, damaged, lines)
      BY <2>4, <3>6, <3>8, <3>9, TaskRowStep
    <3> QED BY <3>7 DEF R, h, k, j
  <2> QED BY <1>4, <2>3, <2>4
<1>11. TruthOK(started', truth') /\ RowsOK(started', rows') /\ LinesOK(started', lines')
  BY <1>2, <1>9 DEF MetricsInv
<1>12. \A t \in 1..started : truth[t].by # s =>
            /\ truth'[t] = truth[t] /\ \A g \in CsvFiles : rows'[g][t] = rows[g][t]
            /\ OthersLine(t, lines, lines')
  BY <1>1, <1>2, <1>9 DEF OthersLine
<1>13. /\ \A t \in 1..started' : truth'[t].by # s => t \in 1..started /\ truth[t].by = truth'[t].by
       /\ started <= started' /\ damaged \subseteq damaged'
  BY <1>1, <1>2
<1>15. LocalOK(s, u, phase[s], csv[s], jsonl[s], q2, started', truth', rows', damaged', lines')
  BY <1>2, <1>10
<1>16. todo' = [todo EXCEPT ![s] = q2]
  BY <1>2
<1> HIDE DEF q2, u
<1> QED BY <1>3, <1>11, <1>12, <1>13, <1>15, <1>16, StepOfOne

\* A record or a line end is appended.
LEMMA LineAdded ==
  ASSUME NEW n, NEW ln, LinesOK(n, ln), NEW x, x.task \in 0..n
  PROVE  LinesOK(n, Append(ln, x))
<1>1. AnySeq(ln) /\ Len(ln) \in Nat
  BY DEF LinesOK, AnySeq
<1>2. /\ AnySeq(Append(ln, x)) /\ Len(Append(ln, x)) = Len(ln) + 1
      /\ \A i \in 1..Len(ln) : Append(ln, x)[i] = ln[i]
      /\ Append(ln, x)[Len(ln) + 1] = x
  BY <1>1, AppendIsASeq
<1> DEFINE l2 == Append(ln, x)
<1> HIDE DEF l2
<1>3. ASSUME NEW i \in 1..Len(l2) PROVE l2[i].task \in 0..n
  <2>1. i = Len(ln) + 1 \/ i \in 1..Len(ln)
    BY <1>1, <1>2 DEF l2
  <2> QED BY <1>2, <2>1 DEF LinesOK, l2
<1> QED BY <1>2, <1>3 DEF LinesOK, l2

LEMMA LineKeeps == ASSUME MetricsInv, NEW s \in Sessions, AppendToLines(s) PROVE MetricsInv'
<1> DEFINE q == todo[s]
           u == task[s]
           c == q[1].what.task
           x == IF Head(q).op = "json" THEN Head(q).what ELSE LineEnd
           q2 == Tail(q)
<1>0. todo[s] # <<>>
  BY DEF AppendToLines
<1>1. /\ QCall(q) \/ QRow(q) \/ QRec(q) \/ QEnd(q)
      /\ c \in 1..started /\ truth[c].by = s /\ Head(q) = q[1]
      /\ LocalOK(s, task[s], phase[s], csv[s], jsonl[s], q, started, truth, rows, damaged, lines)
      /\ started \in Nat /\ AnySeq(lines)
  BY <1>0, Busy
<1>2. /\ Head(q).op \in {"json", "newline"} /\ lines' = Append(lines, x)
      /\ todo' = [todo EXCEPT ![s] = q2]
      /\ started' = started /\ phase' = phase /\ task' = task /\ csv' = csv /\ jsonl' = jsonl
      /\ rows' = rows /\ truth' = truth /\ damaged' = damaged
  BY DEF AppendToLines, Done
<1>3. /\ task' = [task EXCEPT ![s] = u] /\ phase' = [phase EXCEPT ![s] = phase[s]]
      /\ csv' = [csv EXCEPT ![s] = csv[s]] /\ jsonl' = [jsonl EXCEPT ![s] = jsonl[s]]
  BY <1>2 DEF MetricsInv, ShapesOK
<1>4. QRec(q) \/ QEnd(q)
  BY <1>1, <1>2 DEF QCall, QRow, IsRowOp, Op
<1>5. (QRec(q) => x = q[1].what) /\ (QEnd(q) => x = LineEnd)
  BY <1>1 DEF QRec, QEnd, IsLineOp, Op
<1>6. /\ QRec(q) => QEnd(q2) /\ q2[1].what = q[1].what
      /\ QEnd(q) => q2 = <<>>
  BY Tails DEF QRec
<1>7. LineEnd.task = 0
  BY DEF LineEnd
<1> HIDE DEF q, x, q2, u
<1>8. x.task = c \/ x.task = 0
  BY <1>4, <1>5, <1>7
<1>9. x.task \in 0..started
  BY <1>1, <1>8
<1>10. LocalOK(s, u, phase[s], csv[s], jsonl[s], q2, started, truth, rows, damaged, lines')
  <2> DEFINE l2 == lines'
             h == phase[s]
             k == csv[s]
             j == jsonl[s]
  <2>1. LocalOK(s, u, h, k, j, q, started, truth, rows, damaged, lines) /\ l2 = Append(lines, x)
        /\ started \in Nat /\ AnySeq(lines)
    BY <1>1, <1>2 DEF u
  <2> HIDE DEF l2, h, k, j
  <2>2. CASE QRec(q)
    <3>1. QEnd(q2) /\ q2[1].what = q[1].what /\ l2 = Append(lines, q[1].what)
      BY <1>5, <1>6, <2>1, <2>2
    <3>2. LocalOK(s, u, h, k, j, q2, started, truth, rows, damaged, l2)
      BY <2>1, <2>2, <3>1, RecordStep
    <3> QED BY <3>2 DEF l2, h, k, j
  <2>3. CASE QEnd(q)
    <3>1. q2 = <<>> /\ x.task = 0
      BY <1>5, <1>6, <1>7, <2>3
    <3>2. LocalOK(s, u, h, k, j, q2, started, truth, rows, damaged, l2)
      BY <2>1, <2>3, <3>1, LineEndStep
    <3> QED BY <3>2 DEF l2, h, k, j
  <2> QED BY <1>4, <2>2, <2>3
<1>11. TruthOK(started', truth') /\ RowsOK(started', rows')
  BY <1>2 DEF MetricsInv
<1>12. LinesOK(started', lines')
  BY <1>2, <1>9, LineAdded DEF MetricsInv
<1>13. \A t \in 1..started : truth[t].by # s => OthersLine(t, lines, lines')
  <2> SUFFICES ASSUME NEW t \in 1..started, truth[t].by # s PROVE x.task # t
    BY <1>2 DEF OthersLine
  <2>1. t # 0 /\ t # c
    BY <1>1
  <2> QED BY <1>8, <2>1
<1>14. \A t \in 1..started : truth[t].by # s =>
            /\ truth'[t] = truth[t] /\ \A g \in CsvFiles : rows'[g][t] = rows[g][t]
            /\ OthersLine(t, lines, lines')
  BY <1>2, <1>13
<1>15. /\ \A t \in 1..started' : truth'[t].by # s => t \in 1..started /\ truth[t].by = truth'[t].by
       /\ started <= started' /\ damaged \subseteq damaged'
  BY <1>1, <1>2
<1>16. LocalOK(s, u, phase[s], csv[s], jsonl[s], q2, started', truth', rows', damaged', lines')
  BY <1>2, <1>10
<1>17. todo' = [todo EXCEPT ![s] = q2]
  BY <1>2
<1> QED BY <1>3, <1>11, <1>12, <1>14, <1>15, <1>16, <1>17, StepOfOne

\* A failed system call.
LEMMA FailKeeps == ASSUME MetricsInv, NEW s \in Sessions, SystemCallFails(s) PROVE MetricsInv'
<1> DEFINE q == todo[s]
           u == task[s]
           q2 == SubSeq(q, IF Head(q).op = "json" THEN 3 ELSE 2, Len(q))
<1>0. todo[s] # <<>>
  BY DEF SystemCallFails
<1>1. /\ QCall(q) \/ QRow(q) \/ QRec(q) \/ QEnd(q)
      /\ Head(q) = q[1]
      /\ LocalOK(s, task[s], phase[s], csv[s], jsonl[s], q, started, truth, rows, damaged, lines)
      /\ started \in Nat /\ AnySeq(lines)
  BY <1>0, Busy
<1>2. /\ damaged' = damaged \cup {Head(q).what.task}
      /\ todo' = [todo EXCEPT ![s] = q2]
      /\ phase' = phase /\ task' = task /\ csv' = csv /\ jsonl' = jsonl
      /\ UNCHANGED <<started, truth, files>>
  BY DEF SystemCallFails
<1>3. /\ task' = [task EXCEPT ![s] = u] /\ phase' = [phase EXCEPT ![s] = phase[s]]
      /\ csv' = [csv EXCEPT ![s] = csv[s]] /\ jsonl' = [jsonl EXCEPT ![s] = jsonl[s]]
  BY <1>2 DEF MetricsInv, ShapesOK
<1> HIDE DEF q
<1>4. \/ (QCall(q) \/ QRec(q) \/ QEnd(q)) /\ q2 = <<>>
      \/ QRow(q) /\ QRec(q2) /\ q2[1].what = q[2].what
  <2>1. CASE QCall(q) \/ QEnd(q)
    <3>1. q = <<q[1]>> /\ Len(q) = 1 /\ Head(q) = q[1] /\ Head(q).op # "json"
      BY <2>1, Tails DEF QCall, QEnd, IsRowOp, IsLineOp, Op
    <3>2. PICK a : a = q[1]
      OBVIOUS
    <3>3. SubSeq(<<a>>, 2, 1) = <<>>
      OBVIOUS
    <3>4. q2 = SubSeq(<<a>>, 2, 1)
      BY <3>1, <3>2
    <3> QED BY <2>1, <3>3, <3>4
  <2>2. CASE QRec(q)
    <3>1. q = <<q[1], q[2]>> /\ Len(q) = 2 /\ Head(q) = q[1] /\ Head(q).op = "json"
      BY <2>2, Tails DEF QRec, IsLineOp, Op
    <3>2. PICK a, b : a = q[1] /\ b = q[2]
      OBVIOUS
    <3>3. SubSeq(<<a, b>>, 3, 2) = <<>>
      OBVIOUS
    <3>4. q2 = SubSeq(<<a, b>>, 3, 2)
      BY <3>1, <3>2
    <3> QED BY <2>2, <3>3, <3>4
  <2>3. CASE QRow(q)
    <3>1. q = <<q[1], q[2], q[3]>> /\ Len(q) = 3 /\ Head(q) = q[1] /\ Head(q).op # "json"
      BY <2>3, Tails DEF QRow, IsRowOp, IsLineOp, Op
    <3>2. PICK a, b, d : a = q[1] /\ b = q[2] /\ d = q[3]
      OBVIOUS
    <3>3. SubSeq(<<a, b, d>>, 2, 3) = Tail(<<a, b, d>>)
      <4> DEFINE S == {a, b, d}
                 p == <<a, b, d>>
                 r == SubSeq(p, 2, 3)
      <4>1. p \in Seq(S) /\ Len(p) = 3
        OBVIOUS
      <4>2. r \in Seq(S) /\ Len(r) = 2 /\ r[1] = p[2] /\ r[2] = p[3]
        <5>1. \A i \in 2..3 : p[i] \in S
          OBVIOUS
        <5> HIDE DEF p, S
        <5>2. /\ SubSeq(p, 2, 3) \in Seq(S) /\ Len(SubSeq(p, 2, 3)) = 2
              /\ \A i \in 1..2 : SubSeq(p, 2, 3)[i] = p[2 + i - 1]
          BY <5>1, SubSeqProperties
        <5> QED BY <5>2
      <4>3. Tail(p) \in Seq(S) /\ Len(Tail(p)) = 2 /\ Tail(p)[1] = p[2] /\ Tail(p)[2] = p[3]
        <5>1. p # <<>>
          OBVIOUS
        <5> HIDE DEF p, S
        <5> QED BY <4>1, <5>1, HeadTailProperties
      <4> HIDE DEF r, p, S
      <4>4. \A i \in 1..2 : r[i] = Tail(p)[i]
        <5>1. \A i \in 1..2 : i = 1 \/ i = 2
          OBVIOUS
        <5>2. r[1] = Tail(p)[1] /\ r[2] = Tail(p)[2]
          BY <4>2, <4>3, Zenon
        <5> QED BY <5>1, <5>2, Zenon
      <4>5. r = Tail(p)
        BY <4>2, <4>3, <4>4, SeqEqual
      <4> QED BY <4>5 DEF r, p
    <3>4. q = <<a, b, d>>
      BY <3>1, <3>2
    <3>5. q2 = Tail(q)
      BY <3>1, <3>3, <3>4, Zenon
    <3> QED BY <2>3, <3>5, Tails
  <2> QED BY <1>1, <2>1, <2>2, <2>3
<1>5. damaged' = damaged \cup {q[1].what.task} /\ damaged \subseteq damaged'
  BY <1>1, <1>2, Tails
<1> HIDE DEF q2, u
<1>6. LocalOK(s, u, phase[s], csv[s], jsonl[s], q2, started, truth, rows, damaged', lines)
  <2> DEFINE h == phase[s]
             k == csv[s]
             j == jsonl[s]
             e == damaged'
  <2>1. LocalOK(s, u, h, k, j, q, started, truth, rows, damaged, lines)
        /\ started \in Nat /\ AnySeq(lines) /\ e = damaged \cup {q[1].what.task}
    BY <1>1, <1>5 DEF u
  <2> HIDE DEF h, k, j, e
  <2>2. LocalOK(s, u, h, k, j, q2, started, truth, rows, e, lines)
    BY <1>4, <2>1, FailStep
  <2> QED BY <2>2 DEF h, k, j, e
<1>7. todo' = [todo EXCEPT ![s] = q2] /\ UNCHANGED <<started, truth, files>>
  BY <1>2
<1> QED BY <1>3, <1>5, <1>6, <1>7, StepOfSinks

-----------------------------------------------------------------------------
(***************************************************************************)
(* A kill, the start, and the invariant.                                   *)
(***************************************************************************)

\* The process is killed.
LEMMA KillKeeps == ASSUME MetricsInv, Kill PROVE MetricsInv'
<1>1. /\ damaged' = damaged \cup UNION {DOMAIN csv[s].tasks \cup DOMAIN jsonl[s].tasks
                                          \cup {todo[s][i].what.task : i \in DOMAIN todo[s]} :
                                        s \in Sessions}
      /\ lines' = lines \/ lines' = Append(lines, Torn)
      /\ phase' = [s \in Sessions |-> "gone"] /\ todo' = [s \in Sessions |-> <<>>]
      /\ csv' = [s \in Sessions |-> NewSink] /\ jsonl' = [s \in Sessions |-> NewSink]
      /\ task' = task /\ started' = started /\ rows' = rows /\ truth' = truth
  BY DEF Kill
<1>2. Torn.task = 0
  BY DEF Torn
<1>3. started \in Nat /\ AnySeq(lines) /\ LinesOK(started, lines)
  BY DEF MetricsInv, TruthOK, LinesOK
<1>4. \A t \in 1..started : OthersLine(t, lines, lines')
  <2> SUFFICES ASSUME NEW t \in 1..started PROVE OthersLine(t, lines, lines')
    OBVIOUS
  <2>1. t # 0
    OBVIOUS
  <2> QED BY <1>1, <1>2, <2>1 DEF OthersLine
<1>5. LinesOK(started', lines')
  <2>1. Torn.task \in 0..started
    BY <1>2, <1>3
  <2>2. LinesOK(started, Append(lines, Torn))
    BY <1>3, <2>1, LineAdded
  <2> QED BY <1>1, <1>3, <2>2
<1>6. TruthOK(started', truth') /\ RowsOK(started', rows')
  BY <1>1 DEF MetricsInv
<1>7. ShapesOK'
  BY <1>1 DEF MetricsInv, ShapesOK
<1>8. ASSUME NEW s \in Sessions PROVE Local(s)'
  <2> DEFINE u == task[s]
             h == phase[s]
             k == csv[s]
             j == jsonl[s]
             q == todo[s]
             e == damaged'
             l2 == lines'
  <2>1. LocalOK(s, u, h, k, j, q, started, truth, rows, damaged, lines)
    BY DEF MetricsInv, Local
  <2>2. Idle(NewSink)
    BY NewSinkIsIdle
  <2>3. damaged \subseteq e /\ DOMAIN k.tasks \subseteq e
        /\ {q[i].what.task : i \in DOMAIN q} \subseteq e
    BY <1>1
  <2>4. QRow(q) \/ QRec(q) => q[1].what.task \in e
    <3> HIDE DEF q, e
    <3>1. QRow(q) => 1 \in DOMAIN q
      <4>1. QRow(q) => q = <<q[1], q[2], q[3]>>
        BY DEF QRow
      <4> QED BY <4>1
    <3>2. QRec(q) => 1 \in DOMAIN q
      <4>1. QRec(q) => q = <<q[1], q[2]>>
        BY DEF QRec
      <4> QED BY <4>1
    <3> QED BY <2>3, <3>1, <3>2
  <2>5. \A t \in 1..started : OthersLine(t, lines, l2)
    BY <1>4
  <2> HIDE DEF u, h, k, j, q, e, l2
  <2>6. LocalOK(s, u, "gone", NewSink, NewSink, <<>>, started, truth, rows, e, l2)
    BY <1>3, <2>1, <2>2, <2>3, <2>4, <2>5, KillStep
  <2>7. task'[s] = u /\ phase'[s] = "gone" /\ csv'[s] = NewSink /\ jsonl'[s] = NewSink /\ todo'[s] = <<>>
    BY <1>1 DEF u
  <2> QED BY <1>1, <2>6, <2>7 DEF Local, e, l2
<1> QED BY <1>5, <1>6, <1>7, <1>8 DEF MetricsInv

\* The start.
LEMMA InitHolds == ASSUME Init PROVE MetricsInv
<1>0. MaxTasks \in Nat
  BY BoundsAssumption
<1>1. ShapesOK
  BY DEF Init, ShapesOK
<1>2. TruthOK(started, truth) /\ LinesOK(started, lines)
  BY <1>0, EmptyIsASeq DEF Init, TruthOK, LinesOK
<1>3. RowsOK(started, rows)
  <2>1. /\ rows = [f \in CsvFiles |-> rows[f]]
        /\ \A f \in CsvFiles : rows[f] = [t \in 0..MaxTasks |-> <<>>]
    BY DEF Init
  <2>2. ASSUME NEW f \in CsvFiles
        PROVE  /\ rows[f] = [t \in 0..MaxTasks |-> rows[f][t]]
               /\ \A t \in 0..MaxTasks : rows[f][t] = <<>>
    BY <2>1
  <2>3. \A t \in 1..MaxTasks : t \in 0..MaxTasks
    OBVIOUS
  <2>4. started + 1 = 1
    BY DEF Init
  <2> QED BY <2>1, <2>2, <2>3, <2>4, EmptyIsASeq DEF RowsOK
<1>4. ASSUME NEW s \in Sessions PROVE Local(s)
  <2>1. /\ started = 0 /\ task[s] = 0 /\ phase[s] = "gone" /\ csv[s] = NewSink /\ jsonl[s] = NewSink
        /\ todo[s] = <<>>
    BY DEF Init
  <2>2. SessionOK(s, 0, "gone", NewSink, NewSink, <<>>, 0, truth, rows, damaged)
    BY NewSinkIsIdle DEF SessionOK, QueueOK
  <2>3. 1..0 = {}
    OBVIOUS
  <2>4. LocalOK(s, 0, "gone", NewSink, NewSink, <<>>, 0, truth, rows, damaged, lines)
    BY <2>2, <2>3 DEF LocalOK
  <2> QED BY <2>1, <2>4 DEF Local
<1> QED BY <1>1, <1>2, <1>3, <1>4 DEF MetricsInv

\* Steps of nobody.
LEMMA StutterKeeps == ASSUME MetricsInv, UNCHANGED vars PROVE MetricsInv'
<1>1. /\ started' = started /\ phase' = phase /\ task' = task /\ csv' = csv /\ jsonl' = jsonl
      /\ todo' = todo /\ rows' = rows /\ lines' = lines /\ truth' = truth /\ damaged' = damaged
  BY DEF vars, sinks, files
<1>2. ShapesOK' /\ TruthOK(started', truth') /\ RowsOK(started', rows') /\ LinesOK(started', lines')
  BY <1>1 DEF MetricsInv, ShapesOK
<1>3. \A s \in Sessions : Local(s)'
  BY <1>1 DEF MetricsInv, Local
<1> QED BY <1>2, <1>3 DEF MetricsInv

\* Whatever the sessions do, in whichever order their system calls reach the files,
\* and whatever fails or is killed, sinks, queues and files agree with what the tasks
\* did (CsvMetricsSink, JsonlMetricsSink).
THEOREM InvariantHolds == Spec => []MetricsInv
<1>1. Init => MetricsInv
  BY InitHolds
<1>2. MetricsInv /\ [Next]_vars => MetricsInv'
  <2> SUFFICES ASSUME MetricsInv, [Next]_vars PROVE MetricsInv'
    OBVIOUS
  <2>1. CASE Kill
    BY <2>1, KillKeeps
  <2>2. ASSUME NEW s \in Sessions, Connect(s) PROVE MetricsInv'
    BY <2>2, ConnectKeeps
  <2>3. ASSUME NEW s \in Sessions, StartTask(s) PROVE MetricsInv'
    BY <2>3, StartKeeps
  <2>4. ASSUME NEW s \in Sessions, CallLlm(s) PROVE MetricsInv'
    BY <2>4, CallKeeps
  <2>5. ASSUME NEW s \in Sessions, RunTool(s) PROVE MetricsInv'
    BY <2>5, ToolKeeps
  <2>6. ASSUME NEW s \in Sessions, Disconnect(s) PROVE MetricsInv'
    BY <2>6, DisconnectKeeps
  <2>7. ASSUME NEW s \in Sessions, NEW r \in Ends, EndTask(s, r) PROVE MetricsInv'
    BY <2>7, EndKeeps
  <2>8. ASSUME NEW s \in Sessions, LookAtLength(s) PROVE MetricsInv'
    BY <2>8, LookKeeps
  <2>9. ASSUME NEW s \in Sessions, AppendRow(s) PROVE MetricsInv'
    BY <2>9, RowKeeps
  <2>10. ASSUME NEW s \in Sessions, AppendToLines(s) PROVE MetricsInv'
    BY <2>10, LineKeeps
  <2>11. ASSUME NEW s \in Sessions, SystemCallFails(s) PROVE MetricsInv'
    BY <2>11, FailKeeps
  <2>12. CASE UNCHANGED vars
    BY <2>12, StutterKeeps
  <2> QED BY <2>1, <2>2, <2>3, <2>4, <2>5, <2>6, <2>7, <2>8, <2>9, <2>10, <2>11, <2>12 DEF Next, Step
<1> QED BY <1>1, <1>2, PTL DEF Spec

-----------------------------------------------------------------------------
(***************************************************************************)
(* What the invariant says of the files and of the report.                 *)
(***************************************************************************)

\* What is known of a task from the session that ran it.
LEMMA TaskFacts ==
  ASSUME MetricsInv, NEW t \in 1..started
  PROVE  LET s == truth[t].by IN
         /\ s \in Sessions
         /\ SessionOK(s, task[s], phase[s], csv[s], jsonl[s], todo[s], started, truth, rows, damaged)
         /\ FileOK(t, RowsDue(csv[s], todo[s]), RecordsDue(csv[s], todo[s]), truth[t],
                   rows["llm_calls"][t], rows["tool_calls"][t], rows["tasks"][t], damaged, lines)
<1>1. truth[t].by \in Sessions
  BY DEF MetricsInv, TruthOK
<1> QED BY <1>1 DEF MetricsInv, Local, LocalOK

\* A settled task is due no row and no record.
LEMMA SettledIsWritten ==
  ASSUME MetricsInv, NEW t \in 1..started, Settled(t)
  PROVE  LET s == truth[t].by
         IN  t \notin RowsDue(csv[s], todo[s]) /\ t \notin RecordsDue(csv[s], todo[s])
<1> DEFINE s == truth[t].by
           u == task[s]
           k == csv[s]
<1>1. /\ todo[s] = <<>>
      /\ u # t \/ phase[s] = "gone" \/ truth[t].end \in {"Ok", "Cancelled"}
  BY DEF Settled
<1>2. RowsDue(k, todo[s]) = DOMAIN k.tasks /\ RecordsDue(k, todo[s]) = DOMAIN k.tasks
  BY <1>1, DueSets
<1>3. SessionOK(s, u, phase[s], k, jsonl[s], todo[s], started, truth, rows, damaged)
  BY TaskFacts
<1>4. \/ Idle(k)
      \/ Holds(k, u) /\ OpenOK(phase[s], k.tasks[u], jsonl[s].tasks[u], truth[u])
  BY <1>3 DEF SessionOK
<1> HIDE DEF k, u
<1>5. t \notin DOMAIN k.tasks
  <2>1. CASE Idle(k)
    BY <2>1, OpenTasks
  <2>2. CASE Holds(k, u) /\ OpenOK(phase[s], k.tasks[u], jsonl[s].tasks[u], truth[u])
    <3>1. DOMAIN k.tasks = {u}
      BY <2>2, OpenTasks
    <3>2. phase[s] # "gone" /\ truth[u].end \notin {"Ok", "Cancelled"}
      BY <2>2 DEF OpenOK
    <3> QED BY <1>1, <3>1, <3>2
  <2> QED BY <1>4, <2>1, <2>2
<1> QED BY <1>2, <1>5 DEF k

\* However a task ends, finalize_task or flush_abandoned writes its row and its
\* record once, and both tell how it ended and why, unless a system call of its own
\* failed or the process was killed: for any number of sessions and tasks.
THEOREM WrittenOnce == Spec => []RecordedOnce
<1>1. MetricsInv => RecordedOnce
  <2> SUFFICES ASSUME MetricsInv, NEW t \in 1..started, Settled(t), t \notin damaged
               PROVE  /\ Len(rows["tasks"][t]) = 1
                      /\ Cardinality({i \in DOMAIN lines : lines[i].task = t}) = 1
                      /\ rows["tasks"][t][1].status = StatusOf(truth[t].end)
                      /\ rows["tasks"][t][1].error = ErrorOf(truth[t].end)
                      /\ \A i \in DOMAIN lines : lines[i].task = t =>
                           lines[i].status = StatusOf(truth[t].end) /\ lines[i].error = ErrorOf(truth[t].end)
                             /\ lines[i].reply = (truth[t].end = "Ok")
    BY DEF RecordedOnce
  <2> DEFINE s == truth[t].by
             D == RowsDue(csv[s], todo[s])
             E == RecordsDue(csv[s], todo[s])
  <2>1. t \notin D /\ t \notin E
    BY SettledIsWritten
  <2>2. FileOK(t, D, E, truth[t], rows["llm_calls"][t], rows["tool_calls"][t], rows["tasks"][t], damaged, lines)
    BY TaskFacts
  <2> HIDE DEF D, E
  <2>3. /\ Len(rows["tasks"][t]) = 1
        /\ GoodRow(rows["tasks"][t][1], truth[t], rows["llm_calls"][t], rows["tool_calls"][t])
        /\ \A i, j \in 1..Len(lines) : lines[i].task = t /\ lines[j].task = t => i = j
        /\ \E i \in 1..Len(lines) : lines[i].task = t
        /\ \A i \in 1..Len(lines) : lines[i].task = t => GoodRec(lines[i], truth[t])
    BY <2>1, <2>2 DEF FileOK
  <2>4. DOMAIN lines = 1..Len(lines)
    BY DEF MetricsInv, LinesOK, AnySeq
  <2>5. Cardinality({i \in DOMAIN lines : lines[i].task = t}) = 1
    <3>1. PICK i \in 1..Len(lines) : lines[i].task = t
      BY <2>3
    <3>2. {x \in 1..Len(lines) : lines[x].task = t} = {i}
      BY <2>3, <3>1
    <3>3. Cardinality({i}) = 1
      BY FS_Singleton
    <3> QED BY <2>4, <3>2, <3>3
  <2>6. /\ rows["tasks"][t][1].status = StatusOf(truth[t].end)
        /\ rows["tasks"][t][1].error = ErrorOf(truth[t].end)
    BY <2>3 DEF GoodRow
  <2>7. ASSUME NEW i \in DOMAIN lines, lines[i].task = t
        PROVE  /\ lines[i].status = StatusOf(truth[t].end) /\ lines[i].error = ErrorOf(truth[t].end)
               /\ lines[i].reply = (truth[t].end = "Ok")
    <3>1. GoodRec(lines[i], truth[t])
      BY <2>3, <2>4, <2>7
    <3> QED BY <3>1, Zenon DEF GoodRec
  <2> QED BY <2>3, <2>5, <2>6, <2>7
<1> QED BY <1>1, InvariantHolds, PTL

\* What the lines say is what the tasks did.
LEMMA RecordFacts ==
  ASSUME MetricsInv, NEW i \in DOMAIN lines, IsRecord(lines[i])
  PROVE  LET t == lines[i].task IN
         /\ t \in 1..started /\ GoodRec(lines[i], truth[t])
         /\ \A j \in DOMAIN lines : lines[j].task = t => i = j
         /\ AnySeq(truth[t].llm) /\ AnySeq(truth[t].tools)
<1> DEFINE t == lines[i].task
<1>1. DOMAIN lines = 1..Len(lines) /\ t \in 0..started /\ started \in Nat
  BY DEF MetricsInv, LinesOK, AnySeq, TruthOK
<1>2. t \in 1..started
  BY <1>1 DEF IsRecord
<1>3. AnySeq(truth[t].llm) /\ AnySeq(truth[t].tools)
  BY <1>2 DEF MetricsInv, TruthOK
<1> HIDE DEF t
<1>4. PICK D, E : FileOK(t, D, E, truth[t], rows["llm_calls"][t], rows["tool_calls"][t],
                         rows["tasks"][t], damaged, lines)
  BY <1>2, TaskFacts
<1>5. /\ \A x, y \in 1..Len(lines) : lines[x].task = t /\ lines[y].task = t => x = y
      /\ \A x \in 1..Len(lines) : lines[x].task = t => GoodRec(lines[x], truth[t])
  BY <1>4 DEF FileOK
<1>6. lines[i].task = t /\ i \in 1..Len(lines)
  BY <1>1 DEF t
<1>7. GoodRec(lines[i], truth[t]) /\ \A j \in DOMAIN lines : lines[j].task = t => i = j
  BY <1>1, <1>5, <1>6
<1> QED BY <1>2, <1>3, <1>7 DEF t

\* The tools of a record, one by one.
LEMMA StatusesAre ==
  ASSUME NEW q, AnySeq(q)
  PROVE  AnySeq(Statuses(q)) /\ Len(Statuses(q)) = Len(q) /\ \A i \in 1..Len(q) : Statuses(q)[i] = ToolStatus(q[i])
<1> DEFINE p == Statuses(q)
<1>1. p = [i \in 1..Len(q) |-> p[i]] /\ Len(q) \in Nat /\ \A i \in 1..Len(q) : p[i] = ToolStatus(q[i])
  BY DEF Statuses, AnySeq
<1> HIDE DEF p
<1>2. AnySeq(p) /\ Len(p) = Len(q)
  BY <1>1, FunIsASeq
<1> QED BY <1>1, <1>2 DEF p

\* The row of a task counts the rows the other two files hold for it, and its record
\* lists the calls it made, each with its own usage (handle_tokens_used): for any
\* number of sessions and tasks.
THEOREM CountsMatch == Spec => []CountsAgree
<1>1. MetricsInv => CountsAgree
  <2> SUFFICES ASSUME MetricsInv PROVE CountsAgree
    OBVIOUS
  <2>1. ASSUME NEW t \in 1..started \ damaged, NEW i \in DOMAIN rows["tasks"][t]
        PROVE  LET row == rows["tasks"][t][i] IN
               /\ row.llm = Len(rows["llm_calls"][t]) /\ row.tools = Len(rows["tool_calls"][t])
               /\ row.tokens = Cardinality(WithTokens(rows["llm_calls"][t]))
    <3>1. PICK D, E : FileOK(t, D, E, truth[t], rows["llm_calls"][t], rows["tool_calls"][t],
                             rows["tasks"][t], damaged, lines)
      BY TaskFacts
    <3>2. t \in 0..MaxTasks /\ "tasks" \in CsvFiles
      BY BoundsAssumption DEF MetricsInv, TruthOK, CsvFiles
    <3>3. DOMAIN rows["tasks"][t] = 1..Len(rows["tasks"][t])
      BY <3>2 DEF MetricsInv, RowsOK, AnySeq
    <3>4. rows["tasks"][t] # <<>>
      BY <3>3
    <3>5. /\ Len(rows["tasks"][t]) = 1
          /\ GoodRow(rows["tasks"][t][1], truth[t], rows["llm_calls"][t], rows["tool_calls"][t])
      BY <2>1, <3>1, <3>4 DEF FileOK
    <3>6. i = 1
      BY <3>3, <3>5
    <3> QED BY <3>5, <3>6 DEF GoodRow
  <2>2. ASSUME NEW i \in DOMAIN lines, IsRecord(lines[i])
        PROVE  /\ lines[i].llm = truth[lines[i].task].llm
               /\ Len(lines[i].tools) = Len(truth[lines[i].task].tools)
    <3> DEFINE t == lines[i].task
    <3>1. GoodRec(lines[i], truth[t]) /\ AnySeq(truth[t].tools)
      BY <2>2, RecordFacts
    <3>2. lines[i].llm = truth[t].llm /\ lines[i].tools = Statuses(truth[t].tools)
      BY <3>1 DEF GoodRec
    <3> HIDE DEF t
    <3>3. Len(Statuses(truth[t].tools)) = Len(truth[t].tools)
      BY <3>1, StatusesAre
    <3> QED BY <3>2, <3>3 DEF t
  <2> QED BY <2>1, <2>2 DEF CountsAgree
<1> QED BY <1>1, InvariantHolds, PTL

\* Families of finite sets that agree along a bijection of their indices have the
\* same total.
LEMMA SameTotal ==
  ASSUME NEW A, NEW B, IsFiniteSet(A), NEW m \in Bijection(A, B), NEW f, NEW g,
         DOMAIN f = A, DOMAIN g = B, \A i \in A : g[m[i]] = f[i] /\ IsFiniteSet(f[i])
  PROVE  Total(f) = Total(g)
<1> DEFINE X == UNION {{i} \X f[i] : i \in A}
           Y == UNION {{b} \X g[b] : b \in B}
           F == {{i} \X f[i] : i \in A}
           h == [p \in X |-> <<m[p[1]], p[2]>>]
<1>1. /\ m \in [A -> B] /\ \A a, b \in A : m[a] = m[b] => a = b
      /\ \A b \in B : \E a \in A : m[a] = b
  BY DEF Bijection, Injection, Surjection, IsInjective
<1>2. /\ \A p : p \in X <=> \E i \in A : \E x \in f[i] : p = <<i, x>>
      /\ \A p : p \in Y <=> \E b \in B : \E x \in g[b] : p = <<b, x>>
  <2>1. ASSUME NEW p PROVE p \in X <=> \E i \in A : \E x \in f[i] : p = <<i, x>>
    OBVIOUS
  <2>2. ASSUME NEW p PROVE p \in Y <=> \E b \in B : \E x \in g[b] : p = <<b, x>>
    OBVIOUS
  <2> QED BY <2>1, <2>2
<1>3. IsFiniteSet(X)
  <2> DEFINE e == [i \in A |-> {i} \X f[i]]
  <2>1. e \in Surjection(A, F)
    BY DEF Surjection
  <2>2. IsFiniteSet(F)
    <3> HIDE DEF e, F
    <3> QED BY <2>1, FS_Surjection
  <2>3. ASSUME NEW T \in F PROVE IsFiniteSet(T)
    <3>1. PICK i \in A : T = {i} \X f[i]
      OBVIOUS
    <3>2. IsFiniteSet({i})
      BY FS_Singleton
    <3> QED BY <3>1, <3>2, FS_Product
  <2> HIDE DEF F
  <2>4. IsFiniteSet(UNION F)
    BY <2>2, <2>3, FS_UNION
  <2> QED BY <2>4 DEF F
<1> HIDE DEF X, Y
<1>4. ASSUME NEW p \in X
      PROVE  /\ p[1] \in A /\ p[2] \in f[p[1]] /\ p = <<p[1], p[2]>>
             /\ h[p] = <<m[p[1]], p[2]>> /\ h[p] \in Y
  <2>1. PICK i \in A : \E x \in f[i] : p = <<i, x>>
    BY <1>2
  <2>2. PICK x \in f[i] : p = <<i, x>>
    BY <2>1
  <2>3. p[1] = i /\ p[2] = x /\ h[p] = <<m[i], x>>
    BY <2>2
  <2>4. m[i] \in B /\ x \in g[m[i]]
    BY <1>1
  <2>5. h[p] \in Y
    BY <1>2, <2>3, <2>4
  <2> QED BY <2>2, <2>3, <2>5
<1>5. h \in [X -> Y]
  BY <1>4
<1>6. ASSUME NEW p \in X, NEW q \in X, h[p] = h[q] PROVE p = q
  <2>1. m[p[1]] = m[q[1]] /\ p[2] = q[2]
    BY <1>4, <1>6
  <2>2. p[1] = q[1]
    BY <1>1, <1>4, <2>1
  <2> QED BY <1>4, <2>1, <2>2
<1>7. ASSUME NEW y \in Y PROVE \E p \in X : h[p] = y
  <2>1. PICK b \in B : \E x \in g[b] : y = <<b, x>>
    BY <1>2
  <2>2. PICK x \in g[b] : y = <<b, x>>
    BY <2>1
  <2>3. PICK i \in A : m[i] = b
    BY <1>1
  <2>4. x \in f[i]
    BY <2>3
  <2>5. <<i, x>> \in X
    BY <1>2, <2>4
  <2>6. h[<<i, x>>] = y
    BY <2>2, <2>3, <2>5
  <2> QED BY <2>5, <2>6
<1>8. DOMAIN h = X
  OBVIOUS
<1> HIDE DEF h
<1>9. h \in Bijection(X, Y)
  BY <1>5, <1>6, <1>7, <1>8 DEF Bijection, Injection, Surjection, IsInjective
<1>10. Cardinality(X) = Cardinality(Y)
  BY <1>3, <1>9, FS_Bijection DEF ExistsBijection
<1> QED BY <1>10 DEF Total, X, Y

\* build_report's totals are what the tasks did whose lines parse_events could read,
\* none of them read twice, whatever lines are spoilt.
THEOREM ReportTellsTheTruth == Spec => []ReportIsSound
<1>1. MetricsInv => ReportIsSound
  <2> SUFFICES ASSUME MetricsInv PROVE ReportIsSound
    OBVIOUS
  <2> DEFINE P == ParseEvents
             T == {lines[i].task : i \in P}
             m == [i \in P |-> lines[i].task]
  <2>1. DOMAIN lines = 1..Len(lines) /\ Len(lines) \in Nat
    BY DEF MetricsInv, LinesOK, AnySeq
  <2>2. \A i \in P : i \in DOMAIN lines /\ IsRecord(lines[i])
    BY <2>1 DEF ParseEvents, Readable
  <2>3. IsFiniteSet(P)
    <3>1. IsFiniteSet(1..Len(lines))
      BY <2>1, FS_Interval
    <3>2. P \in SUBSET (1..Len(lines))
      BY DEF ParseEvents
    <3> QED BY <3>1, <3>2, FS_Subset
  <2> HIDE DEF P
  <2>4. ASSUME NEW i \in P
        PROVE  LET r == truth[lines[i].task] IN
               /\ \A j \in P : lines[j].task = lines[i].task => i = j
               /\ GoodRec(lines[i], r) /\ AnySeq(r.llm) /\ AnySeq(r.tools)
    BY <2>2, RecordFacts
  <2>5. m \in Bijection(P, T) /\ DOMAIN m = P
    BY <2>4 DEF Bijection, Injection, Surjection, IsInjective
  <2>6. Cardinality(P) = Cardinality(T)
    <3> HIDE DEF T, m
    <3> QED BY <2>3, <2>5, FS_Bijection DEF ExistsBijection
  <2>7. ASSUME NEW i \in P
        PROVE  LET r == truth[m[i]] IN
               /\ m[i] \in T /\ m[i] = lines[i].task
               /\ WithTokens(r.llm) = WithTokens(lines[i].llm) /\ IsFiniteSet(WithTokens(lines[i].llm))
               /\ DOMAIN r.tools = DOMAIN lines[i].tools /\ IsFiniteSet(DOMAIN lines[i].tools)
               /\ EndedAs(r.tools, "dispatch_error") = EndedAs(lines[i].tools, "error")
               /\ IsFiniteSet(EndedAs(lines[i].tools, "error"))
    <3> DEFINE r == truth[lines[i].task]
               a == r.llm
               b == r.tools
               c == Statuses(b)
    <3>1. m[i] = lines[i].task /\ m[i] \in T
      OBVIOUS
    <3>2. lines[i].llm = a /\ lines[i].tools = c /\ AnySeq(a) /\ AnySeq(b)
      BY <2>4 DEF GoodRec
    <3>3. AnySeq(c) /\ Len(c) = Len(b) /\ \A x \in 1..Len(b) : c[x] = ToolStatus(b[x])
      BY <3>2, StatusesAre
    <3>4. DOMAIN b = 1..Len(b) /\ DOMAIN c = 1..Len(b) /\ DOMAIN a = 1..Len(a) /\ Len(a) \in Nat /\ Len(b) \in Nat
      BY <3>2, <3>3 DEF AnySeq
    <3> HIDE DEF a, b, c
    <3>5. IsFiniteSet(1..Len(a)) /\ IsFiniteSet(1..Len(b))
      BY <3>4, FS_Interval
    <3>6. WithTokens(a) \in SUBSET (1..Len(a)) /\ EndedAs(c, "error") \in SUBSET (1..Len(b))
      BY <3>4 DEF WithTokens, EndedAs
    <3>7. IsFiniteSet(WithTokens(a)) /\ IsFiniteSet(EndedAs(c, "error"))
      BY <3>5, <3>6, FS_Subset
    <3>8. EndedAs(b, "dispatch_error") = EndedAs(c, "error")
      BY <3>3, <3>4 DEF EndedAs, ToolStatus
    <3> QED BY <3>1, <3>2, <3>4, <3>5, <3>7, <3>8 DEF a, b
  <2> HIDE DEF m, T
  <2>8. Total([i \in P |-> WithTokens(lines[i].llm)]) = Total([t \in T |-> WithTokens(truth[t].llm)])
    <3> DEFINE f == [i \in P |-> WithTokens(lines[i].llm)]
               g == [t \in T |-> WithTokens(truth[t].llm)]
    <3>1. DOMAIN f = P /\ DOMAIN g = T /\ \A i \in P : g[m[i]] = f[i] /\ IsFiniteSet(f[i])
      BY <2>7
    <3> HIDE DEF f, g
    <3>2. Total(f) = Total(g)
      BY <2>3, <2>5, <3>1, SameTotal
    <3> QED BY <3>2 DEF f, g
  <2>9. Total([i \in P |-> DOMAIN lines[i].tools]) = Total([t \in T |-> DOMAIN truth[t].tools])
    <3> DEFINE f == [i \in P |-> DOMAIN lines[i].tools]
               g == [t \in T |-> DOMAIN truth[t].tools]
    <3>1. DOMAIN f = P /\ DOMAIN g = T /\ \A i \in P : g[m[i]] = f[i] /\ IsFiniteSet(f[i])
      BY <2>7
    <3> HIDE DEF f, g
    <3>2. Total(f) = Total(g)
      BY <2>3, <2>5, <3>1, SameTotal
    <3> QED BY <3>2 DEF f, g
  <2>10. Total([i \in P |-> EndedAs(lines[i].tools, "error")]) =
           Total([t \in T |-> EndedAs(truth[t].tools, "dispatch_error")])
    <3> DEFINE f == [i \in P |-> EndedAs(lines[i].tools, "error")]
               g == [t \in T |-> EndedAs(truth[t].tools, "dispatch_error")]
    <3>1. DOMAIN f = P /\ DOMAIN g = T /\ \A i \in P : g[m[i]] = f[i] /\ IsFiniteSet(f[i])
      BY <2>7
    <3> HIDE DEF f, g
    <3>2. Total(f) = Total(g)
      BY <2>3, <2>5, <3>1, SameTotal
    <3> QED BY <3>2 DEF f, g
  <2>11. /\ BuildReport.total_tasks = Cardinality(P)
         /\ BuildReport.total_tokens = Total([i \in P |-> WithTokens(lines[i].llm)])
         /\ BuildReport.tool_usage = Total([i \in P |-> DOMAIN lines[i].tools])
         /\ BuildReport.tool_errors = Total([i \in P |-> EndedAs(lines[i].tools, "error")])
    BY DEF BuildReport, P
  <2>12. T = {lines[i].task : i \in ParseEvents}
    BY DEF T, P
  <2> QED BY <2>6, <2>8, <2>9, <2>10, <2>11, <2>12 DEF ReportIsSound
<1> QED BY <1>1, InvariantHolds, PTL

-----------------------------------------------------------------------------
(***************************************************************************)
(* What spoils a line: a record follows one of the same session without a  *)
(* line end only where the first one's task is damaged, for the last piece *)
(* of the file is a record only while its session has the line end to      *)
(* write.                                                                  *)
(***************************************************************************)
Beside(a, b, tr, dm) == (a # 0 /\ b # 0 /\ tr[a].by = tr[b].by) => a \in dm
Ending(a, tr, dm, td) ==
  a # 0 => \/ a \in dm
           \/ QEnd(td[tr[a].by]) /\ td[tr[a].by][1].what.task = a

LastEnds(ln, tr, dm, td) == Len(ln) > 0 => Ending(ln[Len(ln)].task, tr, dm, td)
GluedOK(ln, tr, dm, td) ==
  /\ \A i \in 1..Len(ln) : ln[i].task # 0 \/ ln[i] = LineEnd \/ ln[i] = Torn
  /\ \A i \in 1..Len(ln) : i < Len(ln) => Beside(ln[i].task, ln[i + 1].task, tr, dm)
  /\ LastEnds(ln, tr, dm, td)

GlueInv == GluedOK(lines, truth, damaged, todo)

\* The lines stay as they are.
LEMMA GluedKept ==
  ASSUME NEW n, n \in Nat, NEW ln, LinesOK(n, ln), NEW tr, NEW tr2, NEW dm, NEW dm2, NEW td, NEW td2,
         GluedOK(ln, tr, dm, td), dm \subseteq dm2, \A t \in 1..n : tr2[t].by = tr[t].by,
         \A t \in 1..n : Ending(t, tr, dm, td) => Ending(t, tr2, dm2, td2)
  PROVE  GluedOK(ln, tr2, dm2, td2)
<1>1. Len(ln) \in Nat /\ \A i \in 1..Len(ln) : ln[i].task = 0 \/ ln[i].task \in 1..n
  BY DEF LinesOK, AnySeq
<1>2. ASSUME NEW i \in 1..Len(ln), i < Len(ln)
      PROVE  Beside(ln[i].task, ln[i + 1].task, tr2, dm2)
  <2>1. i + 1 \in 1..Len(ln)
    BY <1>1, <1>2
  <2>2. Beside(ln[i].task, ln[i + 1].task, tr, dm)
    BY <1>2 DEF GluedOK
  <2> QED BY <1>1, <2>1, <2>2 DEF Beside
<1>3. LastEnds(ln, tr2, dm2, td2)
  <2> SUFFICES ASSUME Len(ln) > 0 PROVE Ending(ln[Len(ln)].task, tr2, dm2, td2)
    BY DEF LastEnds
  <2>1. Len(ln) \in 1..Len(ln) /\ Ending(ln[Len(ln)].task, tr, dm, td)
    BY <1>1 DEF GluedOK, LastEnds
  <2>2. CASE ln[Len(ln)].task = 0
    BY <2>2 DEF Ending
  <2>3. CASE ln[Len(ln)].task \in 1..n
    BY <2>1, <2>3
  <2> QED BY <1>1, <2>1, <2>2, <2>3
<1> QED BY <1>2, <1>3 DEF GluedOK

\* A piece more.
LEMMA GluedAppend ==
  ASSUME NEW n, NEW ln, LinesOK(n, ln), NEW tr, NEW dm, NEW td, NEW td2, GluedOK(ln, tr, dm, td),
         NEW x, x.task # 0 \/ x = LineEnd \/ x = Torn, Ending(x.task, tr, dm, td2),
         \A a : Ending(a, tr, dm, td) => Beside(a, x.task, tr, dm)
  PROVE  GluedOK(Append(ln, x), tr, dm, td2)
<1> DEFINE m == Append(ln, x)
<1>1. AnySeq(ln) /\ Len(ln) \in Nat
  BY DEF LinesOK, AnySeq
<1>2. Len(m) = Len(ln) + 1 /\ (\A i \in 1..Len(ln) : m[i] = ln[i]) /\ m[Len(ln) + 1] = x
  BY <1>1, AppendIsASeq
<1> HIDE DEF m
<1>3. \A i \in 1..Len(m) : i = Len(ln) + 1 \/ i \in 1..Len(ln)
  BY <1>1, <1>2
<1>4. \A i \in 1..Len(m) : m[i].task # 0 \/ m[i] = LineEnd \/ m[i] = Torn
  BY <1>2, <1>3 DEF GluedOK
<1>5. ASSUME NEW i \in 1..Len(m), i < Len(m)
      PROVE  Beside(m[i].task, m[i + 1].task, tr, dm)
  <2>1. i \in 1..Len(ln) /\ m[i] = ln[i]
    BY <1>1, <1>2, <1>5
  <2>2. CASE i = Len(ln)
    <3>1. Ending(ln[i].task, tr, dm, td) /\ m[i + 1] = x
      BY <1>2, <2>1, <2>2 DEF GluedOK, LastEnds
    <3> QED BY <2>1, <3>1
  <2>3. CASE i # Len(ln)
    <3>1. i < Len(ln) /\ i + 1 \in 1..Len(ln)
      BY <1>1, <2>1, <2>3
    <3> QED BY <1>2, <2>1, <3>1 DEF GluedOK
  <2> QED BY <2>2, <2>3
<1>6. LastEnds(m, tr, dm, td2)
  BY <1>1, <1>2 DEF LastEnds
<1> QED BY <1>4, <1>5, <1>6 DEF GluedOK, m

\* A step of session s that writes no line, and loses no line end but of a damaged task.
LEMMA GlueStep ==
  ASSUME MetricsInv, GlueInv, NEW s \in Sessions, lines' = lines, damaged \subseteq damaged',
         \A x \in Sessions \ {s} : todo'[x] = todo[x],
         QEnd(todo[s]) => todo[s][1].what.task \in damaged',
         \A t \in 1..started : truth'[t].by = truth[t].by
  PROVE  GlueInv'
<1>1. started \in Nat /\ LinesOK(started, lines) /\ GluedOK(lines, truth, damaged, todo)
  BY BoundsAssumption DEF MetricsInv, TruthOK, GlueInv
<1>2. ASSUME NEW t \in 1..started, Ending(t, truth, damaged, todo)
      PROVE  Ending(t, truth', damaged', todo')
  <2>1. truth[t].by \in Sessions /\ truth'[t].by = truth[t].by
    BY DEF MetricsInv, TruthOK
  <2> QED BY <1>2, <2>1 DEF Ending
<1>3. GluedOK(lines, truth', damaged', todo')
  BY <1>1, <1>2, GluedKept
<1> QED BY <1>3 DEF GlueInv

\* What a task is credited with changes, not who runs it.
LEMMA SameRunner ==
  ASSUME NEW n, NEW tr, TruthOK(n, tr), NEW u, NEW tr2, NEW v,
         \/ tr2 = [tr EXCEPT ![u].llm = v]
         \/ tr2 = [tr EXCEPT ![u].tools = v]
         \/ tr2 = [tr EXCEPT ![u].end = v]
  PROVE  \A t \in 1..n : tr2[t].by = tr[t].by
<1> SUFFICES ASSUME NEW t \in 1..n PROVE tr2[t].by = tr[t].by
  OBVIOUS
<1>1. /\ tr[t] = [by |-> tr[t].by, llm |-> tr[t].llm, tools |-> tr[t].tools, end |-> tr[t].end]
      /\ tr = [i \in 1..n |-> tr[i]]
  BY DEF TruthOK, AnySeq
<1>2. CASE tr2 = [tr EXCEPT ![u].llm = v]
  BY <1>1, <1>2
<1>3. CASE tr2 = [tr EXCEPT ![u].tools = v]
  BY <1>1, <1>3
<1>4. CASE tr2 = [tr EXCEPT ![u].end = v]
  BY <1>1, <1>4
<1> QED BY <1>2, <1>3, <1>4

\* The events of a session: nothing was left to write, so no line end is lost.
LEMMA EventKeepsGlue ==
  ASSUME MetricsInv, GlueInv, NEW s \in Sessions,
         Connect(s) \/ StartTask(s) \/ CallLlm(s) \/ RunTool(s) \/ Disconnect(s)
           \/ \E r \in Ends : EndTask(s, r)
  PROVE  GlueInv'
<1>0. todo = [x \in Sessions |-> todo[x]] /\ TruthOK(started, truth)
  BY DEF MetricsInv, ShapesOK
<1>1. todo[s] = <<>> /\ lines' = lines /\ damaged' = damaged
  BY DEF Connect, StartTask, CallLlm, RunTool, Disconnect, EndTask, files
<1>2. ~QEnd(todo[s])
  BY <1>1, EmptyQueue
<1>3. \A x \in Sessions \ {s} : todo'[x] = todo[x]
  <2>1. todo' = todo \/ \E q : todo' = [todo EXCEPT ![s] = q]
    BY Zenon DEF Connect, StartTask, CallLlm, RunTool, Disconnect, EndTask, Emit, sinks
  <2> QED BY <1>0, <2>1
<1>4. \A t \in 1..started : truth'[t].by = truth[t].by
  <2>1. CASE Connect(s) \/ Disconnect(s)
    BY <2>1 DEF Connect, Disconnect
  <2>2. CASE StartTask(s)
    <3>1. PICK r : truth' = Append(truth, r)
      BY <2>2 DEF StartTask
    <3>2. AnySeq(truth) /\ Len(truth) = started
      BY <1>0 DEF TruthOK
    <3> QED BY <3>1, <3>2, AppendIsASeq
  <2>3. CASE CallLlm(s)
    <3>1. truth' = truth \/ \E v : truth' = [truth EXCEPT ![task[s]].llm = v]
      BY <2>3 DEF CallLlm
    <3>2. CASE truth' = truth
      BY <3>2
    <3>3. ASSUME NEW v, truth' = [truth EXCEPT ![task[s]].llm = v]
          PROVE  \A t \in 1..started : truth'[t].by = truth[t].by
      BY <1>0, <3>3, SameRunner
    <3> QED BY <3>1, <3>2, <3>3
  <2>4. CASE RunTool(s)
    <3>1. \E v : truth' = [truth EXCEPT ![task[s]].tools = v]
      BY <2>4 DEF RunTool
    <3> QED BY <1>0, <3>1, SameRunner
  <2>5. ASSUME NEW r \in Ends, EndTask(s, r) PROVE \A t \in 1..started : truth'[t].by = truth[t].by
    <3>1. truth' = [truth EXCEPT ![task[s]].end = r]
      BY <2>5 DEF EndTask
    <3> QED BY <1>0, <3>1, SameRunner
  <2> QED BY <2>1, <2>2, <2>3, <2>4, <2>5
<1> QED BY <1>1, <1>2, <1>3, <1>4, GlueStep

\* A row looks at its file, or is written: neither is a line end.
LEMMA RowKeepsGlue ==
  ASSUME MetricsInv, GlueInv, NEW s \in Sessions, LookAtLength(s) \/ AppendRow(s)
  PROVE  GlueInv'
<1>0. todo = [x \in Sessions |-> todo[x]]
  BY DEF MetricsInv, ShapesOK
<1>1. /\ lines' = lines /\ damaged' = damaged /\ truth' = truth
      /\ Head(todo[s]).op \in {"length", "header_and_row"}
  BY DEF LookAtLength, AppendRow, files
<1>2. ~QEnd(todo[s])
  <2> SUFFICES ASSUME QEnd(todo[s]) PROVE FALSE
    OBVIOUS
  <2>1. Head(todo[s]) = todo[s][1] /\ IsLineOp(todo[s][1], "newline")
    BY Tails DEF QEnd
  <2> QED BY <1>1, <2>1 DEF IsLineOp, Op
<1>3. \A x \in Sessions \ {s} : todo'[x] = todo[x]
  <2>1. CASE LookAtLength(s)
    BY <1>0, <2>1 DEF LookAtLength
  <2>2. CASE AppendRow(s)
    BY <1>0, <2>2 DEF AppendRow, Done
  <2> QED BY <2>1, <2>2
<1> QED BY <1>1, <1>2, <1>3, GlueStep

\* A failed system call damages the task whose line end it may have been.
LEMMA FailKeepsGlue ==
  ASSUME MetricsInv, GlueInv, NEW s \in Sessions, SystemCallFails(s)
  PROVE  GlueInv'
<1>0. todo = [x \in Sessions |-> todo[x]]
  BY DEF MetricsInv, ShapesOK
<1>1. /\ lines' = lines /\ damaged' = damaged \cup {Head(todo[s]).what.task} /\ truth' = truth
      /\ \E q : todo' = [todo EXCEPT ![s] = q]
  BY DEF SystemCallFails, files
<1>2. QEnd(todo[s]) => todo[s][1].what.task \in damaged'
  BY <1>1, Tails
<1>3. \A x \in Sessions \ {s} : todo'[x] = todo[x]
  BY <1>0, <1>1
<1> QED BY <1>1, <1>2, <1>3, GlueStep

\* A record or a line end is appended.
LEMMA LineKeepsGlue ==
  ASSUME MetricsInv, GlueInv, NEW s \in Sessions, AppendToLines(s)
  PROVE  GlueInv'
<1> DEFINE q == todo[s]
           c == q[1].what.task
           x == IF Head(q).op = "json" THEN Head(q).what ELSE LineEnd
<1>0. todo = [y \in Sessions |-> todo[y]] /\ LinesOK(started, lines) /\ q # <<>>
  BY DEF MetricsInv, ShapesOK, AppendToLines
<1>1. /\ QCall(q) \/ QRow(q) \/ QRec(q) \/ QEnd(q)
      /\ c \in 1..started /\ truth[c].by = s /\ Head(q) = q[1] /\ started \in Nat
  BY <1>0, Busy
<1>2. /\ Head(q).op \in {"json", "newline"} /\ lines' = Append(lines, x)
      /\ todo' = [todo EXCEPT ![s] = Tail(q)] /\ truth' = truth /\ damaged' = damaged
  BY DEF AppendToLines, Done
<1>3. QRec(q) \/ QEnd(q)
  BY <1>1, <1>2 DEF QCall, QRow, IsRowOp, Op
<1>4. (QRec(q) => x = q[1].what) /\ (QEnd(q) => x = LineEnd) /\ LineEnd.task = 0
  BY <1>1 DEF QRec, QEnd, IsLineOp, Op, LineEnd
<1>5. todo'[s] = Tail(q)
  BY <1>0, <1>2
<1>6. QRec(q) => QEnd(todo'[s]) /\ todo'[s][1].what.task = c
  BY <1>5, Tails DEF QRec
<1> HIDE DEF q, x
<1>7. x.task # 0 \/ x = LineEnd \/ x = Torn
  BY <1>1, <1>3, <1>4
<1>8. Ending(x.task, truth, damaged, todo')
  BY <1>1, <1>3, <1>4, <1>6 DEF Ending
<1>9. ASSUME NEW a, Ending(a, truth, damaged, todo) PROVE Beside(a, x.task, truth, damaged)
  <2>1. CASE QEnd(q)
    BY <1>3, <1>4, <2>1 DEF Beside
  <2>2. CASE QRec(q)
    <3>1. x.task = c /\ ~QEnd(todo[s])
      BY <1>4, <2>2, Kinds DEF q
    <3> QED BY <1>1, <1>9, <3>1 DEF Beside, Ending
  <2> QED BY <1>3, <2>1, <2>2
<1>10. GluedOK(Append(lines, x), truth, damaged, todo')
  BY <1>0, <1>7, <1>8, <1>9, GluedAppend DEF GlueInv
<1> QED BY <1>2, <1>10 DEF GlueInv

\* A kill damages every task that has a line end to write, and may leave a torn record.
LEMMA KillKeepsGlue ==
  ASSUME MetricsInv, GlueInv, Kill
  PROVE  GlueInv'
<1>0. /\ LinesOK(started, lines) /\ started \in Nat /\ LinesOK(started', lines') /\ truth' = truth
      /\ lines' = lines \/ lines' = Append(lines, Torn)
  <2>1. MetricsInv'
    BY KillKeeps
  <2>2. LinesOK(started', lines')
    BY <2>1 DEF MetricsInv
  <2> QED BY <2>2, BoundsAssumption DEF MetricsInv, TruthOK, Kill
<1>1. /\ damaged \subseteq damaged'
      /\ \A s \in Sessions : \A i \in DOMAIN todo[s] : todo[s][i].what.task \in damaged'
  BY DEF Kill
<1>2. ASSUME NEW t \in 1..started, Ending(t, truth, damaged, todo)
      PROVE  Ending(t, truth', damaged', todo')
  <2> DEFINE q == todo[truth[t].by]
  <2>1. truth[t].by \in Sessions
    BY DEF MetricsInv, TruthOK
  <2>2. t # 0 /\ (t \in damaged \/ (QEnd(q) /\ q[1].what.task = t))
    BY <1>0, <1>2 DEF Ending
  <2>3. QEnd(q) => 1 \in DOMAIN q
    BY DEF QEnd
  <2>4. t \in damaged'
    BY <1>1, <2>1, <2>2, <2>3
  <2> QED BY <2>4 DEF Ending
<1>3. GluedOK(lines, truth', damaged', todo')
  BY <1>0, <1>1, <1>2, GluedKept DEF GlueInv
<1>4. CASE lines' = Append(lines, Torn)
  <2>1. Torn.task = 0
    BY DEF Torn
  <2>2. Ending(Torn.task, truth', damaged', todo') /\ \A a : Beside(a, Torn.task, truth', damaged')
    BY <2>1 DEF Ending, Beside
  <2>3. GluedOK(Append(lines, Torn), truth', damaged', todo')
    BY <1>0, <1>3, <2>2, GluedAppend
  <2> QED BY <1>4, <2>3 DEF GlueInv
<1> QED BY <1>0, <1>3, <1>4 DEF GlueInv

\* parse_events misses a task that is over only if it is damaged or its record shares
\* its line with a torn record, another session's or one that lost its line end, for
\* any number of sessions and tasks: append_json_line's two writes hurt nobody else.
THEOREM MissedForAReason == Spec => []MissedTasksAreGlued
<1>1. Init => GlueInv
  BY DEF Init, GlueInv, GluedOK, LastEnds
<1>2. MetricsInv /\ GlueInv /\ [Next]_vars => GlueInv'
  <2> SUFFICES ASSUME MetricsInv, GlueInv, [Next]_vars PROVE GlueInv'
    OBVIOUS
  <2>1. CASE Kill
    BY <2>1, KillKeepsGlue
  <2>2. ASSUME NEW s \in Sessions, Step(s) PROVE GlueInv'
    BY <2>2, EventKeepsGlue, RowKeepsGlue, FailKeepsGlue, LineKeepsGlue DEF Step
  <2>3. CASE UNCHANGED vars
    BY <2>3 DEF vars, files, sinks, GlueInv
  <2> QED BY <2>1, <2>2, <2>3 DEF Next
<1>3. MetricsInv /\ GlueInv => MissedTasksAreGlued
  <2> SUFFICES ASSUME MetricsInv, GlueInv, NEW t \in 1..started, Settled(t), t \notin damaged,
                      t \notin {lines[i].task : i \in ParseEvents}
               PROVE  \E i \in 1..Len(lines) : lines[i].task = t /\ Glued(i)
    BY DEF MissedTasksAreGlued
  <2>1. Len(lines) \in Nat
    BY DEF MetricsInv, LinesOK, AnySeq
  <2>2. PICK i \in 1..Len(lines) : lines[i].task = t
    <3> DEFINE D == RowsDue(csv[truth[t].by], todo[truth[t].by])
               E == RecordsDue(csv[truth[t].by], todo[truth[t].by])
    <3>1. t \notin E
      BY SettledIsWritten
    <3>2. FileOK(t, D, E, truth[t], rows["llm_calls"][t], rows["tool_calls"][t], rows["tasks"][t], damaged, lines)
      BY TaskFacts
    <3> HIDE DEF D, E
    <3> QED BY <3>1, <3>2 DEF FileOK
  <2>3. IsRecord(lines[i]) /\ ~Readable(i)
    BY <2>2 DEF ParseEvents, IsRecord
  <2>4. CASE i > 1 /\ lines[i - 1] # LineEnd
    <3>1. i - 1 \in 1..Len(lines) /\ i - 1 < Len(lines) /\ (i - 1) + 1 = i
      BY <2>1, <2>4
    <3>2. /\ lines[i - 1].task # 0 \/ lines[i - 1] = Torn
          /\ Beside(lines[i - 1].task, lines[i].task, truth, damaged)
      BY <2>4, <3>1 DEF GlueInv, GluedOK
    <3> QED BY <2>2, <2>3, <3>1, <3>2 DEF Beside, Glued, IsRecord
  <2>5. CASE i < Len(lines) /\ lines[i + 1] # LineEnd
    <3>1. i + 1 \in 1..Len(lines)
      BY <2>1, <2>5
    <3>2. /\ lines[i + 1].task # 0 \/ lines[i + 1] = Torn
          /\ Beside(lines[i].task, lines[i + 1].task, truth, damaged)
      BY <2>5, <3>1 DEF GlueInv, GluedOK
    <3> QED BY <2>2, <2>3, <3>1, <3>2 DEF Beside, Glued, IsRecord
  <2> QED BY <2>3, <2>4, <2>5 DEF Readable
<1> QED BY <1>1, <1>2, <1>3, InvariantHolds, PTL DEF Spec
=============================================================================
