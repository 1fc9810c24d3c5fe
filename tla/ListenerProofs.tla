---------------------------- MODULE ListenerProofs ----------------------------
(***************************************************************************)
(* Safety of Listener for every configuration: type correctness, bounded   *)
(* and gapless captures, enough speech in what is transcribed, no late     *)
(* answer taken for the wake phrase, and a wake-word call that never       *)
(* returns nothing.                                                        *)
(***************************************************************************)
EXTENDS Listener, TLAPS

-----------------------------------------------------------------------------
\* The wake detector and its jobs.

Answers == [lag : {0, 1}, old : BOOLEAN, match : BOOLEAN]
FreshJobs == {j \in Jobs : j.lag = 1 \/ j.old = FALSE} \cup {NoJob}
FreshAnswers == {a \in Answers : a.lag = 1 \/ a.old = FALSE}

\* The detectors none of whose current jobs is about audio that is over.
FreshDetectors ==
  [since : 0..(CheckInterval - 1), inFlight : BOOLEAN,
   queued : FreshJobs, running : FreshJobs, results : Seq(FreshAnswers)]

\* The steps of a detector after which it is fresh: a new generation for everything that was
\* marked as over, and detect.
LEMMA OverIsStale ==
  ASSUME NEW j \in FreshJobs
  PROVE  NextGeneration(Outdated(j)) \in FreshJobs
<1>1. CASE j = NoJob
  BY <1>1 DEF NextGeneration, Outdated, FreshJobs
<1>2. CASE j # NoJob
  <2>1. j \in Jobs
    BY <1>2 DEF FreshJobs
  <2>2. Outdated(j) = [j EXCEPT !.old = TRUE]
    BY <1>2 DEF Outdated
  <2>3. Outdated(j) \in Jobs
    BY <2>1, <2>2 DEF Jobs
  <2>4. CASE Outdated(j) = NoJob
    BY <2>4 DEF NextGeneration, FreshJobs
  <2>5. CASE Outdated(j) # NoJob
    <3>1. NextGeneration(Outdated(j)) = [Outdated(j) EXCEPT !.lag = 1]
      BY <2>5 DEF NextGeneration
    <3>2. NextGeneration(Outdated(j)) \in Jobs /\ NextGeneration(Outdated(j)).lag = 1
      BY <2>3, <3>1 DEF Jobs
    <3> QED BY <3>2 DEF FreshJobs
  <2> QED BY <2>4, <2>5
<1> QED BY <1>1, <1>2

LEMMA OverAnswerIsStale ==
  ASSUME NEW a \in FreshAnswers
  PROVE  NextGeneration(Outdated(a)) \in FreshAnswers
<1>1. a \in Answers /\ a # NoJob
  BY DEF FreshAnswers, Answers, NoJob
<1>2. Outdated(a) = [a EXCEPT !.old = TRUE]
  BY <1>1 DEF Outdated
<1>3. Outdated(a) \in Answers
  BY <1>1, <1>2 DEF Answers
<1>4. Outdated(a) # NoJob
  BY <1>3 DEF Answers, NoJob
<1>5. NextGeneration(Outdated(a)) = [Outdated(a) EXCEPT !.lag = 1]
  BY <1>4 DEF NextGeneration
<1>6. NextGeneration(Outdated(a)) \in Answers /\ NextGeneration(Outdated(a)).lag = 1
  BY <1>3, <1>5 DEF Answers
<1> QED BY <1>6 DEF FreshAnswers

LEMMA ResetIsFresh ==
  ASSUME NEW w \in FreshDetectors
  PROVE  Reset(Past(w)) \in FreshDetectors
<1> DEFINE p == Past(w)
           r == Reset(p)
<1>1. /\ w.queued \in FreshJobs /\ w.running \in FreshJobs
      /\ w.results \in Seq(FreshAnswers)
  BY DEF FreshDetectors
<1>2. /\ p.queued = Outdated(w.queued) /\ p.running = Outdated(w.running)
      /\ p.results = [i \in 1..Len(w.results) |-> Outdated(w.results[i])]
  BY DEF Past, FreshDetectors
<1>3. r.queued \in FreshJobs /\ r.running \in FreshJobs
  BY <1>1, <1>2, OverIsStale DEF Reset
<1>4. PICK n \in Nat : n = Len(w.results)
  BY <1>1
<1>5. p.results = [i \in 1..n |-> Outdated(w.results[i])] /\ Len(p.results) = n
  BY <1>2, <1>4
<1>6. r.results = [i \in 1..n |-> NextGeneration(Outdated(w.results[i]))]
  BY <1>5 DEF Reset
<1>7. \A i \in 1..n : NextGeneration(Outdated(w.results[i])) \in FreshAnswers
  BY <1>1, <1>4, OverAnswerIsStale
<1>8. r.results \in Seq(FreshAnswers)
  BY <1>6, <1>7
<1>9. r = [since |-> r.since, inFlight |-> r.inFlight, queued |-> r.queued, running |-> r.running,
           results |-> r.results]
  BY DEF Reset
<1>10. r.since \in 0..(CheckInterval - 1) /\ r.inFlight \in BOOLEAN
  BY CountsAssumption DEF Reset
<1>11. r \in FreshDetectors
  <2> HIDE DEF r
  <2> QED BY <1>3, <1>8, <1>9, <1>10 DEF FreshDetectors
<1> QED BY <1>11

LEMMA DetectIsFresh ==
  ASSUME NEW w \in FreshDetectors
  PROVE  Detect(w) \in FreshDetectors
<1> DEFINE d == Detect(w)
<1>1. d.since \in 0..(CheckInterval - 1)
  BY CountsAssumption DEF Detect, FreshDetectors
<1>2. d.inFlight \in BOOLEAN
  BY DEF Detect
<1>3. [lag |-> 0, old |-> FALSE] \in FreshJobs
  BY DEF FreshJobs, Jobs
<1>4. d.queued \in FreshJobs /\ d.running \in FreshJobs
  BY <1>3 DEF Detect, FreshDetectors
<1>5. d.results \in Seq(FreshAnswers)
  BY DEF Detect
<1>6. d = [since |-> d.since, inFlight |-> d.inFlight, queued |-> d.queued,
           running |-> d.running, results |-> d.results]
  BY DEF Detect
<1>7. d \in FreshDetectors
  <2> HIDE DEF d
  <2> QED BY <1>1, <1>2, <1>4, <1>5, <1>6 DEF FreshDetectors
<1> QED BY <1>7

LEMMA PrimedIsFresh ==
  ASSUME NEW w \in FreshDetectors
  PROVE  Primed(Past(w)) \in FreshDetectors
<1>1. Reset(Past(w)) \in FreshDetectors
  BY ResetIsFresh
<1>2. Detect(Reset(Past(w))) \in FreshDetectors
  BY <1>1, DetectIsFresh
<1> QED BY <1>1, <1>2 DEF Primed

-----------------------------------------------------------------------------
\* The invariant, by parts.

WakeInv == Detector \in FreshDetectors /\ falseAlarm = FALSE

FlagsInv == wake = [since |-> wake.since, inFlight |-> wake.inFlight]

CallInv ==
  /\ calling \in Modes \cup {"none"} /\ result \in {"none", "text", "nothing", "error"}
  /\ calling # "none" => result = "none"
  /\ firstCall \in BOOLEAN

GateInv ==
  /\ gate \in [active : BOOLEAN, consecutive : 0..Larger(EnterChunks, 1)]
  /\ gate.active = FALSE => gate.consecutive = 0 \/ gate.consecutive < EnterChunks

WindowInv == recent \in 0..LookBack /\ open \in 0..(LookBack + 1)

Sessions ==
  [state : {"ColdStart", "Settling", "Idle", "Listening", "Capturing"},
   elapsed : Nat, silence : 0..Hangover, speech : Nat, captured : 0..MaxUtterance]

\* A capture under way never paused for the hangover, so that every chunk of speech pays for
\* at most a hangover of others.
UnderWay(s) ==
  /\ s.captured >= 1 /\ s.captured < MaxUtterance /\ s.silence < Hangover
  /\ s.captured <= 1 + s.speech * Hangover + s.silence

SessionInv ==
  /\ ses \in Sessions
  /\ ses.state = "Listening" => ses.silence < Hangover
  /\ ses.state = "Capturing" => UnderWay(ses)
  /\ transcribed \in Nat /\ transcribed >= MinUtterance

PreRolls == Larger(WakePreRoll, FollowUpPreRoll)

\* The ages in a capture: no gap, and never younger before older.
Gapless(c) ==
  /\ c # <<>>
  /\ {c[i] : i \in 1..Len(c)} = 0..c[1]
  /\ \A i \in 1..(Len(c) - 1) : c[i] >= c[i + 1]

CaptureInv ==
  /\ capture \in Seq(Nat)
  /\ Len(capture) <= ses.captured + PreRolls
  /\ ses.state = "Capturing" /\ calling # "none" => Gapless(capture)

Ind == WakeInv /\ FlagsInv /\ CallInv /\ GateInv /\ WindowInv /\ SessionInv /\ CaptureInv

-----------------------------------------------------------------------------
\* A chunk, seen from the detector and from the session.

\* What Detectors(w) leaves behind is w.
LEMMA DetectorsIs ==
  ASSUME NEW w \in FreshDetectors, Detectors(w)
  PROVE  Detector' \in FreshDetectors
<1>1. Detector' = [since |-> w.since, inFlight |-> w.inFlight, queued |-> w.queued,
                   running |-> w.running, results |-> w.results]
  BY DEF Detectors, Detector
<1>2. w.since \in 0..(CheckInterval - 1) /\ w.queued \in FreshJobs /\ w.running \in FreshJobs
      /\ w.results \in Seq(FreshAnswers)
  BY DEF FreshDetectors
<1>3. w.inFlight \in BOOLEAN
  BY DEF FreshDetectors
<1> QED BY <1>1, <1>2, <1>3 DEF FreshDetectors

\* What a chunk may do to the session, whatever it is found to be.
Observed(speech, woken, w) ==
  \/ TickDiscard(w)
  \/ ObserveFollowUp(speech, w)
  \/ ObserveIdle(speech, woken, w)
  \/ ObserveListening(speech, woken, w)
  \/ ObserveCapturing(speech, woken, w)

LEMMA ChunkObserved ==
  ASSUME WakeInv, NEW p, NEW forced, Chunk(p, forced)
  PROVE  /\ \E speech, woken : \E w \in FreshDetectors : Observed(speech, woken, w)
         /\ falseAlarm' = FALSE
<1> DEFINE g      == GateAfter(p)
           speech == g.active
           primed == IF speech /\ ~gate.active THEN Primed(Past(Detector)) ELSE Detector
           woken  == (speech /\ Matches(primed) # {}) \/ forced
           w      == IF speech THEN Detect(primed) ELSE primed
<1>1. primed \in FreshDetectors
  BY PrimedIsFresh DEF WakeInv
<1>2. w \in FreshDetectors
  <2> HIDE DEF primed, g
  <2> QED BY <1>1, DetectIsFresh
<1>3. Observed(speech, woken, w)
  BY DEF Chunk, Observed
<1>4. falseAlarm' = (falseAlarm \/ (speech /\ \E i \in Matches(primed) : primed.results[i].old))
  BY DEF Chunk
<1>5. \A i \in Matches(primed) : primed.results[i].old = FALSE
  <2> HIDE DEF primed
  <2>1. primed.results \in Seq(FreshAnswers)
    BY <1>1 DEF FreshDetectors
  <2> QED BY <2>1 DEF Matches, FreshAnswers
<1>6. falseAlarm' = FALSE
  <2> HIDE DEF primed, g
  <2> QED BY <1>4, <1>5 DEF WakeInv
<1>7. \E sp, wo : \E x \in FreshDetectors : Observed(sp, wo, x)
  <2> HIDE DEF w, woken, g
  <2> QED BY <1>2, <1>3
<1> QED BY <1>6, <1>7

\* After any of them the detector is fresh: what is over was given up by a reset.
LEMMA ObservedIsFresh ==
  ASSUME NEW speech, NEW woken, NEW w \in FreshDetectors, Observed(speech, woken, w)
  PROVE  Detector' \in FreshDetectors
<1>1. Detectors(w) \/ Detectors(Reset(Past(w)))
  BY DEF Observed, TickDiscard, ObserveFollowUp, ObserveIdle, ObserveListening,
         ObserveCapturing, StartCapture, RestartCapture, Capture, Complete, Discard
<1>2. Reset(Past(w)) \in FreshDetectors
  BY ResetIsFresh
<1> QED BY <1>1, <1>2, DetectorsIs

-----------------------------------------------------------------------------
\* One lemma per part of the invariant.

LEMMA WakeStep ==
  ASSUME WakeInv, [Next]_vars
  PROVE  WakeInv'
<1>1. ASSUME NEW mode \in Modes, Listen(mode)
      PROVE  WakeInv'
  <2>1. Reset(Past(Detector)) \in FreshDetectors
    BY ResetIsFresh DEF WakeInv
  <2>2. Detectors(Reset(Past(Detector))) /\ falseAlarm' = falseAlarm
    BY <1>1 DEF Listen
  <2>3. Detector' \in FreshDetectors
    BY <2>1, <2>2, DetectorsIs
  <2> QED BY <2>2, <2>3 DEF WakeInv
<1>2. ASSUME NEW p, NEW forced, Chunk(p, forced)
      PROVE  WakeInv'
  <2>1. PICK speech, woken : \E w \in FreshDetectors : Observed(speech, woken, w)
    BY <1>2, ChunkObserved
  <2>2. PICK w \in FreshDetectors : Observed(speech, woken, w)
    BY <2>1
  <2>3. Detector' \in FreshDetectors
    BY <2>2, ObservedIsFresh
  <2>4. falseAlarm' = FALSE
    BY <1>2, ChunkObserved
  <2> QED BY <2>3, <2>4 DEF WakeInv
<1>3. CASE AudioSourceClosed \/ UNCHANGED vars
  <2>1. Detector' = Detector /\ falseAlarm' = falseAlarm
    BY <1>3 DEF AudioSourceClosed, vars, wakeVars, Detector
  <2> QED BY <2>1 DEF WakeInv
<1>4. CASE WorkerTakes
  <2>1. Detector' = [since |-> wake.since, inFlight |-> wake.inFlight, queued |-> NoJob,
                     running |-> queued, results |-> results]
    BY <1>4 DEF WorkerTakes, Detector
  <2>2. NoJob \in FreshJobs /\ queued \in FreshJobs /\ results \in Seq(FreshAnswers)
        /\ wake.since \in 0..(CheckInterval - 1)
    BY DEF WakeInv, Detector, FreshDetectors, FreshJobs
  <2>3. wake.inFlight \in BOOLEAN
    BY DEF WakeInv, Detector, FreshDetectors
  <2>4. Detector' \in FreshDetectors
    BY <2>1, <2>2, <2>3 DEF FreshDetectors
  <2> QED BY <1>4, <2>4 DEF WakeInv, WorkerTakes
<1>5. CASE WorkerFinishes
  <2>1. PICK match \in BOOLEAN :
          results' = Append(results, [lag |-> running.lag, old |-> running.old, match |-> match])
    BY <1>5 DEF WorkerFinishes
  <2> DEFINE a == [lag |-> running.lag, old |-> running.old, match |-> match]
  <2>2. NoJob \in FreshJobs /\ queued \in FreshJobs /\ running \in FreshJobs
        /\ results \in Seq(FreshAnswers) /\ wake.since \in 0..(CheckInterval - 1)
    BY DEF WakeInv, Detector, FreshDetectors, FreshJobs
  <2>3. wake.inFlight \in BOOLEAN
    BY DEF WakeInv, Detector, FreshDetectors
  <2>4. a \in FreshAnswers
    <3>1. running \in Jobs /\ (running.lag = 1 \/ running.old = FALSE)
      BY <1>5, <2>2 DEF WorkerFinishes, FreshJobs
    <3>2. running.lag \in {0, 1} /\ running.old \in BOOLEAN
      BY <3>1 DEF Jobs
    <3> QED BY <3>1, <3>2 DEF FreshAnswers, Answers
  <2>5. results' \in Seq(FreshAnswers)
    <3> HIDE DEF a
    <3> QED BY <2>1, <2>2, <2>4 DEF a
  <2>6. Detector' = [since |-> wake.since, inFlight |-> wake.inFlight, queued |-> queued,
                     running |-> NoJob, results |-> results']
    BY <1>5 DEF WorkerFinishes, Detector
  <2>7. Detector' \in FreshDetectors
    BY <2>2, <2>3, <2>5, <2>6 DEF FreshDetectors
  <2> QED BY <1>5, <2>7 DEF WakeInv, WorkerFinishes
<1> QED BY <1>1, <1>2, <1>3, <1>4, <1>5 DEF Next, Chunks, Worker

LEMMA FlagsStep ==
  ASSUME FlagsInv, [Next]_vars
  PROVE  FlagsInv'
<1>1. wake' = wake \/ \E w : Detectors(w)
  BY DEF Next, Listen, Chunks, Chunk, AudioSourceClosed, Worker, WorkerTakes, WorkerFinishes, vars,
         wakeVars, TickDiscard, ObserveFollowUp, ObserveIdle, ObserveListening, ObserveCapturing,
         StartCapture, RestartCapture, Capture, Complete, Discard
<1>2. wake' = wake \/ \E a, b : wake' = [since |-> a, inFlight |-> b]
  BY <1>1 DEF Detectors
<1> QED BY <1>2 DEF FlagsInv

LEMMA GateStep ==
  ASSUME GateInv, [Next]_vars
  PROVE  GateInv'
<1>1. ASSUME NEW p \in {"low", "mid", "high"}, gate' = GateAfter(p)
      PROVE  GateInv'
  <2>1. gate.active \in BOOLEAN
    BY DEF GateInv
  <2>2. gate.consecutive \in 0..Larger(EnterChunks, 1)
    BY DEF GateInv
  <2>3. CASE gate.active = TRUE /\ p # "low"
    BY <1>1, <2>3 DEF GateAfter, GateInv
  <2>4. CASE gate.active = TRUE /\ p = "low"
    <3>1. gate' = [active |-> FALSE, consecutive |-> 0]
      BY <1>1, <2>4 DEF GateAfter
    <3> QED BY <3>1, CountsAssumption DEF GateInv, Larger
  <2>5. CASE gate.active = FALSE /\ p = "high"
    <3> DEFINE c == gate.consecutive + 1
    <3>1. gate' = [active |-> c >= EnterChunks, consecutive |-> c]
      BY <1>1, <2>5 DEF GateAfter
    <3>2. gate.consecutive = 0 \/ gate.consecutive < EnterChunks
      BY <2>5 DEF GateInv
    <3>3. c \in 0..Larger(EnterChunks, 1)
      BY <2>2, <3>2, CountsAssumption DEF Larger
    <3>4. gate'.active = (c >= EnterChunks) /\ gate'.consecutive = c
      BY <3>1
    <3>5. gate'.active \in BOOLEAN
      BY <3>4
    <3>6. gate' = [active |-> gate'.active, consecutive |-> gate'.consecutive]
      BY <3>1
    <3>7. gate' \in [active : BOOLEAN, consecutive : 0..Larger(EnterChunks, 1)]
      BY <3>3, <3>4, <3>5, <3>6
    <3>8. gate'.active = FALSE => gate'.consecutive < EnterChunks
      <4>1. ASSUME gate'.active = FALSE
            PROVE  ~(c >= EnterChunks)
        <5> HIDE DEF c
        <5> QED BY <3>4, <4>1, Zenon
      <4>2. ~(c >= EnterChunks) => c < EnterChunks
        BY <2>2, CountsAssumption DEF Larger
      <4> HIDE DEF c
      <4> QED BY <3>4, <4>1, <4>2
    <3> QED BY <3>7, <3>8 DEF GateInv
  <2>6. CASE gate.active = FALSE /\ p = "mid"
    BY <1>1, <2>6 DEF GateAfter, GateInv
  <2>7. CASE gate.active = FALSE /\ p = "low"
    <3>1. gate' = [gate EXCEPT !.consecutive = 0]
      BY <1>1, <2>7 DEF GateAfter
    <3>2. 0 \in 0..Larger(EnterChunks, 1)
      BY CountsAssumption DEF Larger
    <3> QED BY <3>1, <3>2 DEF GateInv
  <2> QED BY <1>1, <2>1, <2>3, <2>4, <2>5, <2>6, <2>7
<1>2. CASE gate' = gate
  BY <1>2 DEF GateInv
<1>3. gate' = gate \/ \E p \in {"low", "mid", "high"} : gate' = GateAfter(p)
  BY DEF Next, Listen, Chunks, Chunk, AudioSourceClosed, Worker, WorkerTakes, WorkerFinishes, vars
<1> QED BY <1>1, <1>2, <1>3

LEMMA LookBackIsNat == LookBack \in Nat
BY CountsAssumption DEF LookBack, Larger

LEMMA WindowStep ==
  ASSUME WindowInv, [Next]_vars
  PROVE  WindowInv'
<1>1. recent' = recent \/ recent' = Smaller(recent + 1, LookBack)
  BY DEF Next, Listen, Chunks, Chunk, AudioSourceClosed, Worker, WorkerTakes, WorkerFinishes, vars
<1>2. open' = open \/ open' = 0 \/ Opens
  BY DEF Next, Listen, Chunks, Chunk, AudioSourceClosed, Worker, WorkerTakes, WorkerFinishes, vars,
         TickDiscard, ObserveFollowUp, ObserveIdle, ObserveListening, ObserveCapturing
<1>3. recent' \in 0..LookBack
  BY <1>1, LookBackIsNat DEF WindowInv, Smaller
<1>4. open' \in 0..(LookBack + 1)
  BY <1>2, LookBackIsNat DEF WindowInv, Opens, Smaller
<1> QED BY <1>3, <1>4 DEF WindowInv

LEMMA CallStep ==
  ASSUME CallInv, [Next]_vars
  PROVE  CallInv'
<1> USE DEF CallInv
<1>1. ASSUME NEW mode \in Modes, Listen(mode)
      PROVE  CallInv'
  BY <1>1 DEF Listen
<1>2. ASSUME NEW p, NEW forced, Chunk(p, forced)
      PROVE  CallInv'
  <2>1. \/ GoesOn \/ Return("text") \/ Return("nothing") \/ Return("error")
    BY <1>2 DEF Chunk, TickDiscard, ObserveFollowUp, ObserveIdle, ObserveListening,
         ObserveCapturing, StartCapture, RestartCapture, Capture, Complete, Discard, Nonsense
  <2>2. firstCall' = firstCall
    BY <1>2 DEF Chunk
  <2> QED BY <2>1, <2>2 DEF GoesOn, Return
<1>3. CASE AudioSourceClosed
  BY <1>3 DEF AudioSourceClosed, Return
<1>4. CASE UNCHANGED vars \/ WorkerTakes \/ WorkerFinishes
  BY <1>4 DEF vars, WorkerTakes, WorkerFinishes
<1> QED BY <1>1, <1>2, <1>3, <1>4 DEF Next, Chunks, Worker

-----------------------------------------------------------------------------
\* The session's counters.

\* A chunk of speech pays for the silence before it.
LEMMA Pace ==
  ASSUME NEW c \in Nat, NEW sp \in Nat, NEW si \in Nat, si < Hangover,
         c <= 1 + sp * Hangover + si
  PROVE  /\ c + 1 <= 1 + (sp + 1) * Hangover + 0
         /\ c + 1 <= 1 + (sp + 0) * Hangover + (si + 1)
<1>1. PICK h \in Nat : h = Hangover
  BY CountsAssumption
<1>2. (sp + 1) * h = sp * h + h /\ sp * h \in Nat /\ sp + 0 = sp
  BY SMT
<1> QED BY <1>1, <1>2

\* An utterance of the greatest length has its share of speech.
LEMMA LongMeansSpeech ==
  ASSUME NEW c \in Nat, NEW sp \in Nat, NEW si \in 0..Hangover,
         c <= 1 + sp * Hangover + si, c >= MaxUtterance
  PROVE  sp >= MinUtterance
<1>1. PICK h \in Nat : h = Hangover
  BY CountsAssumption
<1>2. PICK m \in Nat : m = MinUtterance
  BY CountsAssumption
<1>3. SUFFICES ASSUME sp < m PROVE FALSE
  BY <1>2
<1>4. PICK d \in Nat : m = sp + 1 + d
  <2>1. m - sp - 1 \in Nat /\ m = sp + 1 + (m - sp - 1)
    BY <1>3
  <2> QED BY <2>1
<1>5. m * h = sp * h + h + d * h /\ d * h \in Nat /\ sp * h \in Nat
  BY <1>4
<1>6. MaxUtterance > m * h + 1 /\ MaxUtterance \in Nat
  BY <1>1, <1>2, LengthsAssumption
<1>7. c <= 1 + sp * h + h
  BY <1>1, <1>5
<1> QED BY <1>5, <1>6, <1>7

\* One more chunk of a capture.
LEMMA CountedOK ==
  ASSUME SessionInv, ses.state = "Capturing", NEW speech
  PROVE  LET s == Counted(speech)
         IN  /\ s \in Sessions /\ s.state = "Capturing" /\ s.captured = ses.captured + 1
             /\ ~TooLong(s) /\ ~Over(s) => UnderWay(s)
             /\ Completes(s) => s.speech >= MinUtterance
<1> DEFINE s == Counted(speech)
<1>1. /\ ses \in Sessions /\ ses.captured \in Nat /\ ses.speech \in Nat /\ ses.silence \in Nat
      /\ ses.silence < Hangover /\ ses.captured < MaxUtterance /\ ses.captured >= 1
      /\ ses.captured <= 1 + ses.speech * Hangover + ses.silence
  BY DEF SessionInv, UnderWay, Sessions
<1>2. /\ ses.captured + 1 <= 1 + (ses.speech + 1) * Hangover + 0
      /\ ses.captured + 1 <= 1 + (ses.speech + 0) * Hangover + (ses.silence + 1)
  BY <1>1, Pace
<1>3. /\ s.state = "Capturing" /\ s.captured = ses.captured + 1
      /\ s.elapsed = ses.elapsed
      /\ \/ s.speech = ses.speech + 1 /\ s.silence = 0
         \/ s.speech = ses.speech + 0 /\ s.silence = ses.silence + 1
  <2>1. CASE speech
    BY <1>1, <2>1 DEF Counted, One, Sessions
  <2>2. CASE ~speech
    BY <1>1, <2>2 DEF Counted, One, Sessions
  <2> QED BY <2>1, <2>2
<1>4. s.captured <= 1 + s.speech * Hangover + s.silence
  <2>1. CASE s.speech = ses.speech + 1 /\ s.silence = 0
    <3> HIDE DEF s
    <3> QED BY <1>2, <1>3, <2>1, Zenon
  <2>2. CASE s.speech = ses.speech + 0 /\ s.silence = ses.silence + 1
    <3> HIDE DEF s
    <3> QED BY <1>2, <1>3, <2>2, Zenon
  <2> QED BY <1>3, <2>1, <2>2
<1>5. s.captured \in 0..MaxUtterance /\ s.speech \in Nat /\ s.silence \in 0..Hangover
  <2> HIDE DEF s
  <2> QED BY <1>1, <1>3, CountsAssumption, LengthsAssumption
<1>6. s \in Sessions
  <2>1. s = [ses EXCEPT !.captured = s.captured, !.speech = s.speech, !.silence = s.silence]
    BY <1>1 DEF Counted, Sessions
  <2> HIDE DEF s
  <2> QED BY <1>1, <1>5, <2>1 DEF Sessions
<1>7. ~TooLong(s) /\ ~Over(s) => UnderWay(s)
  <2> HIDE DEF s
  <2> QED BY <1>1, <1>3, <1>4, <1>5, CountsAssumption, LengthsAssumption
          DEF TooLong, Over, UnderWay
<1>8. Completes(s) => s.speech >= MinUtterance
  <2> HIDE DEF s
  <2>1. TooLong(s) => s.speech >= MinUtterance
    BY <1>4, <1>5, LongMeansSpeech DEF TooLong
  <2> QED BY <2>1 DEF Completes, Worthwhile
<1> QED BY <1>3, <1>6, <1>7, <1>8

LEMMA EnterOK ==
  ASSUME NEW s \in Sessions, NEW state \in {"Idle", "Listening", "Capturing"}
  PROVE  /\ Enter(s, state) \in Sessions
         /\ Enter(s, state).state = state /\ Enter(s, state).silence = 0
         /\ Enter(s, state).captured = s.captured
<1>1. 0 \in Nat /\ 0 \in 0..Hangover
  BY CountsAssumption
<1>2. Enter(s, state) \in Sessions
  BY <1>1 DEF Enter, Sessions
<1>3. /\ Enter(s, state).state = state /\ Enter(s, state).silence = 0
      /\ Enter(s, state).captured = s.captured
  BY DEF Enter, Sessions
<1> QED BY <1>2, <1>3

LEMMA NewSessionOK ==
  ASSUME NEW state \in {"ColdStart", "Settling", "Idle"}
  PROVE  NewSession(state) \in Sessions /\ NewSession(state).state = state
BY CountsAssumption, LengthsAssumption DEF NewSession, Sessions

LEMMA OneIsShort == MaxUtterance \in Nat /\ MaxUtterance > 1
<1>1. PICK h \in Nat : h = Hangover
  BY CountsAssumption
<1>2. PICK m \in Nat : m = MinUtterance
  BY CountsAssumption
<1>3. m * h \in Nat
  OBVIOUS
<1>4. MaxUtterance \in Nat /\ MaxUtterance > m * h + 1
  BY <1>1, <1>2, LengthsAssumption
<1> QED BY <1>3, <1>4

\* A capture that starts, by StartCapture or by RestartCapture.
LEMMA StartOK ==
  ASSUME NEW s \in Sessions, s.state = "Capturing", s.captured = 1, s.silence = 0
  PROVE  UnderWay(s)
<1>1. PICK h \in Nat : h = Hangover /\ h > 0
  BY CountsAssumption
<1>2. PICK sp \in Nat : sp = s.speech
  BY DEF Sessions
<1>3. sp * h \in Nat
  OBVIOUS
<1>4. 1 <= 1 + s.speech * Hangover + 0
  BY <1>1, <1>2, <1>3
<1> QED BY <1>1, <1>4, OneIsShort DEF UnderWay

LEMMA SessionObserved ==
  ASSUME SessionInv, NEW speech, NEW woken, NEW w, Observed(speech, woken, w)
  PROVE  SessionInv'
<1>1. ses \in Sessions /\ transcribed \in Nat /\ transcribed >= MinUtterance
  BY DEF SessionInv
<1>2. ASSUME ses' = ses \/ ses' = [ses EXCEPT !.elapsed = @ + 1] \/ ses' = Enter(ses, "Idle")
               \/ ses' = Enter(ses, "Listening"),
             transcribed' = transcribed
      PROVE  SessionInv'
  <2>1. CASE ses' = ses
    BY <1>2, <2>1 DEF SessionInv, UnderWay
  <2>2. CASE ses' = [ses EXCEPT !.elapsed = @ + 1]
    <3>1. ses' \in Sessions /\ ses'.state = ses.state /\ ses'.silence = ses.silence
          /\ ses'.captured = ses.captured /\ ses'.speech = ses.speech
      BY <1>1, <2>2 DEF Sessions
    <3> QED BY <1>2, <3>1 DEF SessionInv, UnderWay
  <2>3. CASE ses' = Enter(ses, "Idle") \/ ses' = Enter(ses, "Listening")
    <3>1. ses' \in Sessions /\ ses'.silence = 0 /\ ses'.state \in {"Idle", "Listening"}
      BY <1>1, <2>3, EnterOK
    <3> QED BY <1>2, <3>1, CountsAssumption DEF SessionInv
  <2> QED BY <1>2, <2>1, <2>2, <2>3
<1>3. ASSUME StartCapture(w)
      PROVE  SessionInv'
  <2>1. ses' = [Enter(ses, "Capturing") EXCEPT !.captured = 1, !.speech = 0]
        /\ transcribed' = transcribed
    BY <1>3 DEF StartCapture
  <2>2. ses' \in Sessions /\ ses'.state = "Capturing" /\ ses'.captured = 1 /\ ses'.silence = 0
    <3> DEFINE e == Enter(ses, "Capturing")
    <3>1. e \in Sessions /\ e.state = "Capturing" /\ e.silence = 0
      BY <1>1, EnterOK
    <3>2. 1 \in 0..MaxUtterance /\ 0 \in Nat
      BY OneIsShort
    <3>3. ses' = [e EXCEPT !.captured = 1, !.speech = 0]
      BY <2>1
    <3> HIDE DEF e
    <3>4. ses' \in Sessions
      BY <3>1, <3>2, <3>3 DEF Sessions
    <3> QED BY <3>1, <3>3, <3>4 DEF Sessions
  <2> QED BY <1>1, <2>1, <2>2, StartOK DEF SessionInv, UnderWay
<1>4. CASE TickDiscard(w)
  BY <1>2, <1>4 DEF TickDiscard
<1>5. CASE ObserveFollowUp(speech, w)
  BY <1>2, <1>3, <1>5 DEF ObserveFollowUp
<1>6. CASE ObserveIdle(speech, woken, w)
  BY <1>2, <1>3, <1>6 DEF ObserveIdle
<1>7. CASE ObserveListening(speech, woken, w)
  <2>1. CASE woken /\ StartCapture(w)
    BY <1>3, <2>1
  <2>2. CASE ~woken
    <3>1. transcribed' = transcribed /\ ses.state = "Listening"
          /\ \/ ses' = [ses EXCEPT !.silence = 0]
             \/ ses' = Enter(ses, "Idle")
             \/ ~(ses.silence + 1 >= Hangover) /\ ses' = [ses EXCEPT !.silence = @ + 1]
      BY <1>7, <2>2 DEF ObserveListening
    <3>2. CASE ses' = Enter(ses, "Idle")
      BY <1>2, <3>1, <3>2
    <3>3. CASE ses' = [ses EXCEPT !.silence = 0]
      <4>1. ses' \in Sessions /\ ses'.state = "Listening" /\ ses'.silence = 0
        BY <1>1, <3>1, <3>3, CountsAssumption DEF Sessions
      <4> QED BY <1>1, <3>1, <4>1, CountsAssumption DEF SessionInv
    <3>4. CASE ~(ses.silence + 1 >= Hangover) /\ ses' = [ses EXCEPT !.silence = @ + 1]
      <4>1. ses.silence + 1 \in 0..Hangover /\ ses.silence + 1 < Hangover
        BY <1>1, <3>4, CountsAssumption DEF Sessions
      <4>2. ses' \in Sessions /\ ses'.state = "Listening" /\ ses'.silence = ses.silence + 1
        BY <1>1, <3>1, <3>4, <4>1 DEF Sessions
      <4> QED BY <1>1, <3>1, <4>1, <4>2 DEF SessionInv
    <3> QED BY <3>1, <3>2, <3>3, <3>4
  <2> QED BY <1>7, <2>1, <2>2 DEF ObserveListening
<1>8. CASE ObserveCapturing(speech, woken, w)
  <2> DEFINE s == Counted(speech)
  <2>1. ses.state = "Capturing"
    BY <1>8 DEF ObserveCapturing
  <2>2. /\ s \in Sessions /\ s.state = "Capturing"
        /\ ~TooLong(s) /\ ~Over(s) => UnderWay(s)
        /\ Completes(s) => s.speech >= MinUtterance
    BY <2>1, CountedOK
  <2>3. CASE RestartCapture(speech, w)
    <3>1. ses' = [ses EXCEPT !.captured = 1, !.speech = One(speech), !.silence = 0]
          /\ transcribed' = transcribed
      BY <2>3 DEF RestartCapture
    <3>2. One(speech) \in Nat
      BY DEF One
    <3>3. ses' \in Sessions /\ ses'.state = "Capturing" /\ ses'.captured = 1 /\ ses'.silence = 0
      <4>1. 1 \in 0..MaxUtterance /\ 0 \in 0..Hangover
        BY OneIsShort, CountsAssumption
      <4>2. ses' \in Sessions
        BY <1>1, <3>1, <3>2, <4>1 DEF Sessions
      <4> QED BY <1>1, <2>1, <3>1, <4>2 DEF Sessions
    <3> QED BY <1>1, <3>1, <3>3, StartOK DEF SessionInv, UnderWay
  <2>4. CASE Capture(s, w)
    <3>1. ses' = s /\ transcribed' = transcribed /\ ~TooLong(s) /\ ~Over(s)
      BY <2>4 DEF Capture
    <3> HIDE DEF s
    <3>2. UnderWay(ses)'
      BY <2>2, <3>1 DEF UnderWay
    <3> QED BY <1>1, <2>2, <3>1, <3>2 DEF SessionInv
  <2>5. CASE Complete(s, w)
    <3>1. ses' = Enter(s, "Idle") /\ transcribed' = s.speech /\ Completes(s)
      BY <2>5 DEF Complete
    <3> HIDE DEF s
    <3>2. ses' \in Sessions /\ ses'.state = "Idle" /\ s.speech \in Nat
      BY <2>2, <3>1, EnterOK DEF Sessions
    <3> QED BY <2>2, <3>1, <3>2 DEF SessionInv
  <2>6. CASE Discard(s, w)
    <3>1. ses' = Enter(s, "Idle") /\ transcribed' = transcribed
      BY <2>6 DEF Discard
    <3> HIDE DEF s
    <3>2. ses' \in Sessions /\ ses'.state = "Idle"
      BY <2>2, <3>1, EnterOK
    <3> QED BY <1>1, <3>1, <3>2 DEF SessionInv
  <2> QED BY <1>8, <2>3, <2>4, <2>5, <2>6 DEF ObserveCapturing
<1> QED BY <1>4, <1>5, <1>6, <1>7, <1>8 DEF Observed

LEMMA SessionStep ==
  ASSUME WakeInv, SessionInv, [Next]_vars
  PROVE  SessionInv'
<1>1. ASSUME NEW mode \in Modes, Listen(mode)
      PROVE  SessionInv'
  <2>1. PICK state \in {"ColdStart", "Settling"} : ses' = NewSession(state)
    BY <1>1 DEF Listen
  <2>2. ses' \in Sessions /\ ses'.state \in {"ColdStart", "Settling"} /\ transcribed' = transcribed
    BY <1>1, <2>1, NewSessionOK DEF Listen
  <2> QED BY <2>2 DEF SessionInv
<1>2. ASSUME NEW p, NEW forced, Chunk(p, forced)
      PROVE  SessionInv'
  <2>1. PICK speech, woken : \E w \in FreshDetectors : Observed(speech, woken, w)
    BY <1>2, ChunkObserved
  <2> QED BY <2>1, SessionObserved
<1>3. CASE AudioSourceClosed \/ UNCHANGED vars \/ WorkerTakes \/ WorkerFinishes
  <2>1. ses' = ses /\ transcribed' = transcribed
    BY <1>3 DEF AudioSourceClosed, WorkerTakes, WorkerFinishes, vars
  <2> QED BY <2>1 DEF SessionInv, UnderWay
<1> QED BY <1>1, <1>2, <1>3 DEF Next, Chunks, Worker

-----------------------------------------------------------------------------
\* The captures.

\* The chunk just read at the end of a sequence of ages.
LEMMA AppendAge ==
  ASSUME NEW r \in Seq(Nat), NEW n \in Nat, n = Len(r)
  PROVE  LET c == Append(r, 0)
         IN  /\ c \in Seq(Nat) /\ Len(c) = n + 1 /\ c # <<>>
             /\ c[n + 1] = 0
             /\ \A i \in 1..n : c[i] = r[i]
<1> DEFINE c == Append(r, 0)
<1>1. c \in Seq(Nat) /\ Len(c) = n + 1 /\ c[n + 1] = 0
  OBVIOUS
<1>2. \A i \in 1..n : c[i] = r[i]
  OBVIOUS
<1>3. c # <<>>
  <2> HIDE DEF c
  <2>1. Len(c) # 0
    BY <1>1
  <2> QED BY <2>1
<1> QED BY <1>1, <1>2, <1>3

\* A pre-roll and the chunk that starts the capture.
LEMMA PreRollOK ==
  ASSUME NEW mode
  PROVE  LET c == Append(PreRoll(mode), 0)
         IN  c \in Seq(Nat) /\ Len(c) <= 1 + PreRolls /\ Gapless(c)
<1> DEFINE c == Append(PreRoll(mode), 0)
<1>0. WakePreRoll \in Nat /\ FollowUpPreRoll \in Nat
  BY CountsAssumption
<1>1. PICK n \in Nat : n <= PreRolls
                       /\ (PreRoll(mode) = [i \in 1..n |-> n - i] \/ PreRoll(mode) = <<>>)
  <2> DEFINE k == IF mode = "WakeWord" THEN WakePreRoll ELSE FollowUpPreRoll
  <2>1. k \in Nat /\ k <= PreRolls
    BY <1>0 DEF PreRolls, Larger
  <2>2. PreRoll(mode) = [i \in 1..k |-> k - i] \/ PreRoll(mode) = <<>>
    BY DEF PreRoll
  <2> HIDE DEF k
  <2> QED BY <2>1, <2>2
<1>2. PreRolls \in Nat
  BY <1>0 DEF PreRolls, Larger
<1>3. CASE PreRoll(mode) = <<>>
  <2>2. c \in Seq(Nat) /\ Len(c) = 1 /\ c[1] = 0 /\ c # <<>>
    <3>1. <<>> \in Seq(Nat) /\ Len(<<>>) = 0
      OBVIOUS
    <3>2. PICK z : z = <<>>
      OBVIOUS
    <3>3. /\ Append(z, 0) \in Seq(Nat) /\ Len(Append(z, 0)) = 0 + 1 /\ Append(z, 0) # <<>>
          /\ Append(z, 0)[0 + 1] = 0
      BY <3>1, <3>2, AppendAge
    <3> QED BY <1>3, <3>2, <3>3
  <2>3. Gapless(c)
    <3> HIDE DEF c
    <3> QED BY <2>2 DEF Gapless
  <2> QED BY <1>2, <2>2, <2>3
<1>4. CASE PreRoll(mode) = [i \in 1..n |-> n - i]
  <2> DEFINE r == [i \in 1..n |-> n - i]
  <2>1. r \in Seq(Nat) /\ Len(r) = n
    OBVIOUS
  <2>2. c = Append(r, 0)
    BY <1>4
  <2>3. \A i \in 1..n : r[i] = n - i
    OBVIOUS
  <2>4. /\ c \in Seq(Nat) /\ Len(c) = n + 1 /\ c # <<>>
        /\ \A i \in 1..n : c[i] = n - i
        /\ c[n + 1] = 0
    <3> HIDE DEF r, c
    <3>1. /\ c \in Seq(Nat) /\ Len(c) = n + 1 /\ c # <<>> /\ c[n + 1] = 0
          /\ \A i \in 1..n : c[i] = r[i]
      BY <2>1, <2>2, AppendAge
    <3> QED BY <2>3, <3>1
  <2> HIDE DEF c
  <2>5. \A i \in 1..(Len(c) - 1) : c[i] >= c[i + 1]
    <3> TAKE i \in 1..(Len(c) - 1)
    <3>1. i \in 1..n /\ c[i] = n - i
      BY <2>4
    <3>2. CASE i = n
      BY <2>4, <3>1, <3>2
    <3>3. CASE i # n
      <4>1. i + 1 \in 1..n /\ c[i + 1] = n - (i + 1)
        BY <2>4, <3>1, <3>3
      <4> QED BY <3>1, <4>1
    <3> QED BY <3>2, <3>3
  <2>6. {c[i] : i \in 1..Len(c)} = 0..c[1]
    <3>1. CASE n = 0
      BY <2>4, <3>1
    <3>2. CASE n # 0
      <4>1. c[1] = n - 1
        BY <2>4, <3>2
      <4>2. \A i \in 1..Len(c) : c[i] \in 0..(n - 1)
        BY <2>4, <3>2
      <4>3. \A a \in 0..(n - 1) : n - a \in 1..Len(c) /\ c[n - a] = a
        BY <2>4, <3>2
      <4> QED BY <4>1, <4>2, <4>3
    <3> QED BY <3>1, <3>2
  <2>7. Gapless(c)
    BY <2>4, <2>5, <2>6 DEF Gapless
  <2> QED BY <1>1, <1>2, <2>4, <2>7 DEF c
<1> QED BY <1>1, <1>3, <1>4

\* One more chunk.
LEMMA OlderOK ==
  ASSUME capture \in Seq(Nat)
  PROVE  LET c == Append(Older, 0)
         IN  /\ c \in Seq(Nat) /\ Len(c) = Len(capture) + 1
             /\ Gapless(capture) => Gapless(c)
<1> DEFINE c == Append(Older, 0)
<1>1. PICK n \in Nat : n = Len(capture)
  OBVIOUS
<1>2. \A i \in 1..n : capture[i] \in Nat
  BY <1>1
<1>3. Older \in Seq(Nat) /\ Len(Older) = n /\ \A i \in 1..n : Older[i] = capture[i] + 1
  BY <1>1, <1>2 DEF Older
<1>4. /\ c \in Seq(Nat) /\ Len(c) = n + 1 /\ c # <<>>
      /\ \A i \in 1..n : c[i] = capture[i] + 1
      /\ c[n + 1] = 0
  BY <1>3, AppendAge
<1> HIDE DEF c
<1>5. ASSUME Gapless(capture)
      PROVE  Gapless(c)
  <2>1. n >= 1
    <3>1. Len(capture) # 0
      BY <1>5 DEF Gapless
    <3> QED BY <1>1, <3>1
  <2>2. \A i \in 1..(n - 1) : capture[i] >= capture[i + 1]
    BY <1>1, <1>5 DEF Gapless
  <2>3. {capture[i] : i \in 1..n} = 0..capture[1]
    BY <1>1, <1>5 DEF Gapless
  <2>4. c[1] = capture[1] + 1 /\ capture[1] \in Nat
    BY <1>2, <1>4, <2>1
  <2>5. \A i \in 1..(Len(c) - 1) : c[i] >= c[i + 1]
    <3> TAKE i \in 1..(Len(c) - 1)
    <3>1. i \in 1..n /\ c[i] = capture[i] + 1 /\ capture[i] \in Nat
      BY <1>2, <1>4
    <3>2. CASE i = n
      BY <1>4, <3>1, <3>2
    <3>3. CASE i # n
      <4>1. i + 1 \in 1..n /\ i \in 1..(n - 1)
        BY <3>1, <3>3
      <4>2. c[i + 1] = capture[i + 1] + 1 /\ capture[i] >= capture[i + 1]
            /\ capture[i + 1] \in Nat
        BY <1>2, <1>4, <2>2, <4>1
      <4> QED BY <3>1, <4>2
    <3> QED BY <3>2, <3>3
  <2>6. ASSUME NEW i \in 1..Len(c)
        PROVE  c[i] \in 0..c[1]
    <3>1. CASE i = n + 1
      BY <1>4, <2>4, <3>1
    <3>2. CASE i # n + 1
      <4>1. i \in 1..n /\ c[i] = capture[i] + 1
        BY <1>4, <3>2
      <4>2. capture[i] \in 0..capture[1]
        BY <2>3, <4>1
      <4> QED BY <2>4, <4>1, <4>2
    <3> QED BY <3>1, <3>2
  <2>7. ASSUME NEW a \in 0..c[1]
        PROVE  \E i \in 1..Len(c) : a = c[i]
    <3>1. CASE a = 0
      BY <1>4, <3>1
    <3>2. CASE a # 0
      <4>1. a - 1 \in 0..capture[1]
        BY <2>4, <3>2
      <4>2. PICK i \in 1..n : a - 1 = capture[i]
        BY <2>3, <4>1
      <4>3. c[i] = a
        BY <1>2, <1>4, <4>2
      <4> QED BY <1>4, <4>3
    <3> QED BY <3>1, <3>2
  <2>8. {c[i] : i \in 1..Len(c)} = 0..c[1]
    BY <2>6, <2>7
  <2> QED BY <1>4, <2>5, <2>8 DEF Gapless
<1> QED BY <1>1, <1>4, <1>5 DEF c

LEMMA CaptureObserved ==
  ASSUME SessionInv, CaptureInv, calling # "none",
         NEW speech, NEW woken, NEW w, Observed(speech, woken, w)
  PROVE  CaptureInv'
<1>0. /\ ses \in Sessions /\ ses.captured \in Nat /\ PreRolls \in Nat
      /\ capture \in Seq(Nat) /\ Len(capture) \in Nat /\ Len(capture) <= ses.captured + PreRolls
  BY CountsAssumption DEF SessionInv, Sessions, CaptureInv, PreRolls, Larger
<1>1. ASSUME capture' = capture, ses'.captured \in Nat, ses'.captured >= ses.captured,
             ses'.state # "Capturing"
      PROVE  CaptureInv'
  BY <1>0, <1>1 DEF CaptureInv, PreRolls
<1>2. ASSUME capture' = <<>>, ses'.captured \in Nat, ses'.state # "Capturing"
      PROVE  CaptureInv'
  <2>1. capture' \in Seq(Nat) /\ Len(capture') = 0
    BY <1>2
  <2> QED BY <1>0, <1>2, <2>1 DEF CaptureInv, PreRolls
<1>3. ASSUME NEW mode, capture' = Append(PreRoll(mode), 0), ses'.captured = 1
      PROVE  CaptureInv'
  <2>1. capture' \in Seq(Nat) /\ Len(capture') <= 1 + PreRolls /\ Gapless(capture')
    BY <1>3, PreRollOK
  <2> QED BY <1>3, <2>1 DEF CaptureInv, PreRolls, Gapless
<1>4. ASSUME StartCapture(w)
      PROVE  CaptureInv'
  <2>1. capture' = Append(PreRoll(calling), 0)
        /\ ses' = [Enter(ses, "Capturing") EXCEPT !.captured = 1, !.speech = 0]
    BY <1>4 DEF StartCapture
  <2>2. ses'.captured = 1
    BY <1>0, <2>1 DEF Enter, Sessions
  <2> QED BY <1>3, <2>1, <2>2
<1>5. ASSUME capture' = capture, ses.state # "Capturing",
             \/ ses' = ses
             \/ ses' = [ses EXCEPT !.elapsed = @ + 1]
             \/ ses' = Enter(ses, "Idle") \/ ses' = Enter(ses, "Listening")
             \/ ses' = [ses EXCEPT !.silence = 0] \/ ses' = [ses EXCEPT !.silence = @ + 1]
      PROVE  CaptureInv'
  <2>1. ses'.captured = ses.captured /\ ses'.state # "Capturing"
    BY <1>0, <1>5 DEF Enter, Sessions
  <2> QED BY <1>0, <1>1, <1>5, <2>1
<1>6. CASE TickDiscard(w)
  BY <1>5, <1>6 DEF TickDiscard
<1>7. CASE ObserveFollowUp(speech, w)
  BY <1>4, <1>5, <1>7 DEF ObserveFollowUp
<1>8. CASE ObserveIdle(speech, woken, w)
  BY <1>4, <1>5, <1>8 DEF ObserveIdle
<1>9. CASE ObserveListening(speech, woken, w)
  BY <1>4, <1>5, <1>9 DEF ObserveListening
<1>10. CASE ObserveCapturing(speech, woken, w)
  <2> DEFINE s == Counted(speech)
  <2>1. ses.state = "Capturing" /\ Gapless(capture)
    BY <1>10 DEF ObserveCapturing, CaptureInv
  <2>2. s \in Sessions /\ s.state = "Capturing" /\ s.captured = ses.captured + 1
    BY <2>1, CountedOK
  <2>3. CASE RestartCapture(speech, w)
    <3>1. capture' = Append(PreRoll("WakeWord"), 0)
          /\ ses' = [ses EXCEPT !.captured = 1, !.speech = One(speech), !.silence = 0]
      BY <2>3 DEF RestartCapture
    <3>2. ses'.captured = 1
      BY <1>0, <3>1 DEF Sessions
    <3> QED BY <1>3, <3>1, <3>2
  <2>4. CASE Capture(s, w)
    <3>1. capture' = Append(Older, 0) /\ ses' = s
      BY <2>4 DEF Capture
    <3>2. capture' \in Seq(Nat) /\ Len(capture') = Len(capture) + 1 /\ Gapless(capture')
      BY <1>0, <2>1, <3>1, OlderOK
    <3> HIDE DEF s
    <3>3. ses'.captured = ses.captured + 1
      BY <2>2, <3>1
    <3>4. Len(capture') <= ses'.captured + PreRolls
      BY <1>0, <3>2, <3>3
    <3> QED BY <3>2, <3>4 DEF CaptureInv, PreRolls, Gapless
  <2>5. CASE Complete(s, w) \/ Discard(s, w)
    <3>1. ses' = Enter(s, "Idle") /\ (capture' = capture \/ capture' = <<>>)
      BY <2>5 DEF Complete, Discard
    <3> HIDE DEF s
    <3>2. ses'.captured = ses.captured + 1 /\ ses'.state # "Capturing"
      BY <2>2, <3>1, EnterOK
    <3> QED BY <1>0, <1>1, <1>2, <3>1, <3>2
  <2> QED BY <1>10, <2>3, <2>4, <2>5 DEF ObserveCapturing
<1> QED BY <1>6, <1>7, <1>8, <1>9, <1>10 DEF Observed

LEMMA CaptureStep ==
  ASSUME WakeInv, SessionInv, CaptureInv, [Next]_vars
  PROVE  CaptureInv'
<1>1. ASSUME NEW mode \in Modes, Listen(mode)
      PROVE  CaptureInv'
  <2>1. PICK state \in {"ColdStart", "Settling"} : ses' = NewSession(state)
    BY <1>1 DEF Listen
  <2>2. ses'.captured = 0 /\ ses'.state # "Capturing"
    BY <2>1 DEF NewSession
  <2>3. capture' = <<>> /\ capture' \in Seq(Nat) /\ Len(capture') = 0
    BY <1>1 DEF Listen
  <2>4. PreRolls \in Nat
    BY CountsAssumption DEF PreRolls, Larger
  <2> QED BY <2>2, <2>3, <2>4 DEF CaptureInv, PreRolls
<1>2. ASSUME NEW p, NEW forced, Chunk(p, forced)
      PROVE  CaptureInv'
  <2>1. PICK speech, woken : \E w \in FreshDetectors : Observed(speech, woken, w)
    BY <1>2, ChunkObserved
  <2>2. calling # "none"
    BY <1>2 DEF Chunk
  <2> QED BY <2>1, <2>2, CaptureObserved
<1>3. CASE AudioSourceClosed \/ UNCHANGED vars \/ WorkerTakes \/ WorkerFinishes
  <2>1. ses' = ses /\ capture' = capture /\ (calling' = calling \/ calling' = "none")
    BY <1>3 DEF AudioSourceClosed, WorkerTakes, WorkerFinishes, vars, Return
  <2> QED BY <2>1 DEF CaptureInv, PreRolls, Gapless
<1> QED BY <1>1, <1>2, <1>3 DEF Next, Chunks, Worker

-----------------------------------------------------------------------------
\* The theorems.

LEMMA Inductive == Spec => []Ind
<1>1. Init => Ind
  <2> SUFFICES ASSUME Init PROVE Ind
    OBVIOUS
  <2>1. WakeInv
    <3>1. NoJob \in FreshJobs /\ <<>> \in Seq(FreshAnswers) /\ 0 \in 0..(CheckInterval - 1)
      BY CountsAssumption DEF FreshJobs
    <3>2. Detector = [since |-> 0, inFlight |-> FALSE, queued |-> NoJob, running |-> NoJob,
                      results |-> <<>>]
      BY DEF Init, Detector
    <3>3. Detector \in FreshDetectors
      BY <3>1, <3>2 DEF FreshDetectors
    <3> QED BY <3>3 DEF Init, WakeInv
  <2>2. FlagsInv /\ CallInv
    BY DEF Init, FlagsInv, CallInv
  <2>3. GateInv
    <3>1. 0 \in 0..Larger(EnterChunks, 1)
      BY CountsAssumption DEF Larger
    <3> QED BY <3>1 DEF Init, GateInv
  <2>4. WindowInv
    BY LookBackIsNat DEF Init, WindowInv
  <2>5. ses \in Sessions /\ ses.state = "Idle" /\ ses.captured = 0
    <3>1. ses = NewSession("Idle")
      BY DEF Init
    <3>2. NewSession("Idle") \in Sessions /\ NewSession("Idle").state = "Idle"
      BY NewSessionOK
    <3>3. NewSession("Idle").captured = 0
      BY DEF NewSession
    <3> QED BY <3>1, <3>2, <3>3
  <2>6. SessionInv
    BY <2>5, CountsAssumption DEF Init, SessionInv
  <2>7. CaptureInv
    <3>1. capture = <<>> /\ capture \in Seq(Nat) /\ Len(capture) = 0
      BY DEF Init
    <3>2. PreRolls \in Nat
      BY CountsAssumption DEF PreRolls, Larger
    <3> QED BY <2>5, <3>1, <3>2 DEF CaptureInv
  <2> QED BY <2>1, <2>2, <2>3, <2>4, <2>6, <2>7 DEF Ind
<1>2. Ind /\ [Next]_vars => Ind'
  <2> SUFFICES ASSUME WakeInv, FlagsInv, CallInv, GateInv, WindowInv, SessionInv, CaptureInv,
                      [Next]_vars
               PROVE  Ind'
    BY DEF Ind
  <2>1. WakeInv' /\ FlagsInv' /\ CallInv' /\ GateInv' /\ WindowInv'
    BY WakeStep, FlagsStep, CallStep, GateStep, WindowStep
  <2>2. SessionInv' /\ CaptureInv'
    BY SessionStep, CaptureStep
  <2> QED BY <2>1, <2>2 DEF Ind
<1> QED BY <1>1, <1>2, PTL DEF Spec

\* The counters of gate, session and detector stay in their ranges, and every job and answer
\* has its form, after any sequence of chunks, answers and calls.
THEOREM TypeCorrect == Spec => []TypeOK
<1>1. Ind => TypeOK
  <2> SUFFICES ASSUME Ind PROVE TypeOK
    OBVIOUS
  <2>1. Detector \in FreshDetectors /\ falseAlarm = FALSE
    BY DEF Ind, WakeInv
  <2>2. /\ wake.since \in 0..(CheckInterval - 1) /\ queued \in FreshJobs /\ running \in FreshJobs
        /\ results \in Seq(FreshAnswers)
    BY <2>1 DEF FreshDetectors, Detector
  <2>3. wake.inFlight \in BOOLEAN
    BY <2>1 DEF FreshDetectors, Detector
  <2>4. wake \in [since : 0..(CheckInterval - 1), inFlight : BOOLEAN]
    BY <2>2, <2>3 DEF Ind, FlagsInv
  <2>5. queued \in Jobs \cup {NoJob} /\ running \in Jobs \cup {NoJob}
    BY <2>2 DEF FreshJobs
  <2>6. results \in Seq([lag : {0, 1}, old : BOOLEAN, match : BOOLEAN])
    <3>1. FreshAnswers \subseteq Answers
      BY DEF FreshAnswers
    <3>2. results \in Seq(Answers)
      <4>1. \A i \in 1..Len(results) : results[i] \in Answers
        BY <2>2, <3>1
      <4>2. Len(results) \in Nat /\ results = [i \in 1..Len(results) |-> results[i]]
        BY <2>2
      <4> QED BY <4>1, <4>2
    <3> QED BY <3>2 DEF Answers
  <2>7. /\ calling \in Modes \cup {"none"} /\ result \in {"none", "text", "nothing", "error"}
        /\ firstCall \in BOOLEAN
    BY DEF Ind, CallInv
  <2>8. gate \in [active : BOOLEAN, consecutive : 0..Larger(EnterChunks, 1)]
    BY DEF Ind, GateInv
  <2>9. recent \in 0..LookBack /\ open \in 0..(LookBack + 1) /\ transcribed \in Nat
        /\ capture \in Seq(Nat)
    BY DEF Ind, WindowInv, SessionInv, CaptureInv
  <2>10. ses \in Sessions
    BY DEF Ind, SessionInv
  <2>11. falseAlarm \in BOOLEAN
    BY <2>1
  <2> QED BY <2>4, <2>5, <2>6, <2>7, <2>8, <2>9, <2>10, <2>11, Zenon DEF TypeOK, Sessions
<1> QED BY <1>1, Inductive, PTL

\* However often the wake phrase restarts it, what listen buffers is at most the greatest
\* utterance and a pre-roll.
THEOREM CapturesAreBounded == Spec => []CaptureBounded
<1>1. Ind => CaptureBounded
  <2> SUFFICES ASSUME Ind PROVE CaptureBounded
    OBVIOUS
  <2>1. ses.captured \in Nat /\ ses.captured <= MaxUtterance
    BY LengthsAssumption DEF Ind, SessionInv, Sessions
  <2>2. capture \in Seq(Nat) /\ Len(capture) <= ses.captured + PreRolls
    BY DEF Ind, CaptureInv
  <2>3. Len(capture) \in Nat /\ PreRolls \in Nat /\ MaxUtterance \in Nat
    BY <2>2, CountsAssumption, LengthsAssumption DEF PreRolls, Larger
  <2>4. Len(capture) <= MaxUtterance + PreRolls
    BY <2>1, <2>2, <2>3
  <2> QED BY <2>4 DEF CaptureBounded, PreRolls
<1> QED BY <1>1, Inductive, PTL

\* A capture under way runs from its pre-roll to the chunk just read without a gap.
THEOREM CapturesAreComplete == Spec => []NothingMissing
<1>1. Ind => NothingMissing
  BY DEF Ind, CaptureInv, Gapless, NothingMissing
<1> QED BY <1>1, Inductive, PTL

\* What Whisper is asked to transcribe holds at least min_utterance chunks of speech, on the
\* path through the greatest length too, where the session does not look.
THEOREM TranscribedIsSpeech == Spec => []EnoughSpeech
<1>1. Ind => EnoughSpeech
  BY DEF Ind, SessionInv, EnoughSpeech
<1> QED BY <1>1, Inductive, PTL

\* No answer of the worker about audio that is over counts as the wake phrase, however late
\* it arrives.
THEOREM LateAnswersAreIgnored == Spec => []NoFalseAlarm
<1>1. Ind => NoFalseAlarm
  BY DEF Ind, WakeInv, NoFalseAlarm
<1> QED BY <1>1, Inductive, PTL

\* Listener::listen called for the wake word returns a text or an error, never nothing.
THEOREM WakeWordAnswers == Spec => WakeWordAlwaysAnswers
<1>1. Ind /\ [Next]_vars => [calling = "WakeWord" => result' # "nothing"]_vars
  <2> SUFFICES ASSUME CallInv, Next, calling = "WakeWord" PROVE result' # "nothing"
    BY DEF Ind
  <2>1. result = "none"
    BY DEF CallInv
  <2>2. CASE Chunks
    <3>1. PICK p \in {"low", "mid", "high"}, forced \in BOOLEAN : Chunk(p, forced)
      BY <2>2 DEF Chunks
    <3>2. GoesOn \/ Return("text") \/ Return("error")
      BY <3>1 DEF Chunk, TickDiscard, ObserveFollowUp, ObserveIdle, ObserveListening,
           ObserveCapturing, StartCapture, RestartCapture, Capture, Complete, Discard, Nonsense
    <3> QED BY <2>1, <3>2 DEF GoesOn, Return
  <2>3. CASE AudioSourceClosed
    BY <2>3 DEF AudioSourceClosed, Return
  <2>4. CASE Worker
    BY <2>1, <2>4 DEF Worker, WorkerTakes, WorkerFinishes
  <2>5. CASE \E mode \in Modes : Listen(mode)
    BY <2>5 DEF Listen
  <2> QED BY <2>2, <2>3, <2>4, <2>5 DEF Next
<1> QED BY <1>1, Inductive, PTL DEF Spec, WakeWordAlwaysAnswers
=============================================================================
