------------------------------- MODULE Listener -------------------------------
(***************************************************************************)
(* Listening on the PC (crates/stt: session.rs, listener.rs, wake.rs): one *)
(* thread reads the microphone chunk by chunk, smooths what the voice      *)
(* detector says of each, feeds the wake detector while someone talks, and *)
(* lets the session decide when a capture starts, ends or is thrown away;  *)
(* a second thread transcribes audio to look for the wake phrase, and may  *)
(* answer when that audio has long been given up.                          *)
(*                                                                         *)
(* A chunk is what the voice detector makes of it: "high" and "low" lie    *)
(* beyond the gate's two thresholds, "mid" between them.  A capture is the *)
(* sequence of the ages of its chunks: 0 is the chunk just read, 1 the one *)
(* before.  A job's generation is represented by how far the detector's is *)
(* ahead of it, none or some.                                              *)
(***************************************************************************)
EXTENDS Integers, Sequences

CONSTANTS
  Hangover, FollowUpWindow, MaxUtterance, MinUtterance,  \* SessionConfig
  Settle, ColdStart,                                     \* SessionConfig
  WakePriming, WakePreRoll, FollowUpPreRoll,             \* ListenerConfig
  EnterChunks,    \* SpeechGate.enter_chunks
  CheckInterval   \* CHECK_INTERVAL_CHUNKS

ASSUME CountsAssumption ==
  /\ {FollowUpWindow, MinUtterance, Settle, ColdStart, EnterChunks} \subseteq Nat
  /\ {WakePriming, WakePreRoll, FollowUpPreRoll} \subseteq Nat
  /\ Hangover \in Nat \ {0} /\ CheckInterval \in Nat \ {0, 1}
\* As in the default configuration, an utterance of the greatest length that never paused
\* for the hangover has its share of speech.
ASSUME LengthsAssumption ==
  MaxUtterance \in Nat /\ MaxUtterance > MinUtterance * Hangover + 1

VARIABLES
  calling,     \* the mode of the call of listen, or "none"
  result,      \* what the last call returned: "text", "nothing" or "error"
  firstCall,   \* Listener.first_call
  gate,        \* SpeechGate: active, consecutive
  recent,      \* chunks in Listener.recent, as far as anything looks back
  ses,         \* Session: state, elapsed, silence, speech (speech_chunks), captured
  capture,     \* the local of listen
  wake,        \* WhisperWake: since (since_check), inFlight (check_in_flight)
  queued,      \* the job in the channel to the worker
  running,     \* the job the worker transcribes
  results,     \* the channel from the worker
  open,        \* chunks read since this call stopped discarding, as far as captures look back
  transcribed, \* speech chunks in the last capture that was transcribed
  falseAlarm   \* whether audio of something that is over ever counted as the wake phrase

wakeVars == <<wake, queued, running, results>>
vars == <<calling, result, firstCall, gate, recent, ses, capture, wakeVars,
          open, transcribed, falseAlarm>>

Modes == {"WakeWord", "FollowUp"}
Jobs  == [lag : {0, 1}, old : BOOLEAN]
NoJob == [lag |-> 1, old |-> TRUE, none |-> TRUE]
Larger(a, b) == IF a > b THEN a ELSE b
Smaller(a, b) == IF a < b THEN a ELSE b
LookBack == Larger(WakePriming, Larger(WakePreRoll, FollowUpPreRoll))
NewSession(state) ==
  [state |-> state, elapsed |-> 0, silence |-> 0, speech |-> 0, captured |-> 0]

Init ==
  /\ calling = "none" /\ result = "none" /\ firstCall = TRUE
  /\ gate = [active |-> FALSE, consecutive |-> 0]
  /\ recent = 0 /\ ses = NewSession("Idle") /\ capture = <<>>
  /\ wake = [since |-> 0, inFlight |-> FALSE]
  /\ queued = NoJob /\ running = NoJob /\ results = <<>>
  /\ open = 0 /\ transcribed = MinUtterance /\ falseAlarm = FALSE

-----------------------------------------------------------------------------
\* SpeechGate::update.

GateAfter(p) ==
  IF gate.active
    THEN IF p = "low" THEN [active |-> FALSE, consecutive |-> 0] ELSE gate
    ELSE CASE p = "high" -> [active      |-> gate.consecutive + 1 >= EnterChunks,
                             consecutive |-> gate.consecutive + 1]
           [] p = "mid"  -> gate
           [] p = "low"  -> [gate EXCEPT !.consecutive = 0]

-----------------------------------------------------------------------------
\* WhisperWake.  w is the detector together with what is on its way to and from the worker.

Detector == [since |-> wake.since, inFlight |-> wake.inFlight,
             queued |-> queued, running |-> running, results |-> results]
Detectors(w) ==
  /\ wake' = [since |-> w.since, inFlight |-> w.inFlight]
  /\ queued' = w.queued /\ running' = w.running /\ results' = w.results

SameGeneration(j) == j
NextGeneration(j) == IF j = NoJob THEN j ELSE [j EXCEPT !.lag = 1]
Reset(w) ==
  [since |-> 0, inFlight |-> FALSE,
   queued |-> NextGeneration(w.queued), running |-> NextGeneration(w.running),
   results |-> [i \in 1..Len(w.results) |-> NextGeneration(w.results[i])]]

\* Not code: marks the audio of the jobs in w as that of a call, an onset of speech or a
\* capture that is over.
Outdated(j) == IF j = NoJob THEN j ELSE [j EXCEPT !.old = TRUE]
Past(w) ==
  [w EXCEPT !.queued = Outdated(@), !.running = Outdated(@),
            !.results = [i \in 1..Len(w.results) |-> Outdated(w.results[i])]]

\* The finished checks that match, are not stale, and so count as the wake phrase.
Matches(w) == {i \in 1..Len(w.results) : w.results[i].lag = 0 /\ w.results[i].match}

DetectLeavesFlag(w) ==
  LET due   == w.since + 1 >= CheckInterval
      sends == due /\ ~w.inFlight /\ w.queued = NoJob
  IN  [since    |-> IF due THEN 0 ELSE w.since + 1,
       inFlight |-> w.inFlight \/ sends,
       queued   |-> IF sends THEN [lag |-> 0, old |-> FALSE] ELSE w.queued,
       running  |-> w.running,
       results  |-> <<>>]

\* handle_result for every finished check, then maybe_start_check.
Detect(w) ==
  LET inFlight == w.inFlight /\ w.results = <<>>
      due   == w.since + 1 >= CheckInterval
      sends == due /\ ~inFlight /\ w.queued = NoJob
  IN  [since    |-> IF due THEN 0 ELSE w.since + 1,
       inFlight |-> inFlight \/ sends,
       queued   |-> IF sends THEN [lag |-> 0, old |-> FALSE] ELSE w.queued,
       running  |-> w.running,
       results  |-> <<>>]

\* Listener::prime_wake_detector, after this chunk was written to recent.
Primed(w) ==
  IF WakePriming > 0 /\ recent + 1 >= WakePriming THEN Detect(Reset(w)) ELSE Reset(w)

WorkerTakes ==
  /\ running = NoJob /\ queued # NoJob
  /\ running' = queued /\ queued' = NoJob
  /\ UNCHANGED <<calling, result, firstCall, gate, recent, ses, capture, wake, results,
                 open, transcribed, falseAlarm>>

WorkerFinishes ==
  /\ running # NoJob
  /\ \E match \in BOOLEAN :
       results' = Append(results, [lag |-> running.lag, old |-> running.old, match |-> match])
  /\ running' = NoJob
  /\ UNCHANGED <<calling, result, firstCall, gate, recent, ses, capture, wake, queued,
                 open, transcribed, falseAlarm>>

-----------------------------------------------------------------------------
\* Listener::listen, from its call to the first chunk.

Listen(mode) ==
  /\ calling = "none"
  /\ calling' = mode /\ result' = "none" /\ firstCall' = FALSE
  /\ ses' = NewSession(IF firstCall THEN "ColdStart" ELSE "Settling")
  /\ Detectors(Reset(Past(Detector)))
  /\ capture' = <<>> /\ open' = 0
  /\ UNCHANGED <<gate, recent, transcribed, falseAlarm>>

Return(value) == calling' = "none" /\ result' = value
GoesOn == UNCHANGED <<calling, result>>

AudioSourceClosed ==
  /\ calling # "none" /\ Return("error")
  /\ UNCHANGED <<firstCall, gate, recent, ses, capture, wakeVars, open, transcribed, falseAlarm>>

-----------------------------------------------------------------------------
\* Session::observe and what listen does with the action it returns.  In each, speech and
\* woken are what this chunk was found to be, and w is the wake detector after it.

Enter(s, state) == [s EXCEPT !.state = state, !.elapsed = 0, !.silence = 0]
Older == [i \in 1..Len(capture) |-> capture[i] + 1]

\* prepend_pre_roll: this chunk was written to recent already.
PreRoll(mode) ==
  LET n == IF mode = "WakeWord" THEN WakePreRoll ELSE FollowUpPreRoll
  IN  IF recent + 1 >= n THEN [i \in 1..n |-> n - i] ELSE <<>>

DiscardWindow == IF ses.state = "ColdStart" THEN ColdStart ELSE Settle

TickDiscard(w) ==
  /\ ses.state \in {"ColdStart", "Settling"}
  /\ ses' = IF ses.elapsed + 1 >= DiscardWindow THEN Enter(ses, "Idle")
            ELSE [ses EXCEPT !.elapsed = @ + 1]
  /\ GoesOn /\ Detectors(w) /\ UNCHANGED <<capture, open, transcribed>>

Opens == open' = Smaller(open + 1, LookBack + 1)

StartCapture(w) ==
  /\ ses' = [Enter(ses, "Capturing") EXCEPT !.captured = 1, !.speech = 0]
  /\ capture' = Append(PreRoll(calling), 0)
  /\ GoesOn /\ Detectors(w) /\ UNCHANGED transcribed

WaitForFollowUp(speech, w) ==
  /\ ses.state = "Idle" /\ calling = "FollowUp" /\ Opens
  /\ \/ speech /\ StartCapture(w)
     \/ ~speech /\ GoesOn /\ Detectors(w) /\ UNCHANGED <<ses, capture, transcribed>>

ObserveFollowUp(speech, w) ==
  /\ ses.state = "Idle" /\ calling = "FollowUp" /\ Opens
  /\ \/ speech /\ StartCapture(w)
     \/ /\ ~speech
        /\ ses' = [ses EXCEPT !.elapsed = @ + 1]
        /\ IF ses.elapsed + 1 >= FollowUpWindow THEN Return("nothing") ELSE GoesOn
        /\ Detectors(w) /\ UNCHANGED <<capture, transcribed>>

ObserveIdle(speech, woken, w) ==
  /\ ses.state = "Idle" /\ calling = "WakeWord" /\ Opens
  /\ \/ woken /\ StartCapture(w)
     \/ /\ ~woken
        /\ ses' = IF speech THEN Enter(ses, "Listening") ELSE ses
        /\ GoesOn /\ Detectors(w) /\ UNCHANGED <<capture, transcribed>>

ObserveListening(speech, woken, w) ==
  /\ ses.state = "Listening" /\ Opens
  /\ \/ woken /\ StartCapture(w)
     \/ /\ ~woken
        /\ ses' = CASE speech -> [ses EXCEPT !.silence = 0]
                    [] ~speech /\ ses.silence + 1 >= Hangover -> Enter(ses, "Idle")
                    [] OTHER -> [ses EXCEPT !.silence = @ + 1]
        /\ GoesOn /\ Detectors(w) /\ UNCHANGED <<capture, transcribed>>

One(b) == IF b THEN 1 ELSE 0

RestartCapture(speech, w) ==
  /\ ses' = [ses EXCEPT !.captured = 1, !.speech = One(speech), !.silence = 0]
  /\ capture' = Append(PreRoll("WakeWord"), 0)
  /\ GoesOn /\ Detectors(Reset(Past(w))) /\ UNCHANGED transcribed

\* The session after one more chunk of a capture.
Counted(speech) ==
  [ses EXCEPT !.captured = @ + 1, !.speech = @ + One(speech),
              !.silence = IF speech THEN 0 ELSE @ + 1]

TooLong(s) == s.captured >= MaxUtterance
Over(s)    == s.silence >= Hangover
Worthwhile(s) == s.speech >= MinUtterance

KeepOnlySpeech(s, w) ==
  /\ ~TooLong(s) /\ ~Over(s)
  /\ ses' = s /\ capture' = IF s.silence = 0 THEN Append(Older, 0) ELSE Older
  /\ GoesOn /\ Detectors(w) /\ UNCHANGED transcribed

Capture(s, w) ==
  /\ ~TooLong(s) /\ ~Over(s)
  /\ ses' = s /\ capture' = Append(Older, 0)
  /\ GoesOn /\ Detectors(w) /\ UNCHANGED transcribed

CompleteAnything(s) == TooLong(s) \/ Over(s)
\* Complete and CompleteMaxDuration.
Completes(s) == TooLong(s) \/ (Over(s) /\ Worthwhile(s))

\* A transcript that is not sane ends a follow-up; with the wake word, listening goes on.
Nonsense == IF calling = "FollowUp" THEN Return("nothing") ELSE GoesOn

Complete(s, w) ==
  /\ Completes(s)
  /\ ses' = Enter(s, "Idle") /\ transcribed' = s.speech
  /\ Detectors(Reset(Past(w)))
  /\ \/ Return("text") /\ UNCHANGED capture
     \/ Nonsense /\ capture' = <<>>
     \/ Return("error") /\ UNCHANGED capture

Discard(s, w) ==
  /\ Over(s) /\ ~Completes(s)
  /\ ses' = Enter(s, "Idle") /\ capture' = <<>>
  /\ GoesOn /\ Detectors(Reset(Past(w))) /\ UNCHANGED transcribed

ObserveCapturing(speech, woken, w) ==
  /\ ses.state = "Capturing" /\ Opens
  /\ \/ woken /\ RestartCapture(speech, w)
     \/ ~woken /\ LET s == Counted(speech) IN Capture(s, w) \/ Complete(s, w) \/ Discard(s, w)

\* One chunk: p is what the voice detector says of it, forced whether the manual trigger was
\* pulled since the last one.
Chunk(p, forced) ==
  LET g      == GateAfter(p)
      speech == g.active
      primed == IF speech /\ ~gate.active THEN Primed(Past(Detector)) ELSE Detector
      woken  == (speech /\ Matches(primed) # {}) \/ forced
      w      == IF speech THEN Detect(primed) ELSE primed
  IN  /\ calling # "none"
      /\ gate' = g /\ recent' = Smaller(recent + 1, LookBack)
      /\ \/ TickDiscard(w)
         \/ ObserveFollowUp(speech, w)
         \/ ObserveIdle(speech, woken, w)
         \/ ObserveListening(speech, woken, w)
         \/ ObserveCapturing(speech, woken, w)
      /\ falseAlarm' = (falseAlarm \/ (speech /\ \E i \in Matches(primed) : primed.results[i].old))
      /\ UNCHANGED firstCall

Chunks == \E p \in {"low", "mid", "high"}, forced \in BOOLEAN : Chunk(p, forced)
Worker == WorkerTakes \/ WorkerFinishes

Next ==
  \/ \E mode \in Modes : Listen(mode)
  \/ Chunks
  \/ AudioSourceClosed
  \/ Worker

Spec == Init /\ [][Next]_vars

\* The microphone goes on delivering chunks and the worker goes on transcribing.
ListenFairness == WF_vars(Chunks) /\ WF_vars(Worker)

-----------------------------------------------------------------------------
\* Type correctness, with the ranges of the session's timers.
TypeOK ==
  /\ calling \in Modes \cup {"none"} /\ result \in {"none", "text", "nothing", "error"}
  /\ firstCall \in BOOLEAN
  /\ gate \in [active : BOOLEAN, consecutive : 0..Larger(EnterChunks, 1)]
  /\ recent \in 0..LookBack
  /\ ses \in [state : {"ColdStart", "Settling", "Idle", "Listening", "Capturing"},
              elapsed : Nat, silence : 0..Hangover, speech : Nat, captured : 0..MaxUtterance]
  /\ capture \in Seq(Nat)
  /\ wake \in [since : 0..(CheckInterval - 1), inFlight : BOOLEAN]
  /\ queued \in Jobs \cup {NoJob} /\ running \in Jobs \cup {NoJob}
  /\ results \in Seq([lag : {0, 1}, old : BOOLEAN, match : BOOLEAN])
  /\ open \in 0..(LookBack + 1) /\ transcribed \in Nat /\ falseAlarm \in BOOLEAN

\* "Hard cap on one utterance, so a stuck-open microphone can't buffer forever"
\* (SessionConfig.max_utterance), however often the wake phrase restarts the capture.
CaptureBounded == Len(capture) <= MaxUtterance + Larger(WakePreRoll, FollowUpPreRoll)

\* While an utterance is captured, no chunk is missing from it: it runs from the first chunk
\* of the pre-roll to the one just read, without a gap and in order (a silent chunk in the
\* middle of a sentence included).
NothingMissing ==
  ses.state = "Capturing" /\ calling # "none" =>
    /\ capture # <<>>
    /\ {capture[i] : i \in 1..Len(capture)} = 0..capture[1]
    /\ \A i \in 1..(Len(capture) - 1) : capture[i] >= capture[i + 1]

\* "Below this, Whisper is skipped entirely" (SessionConfig.min_utterance): also an utterance
\* cut off at the greatest length, which nothing checks, has enough speech, since it never
\* paused for the hangover.
EnoughSpeech == transcribed >= MinUtterance

\* "A WakeWord listen never returns None" (Listener::listen).
WakeWordAlwaysAnswers == [][calling = "WakeWord" => result' # "nothing"]_vars

\* "a half-heard phrase can't complete minutes later against unrelated audio"
\* (WakeDetector::reset): no answer about audio of an earlier call, an earlier onset of speech
\* or a finished capture is taken for the wake phrase, although a reset forgets the check in
\* flight and a second one may be under way with it.
NoFalseAlarm == ~falseAlarm

\* Someone who keeps talking is checked for the wake phrase again and again: the flag that
\* holds back a second check cannot get stuck.
ChecksKeepComing ==
  <>[](gate.active /\ calling # "none" /\ ses.state = "Listening") => []<>(results # <<>>)

\* Once nobody speaks and nothing starts a capture any more, a follow-up gives up.
FollowUpEndsInSilence ==
  <>[](~gate.active /\ ~(ses.state = "Capturing" /\ ses.captured = 1))
    => []<>(calling # "FollowUp")

\* "Chunks ignored when listening resumes, to let the tail of Nala's own speech drain out of
\* the microphone and the buffer" (SessionConfig.settle), and "discarded at startup"
\* (cold_start): no capture holds a chunk that was read while the session discarded.
\* TLC refutes this (README, disagreements); no run checks it.
DiscardedAudioIsIgnored ==
  ses.state = "Capturing" /\ ses.captured = 1 /\ calling # "none" =>
    \A i \in 1..Len(capture) : capture[i] < open
=============================================================================
