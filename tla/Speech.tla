------------------------------- MODULE Speech -------------------------------
(***************************************************************************)
(* `voice --local`: the push-to-talk loop (apps/voice/src/main.rs), the    *)
(* narrating event sink, and the speech stack under it (crates/tts).       *)
(*                                                                         *)
(* Four threads: the main thread records, sends a turn to Nala, narrates   *)
(* its events and speaks the answer; AsyncSpeech's worker takes the        *)
(* messages one by one; RodioPlayer's thread owns the audio device; a      *)
(* thread per utterance moves what Piper or Chatterbox generates into a    *)
(* channel.  Text, samples and formats are left out: a chunk is "pcm", or  *)
(* "err" for a terminal error.  The connection to Nala is VoiceSession's   *)
(* and AgentLoop's subject; here a turn is a series of events.             *)
(***************************************************************************)
EXTENDS Naturals, Integers, Sequences, FiniteSets

CONSTANTS
  MaxQueuedNarration,  \* MAX_QUEUED_NARRATION
  MaxChunks,           \* bound: chunks of one utterance
  MaxEvents            \* bound: events of one turn that may be narrated

ASSUME SpeechAssumption == {MaxQueuedNarration, MaxChunks, MaxEvents} \subseteq Nat

VARIABLES
  main,      \* where the main thread is
  text,      \* what it speaks: "narration", "answer"; "last" in the final flush
  events,    \* events narrated or not in this turn
  lastKey,   \* TemplateNarrator.last_key
  backend,   \* what speech_backend resolved: "stream", "sapi", "off"
  server,    \* Chatterbox: "none", "foreign", "own", "killed"
  pending,   \* AsyncSpeech.pending
  queue,     \* its channel: "speak" and "flush"
  ack,       \* the flush's channel: "none", "open", "sent", "dropped"
  worker,    \* its thread: "idle", "synth", "play", "waiting", "spoken", "dead"
  player,    \* RodioPlayer's thread: "idle", "opening", "feeding", "draining", "gone"
  chunks,    \* PcmStream.chunks
  producer,  \* the thread that fills it: "reading", "exiting", "ended"
  produced,  \* chunks it has sent
  sink,      \* chunks in the Sink, not yet taken by the device
  device     \* the audio device: "silent", "sounding", "lost"

loop == <<main, text, events, lastKey>>
async == <<pending, queue, ack, worker>>
audio == <<player, chunks, producer, produced, sink, device>>
vars == <<loop, backend, server, async, audio>>

Running == main # "ended"
Count(s, x) == Cardinality({i \in 1..Len(s) : s[i] = x})

-----------------------------------------------------------------------------
(* Start-up: bootstrap::build and speech_backend. *)

\* A Chatterbox server may be running already, whoever started it.
Init ==
  /\ main = "select" /\ text = "answer" /\ events = 0 /\ lastKey = "none"
  /\ backend = "off" /\ server \in {"none", "foreign"}
  /\ pending = 0 /\ queue = <<>> /\ ack = "none" /\ worker = "idle"
  /\ player = "gone" /\ chunks = <<>> /\ producer = "ended" /\ produced = 0 /\ sink = 0
  /\ device = "silent"

\* ChatterboxSupervisor's Drop kills the server it owns.
DropSupervisor == IF server = "own" THEN "killed" ELSE server

\* NALA_TTS=off; NALA_TTS=sapi and every failure to build a streaming backend.
Select(b) ==
  /\ main = "select" /\ main' = "connect" /\ backend' = b
  /\ b = "off" => server # "own"
  /\ server' = DropSupervisor
  /\ UNCHANGED <<text, events, lastKey, async, audio>>

\* RodioPlayer::new opened the device: Piper needs no more, Chatterbox a server.
SelectStream ==
  /\ main = "select" /\ main' = "connect" /\ backend' = "stream" /\ player' = "idle"
  /\ UNCHANGED <<text, events, lastKey, server, async, chunks, producer, produced, sink, device>>

\* ensure_running with no healthy server and autostart: spawns one; it becomes
\* healthy, and building goes on, or it does not in time and is killed.
SpawnServer ==
  /\ main = "select" /\ server = "none" /\ server' = "own"
  /\ UNCHANGED <<loop, backend, async, audio>>

\* TcpWire::connect fails: exit(1), once build() has dropped what it holds; or it
\* succeeds, and Nala greets or does not.
ConnectFails ==
  /\ main = "connect" /\ main' = "ended" /\ server' = DropSupervisor
  /\ UNCHANGED <<text, events, lastKey, backend, async, audio>>

Connected ==
  /\ main = "connect" /\ main' \in {"add", "prompt"}
  /\ UNCHANGED <<text, events, lastKey, backend, server, async, audio>>

-----------------------------------------------------------------------------
(* The main thread. *)

\* Enter starts a recording; it fails, or nothing is understood, or a turn begins.
Record ==
  /\ main = "prompt" /\ main' = "recording"
  /\ UNCHANGED <<text, events, lastKey, backend, server, async, audio>>

Recorded ==
  /\ main = "recording" /\ main' \in {"prompt", "turn"} /\ events' = 0
  /\ UNCHANGED <<text, lastKey, backend, server, async, audio>>

\* SpeakingEventSink.emit: a phrase for the event's key, unless the last phrase had
\* the same key; then say_narration's check of the queue.
Keys == {"thinking", "verifying", "tool", "retry", "tool_error"}
RoomForNarration == pending < MaxQueuedNarration

Emit(key) ==
  /\ main = "turn" /\ events < MaxEvents /\ events' = events + 1
  /\ lastKey' = key /\ text' = "narration"
  /\ main' = IF key # lastKey /\ RoomForNarration THEN "add" ELSE "turn"
  /\ UNCHANGED <<backend, server, async, audio>>

\* The answer, or what stands for a failed turn.
TurnEnds ==
  /\ main = "turn" /\ main' = "add" /\ text' = "answer"
  /\ UNCHANGED <<events, lastKey, backend, server, async, audio>>

\* After say_narration the turn goes on; after say comes flush.
AfterEnqueue == IF text = "narration" THEN "turn" ELSE "flush"

\* enqueue: the counter first, then the channel; undone if the worker is gone.
SendFirst == <<"send", "add">>
EnqueueOrder == <<"add", "send">>

At(step) == main = IF EnqueueOrder[1] = step THEN "add" ELSE "send"
After(step) == IF EnqueueOrder[1] = step THEN "send" ELSE AfterEnqueue

Add ==
  /\ At("add") /\ pending' = pending + 1 /\ main' = After("add")
  /\ UNCHANGED <<text, events, lastKey, backend, server, queue, ack, worker, audio>>

Send ==
  /\ At("send")
  /\ \/ worker # "dead" /\ queue' = Append(queue, "speak") /\ main' = After("send")
     \/ worker = "dead" /\ main' = "undo" /\ UNCHANGED queue
  /\ UNCHANGED <<text, events, lastKey, backend, server, pending, ack, worker, audio>>

Undo ==
  /\ main = "undo" /\ pending' = pending - 1 /\ main' = AfterEnqueue
  /\ UNCHANGED <<text, events, lastKey, backend, server, queue, ack, worker, audio>>

\* flush: a message with a channel to answer on, then the wait.
AfterFlush == IF text = "last" THEN "ended" ELSE "prompt"

Flush ==
  /\ main = "flush"
  /\ \/ /\ worker # "dead" /\ main' = "wait"
        /\ queue' = Append(queue, "flush") /\ ack' = "open" /\ UNCHANGED server
     \/ /\ worker = "dead" /\ main' = AfterFlush
        /\ server' = (IF text = "last" THEN DropSupervisor ELSE server)
        /\ UNCHANGED <<queue, ack>>
  /\ UNCHANGED <<text, events, lastKey, backend, pending, worker, audio>>

FlushReturns ==
  /\ main = "wait" /\ ack \in {"sent", "dropped"} /\ ack' = "none" /\ main' = AfterFlush
  /\ server' = (IF text = "last" THEN DropSupervisor ELSE server)
  /\ UNCHANGED <<text, events, lastKey, backend, pending, queue, worker, audio>>

\* "salir", or the end of stdin: out of the loop, to the last flush.
Leave ==
  /\ main = "prompt" /\ main' = "flush" /\ text' = "last"
  /\ UNCHANGED <<events, lastKey, backend, server, async, audio>>

-----------------------------------------------------------------------------
(* AsyncSpeech's worker, over StreamingSpeech, WindowsSapiSpeech or NullSpeech. *)

WorkerTakes ==
  /\ Running /\ worker = "idle" /\ queue # <<>> /\ queue' = Tail(queue)
  /\ \/ Head(queue) = "speak" /\ worker' = "synth" /\ UNCHANGED ack
     \/ Head(queue) = "flush" /\ ack' = "sent" /\ UNCHANGED worker
  /\ UNCHANGED <<loop, backend, server, pending, audio>>

\* The whole of say for "sapi" and "off"; for "stream", synthesize_stream failing.
SaysAtOnce ==
  /\ Running /\ worker = "synth" /\ worker' = "spoken"
  /\ UNCHANGED <<loop, backend, server, pending, queue, ack, audio>>

Synthesize ==
  /\ Running /\ worker = "synth" /\ backend = "stream" /\ worker' = "play"
  /\ chunks' = <<>> /\ producer' = "reading" /\ produced' = 0
  /\ UNCHANGED <<loop, backend, server, pending, queue, ack, player, sink, device>>

\* play_stream: the request and its reply channel go to the player's thread.
PlayStream ==
  /\ Running /\ worker = "play"
  /\ \/ player = "idle" /\ player' = "opening" /\ worker' = "waiting" /\ UNCHANGED producer
     \/ player = "gone" /\ worker' = "spoken" /\ producer' = "ended" /\ UNCHANGED player
  /\ UNCHANGED <<loop, backend, server, pending, queue, ack, chunks, produced, sink, device>>

Spoken ==
  /\ Running /\ worker = "spoken" /\ worker' = "idle" /\ pending' = pending - 1
  /\ UNCHANGED <<loop, backend, server, queue, ack, audio>>

\* A thread that cannot be spawned panics the worker (synthesize_stream): the
\* receiver goes, and with it the messages and the ack channels in it.
WorkerDies ==
  /\ Running /\ worker = "synth" /\ backend = "stream" /\ worker' = "dead"
  /\ queue' = <<>> /\ ack' = (IF ack = "open" THEN "dropped" ELSE ack)
  /\ UNCHANGED <<loop, backend, server, pending, audio>>

WorkerStep == WorkerTakes \/ SaysAtOnce \/ Synthesize \/ PlayStream \/ Spoken

-----------------------------------------------------------------------------
(* The producer of an utterance: stream_pcm_from, then Piper's exit status. *)

Produce ==
  /\ Running /\ producer = "reading" /\ produced < MaxChunks
  /\ chunks' = Append(chunks, "pcm") /\ produced' = produced + 1
  /\ UNCHANGED <<loop, backend, server, async, player, producer, sink, device>>

\* The end of what is read, which is an error if nothing came, or a failed read.
EndOfStream ==
  /\ Running /\ producer = "reading" /\ producer' = "exiting"
  /\ \/ produced > 0 /\ UNCHANGED chunks
     \/ chunks' = Append(chunks, "err")
  /\ UNCHANGED <<loop, backend, server, async, player, produced, sink, device>>

Exits ==
  /\ Running /\ producer = "exiting" /\ producer' = "ended"
  /\ \/ UNCHANGED chunks
     \/ chunks' = Append(chunks, "err")
  /\ UNCHANGED <<loop, backend, server, async, player, produced, sink, device>>

ProducerStep == Produce \/ EndOfStream \/ Exits

-----------------------------------------------------------------------------
(* RodioPlayer's thread: play_stream_on_device. *)

\* The reply ends the worker's wait; the stream and the Sink are dropped: nothing more
\* reaches the device, and the rest of the producer's work is void.
Reply(next) ==
  /\ player' = next /\ worker' = "spoken" /\ sink' = 0
  /\ chunks' = <<>> /\ producer' = "ended"
  /\ UNCHANGED <<loop, backend, server, pending, queue, ack, produced, device>>

OpenSink ==
  /\ Running /\ player = "opening"
  /\ \/ Reply("idle")
     \/ /\ player' = "feeding"
        /\ UNCHANGED <<loop, backend, server, async, chunks, producer, produced, sink, device>>

Feed ==
  /\ Running /\ player = "feeding" /\ chunks # <<>>
  /\ \/ /\ Head(chunks) = "pcm" /\ chunks' = Tail(chunks) /\ sink' = sink + 1
        /\ UNCHANGED <<loop, backend, server, async, player, producer, produced, device>>
     \/ Head(chunks) = "err" /\ Reply("idle")

\* External: rodio panics on the first chunk of a stream of no channels or no
\* rate, which the WAV header may announce; the thread is gone, and so is the reply channel.
KeepWaiting == worker
NoReply == "spoken"

PlayerDies ==
  /\ Running /\ player = "feeding" /\ chunks # <<>> /\ Head(chunks) = "pcm"
  /\ produced = Count(chunks, "pcm")
  /\ player' = "gone" /\ worker' = NoReply /\ chunks' = <<>> /\ producer' = "ended"
  /\ UNCHANGED <<loop, backend, server, pending, queue, ack, produced, sink, device>>

AllArrived ==
  /\ Running /\ player = "feeding" /\ chunks = <<>> /\ producer = "ended"
  /\ player' = "draining"
  /\ UNCHANGED <<loop, backend, server, async, chunks, producer, produced, sink, device>>

\* sleep_until_end
NotWaited == TRUE
SinkDrained == sink = 0

PlayedToTheEnd ==
  /\ Running /\ player = "draining" /\ SinkDrained
  /\ player' = "idle" /\ worker' = "spoken"
  /\ UNCHANGED <<loop, backend, server, pending, queue, ack, chunks, producer, produced, sink, device>>

PlayerStep == OpenSink \/ Feed \/ AllArrived \/ PlayedToTheEnd

\* External: the device takes what is in the Sink and is heard after it has taken
\* it, until its own buffer is empty.
DevicePlays ==
  /\ Running /\ device # "lost" /\ sink > 0 /\ sink' = sink - 1 /\ device' = "sounding"
  /\ UNCHANGED <<loop, backend, server, async, player, chunks, producer, produced>>

DeviceFades ==
  /\ Running /\ device = "sounding" /\ sink = 0 /\ device' = "silent"
  /\ UNCHANGED <<loop, backend, server, async, player, chunks, producer, produced, sink>>

\* External: the device is unplugged or switched away.  The player's thread is not
\* told; what is in the Sink stays there.
DeviceLost ==
  /\ Running /\ backend = "stream" /\ device # "lost" /\ device' = "lost"
  /\ UNCHANGED <<loop, backend, server, async, player, chunks, producer, produced, sink>>

-----------------------------------------------------------------------------
Next ==
  \/ \E b \in {"off", "sapi"} : Select(b)
  \/ SelectStream \/ SpawnServer \/ ConnectFails \/ Connected
  \/ Record \/ Recorded \/ TurnEnds \/ Add \/ Send \/ Undo \/ Flush \/ FlushReturns \/ Leave
  \/ \E key \in Keys : Emit(key)
  \/ WorkerStep \/ WorkerDies \/ ProducerStep \/ PlayerStep \/ PlayerDies
  \/ DevicePlays \/ DeviceFades \/ DeviceLost

Spec == Init /\ [][Next]_vars

\* The threads run; what generates an utterance ends it (Chatterbox: read_timeout;
\* Piper: it reads its whole input first); a device that is not lost plays.
FairSpec ==
  /\ Spec /\ WF_vars(FlushReturns) /\ WF_vars(WorkerStep) /\ WF_vars(ProducerStep)
  /\ WF_vars(PlayerStep) /\ WF_vars(DevicePlays)

-----------------------------------------------------------------------------
\* Speech is over when a recording starts: nothing waits to be spoken, the worker and
\* the player are done and the Sink is empty, after answers, failed turns and speech
\* that failed half-way.  What the device has taken and is still sounding is not in it
\* (run_local, flush, play_stream_on_device).
SpeechIsOver ==
  main = "recording" =>
    queue = <<>> /\ worker \in {"idle", "dead"} /\ player \in {"idle", "gone"} /\ sink = 0

\* What run_local says of its flush, "keeping the next recording from picking up
\* Nala's own voice".  TLC refutes it (README, disagreements); no run checks it: the
\* last chunk still sounds when the Sink is empty (is_speaking's comment asks its
\* callers for a settle window), and run_local opens the microphone without one.
MicHearsNoNala == main = "recording" => device # "sounding"

\* is_speaking's counter is the number of messages queued or being spoken, plus the
\* one being enqueued, so it is never 0 while something is spoken and never
\* wraps below 0, and at most MAX_QUEUED_NARRATION phrases come before an answer; a
\* worker that died leaves it too high, not too low (say_narration, enqueue, the worker).
Unsent == IF main = "send" \/ main = "undo" THEN 1 ELSE 0
Speaking == IF worker \in {"synth", "play", "waiting", "spoken"} THEN 1 ELSE 0
Queued == Count(queue, "speak")

PendingCounts ==
  /\ pending >= Queued + Speaking + Unsent
  /\ worker # "dead" => pending = Queued + Speaking + Unsent
  /\ Queued + Speaking <= MaxQueuedNarration + (IF text = "narration" THEN 0 ELSE 1)

\* A flush returns, however speech, the player or the worker failed, and the next
\* prompt comes, unless the device was lost and the player waits for it to take the
\* rest of an utterance: sleep_until_end has no timeout (flush, play_stream,
\* play_stream_on_device).
StuckOnDevice == device = "lost" /\ player = "draining" /\ sink > 0

PromptReturns == main = "wait" ~> (main # "wait" \/ StuckOnDevice)
=============================================================================
