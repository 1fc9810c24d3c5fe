-------------------------------- MODULE Phone --------------------------------
(***************************************************************************)
(* The Android app (apps/android): the service that keeps the connection   *)
(* to `voice --serve` (NalaService, NalaSocket), the playback queue        *)
(* (ClipPlayer) and the screen (MainActivity).                             *)
(*                                                                         *)
(* Three kinds of threads interleave.  The main thread runs connect(),     *)
(* onDestroy(), the taps and, in order, what the others post to it.        *)
(* OkHttp's threads call the listeners: each call checks its generation,   *)
(* then runs, and the main thread may act between the two.  The playback   *)
(* thread takes the clips.  A socket is known by the generation that       *)
(* connect() gave it.  The delay of a retry, the loudness curve and the    *)
(* notification are left out.                                              *)
(***************************************************************************)
EXTENDS Naturals, Sequences, FiniteSets

CONSTANTS
  MaxEvents,   \* bound: clips received, and connections lost or refused, together
  MaxSaves,    \* bound: saves of the settings
  MaxScreens   \* bound: times the screen is opened

ASSUME PhoneAssumption == {MaxEvents, MaxSaves, MaxScreens} \subseteq Nat

VARIABLES
  alive,       \* the service has not been destroyed
  generation, socket,  \* NalaSocket's fields; 0 is no socket
  net,         \* the sockets' connections: "opening", "open", "closing"; "over" when lost
  calls,       \* calls of listeners: the generation, which one, and how far it is
  status,      \* NalaService.status
  auto,        \* Prefs.autoReconnect
  retry,       \* reconnectRunnable is posted
  queued,      \* the clips in ClipPlayer's queue
  worker,      \* its thread: "taking", "playing", "drained", "ended"
  interrupted, \* the thread's interrupt flag
  screen,      \* MainActivity is open and bound
  posted,      \* what is posted to it on the main thread
  core,        \* "SPEAKING", or "silent" for every other status of the core
  recording, awaitingReply,  \* the rest of its state
  late,        \* history: onDestroy ran while a listener was past its check
  events, saves, screens

link == <<alive, generation, socket, net, calls, status, auto, retry, late>>
player == <<queued, worker, interrupted>>
ui == <<screen, posted, core, recording, awaitingReply>>
bounds == <<events, saves, screens>>
vars == <<link, player, ui, bounds>>

Sockets == DOMAIN net
Call(g, on, at) == [gen |-> g, on |-> on, at |-> at]
Posts(m) == IF screen THEN Append(posted, m) ELSE posted

-----------------------------------------------------------------------------
\* NalaSocket.close: the old socket's listeners are silent from here on.
SameGeneration == generation
NextGeneration == generation + 1

Closed(n) ==
  [g \in {h \in DOMAIN n : n[h] # "over"} |-> IF g = socket THEN "closing" ELSE n[g]]

\* NalaService.connect: removes the retry, closes, and opens a socket.  Nothing on the
\* screen but a text follows the status CONNECTING, which is not posted here.
Connect ==
  /\ retry' = FALSE
  /\ generation' = NextGeneration + 1 /\ socket' = generation'
  /\ net' = [g \in DOMAIN Closed(net) \cup {socket'} |->
               IF g = socket' THEN "opening" ELSE Closed(net)[g]]
  /\ status' = "CONNECTING"
  /\ UNCHANGED <<alive, late>>

Init ==
  /\ alive = TRUE /\ generation = 2 /\ socket = 2 /\ net = [g \in {2} |-> "opening"]
  /\ calls = {} /\ status = "CONNECTING" /\ auto = TRUE /\ retry = FALSE
  /\ queued = 0 /\ worker = "taking" /\ interrupted = FALSE
  /\ screen = FALSE /\ posted = <<>> /\ core = "silent" /\ recording = FALSE /\ awaitingReply = FALSE
  /\ late = FALSE /\ events = 0 /\ saves = 0 /\ screens = 0

\* reconnectRunnable.
Retry ==
  /\ retry /\ Connect
  /\ UNCHANGED <<calls, auto, player, ui, bounds>>

\* The settings dialog saves: the switch, the address, and a new connection.
SaveSettings(on) ==
  /\ screen /\ alive /\ saves < MaxSaves /\ saves' = saves + 1
  /\ auto' = on /\ Connect
  /\ UNCHANGED <<calls, player, ui, events, screens>>

\* onDestroy; ClipPlayer.release interrupts the playback thread.
Destroy ==
  /\ alive /\ ~screen /\ alive' = FALSE
  /\ retry' = FALSE /\ generation' = NextGeneration /\ net' = Closed(net) /\ socket' = 0
  /\ interrupted' = TRUE
  /\ late' = (calls # {})
  /\ UNCHANGED <<calls, status, auto, queued, worker, ui, bounds>>

-----------------------------------------------------------------------------
\* A listener is called: it goes on if its socket is the current one.  onFailure and
\* onClosed do the same.
Current(g) == g = generation

Calls(g, on) == calls' = IF Current(g) THEN calls \cup {Call(g, on, "run")} ELSE calls

\* External: OkHttp.  The calls about what is read come one after the other; a
\* failure may be reported by another thread meanwhile.
Reading(g) == \E c \in calls : c.gen = g /\ c.on \in {"onOpen", "onMessage"}

Opens(g) ==
  /\ net[g] = "opening" /\ net' = [net EXCEPT ![g] = "open"] /\ Calls(g, "onOpen")
  /\ UNCHANGED <<alive, generation, socket, status, auto, retry, late, player, ui, bounds>>

Message(g) ==
  /\ net[g] \in {"open", "closing"} /\ ~Reading(g) /\ events < MaxEvents /\ events' = events + 1
  /\ Calls(g, "onMessage")
  /\ UNCHANGED <<alive, generation, socket, net, status, auto, retry, late>>
  /\ UNCHANGED <<player, ui, saves, screens>>

Fails(g) ==
  /\ net[g] \in {"opening", "open"} /\ events < MaxEvents /\ events' = events + 1
  /\ net' = [net EXCEPT ![g] = "over"] /\ Calls(g, "onLost")
  /\ UNCHANGED <<alive, generation, socket, status, auto, retry, late, player, ui>>
  /\ UNCHANGED <<saves, screens>>

Finishes(g) ==
  /\ net[g] = "closing" /\ net' = [h \in Sockets \ {g} |-> net[h]] /\ Calls(g, "onLost")
  /\ UNCHANGED <<alive, generation, socket, status, auto, retry, late, player, ui, bounds>>

-----------------------------------------------------------------------------
\* The listeners: what the service does.
Proceed(c, at) == calls' = (calls \ {c}) \cup {Call(c.gen, c.on, at)}
Done(c) == calls' = calls \ {c}

OnOpen(c) ==
  /\ c.at = "run" /\ c.on = "onOpen" /\ Done(c)
  /\ status' = "CONNECTED" /\ posted' = Posts("CONNECTED")
  /\ UNCHANGED <<alive, generation, socket, net, auto, retry, late, player>>
  /\ UNCHANGED <<screen, core, recording, awaitingReply, bounds>>

\* onClip: the screen is told first, then the clip is queued.
QueueFirst == <<"queue", "announce">>
AnnounceFirst == <<"announce", "queue">>

ClipHalf(k) ==
  \/ AnnounceFirst[k] = "announce" /\ posted' = Posts("clip") /\ UNCHANGED queued
  \/ AnnounceFirst[k] = "queue" /\ queued' = queued + 1 /\ UNCHANGED posted

OnClip(c) ==
  /\ c.on = "onMessage"
  /\ \/ c.at = "run" /\ Proceed(c, "then") /\ ClipHalf(1)
     \/ c.at = "then" /\ Done(c) /\ ClipHalf(2)
  /\ UNCHANGED <<alive, generation, socket, net, status, auto, retry, late>>
  /\ UNCHANGED <<worker, interrupted, screen, core, recording, awaitingReply, bounds>>

OnLost(c) ==
  /\ c.at = "run" /\ c.on = "onLost" /\ Proceed(c, "then")
  /\ status' = "DISCONNECTED" /\ posted' = Posts("DISCONNECTED")
  /\ UNCHANGED <<alive, generation, socket, net, auto, retry, late, player>>
  /\ UNCHANGED <<screen, core, recording, awaitingReply, bounds>>

\* scheduleReconnect: the posted retry is removed, and with auto-reconnect posted anew.
OnlyIfCurrent(c) == auto /\ Current(c.gen)
RetryAfter(c) == auto

ScheduleReconnect(c) ==
  /\ c.at = "then" /\ c.on = "onLost" /\ Done(c)
  /\ retry' = RetryAfter(c)
  /\ UNCHANGED <<alive, generation, socket, net, status, auto, late, player, ui, bounds>>

-----------------------------------------------------------------------------
\* The playback thread.  take() throws if the thread is interrupted.
Take ==
  /\ worker = "taking" /\ ~interrupted /\ queued > 0
  /\ worker' = "playing" /\ queued' = queued - 1
  /\ UNCHANGED <<link, interrupted, ui, bounds>>

TakeInterrupted ==
  /\ worker = "taking" /\ interrupted /\ worker' = "ended" /\ interrupted' = FALSE
  /\ UNCHANGED <<link, queued, ui, bounds>>

\* playBlocking: to the end of the clip, or an error, which an interruption during
\* the clip is one of; then a look at the queue.
ClipEnds ==
  /\ worker = "playing" /\ worker' = (IF queued = 0 THEN "drained" ELSE "taking")
  /\ \/ UNCHANGED interrupted
     \/ interrupted /\ interrupted' = FALSE
  /\ UNCHANGED <<link, queued, ui, bounds>>

QueueDrained ==
  /\ worker = "drained" /\ worker' = "taking" /\ posted' = Posts("drained")
  /\ UNCHANGED <<link, queued, interrupted, screen, core, recording, awaitingReply, bounds>>

WorkerStep == Take \/ TakeInterrupted \/ ClipEnds \/ QueueDrained

-----------------------------------------------------------------------------
\* updateStatusUi: the core follows the connection (IDLE, ERROR) only between turns.
CoreAfterStatus == IF recording \/ awaitingReply THEN core ELSE "silent"

\* The screen opens, binds to the service and shows its status; it closes.
OpenScreen ==
  /\ ~screen /\ alive /\ screens < MaxScreens /\ screens' = screens + 1 /\ screen' = TRUE
  /\ recording' = FALSE /\ awaitingReply' = FALSE
  /\ core' = "silent"
  /\ UNCHANGED <<link, player, posted, events, saves>>

CloseScreen ==
  /\ screen /\ screen' = FALSE /\ posted' = <<>> /\ recording' = FALSE /\ awaitingReply' = FALSE
  /\ core' = "silent"
  /\ UNCHANGED <<link, player, bounds>>

\* What was posted runs on the main thread.
RunPosted ==
  /\ posted # <<>> /\ posted' = Tail(posted)
  /\ LET m == Head(posted) IN
       \/ m = "clip" /\ awaitingReply' = FALSE /\ core' = "SPEAKING"
       \/ /\ m = "drained" /\ core' = (IF recording THEN core ELSE "silent")
          /\ UNCHANGED awaitingReply
       \/ m \notin {"clip", "drained"} /\ core' = CoreAfterStatus /\ UNCHANGED awaitingReply
  /\ UNCHANGED <<link, player, screen, recording, bounds>>

\* onRecordClicked
StartRecording ==
  /\ screen /\ ~recording /\ recording' = TRUE /\ core' = "silent"
  /\ UNCHANGED <<link, player, screen, posted, awaitingReply, bounds>>

\* OkHttp queues what is sent before the socket opens, and refuses it once the
\* socket is closed or lost.  Nothing recorded, or nothing sent, ends the turn.
SendUtterance == socket # 0 /\ net[socket] \in {"opening", "open"}

StopRecordingAndSend ==
  /\ screen /\ recording /\ recording' = FALSE /\ core' = "silent"
  /\ \/ UNCHANGED awaitingReply
     \/ SendUtterance /\ awaitingReply' = TRUE
  /\ UNCHANGED <<link, player, screen, posted, bounds>>

-----------------------------------------------------------------------------
ListenerStep ==
  \E c \in calls : OnOpen(c) \/ OnClip(c) \/ OnLost(c) \/ ScheduleReconnect(c)

User ==
  \/ OpenScreen \/ CloseScreen \/ StartRecording \/ StopRecordingAndSend
  \/ \E on \in BOOLEAN : SaveSettings(on)

Next ==
  \/ Retry \/ Destroy \/ ListenerStep \/ WorkerStep \/ RunPosted \/ User
  \/ \E g \in Sockets : Opens(g) \/ Message(g) \/ Fails(g) \/ Finishes(g)

Spec == Init /\ [][Next]_vars

\* The threads run; a posted retry fires; an attempt to connect ends one way or the
\* other (OkHttp's timeouts).
FairSpec ==
  /\ Spec /\ WF_vars(Retry) /\ WF_vars(ListenerStep) /\ WF_vars(WorkerStep)
  /\ WF_vars(\E g \in Sockets : Opens(g))

-----------------------------------------------------------------------------
\* Connections are no longer lost, and nobody uses the screen or stops the service.
Quiet == <>[][~(User \/ Destroy \/ \E g \in Sockets : Fails(g) \/ Finishes(g))]_vars

Open == socket # 0 /\ net[socket] = "open"

\* With auto-reconnect on, once connections are no longer lost and nobody saves the
\* settings or stops the service, the current connection is open for good and is
\* reported as such, whatever listeners of replaced sockets had written to the
\* status or scheduled, and whatever the switch was before (NalaSocket.connect,
\* NalaService.connect, scheduleReconnect).
StatusSettles == Quiet => <>[](alive /\ auto => Open /\ status = "CONNECTED")

\* What NalaSocket says of a replaced socket's late callback, that it "is dropped
\* instead of clobbering state a fresher callback already set", with the switch off
\* as well.  TLC refutes it (README, disagreements); no run checks it: an onFailure
\* past its check writes DISCONNECTED over the new connection, and nothing retries.
StaleListenersAreSilent == Quiet => <>[](alive /\ Open => status = "CONNECTED")

\* A destroyed service stays disconnected, unless one of its listeners was past
\* its check of the generation when onDestroy ran: that one posts a retry nobody
\* removes (onDestroy, close, current).
DestroyedStaysQuiet ==
  (~alive /\ ~late) => ~retry /\ socket = 0 /\ \A g \in Sockets : net[g] = "closing"

\* When all clips have been played the core no longer speaks: however clips,
\* drained queues, taps and losses of the connection are ordered on the main
\* thread, no clip's announcement comes after the last drained queue (onClip,
\* onQueueDrained).
CoreFallsSilent ==
  (screen /\ ~recording /\ posted = <<>> /\ calls = {} /\ queued = 0 /\ worker = "taking") =>
    core # "SPEAKING"

\* What ClipPlayer's worker says of its interruption, "release() was called - exit
\* quietly".  TLC refutes it (README, disagreements); no run checks it: the interrupt
\* may be caught inside a clip, which playBlocking takes for a bad one, and the
\* thread goes back to the queue for good.
WorkerEnds == ~alive ~> worker = "ended"
=============================================================================
