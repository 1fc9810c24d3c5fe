----------------------------- MODULE PhoneProofs -----------------------------
(***************************************************************************)
(* That a destroyed service of the Android app stays disconnected, for any *)
(* number of clips, losses, saves and screens.  The invariant is about     *)
(* generations: the only socket that is not closing is the current one,    *)
(* which has the current generation, and onDestroy takes a generation that *)
(* no socket has, so that no listener passes its check afterwards.         *)
(*                                                                         *)
(* And that the core falls silent: an announced clip that no drained queue *)
(* has followed yet is on its way to the queue, in it, or being played.    *)
(***************************************************************************)
EXTENDS Phone, SequenceTheorems, TLAPS

\* The sockets' generations were given out by connect().
NetOK ==
  /\ generation \in Nat
  /\ net = [g \in DOMAIN net |-> net[g]]
  /\ \A g \in DOMAIN net : g \in Nat /\ g <= generation

\* Every socket but the current one is closing.
OldOnesClose == \A g \in DOMAIN net : g # socket => net[g] = "closing"

\* A destroyed service that no listener was late for: nothing is pending that could
\* bring it back, and no socket has its generation.
AtRest ==
  (~alive /\ ~late) =>
    /\ ~retry /\ socket = 0 /\ calls = {}
    /\ \A g \in DOMAIN net : g < generation

\* No socket has the number that stands for none.
NoZero == 0 \notin DOMAIN net

QuietInv == NetOK /\ OldOnesClose /\ AtRest /\ NoZero

-----------------------------------------------------------------------------
LEMMA InitQuiet == Init => QuietInv
BY DEF Init, QuietInv, NetOK, OldOnesClose, AtRest, NoZero

\* close() leaves the sockets it knew, lost ones excepted, all of them closing.
LEMMA ClosedIsClosing ==
  ASSUME QuietInv
  PROVE  /\ DOMAIN Closed(net) \subseteq DOMAIN net
         /\ Closed(net) = [g \in DOMAIN Closed(net) |-> Closed(net)[g]]
         /\ \A g \in DOMAIN Closed(net) : Closed(net)[g] = "closing"
BY DEF QuietInv, NetOK, OldOnesClose, Closed

\* connect() is only run by a service that is alive or was destroyed too late for
\* one of its listeners.
LEMMA ConnectQuiet ==
  ASSUME QuietInv, Connect, alive \/ late
  PROVE  QuietInv'
<1> DEFINE closed == Closed(net)
<1>1. /\ DOMAIN closed \subseteq DOMAIN net
      /\ \A g \in DOMAIN closed : closed[g] = "closing"
  BY ClosedIsClosing
<1>2. generation' = generation + 2 /\ socket' = generation + 2 /\ generation \in Nat
  BY DEF Connect, NextGeneration, QuietInv, NetOK
<1>3. net' = [g \in DOMAIN closed \cup {socket'} |->
                IF g = socket' THEN "opening" ELSE closed[g]]
  BY DEF Connect
<1> HIDE DEF closed
<1>4. DOMAIN net' = DOMAIN closed \cup {socket'}
  BY <1>3
<1>5. NetOK' BY <1>1, <1>2, <1>3, <1>4 DEF QuietInv, NetOK
<1>6. OldOnesClose' BY <1>1, <1>3, <1>4 DEF OldOnesClose
<1>7. AtRest' BY DEF Connect, AtRest
<1>8. NoZero' BY <1>1, <1>2, <1>4 DEF QuietInv, NoZero
<1> QED BY <1>5, <1>6, <1>7, <1>8 DEF QuietInv

\* A step that leaves the connection alone.
LEMMA OtherStepsQuiet ==
  ASSUME QuietInv, UNCHANGED <<alive, generation, socket, net, late>>,
         calls' \subseteq calls, retry' = retry
  PROVE  QuietInv'
BY DEF QuietInv, NetOK, OldOnesClose, AtRest, NoZero

\* A call of a listener: after the destruction none gets past its check.
LEMMA CallsQuiet ==
  ASSUME QuietInv, NEW g \in DOMAIN net, NEW on, Calls(g, on), ~alive, ~late
  PROVE  calls' = {}
<1>1. g < generation /\ generation \in Nat /\ g \in Nat /\ calls = {}
  BY DEF QuietInv, AtRest, NetOK
<1>2. g # generation BY <1>1
<1> QED BY <1>1, <1>2 DEF Calls, Current

LEMMA NextQuiet == QuietInv /\ [Next]_vars => QuietInv'
<1> SUFFICES ASSUME QuietInv, [Next]_vars PROVE QuietInv'
  OBVIOUS
<1>1. CASE Retry
  <2>1. alive \/ late BY <1>1 DEF Retry, QuietInv, AtRest
  <2> QED BY <1>1, <2>1, ConnectQuiet DEF Retry
<1>2. CASE Destroy
  <2>1. /\ DOMAIN Closed(net) \subseteq DOMAIN net
        /\ Closed(net) = [g \in DOMAIN Closed(net) |-> Closed(net)[g]]
        /\ \A g \in DOMAIN Closed(net) : Closed(net)[g] = "closing"
    BY ClosedIsClosing
  <2>2. generation' = generation + 1 /\ socket' = 0 /\ net' = Closed(net) /\ generation \in Nat
        /\ retry' = FALSE /\ calls' = calls /\ late' = (calls # {})
    BY <1>2 DEF Destroy, NextGeneration, QuietInv, NetOK
  <2>3. NetOK' BY <2>1, <2>2 DEF QuietInv, NetOK
  <2>4. OldOnesClose' BY <2>1, <2>2 DEF OldOnesClose
  <2>5. AtRest'
    <3>1. \A g \in DOMAIN net' : g < generation'
      BY <2>1, <2>2 DEF QuietInv, NetOK
    <3>2. ~late' => calls' = {} BY <2>2
    <3> QED BY <2>2, <3>1, <3>2 DEF AtRest
  <2>6. NoZero' BY <2>1, <2>2 DEF QuietInv, NoZero
  <2> QED BY <2>3, <2>4, <2>5, <2>6 DEF QuietInv
<1>3. CASE ListenerStep
  <2>1. PICK c \in calls : OnOpen(c) \/ OnClip(c) \/ OnLost(c) \/ ScheduleReconnect(c)
    BY <1>3 DEF ListenerStep
  <2>2. UNCHANGED <<alive, generation, socket, net, late>>
    BY <2>1 DEF OnOpen, OnClip, OnLost, ScheduleReconnect
  <2>3. alive \/ late BY <2>1 DEF QuietInv, AtRest
  <2> QED BY <2>2, <2>3 DEF QuietInv, NetOK, OldOnesClose, AtRest, NoZero
<1>4. CASE WorkerStep
  <2>1. UNCHANGED link
    BY <1>4 DEF WorkerStep, Take, TakeInterrupted, ClipEnds, QueueDrained
  <2> QED BY <2>1, OtherStepsQuiet DEF link
<1>5. CASE RunPosted
  <2>1. UNCHANGED link BY <1>5 DEF RunPosted
  <2> QED BY <2>1, OtherStepsQuiet DEF link
<1>6. CASE User
  <2>1. CASE OpenScreen \/ CloseScreen \/ StartRecording \/ StopRecordingAndSend
    <3>1. UNCHANGED link
      BY <2>1 DEF OpenScreen, CloseScreen, StartRecording, StopRecordingAndSend
    <3> QED BY <3>1, OtherStepsQuiet DEF link
  <2>2. ASSUME NEW on \in BOOLEAN, SaveSettings(on) PROVE QuietInv'
    BY <2>2, ConnectQuiet DEF SaveSettings
  <2> QED BY <1>6, <2>1, <2>2 DEF User
<1>7. ASSUME NEW g \in Sockets, Opens(g) \/ Fails(g) PROVE QuietInv'
  <2>1. UNCHANGED <<alive, generation, socket, retry, late>>
    BY <1>7 DEF Opens, Fails
  <2>2. PICK state : net' = [net EXCEPT ![g] = state]
    BY <1>7 DEF Opens, Fails
  <2>3. g \in DOMAIN net /\ net[g] # "closing"
    BY <1>7 DEF Opens, Fails, Sockets
  <2>4. g = socket /\ g # 0 BY <2>3 DEF QuietInv, OldOnesClose, NoZero
  <2>5. alive \/ late BY <2>4 DEF QuietInv, AtRest
  <2> QED BY <2>1, <2>2, <2>4, <2>5 DEF QuietInv, NetOK, OldOnesClose, AtRest, NoZero
<1>8. ASSUME NEW g \in Sockets, Message(g) PROVE QuietInv'
  <2>1. UNCHANGED <<alive, generation, socket, net, retry, late>> BY <1>8 DEF Message
  <2>2. ~alive /\ ~late => calls' = {}
    BY <1>8, CallsQuiet DEF Message, Sockets
  <2> QED BY <2>1, <2>2 DEF QuietInv, NetOK, OldOnesClose, AtRest, NoZero
<1>9. ASSUME NEW g \in Sockets, Finishes(g) PROVE QuietInv'
  <2>1. UNCHANGED <<alive, generation, socket, retry, late>> BY <1>9 DEF Finishes
  <2>2. net' = [h \in DOMAIN net \ {g} |-> net[h]] BY <1>9 DEF Finishes, Sockets
  <2>3. ~alive /\ ~late => calls' = {}
    BY <1>9, CallsQuiet DEF Finishes, Sockets
  <2> QED BY <2>1, <2>2, <2>3 DEF QuietInv, NetOK, OldOnesClose, AtRest, NoZero
<1>10. CASE UNCHANGED vars
  <2>1. UNCHANGED link BY <1>10 DEF vars
  <2> QED BY <2>1, OtherStepsQuiet DEF link
<1> QED BY <1>1, <1>2, <1>3, <1>4, <1>5, <1>6, <1>7, <1>8, <1>9, <1>10 DEF Next

\* A destroyed service stays disconnected unless a listener was past its check when
\* onDestroy ran, for any number of connections before it (NalaService.onDestroy,
\* NalaSocket.close and the generation it takes).
THEOREM DestroyedIsQuiet == Spec => []DestroyedStaysQuiet
<1>1. QuietInv => DestroyedStaysQuiet
  BY DEF QuietInv, AtRest, OldOnesClose, NoZero, DestroyedStaysQuiet, Sockets
<1> QED BY InitQuiet, NextQuiet, <1>1, PTL DEF Spec

-----------------------------------------------------------------------------
Messages == {"CONNECTED", "DISCONNECTED", "clip", "drained"}

HasDrain(s) == \E i \in 1..Len(s) : s[i] = "drained"

\* A clip is announced in s, and no drained queue after it.
Unanswered(s) ==
  \E i \in 1..Len(s) : s[i] = "clip" /\ \A j \in 1..Len(s) : j > i => s[j] # "drained"

\* The playback thread has yet to find its queue empty.
Busy ==
  \/ queued > 0 \/ worker \in {"playing", "drained"}
  \/ \E c \in calls : c.on = "onMessage" /\ c.at = "then"

SpeakingOn == core = "SPEAKING" /\ ~recording /\ ~HasDrain(posted)

PostsOK == posted \in Seq(Messages) /\ queued \in Nat

DrainComes == (screen /\ (Unanswered(posted) \/ SpeakingOn)) => Busy

\* Nothing is posted to a screen that is not there.
OnlyToScreen == screen \/ posted = <<>>

CoreInv == PostsOK /\ DrainComes /\ OnlyToScreen

-----------------------------------------------------------------------------
\* A message is posted: a clip is unanswered, a drained queue answers every clip,
\* and a change of the connection's status changes nothing.
LEMMA PostedClip ==
  ASSUME NEW s \in Seq(Messages), NEW m \in Messages, m \notin {"clip", "drained"}
  PROVE  /\ Append(s, m) \in Seq(Messages)
         /\ Unanswered(Append(s, m)) => Unanswered(s)
         /\ HasDrain(s) => HasDrain(Append(s, m))
<1>1. /\ Append(s, m) \in Seq(Messages) /\ Len(Append(s, m)) = Len(s) + 1 /\ Len(s) \in Nat
      /\ \A i \in 1..Len(s) : Append(s, m)[i] = s[i]
      /\ Append(s, m)[Len(s) + 1] = m
  BY AppendProperties, LenProperties
<1> DEFINE t == Append(s, m)
<1> HIDE DEF t
<1>2. HasDrain(s) => HasDrain(t)
  BY <1>1 DEF HasDrain, t
<1>3. ASSUME Unanswered(t) PROVE Unanswered(s)
  <2>1. PICK i \in 1..Len(t) : t[i] = "clip" /\ \A j \in 1..Len(t) : j > i => t[j] # "drained"
    BY <1>3 DEF Unanswered
  <2>2. i \in 1..Len(s) BY <1>1, <2>1 DEF t
  <2>3. s[i] = "clip" /\ \A j \in 1..Len(s) : j > i => s[j] # "drained"
    BY <1>1, <2>1, <2>2 DEF t
  <2> QED BY <2>2, <2>3 DEF Unanswered
<1> QED BY <1>1, <1>2, <1>3 DEF t

LEMMA PostedDrain ==
  ASSUME NEW s \in Seq(Messages)
  PROVE  /\ Append(s, "drained") \in Seq(Messages)
         /\ ~Unanswered(Append(s, "drained")) /\ HasDrain(Append(s, "drained"))
<1> DEFINE t == Append(s, "drained")
<1>1. t \in Seq(Messages) /\ Len(t) = Len(s) + 1 /\ Len(s) \in Nat /\ t[Len(s) + 1] = "drained"
  BY AppendProperties, LenProperties DEF Messages
<1> HIDE DEF t
<1>2. Len(t) \in 1..Len(t) /\ t[Len(t)] = "drained" BY <1>1
<1>3. HasDrain(t) BY <1>2 DEF HasDrain
<1>4. ASSUME NEW i \in 1..Len(t), t[i] = "clip" PROVE \E j \in 1..Len(t) : j > i /\ t[j] = "drained"
  <2>1. i # Len(t) BY <1>2, <1>4
  <2>2. Len(t) > i BY <1>1, <2>1
  <2> QED BY <1>2, <2>2
<1>5. ~Unanswered(t) BY <1>4 DEF Unanswered
<1> QED BY <1>1, <1>3, <1>5 DEF t

\* A posted message runs: what is left was already behind it.
LEMMA RunFirst ==
  ASSUME NEW s \in Seq(Messages), s # <<>>
  PROVE  /\ Head(s) \in Messages /\ Tail(s) \in Seq(Messages)
         /\ Unanswered(Tail(s)) => Unanswered(s)
         /\ Head(s) # "drained" /\ HasDrain(s) => HasDrain(Tail(s))
         /\ Head(s) = "clip" /\ ~HasDrain(Tail(s)) => Unanswered(s)
<1> DEFINE t == Tail(s)
<1>1. /\ Head(s) \in Messages /\ t \in Seq(Messages) /\ Len(s) \in Nat /\ Len(s) > 0
      /\ Len(t) = Len(s) - 1 /\ Head(s) = s[1]
      /\ \A i \in 1..Len(t) : t[i] = s[i + 1]
  BY HeadTailProperties, LenProperties, EmptySeq
<1> HIDE DEF t
<1>2. ASSUME Unanswered(t) PROVE Unanswered(s)
  <2>1. PICK i \in 1..Len(t) : t[i] = "clip" /\ \A j \in 1..Len(t) : j > i => t[j] # "drained"
    BY <1>2 DEF Unanswered
  <2>2. i + 1 \in 1..Len(s) /\ s[i + 1] = "clip" BY <1>1, <2>1
  <2>3. ASSUME NEW j \in 1..Len(s), j > i + 1 PROVE s[j] # "drained"
    <3>1. j - 1 \in 1..Len(t) /\ j - 1 > i /\ s[j] = t[j - 1] BY <1>1, <2>1, <2>3
    <3> QED BY <2>1, <3>1
  <2> QED BY <2>2, <2>3 DEF Unanswered
<1>3. ASSUME Head(s) # "drained", HasDrain(s) PROVE HasDrain(t)
  <2>1. PICK i \in 1..Len(s) : s[i] = "drained" BY <1>3 DEF HasDrain
  <2>2. i # 1 BY <1>1, <1>3, <2>1
  <2>3. i - 1 \in 1..Len(t) /\ t[i - 1] = "drained" BY <1>1, <2>1, <2>2
  <2> QED BY <2>3 DEF HasDrain
<1>4. ASSUME Head(s) = "clip", ~HasDrain(t) PROVE Unanswered(s)
  <2>1. 1 \in 1..Len(s) /\ s[1] = "clip" BY <1>1, <1>4
  <2>2. ASSUME NEW j \in 1..Len(s), j > 1 PROVE s[j] # "drained"
    <3>1. j - 1 \in 1..Len(t) /\ s[j] = t[j - 1] BY <1>1, <2>2
    <3> QED BY <1>4, <3>1 DEF HasDrain
  <2> QED BY <2>1, <2>2 DEF Unanswered
<1> QED BY <1>1, <1>2, <1>3, <1>4 DEF t

LEMMA NothingPosted == ~Unanswered(<<>>) /\ ~HasDrain(<<>>)
BY DEF Unanswered, HasDrain

-----------------------------------------------------------------------------
LEMMA InitCore == Init => CoreInv
BY NothingPosted DEF Init, CoreInv, PostsOK, DrainComes, OnlyToScreen, SpeakingOn

\* A step that leaves the playback and the screen alone, and no clip behind that was
\* announced and not queued.
LEMMA LinkStepsCore ==
  ASSUME CoreInv, UNCHANGED <<queued, worker, ui>>,
         \A c \in calls : c.on = "onMessage" /\ c.at = "then" => c \in calls'
  PROVE  CoreInv'
<1>1. Busy => Busy' BY DEF Busy
<1> QED BY <1>1 DEF CoreInv, PostsOK, DrainComes, OnlyToScreen, SpeakingOn, ui

\* A listener about the connection posts its status.
LEMMA StatusCore ==
  ASSUME CoreInv, NEW m \in {"CONNECTED", "DISCONNECTED"}, posted' = Posts(m),
         UNCHANGED <<queued, worker, screen, core, recording>>,
         \A c \in calls : c.on = "onMessage" /\ c.at = "then" => c \in calls'
  PROVE  CoreInv'
<1>1. Busy => Busy' BY DEF Busy
<1>2. posted' = posted \/ posted' = Append(posted, m) BY DEF Posts
<1>3. posted' \in Seq(Messages) /\ (Unanswered(posted') => Unanswered(posted))
        /\ (HasDrain(posted) => HasDrain(posted'))
  BY <1>2, PostedClip DEF CoreInv, PostsOK, Messages
<1>4. OnlyToScreen' BY DEF CoreInv, OnlyToScreen, Posts
<1>5. DrainComes' BY <1>1, <1>3 DEF CoreInv, DrainComes, SpeakingOn
<1> QED BY <1>3, <1>4, <1>5 DEF CoreInv, PostsOK

LEMMA ListenersCore ==
  ASSUME CoreInv, ListenerStep
  PROVE  CoreInv'
<1>1. PICK c \in calls : OnOpen(c) \/ OnClip(c) \/ OnLost(c) \/ ScheduleReconnect(c)
  BY DEF ListenerStep
<1>2. CASE OnOpen(c)
  BY <1>2, StatusCore DEF OnOpen, Done, player
<1>3. CASE OnLost(c)
  BY <1>3, StatusCore DEF OnLost, Proceed, player
<1>4. CASE ScheduleReconnect(c)
  BY <1>4, LinkStepsCore DEF ScheduleReconnect, Done, player
<1>5. CASE OnClip(c) /\ c.at = "run"
  <2>1. calls' = (calls \ {c}) \cup {Call(c.gen, c.on, "then")} /\ c.on = "onMessage"
        /\ queued' = queued /\ posted' = Posts("clip")
    BY <1>5 DEF OnClip, Proceed, ClipHalf, AnnounceFirst
  <2> DEFINE d == Call(c.gen, c.on, "then")
  <2>2. d \in calls' /\ d.on = "onMessage" /\ d.at = "then" BY <2>1 DEF Call
  <2> HIDE DEF d
  <2>3. Busy' BY <2>2 DEF Busy
  <2>4. posted' \in Seq(Messages)
    BY <2>1, AppendProperties DEF Posts, CoreInv, PostsOK, Messages
  <2>5. OnlyToScreen' BY <1>5, <2>1 DEF CoreInv, OnlyToScreen, Posts, OnClip
  <2>6. DrainComes' BY <2>3 DEF DrainComes
  <2> QED BY <2>1, <2>4, <2>5, <2>6 DEF CoreInv, PostsOK
<1>6. CASE OnClip(c) /\ c.at = "then"
  <2>1. queued' = queued + 1 /\ posted' = posted
    BY <1>6 DEF OnClip, ClipHalf, AnnounceFirst
  <2>2. queued' \in Nat /\ queued' > 0 BY <2>1 DEF CoreInv, PostsOK
  <2>3. OnlyToScreen' BY <1>6, <2>1 DEF CoreInv, OnlyToScreen, OnClip
  <2>4. DrainComes' BY <2>2 DEF DrainComes, Busy
  <2> QED BY <2>1, <2>2, <2>3, <2>4 DEF CoreInv, PostsOK
<1> QED BY <1>1, <1>2, <1>3, <1>4, <1>5, <1>6 DEF OnClip

LEMMA WorkerCore ==
  ASSUME CoreInv, WorkerStep
  PROVE  CoreInv'
<1>1. CASE Take \/ TakeInterrupted \/ ClipEnds
  <2>1. UNCHANGED <<posted, screen, core, recording, calls>> /\ queued' \in Nat
    BY <1>1 DEF Take, TakeInterrupted, ClipEnds, ui, link, CoreInv, PostsOK
  <2>2. Busy => Busy'
    BY <1>1, <2>1 DEF Take, TakeInterrupted, ClipEnds, Busy, CoreInv, PostsOK
  <2> QED BY <2>1, <2>2 DEF CoreInv, PostsOK, DrainComes, OnlyToScreen, SpeakingOn
<1>2. CASE QueueDrained
  <2>1. posted' = Posts("drained") /\ UNCHANGED <<queued, screen>>
    BY <1>2 DEF QueueDrained
  <2>2. CASE screen
    BY <2>1, <2>2, PostedDrain DEF Posts, CoreInv, PostsOK, DrainComes, OnlyToScreen, SpeakingOn
  <2>3. CASE ~screen
    BY <2>1, <2>3 DEF Posts, CoreInv, PostsOK, DrainComes, OnlyToScreen
  <2> QED BY <2>2, <2>3
<1> QED BY <1>1, <1>2 DEF WorkerStep

LEMMA RunPostedCore ==
  ASSUME CoreInv, RunPosted
  PROVE  CoreInv'
<1> DEFINE m == Head(posted)
<1>1. posted # <<>> /\ posted' = Tail(posted) /\ UNCHANGED <<queued, worker, calls, screen, recording>>
  BY DEF RunPosted, link, player
<1>2. /\ m \in Messages /\ posted' \in Seq(Messages)
      /\ Unanswered(posted') => Unanswered(posted)
      /\ m # "drained" /\ HasDrain(posted) => HasDrain(posted')
      /\ m = "clip" /\ ~HasDrain(posted') => Unanswered(posted)
  BY <1>1, RunFirst DEF CoreInv, PostsOK
<1>3. Busy' = Busy BY <1>1 DEF Busy
<1>4. \/ m = "clip"
      \/ m = "drained" /\ (recording \/ core' = "silent")
      \/ m \notin {"clip", "drained"} /\ (core' = core \/ core' = "silent")
  BY DEF RunPosted, CoreAfterStatus
<1> HIDE DEF m
<1>5. SpeakingOn' => Unanswered(posted) \/ SpeakingOn
  BY <1>1, <1>2, <1>4 DEF SpeakingOn
<1> QED BY <1>1, <1>2, <1>3, <1>5 DEF CoreInv, PostsOK, DrainComes, OnlyToScreen

LEMMA UserCore ==
  ASSUME CoreInv, User
  PROVE  CoreInv'
<1>1. CASE OpenScreen
  <2>1. posted = <<>> /\ UNCHANGED <<posted, queued>> /\ core' = "silent" /\ screen'
    BY <1>1 DEF OpenScreen, CoreInv, OnlyToScreen, player
  <2> QED BY <2>1, NothingPosted DEF CoreInv, PostsOK, DrainComes, OnlyToScreen, SpeakingOn
<1>2. CASE CloseScreen
  BY <1>2 DEF CloseScreen, player, CoreInv, PostsOK, DrainComes, OnlyToScreen
<1>3. CASE StartRecording \/ StopRecordingAndSend
  <2>1. UNCHANGED <<queued, worker, calls, screen, posted>> /\ core' = "silent"
    BY <1>3 DEF StartRecording, StopRecordingAndSend, link, player
  <2>2. Busy' = Busy BY <2>1 DEF Busy
  <2> QED BY <2>1, <2>2 DEF CoreInv, PostsOK, DrainComes, OnlyToScreen, SpeakingOn
<1>4. ASSUME NEW on \in BOOLEAN, SaveSettings(on) PROVE CoreInv'
  BY <1>4, LinkStepsCore DEF SaveSettings, player
<1> QED BY <1>1, <1>2, <1>3, <1>4 DEF User

LEMMA NextCore == CoreInv /\ [Next]_vars => CoreInv'
<1> SUFFICES ASSUME CoreInv, [Next]_vars PROVE CoreInv'
  OBVIOUS
<1>1. CASE Retry
  BY <1>1, LinkStepsCore DEF Retry, player
<1>2. CASE Destroy
  BY <1>2, LinkStepsCore DEF Destroy
<1>3. ASSUME NEW g \in Sockets, Opens(g) \/ Message(g) \/ Fails(g) \/ Finishes(g)
      PROVE  CoreInv'
  <2>1. UNCHANGED <<queued, worker, ui>> BY <1>3 DEF Opens, Message, Fails, Finishes, player
  <2>2. calls \subseteq calls' BY <1>3 DEF Opens, Message, Fails, Finishes, Calls
  <2> QED BY <2>1, <2>2, LinkStepsCore
<1>4. CASE UNCHANGED vars
  BY <1>4, LinkStepsCore DEF vars, player, link
<1> QED BY <1>1, <1>2, <1>3, <1>4, ListenersCore, WorkerCore, RunPostedCore, UserCore DEF Next

\* When all clips have been played the core no longer speaks, for any number of
\* clips, taps and losses of the connection (onClip, onQueueDrained, MainActivity).
THEOREM CoreIsSilent == Spec => []CoreFallsSilent
<1>1. CoreInv => CoreFallsSilent
  BY NothingPosted DEF CoreInv, PostsOK, DrainComes, OnlyToScreen, SpeakingOn, Busy, CoreFallsSilent
<1> QED BY InitCore, NextCore, <1>1, PTL DEF Spec
=============================================================================
