---------------------------- MODULE SpeechProofs -----------------------------
(***************************************************************************)
(* That speech is over when a recording starts and that the counter of     *)
(* pending speech is exact, for any limit on narration and utterances of   *)
(* any length.                                                             *)
(*                                                                         *)
(* The invariant says what each thread's position implies about the        *)
(* others: a flush is the last message of the queue while its answer is    *)
(* open, so that an answered flush leaves nothing behind (QueueOK,         *)
(* ThreadsOK); the player plays exactly while the worker waits for it, and *)
(* the sink is empty otherwise (PlayerOK); what is in the sink and what is *)
(* still to be fed to it was produced for this utterance (StreamOK); and   *)
(* how many messages there may be at each point of the main thread         *)
(* (CountOK).                                                              *)
(***************************************************************************)
EXTENDS Speech, FiniteSetTheorems, SequenceTheorems, TLAPS

Msgs == {"speak", "flush"}

\* The queue while the flush's answer is a: the flush, if it is still open, comes
\* last, and everything else is speech.
QueueOK(q, a) ==
  /\ q \in Seq(Msgs)
  /\ a = "open" => Len(q) > 0 /\ q[Len(q)] = "flush" /\ \A i \in 1..(Len(q) - 1) : q[i] = "speak"
  /\ a # "open" => \A i \in 1..Len(q) : q[i] = "speak"

\* The messages to be spoken in such a queue.
Speaks(q, a) == IF a = "open" THEN Len(q) - 1 ELSE Len(q)

\* The chunks of an utterance: n of audio, then errors.
PcmFirst(s, n) ==
  /\ s \in Seq({"pcm", "err"}) /\ n \in 0..Len(s)
  /\ \A i \in 1..Len(s) : s[i] = "pcm" <=> i <= n

-----------------------------------------------------------------------------
LEMMA CountSpeaks ==
  ASSUME NEW q, NEW a, QueueOK(q, a)
  PROVE  Count(q, "speak") = Speaks(q, a) /\ Speaks(q, a) \in Nat
<1>1. Len(q) \in Nat BY LenProperties DEF QueueOK
<1>2. CASE a = "open"
  <2> DEFINE k == Len(q) - 1
  <2>1. k \in Nat /\ Len(q) = k + 1 /\ q[k + 1] # "speak" /\ \A i \in 1..k : q[i] = "speak"
    BY <1>1, <1>2 DEF QueueOK
  <2> HIDE DEF k
  <2>2. {i \in 1..(k + 1) : q[i] = "speak"} = 1..k
    <3>1. ASSUME NEW i \in 1..(k + 1), q[i] = "speak" PROVE i \in 1..k
      <4>1. i # k + 1 BY <2>1, <3>1
      <4> QED BY <2>1, <4>1
    <3>2. ASSUME NEW i \in 1..k PROVE i \in 1..(k + 1) /\ q[i] = "speak"
      BY <2>1
    <3> QED BY <3>1, <3>2
  <2>3. Cardinality(1..k) = k BY <2>1, FS_Interval
  <2> QED BY <1>2, <2>1, <2>2, <2>3 DEF Count, Speaks, k
<1>3. CASE a # "open"
  <2>1. {i \in 1..Len(q) : q[i] = "speak"} = 1..Len(q)
    BY <1>1, <1>3 DEF QueueOK
  <2>2. Cardinality(1..Len(q)) = Len(q)
    BY <1>1, FS_Interval
  <2> QED BY <1>1, <1>3, <2>1, <2>2 DEF Count, Speaks
<1> QED BY <1>2, <1>3

LEMMA CountPcm ==
  ASSUME NEW s, NEW n, PcmFirst(s, n)
  PROVE  Count(s, "pcm") = n
<1>1. Len(s) \in Nat /\ n \in Nat /\ n <= Len(s) BY LenProperties DEF PcmFirst
<1>2. {i \in 1..Len(s) : s[i] = "pcm"} = 1..n
  BY <1>1 DEF PcmFirst
<1>3. Cardinality(1..n) = n BY <1>1, FS_Interval
<1> QED BY <1>2, <1>3 DEF Count

\* enqueue's message, and flush's.
LEMMA AppendSpeak ==
  ASSUME NEW q, NEW a, QueueOK(q, a), a # "open"
  PROVE  QueueOK(Append(q, "speak"), a) /\ Speaks(Append(q, "speak"), a) = Speaks(q, a) + 1
BY AppendProperties, LenProperties DEF QueueOK, Speaks, Msgs

LEMMA AppendFlush ==
  ASSUME NEW q, NEW a, QueueOK(q, a), a # "open"
  PROVE  QueueOK(Append(q, "flush"), "open") /\ Speaks(Append(q, "flush"), "open") = Speaks(q, a)
BY AppendProperties, LenProperties DEF QueueOK, Speaks, Msgs

\* The worker takes speech, or the flush, which is then alone in the queue.
LEMMA TakeSpeak ==
  ASSUME NEW q, NEW a, QueueOK(q, a), q # <<>>, Head(q) = "speak"
  PROVE  QueueOK(Tail(q), a) /\ Speaks(Tail(q), a) = Speaks(q, a) - 1
<1>1. /\ Len(q) \in Nat /\ Len(q) > 0 /\ q[1] = "speak"
      /\ Tail(q) \in Seq(Msgs) /\ Len(Tail(q)) = Len(q) - 1
      /\ \A i \in 1..Len(Tail(q)) : Tail(q)[i] = q[i + 1]
  BY HeadTailProperties, LenProperties, EmptySeq DEF QueueOK
<1> DEFINE t == Tail(q)
<1>2. t \in Seq(Msgs) /\ Len(t) = Len(q) - 1 /\ \A i \in 1..Len(t) : t[i] = q[i + 1]
  BY <1>1
<1> HIDE DEF t
<1>3. CASE a = "open"
  <2>1. Len(q) # 1 BY <1>1, <1>3 DEF QueueOK
  <2>2. Len(t) > 0 /\ t[Len(t)] = "flush" BY <1>1, <1>2, <1>3, <2>1 DEF QueueOK
  <2>3. \A i \in 1..(Len(t) - 1) : t[i] = "speak" BY <1>1, <1>2, <1>3 DEF QueueOK
  <2> QED BY <1>1, <1>2, <1>3, <2>2, <2>3 DEF QueueOK, Speaks, t
<1>4. CASE a # "open"
  <2>1. \A i \in 1..Len(t) : t[i] = "speak" BY <1>1, <1>2, <1>4 DEF QueueOK
  <2> QED BY <1>1, <1>2, <1>4, <2>1 DEF QueueOK, Speaks, t
<1> QED BY <1>3, <1>4

LEMMA TakeFlush ==
  ASSUME NEW q, NEW a, QueueOK(q, a), q # <<>>, Head(q) = "flush"
  PROVE  a = "open" /\ Tail(q) = <<>> /\ Speaks(q, a) = 0
<1>1. /\ Len(q) \in Nat /\ Len(q) > 0 /\ q[1] = "flush"
      /\ Tail(q) \in Seq(Msgs) /\ Len(Tail(q)) = Len(q) - 1
  BY HeadTailProperties, LenProperties, EmptySeq DEF QueueOK
<1>2. a = "open" BY <1>1 DEF QueueOK
<1>3. Len(q) = 1 BY <1>1, <1>2 DEF QueueOK
<1>4. Tail(q) = <<>>
  <2>1. Len(Tail(q)) = 0 BY <1>1, <1>3
  <2> QED BY <1>1, <2>1, EmptySeq
<1> QED BY <1>2, <1>3, <1>4 DEF Speaks

LEMMA EmptyQueue ==
  ASSUME NEW a, a # "open"
  PROVE  QueueOK(<<>>, a) /\ Speaks(<<>>, a) = 0
BY DEF QueueOK, Speaks

\* The stream: audio is appended before any error, an error at any time, and
\* the player takes from the front.
LEMMA AppendPcm ==
  ASSUME NEW s, NEW n, PcmFirst(s, n), n = Len(s)
  PROVE  PcmFirst(Append(s, "pcm"), n + 1) /\ Len(Append(s, "pcm")) = n + 1
BY AppendProperties, LenProperties DEF PcmFirst

LEMMA AppendErr ==
  ASSUME NEW s, NEW n, PcmFirst(s, n)
  PROVE  PcmFirst(Append(s, "err"), n)
BY AppendProperties, LenProperties DEF PcmFirst

LEMMA TakePcm ==
  ASSUME NEW s, NEW n, PcmFirst(s, n), s # <<>>, Head(s) = "pcm"
  PROVE  PcmFirst(Tail(s), n - 1) /\ n > 0 /\ Len(Tail(s)) = Len(s) - 1
<1>1. /\ Len(s) \in Nat /\ Len(s) > 0 /\ s[1] = "pcm" /\ n \in 0..Len(s)
      /\ Tail(s) \in Seq({"pcm", "err"}) /\ Len(Tail(s)) = Len(s) - 1
      /\ \A i \in 1..Len(Tail(s)) : Tail(s)[i] = s[i + 1]
  BY HeadTailProperties, LenProperties, EmptySeq DEF PcmFirst
<1> DEFINE t == Tail(s)
<1>2. t \in Seq({"pcm", "err"}) /\ Len(t) = Len(s) - 1 /\ \A i \in 1..Len(t) : t[i] = s[i + 1]
  BY <1>1
<1> HIDE DEF t
<1>3. n > 0 BY <1>1 DEF PcmFirst
<1>4. ASSUME NEW i \in 1..Len(t) PROVE t[i] = "pcm" <=> i <= n - 1
  <2>1. i + 1 \in 1..Len(s) /\ t[i] = s[i + 1] BY <1>1, <1>2
  <2>2. s[i + 1] = "pcm" <=> i + 1 <= n BY <2>1 DEF PcmFirst
  <2> QED BY <1>1, <2>1, <2>2
<1>5. n - 1 \in 0..Len(t) BY <1>1, <1>2, <1>3
<1> QED BY <1>2, <1>3, <1>4, <1>5 DEF PcmFirst, t

-----------------------------------------------------------------------------
Mains == {"select", "connect", "prompt", "recording", "turn", "add", "send", "undo",
          "flush", "wait", "ended"}

\* What waits to be spoken or is being spoken.
Room == Speaks(queue, ack) + Speaking

TypesOK ==
  /\ main \in Mains /\ text \in {"narration", "answer", "last"}
  /\ ack \in {"none", "open", "sent", "dropped"}
  /\ worker \in {"idle", "synth", "play", "waiting", "spoken", "dead"}
  /\ player \in {"idle", "opening", "feeding", "draining", "gone"}
  /\ producer \in {"reading", "exiting", "ended"}
  /\ pending \in Nat /\ produced \in Nat /\ sink \in Nat

\* Which threads can be where at the same time: a flush that was answered, and every
\* place from where a recording can be reached, finds the queue empty and the
\* worker without an utterance.
ThreadsOK ==
  /\ QueueOK(queue, ack)
  /\ main = "wait" <=> ack # "none"
  /\ worker = "dead" => queue = <<>> /\ ack # "open"
  /\ ack \in {"sent", "dropped"} => queue = <<>> /\ worker \in {"idle", "dead"}
  /\ main \in {"select", "connect", "prompt", "recording"} =>
       queue = <<>> /\ worker \in {"idle", "dead"}
  /\ main = "undo" => worker = "dead"
  /\ text = "narration" => main \in {"turn", "add", "send", "undo"}

\* The player has an utterance exactly while the worker waits for it.
PlayerOK ==
  /\ player \in {"opening", "feeding", "draining"} <=> worker = "waiting"
  /\ worker # "waiting" => sink = 0

\* What the sink holds and what is still to be fed was produced for this utterance.
StreamOK ==
  \E n \in Nat : /\ PcmFirst(chunks, n) /\ sink + n <= produced
                 /\ producer = "reading" => n = Len(chunks)

\* The counter, and the room there is at each point of the main thread.
CountOK ==
  /\ pending >= Room + Unsent
  /\ worker # "dead" => pending = Room + Unsent
  /\ Room <= MaxQueuedNarration + 1
  /\ main \in {"turn", "add", "send"} => Room <= MaxQueuedNarration
  /\ main \in {"add", "send"} /\ text = "narration" => Room < MaxQueuedNarration

SpeechInv == TypesOK /\ ThreadsOK /\ PlayerOK /\ StreamOK /\ CountOK

-----------------------------------------------------------------------------
LEMMA RoomIsNat == SpeechInv => Room \in Nat /\ Speaks(queue, ack) \in Nat
BY CountSpeaks DEF SpeechInv, ThreadsOK, Room, Speaking

LEMMA NoRoomUsed ==
  ASSUME SpeechInv, queue = <<>>, worker \in {"idle", "dead"}, ack # "open"
  PROVE  Room = 0
BY EmptyQueue DEF Room, Speaking

LEMMA InitSpeech == Init => SpeechInv
<1> SUFFICES ASSUME Init PROVE SpeechInv
  OBVIOUS
<1>1. TypesOK BY DEF Init, TypesOK, Mains
<1>2. ThreadsOK BY EmptyQueue DEF Init, ThreadsOK
<1>3. PlayerOK BY DEF Init, PlayerOK
<1>4. PcmFirst(<<>>, 0) BY DEF PcmFirst
<1>5. StreamOK BY <1>4 DEF Init, StreamOK
<1>6. Room = 0 /\ Unsent = 0 BY EmptyQueue DEF Init, Room, Speaking, Unsent
<1>7. CountOK BY <1>6, SpeechAssumption DEF Init, CountOK
<1> QED BY <1>1, <1>2, <1>3, <1>5, <1>7 DEF SpeechInv

\* Steps of the main thread between its uses of the queue.
LEMMA MainSteps ==
  ASSUME SpeechInv,
         \/ \E b \in {"off", "sapi"} : Select(b)
         \/ SelectStream \/ SpawnServer \/ ConnectFails \/ Connected
         \/ Record \/ Recorded \/ TurnEnds \/ Leave
         \/ \E key \in Keys : Emit(key)
  PROVE  SpeechInv'
<1>1. UNCHANGED <<async, chunks, producer, produced, sink>>
  BY DEF Select, SelectStream, SpawnServer, ConnectFails, Connected, Record, Recorded, TurnEnds,
         Leave, Emit, audio
<1>2. /\ TypesOK' /\ (player' = player \/ (player' = "idle" /\ main = "select"))
  BY <1>1 DEF Select, SelectStream, SpawnServer, ConnectFails, Connected, Record, Recorded, TurnEnds,
         Leave, Emit, audio, async, loop, SpeechInv, TypesOK, Mains
<1>3. \/ main' = main /\ text' = text
      \/ main = "select" /\ main' = "connect" /\ text' = text
      \/ main = "connect" /\ main' \in {"ended", "add", "prompt"} /\ text' = text
      \/ main = "prompt" /\ main' = "recording" /\ text' = text
      \/ main = "recording" /\ main' \in {"prompt", "turn"} /\ text' = text
      \/ main = "turn" /\ main' = "add" /\ text' = "answer"
      \/ main = "prompt" /\ main' = "flush" /\ text' = "last"
      \/ main = "turn" /\ main' = "turn" /\ text' = "narration"
      \/ main = "turn" /\ main' = "add" /\ text' = "narration" /\ pending < MaxQueuedNarration
  BY DEF Select, SelectStream, SpawnServer, ConnectFails, Connected, Record, Recorded, TurnEnds,
         Leave, Emit, RoomForNarration, loop
<1>4. ThreadsOK' BY <1>1, <1>3 DEF async, SpeechInv, ThreadsOK
<1>5. PlayerOK' BY <1>1, <1>2 DEF async, SpeechInv, PlayerOK, ThreadsOK
<1>6. StreamOK' BY <1>1 DEF SpeechInv, StreamOK
<1>7. Room' = Room BY <1>1 DEF async, Room, Speaking
<1>8. Unsent' = Unsent BY <1>3 DEF Unsent
<1>9. main \in {"connect", "recording"} => Room = 0
  BY NoRoomUsed DEF SpeechInv, ThreadsOK, TypesOK
<1>10. CountOK'
  <2>1. Room \in Nat /\ MaxQueuedNarration \in Nat /\ pending \in Nat /\ Unsent \in Nat
    BY RoomIsNat, SpeechAssumption DEF SpeechInv, TypesOK, Unsent
  <2>2. text = "narration" => main \in {"turn", "add", "send", "undo"} BY DEF SpeechInv, ThreadsOK
  <2>3. CountOK BY DEF SpeechInv
  <2> QED BY <1>1, <1>3, <1>7, <1>8, <1>9, <2>1, <2>2, <2>3 DEF async, CountOK
<1> QED BY <1>2, <1>4, <1>5, <1>6, <1>10 DEF SpeechInv

\* enqueue and flush.
LEMMA EnqueueSteps ==
  ASSUME SpeechInv, Add \/ Send \/ Undo
  PROVE  SpeechInv'
<1>0. /\ Room \in Nat /\ MaxQueuedNarration \in Nat /\ pending \in Nat
      /\ text = "narration" => main \in {"turn", "add", "send", "undo"}
      /\ CountOK /\ QueueOK(queue, ack) /\ UNCHANGED audio
  BY RoomIsNat, SpeechAssumption DEF SpeechInv, TypesOK, ThreadsOK, Add, Send, Undo
<1>1. CASE Add
  <2>1. main = "add" /\ main' = "send" /\ pending' = pending + 1
        /\ UNCHANGED <<text, queue, ack, worker>>
    BY <1>1 DEF Add, At, After, EnqueueOrder
  <2>2. Room' = Room /\ Unsent = 0 /\ Unsent' = 1 BY <2>1 DEF Room, Speaking, Unsent
  <2>3. CountOK' BY <1>0, <2>1, <2>2 DEF CountOK
  <2>4. TypesOK' BY <1>0, <2>1 DEF SpeechInv, TypesOK, Mains, audio
  <2>5. ThreadsOK' BY <2>1 DEF SpeechInv, ThreadsOK
  <2>6. PlayerOK' /\ StreamOK' BY <1>0, <2>1 DEF SpeechInv, PlayerOK, StreamOK, audio
  <2> QED BY <2>3, <2>4, <2>5, <2>6 DEF SpeechInv
<1>2. CASE Send /\ worker # "dead"
  <2>1. main = "send" /\ main' = AfterEnqueue /\ queue' = Append(queue, "speak")
        /\ UNCHANGED <<text, pending, ack, worker>>
    BY <1>2 DEF Send, At, After, EnqueueOrder
  <2>2. ack = "none" BY <2>1 DEF SpeechInv, ThreadsOK, TypesOK
  <2>3. QueueOK(queue', ack') /\ Speaks(queue', ack') = Speaks(queue, ack) + 1
    BY <1>0, <2>1, <2>2, AppendSpeak
  <2>4. Room' = Room + 1 /\ Unsent = 1 /\ Unsent' = 0
    BY <2>1, <2>3, CountSpeaks, <1>0 DEF Room, Speaking, Unsent, AfterEnqueue
  <2>5. CountOK' BY <1>0, <1>2, <2>1, <2>4 DEF CountOK, AfterEnqueue
  <2>6. TypesOK' BY <1>0, <2>1 DEF SpeechInv, TypesOK, Mains, audio, AfterEnqueue
  <2>7. ThreadsOK' BY <1>2, <2>1, <2>2, <2>3 DEF SpeechInv, ThreadsOK, AfterEnqueue
  <2>8. PlayerOK' /\ StreamOK' BY <1>0, <2>1 DEF SpeechInv, PlayerOK, StreamOK, audio
  <2> QED BY <2>5, <2>6, <2>7, <2>8 DEF SpeechInv
<1>3. CASE Send /\ worker = "dead"
  <2>1. main = "send" /\ main' = "undo" /\ UNCHANGED <<text, pending, queue, ack, worker>>
    BY <1>3 DEF Send, At, EnqueueOrder
  <2>2. Room' = Room /\ Unsent' = Unsent BY <2>1 DEF Room, Speaking, Unsent
  <2>3. CountOK' BY <1>0, <2>1, <2>2 DEF CountOK
  <2>4. TypesOK' BY <1>0, <2>1 DEF SpeechInv, TypesOK, Mains, audio
  <2>5. ThreadsOK' BY <1>3, <2>1 DEF SpeechInv, ThreadsOK
  <2>6. PlayerOK' /\ StreamOK' BY <1>0, <2>1 DEF SpeechInv, PlayerOK, StreamOK, audio
  <2> QED BY <2>3, <2>4, <2>5, <2>6 DEF SpeechInv
<1>4. CASE Undo
  <2>1. main = "undo" /\ main' = AfterEnqueue /\ pending' = pending - 1
        /\ UNCHANGED <<text, queue, ack, worker>>
    BY <1>4 DEF Undo
  <2>2. worker = "dead" /\ ack = "none" /\ queue = <<>>
    BY <2>1 DEF SpeechInv, ThreadsOK, TypesOK
  <2>3. Room = 0 BY <2>2, NoRoomUsed
  <2>4. Room' = Room /\ Unsent = 1 /\ Unsent' = 0
    BY <2>1 DEF Room, Speaking, Unsent, AfterEnqueue
  <2>5. CountOK' /\ pending' \in Nat BY <1>0, <2>1, <2>2, <2>3, <2>4 DEF CountOK, AfterEnqueue
  <2>6. TypesOK' BY <1>0, <2>1, <2>5 DEF SpeechInv, TypesOK, Mains, audio, AfterEnqueue
  <2>7. ThreadsOK' BY <2>1, <2>2 DEF SpeechInv, ThreadsOK, AfterEnqueue
  <2>8. PlayerOK' /\ StreamOK' BY <1>0, <2>1 DEF SpeechInv, PlayerOK, StreamOK, audio
  <2> QED BY <2>5, <2>6, <2>7, <2>8 DEF SpeechInv
<1> QED BY <1>1, <1>2, <1>3, <1>4

LEMMA FlushSteps ==
  ASSUME SpeechInv, Flush \/ FlushReturns
  PROVE  SpeechInv'
<1>0. /\ Room \in Nat /\ MaxQueuedNarration \in Nat /\ pending \in Nat
      /\ CountOK /\ QueueOK(queue, ack) /\ UNCHANGED <<text, pending, worker, audio>>
  BY RoomIsNat, SpeechAssumption DEF SpeechInv, TypesOK, ThreadsOK, Flush, FlushReturns
<1>1. PlayerOK' /\ StreamOK' BY <1>0 DEF SpeechInv, PlayerOK, StreamOK, audio
<1>2. CASE Flush /\ worker # "dead"
  <2>1. main = "flush" /\ main' = "wait" /\ queue' = Append(queue, "flush") /\ ack' = "open"
    BY <1>2 DEF Flush
  <2>2. ack = "none" /\ text # "narration" BY <2>1 DEF SpeechInv, ThreadsOK, TypesOK
  <2>3. QueueOK(queue', ack') /\ Speaks(queue', ack') = Speaks(queue, ack)
    BY <1>0, <2>1, <2>2, AppendFlush
  <2>4. Room' = Room /\ Unsent' = Unsent BY <1>0, <2>1, <2>3 DEF Room, Speaking, Unsent
  <2>5. CountOK' BY <1>0, <2>1, <2>4 DEF CountOK
  <2>6. TypesOK' BY <1>0, <2>1 DEF SpeechInv, TypesOK, Mains, audio
  <2>7. ThreadsOK' BY <1>0, <1>2, <2>1, <2>2, <2>3 DEF SpeechInv, ThreadsOK
  <2> QED BY <1>1, <2>5, <2>6, <2>7 DEF SpeechInv
<1>3. CASE \/ Flush /\ worker = "dead"
           \/ FlushReturns
  <2>1. main \in {"flush", "wait"} /\ main' \in {"ended", "prompt"} /\ queue' = queue
        /\ (ack' = ack \/ ack' = "none") /\ (main = "wait" => ack' = "none")
    BY <1>3 DEF Flush, FlushReturns, AfterFlush
  <2>2. queue = <<>> /\ worker \in {"idle", "dead"} /\ ack # "open" /\ text # "narration"
    BY <1>3, <2>1 DEF Flush, FlushReturns, SpeechInv, ThreadsOK, TypesOK
  <2>3. ack' # "open" /\ ack' = "none" BY <2>1, <2>2 DEF SpeechInv, ThreadsOK
  <2>4. Room = 0 /\ Room' = 0
    <3>1. Room = 0 BY <2>2, NoRoomUsed
    <3>2. Speaks(queue', ack') = 0 BY <2>1, <2>2, <2>3, EmptyQueue
    <3>3. Speaking' = 0 BY <1>0, <2>2 DEF Speaking
    <3> QED BY <3>1, <3>2, <3>3 DEF Room
  <2>5. Unsent = 0 /\ Unsent' = 0 BY <2>1 DEF Unsent
  <2>6. CountOK' BY <1>0, <2>1, <2>4, <2>5 DEF CountOK
  <2>7. TypesOK' BY <1>0, <2>1, <2>3 DEF SpeechInv, TypesOK, Mains, audio
  <2>8. QueueOK(queue', ack') BY <2>1, <2>2, <2>3, EmptyQueue
  <2>9. ThreadsOK' BY <1>0, <2>1, <2>2, <2>3, <2>8 DEF ThreadsOK
  <2> QED BY <1>1, <2>6, <2>7, <2>9 DEF SpeechInv
<1> QED BY <1>2, <1>3

\* The worker takes a message.
LEMMA TakeSteps ==
  ASSUME SpeechInv, WorkerTakes
  PROVE  SpeechInv'
<1>0. /\ Room \in Nat /\ MaxQueuedNarration \in Nat /\ pending \in Nat
      /\ CountOK /\ QueueOK(queue, ack) /\ UNCHANGED <<main, text, pending, audio>>
      /\ worker = "idle" /\ queue # <<>> /\ queue' = Tail(queue)
  BY RoomIsNat, SpeechAssumption DEF SpeechInv, TypesOK, ThreadsOK, WorkerTakes, loop
<1>1. ack \in {"none", "open"} /\ main \notin {"select", "connect", "prompt", "recording", "undo"}
  BY <1>0 DEF SpeechInv, ThreadsOK, TypesOK
<1>2. CASE Head(queue) = "speak"
  <2>1. worker' = "synth" /\ ack' = ack BY <1>2 DEF WorkerTakes
  <2>2. QueueOK(queue', ack') /\ Speaks(queue', ack') = Speaks(queue, ack) - 1
    BY <1>0, <1>2, <2>1, TakeSpeak
  <2>3. Speaks(queue, ack) \in Nat BY <1>0, CountSpeaks
  <2>4. Room' = Room /\ Unsent' = Unsent BY <1>0, <2>1, <2>2, <2>3 DEF Room, Speaking, Unsent
  <2>5. CountOK' BY <1>0, <2>1, <2>4 DEF CountOK
  <2>6. TypesOK' BY <1>0, <2>1 DEF SpeechInv, TypesOK, audio
  <2>7. ThreadsOK' BY <1>0, <1>1, <2>1, <2>2 DEF SpeechInv, ThreadsOK
  <2>8. PlayerOK' /\ StreamOK' BY <1>0, <2>1 DEF SpeechInv, PlayerOK, StreamOK, audio
  <2> QED BY <2>5, <2>6, <2>7, <2>8 DEF SpeechInv
<1>3. CASE Head(queue) = "flush"
  <2>1. worker' = worker /\ ack' = "sent" BY <1>3 DEF WorkerTakes
  <2>2. ack = "open" /\ queue' = <<>> /\ Speaks(queue, ack) = 0
    BY <1>0, <1>3, TakeFlush
  <2>3. QueueOK(queue', ack') /\ Speaks(queue', ack') = 0 BY <2>1, <2>2, EmptyQueue
  <2>4. Room' = Room /\ Unsent' = Unsent BY <1>0, <2>1, <2>2, <2>3 DEF Room, Speaking, Unsent
  <2>5. CountOK' BY <1>0, <2>1, <2>4 DEF CountOK
  <2>6. TypesOK' BY <1>0, <2>1 DEF SpeechInv, TypesOK, audio
  <2>7. ThreadsOK' BY <1>0, <1>1, <2>1, <2>2, <2>3 DEF SpeechInv, ThreadsOK
  <2>8. PlayerOK' /\ StreamOK' BY <1>0, <2>1 DEF SpeechInv, PlayerOK, StreamOK, audio
  <2> QED BY <2>5, <2>6, <2>7, <2>8 DEF SpeechInv
<1> QED BY <1>2, <1>3 DEF WorkerTakes

\* Steps by which the worker goes on with its utterance, or is done with it: they
\* keep the main thread and the queue.
LEMMA UtteranceGoesOn ==
  ASSUME SpeechInv, UNCHANGED <<main, text, pending, queue, ack>>,
         \/ worker' = worker
         \/ /\ worker \in {"synth", "play", "waiting"}
            /\ worker' \in {"play", "waiting", "spoken"}
  PROVE  ThreadsOK' /\ CountOK'
<1>1. Speaking' = Speaking BY DEF Speaking
<1>2. Room' = Room /\ Unsent' = Unsent BY <1>1 DEF Room, Unsent
<1>3. CountOK' BY <1>2 DEF SpeechInv, CountOK
<1>4. ThreadsOK' BY DEF SpeechInv, ThreadsOK
<1> QED BY <1>3, <1>4

LEMMA SpokenStep ==
  ASSUME SpeechInv, Spoken
  PROVE  SpeechInv'
<1>0. /\ Room \in Nat /\ MaxQueuedNarration \in Nat /\ pending \in Nat
      /\ CountOK /\ Speaks(queue, ack) \in Nat /\ Unsent \in Nat
      /\ UNCHANGED <<main, text, queue, ack, audio>>
      /\ worker = "spoken" /\ worker' = "idle" /\ pending' = pending - 1
  BY RoomIsNat, SpeechAssumption DEF SpeechInv, TypesOK, Spoken, loop, Unsent
<1>1. Room' = Room - 1 /\ Unsent' = Unsent /\ Room > 0 BY <1>0 DEF Room, Speaking, Unsent
<1>2. CountOK' /\ pending' \in Nat BY <1>0, <1>1 DEF CountOK
<1>3. TypesOK' BY <1>0, <1>2 DEF SpeechInv, TypesOK, audio
<1>4. ThreadsOK' BY <1>0 DEF SpeechInv, ThreadsOK
<1>5. PlayerOK' /\ StreamOK' BY <1>0 DEF SpeechInv, PlayerOK, StreamOK, audio
<1> QED BY <1>2, <1>3, <1>4, <1>5 DEF SpeechInv

LEMMA DieStep ==
  ASSUME SpeechInv, WorkerDies
  PROVE  SpeechInv'
<1>0. /\ Room \in Nat /\ MaxQueuedNarration \in Nat /\ pending \in Nat
      /\ CountOK /\ Unsent \in Nat
      /\ UNCHANGED <<main, text, pending, audio>>
      /\ worker = "synth" /\ worker' = "dead" /\ queue' = <<>>
      /\ ack' = IF ack = "open" THEN "dropped" ELSE ack
  BY RoomIsNat, SpeechAssumption DEF SpeechInv, TypesOK, WorkerDies, loop, Unsent
<1>1. ack' # "open" /\ ack' \in {"none", "sent", "dropped"} BY <1>0 DEF SpeechInv, TypesOK
<1>2. QueueOK(queue', ack') /\ Speaks(queue', ack') = 0 BY <1>0, <1>1, EmptyQueue
<1>3. Room' = 0 /\ Unsent' = Unsent /\ Room > 0
  BY <1>0, <1>2, RoomIsNat DEF Room, Speaking, Unsent
<1>4. CountOK' BY <1>0, <1>3 DEF CountOK
<1>5. TypesOK' BY <1>0, <1>1 DEF SpeechInv, TypesOK, audio
<1>6. ThreadsOK' BY <1>0, <1>1, <1>2 DEF SpeechInv, ThreadsOK
<1>7. PlayerOK' /\ StreamOK' BY <1>0 DEF SpeechInv, PlayerOK, StreamOK, audio
<1> QED BY <1>4, <1>5, <1>6, <1>7 DEF SpeechInv

-----------------------------------------------------------------------------
LEMMA EmptyStream == PcmFirst(<<>>, 0) /\ Len(<<>>) = 0
BY DEF PcmFirst

\* The stream is dropped, or a new one begins.
LEMMA StreamReset ==
  ASSUME SpeechInv, chunks' = <<>>, sink' = 0, produced' \in Nat
  PROVE  StreamOK'
BY EmptyStream DEF StreamOK

LEMMA WorkerUtterance ==
  ASSUME SpeechInv, SaysAtOnce \/ Synthesize \/ PlayStream
  PROVE  SpeechInv'
<1>0. /\ UNCHANGED <<main, text, pending, queue, ack, sink>> /\ worker \in {"synth", "play"}
      /\ worker' \in {"play", "waiting", "spoken"} /\ sink = 0
  BY DEF SaysAtOnce, Synthesize, PlayStream, loop, audio, SpeechInv, PlayerOK
<1>1. ThreadsOK' /\ CountOK' BY <1>0, UtteranceGoesOn
<1>2. CASE SaysAtOnce
  BY <1>0, <1>1, <1>2 DEF SaysAtOnce, audio, SpeechInv, TypesOK, PlayerOK, StreamOK
<1>3. CASE Synthesize
  <2>1. StreamOK' BY <1>0, <1>3, StreamReset DEF Synthesize
  <2>2. TypesOK' BY <1>0, <1>3 DEF Synthesize, SpeechInv, TypesOK
  <2>3. PlayerOK' BY <1>0, <1>3 DEF Synthesize, SpeechInv, PlayerOK
  <2> QED BY <1>1, <2>1, <2>2, <2>3 DEF SpeechInv
<1>4. CASE PlayStream
  <2>1. producer' \in {producer, "ended"} /\ UNCHANGED <<chunks, produced>>
    BY <1>4 DEF PlayStream
  <2>2. StreamOK' BY <1>0, <2>1 DEF SpeechInv, StreamOK
  <2>3. TypesOK' BY <1>0, <1>4 DEF PlayStream, SpeechInv, TypesOK
  <2>4. PlayerOK' BY <1>0, <1>4 DEF PlayStream, SpeechInv, PlayerOK
  <2> QED BY <1>1, <2>2, <2>3, <2>4 DEF SpeechInv
<1> QED BY <1>2, <1>3, <1>4

LEMMA ProducerSteps ==
  ASSUME SpeechInv, ProducerStep
  PROVE  SpeechInv'
<1>0. UNCHANGED <<main, text, pending, queue, ack, worker, player, sink>>
  BY DEF ProducerStep, Produce, EndOfStream, Exits, loop, async
<1>1. ThreadsOK' /\ CountOK' BY <1>0, UtteranceGoesOn
<1>2. PlayerOK' BY <1>0 DEF SpeechInv, PlayerOK
<1>3. TypesOK' BY <1>0 DEF ProducerStep, Produce, EndOfStream, Exits, SpeechInv, TypesOK
<1>4. PICK n \in Nat : /\ PcmFirst(chunks, n) /\ sink + n <= produced
                       /\ producer = "reading" => n = Len(chunks)
  BY DEF SpeechInv, StreamOK
<1>5. sink \in Nat /\ produced \in Nat BY DEF SpeechInv, TypesOK
<1>6. CASE Produce
  <2>1. chunks' = Append(chunks, "pcm") /\ produced' = produced + 1 /\ n = Len(chunks)
    BY <1>4, <1>6 DEF Produce
  <2>2. PcmFirst(chunks', n + 1) /\ Len(chunks') = n + 1 BY <1>4, <2>1, AppendPcm
  <2>3. n + 1 \in Nat /\ sink' + (n + 1) <= produced' BY <1>0, <1>4, <1>5, <2>1
  <2>4. StreamOK' BY <2>2, <2>3 DEF StreamOK
  <2> QED BY <1>1, <1>2, <1>3, <2>4 DEF SpeechInv
<1>7. CASE EndOfStream \/ Exits
  <2>1. producer' # "reading" /\ produced' = produced
        /\ (chunks' = chunks \/ chunks' = Append(chunks, "err"))
    BY <1>7 DEF EndOfStream, Exits
  <2>2. PcmFirst(chunks', n) BY <1>4, <2>1, AppendErr
  <2>3. StreamOK' BY <1>0, <1>4, <2>1, <2>2 DEF StreamOK
  <2> QED BY <1>1, <1>2, <1>3, <2>3 DEF SpeechInv
<1> QED BY <1>6, <1>7 DEF ProducerStep

\* The player is done with an utterance: the worker's wait ends.
LEMMA ReplySteps ==
  ASSUME SpeechInv, worker = "waiting", worker' = "spoken", player' \in {"idle", "gone"},
         UNCHANGED <<main, text, pending, queue, ack, produced>>,
         sink' = 0, StreamOK', producer' \in {producer, "ended"}
  PROVE  SpeechInv'
<1>1. ThreadsOK' /\ CountOK' BY UtteranceGoesOn
<1>2. TypesOK' BY DEF SpeechInv, TypesOK
<1>3. PlayerOK' BY DEF PlayerOK
<1> QED BY <1>1, <1>2, <1>3 DEF SpeechInv

LEMMA PlayerSteps ==
  ASSUME SpeechInv, PlayerStep \/ PlayerDies \/ DevicePlays
  PROVE  SpeechInv'
<1>0. worker = "waiting" /\ sink \in Nat /\ produced \in Nat
  BY DEF PlayerStep, OpenSink, Feed, AllArrived, PlayedToTheEnd, PlayerDies, DevicePlays,
         SpeechInv, PlayerOK, TypesOK
<1>1. PICK n \in Nat : /\ PcmFirst(chunks, n) /\ sink + n <= produced
                       /\ producer = "reading" => n = Len(chunks)
  BY DEF SpeechInv, StreamOK
<1>2. ASSUME Reply("idle") PROVE SpeechInv'
  <2>1. StreamOK' BY <1>0, <1>2, StreamReset DEF Reply
  <2> QED BY <1>0, <1>2, <2>1, ReplySteps DEF Reply, loop
<1>3. CASE OpenSink
  <2>1. CASE player' = "feeding" /\ UNCHANGED <<loop, async, chunks, producer, produced, sink>>
    <3>1. ThreadsOK' /\ CountOK' BY <2>1, UtteranceGoesOn DEF loop, async
    <3>2. TypesOK' /\ PlayerOK' /\ StreamOK'
      BY <1>0, <2>1 DEF loop, async, SpeechInv, TypesOK, PlayerOK, StreamOK
    <3> QED BY <3>1, <3>2 DEF SpeechInv
  <2> QED BY <1>2, <1>3, <2>1 DEF OpenSink
<1>4. CASE Feed
  <2>1. CASE Head(chunks) = "pcm" /\ chunks' = Tail(chunks) /\ sink' = sink + 1
             /\ UNCHANGED <<loop, async, player, producer, produced>>
    <3>1. PcmFirst(chunks', n - 1) /\ n > 0 /\ Len(chunks') = Len(chunks) - 1
      BY <1>1, <1>4, <2>1, TakePcm DEF Feed
    <3>2. n - 1 \in Nat /\ sink' + (n - 1) <= produced' BY <1>0, <1>1, <2>1, <3>1
    <3>3. producer' = "reading" => n - 1 = Len(chunks') BY <1>1, <2>1, <3>1
    <3>4. StreamOK' BY <3>1, <3>2, <3>3 DEF StreamOK
    <3>5. ThreadsOK' /\ CountOK' BY <2>1, UtteranceGoesOn DEF loop, async
    <3>6. TypesOK' /\ PlayerOK'
      BY <1>0, <2>1 DEF loop, async, SpeechInv, TypesOK, PlayerOK
    <3> QED BY <3>4, <3>5, <3>6 DEF SpeechInv
  <2> QED BY <1>2, <1>4, <2>1 DEF Feed
<1>5. CASE AllArrived
  <2>1. ThreadsOK' /\ CountOK' BY <1>5, UtteranceGoesOn DEF AllArrived, loop, async
  <2>2. TypesOK' /\ PlayerOK' /\ StreamOK'
    BY <1>0, <1>5 DEF AllArrived, loop, async, SpeechInv, TypesOK, PlayerOK, StreamOK
  <2> QED BY <2>1, <2>2 DEF SpeechInv
<1>6. CASE PlayedToTheEnd
  <2>1. UNCHANGED <<chunks, producer, produced, sink>> BY <1>6 DEF PlayedToTheEnd
  <2>2. StreamOK' BY <2>1 DEF SpeechInv, StreamOK
  <2> QED BY <1>0, <1>6, <2>2, ReplySteps DEF PlayedToTheEnd, SinkDrained, loop
<1>7. CASE PlayerDies
  <2>1. Count(chunks, "pcm") = n BY <1>1, CountPcm
  <2>2. sink = 0 BY <1>0, <1>1, <1>7, <2>1 DEF PlayerDies
  <2>3. StreamOK' BY <1>0, <1>7, <2>2, StreamReset DEF PlayerDies
  <2> QED BY <1>0, <1>7, <2>2, <2>3, ReplySteps DEF PlayerDies, NoReply, loop
<1>8. CASE DevicePlays
  <2>1. ThreadsOK' /\ CountOK' BY <1>8, UtteranceGoesOn DEF DevicePlays, loop, async
  <2>2. sink' \in Nat /\ sink' + n <= produced BY <1>0, <1>1, <1>8 DEF DevicePlays
  <2>3. StreamOK' BY <1>1, <1>8, <2>2 DEF DevicePlays, StreamOK
  <2>4. TypesOK' /\ PlayerOK'
    BY <1>0, <1>8, <2>2 DEF DevicePlays, loop, async, SpeechInv, TypesOK, PlayerOK
  <2> QED BY <2>1, <2>3, <2>4 DEF SpeechInv
<1> QED BY <1>3, <1>4, <1>5, <1>6, <1>7, <1>8 DEF PlayerStep

\* What becomes of the device concerns no thread.
LEMMA DeviceSteps ==
  ASSUME SpeechInv, DeviceFades \/ DeviceLost
  PROVE  SpeechInv'
<1>1. UNCHANGED <<loop, async, player, chunks, producer, produced, sink>>
  BY DEF DeviceFades, DeviceLost
<1>2. ThreadsOK' /\ CountOK' BY <1>1, UtteranceGoesOn DEF loop, async
<1>3. TypesOK' /\ PlayerOK' /\ StreamOK'
  BY <1>1 DEF loop, async, SpeechInv, TypesOK, PlayerOK, StreamOK
<1> QED BY <1>2, <1>3 DEF SpeechInv

-----------------------------------------------------------------------------
LEMMA NextSpeech == SpeechInv /\ [Next]_vars => SpeechInv'
<1> SUFFICES ASSUME SpeechInv, [Next]_vars PROVE SpeechInv'
  OBVIOUS
<1>1. CASE UNCHANGED vars
  BY <1>1 DEF vars, loop, async, audio, SpeechInv, TypesOK, ThreadsOK, PlayerOK, StreamOK,
              CountOK, Room, Speaking, Unsent
<1>2. CASE Next
  BY <1>2, MainSteps, EnqueueSteps, FlushSteps, TakeSteps, WorkerUtterance, SpokenStep,
     DieStep, ProducerSteps, PlayerSteps, DeviceSteps DEF Next, WorkerStep
<1> QED BY <1>1, <1>2

LEMMA SpeechInvHolds == Spec => []SpeechInv
BY InitSpeech, NextSpeech, PTL DEF Spec

\* While the main thread records, nothing waits to be spoken, the worker and the
\* player are done and the Sink is empty, whatever failed before (run_local, flush,
\* play_stream_on_device).
THEOREM RecordsAfterSpeech == Spec => []SpeechIsOver
<1>1. SpeechInv => SpeechIsOver
  BY DEF SpeechInv, TypesOK, ThreadsOK, PlayerOK, SpeechIsOver
<1> QED BY <1>1, SpeechInvHolds, PTL

\* The counter behind is_speaking is the number of messages queued, being spoken and
\* being enqueued; it never wraps, and a worker that died leaves it too high at most
\* (say_narration, enqueue, the worker).
THEOREM PendingIsExact == Spec => []PendingCounts
<1>1. ASSUME SpeechInv PROVE PendingCounts
  <2>1. Queued = Speaks(queue, ack) BY <1>1, CountSpeaks DEF SpeechInv, ThreadsOK, Queued
  <2>2. Queued + Speaking = Room BY <2>1 DEF Room
  <2>3. Room \in Nat /\ MaxQueuedNarration \in Nat /\ CountOK
    BY <1>1, RoomIsNat, SpeechAssumption DEF SpeechInv
  <2>4. ASSUME text = "narration" PROVE Room <= MaxQueuedNarration
    <3>1. main \in {"turn", "add", "send", "undo"} BY <1>1, <2>4 DEF SpeechInv, ThreadsOK
    <3>2. CASE main = "undo"
      <4>1. worker = "dead" /\ queue = <<>> /\ ack # "open"
        BY <1>1, <3>2 DEF SpeechInv, ThreadsOK
      <4>2. Room = 0 BY <1>1, <4>1, NoRoomUsed
      <4> QED BY <2>3, <4>2
    <3> QED BY <2>3, <3>1, <3>2 DEF CountOK
  <2>5. pending >= Queued + Speaking + Unsent
        /\ (worker # "dead" => pending = Queued + Speaking + Unsent)
    BY <2>2, <2>3 DEF CountOK
  <2>6. Queued + Speaking <= MaxQueuedNarration + (IF text = "narration" THEN 0 ELSE 1)
    BY <2>2, <2>3, <2>4 DEF CountOK
  <2> QED BY <2>5, <2>6 DEF PendingCounts
<1> QED BY <1>1, SpeechInvHolds, PTL
=============================================================================
