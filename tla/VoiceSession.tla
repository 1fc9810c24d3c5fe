----------------------------- MODULE VoiceSession -----------------------------
(***************************************************************************)
(* The voice server: one VoiceSession shared by every phone connection     *)
(* (apps/voice/src/session.rs, audio_server.rs, client.rs) and the end of  *)
(* Nala it talks to (apps/nala/src/server.rs).                             *)
(*                                                                         *)
(* A thread per phone connection drains the outbox and reads utterances; a *)
(* thread per utterance runs one turn over the one connection to Nala.     *)
(* That connection sits in a slot behind a mutex, which a turn holds from  *)
(* its input to its reply and which every thread takes in ensure_connected.*)
(* at[x] is the program counter of thread x, of either kind.               *)
(*                                                                         *)
(* A clip is the turn it belongs to and its number among that turn's.  The *)
(* greeting's clip is not represented: it is sent once, straight to the    *)
(* phone, and a failure to send it is ignored; what matters of it is that  *)
(* it is made under ensure_connected.                                      *)
(***************************************************************************)
EXTENDS Naturals, Sequences, FiniteSets

CONSTANTS
  Turns,        \* bound: utterances, each a turn on a thread of its own
  Conns,        \* phone connections that exist at one time
  MaxClips,     \* MAX_CLIPS
  TTL,          \* TTL, in ticks of the clock
  MaxEvents,    \* bound: narrated events of each turn
  NalaFaults,   \* what may happen to the connection to Nala
  None

ASSUME NamesAssumption == Turns \cap Conns = {} /\ None \notin Turns \cup Conns
ASSUME SizesAssumption ==
  /\ IsFiniteSet(Conns)
  /\ MaxClips \in Nat /\ TTL \in Nat /\ MaxEvents \in [Turns -> Nat]
ASSUME FaultsAssumption == NalaFaults \subseteq {"closed", "lost", "unreadable"}

VARIABLES
  at,         \* where each thread is
  lock,       \* the thread that holds the mutex around the client slot
  nala,       \* the connection in the slot: "none", "up", "closed" or silently "lost"
  wire,       \* messages from Nala on that connection, not yet read
  inputs,     \* the turns Nala has been given on that connection and not finished
  events,     \* how many events Nala has sent for the first of them
  orphans,    \* turns Nala is still running for connections that were dropped
  outbox,     \* Outbox.clips
  made,       \* made[t]: clips made for turn t
  phone,      \* phone[c]: the phone's connection, "up", "closed" or silently "lost"
  flight,     \* flight[c]: the clip c has taken out and not finished sending
  heard,      \* clips that reached a phone, in order
  swallowed,  \* clips whose send succeeded into a connection nobody reads
  overtaken   \* pairs of clips of one turn: the second was taken out of the outbox while
              \* another connection was still sending the first

nalaVars  == <<nala, wire, inputs, events, orphans>>
phoneVars == <<phone, flight, heard, swallowed, overtaken>>
vars == <<at, lock, nalaVars, outbox, made, phoneVars>>

Threads  == Turns \cup Conns
Clips    == [turn : Turns, n : Nat \ {0}]
NoClip   == [turn |-> None, n |-> 0]
Messages == [kind : {"greeting", "event", "reply", "error"}, turn : Turns \cup {None}]

Init ==
  /\ at = [x \in Threads |-> IF x \in Turns THEN "unsaid" ELSE "none"]
  /\ lock = None
  /\ nala = "none" /\ wire = <<>> /\ inputs = <<>> /\ events = 0 /\ orphans = {}
  /\ outbox = <<>> /\ made = [t \in Turns |-> 0]
  /\ phone = [c \in Conns |-> "closed"] /\ flight = [c \in Conns |-> NoClip]
  /\ heard = <<>> /\ swallowed = {} /\ overtaken = {}

Goto(x, where) == at' = [at EXCEPT ![x] = where]

-----------------------------------------------------------------------------
\* The outbox.

Expired(entry) == entry.age > TTL

NotPurged(q) == q
\* purge_expired: drops expired clips from the front, up to the first that is not.
Purged(q) ==
  LET fresh == {i \in 1..Len(q) : ~Expired(q[i])}
  IN  IF fresh = {} THEN <<>>
      ELSE SubSeq(q, CHOOSE i \in fresh : \A j \in fresh : i <= j, Len(q))

\* Drops from the front until MAX_CLIPS are left.
Trimmed(q) == IF Len(q) > MaxClips THEN SubSeq(q, Len(q) - MaxClips + 1, Len(q)) ELSE q

Push(clip) == outbox' = Trimmed(Append(Purged(outbox), [clip |-> clip, age |-> 0]))

PushBackAgain(clip) == outbox' = Append(outbox, [clip |-> clip, age |-> 0])
PushFront(clip) == outbox' = <<[clip |-> clip, age |-> 0]>> \o outbox

\* Time passes for every clip that waits.
Tick ==
  /\ \E i \in 1..Len(outbox) : ~Expired(outbox[i])
  /\ outbox' = [i \in 1..Len(outbox) |->
                  IF Expired(outbox[i]) THEN outbox[i]
                  ELSE [outbox[i] EXCEPT !.age = @ + 1]]
  /\ UNCHANGED <<at, lock, nalaVars, made, phoneVars>>

-----------------------------------------------------------------------------
\* VoiceSession::ensure_connected, for a turn and for a phone's greeting.

AfterEnsure(x) == IF x \in Turns THEN "relock" ELSE "draining"

EnsureFindsClient(x) ==
  /\ at[x] = "ensure" /\ lock = None /\ nala # "none"
  /\ Goto(x, AfterEnsure(x))
  /\ UNCHANGED <<lock, nalaVars, outbox, made, phoneVars>>

EnsureCannotConnect(x) ==
  /\ at[x] = "ensure" /\ lock = None /\ nala = "none"
  /\ Goto(x, AfterEnsure(x))
  /\ UNCHANGED <<lock, nalaVars, outbox, made, phoneVars>>

\* Nala sends its greeting as soon as it accepts; the lock is held until it is read.
EnsureConnects(x) ==
  /\ at[x] = "ensure" /\ lock = None /\ nala = "none"
  /\ Goto(x, "opening") /\ lock' = x
  /\ nala' = "up" /\ wire' = <<[kind |-> "greeting", turn |-> None]>>
  /\ UNCHANGED <<inputs, events, orphans, outbox, made, phoneVars>>

\* recv_greeting returns: the greeting, something unreadable, or the end of the connection.
EnsureGreeted(x) ==
  /\ at[x] = "opening" /\ lock = x
  /\ \/ wire # <<>> /\ wire' = Tail(wire)
     \/ wire = <<>> /\ nala = "closed" /\ UNCHANGED wire
  /\ Goto(x, AfterEnsure(x)) /\ lock' = None
  /\ UNCHANGED <<nala, inputs, events, orphans, outbox, made, phoneVars>>

-----------------------------------------------------------------------------
\* VoiceSession::run_turn.

EndTurn(t, fate) == Goto(t, fate) /\ lock' = None

\* The client slot is empty when the turn takes the lock again.
DropTurn(t) ==
  /\ at[t] = "relock" /\ lock = None /\ nala = "none"
  /\ Goto(t, "dropped")
  /\ UNCHANGED <<lock, nalaVars, outbox, made, phoneVars>>

KeepClient == nala' = nala /\ UNCHANGED <<wire, inputs, events, orphans>>
\* Nala does not learn that its client has gone, and finishes the turn it is in.
DropClient ==
  /\ nala' = "none" /\ wire' = <<>> /\ inputs' = <<>> /\ events' = 0
  /\ orphans' = orphans \cup {inputs[i] : i \in 1..Len(inputs)}

FailTurn(t) ==
  /\ EndTurn(t, "failed") /\ DropClient
  /\ UNCHANGED <<outbox, made, phoneVars>>

SendInput(t) ==
  /\ at[t] = "relock" /\ lock = None
  /\ \/ /\ nala \in {"up", "lost"}
        /\ Goto(t, "running") /\ lock' = t
        /\ inputs' = IF nala = "up" THEN Append(inputs, t) ELSE inputs
        /\ UNCHANGED <<nala, wire, events, orphans, outbox, made, phoneVars>>
     \/ nala = "closed" /\ FailTurn(t)

\* The narrator may have nothing to say, and the synthesis may fail: then there is no clip.
Speak(t) ==
  \/ /\ Push([turn |-> t, n |-> made[t] + 1])
     /\ made' = [made EXCEPT ![t] = @ + 1]
  \/ UNCHANGED <<outbox, made>>

ReceiveEvent(t) ==
  /\ at[t] = "running" /\ wire # <<>> /\ Head(wire).kind = "event"
  /\ wire' = Tail(wire)
  /\ Speak(t)
  /\ UNCHANGED <<at, lock, nala, inputs, events, orphans, phoneVars>>

ReceiveReply(t) ==
  /\ at[t] = "running" /\ wire # <<>> /\ Head(wire).kind = "reply"
  /\ wire' = Tail(wire)
  /\ Speak(t) /\ EndTurn(t, "replied")
  /\ UNCHANGED <<nala, inputs, events, orphans, phoneVars>>

IgnoreClose(t) ==
  /\ at[t] = "running"
  /\ \/ wire # <<>> /\ (Head(wire).kind = "error" \/ "unreadable" \in NalaFaults) /\ FailTurn(t)
     \/ wire = <<>> /\ nala = "closed" /\ UNCHANGED vars

\* An Error from Nala, a message that cannot be read, or the end of the connection.
ReceiveFailure(t) ==
  /\ at[t] = "running"
  /\ \/ wire # <<>> /\ Head(wire).kind = "error"
     \/ wire # <<>> /\ "unreadable" \in NalaFaults
     \/ wire = <<>> /\ nala = "closed"
  /\ FailTurn(t)

-----------------------------------------------------------------------------
\* Nala's end of the connection: run_session and the events of its turns.

NalaSends(m) == wire' = IF nala = "up" THEN Append(wire, m) ELSE wire

NalaEvent ==
  /\ inputs # <<>> /\ events < MaxEvents[Head(inputs)]
  /\ NalaSends([kind |-> "event", turn |-> Head(inputs)])
  /\ events' = events + 1
  /\ UNCHANGED <<at, lock, nala, inputs, orphans, outbox, made, phoneVars>>

NalaFinish ==
  /\ inputs # <<>>
  /\ \E k \in {"reply", "error"} : NalaSends([kind |-> k, turn |-> Head(inputs)])
  /\ inputs' = Tail(inputs) /\ events' = 0
  /\ UNCHANGED <<at, lock, nala, orphans, outbox, made, phoneVars>>

OrphanFinishes ==
  /\ \E t \in orphans : orphans' = orphans \ {t}
  /\ UNCHANGED <<at, lock, nala, wire, inputs, events, outbox, made, phoneVars>>

\* Some of what was on its way still arrives.
NalaLinkBreaks ==
  /\ nala = "up"
  /\ nala' \in NalaFaults \cap {"closed", "lost"}
  /\ \E n \in 0..Len(wire) : wire' = SubSeq(wire, 1, n)
  /\ UNCHANGED <<at, lock, inputs, events, orphans, outbox, made, phoneVars>>

-----------------------------------------------------------------------------
\* A phone and the thread of its connection: handle_connection, run_audio_session.

PhoneConnects(c) ==
  /\ at[c] = "none"
  /\ Goto(c, "ensure") /\ phone' = [phone EXCEPT ![c] = "up"]
  /\ UNCHANGED <<lock, nalaVars, outbox, made, flight, heard, swallowed, overtaken>>

PhoneDrops(c) ==
  /\ at[c] # "none" /\ phone[c] # "closed"
  /\ \E how \in {"closed", "lost"} \ {phone[c]} : phone' = [phone EXCEPT ![c] = how]
  /\ UNCHANGED <<at, lock, nalaVars, outbox, made, flight, heard, swallowed, overtaken>>

\* The clips of k's turn, made before k, that other connections are sending.
EarlierInFlight(c, k) ==
  {flight[d] : d \in {e \in Conns \ {c} : flight[e].turn = k.turn /\ flight[e].n < k.n}}

TryPop(c) ==
  LET q == Purged(outbox) IN
  /\ at[c] = "draining"
  /\ IF q = <<>>
       THEN outbox' = q /\ Goto(c, "reading") /\ UNCHANGED <<flight, overtaken>>
       ELSE LET k == Head(q).clip IN
            /\ outbox' = Tail(q) /\ Goto(c, "sending")
            /\ flight' = [flight EXCEPT ![c] = k]
            /\ overtaken' = overtaken \cup {<<x, k>> : x \in EarlierInFlight(c, k)}
  /\ UNCHANGED <<lock, nalaVars, made, phone, heard, swallowed>>

\* The send succeeds, also while nobody is there to notice that the phone has gone.
SendClip(c) ==
  /\ at[c] = "sending" /\ phone[c] \in {"up", "lost"}
  /\ Goto(c, "draining") /\ flight' = [flight EXCEPT ![c] = NoClip]
  /\ IF phone[c] = "up"
       THEN heard' = Append(heard, flight[c]) /\ UNCHANGED swallowed
       ELSE swallowed' = swallowed \cup {flight[c]} /\ UNCHANGED heard
  /\ UNCHANGED <<lock, nalaVars, outbox, made, phone, overtaken>>

SendFailsForGood(c) ==
  /\ at[c] = "sending" /\ phone[c] \in {"closed", "lost"}
  /\ Goto(c, "none") /\ flight' = [flight EXCEPT ![c] = NoClip]
  /\ UNCHANGED <<outbox, lock, nalaVars, made, phone, heard, swallowed, overtaken>>

\* The send fails: the clip goes back and the connection's thread ends.
SendFails(c) ==
  /\ at[c] = "sending" /\ phone[c] \in {"closed", "lost"}
  /\ PushFront(flight[c])
  /\ Goto(c, "none") /\ flight' = [flight EXCEPT ![c] = NoClip]
  /\ UNCHANGED <<lock, nalaVars, made, phone, heard, swallowed, overtaken>>

\* An utterance that was decoded and transcribed to something is submitted.
Hear(c) ==
  /\ at[c] = "reading" /\ phone[c] = "up"
  /\ \E t \in Turns : /\ at[t] = "unsaid"
                      /\ at' = [at EXCEPT ![t] = "ensure", ![c] = "draining"]
  /\ UNCHANGED <<lock, nalaVars, outbox, made, phoneVars>>

KeepReading(c) == at[c] = "reading" /\ phone[c] # "closed" /\ UNCHANGED vars

\* The read times out, or what arrived is no utterance.
Idle(c) ==
  /\ at[c] = "reading" /\ phone[c] # "closed"
  /\ Goto(c, "draining")
  /\ UNCHANGED <<lock, nalaVars, outbox, made, phoneVars>>

Closed(c) ==
  /\ at[c] = "reading" /\ phone[c] = "closed"
  /\ Goto(c, "none")
  /\ UNCHANGED <<lock, nalaVars, outbox, made, phoneVars>>

-----------------------------------------------------------------------------
EnsureStep(x) ==
  \/ EnsureFindsClient(x) \/ EnsureCannotConnect(x) \/ EnsureConnects(x) \/ EnsureGreeted(x)
TurnStep(t) ==
  DropTurn(t) \/ SendInput(t) \/ ReceiveEvent(t) \/ ReceiveReply(t) \/ ReceiveFailure(t)
ConnStep(c) == TryPop(c) \/ SendClip(c) \/ SendFails(c) \/ Idle(c) \/ Closed(c)
NalaStep == NalaEvent \/ NalaFinish \/ OrphanFinishes

Next ==
  \/ Tick
  \/ \E x \in Threads : EnsureStep(x)
  \/ \E t \in Turns : TurnStep(t)
  \/ \E c \in Conns : ConnStep(c) \/ Hear(c) \/ PhoneConnects(c) \/ PhoneDrops(c)
  \/ NalaStep
  \/ NalaLinkBreaks

Spec == Init /\ [][Next]_vars

\* A thread that can run does; Nala works on what it is given.
ThreadFairness ==
  /\ \A t \in Turns : WF_vars(EnsureStep(t) \/ TurnStep(t))
  /\ \A c \in Conns : WF_vars(EnsureStep(c) \/ ConnStep(c))
NalaFairness == WF_vars(NalaFinish)

-----------------------------------------------------------------------------
\* Type correctness.  The mutex around the slot is held by the turn that runs or the thread
\* that opens the connection, and a connection's thread holds a clip only while it sends.
TypeOK ==
  /\ at \in [Threads -> {"unsaid", "ensure", "opening", "relock", "running", "replied",
                         "failed", "dropped", "none", "draining", "sending", "reading"}]
  /\ lock \in Threads \cup {None}
  /\ \A x \in Threads : (lock = x) <=> at[x] \in {"opening", "running"}
  /\ nala \in {"none", "up", "closed", "lost"}
  /\ wire \in Seq(Messages) /\ inputs \in Seq(Turns) /\ orphans \subseteq Turns
  /\ events \in Nat
  /\ outbox \in Seq([clip : Clips, age : 0..(TTL + 1)])
  /\ made \in [Turns -> Nat]
  /\ phone \in [Conns -> {"up", "closed", "lost"}]
  /\ flight \in [Conns -> Clips \cup {NoClip}]
  /\ \A c \in Conns : (at[c] = "sending") <=> (flight[c] # NoClip)
  /\ heard \in Seq(Clips) /\ swallowed \subseteq Clips
  /\ overtaken \subseteq Clips \X Clips

Waiting == {outbox[i].clip : i \in 1..Len(outbox)}
Flying  == {flight[c] : c \in Conns} \ {NoClip}
Heard   == {heard[i] : i \in 1..Len(heard)}

\* A clip is spoken at most once: it is never in the outbox twice, never taken out by two
\* connections, and never queued again once a send of it succeeded (the put-back of
\* run_audio_session against two connections that drain one outbox).
ClipsInOnePlace ==
  /\ \A i, j \in 1..Len(outbox) : outbox[i].clip = outbox[j].clip => i = j
  /\ \A i, j \in 1..Len(heard) : heard[i] = heard[j] => i = j
  /\ \A c, d \in Conns : flight[c] = flight[d] => c = d \/ flight[c] = NoClip
  /\ Waiting \cap Flying = {} /\ Waiting \cap (Heard \cup swallowed) = {}
  /\ Flying \cap (Heard \cup swallowed) = {} /\ Heard \cap swallowed = {}

\* "so a long-disconnected phone doesn't build up an unbounded backlog": push_front has no
\* limit of its own, so the outbox may exceed MAX_CLIPS, but only by what connections that
\* die while they send put back, never by more than one clip for each.
OutboxBounded == Len(outbox) + Cardinality({c \in Conns : flight[c] # NoClip})
                   <= MaxClips + Cardinality(Conns)

\* A turn is only ever told what Nala says of its own input: everything on the connection
\* in the slot belongs to the turn that holds the lock (run_turn drops the connection after
\* any failure, so that no later turn reads what is left of an earlier one).
TurnsHearTheirOwn ==
  \A t \in Turns : at[t] = "running" =>
    /\ \A i \in 1..Len(wire) : wire[i].turn = t
    /\ \A i \in 1..Len(inputs) : inputs[i] = t

\* No clip vanishes: a clip that waits or is being sent stays, or is heard, or is swallowed by
\* a dead connection, unless it has expired or the outbox is at its limit.
NoClipVanishes ==
  [][\A k \in Waiting \cup Flying :
       \/ k \in Waiting' \cup Flying' \cup Heard' \cup swallowed'
       \/ \E i \in 1..Len(outbox) : outbox[i].clip = k /\ Expired(outbox[i])
       \/ Len(outbox') = MaxClips]_vars

\* No clip is taken out to be spoken after its time to live, however long it waited behind
\* others and however often it was put back.
NothingStaleIsSpoken ==
  [][\A c \in Conns : flight'[c] # flight[c] /\ flight'[c] # NoClip =>
       \E i \in 1..Len(outbox) : outbox[i].clip = flight'[c] /\ ~Expired(outbox[i])]_vars

\* The clips of a turn are heard in the order they were made, whatever fails in between and
\* over however many connections they go out, a phone's old one and its new one included,
\* unless one connection took the later clip out while another was still sending the
\* earlier one: try_pop and push_front alone put nothing out of order.
HeardInOrder ==
  \A i, j \in 1..Len(heard) :
    i < j /\ heard[i].turn = heard[j].turn /\ heard[j].n < heard[i].n
      => <<heard[j], heard[i]>> \in overtaken

\* Every utterance's turn comes to an end (run_turn gives the lock back on every path): a
\* turn is run once, so that again and again none is under way.
TurnsFinish == []<>(\A t \in Turns : at[t] \in {"unsaid", "replied", "failed", "dropped"})

\* "a clip queued by an earlier turn [...] goes out right away instead of waiting for the next
\* incoming utterance" (run_audio_session): while a connection lasts, what waits is taken out
\* without a word from the phone, until nothing does.
WaitingClipsGoOut == \A c \in Conns : []<>(outbox = <<>> \/ at[c] = "none")

\* "one `Assistant` on the Nala side, one turn at a time" (run_turn).
\* TLC refutes it (README, disagreements); no run checks it.
OneTurnAtNala == Cardinality(orphans \cup {inputs[i] : i \in 1..Len(inputs)}) <= 1
=============================================================================
