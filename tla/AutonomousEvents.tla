--------------------------- MODULE AutonomousEvents ---------------------------
(***************************************************************************)
(* Autonomous events: the threads that publish them (one per device        *)
(* connection, `publish_device_event`), the bounded queue between          *)
(* (adapters/autonomous/in_memory_queue.rs) and the one loop that takes    *)
(* them off and runs a turn for those its policy acts on                   *)
(* (application/autonomous).                                               *)
(*                                                                         *)
(* The queue's operations run under its mutex and are atomic; what is not  *)
(* is making an event, which takes its id before the mutex, and waiting,   *)
(* which gives the mutex up until the condition variable is notified.      *)
(***************************************************************************)
EXTENDS Naturals, Sequences

CONSTANTS
  Publishers,   \* threads that publish
  Occurrences,  \* what an event says: its source, kind and payload
  ActOn,        \* the occurrences whose kind is on the policy's act-on list
  Capacity,     \* InMemoryEventQueue.capacity
  MaxEvents,    \* bound: events made
  None

ASSUME EventsAssumption ==
  /\ ActOn \subseteq Occurrences /\ None \notin Occurrences
  /\ Capacity \in Nat /\ MaxEvents \in Nat

VARIABLES
  nextEvent,  \* AutonomousEventId's counter
  making,     \* making[p]: the event p has made and not yet published
  events,     \* State.events
  closed,     \* State.closed
  loop,       \* where the loop is
  current,    \* the event it is processing
  accepted,   \* ids for which publish returned Accepted, in order
  handled,    \* ids next() has returned, in order
  settled     \* ids reported as ignored, completed or failed

eventsVars == <<nextEvent, making, events, closed, loop, current, accepted, handled, settled>>

EventIds == 1..MaxEvents
Events   == [id : EventIds, what : Occurrences]
NoEvent  == [id |-> 0, what |-> None]

EventsInit ==
  /\ nextEvent = 1 /\ making = [p \in Publishers |-> NoEvent]
  /\ events = <<>> /\ closed = FALSE
  /\ loop = "checking" /\ current = NoEvent
  /\ accepted = <<>> /\ handled = <<>> /\ settled = {}

-----------------------------------------------------------------------------
\* AutonomousEvent::new takes the next id.
MakeEvent(p) ==
  /\ making[p] = NoEvent /\ nextEvent <= MaxEvents
  /\ \E o \in Occurrences : making' = [making EXCEPT ![p] = [id |-> nextEvent, what |-> o]]
  /\ nextEvent' = nextEvent + 1
  /\ UNCHANGED <<events, closed, loop, current, accepted, handled, settled>>

IsDuplicate(e) == \E i \in 1..Len(events) : events[i].what = e.what

IsFull == Len(events) >= Capacity

\* notify_one and notify_all: the loop is the only thread that waits.
NotifyNobody == loop' = loop
Notify == loop' = IF loop = "parked" THEN "checking" ELSE loop

Publish(p) ==
  /\ making[p] # NoEvent /\ making' = [making EXCEPT ![p] = NoEvent]
  /\ IF closed \/ IsDuplicate(making[p]) \/ IsFull
     THEN UNCHANGED <<events, loop, accepted>>
     ELSE /\ events' = Append(events, making[p])
          /\ accepted' = Append(accepted, making[p].id)
          /\ Notify
  /\ UNCHANGED <<nextEvent, closed, current, handled, settled>>

\* close, for a graceful shutdown.
Close ==
  /\ ~closed /\ closed' = TRUE /\ Notify
  /\ UNCHANGED <<nextEvent, making, events, current, accepted, handled, settled>>

-----------------------------------------------------------------------------
\* next(): the oldest event, or None once the queue is closed and drained, or wait.
TakeNewest ==
  /\ loop = "checking" /\ events # <<>>
  /\ current' = events[Len(events)] /\ events' = SubSeq(events, 1, Len(events) - 1)
  /\ handled' = Append(handled, current'.id)
  /\ loop' = "processing"
  /\ UNCHANGED <<nextEvent, making, closed, accepted, settled>>

TakeEvent ==
  /\ loop = "checking" /\ events # <<>>
  /\ current' = Head(events) /\ events' = Tail(events)
  /\ handled' = Append(handled, current'.id)
  /\ loop' = "processing"
  /\ UNCHANGED <<nextEvent, making, closed, accepted, settled>>

StopBeforeDrained ==
  /\ loop = "checking" /\ closed /\ loop' = "ended"
  /\ UNCHANGED <<nextEvent, making, events, closed, current, accepted, handled, settled>>

Stop ==
  /\ loop = "checking" /\ events = <<>> /\ closed /\ loop' = "ended"
  /\ UNCHANGED <<nextEvent, making, events, closed, current, accepted, handled, settled>>

Wait ==
  /\ loop = "checking" /\ events = <<>> /\ ~closed /\ loop' = "parked"
  /\ UNCHANGED <<nextEvent, making, events, closed, current, accepted, handled, settled>>

\* A condition variable may wake its waiter for no reason.
WakeSpuriously ==
  /\ loop = "parked" /\ loop' = "checking"
  /\ UNCHANGED <<nextEvent, making, events, closed, current, accepted, handled, settled>>

\* process: an event the policy ignores is settled at once, another is handed to
\* the agent and settled when its turn ends, however it ends.
Ignore ==
  /\ loop = "processing" /\ current.what \notin ActOn
  /\ loop' = "checking" /\ current' = NoEvent /\ settled' = settled \cup {current.id}
  /\ UNCHANGED <<nextEvent, making, events, closed, accepted, handled>>

Delegate ==
  /\ loop = "processing" /\ current.what \in ActOn /\ loop' = "responding"
  /\ UNCHANGED <<nextEvent, making, events, closed, current, accepted, handled, settled>>

FinishTurn ==
  /\ loop = "responding"
  /\ loop' = "checking" /\ current' = NoEvent /\ settled' = settled \cup {current.id}
  /\ UNCHANGED <<nextEvent, making, events, closed, accepted, handled>>

LoopStep == TakeEvent \/ Stop \/ Wait \/ Ignore \/ Delegate \/ FinishTurn

EventsNext ==
  \/ \E p \in Publishers : MakeEvent(p) \/ Publish(p)
  \/ Close \/ LoopStep \/ WakeSpuriously

EventsSpec == EventsInit /\ [][EventsNext]_eventsVars

\* The loop's thread runs on, and a turn ends (AgentLoop's TurnEnds).
Fairness == WF_eventsVars(LoopStep)
-----------------------------------------------------------------------------
\* Every variable holds a value the code's types allow, and the queue never holds
\* more than its capacity.
TypeOK ==
  /\ nextEvent \in 1..(MaxEvents + 1)
  /\ making \in [Publishers -> Events \cup {NoEvent}]
  /\ events \in Seq(Events) /\ Len(events) <= Capacity
  /\ closed \in BOOLEAN
  /\ loop \in {"checking", "parked", "processing", "responding", "ended"}
  /\ current \in Events \cup {NoEvent}
  /\ accepted \in Seq(EventIds) /\ handled \in Seq(EventIds)
  /\ settled \in SUBSET EventIds

\* Events are handled exactly once and in the order they were accepted: what the
\* loop has taken is the beginning of what was accepted, what waits is the rest
\* (InMemoryEventQueue, AutonomousEventLoop::run: "in arrival order").
HandledInOrder ==
  /\ Len(accepted) = Len(handled) + Len(events)
  /\ \A i \in 1..Len(handled) : handled[i] = accepted[i]
  /\ \A i \in 1..Len(events) : events[i].id = accepted[Len(handled) + i]

\* No two waiting events say the same (is_duplicate_of).
NoDuplicateWaits ==
  \A i, j \in 1..Len(events) : events[i].what = events[j].what => i = j

\* No wake-up is lost: the loop never waits while there is an event to take or the
\* queue is closed (the mutex and the condition variable of InMemoryEventQueue).
NoLostWakeup == loop = "parked" => events = <<>> /\ ~closed

\* The set of ids in a sequence.
IdsOf(s) == {s[i] : i \in 1..Len(s)}

\* Every accepted event is settled, also those waiting when the queue is closed
\* (next: "None once the queue has been closed and drained").
AcceptedEventsAreSettled ==
  \A n \in EventIds : (n \in IdsOf(accepted)) ~> (n \in settled)
=============================================================================
