------------------------------ MODULE DeviceLink ------------------------------
(***************************************************************************)
(* Devices and the turns that use them: the daemon that connects and       *)
(* reconnects (apps/pc-daemon), the thread per connection of Nala's device *)
(* listener (device_server.rs), the registry of connected devices, and     *)
(* `WsDevice::invoke`, which runs on the thread of whichever turn calls a  *)
(* device (adapters/devices/websocket.rs).                                 *)
(*                                                                         *)
(* A connection is handled by one thread, but its socket, its table of     *)
(* pending requests and its request counter are shared with every caller   *)
(* whose dispatcher holds a clone of the device; the socket closes when    *)
(* the last clone is dropped.  Reading and writing the socket need its     *)
(* mutex: a caller that is "writing" holds it.  A result carries, besides  *)
(* the request id, the caller whose request it answers: the code never     *)
(* looks at that, the properties do.                                       *)
(***************************************************************************)
EXTENDS Naturals, FiniteSets

CONSTANTS
  Devices,      \* device ids; one daemon runs for each
  Trusted,      \* those whose Hello passes validate_hello (version, then token)
  Conns,        \* bound: connections that exist at one time
  Callers,      \* turns that may be invoking a device at the same time
  MaxRequests,  \* bound: requests issued over one connection
  None

ASSUME DevicesAssumption == Trusted \subseteq Devices /\ None \notin Devices
ASSUME NamesAssumption == None \notin Conns /\ None \notin Callers
ASSUME RequestsAssumption == MaxRequests \in Nat

VARIABLES
  daemon,     \* daemon[d]: "sleeping" (between two attempts), "session" or "exited"
  session,    \* session[d]: the connection of the daemon's session
  handler,    \* handler[c]: where handle_connection is; "done" when it has returned, "free"
              \* when nothing is left of the connection
  owner,      \* owner[c]: the device at the other end
  link,       \* link[c]: "up", "lost" (silently) or "closed" (each end finds out)
  rejected,   \* connections on which a Reject was sent
  registry,   \* DeviceRegistry.devices
  nextId,     \* nextId[c]: WsDevice.next_request_id
  waiters,    \* waiters[c]: Pending.waiters, the caller waiting for each id
  invokes,    \* invokes[c]: Invoke messages the device has not finished with
  results,    \* results[c]: Result messages the handler has not read
  clones,     \* clones[k]: the devices in k's dispatcher, since its last sync
  caller,     \* caller[k]: where k's invoke is
  target,     \* target[k], rid[k]: the connection and id of k's request
  rid,
  inbox       \* inbox[k]: the outcome sent down the channel of that request

daemonVars == <<daemon, session>>
connVars   == <<handler, owner, link, rejected>>
wireVars   == <<invokes, results>>
callVars   == <<caller, target, rid, inbox>>
vars == <<daemonVars, connVars, registry, nextId, waiters, wireVars, clones, callVars>>

Ids  == 0..(MaxRequests - 1)
Tags == [id : Ids, conn : Conns, from : Callers]

Connected == {registry[d] : d \in Devices} \ {None}

\* A clone of the device behind c, and with it the socket, is still held.
Held(c) == c \in Connected \/ \E k \in Callers : c \in clones[k]

Init ==
  /\ daemon = [d \in Devices |-> "sleeping"] /\ session = [d \in Devices |-> None]
  /\ handler = [c \in Conns |-> "free"] /\ owner = [c \in Conns |-> None]
  /\ link = [c \in Conns |-> "closed"] /\ rejected = {}
  /\ registry = [d \in Devices |-> None]
  /\ nextId = [c \in Conns |-> 0]
  /\ waiters = [c \in Conns |-> [i \in Ids |-> None]]
  /\ invokes = [c \in Conns |-> {}] /\ results = [c \in Conns |-> {}]
  /\ clones = [k \in Callers |-> {}]
  /\ caller = [k \in Callers |-> "idle"] /\ target = [k \in Callers |-> None]
  /\ rid = [k \in Callers |-> 0]
  /\ inbox = [k \in Callers |-> None]

\* The socket's mutex is held by a caller.
Locked(c) == \E k \in Callers : caller[k] = "writing" /\ target[k] = c

-----------------------------------------------------------------------------
(***************************************************************************)
(* The daemon.                                                             *)
(***************************************************************************)

\* TcpDeviceWire::connect succeeds and run_session sends Hello.
Connect(d) ==
  /\ daemon[d] = "sleeping"
  /\ \E c \in Conns :
       /\ handler[c] = "free" /\ \A e \in Devices : session[e] # c
       /\ daemon' = [daemon EXCEPT ![d] = "session"]
       /\ session' = [session EXCEPT ![d] = c]
       /\ handler' = [handler EXCEPT ![c] = "hello"]
       /\ owner' = [owner EXCEPT ![c] = d]
       /\ link' = [link EXCEPT ![c] = "up"] /\ rejected' = rejected \ {c}
  /\ UNCHANGED <<registry, nextId, waiters, wireVars, clones, callVars>>

\* run_session answers an Invoke.  Other devices may answer one more than once.
Answer(d) ==
  /\ session[d] # None /\ link[session[d]] = "up"
  /\ \E t \in invokes[session[d]] :
       /\ results' = [results EXCEPT ![session[d]] = @ \cup {t}]
       /\ \/ invokes' = [invokes EXCEPT ![session[d]] = @ \ {t}]
          \/ UNCHANGED invokes
  /\ UNCHANGED <<daemonVars, connVars, registry, nextId, waiters, clones, callVars>>

\* The session ends: a Reject makes the daemon give up for good, anything else
\* makes it sleep and connect again.
EndSession(d) ==
  /\ daemon[d] = "session" /\ link[session[d]] = "closed"
  /\ daemon' = [daemon EXCEPT ![d] = IF session[d] \in rejected THEN "exited"
                                                                 ELSE "sleeping"]
  /\ session' = [session EXCEPT ![d] = None]
  /\ UNCHANGED <<connVars, registry, nextId, waiters, wireVars, clones, callVars>>

\* The daemon's process or machine restarts; the other end is told or it is not.
Restart(d) ==
  /\ daemon[d] = "session"
  /\ daemon' = [daemon EXCEPT ![d] = "sleeping"]
  /\ session' = [session EXCEPT ![d] = None]
  /\ \E l \in {"lost", "closed"} :
       link' = [link EXCEPT ![session[d]] = IF @ = "up" THEN l ELSE @]
  /\ invokes' = [invokes EXCEPT ![session[d]] = {}]
  /\ UNCHANGED <<handler, owner, rejected, registry, nextId, waiters, results, clones,
                 callVars>>

\* The network loses the connection, or an end of it notices.  What was on its way
\* to the device is gone, what was on its way to Nala may be.
BreakLink(c) ==
  /\ link[c] # "closed"
  /\ \E l \in {"lost", "closed"} \ {link[c]} : link' = [link EXCEPT ![c] = l]
  /\ invokes' = [invokes EXCEPT ![c] = {}]
  /\ results' = [results EXCEPT ![c] = {}] \/ UNCHANGED results
  /\ UNCHANGED <<daemonVars, handler, owner, rejected, registry, nextId, waiters, clones,
                 callVars>>

-----------------------------------------------------------------------------
(***************************************************************************)
(* handle_connection.                                                      *)
(***************************************************************************)

\* validate_hello: the protocol version first, then the token.
ValidHello(c) == owner[c] \in Trusted

\* wait_for_hello: the Hello is answered with Welcome or with Reject, unless the
\* connection ends first or something else comes before it.
ReceiveHello(c) ==
  /\ handler[c] = "hello"
  /\ \/ /\ ValidHello(c)
        /\ handler' = [handler EXCEPT ![c] = "welcomed"] /\ UNCHANGED rejected
     \/ /\ ~ValidHello(c)
        /\ handler' = [handler EXCEPT ![c] = "done"] /\ rejected' = rejected \cup {c}
     \/ handler' = [handler EXCEPT ![c] = "done"] /\ UNCHANGED rejected
  /\ UNCHANGED <<daemonVars, owner, link, registry, nextId, waiters, wireVars, clones,
                 callVars>>

\* DeviceRegistry::register: replaces whatever was there.
Register(c) ==
  /\ handler[c] = "welcomed"
  /\ handler' = [handler EXCEPT ![c] = "serving"]
  /\ registry' = [registry EXCEPT ![owner[c]] = c]
  /\ UNCHANGED <<daemonVars, owner, link, rejected, nextId, waiters, wireVars, clones,
                 callVars>>

\* Pending::deliver: a result with no waiter is dropped.
DeliverToWhoeverWaits(c, t) ==
  /\ waiters' = [waiters EXCEPT ![c] = [i \in Ids |-> None]]
  /\ inbox' = [k \in Callers |-> IF \E i \in Ids : waiters[c][i] = k THEN t ELSE inbox[k]]

Deliver(c, t) ==
  /\ waiters' = [waiters EXCEPT ![c][t.id] = None]
  /\ inbox' = [k \in Callers |-> IF waiters[c][t.id] = k THEN t ELSE inbox[k]]

\* One turn of the loop: poll under the socket's mutex, which a turn that reads
\* nothing leaves as it was.
PollResult(c) ==
  /\ handler[c] = "serving" /\ ~Locked(c)
  /\ \E t \in results[c] :
       /\ results' = [results EXCEPT ![c] = @ \ {t}]
       /\ Deliver(c, t)
  /\ UNCHANGED <<daemonVars, connVars, registry, nextId, invokes, clones, caller, target,
                 rid>>

\* The loop breaks on a closed connection, or on an error: the socket's, or a
\* message that does not parse.  Requests still waiting are left to time out.
ReturnOnError(c) ==
  /\ handler[c] = "serving" /\ link[c] # "lost" /\ ~Locked(c)
  /\ handler' = [handler EXCEPT ![c] = IF link[c] = "up" THEN "done" ELSE "removing"]
  /\ UNCHANGED <<daemonVars, owner, link, rejected, registry, nextId, waiters, wireVars,
                 clones, callVars>>

BreakLoop(c) ==
  /\ handler[c] = "serving" /\ link[c] # "lost" /\ ~Locked(c)
  /\ handler' = [handler EXCEPT ![c] = "removing"]
  /\ UNCHANGED <<daemonVars, owner, link, rejected, registry, nextId, waiters, wireVars,
                 clones, callVars>>

\* DeviceRegistry::remove: whichever connection the entry belongs to.
Remove(c) ==
  /\ handler[c] = "removing"
  /\ handler' = [handler EXCEPT ![c] = "done"]
  /\ registry' = [registry EXCEPT ![owner[c]] = None]
  /\ UNCHANGED <<daemonVars, owner, link, rejected, nextId, waiters, wireVars, clones,
                 callVars>>

\* The last clone of the device is gone, and with it the socket, the counter and
\* the table of pending requests.
CloseSocket(c) ==
  /\ handler[c] = "done" /\ ~Held(c)
  /\ handler' = [handler EXCEPT ![c] = "free"]
  /\ link' = [link EXCEPT ![c] = "closed"]
  /\ nextId' = [nextId EXCEPT ![c] = 0]
  /\ waiters' = [waiters EXCEPT ![c] = [i \in Ids |-> None]]
  /\ invokes' = [invokes EXCEPT ![c] = {}] /\ results' = [results EXCEPT ![c] = {}]
  /\ UNCHANGED <<daemonVars, owner, rejected, registry, clones, callVars>>

-----------------------------------------------------------------------------
(***************************************************************************)
(* The callers: ToolDispatcher::sync_devices and WsDevice::invoke.         *)
(***************************************************************************)
SyncDevices(k) == clones' = [clones EXCEPT ![k] = Connected]

\* device_tools, at the start of a turn.
StartTurn(k) ==
  /\ caller[k] = "idle" /\ clones[k] # Connected /\ SyncDevices(k)
  /\ UNCHANGED <<daemonVars, connVars, registry, nextId, waiters, wireVars, callVars>>

\* dispatch: the devices are looked up again, one of them is called, and the
\* request takes the next id of its connection.
FetchAdd(c) == nextId' = [nextId EXCEPT ![c] = @ + 1]

Invoke(k) ==
  /\ caller[k] = "idle" /\ SyncDevices(k)
  /\ \E c \in Connected :
       /\ nextId[c] < MaxRequests /\ FetchAdd(c)
       /\ target' = [target EXCEPT ![k] = c] /\ rid' = [rid EXCEPT ![k] = nextId[c]]
  /\ caller' = [caller EXCEPT ![k] = "issued"]
  /\ UNCHANGED <<daemonVars, connVars, registry, waiters, wireVars, inbox>>

InsertWaiter(k) ==
  /\ caller[k] = "issued"
  /\ waiters' = [waiters EXCEPT ![target[k]][rid[k]] = k]
  /\ caller' = [caller EXCEPT ![k] = "sending"]
  /\ UNCHANGED <<daemonVars, connVars, registry, nextId, wireVars, clones, target, rid,
                 inbox>>

\* invoke returns, and its channel is dropped.
EndCall(k) ==
  /\ caller' = [caller EXCEPT ![k] = "idle"] /\ inbox' = [inbox EXCEPT ![k] = None]
  /\ target' = [target EXCEPT ![k] = None] /\ rid' = [rid EXCEPT ![k] = 0]

\* It returns an error: its waiter is removed from the table.
ForgetWaiter(k) == EndCall(k) /\ UNCHANGED waiters

GiveUp(k) == EndCall(k) /\ waiters' = [waiters EXCEPT ![target[k]][rid[k]] = None]

\* send waits for the socket's mutex, which the handler takes again as soon as a
\* poll of up to 100 ms is over, and which is not fair.
LockWire(k) ==
  /\ caller[k] = "sending" /\ ~Locked(target[k])
  /\ caller' = [caller EXCEPT ![k] = "writing"]
  /\ UNCHANGED <<daemonVars, connVars, registry, nextId, waiters, wireVars, clones, target,
                 rid, inbox>>

\* The write has no timeout and may block.  A closed connection may still take a
\* message; a lost one takes it and drops it.
SendInvoke(k) ==
  /\ caller[k] = "writing"
  /\ \/ /\ caller' = [caller EXCEPT ![k] = "waiting"]
        /\ invokes' = [invokes EXCEPT ![target[k]] =
                         IF link[target[k]] = "up"
                         THEN @ \cup {[id |-> rid[k], conn |-> target[k], from |-> k]} ELSE @]
        /\ UNCHANGED <<waiters, target, rid, inbox>>
     \/ /\ link[target[k]] = "closed" /\ GiveUp(k) /\ UNCHANGED invokes
  /\ UNCHANGED <<daemonVars, connVars, registry, nextId, results, clones>>

ReceiveOutcome(k) ==
  /\ caller[k] = "waiting" /\ inbox[k] # None /\ EndCall(k)
  /\ UNCHANGED <<daemonVars, connVars, registry, nextId, waiters, wireVars, clones>>

\* recv_timeout gives up; a result may still come before the waiter is removed.
TimeOutIfClosed(k) ==
  /\ caller[k] = "waiting" /\ inbox[k] = None /\ link[target[k]] = "closed"
  /\ caller' = [caller EXCEPT ![k] = "expired"]
  /\ UNCHANGED <<daemonVars, connVars, registry, nextId, waiters, wireVars, clones, target,
                 rid, inbox>>

TimeOut(k) ==
  /\ caller[k] = "waiting" /\ inbox[k] = None
  /\ caller' = [caller EXCEPT ![k] = "expired"]
  /\ UNCHANGED <<daemonVars, connVars, registry, nextId, waiters, wireVars, clones, target,
                 rid, inbox>>

RemoveWaiter(k) ==
  /\ caller[k] = "expired" /\ GiveUp(k)
  /\ UNCHANGED <<daemonVars, connVars, registry, nextId, wireVars, clones>>

-----------------------------------------------------------------------------
DaemonStep(d) == Connect(d) \/ Answer(d) \/ EndSession(d) \/ Restart(d)
HandlerStep(c) == ReceiveHello(c) \/ Register(c) \/ PollResult(c) \/ BreakLoop(c) \/ Remove(c)
LinkStep(c) == BreakLink(c) \/ CloseSocket(c)
SendStep(k) == LockWire(k) \/ SendInvoke(k)
InvokeStep(k) == InsertWaiter(k) \/ ReceiveOutcome(k) \/ TimeOut(k) \/ RemoveWaiter(k)

Next ==
  \/ \E d \in Devices : DaemonStep(d)
  \/ \E c \in Conns : HandlerStep(c) \/ LinkStep(c)
  \/ \E k \in Callers : StartTurn(k) \/ Invoke(k) \/ SendStep(k) \/ InvokeStep(k)

Spec == Init /\ [][Next]_vars

\* A caller's thread runs on and recv_timeout returns after 30 s.  Nothing is
\* assumed of devices, of the network, of the socket's mutex or of the write.
InvokeFairness == \A k \in Callers : WF_vars(InvokeStep(k))
-----------------------------------------------------------------------------
\* Every variable holds a value the code's types allow, and a daemon has a
\* connection exactly while it is in a session.
TypeOK ==
  /\ daemon \in [Devices -> {"sleeping", "session", "exited"}]
  /\ session \in [Devices -> Conns \cup {None}]
  /\ \A d \in Devices : session[d] = None <=> daemon[d] # "session"
  /\ handler \in [Conns -> {"hello", "welcomed", "serving", "removing", "done", "free"}]
  /\ owner \in [Conns -> Devices \cup {None}]
  /\ link \in [Conns -> {"up", "lost", "closed"}] /\ rejected \in SUBSET Conns
  /\ registry \in [Devices -> Conns \cup {None}]
  /\ nextId \in [Conns -> 0..MaxRequests]
  /\ waiters \in [Conns -> [Ids -> Callers \cup {None}]]
  /\ invokes \in [Conns -> SUBSET Tags] /\ results \in [Conns -> SUBSET Tags]
  /\ clones \in [Callers -> SUBSET Conns]
  /\ caller \in [Callers -> {"idle", "issued", "sending", "writing", "waiting", "expired"}]
  /\ target \in [Callers -> Conns \cup {None}] /\ rid \in [Callers -> Ids \cup {0}]
  /\ inbox \in [Callers -> Tags \cup {None}]

\* A device's result goes to the call it answers, "replying late or replying
\* twice" included: no caller is handed the outcome of another call, of an earlier
\* call of its own, or of an earlier connection whose ids were the same
\* (Pending::deliver).
NoMisroutedResult ==
  \A k \in Callers :
    inbox[k] # None => inbox[k] = [id |-> rid[k], conn |-> target[k], from |-> k]

\* The table of pending requests holds nothing but calls still in progress, each
\* under its own id: a call that timed out or failed leaves no waiter behind
\* (WsDevice::invoke).
WaitersAreCallsInProgress ==
  \A c \in Conns : \A i \in Ids : \A k \in Callers :
    waiters[c][i] = k => /\ target[k] = c /\ rid[k] = i /\ inbox[k] = None
                         /\ caller[k] \in {"sending", "writing", "waiting", "expired"}

\* No ghosts: what the registry offers is an accepted connection of that very
\* device whose handler has not returned (handle_connection, DeviceRegistry).
RegistryHasNoGhosts ==
  \A d \in Devices :
    registry[d] # None => /\ owner[registry[d]] = d /\ d \in Trusted
                          /\ handler[registry[d]] \in {"serving", "removing"}

\* A device that stops answering hangs no call whose request it was sent: a call
\* that never returns is one that never got the socket's mutex or whose write never
\* returned (WsDevice::invoke, recv_timeout).
OnlySendingHangs ==
  \A k \in Callers :
    []<>(caller[k] = "idle") \/ <>[](caller[k] \in {"sending", "writing"})

\* websocket.rs:11-13: the wait is "bounded so a device that stops answering ...
\* never hangs a turn forever".  TLC refutes it (README, disagreements): the send
\* before the wait is not bounded.  No run checks it.
InvokeReturns == \A k \in Callers : caller[k] # "idle" ~> caller[k] = "idle"

\* The registry holds "every device currently connected to Nala": while a device
\* has one connection that is being served, its entry is that connection.
ConnectedDevicesAreRegistered ==
  \A c \in Conns :
    (/\ handler[c] = "serving" /\ link[c] = "up"
     /\ \A e \in Conns \ {c} : owner[e] = owner[c] => handler[e] \in {"done", "free"})
      => registry[owner[c]] = c
=============================================================================
