--------------------------- MODULE DeviceLinkProofs ---------------------------
(***************************************************************************)
(* Proofs about DeviceLink for any number of devices, connections, callers *)
(* and requests.                                                           *)
(***************************************************************************)
EXTENDS DeviceLink, TLAPS

-----------------------------------------------------------------------------
(***************************************************************************)
(* Type correctness.                                                       *)
(***************************************************************************)

\* A call in progress has a connection, an id already issued on it, and a clone of
\* the device in its dispatcher.
CallTargets ==
  \A k \in Callers : caller[k] # "idle" =>
    /\ target[k] \in Conns /\ rid[k] \in Ids /\ rid[k] < nextId[target[k]]
    /\ target[k] \in clones[k]

\* A connection past its handshake belongs to a device that was let in.
HandlersAreTrusted ==
  \A c \in Conns :
    /\ handler[c] # "free" => owner[c] \in Devices
    /\ handler[c] \in {"welcomed", "serving", "removing"} => owner[c] \in Trusted

TypeInv == TypeOK /\ CallTargets /\ HandlersAreTrusted

LEMMA TypeInit == Init => TypeInv
<1> SUFFICES ASSUME Init PROVE TypeInv
  OBVIOUS
<1>1. nextId \in [Conns -> 0..MaxRequests]
  BY RequestsAssumption DEF Init
<1>2. TypeOK
  BY <1>1 DEF Init, TypeOK, Ids, Tags
<1>3. CallTargets /\ HandlersAreTrusted
  BY DEF Init, CallTargets, HandlersAreTrusted
<1>4. QED
  BY <1>2, <1>3 DEF TypeInv

LEMMA ConnectedConns == TypeOK => Connected \subseteq Conns
  BY DEF TypeOK, Connected

LEMMA TypeStep == TypeInv /\ [Next]_vars => TypeInv'
<1> SUFFICES ASSUME TypeInv, [Next]_vars PROVE TypeInv'
  OBVIOUS
<1> USE DevicesAssumption, NamesAssumption, RequestsAssumption
<1> USE DEF TypeInv, TypeOK, CallTargets, HandlersAreTrusted
<1>1. ASSUME NEW d \in Devices, Connect(d) PROVE TypeInv'
  BY <1>1 DEF Connect, wireVars, callVars
<1>2. ASSUME NEW d \in Devices, Answer(d) PROVE TypeInv'
  <2>1. PICK c \in Conns : c = session[d]
    BY <1>2 DEF Answer
  <2>2. PICK t \in invokes[c] :
          /\ results' = [results EXCEPT ![c] = @ \cup {t}]
          /\ invokes' = [invokes EXCEPT ![c] = @ \ {t}] \/ invokes' = invokes
    BY <1>2, <2>1 DEF Answer
  <2>3. invokes' \in [Conns -> SUBSET Tags] /\ results' \in [Conns -> SUBSET Tags]
    <3>1. results[c] \cup {t} \in SUBSET Tags /\ invokes[c] \ {t} \in SUBSET Tags
      BY <2>2
    <3>2. results' \in [Conns -> SUBSET Tags]
      BY <2>2, <3>1
    <3>3. invokes' \in [Conns -> SUBSET Tags]
      <4>1. CASE invokes' = [invokes EXCEPT ![c] = @ \ {t}]
        BY <3>1, <4>1
      <4>2. CASE invokes' = invokes
        BY <4>2
      <4>3. QED
        BY <2>2, <4>1, <4>2
    <3>4. QED
      BY <3>2, <3>3
  <2>4. QED
    BY <1>2, <2>3 DEF Answer, daemonVars, connVars, callVars
<1>3. ASSUME NEW d \in Devices, EndSession(d) PROVE TypeInv'
  BY <1>3 DEF EndSession, connVars, wireVars, callVars
<1>4. ASSUME NEW d \in Devices, Restart(d) PROVE TypeInv'
  BY <1>4 DEF Restart, callVars
<1>5. ASSUME NEW c \in Conns, BreakLink(c) PROVE TypeInv'
  BY <1>5 DEF BreakLink, daemonVars, callVars
<1>6. ASSUME NEW c \in Conns, ReceiveHello(c) PROVE TypeInv'
  <2>1. /\ handler' \in [Conns -> {"hello", "welcomed", "serving", "removing", "done", "free"}]
        /\ rejected' \in SUBSET Conns
        /\ \A e \in Conns : handler'[e] = handler[e] \/ e = c
        /\ handler'[c] = "done" \/ (handler'[c] = "welcomed" /\ owner[c] \in Trusted)
        /\ handler[c] = "hello"
    <3>1. CASE owner[c] \in Trusted /\ handler' = [handler EXCEPT ![c] = "welcomed"]
      BY <1>6, <3>1 DEF ReceiveHello
    <3>2. CASE handler' = [handler EXCEPT ![c] = "done"]
      BY <1>6, <3>2 DEF ReceiveHello
    <3>3. QED
      BY <1>6, <3>1, <3>2 DEF ReceiveHello, ValidHello
  <2>2. UNCHANGED <<daemon, session, owner, link, registry, nextId, waiters, invokes, results,
                    clones, caller, target, rid, inbox>>
    BY <1>6 DEF ReceiveHello, daemonVars, wireVars, callVars
  <2>3. QED
    BY <2>1, <2>2
<1>7. ASSUME NEW c \in Conns, Register(c) PROVE TypeInv'
  BY <1>7 DEF Register, daemonVars, wireVars, callVars
<1>8. ASSUME NEW c \in Conns, PollResult(c) PROVE TypeInv'
  BY <1>8 DEF PollResult, Deliver, daemonVars, connVars, Tags
<1>9. ASSUME NEW c \in Conns, BreakLoop(c) PROVE TypeInv'
  BY <1>9 DEF BreakLoop, daemonVars, wireVars, callVars
<1>10. ASSUME NEW c \in Conns, Remove(c) PROVE TypeInv'
  BY <1>10 DEF Remove, daemonVars, wireVars, callVars
<1>11. ASSUME NEW c \in Conns, CloseSocket(c) PROVE TypeInv'
  BY <1>11 DEF CloseSocket, Held, daemonVars, callVars
<1>12. ASSUME NEW k \in Callers, StartTurn(k) PROVE TypeInv'
  BY <1>12, ConnectedConns DEF StartTurn, SyncDevices, daemonVars, connVars, wireVars, callVars
<1>13. ASSUME NEW k \in Callers, Invoke(k) PROVE TypeInv'
  BY <1>13, ConnectedConns DEF Invoke, SyncDevices, FetchAdd, daemonVars, connVars, wireVars, Ids
<1>14. ASSUME NEW k \in Callers, InsertWaiter(k) PROVE TypeInv'
  BY <1>14 DEF InsertWaiter, daemonVars, connVars, wireVars
<1>15. ASSUME NEW k \in Callers, SendInvoke(k) PROVE TypeInv'
  <2>1. target[k] \in Conns /\ rid[k] \in Ids /\ caller[k] = "writing"
    BY <1>15 DEF SendInvoke
  <2>2. CASE caller' = [caller EXCEPT ![k] = "waiting"] /\ UNCHANGED <<waiters, target, rid, inbox>>
    <3>1. [id |-> rid[k], conn |-> target[k], from |-> k] \in Tags
      BY <2>1 DEF Tags
    <3>2. invokes' \in [Conns -> SUBSET Tags]
      <4>1. invokes[target[k]] \cup {[id |-> rid[k], conn |-> target[k], from |-> k]}
              \in SUBSET Tags
        BY <2>1, <3>1
      <4>2. CASE link[target[k]] = "up"
        BY <1>15, <2>1, <2>2, <4>1, <4>2 DEF SendInvoke, GiveUp, EndCall
      <4>3. CASE link[target[k]] # "up"
        BY <1>15, <2>1, <2>2, <4>3 DEF SendInvoke, GiveUp, EndCall
      <4>4. QED
        BY <4>2, <4>3
    <3>3. QED
      BY <1>15, <2>1, <2>2, <3>2 DEF SendInvoke, daemonVars, connVars
  <2>3. CASE GiveUp(k) /\ UNCHANGED invokes
    BY <1>15, <2>1, <2>3 DEF SendInvoke, GiveUp, EndCall, daemonVars, connVars
  <2>4. QED
    BY <1>15, <2>2, <2>3 DEF SendInvoke
<1>16. ASSUME NEW k \in Callers, ReceiveOutcome(k) PROVE TypeInv'
  BY <1>16 DEF ReceiveOutcome, EndCall, daemonVars, connVars, wireVars
<1>17. ASSUME NEW k \in Callers, TimeOut(k) PROVE TypeInv'
  BY <1>17 DEF TimeOut, daemonVars, connVars, wireVars
<1>18. ASSUME NEW k \in Callers, RemoveWaiter(k) PROVE TypeInv'
  BY <1>18 DEF RemoveWaiter, GiveUp, EndCall, daemonVars, connVars, wireVars
<1>19. ASSUME NEW k \in Callers, LockWire(k) PROVE TypeInv'
  BY <1>19 DEF LockWire, daemonVars, connVars, wireVars
<1>20. CASE UNCHANGED vars
  BY <1>20 DEF vars, daemonVars, connVars, wireVars, callVars
<1>21. QED
  BY <1>1, <1>2, <1>3, <1>4, <1>5, <1>6, <1>7, <1>8, <1>9, <1>10, <1>11, <1>12, <1>13,
     <1>14, <1>15, <1>16, <1>17, <1>18, <1>19, <1>20
     DEF Next, DaemonStep, HandlerStep, LinkStep, SendStep, InvokeStep

\* Type correctness of the device link for every number of devices, connections
\* and callers; with it, that a daemon (pc-daemon) holds a connection exactly
\* while it is in a session.
THEOREM DeviceTypeCorrect == Spec => []TypeOK
<1>1. TypeInv => TypeOK
  BY DEF TypeInv
<1>2. QED
  BY <1>1, TypeInit, TypeStep, PTL DEF Spec

-----------------------------------------------------------------------------
(***************************************************************************)
(* The registry.                                                           *)
(***************************************************************************)
LEMMA GhostStep == TypeInv /\ RegistryHasNoGhosts /\ [Next]_vars => RegistryHasNoGhosts'
<1> SUFFICES ASSUME TypeInv, RegistryHasNoGhosts, [Next]_vars PROVE RegistryHasNoGhosts'
  OBVIOUS
<1>0. /\ registry \in [Devices -> Conns \cup {None}]
      /\ handler \in [Conns -> {"hello", "welcomed", "serving", "removing", "done", "free"}]
      /\ owner \in [Conns -> Devices \cup {None}] /\ HandlersAreTrusted
  BY DEF TypeInv, TypeOK
<1> USE <1>0, DevicesAssumption, NamesAssumption DEF RegistryHasNoGhosts, HandlersAreTrusted
<1>1. ASSUME NEW d \in Devices, Connect(d) PROVE RegistryHasNoGhosts'
  BY <1>1 DEF Connect
<1>2. ASSUME NEW c \in Conns, ReceiveHello(c) PROVE RegistryHasNoGhosts'
  BY <1>2 DEF ReceiveHello
<1>3. ASSUME NEW c \in Conns, Register(c) PROVE RegistryHasNoGhosts'
  BY <1>3 DEF Register
<1>4. ASSUME NEW c \in Conns, BreakLoop(c) PROVE RegistryHasNoGhosts'
  BY <1>4 DEF BreakLoop
<1>5. ASSUME NEW c \in Conns, Remove(c) PROVE RegistryHasNoGhosts'
  BY <1>5 DEF Remove
<1>6. ASSUME NEW c \in Conns, CloseSocket(c) PROVE RegistryHasNoGhosts'
  BY <1>6 DEF CloseSocket
<1>7. CASE UNCHANGED <<registry, handler, owner>>
  BY <1>7
<1>8. QED
  BY <1>1, <1>2, <1>3, <1>4, <1>5, <1>6, <1>7
     DEF Next, DaemonStep, HandlerStep, LinkStep, SendStep, InvokeStep, Answer, EndSession,
         Restart, BreakLink, PollResult, StartTurn, Invoke, InsertWaiter, LockWire, SendInvoke,
         ReceiveOutcome, TimeOut, RemoveWaiter, vars, connVars

\* Whatever the order in which connections of a device come and go, the registry
\* (DeviceRegistry) never offers one whose handler has returned, one of another
\* device, or one that was not let in.
THEOREM NoGhosts == Spec => []RegistryHasNoGhosts
<1>1. Init => RegistryHasNoGhosts
  BY DEF Init, RegistryHasNoGhosts
<1>2. QED
  BY <1>1, TypeInit, TypeStep, GhostStep, PTL DEF Spec

-----------------------------------------------------------------------------
(***************************************************************************)
(* Routing.  A result finds its call because no two calls in progress share *)
(* an id of one connection, and because every message on the wire with the *)
(* id of a call in progress is about that call.                            *)
(***************************************************************************)
InProgress(k, c, i) == caller[k] # "idle" /\ target[k] = c /\ rid[k] = i

IdsAreUnique ==
  \A k, j \in Callers : \A c \in Conns : \A i \in Ids :
    InProgress(k, c, i) /\ InProgress(j, c, i) => k = j

MessageOK(c, t) ==
  /\ t.conn = c /\ t.id < nextId[c]
  /\ \A k \in Callers : InProgress(k, c, t.id) => t.from = k

MessagesAreOwn ==
  \A c \in Conns : \A t \in invokes[c] \cup results[c] : MessageOK(c, t)

InboxWhenSent ==
  \A k \in Callers : inbox[k] # None => caller[k] \in {"sending", "writing", "waiting", "expired"}

LEMMA UniqueStep == TypeInv /\ IdsAreUnique /\ [Next]_vars => IdsAreUnique'
<1> SUFFICES ASSUME TypeInv, IdsAreUnique, [Next]_vars PROVE IdsAreUnique'
  OBVIOUS
<1>0. /\ caller \in [Callers -> {"idle", "issued", "sending", "writing", "waiting", "expired"}]
      /\ target \in [Callers -> Conns \cup {None}] /\ rid \in [Callers -> Ids \cup {0}]
      /\ nextId \in [Conns -> 0..MaxRequests] /\ CallTargets
  BY DEF TypeInv, TypeOK
<1> USE <1>0 DEF IdsAreUnique, InProgress
<1>1. ASSUME NEW k \in Callers, Invoke(k) PROVE IdsAreUnique'
  BY <1>1, RequestsAssumption, ConnectedConns
     DEF Invoke, FetchAdd, CallTargets, Ids, TypeInv
<1>2. ASSUME NEW k \in Callers, SendStep(k) \/ InvokeStep(k) PROVE IdsAreUnique'
  BY <1>2 DEF SendStep, InvokeStep, InsertWaiter, LockWire, SendInvoke,
              ReceiveOutcome, TimeOut, RemoveWaiter, GiveUp, EndCall
<1>3. CASE UNCHANGED <<caller, target, rid>>
  BY <1>3
<1>4. QED
  BY <1>1, <1>2, <1>3
     DEF Next, DaemonStep, HandlerStep, LinkStep, Connect, Answer, EndSession, Restart,
         BreakLink, ReceiveHello, Register, PollResult, BreakLoop, Remove, CloseSocket,
         StartTurn, vars, callVars

LEMMA MessagesStep == TypeInv /\ IdsAreUnique /\ MessagesAreOwn /\ [Next]_vars => MessagesAreOwn'
<1> SUFFICES ASSUME TypeInv, IdsAreUnique, MessagesAreOwn, [Next]_vars PROVE MessagesAreOwn'
  OBVIOUS
<1>0. /\ caller \in [Callers -> {"idle", "issued", "sending", "writing", "waiting", "expired"}]
      /\ target \in [Callers -> Conns \cup {None}] /\ rid \in [Callers -> Ids \cup {0}]
      /\ nextId \in [Conns -> 0..MaxRequests] /\ CallTargets
      /\ invokes \in [Conns -> SUBSET Tags] /\ results \in [Conns -> SUBSET Tags]
      /\ session \in [Devices -> Conns \cup {None}]
      /\ \A d \in Devices : session[d] = None <=> daemon[d] # "session"
  BY DEF TypeInv, TypeOK
<1> USE <1>0 DEF MessagesAreOwn, MessageOK, InProgress
<1>1. ASSUME NEW d \in Devices, Answer(d) PROVE MessagesAreOwn'
  BY <1>1 DEF Answer, callVars
<1>2. ASSUME NEW d \in Devices, Restart(d) PROVE MessagesAreOwn'
  BY <1>2 DEF Restart, callVars
<1>3. ASSUME NEW c \in Conns, BreakLink(c) PROVE MessagesAreOwn'
  BY <1>3 DEF BreakLink, callVars
<1>4. ASSUME NEW c \in Conns, PollResult(c) PROVE MessagesAreOwn'
  BY <1>4 DEF PollResult
<1>5. ASSUME NEW c \in Conns, CloseSocket(c) PROVE MessagesAreOwn'
  BY <1>5 DEF CloseSocket, callVars
<1>6. ASSUME NEW k \in Callers, Invoke(k) PROVE MessagesAreOwn'
  BY <1>6, RequestsAssumption, ConnectedConns
     DEF Invoke, FetchAdd, wireVars, TypeInv, Tags, Ids
<1>7. ASSUME NEW k \in Callers, SendInvoke(k) PROVE MessagesAreOwn'
  BY <1>7 DEF SendInvoke, GiveUp, EndCall, CallTargets, IdsAreUnique
<1>8. ASSUME NEW k \in Callers, LockWire(k) \/ InvokeStep(k) PROVE MessagesAreOwn'
  BY <1>8 DEF LockWire, InvokeStep, InsertWaiter, ReceiveOutcome, TimeOut, RemoveWaiter,
              GiveUp, EndCall, wireVars
<1>9. CASE UNCHANGED <<caller, target, rid, nextId, invokes, results>>
  BY <1>9
<1>10. QED
  BY <1>1, <1>2, <1>3, <1>4, <1>5, <1>6, <1>7, <1>8, <1>9
     DEF Next, DaemonStep, HandlerStep, LinkStep, SendStep, Connect, EndSession,
         ReceiveHello, Register, BreakLoop, Remove, StartTurn, vars, callVars, wireVars

LEMMA WaitersStep ==
  /\ TypeInv /\ IdsAreUnique /\ MessagesAreOwn /\ InboxWhenSent /\ WaitersAreCallsInProgress
  /\ NoMisroutedResult /\ [Next]_vars
  => InboxWhenSent' /\ WaitersAreCallsInProgress' /\ NoMisroutedResult'
<1> DEFINE W == InboxWhenSent /\ WaitersAreCallsInProgress /\ NoMisroutedResult
<1> SUFFICES ASSUME TypeInv, IdsAreUnique, MessagesAreOwn, W, [Next]_vars PROVE W'
  OBVIOUS
<1>0. /\ caller \in [Callers -> {"idle", "issued", "sending", "writing", "waiting", "expired"}]
      /\ target \in [Callers -> Conns \cup {None}] /\ rid \in [Callers -> Ids \cup {0}]
      /\ waiters \in [Conns -> [Ids -> Callers \cup {None}]]
      /\ inbox \in [Callers -> Tags \cup {None}] /\ CallTargets
  BY DEF TypeInv, TypeOK
<1> USE <1>0, NamesAssumption DEF InboxWhenSent, WaitersAreCallsInProgress, NoMisroutedResult
<1>1. ASSUME NEW c \in Conns, PollResult(c) PROVE W'
  <2>1. PICK t \in results[c] : Deliver(c, t)
    BY <1>1 DEF PollResult
  <2>2. t \in Tags /\ MessageOK(c, t)
    BY <2>1 DEF TypeInv, TypeOK, MessagesAreOwn
  <2>3. t.id \in Ids /\ t.conn = c /\ t = [id |-> t.id, conn |-> t.conn, from |-> t.from]
    BY <2>2 DEF Tags, MessageOK
  <2>4. ASSUME NEW k \in Callers, waiters[c][t.id] = k
        PROVE  /\ t = [id |-> rid[k], conn |-> target[k], from |-> k]
               /\ caller[k] \in {"sending", "writing", "waiting", "expired"}
    <3>1. /\ target[k] = c /\ rid[k] = t.id
          /\ caller[k] \in {"sending", "writing", "waiting", "expired"}
      BY <2>3, <2>4
    <3>2. t.from = k
      BY <2>2, <3>1 DEF MessageOK, InProgress
    <3>3. QED
      BY <2>3, <3>1, <3>2
  <2>5. UNCHANGED <<caller, target, rid>>
    BY <1>1 DEF PollResult
  <2>6. /\ waiters' = [waiters EXCEPT ![c][t.id] = None]
        /\ inbox' = [k \in Callers |-> IF waiters[c][t.id] = k THEN t ELSE inbox[k]]
    BY <2>1 DEF Deliver
  <2>7. InboxWhenSent' /\ NoMisroutedResult'
    BY <2>4, <2>5, <2>6
  <2>8. ASSUME NEW e \in Conns, NEW i \in Ids, NEW k \in Callers, waiters'[e][i] = k
        PROVE  /\ target'[k] = e /\ rid'[k] = i /\ inbox'[k] = None
               /\ caller'[k] \in {"sending", "writing", "waiting", "expired"}
    <3>1. ~(e = c /\ i = t.id) /\ waiters[e][i] = k
      BY <2>3, <2>6, <2>8
    <3>2. /\ target[k] = e /\ rid[k] = i /\ inbox[k] = None
          /\ caller[k] \in {"sending", "writing", "waiting", "expired"}
      BY <3>1
    <3>3. waiters[c][t.id] # k
      BY <2>3, <3>1, <3>2
    <3>4. QED
      BY <2>5, <2>6, <3>2, <3>3
  <2>9. QED
    BY <2>7, <2>8
<1>2. ASSUME NEW c \in Conns, CloseSocket(c) PROVE W'
  BY <1>2 DEF CloseSocket, callVars
<1>3. ASSUME NEW k \in Callers, Invoke(k) PROVE W'
  BY <1>3 DEF Invoke
<1>4. ASSUME NEW k \in Callers, InsertWaiter(k) PROVE W'
  BY <1>4 DEF InsertWaiter, CallTargets
<1>5. ASSUME NEW k \in Callers, SendInvoke(k) PROVE W'
  <2>1. CASE caller' = [caller EXCEPT ![k] = "waiting"] /\ UNCHANGED <<waiters, target, rid, inbox>>
    BY <1>5, <2>1 DEF SendInvoke
  <2>2. CASE GiveUp(k)
    BY <1>5, <2>2 DEF SendInvoke, GiveUp, EndCall, CallTargets
  <2>3. QED
    BY <1>5, <2>1, <2>2 DEF SendInvoke
<1>6. ASSUME NEW k \in Callers, ReceiveOutcome(k) PROVE W'
  BY <1>6 DEF ReceiveOutcome, EndCall
<1>7. ASSUME NEW k \in Callers, TimeOut(k) PROVE W'
  BY <1>7 DEF TimeOut
<1>8. ASSUME NEW k \in Callers, RemoveWaiter(k) PROVE W'
  BY <1>8 DEF RemoveWaiter, GiveUp, EndCall, CallTargets
<1>9. ASSUME NEW k \in Callers, LockWire(k) PROVE W'
  BY <1>9 DEF LockWire
<1>10. CASE UNCHANGED <<caller, target, rid, inbox, waiters>>
  BY <1>10
<1>11. QED
  BY <1>1, <1>2, <1>3, <1>4, <1>5, <1>6, <1>7, <1>8, <1>9, <1>10
     DEF Next, DaemonStep, HandlerStep, LinkStep, SendStep, InvokeStep, Connect, Answer, EndSession,
         Restart, BreakLink, ReceiveHello, Register, BreakLoop, Remove, StartTurn, vars, callVars

RoutingInv == TypeInv /\ IdsAreUnique /\ MessagesAreOwn /\ InboxWhenSent
                /\ WaitersAreCallsInProgress /\ NoMisroutedResult

LEMMA RoutingHolds == Spec => []RoutingInv
<1>1. Init => RoutingInv
  <2> SUFFICES ASSUME Init PROVE RoutingInv
    OBVIOUS
  <2>1. IdsAreUnique /\ InboxWhenSent /\ NoMisroutedResult
    BY DEF Init, IdsAreUnique, InProgress, InboxWhenSent, NoMisroutedResult
  <2>2. MessagesAreOwn
    BY DEF Init, MessagesAreOwn
  <2>3. WaitersAreCallsInProgress
    BY NamesAssumption DEF Init, WaitersAreCallsInProgress
  <2>4. QED
    BY <2>1, <2>2, <2>3, TypeInit DEF RoutingInv
<1>2. RoutingInv /\ [Next]_vars => RoutingInv'
  BY TypeStep, UniqueStep, MessagesStep, WaitersStep DEF RoutingInv
<1>3. QED
  BY <1>1, <1>2, PTL DEF Spec

\* No device result is handed to a call it does not answer (Pending::deliver), for
\* any number of concurrent calls, connections and late or repeated results.
THEOREM ResultsFindTheirCall == Spec => []NoMisroutedResult
<1>1. RoutingInv => NoMisroutedResult
  BY DEF RoutingInv
<1>2. QED
  BY <1>1, RoutingHolds, PTL

\* A call that failed, timed out or was answered leaves no waiter behind
\* (WsDevice::invoke).
THEOREM NoWaiterLeaks == Spec => []WaitersAreCallsInProgress
<1>1. RoutingInv => WaitersAreCallsInProgress
  BY DEF RoutingInv
<1>2. QED
  BY <1>1, RoutingHolds, PTL
=============================================================================
