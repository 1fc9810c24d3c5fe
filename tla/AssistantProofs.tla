--------------------------- MODULE AssistantProofs ---------------------------
(***************************************************************************)
(* The parts an assistant is used with: its tools (Tools), the MCP clients *)
(* some of them call (McpClient), the memory it shares with every other    *)
(* assistant (Memory), and the queue and the loop that give the autonomous *)
(* one its turns (AutonomousEvents).  Each is proved by itself, for every  *)
(* value of its constants; they share no state.                            *)
(*                                                                         *)
(* Tools: the offer of a turn stays the definitions of the fleet it was    *)
(* made from, and a call goes, from the dispatch on, to a tool of its name *)
(* and, where that is clear, to the place that offered it.                 *)
(* McpClient: a line that holds a result carries, from the server through  *)
(* the pipe and the channel, the id of the request it answers, and the ids *)
(* a server owes an answer to were really given out.                       *)
(* Memory: what to_json writes parse reads back, and an assistant's copy   *)
(* agrees with what was acknowledged on every key it is not known to be    *)
(* behind on.                                                              *)
(* AutonomousEvents: what was handled and what waits is, in order, what    *)
(* was accepted.                                                           *)
(***************************************************************************)
EXTENDS Tools, McpClient, Memory, AutonomousEvents, SequenceTheorems, FiniteSetTheorems, TLAPS

-----------------------------------------------------------------------------
LEMMA WordsAreSeqs == \A n \in Words : n \in Seq(STRING) /\ Len(n) \in Nat \ {0}
<1> SUFFICES ASSUME NEW n \in Words PROVE n \in Seq(STRING) /\ Len(n) \in Nat \ {0}
  OBVIOUS
<1>1. n \in Seq(STRING) /\ n # <<>>
  BY DEF Words
<1> QED BY <1>1, EmptySeq, LenProperties

\* A device's name in front of a capability can be taken off again, and if it is one
\* word, bare_capability does so too.
LEMMA PrefixedName ==
  ASSUME NEW d \in Devices, NEW c \in Words
  PROVE  /\ Prefixed(d, c) \in Words /\ StripPrefix(d, Prefixed(d, c)) = c
         /\ Len(NameOf[d]) = 1 => BareCapability(Prefixed(d, c)) = c
<1> DEFINE n == Prefixed(d, c)
           w == NameOf[d]
           S == STRING
<1>1. n = w \o c /\ w \in Seq(S) /\ c \in Seq(S) /\ Len(w) \in Nat \ {0} /\ Len(c) \in Nat \ {0}
  BY NamesAreWords, WordsAreSeqs DEF Prefixed
<1> HIDE DEF n, w, S
<1>2. n \in Seq(S) /\ Len(n) = Len(w) + Len(c)
  BY <1>1, ConcatProperties
<1>3. \A i \in 1..(Len(w) + Len(c)) : n[i] = IF i <= Len(w) THEN w[i] ELSE c[i - Len(w)]
  BY <1>1, ConcatProperties
<1>4. \A i \in 1..Len(c) : n[i + Len(w)] = c[i]
  BY <1>1, <1>3
<1>5. IsPrefix(w, n)
  <2>1. SubSeq(w, 1, Len(w)) = SubSeq(n, 1, Len(w))
    BY <1>1, <1>2, <1>3
  <2> QED BY <1>1, <1>2, <2>1 DEF IsPrefix
<1>6. SubSeq(n, Len(w) + 1, Len(n)) = c
  <2> DEFINE b == SubSeq(n, Len(w) + 1, Len(n))
  <2>1. b \in Seq(S) /\ Len(b) = Len(c) /\ \A i \in 1..Len(c) : b[i] = n[Len(w) + i]
    BY <1>1, <1>2
  <2> HIDE DEF b
  <2>2. \A i \in 1..Len(c) : b[i] = c[i]
    BY <1>1, <1>4, <2>1
  <2>3. b = c
    BY <1>1, <2>1, <2>2
  <2> QED BY <2>3 DEF b
<1>7. ASSUME Len(w) = 1 PROVE Len(n) > 1 /\ Tail(n) = c
  <2>1. Len(n) > 1 /\ n # <<>>
    BY <1>1, <1>2
  <2>2. Len(Tail(n)) = Len(c) /\ Tail(n) \in Seq(S) /\ \A i \in 1..Len(c) : Tail(n)[i] = c[i]
    BY <1>1, <1>2, <1>4, <1>7, <2>1
  <2>3. Tail(n) = c
    BY <1>1, <2>2
  <2> QED BY <2>1, <2>3
<1>8. StripPrefix(d, n) = c
  <2>1. Len(w) < Len(n)
    BY <1>1, <1>2
  <2> QED BY <1>5, <1>6, <2>1, Zenon DEF StripPrefix, w
<1>9. Len(w) = 1 => BareCapability(n) = c
  BY <1>7 DEF BareCapability
<1>10. n \in Words
  <2>1. n # <<>>
    BY <1>1, <1>2
  <2> QED BY <1>2, <2>1 DEF Words, S
<1> QED BY <1>8, <1>9, <1>10 DEF n, w

\* What is left of a name without the prefix is the name itself, or bears it.
LEMMA Stripped ==
  ASSUME NEW d \in Devices, NEW n \in Words
  PROVE  StripPrefix(d, n) = n \/ Prefixed(d, StripPrefix(d, n)) = n
<1> DEFINE w == NameOf[d]
           S == STRING
<1>1. w \in Seq(S) /\ n \in Seq(S) /\ Len(w) \in Nat \ {0} /\ Len(n) \in Nat \ {0}
  BY NamesAreWords, WordsAreSeqs
<1> SUFFICES ASSUME IsPrefix(w, n), Len(w) < Len(n)
             PROVE  w \o SubSeq(n, Len(w) + 1, Len(n)) = n
  BY DEF StripPrefix, Prefixed
<1> DEFINE b == SubSeq(n, Len(w) + 1, Len(n))
           m == w \o b
<1> HIDE DEF w, S
<1>2. SubSeq(w, 1, Len(w)) = SubSeq(n, 1, Len(w))
  BY DEF IsPrefix
<1>3. \A i \in 1..Len(w) : w[i] = n[i]
  <2> SUFFICES ASSUME NEW i \in 1..Len(w) PROVE w[i] = n[i]
    OBVIOUS
  <2>1. SubSeq(w, 1, Len(w))[i] = w[i] /\ SubSeq(n, 1, Len(w))[i] = n[i]
    BY <1>1
  <2> QED BY <1>2, <2>1
<1>4. b \in Seq(S) /\ Len(b) = Len(n) - Len(w) /\ \A i \in 1..Len(b) : b[i] = n[Len(w) + i]
  BY <1>1
<1> HIDE DEF b
<1>5. m \in Seq(S) /\ Len(m) = Len(w) + Len(b)
  BY <1>1, <1>4, ConcatProperties
<1>6. \A i \in 1..(Len(w) + Len(b)) : m[i] = IF i <= Len(w) THEN w[i] ELSE b[i - Len(w)]
  BY <1>1, <1>4, ConcatProperties
<1> HIDE DEF m
<1>7. Len(m) = Len(n)
  BY <1>1, <1>4, <1>5
<1>8. ASSUME NEW i \in 1..Len(n) PROVE m[i] = n[i]
  <2>1. CASE i <= Len(w)
    BY <1>1, <1>3, <1>5, <1>6, <1>7, <2>1
  <2>2. CASE ~(i <= Len(w))
    <3>1. i - Len(w) \in 1..Len(b) /\ Len(w) + (i - Len(w)) = i
      BY <1>1, <1>4, <2>2
    <3> QED BY <1>1, <1>4, <1>5, <1>6, <1>7, <2>2, <3>1
  <2> QED BY <2>1, <2>2
<1>9. m = n
  BY <1>1, <1>5, <1>7, <1>8
<1> QED BY <1>9 DEF m, b

-----------------------------------------------------------------------------
FleetOK(f) == DOMAIN f \subseteq Devices /\ \A d \in DOMAIN f : f[d].allowed \subseteq Capabilities

\* The devices that publish n under their own name, and those that have it as a capability.
Exact(f, n)  == {d \in DOMAIN f : \E c \in Announced(f[d].allowed) : Prefixed(d, c) = n}
HaveIt(f, n) == {d \in DOMAIN f : n \in Announced(f[d].allowed)}

\* Where a call goes that no device takes.
Static(n) ==
  IF n \in Natives THEN {Place("native", "nala", n)}
  ELSE IF n \in McpNames THEN {Place("mcp", FirstServer(n), n)}
  ELSE {Nowhere}

LEMMA RoutesByCase ==
  ASSUME NEW f, NEW n
  PROVE  Routes(f, n) =
           IF Exact(f, n) # {} THEN {Place("device", d, StripPrefix(d, n)) : d \in Exact(f, n)}
           ELSE IF Cardinality(HaveIt(f, n)) = 1
           THEN {Place("device", d, StripPrefix(d, n)) : d \in HaveIt(f, n)}
           ELSE Static(n)
<1>1. CASE Exact(f, n) # {}
  BY <1>1 DEF Routes, Exact, HaveIt, Bare, Static, ServerFor
<1>2. CASE Exact(f, n) = {} /\ Cardinality(HaveIt(f, n)) = 1
  BY <1>2 DEF Routes, Exact, HaveIt, Bare, Static, ServerFor
<1>3. CASE Exact(f, n) = {} /\ Cardinality(HaveIt(f, n)) # 1
  BY <1>3 DEF Routes, Exact, HaveIt, Bare, Static, ServerFor
<1> QED BY <1>1, <1>2, <1>3

LEMMA AnnouncedAreNames ==
  ASSUME NEW f, FleetOK(f), NEW d \in DOMAIN f, NEW c \in Announced(f[d].allowed)
  PROVE  d \in Devices /\ c \in Capabilities /\ c \in Words
BY NamesAreWords DEF FleetOK, Announced

LEMMA McpNamesAreNames ==
  ASSUME toolsets \in Seq(Servers), NEW n \in McpNames
  PROVE  n \in Words /\ \E s \in Servers : n \in Published[s]
<1>1. PICK i \in DOMAIN toolsets : n \in Published[toolsets[i]]
  BY DEF McpNames
<1>2. toolsets[i] \in Servers
  OBVIOUS
<1> QED BY <1>1, <1>2, NamesAreWords

\* Wherever a call goes, there is a tool of that name.
LEMMA RouteBears ==
  ASSUME NEW f, FleetOK(f), NEW n \in Words, NEW p \in Routes(f, n), p # Nowhere
  PROVE  Bears(p, n)
<1>1. ASSUME NEW d \in Devices, p = Place("device", d, StripPrefix(d, n)) PROVE Bears(p, n)
  <2>1. p.kind = "device" /\ p.who = d /\ p.tool = StripPrefix(d, n)
    BY <1>1 DEF Place
  <2> QED BY <2>1, Stripped DEF Bears
<1>2. CASE \E d \in DOMAIN f : p = Place("device", d, StripPrefix(d, n))
  BY <1>1, <1>2 DEF FleetOK
<1>3. CASE p \in Static(n)
  BY <1>3 DEF Static, Place, Bears
<1>4. (\E d \in DOMAIN f : p = Place("device", d, StripPrefix(d, n))) \/ p \in Static(n)
  <2>1. CASE Exact(f, n) # {}
    BY <2>1, RoutesByCase DEF Exact
  <2>2. CASE Exact(f, n) = {} /\ Cardinality(HaveIt(f, n)) = 1
    BY <2>2, RoutesByCase DEF HaveIt
  <2>3. CASE Exact(f, n) = {} /\ Cardinality(HaveIt(f, n)) # 1
    BY <2>3, RoutesByCase
  <2> QED BY <2>1, <2>2, <2>3
<1> QED BY <1>2, <1>3, <1>4

\* A device's tool whose name is clear goes to that device, or nowhere.
LEMMA RouteOfPrefixed ==
  ASSUME NEW f, FleetOK(f), NEW d \in Devices, NEW c \in Capabilities,
         toolsets \in Seq(Servers), ClearName(Prefixed(d, c)),
         NEW p \in Routes(f, Prefixed(d, c)), p # Nowhere
  PROVE  p = Place("device", d, c)
<1> DEFINE n == Prefixed(d, c)
<1>1. c \in Words /\ StripPrefix(d, n) = c
  BY NamesAreWords, PrefixedName
<1>2. /\ \A e \in Devices : (\E b \in Capabilities : Prefixed(e, b) = n) => e = d
      /\ n \notin Capabilities \cup Natives /\ ~\E s \in Servers : n \in Published[s]
  BY DEF ClearName
<1> HIDE DEF n
<1>3. ASSUME NEW e \in Exact(f, n) PROVE e = d
  <2>1. e \in DOMAIN f /\ \E b \in Announced(f[e].allowed) : Prefixed(e, b) = n
    BY DEF Exact
  <2>2. e \in Devices /\ \E b \in Capabilities : Prefixed(e, b) = n
    BY <2>1, AnnouncedAreNames
  <2> QED BY <1>2, <2>2
<1>4. HaveIt(f, n) = {}
  BY <1>2 DEF HaveIt, Announced
<1>5. Cardinality(HaveIt(f, n)) = 0
  BY <1>4, FS_EmptySet
<1>6. Static(n) = {Nowhere}
  BY <1>2, McpNamesAreNames DEF Static
<1>7. p \in Routes(f, n)
  BY DEF n
<1>8. p \in {Place("device", e, StripPrefix(e, n)) : e \in Exact(f, n)}
  BY <1>5, <1>6, <1>7, RoutesByCase
<1> QED BY <1>1, <1>3, <1>8 DEF n

\* A tool of Nala's own whose name is clear goes to a device that has it, under that
\* name or as something that is no capability, or to Nala's own.
LEMMA RouteOfName ==
  ASSUME NEW f, FleetOK(f), NEW n \in Words, ClearName(n), toolsets \in Seq(Servers),
         n \in Natives \cup McpNames, NEW p \in Routes(f, n)
  PROVE  \/ p \in Static(n)
         \/ p.kind = "device" /\ (p.tool = n \/ p.tool \notin Capabilities)
<1>1. \A d \in Devices, c \in Capabilities : Prefixed(d, c) # n
  BY McpNamesAreNames DEF ClearName
<1>2. Exact(f, n) = {}
  BY <1>1, AnnouncedAreNames DEF Exact
<1>3. ASSUME NEW d \in HaveIt(f, n), p = Place("device", d, StripPrefix(d, n))
      PROVE  p.kind = "device" /\ (p.tool = n \/ p.tool \notin Capabilities)
  <2>1. d \in Devices
    BY DEF HaveIt, FleetOK
  <2>2. p.kind = "device" /\ p.tool = StripPrefix(d, n)
    BY <1>3 DEF Place
  <2> QED BY <1>1, <2>1, <2>2, Stripped
<1> QED BY <1>2, <1>3, RoutesByCase

-----------------------------------------------------------------------------
\* What a turn offers: the tools of its devices, and those of Nala's that no device
\* with a one-word name has.
LEMMA OfferedTools ==
  ASSUME NEW f, FleetOK(f), NEW t \in Definitions(f), toolsets \in Seq(Servers)
  PROVE  \/ \E d \in DOMAIN f : \E c \in Announced(f[d].allowed) :
              t = [name |-> Prefixed(d, c), at |-> Place("device", d, c)]
         \/ /\ t.name \in Natives \cup McpNames /\ t.at.kind # "device"
            /\ ClearName(t.name) => t.at \in Static(t.name)
            /\ \A d \in DOMAIN f : Len(NameOf[d]) = 1 => t.name \notin Announced(f[d].allowed)
<1>1. CASE t \in DeviceTools(f)
  <2>1. \E d \in DOMAIN f : \E c \in Announced(f[d].allowed) :
          t = [name |-> Prefixed(d, c), at |-> Place("device", d, c)]
    BY <1>1 DEF DeviceTools
  <2> QED BY <2>1
<1>2. CASE t \in StaticTools /\ ~Shadowed(t.name, DeviceTools(f))
  <2>1. \/ \E n \in Natives \ McpNames : t = [name |-> n, at |-> Place("native", "nala", n)]
        \/ \E n \in McpNames : t = [name |-> n, at |-> Place("mcp", FirstServer(n), n)]
    BY <1>2 DEF StaticTools
  <2>2. t.name \in Natives \cup McpNames /\ t.at.kind # "device"
    BY <2>1 DEF Place
  <2>3. ASSUME ClearName(t.name) PROVE t.at \in Static(t.name)
    <3>1. ~(t.name \in Natives /\ t.name \in McpNames)
      BY <2>3, McpNamesAreNames DEF ClearName
    <3> QED BY <2>1, <3>1 DEF Static
  <2>4. ASSUME NEW d \in DOMAIN f, Len(NameOf[d]) = 1, t.name \in Announced(f[d].allowed)
        PROVE  FALSE
    <3> DEFINE u == [name |-> Prefixed(d, t.name), at |-> Place("device", d, t.name)]
    <3>1. u \in DeviceTools(f)
      BY <2>4 DEF DeviceTools
    <3>2. d \in Devices /\ t.name \in Words
      BY <2>4, AnnouncedAreNames
    <3>3. BareCapability(u.name) = t.name
      BY <2>4, <3>2, PrefixedName
    <3> QED BY <1>2, <3>1, <3>3 DEF Shadowed
  <2> QED BY <2>2, <2>3, <2>4
<1> QED BY <1>1, <1>2 DEF Definitions

LEMMA OfferedNames ==
  ASSUME NEW f, FleetOK(f), NEW t \in Definitions(f), toolsets \in Seq(Servers)
  PROVE  t.name \in Words
<1>1. ASSUME NEW d \in DOMAIN f, NEW c \in Announced(f[d].allowed),
             t = [name |-> Prefixed(d, c), at |-> Place("device", d, c)]
      PROVE  t.name \in Words
  <2>1. d \in Devices /\ c \in Words
    BY AnnouncedAreNames
  <2> QED BY <1>1, <2>1, PrefixedName
<1>2. CASE t.name \in Natives \cup McpNames
  BY <1>2, McpNamesAreNames, NamesAreWords
<1> QED BY <1>1, <1>2, OfferedTools

-----------------------------------------------------------------------------
\* A place p for a call of n, as RunsWhereOffered allows it by an offer made from the fleet f.
TookOver(n, p, t, f) ==
  /\ t.at.kind # "device" /\ p.kind = "device" /\ p.tool = n
  /\ (p.who \in DOMAIN f /\ Len(NameOf[p.who]) = 1) => n \notin Announced(f[p.who].allowed)
WhereOffered(n, p, offer, f) ==
  ClearName(n) => \A t \in offer : t.name = n => p = t.at \/ TookOver(n, p, t, f)

\* A device is asked for something it does not have: nothing will run.
InVain(p) == p.kind = "device" /\ p.tool \notin Capabilities

\* That holds already of where a call is sent: with whatever devices there are by then, it goes
\* where the offer said, or nowhere, or to a device that took over a tool of Nala's own.
LEMMA SentWhereOffered ==
  ASSUME NEW f, FleetOK(f), NEW g, FleetOK(g), toolsets \in Seq(Servers),
         NEW n \in Words, NEW p \in Routes(g, n), p # Nowhere, ~InVain(p)
  PROVE  WhereOffered(n, p, Definitions(f), f)
<1> SUFFICES ASSUME ClearName(n), NEW t \in Definitions(f), t.name = n
             PROVE  p = t.at \/ TookOver(n, p, t, f)
  BY DEF WhereOffered
<1>1. ASSUME NEW d \in DOMAIN f, NEW c \in Announced(f[d].allowed),
             t = [name |-> Prefixed(d, c), at |-> Place("device", d, c)]
      PROVE  p = t.at
  <2>1. d \in Devices /\ c \in Capabilities
    BY AnnouncedAreNames
  <2>2. n = Prefixed(d, c) /\ t.at = Place("device", d, c)
    BY <1>1
  <2> QED BY <2>1, <2>2, RouteOfPrefixed
<1>2. CASE /\ n \in Natives \cup McpNames /\ t.at.kind # "device" /\ t.at \in Static(n)
           /\ \A d \in DOMAIN f : Len(NameOf[d]) = 1 => n \notin Announced(f[d].allowed)
  <2>1. \E q : Static(n) = {q}
    BY DEF Static
  <2>2. p \in Static(n) \/ (p.kind = "device" /\ p.tool = n)
    BY <1>2, RouteOfName DEF InVain
  <2> QED BY <1>2, <2>1, <2>2 DEF TookOver
<1> QED BY <1>1, <1>2, OfferedTools

\* Between routing and running nothing is decided again, so the place a routed call has is the
\* one that counts.
ToolInv ==
  /\ toolsets \in Seq(Servers) /\ FleetOK(fleet) /\ FleetOK(fleetThen)
  /\ turn \in {"idle", "turn", "routed"}
  /\ turn = "idle" => ran = Nowhere
  /\ turn # "idle" => offered = Definitions(fleetThen)
  /\ turn = "routed" => /\ Bears(call.to, call.name)
                        /\ InVain(call.to) \/ WhereOffered(call.name, call.to, offered, fleetThen)
  /\ turn = "turn" /\ ran # Nowhere => /\ Bears(ran, call.name)
                                       /\ WhereOffered(call.name, ran, offered, fleetThen)

LEMMA ToolInit == Init => ToolInv
<1> SUFFICES ASSUME Init PROVE ToolInv
  OBVIOUS
<1>1. DOMAIN <<>> = {}
  OBVIOUS
<1>2. FleetOK(fleet) /\ FleetOK(fleetThen)
  BY <1>1 DEF Init, FleetOK
<1>3. toolsets \in Seq(Servers)
  <2>1. PICK n \in 0..Cardinality(Servers) : toolsets \in [1..n -> Servers]
    BY DEF Init
  <2> QED BY <2>1
<1> QED BY <1>2, <1>3 DEF Init, ToolInv

\* The offer depends only on the MCP servers, which do not change, and on the fleet.
LEMMA SameDefinitions ==
  ASSUME UNCHANGED <<toolsets, fleetThen>>
  PROVE  Definitions(fleetThen)' = Definitions(fleetThen)
BY DEF Definitions, DeviceTools, StaticTools, McpNames, FirstServer, Shadowed, Announced,
       Prefixed, Place, BareCapability

LEMMA ToolStep == ToolInv /\ [Next]_vars => ToolInv'
<1> SUFFICES ASSUME ToolInv, [Next]_vars PROVE ToolInv'
  OBVIOUS
<1>a. toolsets' = toolsets
  BY DEF Next, DeviceConnects, DeviceLeaves, StartTurn, EndTurn, Dispatch, RunNative, RunOnDevice,
         RunMcp, vars
<1>b. ASSUME UNCHANGED <<turn, offered, fleetThen, call, ran>>, FleetOK(fleet') PROVE ToolInv'
  <2>1. Definitions(fleetThen)' = Definitions(fleetThen)
    BY <1>a, <1>b, SameDefinitions
  <2>2. FleetOK(fleetThen)' /\ FleetOK(fleet)' /\ Nowhere' = Nowhere
    BY <1>b DEF ToolInv, FleetOK, Nowhere
  <2>3. /\ WhereOffered(call.name, call.to, offered, fleetThen)' = WhereOffered(call.name, call.to, offered, fleetThen)
        /\ WhereOffered(call.name, ran, offered, fleetThen)' = WhereOffered(call.name, ran, offered, fleetThen)
        /\ Bears(ran, call.name)' = Bears(ran, call.name) /\ Bears(call.to, call.name)' = Bears(call.to, call.name)
        /\ InVain(call.to)' = InVain(call.to)
    BY <1>b DEF WhereOffered, TookOver, ClearName, Announced, Bears, InVain, Prefixed
  <2> QED BY <1>a, <1>b, <2>1, <2>2, <2>3 DEF ToolInv
<1>1. ASSUME NEW d \in Devices, DeviceConnects(d) PROVE ToolInv'
  <2>1. PICK allowed \in SUBSET Capabilities :
          fleet' = [e \in DOMAIN fleet \cup {d} |->
                     IF e = d THEN [allowed |-> allowed, connection |-> connects'] ELSE fleet[e]]
    BY <1>1 DEF DeviceConnects
  <2>2. FleetOK(fleet')
    BY <2>1 DEF ToolInv, FleetOK
  <2> QED BY <1>1, <1>b, <2>2 DEF DeviceConnects
<1>2. ASSUME NEW d \in Devices, DeviceLeaves(d) PROVE ToolInv'
  <2>1. FleetOK(fleet')
    BY <1>2 DEF DeviceLeaves, ToolInv, FleetOK
  <2> QED BY <1>2, <1>b, <2>1 DEF DeviceLeaves
<1>3. CASE StartTurn
  <2>1. turn' = "turn" /\ ran' = Nowhere /\ fleet' = fleet /\ fleetThen' = fleet
        /\ offered' = Definitions(fleet)
    BY <1>3 DEF StartTurn, ToolInv, devs
  <2>2. Definitions(fleetThen)' = Definitions(fleet)
    BY <1>a, <2>1 DEF Definitions, DeviceTools, StaticTools, McpNames, FirstServer, Shadowed,
                      Announced, Prefixed, Place, BareCapability
  <2> QED BY <1>a, <2>1, <2>2 DEF ToolInv, FleetOK, Nowhere
<1>4. CASE EndTurn
  <2>1. DOMAIN <<>> = {}
    OBVIOUS
  <2> QED BY <1>4, <1>a, <2>1 DEF EndTurn, ToolInv, FleetOK, devs, Nowhere
<1>5. CASE Dispatch
  <2>1. PICK n \in {t.name : t \in offered} \cup Natives : \E p \in Routes(fleet, n) :
          /\ call'.name = n /\ call'.to = p
          /\ IF p = Nowhere THEN turn' = "turn" /\ ran' = Nowhere ELSE turn' = "routed"
    BY <1>5 DEF Dispatch
  <2>2. PICK p \in Routes(fleet, n) :
          /\ call'.name = n /\ call'.to = p
          /\ IF p = Nowhere THEN turn' = "turn" /\ ran' = Nowhere ELSE turn' = "routed"
    BY <2>1
  <2>3. turn = "turn" /\ UNCHANGED <<fleet, offered, fleetThen>>
    BY <1>5 DEF Dispatch, devs
  <2>4. FleetOK(fleet') /\ FleetOK(fleetThen') /\ (offered = Definitions(fleetThen))'
    BY <1>a, <2>3, SameDefinitions DEF ToolInv, FleetOK
  <2>n. n \in Words
    <3>1. \A t \in offered : t.name \in Words
      BY <2>3, OfferedNames DEF ToolInv
    <3> QED BY <3>1, NamesAreWords
  <2>5. p # Nowhere => /\ Bears(p, n)
                       /\ InVain(p) \/ WhereOffered(n, p, offered, fleetThen)
    BY <2>3, <2>n, SentWhereOffered, RouteBears DEF ToolInv
  <2>6. (turn = "routed" => /\ Bears(call.to, call.name)
                            /\ InVain(call.to) \/ WhereOffered(call.name, call.to, offered, fleetThen))'
    BY <2>2, <2>3, <2>5 DEF WhereOffered, TookOver, ClearName, Announced, Bears, InVain, Prefixed
  <2>7. turn' \in {"turn", "routed"} /\ (turn' = "turn" => ran' = Nowhere')
    BY <2>2 DEF Nowhere
  <2> QED BY <1>a, <2>4, <2>6, <2>7 DEF ToolInv, FleetOK
<1>6. CASE RunNative \/ RunOnDevice \/ RunMcp
  <2>1. turn = "routed" /\ turn' = "turn" /\ UNCHANGED <<fleet, offered, fleetThen, call>>
    BY <1>6 DEF RunNative, RunOnDevice, RunMcp, devs
  <2>2. ran' \in {call.to, Nowhere}
    BY <1>6 DEF RunNative, RunOnDevice, RunMcp
  <2>3. InVain(call.to) => ran' = Nowhere
    <3> SUFFICES ASSUME InVain(call.to) PROVE ran' = Nowhere
      OBVIOUS
    <3>1. RunOnDevice /\ call.to.tool \notin Capabilities
      BY <1>6 DEF RunNative, RunMcp, InVain
    <3>2. ASSUME NEW a PROVE "ok" \notin Invoke(a, call.to.tool)
      BY <3>1 DEF Invoke
    <3> QED BY <3>1, <3>2 DEF RunOnDevice
  <2>4. /\ Bears(call.to, call.name)
        /\ InVain(call.to) \/ WhereOffered(call.name, call.to, offered, fleetThen)
    BY <2>1 DEF ToolInv
  <2>5. (turn = "turn" /\ ran # Nowhere => /\ Bears(ran, call.name)
                                           /\ WhereOffered(call.name, ran, offered, fleetThen))'
    BY <2>1, <2>2, <2>3, <2>4 DEF WhereOffered, TookOver, ClearName, Announced, Bears, Prefixed, Nowhere
  <2>6. (turn # "idle" => offered = Definitions(fleetThen))'
    BY <1>a, <2>1, SameDefinitions DEF ToolInv
  <2> QED BY <1>a, <2>1, <2>5, <2>6 DEF ToolInv, FleetOK
<1>7. CASE UNCHANGED vars
  BY <1>7, <1>b DEF vars, devs, ToolInv, FleetOK
<1> QED BY <1>1, <1>2, <1>3, <1>4, <1>5, <1>6, <1>7 DEF Next

\* What a call runs is a tool of that name, and if only one can have it, it is run where it was
\* offered or not at all, for any devices that come, go and change what they have during the
\* turn, whatever they are called (ToolDispatcher::dispatch); only Nala's own tools may go to a
\* device that took them over.
THEOREM OfferedIsRun == Spec => []RunsWhereOffered
<1>1. ToolInv => RunsWhereOffered
  BY DEF ToolInv, RunsWhereOffered, WhereOffered, TookOver, TakenOver
<1> QED BY <1>1, ToolInit, ToolStep, PTL DEF Spec

-----------------------------------------------------------------------------
LineKinds == Answers \cup {"empty", "noise", "blank", "eof"}

\* The lines a server can write: what holds a result answers the request whose id
\* it carries.
OwnLines ==
  {l \in [id : Nat, kind : LineKinds, for : Nat] :
     l.kind \in Answers => l.for = l.id /\ l.id > 0}

HeardLines == {l \in OwnLines : l.kind # "blank"}

\* Every variable the routing of an answer depends on has its type, and no line
\* on its way is somebody else's answer in disguise.
RoutingOK ==
  /\ client \in {"listing", "connected", "gone"}
  /\ nextId \in Nat \ {0} /\ awaited \in Nat
  /\ owed \subseteq Nat \ {0}
  /\ stdout \in Seq(OwnLines) /\ lines \in Seq(HeardLines)

McpInv == RoutingOK /\ AnswersAreOwn

-----------------------------------------------------------------------------
\* An answer to i, a line of a server's own and the end of the output are lines.
LEMMA AnswerIsALine ==
  ASSUME NEW i \in Nat \ {0}, NEW k \in Answers
  PROVE  Line(i, k, i) \in OwnLines
BY DEF Line, OwnLines, LineKinds, Answers

LEMMA ChatterIsALine == Chatter \subseteq OwnLines
<1>1. \A i \in 0..MaxId : Line(i, "empty", 0) \in OwnLines
  BY DEF Line, OwnLines, LineKinds, Answers
<1>2. Line(0, "noise", 0) \in OwnLines /\ Line(0, "blank", 0) \in OwnLines
  BY DEF Line, OwnLines, LineKinds, Answers
<1> QED BY <1>1, <1>2 DEF Chatter

LEMMA EofIsHeard == Eof \in HeardLines
BY DEF Eof, Line, HeardLines, OwnLines, LineKinds, Answers

\* A return as a result, or as the failure of a tool, is what a line says that
\* was written for the request that waits.
LEMMA OutcomeIsOwn ==
  ASSUME NEW l \in HeardLines, l.kind \notin {"eof", "noise"}, IsMine(l),
         Outcome(l) \in {"ok", "ToolFailed"}
  PROVE  l.for = awaited /\ awaited > 0
<1>1. l.kind \in {"result", "tool_failed", "misshapen", "error", "empty"}
  BY DEF HeardLines, OwnLines, LineKinds, Answers
<1>2. l.kind \in {"result", "tool_failed"}
  BY <1>1 DEF Outcome
<1> QED BY <1>2 DEF HeardLines, OwnLines, Answers, IsMine

-----------------------------------------------------------------------------
LEMMA InitRouted == McpInit => McpInv
BY DEF McpInit, McpInv, RoutingOK, AnswersAreOwn

\* What request() returns: types are kept, and the answer is its own if it
\* was the waiting request's.
LEMMA ReturnRouted ==
  ASSUME McpInv, NEW kind, NEW for, Return(kind, for),
         kind \in {"ok", "ToolFailed"} => for = awaited /\ awaited > 0,
         lines' \in Seq(HeardLines)
  PROVE  McpInv'
<1>1. AnswersAreOwn' BY DEF Return, AnswersAreOwn
<1>2. RoutingOK'
  BY DEF McpInv, RoutingOK, Return, Kill
<1> QED BY <1>1, <1>2 DEF McpInv

LEMMA NextRouted == McpInv /\ [McpNext]_mcpVars => McpInv'
<1> SUFFICES ASSUME McpInv, [McpNext]_mcpVars PROVE McpInv'
  OBVIOUS
<1> USE DEF McpInv
<1>1. CASE CallTool
  BY <1>1 DEF CallTool, Ask, server, RoutingOK, AnswersAreOwn
<1>2. CASE ReadResponse
  <2> DEFINE l == Head(lines)
  <2>1. l \in HeardLines /\ Tail(lines) \in Seq(HeardLines)
    BY <1>2, HeadTailProperties DEF ReadResponse, RoutingOK
  <2>2. lines' \in Seq(HeardLines)
    BY <1>2, <2>1 DEF ReadResponse
  <2> HIDE DEF l
  <2>3. CASE l.kind = "eof" /\ Return("Transport", 0)
    BY <2>2, <2>3, ReturnRouted
  <2>4. CASE l.kind = "noise" /\ Return("Protocol", 0)
    BY <2>2, <2>4, ReturnRouted
  <2>5. CASE l.kind \notin {"eof", "noise"} /\ IsMine(l) /\ Return(Outcome(l), l.for)
    <3>1. Outcome(l) \in {"ok", "ToolFailed"} => l.for = awaited /\ awaited > 0
      BY <2>1, <2>5, OutcomeIsOwn
    <3> QED BY <2>2, <2>5, <3>1, ReturnRouted
  <2>6. CASE UNCHANGED <<asker, server, reader>>
    BY <2>2, <2>6 DEF asker, server, RoutingOK, AnswersAreOwn
  <2> QED BY <1>2, <2>3, <2>4, <2>5, <2>6 DEF ReadResponse, l
<1>3. CASE ReadTimesOut
  <2>1. lines' \in Seq(HeardLines) BY <1>3 DEF ReadTimesOut, RoutingOK
  <2> QED BY <1>3, <2>1, ReturnRouted DEF ReadTimesOut
<1>4. CASE DropClient
  BY <1>4 DEF DropClient, Kill, RoutingOK, AnswersAreOwn
<1>5. CASE ReadLine
  <2>1. UNCHANGED <<client, nextId, awaited, answer, owed>>
    BY <1>5 DEF ReadLine, asker
  <2>2. CASE stdout # <<>>
    <3>1. Head(stdout) \in OwnLines /\ Tail(stdout) \in Seq(OwnLines)
      BY <2>2, HeadTailProperties DEF RoutingOK
    <3>2. stdout' \in Seq(OwnLines)
      BY <1>5, <2>2, <3>1 DEF ReadLine
    <3>3. lines' = lines \/ (Head(stdout).kind # "blank" /\ lines' = Append(lines, Head(stdout)))
      BY <1>5, <2>2 DEF ReadLine
    <3>4. lines' \in Seq(HeardLines)
      BY <3>1, <3>3, AppendProperties DEF HeardLines, RoutingOK
    <3> QED BY <2>1, <3>2, <3>4 DEF RoutingOK, AnswersAreOwn
  <2>3. CASE stdout = <<>>
    <3>1. stdout' = stdout /\ (lines' = lines \/ lines' = Append(lines, Eof))
      BY <1>5, <2>3 DEF ReadLine
    <3>2. lines' \in Seq(HeardLines)
      BY <3>1, EofIsHeard, AppendProperties DEF RoutingOK
    <3> QED BY <2>1, <3>1, <3>2 DEF RoutingOK, AnswersAreOwn
  <2> QED BY <2>2, <2>3
<1>6. CASE ServerAnswers
  <2>1. PICK i \in owed, k \in Answers : Writes(Line(i, k, i)) /\ owed' = owed \ {i}
    BY <1>6 DEF ServerAnswers
  <2>2. Line(i, k, i) \in OwnLines BY <2>1, AnswerIsALine DEF RoutingOK
  <2>3. stdout' \in Seq(OwnLines)
    BY <2>1, <2>2, AppendProperties DEF Writes, RoutingOK
  <2> QED BY <1>6, <2>1, <2>3 DEF ServerAnswers, asker, RoutingOK, AnswersAreOwn
<1>7. CASE ServerChatters
  <2>1. PICK l \in Chatter : Writes(l) BY <1>7 DEF ServerChatters
  <2>2. stdout' \in Seq(OwnLines)
    BY <2>1, ChatterIsALine, AppendProperties DEF Writes, RoutingOK
  <2> QED BY <1>7, <2>2 DEF ServerChatters, asker, RoutingOK, AnswersAreOwn
<1>8. CASE ServerCloses
  BY <1>8 DEF ServerCloses, asker, RoutingOK, AnswersAreOwn
<1>9. CASE SendLine
  <2>1. CASE sent' = TRUE /\ UNCHANGED <<client, nextId, awaited, answer, stdout, lines>>
    <3>1. owed' \subseteq owed \cup {awaited} /\ awaited # 0
      BY <1>9, <2>1 DEF SendLine, Return
    <3> QED BY <2>1, <3>1 DEF RoutingOK, AnswersAreOwn
  <2>2. CASE Return("Transport", 0) /\ lines' = IF client' = "gone" THEN <<>> ELSE lines
    <3>1. lines' \in Seq(HeardLines) BY <2>2 DEF RoutingOK
    <3> QED BY <2>2, <3>1, ReturnRouted
  <2> QED BY <1>9, <2>1, <2>2 DEF SendLine
<1>10. CASE UNCHANGED mcpVars
  BY <1>10 DEF mcpVars, asker, server, RoutingOK, AnswersAreOwn
<1> QED BY <1>1, <1>2, <1>3, <1>4, <1>5, <1>6, <1>7, <1>8, <1>9, <1>10
      DEF McpNext, ClientStep, ServerStep

\* What a request returns as its result was written to answer that very request,
\* for any number of requests that timed out and were answered late
\* (StdioMcpClient::request).
THEOREM OwnAnswers == McpSpec => []AnswersAreOwn
<1>1. McpInv => AnswersAreOwn BY DEF McpInv
<1> QED BY InitRouted, NextRouted, <1>1, PTL DEF McpSpec

-----------------------------------------------------------------------------
\* What a store can hold, and an acknowledgement add to: finitely many keys, each a positive number.
IsFacts(f) ==
  /\ f = [k \in DOMAIN f |-> f[k]]
  /\ DOMAIN f \subseteq Nat \ {0} /\ IsFiniteSet(DOMAIN f)

LEMMA UpsertFacts ==
  ASSUME NEW f, IsFacts(f), NEW k \in Nat \ {0}, NEW v
  PROVE  IsFacts(Upsert(f, k, v))
<1> DEFINE g == Upsert(f, k, v)
<1>1. g = [j \in DOMAIN f \cup {k} |-> IF j = k THEN v ELSE f[j]]
  BY DEF Upsert
<1>2. DOMAIN g = DOMAIN f \cup {k} /\ g = [j \in DOMAIN g |-> g[j]]
  BY <1>1
<1>3. IsFiniteSet(DOMAIN f \cup {k})
  BY FS_AddElement DEF IsFacts
<1> QED BY <1>2, <1>3 DEF IsFacts

\* The keys are numbered without a gap by their order.
LEMMA KeysInOrder ==
  ASSUME NEW S \in SUBSET Nat, IsFiniteSet(S)
  PROVE  /\ Cardinality(S) \in Nat
         /\ \A i \in 1..Cardinality(S) : KeyAt(S, i) \in S
         /\ \A k \in S : \E i \in 1..Cardinality(S) : KeyAt(S, i) = k
<1> DEFINE Up(k) == {j \in S : j <= k}
           n == Cardinality(S)
           rank == [k \in S |-> Cardinality(Up(k))]
<1>1. n \in Nat /\ IsFiniteSet(1..n) /\ Cardinality(1..n) = n
  <2>1. n \in Nat
    BY FS_CardinalityType
  <2> HIDE DEF n
  <2> QED BY <2>1, FS_Interval
<1>2. ASSUME NEW k \in S
      PROVE  /\ Up(k) \in SUBSET S /\ IsFiniteSet(Up(k)) /\ k \in Up(k)
             /\ Cardinality(Up(k)) \in Nat /\ Cardinality(Up(k)) \in 1..n
  <2>1. Up(k) \in SUBSET S /\ k \in Up(k)
    OBVIOUS
  <2> HIDE DEF Up
  <2>2. IsFiniteSet(Up(k)) /\ Cardinality(Up(k)) <= n
    BY <2>1, FS_Subset
  <2>3. Cardinality(Up(k)) \in Nat /\ Cardinality(Up(k)) # 0
    BY <2>1, <2>2, FS_CardinalityType, FS_EmptySet
  <2> QED BY <1>1, <2>1, <2>2, <2>3
<1>3. ASSUME NEW k \in S, NEW l \in S, Cardinality(Up(k)) = Cardinality(Up(l)) PROVE k = l
  <2>1. ASSUME NEW a \in S, NEW b \in S, a < b PROVE Cardinality(Up(a)) # Cardinality(Up(b))
    <3>1. a \in Nat /\ b \in Nat /\ \A j \in S : j \in Nat
      OBVIOUS
    <3>2. \A j \in S : j <= a => j <= b
      BY <2>1, <3>1
    <3>3. Up(a) \in SUBSET Up(b) /\ b \in Up(b) /\ b \notin Up(a)
      <4>1. ~(b <= a) /\ b <= b
        BY <2>1, <3>1
      <4>2. Up(a) \subseteq Up(b)
        BY <3>2
      <4>3. b \in Up(b) /\ b \notin Up(a)
        BY <4>1
      <4> HIDE DEF Up
      <4> QED BY <4>2, <4>3
    <3>4. IsFiniteSet(Up(b)) /\ Cardinality(Up(a)) \in Nat
      BY <1>2
    <3> HIDE DEF Up
    <3>5. Up(a) # Up(b)
      BY <3>3
    <3> QED BY <3>3, <3>4, <3>5, FS_Subset
  <2>2. k \in Nat /\ l \in Nat
    OBVIOUS
  <2> HIDE DEF Up
  <2> QED BY <1>3, <2>1, <2>2
<1> HIDE DEF n, Up
<1>4. rank \in Injection(S, 1..n)
  BY <1>2, <1>3 DEF Injection, IsInjective
<1>5. rank \in Surjection(S, 1..n)
  <2> HIDE DEF rank
  <2> QED BY <1>1, <1>4, FS_Injection DEF n
<1>6. \A i \in 1..n : \E k \in S : Cardinality(Up(k)) = i
  BY <1>5 DEF Surjection
<1>7. \A i \in 1..n : KeyAt(S, i) \in S /\ Cardinality(Up(KeyAt(S, i))) = i
  BY <1>6 DEF KeyAt, Up
<1>8. ASSUME NEW k \in S PROVE \E i \in 1..n : KeyAt(S, i) = k
  <2>1. Cardinality(Up(k)) \in 1..n
    BY <1>2
  <2>2. KeyAt(S, Cardinality(Up(k))) = k
    BY <1>3, <1>7, <2>1
  <2> QED BY <2>1, <2>2
<1> QED BY <1>1, <1>7, <1>8 DEF n

\* What to_json writes, parse reads back.
LEMMA ParseOfJson ==
  ASSUME NEW f, IsFacts(f)
  PROVE  /\ Parse(ToJson(f)) = f
         /\ ToJson(f) \o <<>> = ToJson(f) /\ Len(ToJson(f)) \in Nat
<1> DEFINE S == DOMAIN f
           n == Cardinality(S)
           key(i) == KeyAt(S, i)
           body == [i \in 1..n |-> <<key(i), f[key(i)]>>]
           json == body \o <<End>>
<1>1. /\ n \in Nat /\ \A i \in 1..n : key(i) \in S
      /\ \A k \in S : \E i \in 1..n : key(i) = k
  BY KeysInOrder DEF IsFacts
<1>2. S \subseteq Nat \ {0} /\ f = [k \in S |-> f[k]]
  BY DEF IsFacts
<1>3. json = ToJson(f)
  BY DEF ToJson
<1> HIDE DEF S, n, key
<1> DEFINE Entry == {<<key(i), f[key(i)]>> : i \in 1..n} \cup {End}
<1>4. /\ body \in [1..n -> Entry]
      /\ <<End>> \in Seq(Entry) /\ Len(<<End>>) = 1 /\ <<End>>[1] = End
  OBVIOUS
<1>5. body \in Seq(Entry) /\ Len(body) = n
  BY <1>1, <1>4
<1>6. \A i \in 1..n : body[i] = <<key(i), f[key(i)]>>
  OBVIOUS
<1> HIDE DEF body, Entry
<1>7. json \in Seq(Entry) /\ Len(json) = n + 1
  BY <1>1, <1>4, <1>5, ConcatProperties
<1> DEFINE tail == <<End>>
<1>8. \A i \in 1..(n + 1) : json[i] = IF i <= n THEN body[i] ELSE tail[i - n]
  <2>1. tail \in Seq(Entry) /\ Len(tail) = 1 /\ json = body \o tail
    BY <1>4
  <2> HIDE DEF tail, json
  <2>2. \A i \in 1..(Len(body) + Len(tail)) :
          (body \o tail)[i] = IF i <= Len(body) THEN body[i] ELSE tail[i - Len(body)]
    BY <1>5, <2>1, ConcatProperties
  <2> QED BY <1>5, <2>1, <2>2
<1>9. json[n + 1] = End
  <2>1. tail[1] = End
    BY <1>4
  <2>2. n + 1 \in 1..(n + 1) /\ ~(n + 1 <= n) /\ (n + 1) - n = 1
    BY <1>1
  <2> HIDE DEF tail, json
  <2> QED BY <1>8, <2>1, <2>2
<1> HIDE DEF tail, json
<1>10. \A i \in 1..n : json[i] = <<key(i), f[key(i)]>>
  BY <1>1, <1>6, <1>8
<1>11. \A i \in 1..n : json[i][1] = key(i) /\ json[i][2] = f[key(i)] /\ json[i] # End
  <2> SUFFICES ASSUME NEW i \in 1..n
               PROVE  json[i][1] = key(i) /\ json[i][2] = f[key(i)] /\ json[i] # End
    OBVIOUS
  <2>1. json[i][1] = key(i) /\ json[i][2] = f[key(i)]
    BY <1>10
  <2>2. key(i) # 0
    BY <1>1, <1>2
  <2>3. End[1] = 0
    BY DEF End
  <2> QED BY <2>1, <2>2, <2>3
<1>12. json # <<>> /\ \A i \in 1..Len(json) : json[i] = End <=> i = Len(json)
  <2>1. Len(json) # 0
    BY <1>1, <1>7
  <2>2. \A i \in 1..(n + 1) : i \in 1..n \/ i = n + 1
    BY <1>1
  <2>3. n + 1 \notin 1..n
    BY <1>1
  <2> QED BY <1>7, <1>9, <1>11, <2>1, <2>2, <2>3
<1>13. Len(json) - 1 = n
  BY <1>1, <1>7
<1>14. Parse(json) = [k \in {json[i][1] : i \in 1..n} |->
                        json[CHOOSE i \in 1..n : json[i][1] = k][2]]
  BY <1>12, <1>13 DEF Parse
<1>15. {json[i][1] : i \in 1..n} = S
  BY <1>1, <1>11
<1>16. \A k \in S : json[CHOOSE i \in 1..n : json[i][1] = k][2] = f[k]
  BY <1>1, <1>11
<1>17. Parse(json) = f
  BY <1>2, <1>14, <1>15, <1>16
<1>18. json \o <<>> = json
  BY <1>7, ConcatEmptySeq
<1>19. Len(json) \in Nat
  BY <1>1, <1>7
<1> QED BY <1>3, <1>17, <1>18, <1>19

-----------------------------------------------------------------------------
\* What the file consists of, whole or spoilt, and what a store can hold.
Entries == (Keys \X Values) \cup {End}
Stored == UNION {[D -> Values] : D \in SUBSET Keys}

LEMMA StoredIsFacts == \A f \in Stored : IsFacts(f) /\ DOMAIN f \subseteq Keys /\ \A k \in DOMAIN f : f[k] \in Values
<1> SUFFICES ASSUME NEW f \in Stored
             PROVE  IsFacts(f) /\ DOMAIN f \subseteq Keys /\ \A k \in DOMAIN f : f[k] \in Values
  OBVIOUS
<1>1. PICK D \in SUBSET Keys : f \in [D -> Values]
  BY DEF Stored
<1>2. NumKeys \in Nat
  BY MemoryAssumption
<1>3. IsFiniteSet(Keys) /\ Keys \subseteq Nat \ {0}
  BY <1>2, FS_Interval DEF Keys
<1>4. IsFiniteSet(D)
  BY <1>3, FS_Subset
<1> QED BY <1>1, <1>3, <1>4 DEF IsFacts

LEMMA UpsertStored ==
  ASSUME NEW f \in Stored, NEW k \in Keys, NEW v \in Values
  PROVE  /\ Upsert(f, k, v) \in Stored
         /\ k \in DOMAIN Upsert(f, k, v) /\ Upsert(f, k, v)[k] = v
<1>1. DOMAIN f \subseteq Keys /\ \A j \in DOMAIN f : f[j] \in Values
  BY StoredIsFacts
<1> DEFINE D == DOMAIN f \cup {k}
<1>2. Upsert(f, k, v) \in [D -> Values] /\ D \in SUBSET Keys
  BY <1>1 DEF Upsert
<1> QED BY <1>2 DEF Stored, Upsert

LEMMA JsonOfStored ==
  ASSUME NEW f \in Stored
  PROVE  ToJson(f) \in Seq(Entries) /\ Len(ToJson(f)) \in Nat
<1> DEFINE S == DOMAIN f
           n == Cardinality(S)
           body == [i \in 1..n |-> <<KeyAt(S, i), f[KeyAt(S, i)]>>]
<1>1. IsFacts(f) /\ S \subseteq Keys /\ \A k \in S : f[k] \in Values
  BY StoredIsFacts
<1>2. n \in Nat /\ \A i \in 1..n : KeyAt(S, i) \in S
  BY <1>1, KeysInOrder DEF IsFacts
<1>3. \A i \in 1..n : <<KeyAt(S, i), f[KeyAt(S, i)]>> \in Entries
  BY <1>1, <1>2 DEF Entries
<1> HIDE DEF n
<1>4. body \in Seq(Entries)
  BY <1>2, <1>3
<1> HIDE DEF body
<1>5. <<End>> \in Seq(Entries)
  BY DEF Entries
<1>6. body \o <<End>> \in Seq(Entries)
  BY <1>4, <1>5, ConcatProperties
<1>7. ToJson(f) = body \o <<End>>
  BY DEF ToJson, body, n
<1> QED BY <1>6, <1>7, LenProperties

LEMMA ParseIsStored ==
  ASSUME NEW c \in Seq(Entries)
  PROVE  Parse(c) \in Stored
<1>1. NoFacts \in Stored
  <2>1. <<>> \in [{} -> Values]
    OBVIOUS
  <2> QED BY <2>1 DEF NoFacts, Stored
<1>2. ASSUME c # <<>>, \A i \in 1..Len(c) : c[i] = End <=> i = Len(c)
      PROVE  Parse(c) \in Stored
  <2> DEFINE m == Len(c) - 1
             K == {c[i][1] : i \in 1..m}
             pos(k) == CHOOSE i \in 1..m : c[i][1] = k
             g == [k \in K |-> c[pos(k)][2]]
  <2>1. Len(c) \in Nat /\ \A i \in 1..Len(c) : c[i] \in Entries
    BY ElementOfSeq, LenProperties
  <2>2. \A i \in 1..m : i \in 1..Len(c) /\ c[i] # End
    BY <1>2, <2>1
  <2>3. \A i \in 1..m : c[i][1] \in Keys /\ c[i][2] \in Values
    BY <2>1, <2>2 DEF Entries
  <2>4. Parse(c) = g
    BY <1>2 DEF Parse
  <2> HIDE DEF m
  <2>5. \A k \in K : pos(k) \in 1..m
    OBVIOUS
  <2>6. K \in SUBSET Keys /\ g \in [K -> Values]
    BY <2>3, <2>5
  <2> HIDE DEF K, g
  <2> QED BY <2>4, <2>6 DEF Stored
<1>3. CASE ~(c # <<>> /\ \A i \in 1..Len(c) : c[i] = End <=> i = Len(c))
  BY <1>1, <1>3 DEF Parse
<1> QED BY <1>2, <1>3

\* Whatever is overwritten, the file consists of entries and ends.
LEMMA OverwriteIsEntries ==
  ASSUME NEW c \in Seq(Entries), NEW e \in Seq(Entries)
  PROVE  Overwrite(c, e) \in Seq(Entries)
<1> DEFINE S == Entries
           b == SubSeq(c, Len(e) + 1, Len(c))
<1> HIDE DEF S
<1>1. Len(e) \in Nat /\ Len(c) \in Nat
  BY LenProperties
<1>2. b \in Seq(S)
  <2>1. \A i \in (Len(e) + 1)..Len(c) : c[i] \in S
    BY <1>1, ElementOfSeq DEF S
  <2> QED BY <1>1, <2>1 DEF S
<1> HIDE DEF b
<1>3. e \o b \in Seq(S)
  BY <1>2, ConcatProperties DEF S
<1> QED BY <1>3 DEF Overwrite, b, S

\* What learning a key does to agreement about it and about others.
LEMMA Agreement ==
  ASSUME NEW f, NEW g, NEW j, NEW k, NEW v
  PROVE  /\ Agree(f, f, j)
         /\ j # k /\ Agree(f, g, j) => Agree(Upsert(f, k, v), g, j)
         /\ j # k /\ Agree(f, g, j) => Agree(f, Upsert(g, k, v), j)
         /\ k \in DOMAIN f /\ f[k] = v => Agree(f, Upsert(g, k, v), k)
BY DEF Agree, Upsert

\* A copy f is behind what was acknowledged, g, on the keys u alone, and, in the middle
\* of a save, on the key it was asked to keep.
CopyOK(ph, f, x, u, g) ==
  /\ ph \in {"wiring", "ready"} => \A k \in Keys \ u : Agree(f, g, k)
  /\ ph = "writing" => /\ x[1] \in Keys /\ x[2] \in Values
                       /\ x[1] \in DOMAIN f /\ f[x[1]] = x[2]
                       /\ \A k \in Keys \ (u \cup {x[1]}) : Agree(f, g, k)

KeptInv ==
  /\ DOMAIN phase = Assistants /\ DOMAIN asked = Assistants /\ DOMAIN unseen = Assistants
  /\ tool \in [Assistants -> Stored] /\ file \in Seq(Entries) /\ acked \in Stored
  /\ \A a \in Assistants : CopyOK(phase[a], tool[a], asked[a], unseen[a], acked)
  /\ FactsAreKept

LEMMA KeptInit == MemInit => KeptInv
<1> SUFFICES ASSUME MemInit PROVE KeptInv
  OBVIOUS
<1>1. Parse(<<>>) = NoFacts
  BY DEF Parse
<1>2. NoFacts \in Stored
  <2>1. <<>> \in Seq(Entries)
    OBVIOUS
  <2> QED BY <1>1, <2>1, ParseIsStored
<1>3. /\ DOMAIN phase = Assistants /\ DOMAIN asked = Assistants /\ DOMAIN unseen = Assistants
      /\ tool \in [Assistants -> Stored] /\ file \in Seq(Entries) /\ acked \in Stored
  BY <1>2 DEF MemInit
<1>4. \A a \in Assistants : CopyOK(phase[a], tool[a], asked[a], unseen[a], acked)
  BY DEF MemInit, CopyOK
<1>5. Parse(file) = acked
  BY <1>1 DEF MemInit
<1>6. FactsAreKept
  BY <1>5, Agreement DEF FactsAreKept
<1> QED BY <1>3, <1>4, <1>6 DEF KeptInv

\* A save into the truncated file leaves a file that says what the store holds.
LEMMA SaveIsRead ==
  ASSUME NEW f, IsFacts(f)
  PROVE  Parse(Overwrite(<<>>, ToJson(f))) = f
<1> DEFINE json == ToJson(f)
<1>1. Parse(json) = f /\ json \o <<>> = json /\ Len(json) \in Nat
  BY ParseOfJson
<1> HIDE DEF json
<1>2. SubSeq(<<>>, Len(json) + 1, Len(<<>>)) = <<>>
  BY <1>1
<1> QED BY <1>1, <1>2 DEF Overwrite, json

LEMMA KeptStep == KeptInv /\ [MemNext]_memVars => KeptInv'
<1> SUFFICES ASSUME KeptInv, [MemNext]_memVars PROVE KeptInv'
  OBVIOUS
<1> DEFINE Shapes == DOMAIN phase = Assistants /\ DOMAIN asked = Assistants /\ DOMAIN unseen = Assistants
           Types == tool \in [Assistants -> Stored] /\ file \in Seq(Entries) /\ acked \in Stored
           Copy(a) == CopyOK(phase[a], tool[a], asked[a], unseen[a], acked)
<1>1. Shapes /\ Types /\ FactsAreKept /\ \A a \in Assistants : Copy(a)
  BY DEF KeptInv
<1>2. ASSUME Shapes', Types', FactsAreKept', \A a \in Assistants : Copy(a)' PROVE KeptInv'
  BY <1>2 DEF KeptInv
<1>k. Keys' = Keys
  BY DEF Keys
\* The copies a step does not touch.
<1>c. ASSUME NEW b \in Assistants, phase'[b] = phase[b], tool'[b] = tool[b], asked'[b] = asked[b],
             unseen'[b] = unseen[b], acked' = acked
      PROVE  Copy(b)'
  BY <1>1, <1>c DEF CopyOK, Agree, Keys
<1>g. ASSUME \A j \in Keys \ lost' : Agree(Parse(file'), acked', j) PROVE FactsAreKept'
  BY <1>k, <1>g DEF FactsAreKept, Agree, Parse, NoFacts, End
\* Steps that leave the file and what was acknowledged alone, and start and end no save.
<1>f. ASSUME UNCHANGED <<file, acked, lost>>, Writing' = Writing PROVE FactsAreKept'
  <2>1. CASE Writing # {}
    BY <1>f, <2>1 DEF FactsAreKept
  <2>2. CASE Writing = {}
    <3>1. \A j \in Keys \ lost : Agree(Parse(file), acked, j)
      BY <1>1, <2>2 DEF FactsAreKept
    <3>2. \A j \in Keys \ lost' : Agree(Parse(file'), acked', j)
      BY <1>f, <3>1
    <3> QED BY <1>g, <3>2
  <2> QED BY <2>1, <2>2
<1>3. ASSUME NEW a \in Assistants, Build(a) PROVE KeptInv'
  <2>1. Parse(file) \in Stored
    BY <1>1, ParseIsStored
  <2>2. /\ Shapes' /\ UNCHANGED <<file, asked, acked, lost>>
        /\ tool' = [tool EXCEPT ![a] = Parse(file)] /\ phase' = [phase EXCEPT ![a] = "wiring"]
        /\ unseen' = [unseen EXCEPT ![a] = IF Writing = {} THEN lost ELSE Keys]
        /\ phase[a] = "none"
    BY <1>1, <1>3 DEF Build, NewStore
  <2>3. Types'
    BY <1>1, <2>1, <2>2 DEF Entries, Stored, Keys, End
  <2>4. Writing' = Writing
    BY <1>1, <2>2 DEF Writing
  <2>5. Copy(a)'
    <3>1. tool'[a] = Parse(file) /\ phase'[a] = "wiring" /\ unseen'[a] = IF Writing = {} THEN lost ELSE Keys
      BY <1>1, <2>2
    <3>2. \A k \in Keys \ unseen'[a] : Agree(Parse(file), acked, k)
      BY <1>1, <3>1 DEF FactsAreKept
    <3> QED BY <1>k, <2>2, <3>1, <3>2 DEF CopyOK, Agree
  <2>6. ASSUME NEW b \in Assistants, b # a PROVE Copy(b)'
    BY <1>1, <1>c, <2>2, <2>6
  <2> QED BY <1>2, <1>f, <2>2, <2>3, <2>4, <2>5, <2>6
<1>4. ASSUME NEW a \in Assistants, Wire(a) PROVE KeptInv'
  <2>1. /\ Shapes' /\ UNCHANGED <<file, asked, acked, lost, tool, unseen>>
        /\ phase' = [phase EXCEPT ![a] = "ready"] /\ phase[a] = "wiring"
    BY <1>1, <1>4 DEF Wire, history
  <2>2. Types'
    BY <1>1, <2>1 DEF Entries, Stored, Keys, End
  <2>3. Writing' = Writing
    BY <1>1, <2>1 DEF Writing
  <2>4. Copy(a)'
    BY <1>1, <2>1 DEF CopyOK, Agree, Keys
  <2>5. ASSUME NEW b \in Assistants, b # a PROVE Copy(b)'
    BY <1>1, <1>c, <2>1, <2>5
  <2> QED BY <1>2, <1>f, <2>1, <2>2, <2>3, <2>4, <2>5
<1>5. ASSUME NEW a \in Assistants, Leave(a) PROVE KeptInv'
  <2>1. /\ Shapes' /\ UNCHANGED <<file, asked, acked, lost>>
        /\ phase' = [phase EXCEPT ![a] = "none"] /\ phase[a] = "ready"
        /\ tool' = [tool EXCEPT ![a] = NoFacts] /\ unseen' = [unseen EXCEPT ![a] = {}]
    BY <1>1, <1>5 DEF Leave
  <2>2. NoFacts \in Stored
    <3>1. Parse(<<>>) = NoFacts /\ <<>> \in Seq(Entries)
      BY DEF Parse
    <3> QED BY <3>1, ParseIsStored
  <2>3. Types'
    BY <1>1, <2>1, <2>2 DEF Entries, Stored, Keys, End
  <2>4. Writing' = Writing
    BY <1>1, <2>1 DEF Writing
  <2>5. Copy(a)'
    BY <1>1, <2>1 DEF CopyOK
  <2>6. ASSUME NEW b \in Assistants, b # a PROVE Copy(b)'
    BY <1>1, <1>c, <2>1, <2>6
  <2> QED BY <1>2, <1>f, <2>1, <2>3, <2>4, <2>5, <2>6
<1>6. ASSUME NEW a \in Assistants, Write(a) PROVE KeptInv'
  <2> DEFINE k == asked[a][1]
             v == asked[a][2]
             f == tool[a]
  <2>1. /\ Shapes' /\ phase[a] = "writing" /\ tool' = tool
        /\ phase' = [phase EXCEPT ![a] = "ready"] /\ asked' = [asked EXCEPT ![a] = End]
        /\ file' = Overwrite(file, ToJson(f)) /\ acked' = Upsert(acked, k, v)
        /\ unseen' = [b \in Assistants |-> IF b = a THEN unseen[b] \ {k}
                                         ELSE IF phase[b] = "none" THEN {} ELSE unseen[b] \cup {k}]
        /\ lost' = IF Writing = {a} /\ file = <<>> THEN unseen[a] \ {k} ELSE Keys
    BY <1>1, <1>6 DEF Write
  <2>2. /\ k \in Keys /\ v \in Values /\ k \in DOMAIN f /\ f[k] = v
        /\ \A j \in Keys \ (unseen[a] \cup {k}) : Agree(f, acked, j)
    BY <1>1, <2>1 DEF CopyOK
  <2>3. f \in Stored
    BY <1>1
  <2>4. Types'
    <3>1. acked' \in Stored
      BY <1>1, <2>1, <2>2, UpsertStored
    <3>2. ToJson(f) \in Seq(Entries)
      BY <2>3, JsonOfStored
    <3>3. file' \in Seq(Entries)
      BY <1>1, <2>1, <3>2, OverwriteIsEntries
    <3> QED BY <1>1, <2>1, <3>1, <3>3 DEF Entries, Stored, Keys, End
  <2> HIDE DEF f, k, v
  <2>5. \A j \in Keys \ (unseen[a] \ {k}) : Agree(f, acked', j)
    <3> SUFFICES ASSUME NEW j \in Keys, j \notin unseen[a] \ {k} PROVE Agree(f, acked', j)
      OBVIOUS
    <3>1. CASE j = k
      BY <2>1, <2>2, <3>1, Agreement
    <3>2. CASE j # k
      BY <2>1, <2>2, <3>2, Agreement
    <3> QED BY <3>1, <3>2
  <2>6. Copy(a)'
    <3>1. phase'[a] = "ready" /\ tool'[a] = f /\ unseen'[a] = unseen[a] \ {k}
      BY <1>1, <2>1 DEF f
    <3> QED BY <1>k, <2>5, <3>1 DEF CopyOK, Agree
  <2>7. ASSUME NEW b \in Assistants, b # a PROVE Copy(b)'
    <3>1. /\ phase'[b] = phase[b] /\ tool'[b] = tool[b] /\ asked'[b] = asked[b]
          /\ phase[b] # "none" => unseen'[b] = unseen[b] \cup {k}
      BY <1>1, <2>1, <2>7
    <3>2. Copy(b)
      BY <1>1
    <3>3. \A j : j # k /\ Agree(tool[b], acked, j) => Agree(tool[b], acked', j)
      BY <2>1, Agreement
    <3>4. CASE phase[b] \in {"wiring", "ready"}
      <4>1. \A j \in Keys \ unseen[b] : Agree(tool[b], acked, j)
        BY <3>2, <3>4 DEF CopyOK
      <4>2. unseen'[b] = unseen[b] \cup {k}
        BY <3>1, <3>4
      <4>3. \A j \in Keys \ unseen'[b] : Agree(tool[b], acked', j)
        BY <3>3, <4>1, <4>2
      <4> QED BY <1>k, <3>1, <3>4, <4>3 DEF CopyOK, Agree
    <3>5. CASE phase[b] = "writing"
      <4>1. /\ asked[b][1] \in Keys /\ asked[b][2] \in Values
            /\ asked[b][1] \in DOMAIN tool[b] /\ tool[b][asked[b][1]] = asked[b][2]
            /\ \A j \in Keys \ (unseen[b] \cup {asked[b][1]}) : Agree(tool[b], acked, j)
        BY <3>2, <3>5 DEF CopyOK
      <4>2. unseen'[b] = unseen[b] \cup {k}
        BY <3>1, <3>5
      <4>3. \A j \in Keys \ (unseen'[b] \cup {asked[b][1]}) : Agree(tool[b], acked', j)
        BY <3>3, <4>1, <4>2
      <4> QED BY <1>k, <3>1, <3>5, <4>1, <4>3 DEF CopyOK, Agree
    <3>6. CASE phase[b] \notin {"wiring", "ready", "writing"}
      BY <3>1, <3>6 DEF CopyOK
    <3> QED BY <3>4, <3>5, <3>6
  <2>8. FactsAreKept'
    <3>1. CASE Writing = {a} /\ file = <<>>
      <4>1. lost' = unseen[a] \ {k}
        BY <2>1, <3>1
      <4>2. Parse(file') = f
        BY <2>1, <2>3, <3>1, SaveIsRead, StoredIsFacts DEF f
      <4>3. \A j \in Keys \ lost' : Agree(Parse(file'), acked', j)
        BY <2>5, <4>1, <4>2
      <4> QED BY <1>g, <4>3
    <3>2. CASE ~(Writing = {a} /\ file = <<>>)
      <4>1. lost' = Keys
        BY <2>1, <3>2
      <4> QED BY <1>k, <4>1 DEF FactsAreKept
    <3> QED BY <3>1, <3>2
  <2> QED BY <1>2, <2>1, <2>4, <2>6, <2>7, <2>8
<1>7. ASSUME NEW a \in Assistants, WriteFails(a) PROVE KeptInv'
  <2> DEFINE k == asked[a][1]
             json == ToJson(tool[a])
  <2>1. /\ Shapes' /\ phase[a] = "writing" /\ UNCHANGED <<tool, acked>> /\ lost' = Keys
        /\ phase' = [phase EXCEPT ![a] = "ready"] /\ asked' = [asked EXCEPT ![a] = End]
        /\ unseen' = [unseen EXCEPT ![a] = @ \cup {k}]
        /\ \E n \in Len(file)..(Len(json) - 1) : file' = SubSeq(json, 1, n)
    BY <1>1, <1>7 DEF WriteFails
  <2>2. Types'
    <3>1. tool[a] \in Stored
      BY <1>1
    <3>2. json \in Seq(Entries) /\ Len(json) \in Nat
      BY <3>1, JsonOfStored
    <3> HIDE DEF json
    <3>3. PICK n \in Len(file)..(Len(json) - 1) : file' = SubSeq(json, 1, n)
      BY <2>1
    <3>4. Len(file) \in Nat
      BY <1>1, LenProperties
    <3>5. n \in 0..Len(json)
      BY <3>2, <3>4
    <3> DEFINE S == Entries
    <3> HIDE DEF S
    <3>6. json \in Seq(S) /\ \A i \in 1..Len(json) : json[i] \in S
      BY <3>2, ElementOfSeq DEF S
    <3>7. SubSeq(json, 1, n) \in Seq(S)
      <4>1. \A i \in 1..n : json[i] \in S
        BY <3>2, <3>5, <3>6
      <4> QED BY <3>2, <3>5, <3>6, <4>1
    <3> QED BY <1>1, <2>1, <3>3, <3>7 DEF Entries, Stored, Keys, End, S
  <2>3. Copy(a)'
    BY <1>1, <2>1 DEF CopyOK, Agree, Keys
  <2>4. ASSUME NEW b \in Assistants, b # a PROVE Copy(b)'
    BY <1>1, <1>c, <2>1, <2>4
  <2>5. FactsAreKept'
    BY <1>k, <2>1 DEF FactsAreKept
  <2> QED BY <1>2, <2>1, <2>2, <2>3, <2>4, <2>5
<1>8. ASSUME NEW a \in Assistants, NEW k \in Keys, NEW v \in Values, Remember(a, k, v)
      PROVE  KeptInv'
  <2> DEFINE f == Upsert(tool[a], k, v)
  <2>1. /\ UNCHANGED <<acked, lost>> /\ tool' = [tool EXCEPT ![a] = f] /\ phase[a] = "ready"
        /\ \/ /\ phase' = [phase EXCEPT ![a] = "writing"] /\ asked' = [asked EXCEPT ![a] = <<k, v>>]
              /\ file' = <<>> /\ unseen' = unseen
           \/ /\ unseen' = [unseen EXCEPT ![a] = @ \cup {k}]
              /\ UNCHANGED <<file, phase, asked>>
    BY <1>8 DEF Remember
  <2>2. f \in Stored /\ k \in DOMAIN f /\ f[k] = v
    BY <1>1, UpsertStored
  <2>3. \A j \in Keys \ (unseen[a] \cup {k}) : Agree(f, acked, j)
    <3>1. \A j \in Keys \ unseen[a] : Agree(tool[a], acked, j)
      BY <1>1, <2>1 DEF CopyOK
    <3> QED BY <3>1, Agreement
  <2> HIDE DEF f
  <2>4. Shapes' /\ tool'[a] = f
    BY <1>1, <2>1
  <2>5. Types'
    <3>1. file' = <<>> \/ file' = file
      BY <2>1
    <3>2. file' \in Seq(Entries)
      BY <1>1, <3>1, EmptySeq
    <3> QED BY <1>1, <2>1, <2>2, <3>2 DEF Entries, Stored, Keys, End
  <2>6. ASSUME NEW b \in Assistants, b # a PROVE Copy(b)'
    BY <1>1, <1>c, <2>1, <2>6
  <2>7. CASE /\ phase' = [phase EXCEPT ![a] = "writing"] /\ asked' = [asked EXCEPT ![a] = <<k, v>>]
             /\ file' = <<>> /\ unseen' = unseen
    <3>1. phase'[a] = "writing" /\ asked'[a] = <<k, v>> /\ unseen'[a] = unseen[a]
      BY <1>1, <2>7
    <3>2. asked'[a][1] = k /\ asked'[a][2] = v
      BY <3>1
    <3>3. Copy(a)'
      BY <1>k, <2>1, <2>2, <2>3, <2>4, <3>1, <3>2 DEF CopyOK, Agree
    <3>4. FactsAreKept'
      BY <3>1 DEF FactsAreKept, Writing
    <3> QED BY <1>2, <2>4, <2>5, <2>6, <3>3, <3>4
  <2>8. CASE unseen' = [unseen EXCEPT ![a] = @ \cup {k}] /\ UNCHANGED <<file, phase, asked>>
    <3>1. phase'[a] = "ready" /\ unseen'[a] = unseen[a] \cup {k}
      BY <1>1, <2>1, <2>8
    <3>2. Copy(a)'
      BY <1>k, <2>1, <2>3, <2>4, <3>1 DEF CopyOK, Agree
    <3>3. Writing' = Writing
      BY <2>8 DEF Writing
    <3> QED BY <1>2, <1>f, <2>1, <2>4, <2>5, <2>6, <2>8, <3>2, <3>3
  <2> QED BY <2>1, <2>7, <2>8
<1>9. ASSUME Crash PROVE KeptInv'
  <2>1. /\ Shapes' /\ UNCHANGED <<file, acked>> /\ tool' = [a \in Assistants |-> NoFacts]
        /\ phase' = [a \in Assistants |-> "none"]
        /\ lost' = IF Writing = {} THEN lost ELSE Keys
    BY <1>9 DEF Crash
  <2>2. NoFacts \in Stored
    <3>1. Parse(<<>>) = NoFacts /\ <<>> \in Seq(Entries)
      BY DEF Parse
    <3> QED BY <3>1, ParseIsStored
  <2>3. Types'
    BY <1>1, <2>1, <2>2 DEF Entries, Stored, Keys, End
  <2>4. \A b \in Assistants : Copy(b)'
    BY <2>1 DEF CopyOK
  <2>5. FactsAreKept'
    <3>1. CASE Writing = {}
      <4>1. \A j \in Keys \ lost : Agree(Parse(file), acked, j)
        BY <1>1, <3>1 DEF FactsAreKept
      <4>2. \A j \in Keys \ lost' : Agree(Parse(file'), acked', j)
        BY <2>1, <3>1, <4>1
      <4> QED BY <1>g, <4>2
    <3>2. CASE Writing # {}
      BY <1>k, <2>1, <3>2 DEF FactsAreKept
    <3> QED BY <3>1, <3>2
  <2> QED BY <1>2, <2>1, <2>3, <2>4, <2>5
<1>10. ASSUME UNCHANGED memVars PROVE KeptInv'
  <2>1. Shapes' /\ UNCHANGED <<file, asked, acked, lost, unseen, tool, phase>>
    BY <1>1, <1>10 DEF memVars, stores, history
  <2>2. Types'
    BY <1>1, <2>1 DEF Entries, Stored, Keys, End
  <2>3. Writing' = Writing
    BY <2>1 DEF Writing
  <2> QED BY <1>2, <1>c, <1>f, <2>1, <2>2, <2>3
<1> QED BY <1>3, <1>4, <1>5, <1>6, <1>7, <1>8, <1>9, <1>10 DEF MemNext

\* The file holds the last acknowledged value of every key that no save lost since, by
\* failing, by overlapping another, by a crash or out of a copy that was behind on it,
\* for any assistants, keys, values, restarts and crashes (FileMemoryStore::remember,
\* FileMemoryStore::new).
THEOREM NothingForgotten == MemSpec => []FactsAreKept
<1>1. KeptInv => FactsAreKept
  BY DEF KeptInv
<1> QED BY KeptInit, KeptStep, <1>1, PTL DEF MemSpec

-----------------------------------------------------------------------------
(***************************************************************************)
(* AutonomousEvents.                                                       *)
(*                                                                         *)
(* Type correctness.  An event is in the making, waiting or being          *)
(* processed with an id that was issued, so it is one of Events.           *)
(***************************************************************************)
LoopHasEvent == loop \in {"processing", "responding"} => current \in Events

LEMMA NoEventIsNone == NoEvent \notin Events
  BY EventsAssumption DEF NoEvent, Events, EventIds

LEMMA TypeInit == EventsInit => TypeOK /\ LoopHasEvent
<1> SUFFICES ASSUME EventsInit PROVE TypeOK /\ LoopHasEvent
  OBVIOUS
<1>1. nextEvent \in 1..(MaxEvents + 1) /\ Len(events) <= Capacity
  BY EventsAssumption DEF EventsInit
<1>2. events \in Seq(Events) /\ accepted \in Seq(EventIds) /\ handled \in Seq(EventIds)
  BY DEF EventsInit
<1>3. closed \in BOOLEAN
  BY DEF EventsInit
<1>4. QED
  BY <1>1, <1>2, <1>3 DEF EventsInit, TypeOK, LoopHasEvent

\* The rest of a queue and its first event.
LEMMA HeadTail ==
  ASSUME NEW S, NEW q \in Seq(S), q # <<>>
  PROVE  /\ Head(q) \in S /\ Head(q) = q[1] /\ Len(q) > 0
         /\ Tail(q) \in Seq(S) /\ Len(Tail(q)) = Len(q) - 1
         /\ \A i \in 1..Len(Tail(q)) : Tail(q)[i] = q[i + 1]
  OBVIOUS

LEMMA Appended ==
  ASSUME NEW S, NEW q \in Seq(S), NEW e \in S
  PROVE  /\ Append(q, e) \in Seq(S) /\ Len(Append(q, e)) = Len(q) + 1
         /\ \A i \in 1..Len(q) : Append(q, e)[i] = q[i]
         /\ Append(q, e)[Len(q) + 1] = e
  OBVIOUS

LEMMA TypeStep == TypeOK /\ LoopHasEvent /\ [EventsNext]_eventsVars => TypeOK' /\ LoopHasEvent'
<1> SUFFICES ASSUME TypeOK, LoopHasEvent, [EventsNext]_eventsVars PROVE TypeOK' /\ LoopHasEvent'
  OBVIOUS
<1> USE DEF TypeOK, LoopHasEvent
<1>1. ASSUME NEW p \in Publishers, MakeEvent(p) PROVE TypeOK' /\ LoopHasEvent'
  <2>1. PICK o \in Occurrences : making' = [making EXCEPT ![p] = [id |-> nextEvent, what |-> o]]
    BY <1>1 DEF MakeEvent
  <2>2. nextEvent \in EventIds /\ nextEvent' \in 1..(MaxEvents + 1)
    BY <1>1, EventsAssumption DEF MakeEvent, EventIds
  <2>3. [id |-> nextEvent, what |-> o] \in Events
    BY <2>2 DEF Events
  <2>4. making' \in [Publishers -> Events \cup {NoEvent}]
    BY <2>1, <2>3
  <2>5. QED
    BY <1>1, <2>2, <2>4 DEF MakeEvent
<1>2. ASSUME NEW p \in Publishers, Publish(p) PROVE TypeOK' /\ LoopHasEvent'
  <2>1. making' \in [Publishers -> Events \cup {NoEvent}]
    BY <1>2 DEF Publish
  <2>2. CASE closed \/ IsDuplicate(making[p]) \/ IsFull
    BY <1>2, <2>1, <2>2 DEF Publish
  <2>3. CASE ~(closed \/ IsDuplicate(making[p]) \/ IsFull)
    <3>1. making[p] \in Events /\ making[p].id \in EventIds
      BY <1>2 DEF Publish, Events
    <3>2. /\ events' \in Seq(Events) /\ Len(events') = Len(events) + 1
          /\ accepted' \in Seq(EventIds)
      <4>1. events' = Append(events, making[p]) /\ accepted' = Append(accepted, making[p].id)
        BY <1>2, <2>3 DEF Publish
      <4>2. events' \in Seq(Events) /\ Len(events') = Len(events) + 1
        BY <3>1, <4>1
      <4>3. accepted' \in Seq(EventIds)
        BY <3>1, <4>1
      <4>4. QED
        BY <4>2, <4>3
    <3>3. Len(events') <= Capacity
      BY <2>3, <3>2, EventsAssumption DEF IsFull
    <3>4. loop' \in {"checking", "parked", "processing", "responding", "ended"}
          /\ (loop' \in {"processing", "responding"} => loop' = loop)
      BY <1>2, <2>3 DEF Publish, Notify
    <3>5. QED
      BY <1>2, <2>1, <3>2, <3>3, <3>4 DEF Publish
  <2>4. QED
    BY <2>2, <2>3
<1>3. CASE Close
  BY <1>3 DEF Close, Notify
<1>4. CASE TakeEvent
  <2>1. current' \in Events /\ current'.id \in EventIds
    <3>1. current' \in Events
      BY <1>4, HeadTail DEF TakeEvent
    <3>2. QED
      BY <3>1 DEF Events
  <2>2. events' \in Seq(Events) /\ Len(events') <= Capacity
    <3>1. events' \in Seq(Events) /\ Len(events') = Len(events) - 1
      BY <1>4 DEF TakeEvent
    <3>2. QED
      BY <3>1, EventsAssumption
  <2>3. handled' \in Seq(EventIds)
    BY <1>4, <2>1, Appended DEF TakeEvent
  <2>4. QED
    BY <1>4, <2>1, <2>2, <2>3 DEF TakeEvent
<1>5. CASE Stop \/ Wait \/ WakeSpuriously \/ Delegate
  BY <1>5 DEF Stop, Wait, WakeSpuriously, Delegate
<1>6. CASE Ignore \/ FinishTurn
  <2>1. current.id \in EventIds
    BY <1>6 DEF Ignore, FinishTurn, Events
  <2>2. QED
    BY <1>6, <2>1 DEF Ignore, FinishTurn
<1>7. CASE UNCHANGED eventsVars
  BY <1>7 DEF eventsVars
<1>8. QED
  BY <1>1, <1>2, <1>3, <1>4, <1>5, <1>6, <1>7 DEF EventsNext, LoopStep

\* Type correctness, and with it that the queue (InMemoryEventQueue) never holds
\* more than its capacity, whatever the capacity and the publishers.
THEOREM EventTypeCorrect == EventsSpec => []TypeOK
<1>1. EventsSpec => [](TypeOK /\ LoopHasEvent)
  BY TypeInit, TypeStep, PTL DEF EventsSpec
<1>2. QED
  BY <1>1, PTL

-----------------------------------------------------------------------------
(***************************************************************************)
(* Order, duplicates and wake-ups.                                         *)
(***************************************************************************)

\* What an accepted publish and a taken event do to the queue and its histories.
LEMMA PublishedEvent ==
  ASSUME TypeOK, NEW p \in Publishers, Publish(p),
         ~(closed \/ IsDuplicate(making[p]) \/ IsFull)
  PROVE  /\ making[p] \in Events
         /\ Len(events') = Len(events) + 1 /\ events'[Len(events) + 1] = making[p]
         /\ \A i \in 1..Len(events) : events'[i] = events[i]
         /\ Len(accepted') = Len(accepted) + 1 /\ accepted'[Len(accepted) + 1] = making[p].id
         /\ \A i \in 1..Len(accepted) : accepted'[i] = accepted[i]
         /\ UNCHANGED handled
<1>1. making[p] \in Events /\ making[p].id \in EventIds
  BY DEF Publish, TypeOK, Events
<1>2. /\ events' = Append(events, making[p]) /\ accepted' = Append(accepted, making[p].id)
      /\ UNCHANGED handled
  BY DEF Publish
<1>3. events \in Seq(Events) /\ accepted \in Seq(EventIds)
  BY DEF TypeOK
<1>4. QED
  BY <1>1, <1>2, <1>3, Appended

LEMMA Taken ==
  ASSUME TypeOK, TakeEvent
  PROVE  /\ Len(events) > 0 /\ Len(events') = Len(events) - 1
         /\ \A i \in 1..Len(events') : events'[i] = events[i + 1]
         /\ Len(handled') = Len(handled) + 1 /\ handled'[Len(handled) + 1] = events[1].id
         /\ \A i \in 1..Len(handled) : handled'[i] = handled[i]
         /\ UNCHANGED accepted
<1>1. events \in Seq(Events) /\ handled \in Seq(EventIds) /\ events # <<>>
  BY DEF TypeOK, TakeEvent
<1>2. Head(events) = events[1] /\ events[1] \in Events /\ Len(events) > 0
  BY <1>1
<1>3. events[1].id \in EventIds
  BY <1>2 DEF Events
<1>4. events' = Tail(events) /\ handled' = Append(handled, events[1].id) /\ UNCHANGED accepted
  BY <1>2 DEF TakeEvent
<1>5. QED
  BY <1>1, <1>2, <1>3, <1>4, HeadTail, Appended

LEMMA OrderStep == TypeOK /\ HandledInOrder /\ [EventsNext]_eventsVars => HandledInOrder'
<1> SUFFICES ASSUME TypeOK, HandledInOrder, [EventsNext]_eventsVars PROVE HandledInOrder'
  OBVIOUS
<1>0. Len(events) \in Nat /\ Len(handled) \in Nat /\ Len(accepted) \in Nat
  BY DEF TypeOK
<1> USE DEF HandledInOrder
<1>1. ASSUME NEW p \in Publishers, Publish(p) PROVE HandledInOrder'
  <2>1. CASE closed \/ IsDuplicate(making[p]) \/ IsFull
    BY <1>1, <2>1 DEF Publish
  <2>2. CASE ~(closed \/ IsDuplicate(making[p]) \/ IsFull)
    <3>1. /\ Len(events') = Len(events) + 1 /\ events'[Len(events) + 1] = making[p]
          /\ \A i \in 1..Len(events) : events'[i] = events[i]
      BY <1>1, <2>2, PublishedEvent
    <3>2. /\ Len(accepted') = Len(accepted) + 1
          /\ accepted'[Len(accepted) + 1] = making[p].id
          /\ \A i \in 1..Len(accepted) : accepted'[i] = accepted[i]
          /\ handled' = handled
      BY <1>1, <2>2, PublishedEvent
    <3>3. \A i \in 1..Len(handled') : handled'[i] = accepted'[i]
      BY <1>0, <3>2
    <3>4. ASSUME NEW i \in 1..Len(events')
          PROVE  events'[i].id = accepted'[Len(handled') + i]
      <4>1. CASE i = Len(events) + 1
        BY <1>0, <3>1, <3>2, <4>1
      <4>2. CASE i \in 1..Len(events)
        <5>1. Len(handled) + i \in 1..Len(accepted)
          BY <1>0, <4>2
        <5>2. events'[i].id = accepted[Len(handled) + i]
          BY <3>1, <4>2
        <5>3. QED
          BY <3>2, <5>1, <5>2
      <4>3. QED
        BY <1>0, <3>1, <4>1, <4>2
    <3>5. QED
      BY <1>0, <3>1, <3>2, <3>3, <3>4
  <2>3. QED
    BY <2>1, <2>2
<1>2. CASE TakeEvent
  <2>1. /\ Len(events) > 0 /\ Len(events') = Len(events) - 1
        /\ \A i \in 1..Len(events') : events'[i] = events[i + 1]
    BY <1>2, Taken
  <2>2. /\ Len(handled') = Len(handled) + 1 /\ handled'[Len(handled) + 1] = events[1].id
        /\ \A i \in 1..Len(handled) : handled'[i] = handled[i]
        /\ accepted' = accepted
    BY <1>2, Taken
  <2>3. \A i \in 1..Len(handled') : handled'[i] = accepted'[i]
    BY <1>0, <2>1, <2>2
  <2>4. ASSUME NEW i \in 1..Len(events')
        PROVE  events'[i].id = accepted'[Len(handled') + i]
    <3>1. i + 1 \in 1..Len(events) /\ Len(handled') + i = Len(handled) + (i + 1)
      <4>1. /\ Len(events') = Len(events) - 1 /\ Len(handled') = Len(handled) + 1
            /\ i \in 1..Len(events')
        BY <2>1, <2>2, <2>4
      <4> HIDE DEF HandledInOrder
      <4>2. QED
        BY <1>0, <4>1
    <3>2. QED
      BY <2>1, <2>2, <3>1
  <2>5. Len(accepted') = Len(handled') + Len(events')
    <3>1. Len(accepted') = Len(accepted) /\ Len(accepted) = Len(handled) + Len(events)
      BY <2>2
    <3>2. /\ Len(events') = Len(events) - 1 /\ Len(handled') = Len(handled) + 1
      BY <2>1, <2>2
    <3> HIDE DEF HandledInOrder
    <3>3. QED
      BY <1>0, <3>1, <3>2
  <2>6. QED
    BY <2>3, <2>4, <2>5
<1>3. CASE UNCHANGED <<events, accepted, handled>>
  BY <1>3
<1>4. QED
  BY <1>1, <1>2, <1>3
     DEF EventsNext, LoopStep, MakeEvent, Close, Stop, Wait, WakeSpuriously, Ignore, Delegate,
         FinishTurn, eventsVars

\* The queue and the loop (AutonomousEventLoop::run) handle every accepted event
\* at most once and in the order of acceptance, whatever the interleaving of
\* publishers and loop.
THEOREM OrderIsKept == EventsSpec => []HandledInOrder
<1>1. EventsInit => HandledInOrder
  BY DEF EventsInit, HandledInOrder
<1>2. QED
  BY <1>1, OrderStep, EventTypeCorrect, PTL DEF EventsSpec

LEMMA DuplicateStep == TypeOK /\ NoDuplicateWaits /\ [EventsNext]_eventsVars => NoDuplicateWaits'
<1> SUFFICES ASSUME TypeOK, NoDuplicateWaits, [EventsNext]_eventsVars PROVE NoDuplicateWaits'
  OBVIOUS
<1>0. Len(events) \in Nat
  BY DEF TypeOK
<1> USE DEF NoDuplicateWaits
<1>1. ASSUME NEW p \in Publishers, Publish(p) PROVE NoDuplicateWaits'
  <2>1. CASE closed \/ IsDuplicate(making[p]) \/ IsFull
    BY <1>1, <2>1 DEF Publish
  <2>2. CASE ~(closed \/ IsDuplicate(making[p]) \/ IsFull)
    BY <1>0, <1>1, <2>2, PublishedEvent DEF IsDuplicate
  <2>3. QED
    BY <2>1, <2>2
<1>2. CASE TakeEvent
  BY <1>0, <1>2, Taken
<1>3. CASE UNCHANGED events
  BY <1>3
<1>4. QED
  BY <1>1, <1>2, <1>3
     DEF EventsNext, LoopStep, MakeEvent, Close, Stop, Wait, WakeSpuriously, Ignore, Delegate,
         FinishTurn, eventsVars

\* No two events waiting in the queue are duplicates of each other
\* (AutonomousEvent::is_duplicate_of), whoever published them.
THEOREM DuplicatesNeverWait == EventsSpec => []NoDuplicateWaits
<1>1. EventsInit => NoDuplicateWaits
  BY DEF EventsInit, NoDuplicateWaits
<1>2. QED
  BY <1>1, DuplicateStep, EventTypeCorrect, PTL DEF EventsSpec

LEMMA WakeupStep == NoLostWakeup /\ [EventsNext]_eventsVars => NoLostWakeup'
<1> SUFFICES ASSUME NoLostWakeup, [EventsNext]_eventsVars PROVE NoLostWakeup'
  OBVIOUS
<1> USE DEF NoLostWakeup
<1>1. CASE \E p \in Publishers : Publish(p)
  BY <1>1 DEF Publish, Notify
<1>2. CASE Close
  BY <1>2 DEF Close, Notify
<1>3. CASE LoopStep \/ WakeSpuriously
  BY <1>3 DEF LoopStep, TakeEvent, Stop, Wait, WakeSpuriously, Ignore, Delegate, FinishTurn
<1>4. CASE UNCHANGED <<loop, events, closed>>
  BY <1>4
<1>5. QED
  BY <1>1, <1>2, <1>3, <1>4 DEF EventsNext, MakeEvent, eventsVars

\* The loop never sleeps through an event or the closing of the queue
\* (InMemoryEventQueue's condition variable).
THEOREM WakeupsAreNotLost == EventsSpec => []NoLostWakeup
<1>1. EventsInit => NoLostWakeup
  BY DEF EventsInit, NoLostWakeup
<1>2. QED
  BY <1>1, WakeupStep, PTL DEF EventsSpec
=============================================================================
