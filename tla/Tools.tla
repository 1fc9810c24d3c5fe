-------------------------------- MODULE Tools --------------------------------
(***************************************************************************)
(* The tools of one assistant: which ones a turn offers to the model       *)
(* (`ToolRegistry`), where a call is run (`ToolDispatcher::dispatch`,      *)
(* `DeviceToolset`, `McpToolset`; apps/nala/src/application/tools) and the *)
(* capability registry of the device that runs it                          *)
(* (crates/device-capabilities).  What a call to an MCP server returns is  *)
(* McpClient's subject; here it works or fails.                            *)
(*                                                                         *)
(* The offer is made once per turn, from the devices connected then; every *)
(* call looks at the devices again, and they come and go meanwhile, also   *)
(* between routing a call and running it.                                  *)
(*                                                                         *)
(* A name is the sequence of its words, which the code joins with `_`:     *)
(* that is all that splitting at the first underscore, prefixing and       *)
(* stripping see of it.  Arguments and outputs are left out; whether a     *)
(* tool succeeds is a free choice.                                         *)
(***************************************************************************)
EXTENDS Naturals, Sequences, FiniteSets, SequencesExt

CONSTANTS
  Devices,       \* the devices that may connect
  NameOf,        \* the name each gives in its hello
  Capabilities,  \* the capabilities its daemon registers
  Servers,       \* the configured MCP servers
  Natives,       \* the native tools, all of them registered
  Published,     \* the tools each MCP server reports and its allowlist admits
  MaxConnects    \* bound: connections of devices in all

\* Nothing else is assumed of the names, and the code checks nothing else: two
\* devices may have one name, a name may hold underscores, and an MCP server may
\* publish the name of a native tool or one that begins with a device's.
Words == Seq(STRING) \ {<<>>}
ASSUME NamesAreWords ==
  /\ NameOf \in [Devices -> Words]
  /\ Capabilities \subseteq Words /\ Natives \subseteq Words
  /\ Published \in [Servers -> SUBSET Words]

VARIABLES
  toolsets,   \* Tools::Mcp: the servers that connected, in the order of a HashMap
  connects,   \* connections made so far, which tells them apart
  fleet,      \* DeviceRegistry: the connected devices, their connection and allowlist
  turn,       \* "idle", "turn" or "routed"
  offered,    \* the definitions the model was shown
  fleetThen,  \* history: the fleet they were made from
  call,       \* the name called and where it goes
  ran         \* history: what the last call ran

devs == <<connects, fleet>>
vars == <<toolsets, devs, turn, offered, fleetThen, call, ran>>

Nowhere == [kind |-> "nowhere", who |-> "none", tool |-> <<>>]
Place(kind, who, tool) == [kind |-> kind, who |-> who, tool |-> tool]

-----------------------------------------------------------------------------
\* CapabilityRegistry, in the daemon: the allowlist decides what the hello announces
\* and, again, what is run.
Announced(allowed) == Capabilities \cap allowed
Invoke(allowed, c) ==
  CASE c \notin allowed -> {"Denied"}
    [] c \in allowed \ Capabilities -> {"NotFound"}
    [] OTHER -> {"ok", "Failed", "BadArguments"}

\* DeviceToolset: a device's capabilities under its name, and back.
Prefixed(d, c) == NameOf[d] \o c
StripPrefix(d, n) ==
  IF IsPrefix(NameOf[d], n) /\ Len(NameOf[d]) < Len(n)
  THEN SubSeq(n, Len(NameOf[d]) + 1, Len(n)) ELSE n

DeviceTools(f) ==
  UNION {{[name |-> Prefixed(d, c), at |-> Place("device", d, c)] : c \in Announced(f[d].allowed)} :
           d \in DOMAIN f}

\* McpToolset and build_assistant: of servers that publish the same name, the
\* first one is registered, and it replaces a native tool's definition.
FirstServer(n) ==
  toolsets[CHOOSE i \in DOMAIN toolsets :
             n \in Published[toolsets[i]] /\ \A j \in 1..(i - 1) : n \notin Published[toolsets[j]]]

McpNames == UNION {Published[toolsets[i]] : i \in DOMAIN toolsets}

StaticTools ==
  {[name |-> n, at |-> Place("native", "nala", n)] : n \in Natives \ McpNames}
    \cup {[name |-> n, at |-> Place("mcp", FirstServer(n), n)] : n \in McpNames}

\* ToolRegistry: a device's tool hides the static one of the same bare name.
BareCapability(n) == IF Len(n) > 1 THEN Tail(n) ELSE n
Shadowed(n, deviceTools) == \E t \in deviceTools : BareCapability(t.name) = n

Definitions(f) ==
  LET deviceTools == DeviceTools(f)
  IN  deviceTools \cup {t \in StaticTools : ~Shadowed(t.name, deviceTools)}

\* dispatch: a device that publishes the name, prefixed or, if it is the only one,
\* bare; then the native tool; then the first MCP server that has it.  The call takes
\* the device's prefix off the name, if it is there.
AnyPrefix(n) == BareCapability(n)
Bare(n) == n

ServerFor(n) == FirstServer(n)

Routes(f, n) ==
  LET exact == {d \in DOMAIN f : \E c \in Announced(f[d].allowed) : Prefixed(d, c) = n}
      bare  == {d \in DOMAIN f : Bare(n) \in Announced(f[d].allowed)}
      to(d, m) == Place("device", d, StripPrefix(d, m))
  IN  CASE exact # {} -> {to(d, n) : d \in exact}
        [] exact = {} /\ Cardinality(bare) = 1 -> {to(d, Bare(n)) : d \in bare}
        [] OTHER -> IF n \in Natives THEN {Place("native", "nala", n)}
                    ELSE IF n \in McpNames THEN {Place("mcp", ServerFor(n), n)}
                    ELSE {Nowhere}

-----------------------------------------------------------------------------
\* connect_mcp_servers: those that fail to start are skipped, in any order.
Init ==
  /\ toolsets \in {q \in UNION {[1..n -> Servers] : n \in 0..Cardinality(Servers)} : IsInjective(q)}
  /\ connects = 0 /\ fleet = <<>>
  /\ turn = "idle" /\ offered = {} /\ fleetThen = <<>>
  /\ call = [name |-> <<>>, to |-> Nowhere, connection |-> 0] /\ ran = Nowhere

\* A daemon (re)starts with an allowlist and says hello; the registry entry of an
\* earlier connection is replaced.
DeviceConnects(d) ==
  /\ connects < MaxConnects /\ connects' = connects + 1
  /\ \E allowed \in SUBSET Capabilities :
       fleet' = [e \in DOMAIN fleet \cup {d} |->
                   IF e = d THEN [allowed |-> allowed, connection |-> connects'] ELSE fleet[e]]
  /\ UNCHANGED <<toolsets, turn, offered, fleetThen, call, ran>>

DeviceLeaves(d) ==
  /\ d \in DOMAIN fleet
  /\ fleet' = [e \in DOMAIN fleet \ {d} |-> fleet[e]]
  /\ UNCHANGED <<toolsets, connects, turn, offered, fleetThen, call, ran>>

\* process_from: set_device_tools(device_tools()), then definitions().
StartTurn ==
  /\ turn = "idle" /\ turn' = "turn"
  /\ offered' = Definitions(fleet) /\ fleetThen' = fleet
  /\ UNCHANGED <<toolsets, devs, call, ran>>

EndTurn ==
  /\ turn = "turn" /\ turn' = "idle" /\ offered' = {} /\ fleetThen' = <<>> /\ ran' = Nowhere
  /\ call' = [name |-> <<>>, to |-> Nowhere, connection |-> 0]
  /\ UNCHANGED <<toolsets, devs>>

\* dispatch: sync_devices, and where the call goes.  A tool the model was not
\* offered is routed in the same way.
Dispatch ==
  /\ turn = "turn"
  /\ \E n \in {t.name : t \in offered} \cup Natives : \E p \in Routes(fleet, n) :
       /\ call' = [name |-> n, to |-> p,
                   connection |-> IF p.kind = "device" THEN fleet[p.who].connection ELSE 0]
       /\ IF p = Nowhere THEN turn' = "turn" /\ ran' = Nowhere ELSE turn' = "routed" /\ UNCHANGED ran
  /\ UNCHANGED <<toolsets, devs, offered, fleetThen>>

RunNative ==
  /\ turn = "routed" /\ call.to.kind = "native" /\ ran' \in {call.to, Nowhere} /\ turn' = "turn"
  /\ UNCHANGED <<toolsets, devs, offered, fleetThen, call>>

\* A connection that is gone answers with an error.
RunOnDevice ==
  /\ turn = "routed" /\ call.to.kind = "device"
  /\ LET d == call.to.who
         reached == d \in DOMAIN fleet /\ fleet[d].connection = call.connection
     IN  \E outcome \in (IF reached THEN Invoke(fleet[d].allowed, call.to.tool) ELSE {"offline"}) :
           ran' = IF outcome = "ok" THEN call.to ELSE Nowhere
  /\ turn' = "turn"
  /\ UNCHANGED <<toolsets, devs, offered, fleetThen, call>>

RunMcp ==
  /\ turn = "routed" /\ call.to.kind = "mcp" /\ ran' \in {call.to, Nowhere} /\ turn' = "turn"
  /\ UNCHANGED <<toolsets, devs, offered, fleetThen, call>>

Next ==
  \/ \E d \in Devices : DeviceConnects(d) \/ DeviceLeaves(d)
  \/ StartTurn \/ EndTurn \/ Dispatch \/ RunNative \/ RunOnDevice \/ RunMcp

Spec == Init /\ [][Next]_vars

-----------------------------------------------------------------------------
\* The place has a tool of that name: its own, or under the device's name.
Bears(p, n) == p.tool = n \/ (p.kind = "device" /\ Prefixed(p.who, p.tool) = n)

\* No two tools there may ever be have the full name n, but for those of several MCP
\* servers, of which the first counts.
ClearName(n) ==
  LET owners == {d \in Devices : \E c \in Capabilities : Prefixed(d, c) = n}
      mcp    == \E s \in Servers : n \in Published[s]
  IN  /\ \A d, e \in owners : d = e
      /\ owners # {} => n \notin Capabilities \cup Natives /\ ~mcp
      /\ ~(n \in Natives /\ mcp)

\* A device took over a tool of Nala's own: one that has come to publish it since the
\* offer, or one whose name holds an underscore, which bare_capability cuts at the
\* first, so that its tools never hid Nala's.
TakenOver(t, p) ==
  /\ t.at.kind # "device" /\ p.kind = "device" /\ p.tool = t.name
  /\ (p.who \in DOMAIN fleetThen /\ Len(NameOf[p.who]) = 1) =>
       t.name \notin Announced(fleetThen[p.who].allowed)

\* Whatever devices leave, come back with other capabilities or connect in the middle
\* of a turn, and whatever they are called, what a call runs is a tool of the name
\* called; and if only one tool can have that name, a call of what the model was
\* offered runs where it was offered or runs nothing, but for a tool of Nala's own
\* that a device took over (dispatch, dispatch_to_device, set_device_tools).
RunsWhereOffered ==
  (turn = "turn" /\ ran # Nowhere) =>
    /\ Bears(ran, call.name)
    /\ ClearName(call.name) =>
         \A t \in offered : t.name = call.name => ran = t.at \/ TakenOver(t, ran)

\* No two of the tools a turn offers have the same name or would run the same thing,
\* and each would run where it says: "the model is only ever offered one way to do a
\* given action" (ToolRegistry, registry.rs:9-12).  TLC refutes this when two devices
\* share a name, a device's name holds an underscore or an MCP server publishes a
\* native tool's name (README, disagreements); no run checks it.
OneWayPerAction ==
  turn # "idle" =>
    /\ \A t, u \in offered :
         t # u => t.name # u.name /\ Routes(fleetThen, t.name) \cap Routes(fleetThen, u.name) = {}
    /\ \A t \in offered : Routes(fleetThen, t.name) = {t.at}
=============================================================================
