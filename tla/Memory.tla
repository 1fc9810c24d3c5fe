------------------------------- MODULE Memory --------------------------------
(***************************************************************************)
(* The facts an assistant is taught (`remember`), kept as one JSON object  *)
(* in a file (apps/nala/src/adapters/memory/file.rs).  Every assistant has *)
(* two `FileMemoryStore`s on the same path: the tool's, which writes, and  *)
(* its own, whose facts go into every prompt.  Both read the file when the *)
(* assistant is built and never again.  Assistants are built per           *)
(* connection, side by side, in threads of one process.                    *)
(*                                                                         *)
(* `std::fs::write` truncates the file and then writes from its start, in *)
(* one write: between the two, others read, truncate, write and crash.     *)
(* The file is the sequence of its entries and closing braces; entries     *)
(* take the same room.                                                     *)
(***************************************************************************)
EXTENDS Naturals, Sequences, FiniteSets

CONSTANTS
  Assistants,   \* names for the assistants of the process
  NumKeys,      \* keys are 1..NumKeys, in the order of the BTreeMap
  Values,       \* what may be remembered for a key
  MaxRemembers, \* bound: calls of remember
  MaxCrashes    \* bound: crashes of the process

ASSUME MemoryAssumption ==
  NumKeys \in Nat \ {0} /\ MaxRemembers \in Nat /\ MaxCrashes \in Nat

VARIABLES
  file,       \* the content of the file
  phase,      \* of an assistant: "none", "wiring", "ready", "writing"
  tool, own,  \* the facts of its two stores
  asked,      \* the fact it is writing
  acked,      \* history: the facts acknowledged ("Recordado"), the last value of each key
  unseen,     \* history: the keys an assistant's own copy may be behind on
  lost,       \* history: the keys the file may be behind on
  remembers, crashes

stores == <<phase, tool, own>>
history == <<acked, unseen, lost>>
memVars == <<file, stores, asked, history, remembers, crashes>>

Keys == 1..NumKeys
NoFacts == <<>>
End == <<0, "}">>

-----------------------------------------------------------------------------
\* Facts::remember, to_json and parse: anything but one whole object is no facts.
Upsert(facts, k, v) == [j \in DOMAIN facts \cup {k} |-> IF j = k THEN v ELSE facts[j]]

\* The keys in ascending order: as many keys are up to the i-th as its position says.
KeyAt(keys, i) == CHOOSE k \in keys : Cardinality({j \in keys : j <= k}) = i

ToJson(facts) ==
  LET keys == DOMAIN facts
  IN  [i \in 1..Cardinality(keys) |-> <<KeyAt(keys, i), facts[KeyAt(keys, i)]>>] \o <<End>>

Parse(content) ==
  IF content # <<>> /\ \A i \in 1..Len(content) : content[i] = End <=> i = Len(content)
  THEN [k \in {content[i][1] : i \in 1..(Len(content) - 1)} |->
          content[CHOOSE i \in 1..(Len(content) - 1) : content[i][1] = k][2]]
  ELSE NoFacts

\* FileMemoryStore::new, of a file that has this content.
NewStoreUnread(content) == NoFacts
NewStore(content) == Parse(content)

\* A write from the start of the file: what lies beyond it stays.
Overwrite(content, entries) ==
  entries \o SubSeq(content, Len(entries) + 1, Len(content))

-----------------------------------------------------------------------------
MemInit ==
  /\ file = <<>> /\ phase = [a \in Assistants |-> "none"]
  /\ tool = [a \in Assistants |-> NoFacts] /\ own = [a \in Assistants |-> NoFacts]
  /\ asked = [a \in Assistants |-> End]
  /\ acked = NoFacts /\ unseen = [a \in Assistants |-> {}] /\ lost = {}
  /\ remembers = 0 /\ crashes = 0

Writing == {a \in Assistants : phase[a] = "writing"}

\* build_assistant: the tool's store, and after the MCP servers the assistant's.
\* Built while another writes, it finds the file truncated, and knows nothing.
Build(a) ==
  /\ phase[a] = "none" /\ phase' = [phase EXCEPT ![a] = "wiring"]
  /\ tool' = [tool EXCEPT ![a] = NewStore(file)]
  /\ unseen' = [unseen EXCEPT ![a] = IF Writing = {} THEN lost ELSE Keys]
  /\ UNCHANGED <<file, own, asked, acked, lost, remembers, crashes>>

Wire(a) ==
  /\ phase[a] = "wiring" /\ phase' = [phase EXCEPT ![a] = "ready"]
  /\ own' = [own EXCEPT ![a] = NewStore(file)]
  /\ UNCHANGED <<file, tool, asked, history, remembers, crashes>>

\* The connection ends between two turns.
Leave(a) ==
  /\ phase[a] = "ready" /\ phase' = [phase EXCEPT ![a] = "none"]
  /\ tool' = [tool EXCEPT ![a] = NoFacts] /\ own' = [own EXCEPT ![a] = NoFacts]
  /\ unseen' = [unseen EXCEPT ![a] = {}]
  /\ UNCHANGED <<file, asked, acked, lost, remembers, crashes>>

\* remember(), up to the truncation.  The store keeps the fact even if the file
\* cannot be opened.
Remember(a, k, v) ==
  /\ phase[a] = "ready" /\ remembers < MaxRemembers /\ remembers' = remembers + 1
  /\ tool' = [tool EXCEPT ![a] = Upsert(@, k, v)]
  /\ \/ /\ phase' = [phase EXCEPT ![a] = "writing"]
        /\ asked' = [asked EXCEPT ![a] = <<k, v>>]
        /\ file' = <<>>
        /\ UNCHANGED unseen
     \/ /\ unseen' = [unseen EXCEPT ![a] = @ \cup {k}]
        /\ UNCHANGED <<file, phase, asked>>
  /\ UNCHANGED <<own, acked, lost, crashes>>

\* The write, and the answer.  Into a file that no other has written or is about to
\* write, it puts what the store knows; the others' copies are behind from now on.
Write(a) ==
  /\ phase[a] = "writing" /\ phase' = [phase EXCEPT ![a] = "ready"]
  /\ file' = Overwrite(file, ToJson(tool[a]))
  /\ LET k == asked[a][1] IN
       /\ acked' = Upsert(acked, k, asked[a][2])
       /\ unseen' = [b \in Assistants |-> IF b = a THEN unseen[b] \ {k}
                                         ELSE IF phase[b] = "none" THEN {} ELSE unseen[b] \cup {k}]
       /\ lost' = IF Writing = {a} /\ file = <<>> THEN unseen[a] \ {k} ELSE Keys
  /\ asked' = [asked EXCEPT ![a] = End]
  /\ UNCHANGED <<tool, own, remembers, crashes>>

\* The write fails where the disk has no more room, so not within what is there.
WriteFails(a) ==
  /\ phase[a] = "writing" /\ phase' = [phase EXCEPT ![a] = "ready"]
  /\ LET json == ToJson(tool[a]) IN
       \E n \in Len(file)..(Len(json) - 1) : file' = SubSeq(json, 1, n)
  /\ unseen' = [unseen EXCEPT ![a] = @ \cup {asked[a][1]}] /\ lost' = Keys
  /\ asked' = [asked EXCEPT ![a] = End]
  /\ UNCHANGED <<tool, own, acked, remembers, crashes>>

\* The process dies and starts again.
Crash ==
  /\ crashes < MaxCrashes /\ crashes' = crashes + 1
  /\ phase' = [a \in Assistants |-> "none"]
  /\ tool' = [a \in Assistants |-> NoFacts] /\ own' = [a \in Assistants |-> NoFacts]
  /\ asked' = [a \in Assistants |-> End]
  /\ unseen' = [a \in Assistants |-> {}] /\ lost' = IF Writing = {} THEN lost ELSE Keys
  /\ UNCHANGED <<file, acked, remembers>>

MemNext ==
  \/ \E a \in Assistants :
       \/ Build(a) \/ Wire(a) \/ Leave(a) \/ Write(a) \/ WriteFails(a)
       \/ \E k \in Keys, v \in Values : Remember(a, k, v)
  \/ Crash

MemSpec == MemInit /\ [][MemNext]_memVars

-----------------------------------------------------------------------------
\* Two stores say the same of a key.
Agree(f, g, k) == (k \in DOMAIN f <=> k \in DOMAIN g) /\ (k \in DOMAIN f => f[k] = g[k])

\* When no save is under way, the file holds the last acknowledged value of every
\* key, across restarts, new connections and other assistants' saves, but for the
\* keys that were really lost: a key is lost by a save that fails, is overlapped by
\* another or cut short by a crash, or by the save of a store that was behind on it
\* (built before another's was acknowledged, or during one, or from a file that had
\* lost it), and it is found again by the next save of it that is acknowledged
\* (remember, FileMemoryStore::new).
FactsAreKept == Writing = {} => \A k \in Keys \ lost : Agree(Parse(file), acked, k)
=============================================================================
