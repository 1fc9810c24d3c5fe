-------------------------- MODULE VoiceSessionProofs --------------------------
(***************************************************************************)
(* Proofs about VoiceSession, for any number of turns and connections and  *)
(* any limits of the outbox: its types, that a turn only hears of its own  *)
(* input, that the outbox stays within its limit, that every clip is in    *)
(* one place only, that none vanishes, that none is spoken stale and that  *)
(* clips of a turn are heard in order but for those overtaken on another   *)
(* connection.                                                             *)
(***************************************************************************)
EXTENDS VoiceSession, FiniteSetTheorems, SequenceTheorems, WellFoundedInduction, TLAPS

Entries == [clip : Clips, age : 0..(TTL + 1)]
Fresh(clip) == [clip |-> clip, age |-> 0]

\* s is q without its first k elements.
Drops(s, q, k) ==
  /\ k \in 0..Len(q) /\ Len(s) = Len(q) - k
  /\ \A i \in 1..Len(s) : s[i] = q[i + k]

-----------------------------------------------------------------------------
\* A set of natural numbers that is not empty has a least element.
LEMMA LeastNat ==
  ASSUME NEW S \in SUBSET Nat, S # {}
  PROVE  \E m \in S : \A k \in S : m <= k
<1> DEFINE R == {ss \in Nat \X Nat : ss[1] < ss[2]}
<1>1. IsWellFoundedOn(R, Nat)
  BY NatLessThanWellFounded DEF OpToRel
<1>2. \A y, m \in S : y < m => <<y, m>> \in R
  OBVIOUS
<1> HIDE DEF R
<1>3. PICK m \in S : \A y \in S : ~(<<y, m>> \in R)
  BY <1>1, WFMin
<1>4. ASSUME NEW k \in S PROVE m <= k
  <2>1. m \in Nat /\ k \in Nat
    OBVIOUS
  <2>2. ~(k < m)
    BY <1>2, <1>3
  <2> QED BY <2>1, <2>2
<1> QED BY <1>4

\* A subsequence up to the end is what is left when a prefix is dropped.
LEMMA SubSeqDrops ==
  ASSUME NEW S, NEW q \in Seq(S), NEW k \in 0..Len(q)
  PROVE  SubSeq(q, k + 1, Len(q)) \in Seq(S) /\ Drops(SubSeq(q, k + 1, Len(q)), q, k)
<1>1. /\ Len(SubSeq(q, k + 1, Len(q))) = Len(q) - k
      /\ \A i \in 1..(Len(q) - k) : SubSeq(q, k + 1, Len(q))[i] = q[i + k]
  OBVIOUS
<1>2. SubSeq(q, k + 1, Len(q)) \in Seq(S)
  OBVIOUS
<1> QED BY <1>1, <1>2 DEF Drops

\* purge_expired drops expired clips only, and leaves none at the front.
LEMMA PurgedDrops ==
  ASSUME NEW S, NEW q \in Seq(S)
  PROVE  /\ Purged(q) \in Seq(S)
         /\ \E k \in 0..Len(q) :
              /\ Drops(Purged(q), q, k)
              /\ \A i \in 1..k : Expired(q[i])
              /\ k < Len(q) => ~Expired(q[k + 1])
<1> DEFINE fresh == {i \in 1..Len(q) : ~Expired(q[i])}
<1>0. Len(q) \in Nat
  OBVIOUS
<1>1. CASE fresh = {}
  <2>1. Purged(q) = <<>>
    BY <1>1 DEF Purged
  <2>2. \A i \in 1..Len(q) : Expired(q[i])
    BY <1>1
  <2>3. Drops(Purged(q), q, Len(q))
    BY <1>0, <2>1 DEF Drops
  <2> QED BY <1>0, <2>1, <2>2, <2>3
<1>2. CASE fresh # {}
  <2> DEFINE m == CHOOSE i \in fresh : \A j \in fresh : i <= j
  <2>1. fresh \in SUBSET Nat
    OBVIOUS
  <2> HIDE DEF fresh
  <2>2. m \in fresh /\ \A j \in fresh : m <= j
    BY <1>2, <2>1, LeastNat
  <2>3. Purged(q) = SubSeq(q, m, Len(q))
    BY <1>2 DEF Purged, fresh
  <2> HIDE DEF m
  <2>4. m \in 1..Len(q) /\ ~Expired(q[m]) /\ \A j \in 1..(m - 1) : Expired(q[j])
    BY <1>0, <2>2 DEF fresh
  <2>5. PICK k \in 0..(Len(q) - 1) : m = k + 1
    <3>1. m - 1 \in 0..(Len(q) - 1) /\ m = (m - 1) + 1
      BY <1>0, <2>4
    <3> QED BY <3>1
  <2>6. k \in 0..Len(q) /\ m - 1 = k
    BY <1>0, <2>5
  <2>7. Purged(q) \in Seq(S) /\ Drops(Purged(q), q, k)
    BY <2>3, <2>5, <2>6, SubSeqDrops
  <2>8. (\A i \in 1..k : Expired(q[i])) /\ ~Expired(q[k + 1])
    BY <2>4, <2>5, <2>6
  <2> QED BY <2>6, <2>7, <2>8
<1> QED BY <1>1, <1>2

\* Trimming leaves at most MAX_CLIPS, and exactly that many if it dropped any.
LEMMA TrimmedDrops ==
  ASSUME NEW S, NEW q \in Seq(S)
  PROVE  /\ Trimmed(q) \in Seq(S)
         /\ Len(Trimmed(q)) <= MaxClips
         /\ \E k \in 0..Len(q) : Drops(Trimmed(q), q, k)
                                 /\ (k # 0 => Len(Trimmed(q)) = MaxClips)
<1>0. Len(q) \in Nat /\ MaxClips \in Nat
  BY SizesAssumption
<1>1. CASE Len(q) > MaxClips
  <2>1. PICK k \in 0..Len(q) : k = Len(q) - MaxClips
    BY <1>0, <1>1
  <2>2. Trimmed(q) = SubSeq(q, k + 1, Len(q))
    BY <1>1, <2>1 DEF Trimmed
  <2>3. Trimmed(q) \in Seq(S) /\ Drops(Trimmed(q), q, k)
    BY <2>2, SubSeqDrops
  <2>4. Len(Trimmed(q)) = MaxClips
    BY <1>0, <2>1, <2>3 DEF Drops
  <2> QED BY <1>0, <2>3, <2>4
<1>2. CASE ~(Len(q) > MaxClips)
  <2>1. Trimmed(q) = q
    BY <1>2 DEF Trimmed
  <2>2. Drops(q, q, 0)
    BY <1>0 DEF Drops
  <2> QED BY <1>0, <1>2, <2>1, <2>2
<1> QED BY <1>1, <1>2

\* Outbox::push drops clips only from the front: expired ones, and others only if the outbox
\* is left at its limit.
LEMMA PushDrops ==
  ASSUME outbox \in Seq(Entries), NEW clip \in Clips, Push(clip)
  PROVE  /\ outbox' \in Seq(Entries)
         /\ Len(outbox') <= MaxClips
         /\ \E k \in 0..(Len(outbox) + 1) :
              /\ Drops(outbox', Append(outbox, Fresh(clip)), k)
              /\ \A i \in 1..Len(outbox) :
                   i <= k => Expired(outbox[i]) \/ Len(outbox') = MaxClips
<1> DEFINE e == Fresh(clip)
           p == Purged(outbox)
           a == Append(p, e)
<1>0. Len(outbox) \in Nat /\ e \in Entries
  BY SizesAssumption DEF Entries, Fresh
<1>1. outbox' = Trimmed(a)
  BY DEF Push, Fresh
<1> HIDE DEF e, p
<1>2. p \in Seq(Entries)
  BY PurgedDrops DEF p
<1>3. PICK j \in 0..Len(outbox) : Drops(p, outbox, j) /\ \A i \in 1..j : Expired(outbox[i])
  BY PurgedDrops DEF p
<1>4. a \in Seq(Entries) /\ Len(a) = Len(p) + 1
  BY <1>0, <1>2
<1>5. Drops(a, Append(outbox, e), j)
  <2>1. Len(Append(outbox, e)) = Len(outbox) + 1
    BY <1>0
  <2>2. Len(a) = Len(Append(outbox, e)) - j /\ j \in 0..Len(Append(outbox, e))
    BY <1>0, <1>3, <1>4, <2>1 DEF Drops
  <2>3. Len(p) = Len(outbox) - j /\ \A i \in 1..Len(p) : p[i] = outbox[i + j]
    BY <1>3 DEF Drops
  <2>4. ASSUME NEW i \in 1..Len(a) PROVE a[i] = Append(outbox, e)[i + j]
    <3>1. CASE i \in 1..Len(p)
      <4>1. a[i] = p[i] /\ p[i] = outbox[i + j]
        BY <1>0, <1>2, <2>3, <3>1
      <4>2. i + j \in 1..Len(outbox)
        BY <1>0, <2>3, <3>1
      <4> QED BY <1>0, <4>1, <4>2
    <3>2. CASE i = Len(p) + 1
      <4>1. a[i] = e
        BY <1>0, <1>2, <3>2
      <4>2. i + j = Len(outbox) + 1
        BY <1>0, <2>3, <3>2
      <4> QED BY <1>0, <4>1, <4>2
    <3>3. i = Len(p) + 1 \/ i \in 1..Len(p)
      <4>1. Len(p) \in Nat /\ i \in Nat /\ 1 <= i /\ i <= Len(p) + 1
        BY <1>2, <1>4
      <4> QED BY <4>1
    <3> QED BY <3>1, <3>2, <3>3
  <2> HIDE DEF a
  <2> QED BY <2>2, <2>4 DEF Drops
<1> HIDE DEF a
<1>6. outbox' \in Seq(Entries) /\ Len(outbox') <= MaxClips
  BY <1>1, <1>4, TrimmedDrops
<1>7. PICK l \in 0..Len(a) : Drops(outbox', a, l) /\ (l # 0 => Len(outbox') = MaxClips)
  BY <1>1, <1>4, TrimmedDrops
<1>8. Len(Append(outbox, e)) = Len(outbox) + 1 /\ Len(a) = Len(outbox) + 1 - j
  BY <1>0, <1>3, <1>4 DEF Drops
<1>9. j + l \in 0..(Len(outbox) + 1) /\ Len(outbox') = Len(outbox) + 1 - (j + l)
  BY <1>0, <1>3, <1>7, <1>8 DEF Drops
<1>10. ASSUME NEW i \in 1..Len(outbox') PROVE outbox'[i] = Append(outbox, e)[i + (j + l)]
  <2>1. i \in Nat /\ j \in Nat /\ l \in Nat
    BY <1>0, <1>3, <1>7, <1>9
  <2>2. outbox'[i] = a[i + l]
    BY <1>7 DEF Drops
  <2>3. i + l \in 1..Len(a)
    BY <1>0, <1>8, <1>9, <2>1
  <2>4. a[i + l] = Append(outbox, e)[(i + l) + j]
    BY <1>5, <2>3 DEF Drops
  <2>5. (i + l) + j = i + (j + l)
    BY <2>1
  <2> QED BY <2>2, <2>4, <2>5
<1>11. Drops(outbox', Append(outbox, e), j + l)
  <2> DEFINE b == Append(outbox, e)
  <2> HIDE DEF b
  <2>1. \A i \in 1..Len(outbox') : outbox'[i] = b[i + (j + l)]
    BY <1>10 DEF b
  <2>2. Len(b) = Len(outbox) + 1
    BY <1>8 DEF b
  <2>3. Drops(outbox', b, j + l)
    BY <1>9, <2>1, <2>2 DEF Drops
  <2> QED BY <2>3 DEF b
<1>12. ASSUME NEW i \in 1..Len(outbox), i <= j + l
       PROVE  Expired(outbox[i]) \/ Len(outbox') = MaxClips
  BY <1>0, <1>3, <1>7, <1>12
<1> QED BY <1>6, <1>9, <1>11, <1>12 DEF e

\* What taking k out adds to the record of clips overtaken.
Overtakes(c, k) == overtaken' = overtaken \cup {<<x, k>> : x \in EarlierInFlight(c, k)}

\* Outbox::try_pop drops expired clips and takes out the first that is not.
LEMMA PopDrops ==
  ASSUME outbox \in Seq(Entries), NEW c \in Conns, TryPop(c)
  PROVE  /\ outbox' \in Seq(Entries)
         /\ \/ /\ outbox' = <<>> /\ UNCHANGED <<flight, overtaken>>
               /\ at' = [at EXCEPT ![c] = "reading"]
               /\ \A i \in 1..Len(outbox) : Expired(outbox[i])
            \/ /\ at' = [at EXCEPT ![c] = "sending"]
               /\ \E k \in 1..Len(outbox) :
                    /\ Drops(outbox', outbox, k)
                    /\ flight' = [flight EXCEPT ![c] = outbox[k].clip]
                    /\ Overtakes(c, outbox[k].clip)
                    /\ ~Expired(outbox[k])
                    /\ \A i \in 1..(k - 1) : Expired(outbox[i])
<1> DEFINE q == Purged(outbox)
<1>0. Len(outbox) \in Nat /\ q \in Seq(Entries)
  BY PurgedDrops
<1>1. PICK j \in 0..Len(outbox) :
         /\ Drops(q, outbox, j)
         /\ \A i \in 1..j : Expired(outbox[i])
         /\ j < Len(outbox) => ~Expired(outbox[j + 1])
  BY PurgedDrops
<1>2. /\ q = <<>> => outbox' = q /\ Goto(c, "reading") /\ UNCHANGED <<flight, overtaken>>
      /\ q # <<>> => /\ outbox' = Tail(q) /\ Goto(c, "sending")
                     /\ flight' = [flight EXCEPT ![c] = Head(q).clip]
                     /\ Overtakes(c, Head(q).clip)
  BY DEF TryPop, Overtakes
<1> HIDE DEF q
<1>3. CASE q = <<>>
  <2>1. j = Len(outbox)
    BY <1>0, <1>1, <1>3 DEF Drops
  <2> QED BY <1>0, <1>1, <1>2, <1>3, <2>1 DEF Goto
<1>4. CASE q # <<>>
  <2>1. Len(q) = Len(outbox) - j /\ Len(q) > 0 /\ Len(q) \in Nat
    BY <1>0, <1>1, <1>4 DEF Drops
  <2>2. Tail(q) \in Seq(Entries) /\ Len(Tail(q)) = Len(q) - 1 /\ Head(q) = q[1]
        /\ \A i \in 1..Len(Tail(q)) : Tail(q)[i] = q[i + 1]
    BY <1>0, <1>4
  <2>3. PICK k \in 1..Len(outbox) : k = j + 1
    BY <1>0, <2>1
  <2>4. q[1] = outbox[k]
    <3>1. 1 \in 1..Len(q)
      BY <2>1
    <3> QED BY <1>0, <1>1, <2>3, <3>1 DEF Drops
  <2>5. ASSUME NEW i \in 1..Len(Tail(q)) PROVE Tail(q)[i] = outbox[i + k]
    <3>1. i + 1 \in 1..Len(q) /\ (i + 1) + j = i + k
      BY <2>1, <2>2, <2>3
    <3>2. q[i + 1] = outbox[(i + 1) + j]
      BY <1>1, <3>1 DEF Drops
    <3> QED BY <2>2, <3>1, <3>2
  <2>6. Drops(Tail(q), outbox, k)
    <3>1. Len(Tail(q)) = Len(outbox) - k /\ k \in 0..Len(outbox)
      BY <1>0, <2>1, <2>2, <2>3
    <3> QED BY <2>5, <3>1 DEF Drops
  <2>7. ~Expired(outbox[k]) /\ \A i \in 1..(k - 1) : Expired(outbox[i])
    <3>1. j < Len(outbox) /\ k - 1 = j /\ j + 1 = k
      BY <1>0, <2>1, <2>3
    <3> QED BY <1>1, <3>1
  <2>8. /\ outbox' = Tail(q) /\ at' = [at EXCEPT ![c] = "sending"]
        /\ flight' = [flight EXCEPT ![c] = outbox[k].clip]
        /\ Overtakes(c, outbox[k].clip)
    BY <1>2, <1>4, <2>2, <2>4 DEF Goto
  <2> QED BY <2>2, <2>6, <2>7, <2>8
<1> QED BY <1>3, <1>4

\* Speaking pushes the turn's next clip, or nothing.
LEMMA SpeakPushes ==
  ASSUME TypeOK, NEW t \in Turns, Speak(t)
  PROVE  \/ UNCHANGED <<outbox, made>>
         \/ /\ [turn |-> t, n |-> made[t] + 1] \in Clips
            /\ Push([turn |-> t, n |-> made[t] + 1])
            /\ made' = [made EXCEPT ![t] = @ + 1]
  BY DEF Speak, Clips, TypeOK

-----------------------------------------------------------------------------
\* The parts of TypeOK: the threads and the mutex, the connection to Nala, the clips.
ControlOK ==
  /\ at \in [Threads -> {"unsaid", "ensure", "opening", "relock", "running", "replied",
                         "failed", "dropped", "none", "draining", "sending", "reading"}]
  /\ lock \in Threads \cup {None}
  /\ \A x \in Threads : (lock = x) <=> at[x] \in {"opening", "running"}
LinkOK ==
  /\ nala \in {"none", "up", "closed", "lost"}
  /\ wire \in Seq(Messages) /\ inputs \in Seq(Turns) /\ orphans \subseteq Turns
  /\ events \in Nat
ClipsOK ==
  /\ outbox \in Seq(Entries)
  /\ made \in [Turns -> Nat]
  /\ heard \in Seq(Clips) /\ swallowed \subseteq Clips
FlightOK ==
  /\ phone \in [Conns -> {"up", "closed", "lost"}]
  /\ flight \in [Conns -> Clips \cup {NoClip}]
  /\ \A c \in Conns : (at[c] = "sending") <=> (flight[c] # NoClip)
  /\ overtaken \subseteq Clips \X Clips

LEMMA TypeParts == TypeOK <=> ControlOK /\ LinkOK /\ ClipsOK /\ FlightOK
  BY DEF TypeOK, ControlOK, LinkOK, ClipsOK, FlightOK, Entries

LEMMA TypePartsNext == TypeOK' <=> ControlOK' /\ LinkOK' /\ ClipsOK' /\ FlightOK'
  BY DEF TypeOK, ControlOK, LinkOK, ClipsOK, FlightOK, Entries

\* A thread that moves without the mutex, or takes it, or gives it back, keeps ControlOK.
LEMMA ControlStep ==
  ASSUME ControlOK, NEW x \in Threads,
         NEW where \in {"unsaid", "ensure", "opening", "relock", "running", "replied",
                        "failed", "dropped", "none", "draining", "sending", "reading"},
         at' = [at EXCEPT ![x] = where],
         \/ /\ lock' = lock /\ lock # x /\ where \notin {"opening", "running"}
         \/ lock = None /\ lock' = x /\ where \in {"opening", "running"}
         \/ lock \in {x, None} /\ lock' = None /\ where \notin {"opening", "running"}
  PROVE  ControlOK'
<1>1. None \notin Threads
  BY NamesAssumption DEF Threads
<1>2. \A y \in Threads : at'[y] = IF y = x THEN where ELSE at[y]
  BY DEF ControlOK
<1> QED BY <1>1, <1>2 DEF ControlOK

\* A step keeps the types.
LEMMA TypeStep ==
  ASSUME TypeOK, [Next]_vars
  PROVE  TypeOK'
<1> USE NamesAssumption, SizesAssumption, FaultsAssumption
<1>a. None \notin Turns /\ None \notin Conns /\ Turns \cap Conns = {}
  BY NamesAssumption
<1>b. ControlOK /\ LinkOK /\ ClipsOK /\ FlightOK
  BY TypeParts
<1>c. \A c \in Conns : c \in Threads /\ c \notin Turns
  BY <1>a DEF Threads
<1>d. \A t \in Turns : t \in Threads /\ t \notin Conns
  BY <1>a DEF Threads
<1>1. CASE Tick
  <2>1. outbox' \in Seq(Entries)
    <3>1. ASSUME NEW i \in 1..Len(outbox)
          PROVE  (IF Expired(outbox[i]) THEN outbox[i]
                  ELSE [outbox[i] EXCEPT !.age = @ + 1]) \in Entries
      <4>1. outbox[i] \in Entries
        BY <1>b DEF ClipsOK
      <4>2. ASSUME NEW e \in Entries, ~Expired(e)
            PROVE  [e EXCEPT !.age = @ + 1] \in Entries
        <5>1. e.age + 1 \in 0..(TTL + 1)
          BY <4>2 DEF Entries, Expired
        <5> QED BY <4>2, <5>1 DEF Entries
      <4> QED BY <4>1, <4>2
    <3>2. Len(outbox) \in Nat
      BY <1>b DEF ClipsOK
    <3>3. outbox' = [i \in 1..Len(outbox) |->
                       IF Expired(outbox[i]) THEN outbox[i]
                       ELSE [outbox[i] EXCEPT !.age = @ + 1]]
      BY <1>1 DEF Tick
    <3> QED BY <3>1, <3>2, <3>3, IsASeq
  <2> QED BY <1>1, <1>b, <2>1, TypePartsNext
      DEF ControlOK, LinkOK, ClipsOK, FlightOK, Tick, nalaVars, phoneVars
<1>2. ASSUME NEW x \in Threads, EnsureStep(x) PROVE TypeOK'
  <2>0. AfterEnsure(x) \in {"relock", "draining"}
    BY DEF AfterEnsure
  <2>1. CASE EnsureFindsClient(x)
    BY <1>2, <2>1 DEF TypeOK, EnsureFindsClient, AfterEnsure, Goto, nalaVars, phoneVars, Threads
  <2>2. CASE EnsureCannotConnect(x)
    BY <1>2, <2>2 DEF TypeOK, EnsureCannotConnect, AfterEnsure, Goto, nalaVars, phoneVars, Threads
  <2>3. CASE EnsureConnects(x)
    <3>1. ControlOK'
      BY <1>b, <2>3, ControlStep DEF EnsureConnects, Goto
    <3>2. LinkOK' /\ ClipsOK'
      BY <1>b, <2>3 DEF LinkOK, ClipsOK, EnsureConnects, Messages, phoneVars
    <3>3. FlightOK'
      BY <1>b, <1>c, <2>3 DEF FlightOK, ControlOK, EnsureConnects, Goto, phoneVars
    <3> QED BY <3>1, <3>2, <3>3, TypePartsNext
  <2>4. CASE EnsureGreeted(x)
    <3>1. ControlOK'
      BY <1>b, <2>0, <2>4, ControlStep DEF EnsureGreeted, Goto
    <3>2. LinkOK' /\ ClipsOK'
      <4>1. wire' \in Seq(Messages)
        <5>1. wire # <<>> => Tail(wire) \in Seq(Messages)
          BY <1>b DEF LinkOK
        <5> QED BY <1>b, <2>4, <5>1 DEF LinkOK, EnsureGreeted
      <4> QED BY <1>b, <2>4, <4>1 DEF LinkOK, ClipsOK, EnsureGreeted, phoneVars
    <3>3. FlightOK'
      BY <1>b, <1>c, <2>0, <2>4 DEF FlightOK, ControlOK, EnsureGreeted, Goto, phoneVars
    <3> QED BY <3>1, <3>2, <3>3, TypePartsNext
  <2> QED BY <1>2, <2>1, <2>2, <2>3, <2>4 DEF EnsureStep
<1>3. ASSUME NEW t \in Turns, TurnStep(t) PROVE TypeOK'
  <2>0. ASSUME NEW where, at' = [at EXCEPT ![t] = where], UNCHANGED phoneVars
        PROVE  FlightOK'
    BY <1>b, <1>c, <1>d, <2>0 DEF FlightOK, ControlOK, phoneVars
  <2>f. ASSUME FailTurn(t), lock \in {t, None} PROVE TypeOK'
    <3>1. ControlOK'
      BY <1>b, <1>d, <2>f, ControlStep DEF FailTurn, EndTurn, Goto
    <3>2. LinkOK'
      <4>1. \A i \in 1..Len(inputs) : inputs[i] \in Turns
        BY <1>b DEF LinkOK
      <4> QED BY <1>b, <2>f, <4>1 DEF LinkOK, FailTurn, DropClient
    <3>3. ClipsOK' /\ FlightOK'
      BY <1>b, <2>0, <2>f DEF ClipsOK, FailTurn, EndTurn, Goto, phoneVars
    <3> QED BY <3>1, <3>2, <3>3, TypePartsNext
  <2>g. ASSUME Speak(t), UNCHANGED <<heard, swallowed>> PROVE ClipsOK'
    <3>1. CASE UNCHANGED <<outbox, made>>
      BY <1>b, <2>g, <3>1 DEF ClipsOK
    <3>2. CASE /\ [turn |-> t, n |-> made[t] + 1] \in Clips
               /\ Push([turn |-> t, n |-> made[t] + 1])
               /\ made' = [made EXCEPT ![t] = @ + 1]
      <4>1. outbox' \in Seq(Entries)
        BY <1>b, <3>2, PushDrops DEF ClipsOK
      <4> QED BY <1>b, <2>g, <3>2, <4>1 DEF ClipsOK
    <3> QED BY <2>g, <3>1, <3>2, SpeakPushes
  <2>h. at[t] = "running" => lock = t
    BY <1>b, <1>d DEF ControlOK
  <2>1. CASE DropTurn(t)
    BY <1>3, <2>1 DEF TypeOK, DropTurn, Goto, nalaVars, phoneVars, Threads
  <2>2. CASE SendInput(t)
    <3>1. CASE nala = "closed" /\ FailTurn(t)
      BY <2>2, <2>f, <3>1 DEF SendInput
    <3>2. CASE ~(nala = "closed" /\ FailTurn(t))
      <4>1. lock = None /\ Goto(t, "running") /\ lock' = t
            /\ inputs' = (IF nala = "up" THEN Append(inputs, t) ELSE inputs)
            /\ UNCHANGED <<nala, wire, events, orphans, outbox, made, phoneVars>>
        BY <2>2, <3>2 DEF SendInput
      <4>2. ControlOK'
        BY <1>b, <1>d, <4>1, ControlStep DEF Goto
      <4>3. ClipsOK' /\ FlightOK'
        BY <1>b, <2>0, <4>1 DEF ClipsOK, Goto, phoneVars
      <4>4. inputs' \in Seq(Turns)
        BY <1>b, <4>1 DEF LinkOK
      <4>5. LinkOK'
        BY <1>b, <4>1, <4>4 DEF LinkOK
      <4> QED BY <4>2, <4>3, <4>5, TypePartsNext
    <3> QED BY <3>1, <3>2
  <2>3. CASE ReceiveEvent(t)
    <3>1. ControlOK' /\ LinkOK' /\ FlightOK'
      BY <1>b, <2>3 DEF ControlOK, LinkOK, FlightOK, ReceiveEvent, phoneVars
    <3>2. ClipsOK'
      BY <2>3, <2>g DEF ReceiveEvent, phoneVars
    <3> QED BY <3>1, <3>2, TypePartsNext
  <2>4. CASE ReceiveReply(t)
    <3>1. ControlOK'
      BY <1>b, <1>d, <2>4, <2>h, ControlStep DEF ReceiveReply, EndTurn, Goto
    <3>2. LinkOK'
      BY <1>b, <2>4 DEF LinkOK, ReceiveReply
    <3>4. FlightOK'
      BY <2>0, <2>4 DEF ReceiveReply, EndTurn, Goto
    <3>3. ClipsOK'
      BY <2>4, <2>g DEF ReceiveReply, phoneVars
    <3> QED BY <3>1, <3>2, <3>3, <3>4, TypePartsNext
  <2>5. CASE ReceiveFailure(t)
    BY <2>5, <2>f, <2>h DEF ReceiveFailure
  <2> QED BY <1>3, <2>1, <2>2, <2>3, <2>4, <2>5 DEF TurnStep
<1>4. ASSUME NEW c \in Conns, ConnStep(c) PROVE TypeOK'
  <2>0. ASSUME NEW where \in {"none", "draining", "sending", "reading"},
               at[c] \in {"draining", "sending", "reading"},
               at' = [at EXCEPT ![c] = where], lock' = lock
        PROVE  ControlOK'
    <3>1. lock # c
      BY <1>b, <1>c, <2>0 DEF ControlOK
    <3> QED BY <1>b, <1>c, <2>0, <3>1, ControlStep
  <2>n. ASSUME NEW where, where # "sending", at' = [at EXCEPT ![c] = where],
               flight' = [flight EXCEPT ![c] = NoClip], UNCHANGED <<phone, overtaken>>
        PROVE  FlightOK'
    BY <1>b, <1>c, <2>n DEF FlightOK, ControlOK
  <2>c. at[c] = "sending" => flight[c] \in Clips
    BY <1>b DEF FlightOK
  <2>1. CASE TryPop(c)
    <3>1. /\ at[c] = "draining" /\ lock' = lock
          /\ UNCHANGED <<nalaVars, made, phone, heard, swallowed>>
      BY <2>1 DEF TryPop
    <3>2. outbox \in Seq(Entries)
      BY <1>b DEF ClipsOK
    <3>3. outbox' \in Seq(Entries)
      BY <2>1, <3>2, PopDrops
    <3>4. LinkOK' /\ ClipsOK'
      BY <1>b, <3>1, <3>3 DEF LinkOK, ClipsOK, nalaVars
    <3>5. CASE UNCHANGED <<flight, overtaken>> /\ at' = [at EXCEPT ![c] = "reading"]
      <4>1. ControlOK'
        BY <2>0, <3>1, <3>5
      <4>2. FlightOK'
        BY <1>b, <1>c, <3>1, <3>5 DEF FlightOK, ControlOK
      <4> QED BY <3>4, <4>1, <4>2, TypePartsNext
    <3>6. CASE /\ at' = [at EXCEPT ![c] = "sending"]
               /\ \E k \in 1..Len(outbox) : /\ flight' = [flight EXCEPT ![c] = outbox[k].clip]
                                           /\ Overtakes(c, outbox[k].clip)
      <4>1. ControlOK'
        BY <2>0, <3>1, <3>6
      <4>2. PICK k \in 1..Len(outbox) : /\ flight' = [flight EXCEPT ![c] = outbox[k].clip]
                                        /\ Overtakes(c, outbox[k].clip)
        BY <3>6
      <4>3. outbox[k] \in Entries
        BY <3>2
      <4>4. outbox[k].clip \in Clips /\ outbox[k].clip # NoClip
        BY <1>a, <4>3 DEF Entries, Clips, NoClip
      <4>5. overtaken' \subseteq Clips \X Clips
        <5>1. EarlierInFlight(c, outbox[k].clip) \subseteq Clips
          BY <1>a, <1>b, <4>4 DEF EarlierInFlight, FlightOK, Clips, NoClip
        <5> QED BY <1>b, <4>2, <4>4, <5>1 DEF Overtakes, FlightOK
      <4>6. FlightOK'
        BY <1>b, <1>c, <3>1, <3>6, <4>2, <4>4, <4>5 DEF FlightOK, ControlOK
      <4> QED BY <3>4, <4>1, <4>6, TypePartsNext
    <3> QED BY <2>1, <3>2, <3>5, <3>6, PopDrops
  <2>2. CASE SendClip(c)
    <3>1. ControlOK'
      BY <2>0, <2>2 DEF SendClip, Goto
    <3>2. LinkOK' /\ FlightOK'
      BY <1>b, <2>2, <2>n DEF LinkOK, SendClip, Goto, nalaVars
    <3>3. ClipsOK'
      <4>1. flight[c] \in Clips
        BY <2>2, <2>c DEF SendClip
      <4>2. Append(heard, flight[c]) \in Seq(Clips) /\ swallowed \cup {flight[c]} \subseteq Clips
        BY <1>b, <4>1 DEF ClipsOK
      <4>3. heard' \in Seq(Clips) /\ swallowed' \subseteq Clips
        BY <1>b, <2>2, <4>2 DEF ClipsOK, SendClip
      <4> QED BY <1>b, <2>2, <4>3 DEF ClipsOK, SendClip
    <3> QED BY <3>1, <3>2, <3>3, TypePartsNext
  <2>3. CASE SendFails(c)
    <3>1. ControlOK'
      BY <2>0, <2>3 DEF SendFails, Goto
    <3>2. LinkOK' /\ FlightOK'
      BY <1>b, <2>3, <2>n DEF LinkOK, SendFails, Goto, nalaVars
    <3>3. ClipsOK'
      <4>1. <<Fresh(flight[c])>> \in Seq(Entries)
        BY <2>3, <2>c DEF SendFails, Fresh, Entries
      <4>2. outbox' = <<Fresh(flight[c])>> \o outbox
        BY <2>3 DEF SendFails, PushFront, Fresh
      <4>3. outbox' \in Seq(Entries)
        BY <1>b, <4>1, <4>2 DEF ClipsOK
      <4> QED BY <1>b, <2>3, <4>3 DEF ClipsOK, SendFails
    <3> QED BY <3>1, <3>2, <3>3, TypePartsNext
  <2>4. CASE Idle(c)
    BY <1>4, <2>4 DEF TypeOK, Idle, Goto, nalaVars, phoneVars, Threads
  <2>5. CASE Closed(c)
    BY <1>4, <2>5 DEF TypeOK, Closed, Goto, nalaVars, phoneVars, Threads
  <2> QED BY <1>4, <2>1, <2>2, <2>3, <2>4, <2>5 DEF ConnStep
<1>5. ASSUME NEW c \in Conns, Hear(c) \/ PhoneConnects(c) \/ PhoneDrops(c) PROVE TypeOK'
  <2>1. CASE Hear(c)
    BY <2>1 DEF TypeOK, Hear, nalaVars, phoneVars, Threads
  <2>2. CASE PhoneConnects(c)
    BY <2>2 DEF TypeOK, PhoneConnects, Goto, nalaVars, Threads
  <2>3. CASE PhoneDrops(c)
    BY <2>3 DEF TypeOK, PhoneDrops, nalaVars, Threads
  <2> QED BY <1>5, <2>1, <2>2, <2>3
<1>m. ASSUME NEW m \in Messages, NalaSends(m) PROVE wire' \in Seq(Messages)
  BY <1>b, <1>m DEF LinkOK, NalaSends
<1>i. inputs # <<>> => Head(inputs) \in Turns /\ Tail(inputs) \in Seq(Turns)
  BY <1>b DEF LinkOK
<1>6. CASE NalaEvent
  <2>1. [kind |-> "event", turn |-> Head(inputs)] \in Messages
    BY <1>6, <1>i DEF NalaEvent, Messages
  <2>2. wire' \in Seq(Messages)
    BY <1>6, <1>m, <2>1 DEF NalaEvent
  <2> QED BY <1>6, <1>b, <2>2, TypePartsNext
      DEF NalaEvent, ControlOK, LinkOK, ClipsOK, FlightOK, phoneVars
<1>7. CASE NalaFinish
  <2>1. PICK k \in {"reply", "error"} : NalaSends([kind |-> k, turn |-> Head(inputs)])
    BY <1>7 DEF NalaFinish
  <2>2. [kind |-> k, turn |-> Head(inputs)] \in Messages
    BY <1>7, <1>i DEF NalaFinish, Messages
  <2>3. wire' \in Seq(Messages)
    BY <1>m, <2>1, <2>2
  <2> QED BY <1>7, <1>b, <1>i, <2>3, TypePartsNext
      DEF NalaFinish, ControlOK, LinkOK, ClipsOK, FlightOK, phoneVars
<1>8. CASE OrphanFinishes
  BY <1>8 DEF TypeOK, OrphanFinishes, phoneVars
<1>9. CASE NalaLinkBreaks
  BY <1>9 DEF TypeOK, NalaLinkBreaks, phoneVars
<1>10. CASE UNCHANGED vars
  BY <1>10 DEF TypeOK, vars, nalaVars, phoneVars
<1> QED BY <1>1, <1>2, <1>3, <1>4, <1>5, <1>6, <1>7, <1>8, <1>9, <1>10 DEF Next, NalaStep

LEMMA TypeInit == Init => TypeOK
<1> SUFFICES ASSUME Init PROVE TypeOK
  OBVIOUS
<1>1. None \notin Turns /\ None \notin Conns /\ Turns \cap Conns = {}
  BY NamesAssumption
<1>2. ControlOK
  BY <1>1 DEF Init, ControlOK, Threads
<1>3. LinkOK /\ ClipsOK
  BY SizesAssumption DEF Init, LinkOK, ClipsOK
<1>4. FlightOK
  BY <1>1 DEF Init, FlightOK, Threads
<1> QED BY <1>2, <1>3, <1>4, TypeParts

\* In every reachable state the variables have their types, the mutex is held exactly by the
\* thread that runs a turn or opens the connection, and a connection's thread holds a clip
\* exactly while it sends.
THEOREM TypeCorrect == Spec => []TypeOK
  BY TypeInit, TypeStep, PTL DEF Spec

-----------------------------------------------------------------------------
\* What is on the connection in the slot: nothing while nobody holds the lock; at most the
\* greeting while it is opened; and while a turn runs, only what belongs to that turn, with
\* its reply or error last and only after Nala has finished with it.
SlotEmpty == lock = None => wire = <<>> /\ inputs = <<>>
SlotOpening ==
  \A x \in Threads : at[x] = "opening" => inputs = <<>> /\ Len(wire) <= 1
SlotRunning ==
  \A t \in Turns : at[t] = "running" =>
    /\ Len(inputs) <= 1 /\ \A i \in 1..Len(inputs) : inputs[i] = t
    /\ \A i \in 1..Len(wire) :
         /\ wire[i].turn = t
         /\ wire[i].kind # "event" => i = Len(wire) /\ inputs = <<>>
OnlyTurnsRun == \A c \in Conns : at[c] # "running"
SlotInv == SlotEmpty /\ SlotOpening /\ SlotRunning /\ OnlyTurnsRun

LEMMA SlotStep ==
  ASSUME TypeOK, TypeOK', SlotInv, [Next]_vars
  PROVE  SlotInv'
<1>a. None \notin Threads /\ \A c \in Conns : c \in Threads /\ c \notin Turns
  BY NamesAssumption DEF Threads
<1>b. \A t \in Turns : t \in Threads /\ t \notin Conns
  BY NamesAssumption DEF Threads
<1>c. ControlOK /\ LinkOK /\ ControlOK' /\ LinkOK'
  BY TypeParts, TypePartsNext
<1>d. \A x, y \in Threads : at[x] \in {"opening", "running"} /\ at[y] \in {"opening", "running"} => x = y
  BY <1>c DEF ControlOK
<1>e. \A x, y \in Threads : at'[x] \in {"opening", "running"} /\ at'[y] \in {"opening", "running"} => x = y
  BY <1>c DEF ControlOK
<1>f. ASSUME NEW x \in Threads, NEW where, where \notin {"opening", "running"},
             at' = [at EXCEPT ![x] = where], UNCHANGED <<lock, wire, inputs>>
      PROVE  SlotInv'
  BY <1>c, <1>f DEF SlotInv, SlotEmpty, SlotOpening, SlotRunning, OnlyTurnsRun, ControlOK
<1>g. ASSUME UNCHANGED <<at, lock, wire, inputs>> PROVE SlotInv'
  BY <1>g DEF SlotInv, SlotEmpty, SlotOpening, SlotRunning, OnlyTurnsRun
\* The step gives the lock back and leaves nothing on the connection.
<1>h. ASSUME NEW x \in Threads, NEW where, where \notin {"opening", "running"},
             at' = [at EXCEPT ![x] = where], lock \in {x, None}, lock' = None,
             wire' = <<>>, inputs' = <<>>
      PROVE  SlotInv'
  <2>1. \A y \in Threads : at'[y] \notin {"opening", "running"}
    BY <1>a, <1>c, <1>h DEF ControlOK
  <2> QED BY <1>a, <1>b, <1>h, <2>1 DEF SlotInv, SlotEmpty, SlotOpening, SlotRunning, OnlyTurnsRun
<1>2. ASSUME NEW x \in Threads, EnsureStep(x) PROVE SlotInv'
  <2>0. AfterEnsure(x) \notin {"opening", "running"}
    BY DEF AfterEnsure
  <2>1. CASE EnsureFindsClient(x) \/ EnsureCannotConnect(x)
    BY <1>f, <2>0, <2>1 DEF EnsureFindsClient, EnsureCannotConnect, Goto, nalaVars
  <2>3. CASE EnsureConnects(x)
    <3>1. lock = None /\ lock' = x /\ at' = [at EXCEPT ![x] = "opening"] /\ inputs' = inputs
          /\ wire' = <<[kind |-> "greeting", turn |-> None]>>
      BY <2>3 DEF EnsureConnects, Goto
    <3>2. inputs' = <<>> /\ Len(wire') = 1
      BY <3>1 DEF SlotInv, SlotEmpty
    <3>3. \A y \in Threads : at'[y] \in {"opening", "running"} => y = x /\ at'[y] = "opening"
      BY <1>a, <1>c, <3>1 DEF ControlOK
    <3> QED BY <1>a, <1>b, <3>1, <3>2, <3>3
        DEF SlotInv, SlotEmpty, SlotOpening, SlotRunning, OnlyTurnsRun
  <2>4. CASE EnsureGreeted(x)
    <3>1. at[x] = "opening" /\ lock = x /\ lock' = None /\ inputs' = inputs
          /\ at' = [at EXCEPT ![x] = AfterEnsure(x)]
      BY <2>4 DEF EnsureGreeted, Goto
    <3>2. inputs' = <<>> /\ Len(wire) <= 1
      BY <3>1 DEF SlotInv, SlotOpening
    <3>3. wire' = <<>>
      <4>1. CASE wire # <<>> /\ wire' = Tail(wire)
        <5>1. Len(wire) = 1
          <6>1. wire \in Seq(Messages)
            BY <1>c DEF LinkOK
          <6>2. Len(wire) \in Nat /\ Len(wire) # 0
            BY <4>1, <6>1
          <6> QED BY <3>2, <6>2
        <5>2. Len(wire') = 0 /\ wire' \in Seq(Messages)
          BY <1>c, <4>1, <5>1 DEF LinkOK
        <5> QED BY <5>2
      <4> QED BY <2>4, <4>1 DEF EnsureGreeted
    <3> QED BY <1>h, <2>0, <3>1, <3>2, <3>3
  <2> QED BY <1>2, <2>1, <2>3, <2>4 DEF EnsureStep
<1>3. ASSUME NEW t \in Turns, TurnStep(t) PROVE SlotInv'
  <2>0. at[t] = "running" => lock = t
    BY <1>b, <1>c DEF ControlOK
  <2>f. ASSUME FailTurn(t), lock \in {t, None} PROVE SlotInv'
    BY <1>b, <1>h, <2>f DEF FailTurn, EndTurn, DropClient, Goto
  <2>1. CASE DropTurn(t)
    BY <1>b, <1>f, <2>1 DEF DropTurn, Goto, nalaVars
  <2>2. CASE SendInput(t)
    <3>1. CASE nala = "closed" /\ FailTurn(t)
      BY <2>2, <2>f, <3>1 DEF SendInput
    <3>2. CASE ~(nala = "closed" /\ FailTurn(t))
      <4>1. lock = None /\ at' = [at EXCEPT ![t] = "running"] /\ lock' = t /\ wire' = wire
            /\ inputs' = (IF nala = "up" THEN Append(inputs, t) ELSE inputs)
        BY <2>2, <3>2 DEF SendInput, Goto
      <4>2. wire' = <<>> /\ inputs = <<>>
        BY <4>1 DEF SlotInv, SlotEmpty
      <4>3. Len(inputs') <= 1 /\ \A i \in 1..Len(inputs') : inputs'[i] = t
        BY <4>1, <4>2
      <4>4. \A y \in Threads : at'[y] \in {"opening", "running"} => y = t /\ at'[y] = "running"
        BY <1>a, <1>b, <1>c, <4>1 DEF ControlOK
      <4> QED BY <1>a, <1>b, <4>1, <4>2, <4>3, <4>4
          DEF SlotInv, SlotEmpty, SlotOpening, SlotRunning, OnlyTurnsRun
    <3> QED BY <3>1, <3>2
  <2>3. CASE ReceiveEvent(t)
    <3>1. at[t] = "running" /\ wire # <<>> /\ wire' = Tail(wire) /\ UNCHANGED <<at, lock, inputs>>
      BY <2>3 DEF ReceiveEvent
    <3>2. Len(wire') = Len(wire) - 1 /\ \A i \in 1..Len(wire') : wire'[i] = wire[i + 1] /\ i + 1 \in 1..Len(wire)
      BY <1>c, <3>1 DEF LinkOK
    <3>3. Len(wire) \in Nat
      BY <1>c DEF LinkOK
    <3>4. ASSUME NEW i \in 1..Len(wire')
          PROVE  wire'[i].turn = t /\ (wire'[i].kind # "event" => i = Len(wire') /\ inputs = <<>>)
      <4>1. wire[i + 1].turn = t
            /\ (wire[i + 1].kind # "event" => i + 1 = Len(wire) /\ inputs = <<>>)
        BY <3>1, <3>2 DEF SlotInv, SlotRunning
      <4> QED BY <3>2, <3>3, <4>1
    <3>5. \A y \in Threads : at'[y] \in {"opening", "running"} => y = t /\ at'[y] = "running"
      BY <1>b, <1>d, <3>1
    <3>6. SlotRunning'
      BY <1>b, <3>1, <3>4, <3>5 DEF SlotInv, SlotRunning
    <3> QED BY <1>a, <1>b, <2>0, <3>1, <3>5, <3>6
        DEF SlotInv, SlotEmpty, SlotOpening, OnlyTurnsRun
  <2>4. CASE ReceiveReply(t)
    <3>1. at[t] = "running" /\ wire # <<>> /\ Head(wire).kind = "reply" /\ wire' = Tail(wire)
          /\ inputs' = inputs /\ lock' = None /\ at' = [at EXCEPT ![t] = "replied"]
      BY <2>4 DEF ReceiveReply, EndTurn, Goto
    <3>2. Head(wire) = wire[1] /\ 1 \in 1..Len(wire)
      BY <1>c, <3>1 DEF LinkOK
    <3>3. 1 = Len(wire) /\ inputs = <<>>
      BY <3>1, <3>2 DEF SlotInv, SlotRunning
    <3>4. wire' = <<>>
      <4>1. Len(wire') = 0 /\ wire' \in Seq(Messages)
        BY <1>c, <3>1, <3>3 DEF LinkOK
      <4> QED BY <4>1
    <3> QED BY <1>b, <1>h, <2>0, <3>1, <3>3, <3>4
  <2>5. CASE ReceiveFailure(t)
    BY <2>0, <2>5, <2>f DEF ReceiveFailure
  <2> QED BY <1>3, <2>1, <2>2, <2>3, <2>4, <2>5 DEF TurnStep
<1>4. ASSUME NEW c \in Conns, ConnStep(c) \/ Hear(c) \/ PhoneConnects(c) \/ PhoneDrops(c)
      PROVE  SlotInv'
  <2>1. CASE TryPop(c)
    BY <1>a, <1>f, <2>1 DEF TryPop, Goto, nalaVars
  <2>2. CASE SendClip(c) \/ SendFails(c) \/ Idle(c) \/ Closed(c) \/ PhoneConnects(c)
    BY <1>a, <1>f, <2>2 DEF SendClip, SendFails, Idle, Closed, PhoneConnects, Goto, nalaVars
  <2>3. CASE Hear(c)
    <3>1. PICK t \in Turns : at' = [at EXCEPT ![t] = "ensure", ![c] = "draining"]
      BY <2>3 DEF Hear
    <3>2. UNCHANGED <<lock, wire, inputs>>
      BY <2>3 DEF Hear, nalaVars
    <3>3. \A x \in Threads : at'[x] \in {"opening", "running"} => at'[x] = at[x]
      BY <1>a, <1>b, <1>c, <3>1 DEF ControlOK
    <3> QED BY <1>a, <1>b, <3>2, <3>3
        DEF SlotInv, SlotEmpty, SlotOpening, SlotRunning, OnlyTurnsRun
  <2>4. CASE PhoneDrops(c)
    BY <1>g, <2>4 DEF PhoneDrops, nalaVars
  <2> QED BY <1>4, <2>1, <2>2, <2>3, <2>4 DEF ConnStep
\* Nala works only for the turn that runs.
<1>n. ASSUME inputs # <<>>
      PROVE  \E t \in Turns : /\ at[t] = "running" /\ lock = t
                              /\ inputs[1] = t /\ Len(inputs) = 1 /\ Head(inputs) = t
                              /\ \A i \in 1..Len(wire) : wire[i].turn = t /\ wire[i].kind = "event"
  <2>1. lock \in Threads /\ at[lock] \in {"opening", "running"}
    BY <1>c, <1>n DEF SlotInv, SlotEmpty, ControlOK
  <2>2. lock \in Turns /\ at[lock] = "running"
    BY <1>n, <2>1 DEF SlotInv, SlotOpening, OnlyTurnsRun, Threads
  <2>3. Len(inputs) = 1 /\ Head(inputs) = inputs[1] /\ 1 \in 1..Len(inputs)
    <3>1. Len(inputs) <= 1
      BY <2>2 DEF SlotInv, SlotRunning
    <3>2. inputs \in Seq(Turns)
      BY <1>c DEF LinkOK
    <3>3. Len(inputs) \in Nat /\ Len(inputs) # 0 /\ Head(inputs) = inputs[1]
      BY <1>n, <3>2
    <3> QED BY <3>1, <3>3
  <2>4. inputs[1] = lock /\ \A i \in 1..Len(wire) : wire[i].turn = lock /\ wire[i].kind = "event"
    BY <1>n, <2>2, <2>3 DEF SlotInv, SlotRunning
  <2> QED BY <2>2, <2>3, <2>4
<1>5. CASE NalaEvent \/ NalaFinish
  <2>0. inputs # <<>>
    BY <1>5 DEF NalaEvent, NalaFinish
  <2>1. PICK t \in Turns : /\ at[t] = "running" /\ lock = t
                           /\ inputs[1] = t /\ Len(inputs) = 1 /\ Head(inputs) = t
                           /\ \A i \in 1..Len(wire) : wire[i].turn = t /\ wire[i].kind = "event"
    BY <1>n, <2>0
  <2>2. UNCHANGED <<at, lock>>
    BY <1>5 DEF NalaEvent, NalaFinish
  <2>3. \A y \in Threads : at'[y] \in {"opening", "running"} => y = t /\ at'[y] = "running"
    BY <1>b, <1>d, <2>1, <2>2
  <2>4. ASSUME NEW m, m.turn = t, NalaSends(m), m.kind = "event" \/ inputs' = <<>>,
               NEW i \in 1..Len(wire')
        PROVE  /\ wire'[i].turn = t
               /\ wire'[i].kind # "event" => i = Len(wire') /\ inputs' = <<>>
    <3>1. wire' = wire \/ wire' = Append(wire, m)
      BY <2>4 DEF NalaSends
    <3>2. CASE wire' = wire
      BY <2>1, <3>2
    <3>3. CASE wire' = Append(wire, m)
      <4>1. Len(wire') = Len(wire) + 1 /\ Len(wire) \in Nat
        BY <1>c, <3>3 DEF LinkOK
      <4>2. CASE i = Len(wire')
        <5>1. wire'[i] = m
          BY <1>c, <3>3, <4>1, <4>2 DEF LinkOK
        <5> QED BY <2>4, <4>2, <5>1
      <4>3. CASE i # Len(wire')
        <5>1. i \in 1..Len(wire)
          BY <4>1, <4>3
        <5>2. wire'[i] = wire[i]
          BY <1>c, <3>3, <5>1 DEF LinkOK
        <5> QED BY <2>1, <5>1, <5>2
      <4> QED BY <4>2, <4>3
    <3> QED BY <3>1, <3>2, <3>3
  <2>5. CASE NalaEvent
    <3>1. NalaSends([kind |-> "event", turn |-> t]) /\ inputs' = inputs
      BY <2>1, <2>5 DEF NalaEvent
    <3>2. \A i \in 1..Len(wire') :
             /\ wire'[i].turn = t
             /\ wire'[i].kind # "event" => i = Len(wire') /\ inputs' = <<>>
      BY <2>4, <3>1
    <3>3. SlotRunning'
      BY <1>b, <2>1, <2>2, <2>3, <3>1, <3>2 DEF SlotInv, SlotRunning
    <3> QED BY <1>a, <1>b, <2>1, <2>2, <2>3, <3>3 DEF SlotInv, SlotEmpty, SlotOpening, OnlyTurnsRun
  <2>6. CASE NalaFinish
    <3>1. PICK k \in {"reply", "error"} : NalaSends([kind |-> k, turn |-> t])
      BY <2>1, <2>6 DEF NalaFinish
    <3>2. inputs' = <<>>
      <4>1. inputs' = Tail(inputs) /\ inputs \in Seq(Turns)
        BY <1>c, <2>6 DEF NalaFinish, LinkOK
      <4>2. Len(inputs') = 0 /\ inputs' \in Seq(Turns)
        BY <2>0, <2>1, <4>1
      <4> QED BY <4>2
    <3>3. \A i \in 1..Len(wire') :
             /\ wire'[i].turn = t
             /\ wire'[i].kind # "event" => i = Len(wire') /\ inputs' = <<>>
      BY <2>4, <3>1, <3>2
    <3>4. SlotRunning'
      BY <1>b, <2>1, <2>2, <2>3, <3>2, <3>3 DEF SlotInv, SlotRunning
    <3> QED BY <1>a, <1>b, <2>1, <2>2, <2>3, <3>4 DEF SlotInv, SlotEmpty, SlotOpening, OnlyTurnsRun
  <2> QED BY <1>5, <2>5, <2>6
<1>6. CASE NalaLinkBreaks
  <2>1. PICK n \in 0..Len(wire) : wire' = SubSeq(wire, 1, n)
    BY <1>6 DEF NalaLinkBreaks
  <2>2. UNCHANGED <<at, lock, inputs>>
    BY <1>6 DEF NalaLinkBreaks
  <2>3. Len(wire) \in Nat /\ Len(wire') = n /\ \A i \in 1..n : wire'[i] = wire[i]
    BY <1>c, <2>1 DEF LinkOK
  <2>4. SlotEmpty' /\ SlotOpening' /\ OnlyTurnsRun'
    BY <1>c, <2>1, <2>2, <2>3 DEF LinkOK, SlotInv, SlotEmpty, SlotOpening, OnlyTurnsRun
  <2>5. SlotRunning'
    BY <2>1, <2>2, <2>3 DEF SlotInv, SlotRunning
  <2> QED BY <2>4, <2>5 DEF SlotInv
<1>7. CASE Tick \/ OrphanFinishes \/ UNCHANGED vars
  BY <1>7, <1>g DEF Tick, OrphanFinishes, vars, nalaVars
<1> QED BY <1>2, <1>3, <1>4, <1>5, <1>6, <1>7 DEF Next, NalaStep

LEMMA SlotInit == Init => SlotInv
<1>1. None \notin Turns /\ None \notin Conns /\ Turns \cap Conns = {}
  BY NamesAssumption
<1> QED BY <1>1 DEF Init, SlotInv, SlotEmpty, SlotOpening, SlotRunning, OnlyTurnsRun, Threads

\* A turn is only ever told what Nala says of its own input, whatever fails and in whatever
\* order the turns get the connection.
THEOREM HearsItsOwn == Spec => []TurnsHearTheirOwn
<1>1. SlotInv => TurnsHearTheirOwn
  BY DEF SlotInv, SlotRunning, TurnsHearTheirOwn
<1>2. TypeOK /\ SlotInv /\ [Next]_vars => TypeOK' /\ SlotInv'
  BY TypeStep, SlotStep
<1> QED BY <1>1, <1>2, TypeInit, SlotInit, PTL DEF Spec

-----------------------------------------------------------------------------
Busy == {c \in Conns : flight[c] # NoClip}

\* What one connection's step does to the number of connections that hold a clip.
LEMMA BusyCounts ==
  ASSUME flight \in [Conns -> Clips \cup {NoClip}], NEW c \in Conns,
         NEW clip \in Clips \cup {NoClip}, flight' = [flight EXCEPT ![c] = clip]
  PROVE  /\ IsFiniteSet(Busy) /\ IsFiniteSet(Busy') /\ IsFiniteSet(Conns)
         /\ Cardinality(Busy) \in Nat /\ Cardinality(Busy') \in Nat /\ Cardinality(Conns) \in Nat
         /\ Cardinality(Busy) <= Cardinality(Conns)
         /\ clip # NoClip => Cardinality(Busy') <= Cardinality(Busy) + 1
         /\ clip = NoClip /\ flight[c] # NoClip => Cardinality(Busy') = Cardinality(Busy) - 1
<1>1. Busy \subseteq Conns /\ Busy' \subseteq Conns /\ IsFiniteSet(Conns)
  BY SizesAssumption DEF Busy
<1>2. IsFiniteSet(Busy) /\ IsFiniteSet(Busy') /\ Cardinality(Busy) <= Cardinality(Conns)
  BY <1>1, FS_Subset
<1>3. Cardinality(Busy) \in Nat /\ Cardinality(Busy') \in Nat /\ Cardinality(Conns) \in Nat
  BY <1>1, <1>2, FS_CardinalityType
<1>4. ASSUME clip # NoClip PROVE Cardinality(Busy') <= Cardinality(Busy) + 1
  <2>1. Busy' = Busy \cup {c}
    BY <1>4 DEF Busy
  <2>2. Cardinality(Busy \cup {c}) = IF c \in Busy THEN Cardinality(Busy) ELSE Cardinality(Busy) + 1
    BY <1>2, FS_AddElement
  <2> QED BY <1>3, <2>1, <2>2
<1>5. ASSUME clip = NoClip, flight[c] # NoClip PROVE Cardinality(Busy') = Cardinality(Busy) - 1
  <2>1. Busy' = Busy \ {c} /\ c \in Busy
    BY <1>5 DEF Busy
  <2>2. Cardinality(Busy \ {c}) = IF c \in Busy THEN Cardinality(Busy) - 1 ELSE Cardinality(Busy)
    BY <1>2, FS_RemoveElement
  <2> QED BY <2>1, <2>2
<1> QED BY <1>1, <1>2, <1>3, <1>4, <1>5

\* Every step that touches the outbox or what is in flight: time, a push, a pop, the end of a
\* send and a put-back; all others leave both, and the rest of the clips, alone.
ClipStep ==
  \/ Tick /\ UNCHANGED <<made, flight, heard, swallowed>>
  \/ \E t \in Turns : Speak(t) /\ UNCHANGED <<flight, heard, swallowed>>
  \/ \E c \in Conns : TryPop(c) \/ SendClip(c) \/ SendFails(c)
  \/ UNCHANGED <<outbox, made, flight, heard, swallowed>>

LEMMA StepsOfClips == [Next]_vars => ClipStep
<1> SUFFICES ASSUME [Next]_vars PROVE ClipStep
  OBVIOUS
<1>1. CASE Tick
  BY <1>1 DEF Tick, ClipStep, phoneVars
<1>2. ASSUME NEW x \in Threads, EnsureStep(x) PROVE ClipStep
  BY <1>2 DEF EnsureStep, EnsureFindsClient, EnsureCannotConnect, EnsureConnects, EnsureGreeted,
              ClipStep, phoneVars
<1>3. ASSUME NEW t \in Turns, TurnStep(t) PROVE ClipStep
  <2>1. CASE DropTurn(t) \/ SendInput(t) \/ ReceiveFailure(t)
    BY <2>1 DEF DropTurn, SendInput, ReceiveFailure, FailTurn, ClipStep, phoneVars
  <2>2. CASE ReceiveEvent(t) \/ ReceiveReply(t)
    BY <2>2 DEF ReceiveEvent, ReceiveReply, ClipStep, phoneVars
  <2> QED BY <1>3, <2>1, <2>2 DEF TurnStep
<1>4. ASSUME NEW c \in Conns, ConnStep(c) \/ Hear(c) \/ PhoneConnects(c) \/ PhoneDrops(c)
      PROVE  ClipStep
  <2>1. CASE TryPop(c) \/ SendClip(c) \/ SendFails(c)
    BY <2>1 DEF ClipStep
  <2>2. CASE Idle(c) \/ Closed(c) \/ Hear(c) \/ PhoneConnects(c) \/ PhoneDrops(c)
    BY <2>2 DEF Idle, Closed, Hear, PhoneConnects, PhoneDrops, ClipStep, phoneVars
  <2> QED BY <1>4, <2>1, <2>2 DEF ConnStep
<1>5. CASE NalaStep \/ NalaLinkBreaks
  BY <1>5 DEF NalaStep, NalaEvent, NalaFinish, OrphanFinishes, NalaLinkBreaks, ClipStep, phoneVars
<1>6. CASE UNCHANGED vars
  BY <1>6 DEF vars, phoneVars, ClipStep
<1> QED BY <1>1, <1>2, <1>3, <1>4, <1>5, <1>6 DEF Next

LEMMA BoundStep ==
  ASSUME TypeOK, OutboxBounded, [Next]_vars
  PROVE  OutboxBounded'
<1>0. OutboxBounded <=> Len(outbox) + Cardinality(Busy) <= MaxClips + Cardinality(Conns)
  BY DEF OutboxBounded, Busy
<1>1. OutboxBounded' <=> Len(outbox') + Cardinality(Busy') <= MaxClips + Cardinality(Conns)
  BY DEF OutboxBounded, Busy
<1>2. ClipsOK /\ FlightOK
  BY TypeParts
<1>3. outbox \in Seq(Entries) /\ Len(outbox) \in Nat /\ MaxClips \in Nat
  BY <1>2, SizesAssumption DEF ClipsOK
<1>4. /\ IsFiniteSet(Busy) /\ IsFiniteSet(Conns)
      /\ Cardinality(Busy) \in Nat /\ Cardinality(Conns) \in Nat
      /\ Cardinality(Busy) <= Cardinality(Conns)
  <2>1. Busy \subseteq Conns /\ IsFiniteSet(Conns)
    BY SizesAssumption DEF Busy
  <2> QED BY <2>1, FS_Subset, FS_CardinalityType
<1>5. ClipStep
  BY StepsOfClips
<1>6. ASSUME flight' = flight, Len(outbox') = Len(outbox) PROVE OutboxBounded'
  BY <1>0, <1>1, <1>6 DEF Busy
<1>7. CASE Tick /\ UNCHANGED <<made, flight, heard, swallowed>>
  <2>1. Len(outbox') = Len(outbox)
    BY <1>3, <1>7 DEF Tick
  <2> QED BY <1>6, <1>7, <2>1
<1>8. ASSUME NEW t \in Turns, Speak(t), UNCHANGED <<flight, heard, swallowed>>
      PROVE  OutboxBounded'
  <2>1. CASE UNCHANGED <<outbox, made>>
    BY <1>6, <1>8, <2>1
  <2>2. CASE /\ [turn |-> t, n |-> made[t] + 1] \in Clips
             /\ Push([turn |-> t, n |-> made[t] + 1])
    <3>1. outbox' \in Seq(Entries) /\ Len(outbox') <= MaxClips
      BY <1>3, <2>2, PushDrops
    <3>2. Len(outbox') \in Nat
      BY <3>1
    <3>3. Busy' = Busy
      BY <1>8 DEF Busy
    <3> QED BY <1>1, <1>3, <1>4, <3>1, <3>2, <3>3
  <2> QED BY <1>8, <2>1, <2>2, SpeakPushes
<1>9. ASSUME NEW c \in Conns, TryPop(c) PROVE OutboxBounded'
  <2>1. outbox' \in Seq(Entries)
    BY <1>3, <1>9, PopDrops
  <2>2. CASE outbox' = <<>> /\ flight' = flight
    <3>1. Busy' = Busy /\ Len(outbox') = 0
      BY <2>2 DEF Busy
    <3> QED BY <1>1, <1>3, <1>4, <3>1
  <2>3. CASE \E k \in 1..Len(outbox) : /\ Drops(outbox', outbox, k)
                                       /\ flight' = [flight EXCEPT ![c] = outbox[k].clip]
    <3>1. PICK k \in 1..Len(outbox) : /\ Drops(outbox', outbox, k)
                                      /\ flight' = [flight EXCEPT ![c] = outbox[k].clip]
      BY <2>3
    <3>2. outbox[k] \in Entries
      BY <1>3
    <3>3. outbox[k].clip \in Clips /\ outbox[k].clip # NoClip
      BY <3>2, NamesAssumption DEF Entries, Clips, NoClip
    <3>4. Cardinality(Busy') <= Cardinality(Busy) + 1 /\ Cardinality(Busy') \in Nat
      <4>1. flight \in [Conns -> Clips \cup {NoClip}]
        BY <1>2 DEF FlightOK
      <4> QED BY <3>1, <3>3, <4>1, BusyCounts
    <3>5. Len(outbox') = Len(outbox) - k
      BY <3>1 DEF Drops
    <3> QED BY <1>0, <1>1, <1>3, <1>4, <3>4, <3>5
  <2> QED BY <1>3, <1>9, <2>2, <2>3, PopDrops
<1>10. ASSUME NEW c \in Conns, SendClip(c) \/ SendFails(c) PROVE OutboxBounded'
  <2>1. flight \in [Conns -> Clips \cup {NoClip}] /\ flight[c] # NoClip
    BY <1>2, <1>10 DEF FlightOK, SendClip, SendFails
  <2>2. flight' = [flight EXCEPT ![c] = NoClip]
    BY <1>10 DEF SendClip, SendFails
  <2>3. Cardinality(Busy') = Cardinality(Busy) - 1
    BY <2>1, <2>2, BusyCounts
  <2>4. Len(outbox') \in {Len(outbox), Len(outbox) + 1}
    <3>1. CASE SendClip(c)
      BY <3>1 DEF SendClip
    <3>2. CASE SendFails(c)
      <4>1. outbox' = <<Fresh(flight[c])>> \o outbox
        BY <3>2 DEF SendFails, PushFront, Fresh
      <4>2. <<Fresh(flight[c])>> \in Seq({Fresh(flight[c])}) /\ Len(<<Fresh(flight[c])>>) = 1
        OBVIOUS
      <4>3. Len(outbox') = 1 + Len(outbox)
        BY <1>3, <4>1, <4>2
      <4> QED BY <1>3, <4>3
    <3> QED BY <1>10, <3>1, <3>2
  <2> QED BY <1>0, <1>1, <1>3, <1>4, <2>3, <2>4
<1>11. CASE UNCHANGED <<outbox, made, flight, heard, swallowed>>
  BY <1>6, <1>11
<1> QED BY <1>5, <1>7, <1>8, <1>9, <1>10, <1>11 DEF ClipStep

\* The outbox exceeds MAX_CLIPS by at most one clip for each connection that dies sending.
THEOREM Bounded == Spec => []OutboxBounded
<1>1. Init => OutboxBounded
  <2> SUFFICES ASSUME Init PROVE OutboxBounded
    OBVIOUS
  <2>1. {c \in Conns : flight[c] # NoClip} = {} /\ Len(outbox) = 0
    BY DEF Init
  <2>2. Cardinality({}) = 0 /\ Cardinality(Conns) \in Nat /\ MaxClips \in Nat
    BY SizesAssumption, FS_EmptySet, FS_CardinalityType
  <2>3. Cardinality({c \in Conns : flight[c] # NoClip}) = 0
    BY <2>1, <2>2
  <2> HIDE DEF Init
  <2> QED BY <2>1, <2>2, <2>3 DEF OutboxBounded
<1>2. TypeOK /\ OutboxBounded /\ [Next]_vars => TypeOK' /\ OutboxBounded'
  BY TypeStep, BoundStep
<1> QED BY <1>1, <1>2, TypeInit, PTL DEF Spec

-----------------------------------------------------------------------------
\* ClipsInOnePlace, element by element, of a queue q, the clips f in flight, those heard h and
\* those swallowed w; and, so that it is inductive, no clip that is anywhere has a number its
\* turn has not reached.
Numbered(q, f, h, w, m) ==
  /\ \A i \in 1..Len(q) : q[i].clip.n <= m[q[i].clip.turn]
  /\ \A c \in Conns : f[c] # NoClip => f[c].n <= m[f[c].turn]
  /\ \A i \in 1..Len(h) : h[i].n <= m[h[i].turn]
  /\ \A k \in w : k.n <= m[k.turn]
Apart(q, f, h, w) ==
  /\ \A i, j \in 1..Len(q) : q[i].clip = q[j].clip => i = j
  /\ \A i, j \in 1..Len(h) : h[i] = h[j] => i = j
  /\ \A c, d \in Conns : f[c] = f[d] => c = d \/ f[c] = NoClip
  /\ \A i \in 1..Len(q) : /\ \A c \in Conns : q[i].clip # f[c]
                          /\ \A j \in 1..Len(h) : q[i].clip # h[j]
                          /\ q[i].clip \notin w
  /\ \A c \in Conns : f[c] # NoClip => /\ \A j \in 1..Len(h) : f[c] # h[j]
                                       /\ f[c] \notin w
  /\ \A j \in 1..Len(h) : h[j] \notin w

\* Values of the right kinds.
Kinds(q, f, h, w, m) ==
  /\ q \in Seq(Entries) /\ f \in [Conns -> Clips \cup {NoClip}]
  /\ h \in Seq(Clips) /\ w \subseteq Clips /\ m \in [Turns -> Nat]

PlaceInv == Numbered(outbox, flight, heard, swallowed, made) /\ Apart(outbox, flight, heard, swallowed)

LEMMA DropIndex ==
  ASSUME NEW S, NEW q \in Seq(S), NEW s \in Seq(S), NEW k, Drops(s, q, k), NEW i \in 1..Len(s)
  PROVE  i + k \in 1..Len(q) /\ s[i] = q[i + k] /\ k \in Nat /\ i \in Nat
<1>1. Len(q) \in Nat /\ Len(s) \in Nat /\ Len(s) = Len(q) - k /\ k \in 0..Len(q)
  BY DEF Drops
<1> QED BY <1>1 DEF Drops

\* Dropping clips from the queue keeps them apart.
LEMMA DropKeeps ==
  ASSUME NEW q, NEW f, NEW h, NEW w, NEW m, NEW s \in Seq(Entries), NEW k,
         Kinds(q, f, h, w, m), Drops(s, q, k)
  PROVE  /\ Numbered(q, f, h, w, m) => Numbered(s, f, h, w, m)
         /\ Apart(q, f, h, w) => Apart(s, f, h, w)
<1>1. \A i \in 1..Len(s) : i + k \in 1..Len(q) /\ s[i] = q[i + k] /\ k \in Nat /\ i \in Nat
  BY DropIndex DEF Kinds
<1>2. \A i, j \in 1..Len(s) : i + k = j + k => i = j
  BY <1>1
<1>3. ASSUME Numbered(q, f, h, w, m) PROVE Numbered(s, f, h, w, m)
  BY <1>1, <1>3 DEF Numbered
<1>4. ASSUME Apart(q, f, h, w) PROVE Apart(s, f, h, w)
  <2>1. ASSUME NEW i \in 1..Len(s), NEW j \in 1..Len(s), s[i].clip = s[j].clip PROVE i = j
    <3>1. q[i + k].clip = q[j + k].clip /\ i + k \in 1..Len(q) /\ j + k \in 1..Len(q)
      BY <1>1, <2>1
    <3>2. i + k = j + k
      BY <1>4, <3>1 DEF Apart
    <3> QED BY <1>2, <3>2
  <2>2. ASSUME NEW i \in 1..Len(s)
        PROVE  /\ \A c \in Conns : s[i].clip # f[c]
               /\ \A j \in 1..Len(h) : s[i].clip # h[j]
               /\ s[i].clip \notin w
    <3>1. i + k \in 1..Len(q) /\ s[i] = q[i + k]
      BY <1>1
    <3> QED BY <1>4, <3>1 DEF Apart
  <2> QED BY <1>4, <2>1, <2>2 DEF Apart
<1> QED BY <1>3, <1>4

\* A new clip at the end of the queue is nowhere else.
LEMMA NewKeeps ==
  ASSUME NEW q, NEW f, NEW h, NEW w, NEW m, NEW t \in Turns,
         Kinds(q, f, h, w, m), Numbered(q, f, h, w, m), Apart(q, f, h, w)
  PROVE  LET a == Append(q, Fresh([turn |-> t, n |-> m[t] + 1]))
             n == [m EXCEPT ![t] = @ + 1]
         IN  Kinds(a, f, h, w, n) /\ Numbered(a, f, h, w, n) /\ Apart(a, f, h, w)
<1> DEFINE clip == [turn |-> t, n |-> m[t] + 1]
           a == Append(q, Fresh(clip))
           n == [m EXCEPT ![t] = @ + 1]
<1>1. clip \in Clips /\ m[t] \in Nat /\ clip.turn = t /\ clip.n = m[t] + 1
  BY DEF Kinds, Clips
<1>2. Fresh(clip) \in Entries /\ Fresh(clip).clip = clip
  BY <1>1, SizesAssumption DEF Fresh, Entries
<1>3. a \in Seq(Entries) /\ Len(a) = Len(q) + 1 /\ Len(q) \in Nat
  BY <1>2 DEF Kinds
<1>4. \A i \in 1..Len(a) : (i \in 1..Len(q) /\ a[i] = q[i]) \/ (i = Len(q) + 1 /\ a[i].clip = clip)
  BY <1>2, <1>3 DEF Kinds
<1>5. \A k \in Clips : k.turn \in Turns /\ k.n \in Nat
  BY DEF Clips
<1>6. n \in [Turns -> Nat] /\ \A u \in Turns : m[u] <= n[u] /\ m[u] \in Nat /\ n[u] \in Nat
  BY <1>1 DEF Kinds
<1>7. n[t] = m[t] + 1
  BY DEF Kinds
<1>8. \A k \in Clips : k.n <= m[k.turn] => k.n <= n[k.turn] /\ k # clip
  <2> SUFFICES ASSUME NEW k \in Clips, k.n <= m[k.turn] PROVE k.n <= n[k.turn] /\ k # clip
    OBVIOUS
  <2>1. k.n \in Nat /\ m[k.turn] \in Nat /\ n[k.turn] \in Nat /\ m[k.turn] <= n[k.turn]
    BY <1>5, <1>6
  <2>2. k.n <= n[k.turn]
    BY <2>1
  <2>3. k # clip
    BY <1>1, <2>1
  <2> QED BY <2>2, <2>3
<1>9. /\ \A i \in 1..Len(q) : q[i].clip \in Clips
      /\ \A c \in Conns : f[c] # NoClip => f[c] \in Clips
      /\ \A i \in 1..Len(h) : h[i] \in Clips
      /\ \A k \in w : k \in Clips
  <2>1. \A i \in 1..Len(q) : q[i] \in Entries
    BY DEF Kinds
  <2>2. \A e \in Entries : e.clip \in Clips
    BY DEF Entries
  <2> QED BY <2>1, <2>2 DEF Kinds
<1>10. clip # NoClip
  BY <1>1, NamesAssumption DEF Clips, NoClip
<1> HIDE DEF clip, n, a
<1>11. Numbered(a, f, h, w, n)
  <2>1. \A i \in 1..Len(a) : a[i].clip.n <= n[a[i].clip.turn]
    <3> SUFFICES ASSUME NEW i \in 1..Len(a) PROVE a[i].clip.n <= n[a[i].clip.turn]
      OBVIOUS
    <3>1. CASE i \in 1..Len(q) /\ a[i] = q[i]
      BY <1>8, <1>9, <3>1 DEF Numbered
    <3>2. CASE a[i].clip = clip
      BY <1>1, <1>7, <3>2
    <3> QED BY <1>4, <3>1, <3>2
  <2> QED BY <1>8, <1>9, <2>1 DEF Numbered
<1>12. Apart(a, f, h, w)
  <2>1. ASSUME NEW i \in 1..Len(a), NEW j \in 1..Len(a), a[i].clip = a[j].clip PROVE i = j
    <3>1. \A l \in 1..Len(q) : q[l].clip # clip
      BY <1>8, <1>9 DEF Numbered
    <3> QED BY <1>4, <2>1, <3>1 DEF Apart
  <2>2. /\ \A c \in Conns : f[c] # clip
        /\ \A j \in 1..Len(h) : h[j] # clip
        /\ clip \notin w
    BY <1>8, <1>9, <1>10 DEF Numbered
  <2> QED BY <1>4, <2>1, <2>2 DEF Apart
<1>13. Kinds(a, f, h, w, n)
  BY <1>3, <1>6 DEF Kinds
<1> QED BY <1>11, <1>12, <1>13 DEF a, n, clip

\* Taking the first clips off the queue, the last of them into flight, keeps clips apart.
LEMMA TakeKeeps ==
  ASSUME NEW q, NEW f, NEW h, NEW w, NEW m, NEW s \in Seq(Entries),
         NEW k \in 1..Len(q), NEW c \in Conns,
         Kinds(q, f, h, w, m), Numbered(q, f, h, w, m), Apart(q, f, h, w),
         Drops(s, q, k), f[c] = NoClip
  PROVE  LET g == [f EXCEPT ![c] = q[k].clip]
         IN  Numbered(s, g, h, w, m) /\ Apart(s, g, h, w)
<1> DEFINE g == [f EXCEPT ![c] = q[k].clip]
<1>1. Numbered(s, f, h, w, m) /\ Apart(s, f, h, w)
  BY DropKeeps
<1>2. \A d \in Conns : g[d] = IF d = c THEN q[k].clip ELSE f[d]
  BY DEF Kinds
<1>3. \A i \in 1..Len(s) : i + k \in 1..Len(q) /\ s[i] = q[i + k] /\ k \in Nat /\ i \in Nat
  BY DropIndex DEF Kinds
<1>4. \A i \in 1..Len(s) : s[i].clip # q[k].clip
  <2> SUFFICES ASSUME NEW i \in 1..Len(s), s[i].clip = q[k].clip PROVE FALSE
    OBVIOUS
  <2>1. i + k \in 1..Len(q) /\ q[i + k].clip = q[k].clip
    BY <1>3
  <2>2. i + k = k
    BY <2>1 DEF Apart
  <2> QED BY <1>3, <2>2
<1> HIDE DEF g
<1>5. Numbered(s, g, h, w, m)
  BY <1>1, <1>2 DEF Numbered
<1>6. \A d, e \in Conns : g[d] = g[e] => d = e \/ g[d] = NoClip
  BY <1>2 DEF Apart
<1>7. ASSUME NEW d \in Conns, g[d] # NoClip
      PROVE  (\A j \in 1..Len(h) : g[d] # h[j]) /\ g[d] \notin w
  BY <1>2, <1>7 DEF Apart
<1>8. \A i \in 1..Len(s) : \A d \in Conns : s[i].clip # g[d]
  BY <1>1, <1>2, <1>4 DEF Apart
<1>9. Apart(s, g, h, w)
  BY <1>1, <1>6, <1>7, <1>8 DEF Apart
<1> QED BY <1>5, <1>9 DEF g

\* Putting the clip in flight back at the front keeps clips apart.
LEMMA PutBackKeeps ==
  ASSUME NEW q, NEW f, NEW h, NEW w, NEW m, NEW c \in Conns,
         Kinds(q, f, h, w, m), Numbered(q, f, h, w, m), Apart(q, f, h, w), f[c] # NoClip
  PROVE  LET g == [f EXCEPT ![c] = NoClip]
             s == <<Fresh(f[c])>> \o q
         IN  Numbered(s, g, h, w, m) /\ Apart(s, g, h, w)
<1> DEFINE g == [f EXCEPT ![c] = NoClip]
           s == <<Fresh(f[c])>> \o q
<1>1. f[c] \in Clips /\ \A d \in Conns : g[d] = IF d = c THEN NoClip ELSE f[d]
  BY DEF Kinds
<1>2. q \in Seq(Entries) /\ Len(q) \in Nat
  BY DEF Kinds
<1>3. <<Fresh(f[c])>> \in Seq(Entries) /\ Len(<<Fresh(f[c])>>) = 1 /\ Fresh(f[c]).clip = f[c]
  BY <1>1, SizesAssumption DEF Fresh, Entries
<1>4. Len(s) = Len(q) + 1
  BY <1>2, <1>3
<1>5. \A i \in 1..Len(s) : \/ i = 1 /\ s[i].clip = f[c]
                           \/ i - 1 \in 1..Len(q) /\ s[i] = q[i - 1] /\ i \in Nat
  <2> SUFFICES ASSUME NEW i \in 1..Len(s)
               PROVE  \/ i = 1 /\ s[i].clip = f[c]
                      \/ i - 1 \in 1..Len(q) /\ s[i] = q[i - 1] /\ i \in Nat
    OBVIOUS
  <2>1. CASE i = 1
    <3>1. s[1] = Fresh(f[c])
      BY <1>2, <1>3
    <3> QED BY <1>3, <2>1, <3>1
  <2>2. CASE i # 1
    <3>1. i - 1 \in 1..Len(q) /\ i \in Nat
      BY <1>2, <1>4, <2>2
    <3>2. s[i] = q[i - 1]
      BY <1>2, <1>3, <3>1
    <3> QED BY <3>1, <3>2
  <2> QED BY <2>1, <2>2
<1>6. \A i \in 1..Len(q) : q[i].clip # NoClip
  <2>1. \A i \in 1..Len(q) : q[i] \in Entries
    BY DEF Kinds
  <2>2. \A e \in Entries : e.clip # NoClip
    BY NamesAssumption DEF Entries, Clips, NoClip
  <2> QED BY <2>1, <2>2
<1> HIDE DEF g, s
<1>7. Numbered(s, g, h, w, m)
  <2>1. \A i \in 1..Len(s) : s[i].clip.n <= m[s[i].clip.turn]
    BY <1>5 DEF Numbered
  <2> QED BY <1>1, <2>1 DEF Numbered
<1>8. ASSUME NEW i \in 1..Len(s), NEW j \in 1..Len(s), s[i].clip = s[j].clip PROVE i = j
  <2>1. \A l \in 1..Len(q) : q[l].clip # f[c]
    BY DEF Apart
  <2>2. CASE i = 1 /\ s[i].clip = f[c]
    BY <1>5, <1>8, <2>1, <2>2
  <2>3. CASE i - 1 \in 1..Len(q) /\ s[i] = q[i - 1] /\ i \in Nat
    <3>1. j - 1 \in 1..Len(q) /\ s[j] = q[j - 1] /\ j \in Nat
      BY <1>5, <1>8, <2>1, <2>3
    <3>2. i - 1 = j - 1
      BY <1>8, <2>3, <3>1 DEF Apart
    <3> QED BY <2>3, <3>1, <3>2
  <2> QED BY <1>5, <2>2, <2>3
<1>9. ASSUME NEW i \in 1..Len(s)
      PROVE  /\ \A d \in Conns : s[i].clip # g[d]
             /\ \A j \in 1..Len(h) : s[i].clip # h[j]
             /\ s[i].clip \notin w
  <2>1. CASE i = 1 /\ s[i].clip = f[c]
    BY <1>1, <2>1 DEF Apart
  <2>2. CASE i - 1 \in 1..Len(q) /\ s[i] = q[i - 1]
    BY <1>1, <1>6, <2>2 DEF Apart
  <2> QED BY <1>5, <2>1, <2>2
<1>10. \A d, e \in Conns : g[d] = g[e] => d = e \/ g[d] = NoClip
  BY <1>1 DEF Apart
<1>11. \A d \in Conns : g[d] # NoClip => (\A j \in 1..Len(h) : g[d] # h[j]) /\ g[d] \notin w
  BY <1>1 DEF Apart
<1>12. Apart(s, g, h, w)
  BY <1>8, <1>9, <1>10, <1>11 DEF Apart
<1> QED BY <1>7, <1>12 DEF g, s

\* A clip that was sent leaves flight and is heard, or swallowed.
LEMMA SentKeeps ==
  ASSUME NEW q, NEW f, NEW h, NEW w, NEW m, NEW c \in Conns,
         Kinds(q, f, h, w, m), Numbered(q, f, h, w, m), Apart(q, f, h, w), f[c] # NoClip
  PROVE  LET g == [f EXCEPT ![c] = NoClip]
         IN  /\ Numbered(q, g, Append(h, f[c]), w, m) /\ Apart(q, g, Append(h, f[c]), w)
             /\ Numbered(q, g, h, w \cup {f[c]}, m) /\ Apart(q, g, h, w \cup {f[c]})
<1> DEFINE g == [f EXCEPT ![c] = NoClip]
           l == Append(h, f[c])
<1>1. f[c] \in Clips /\ \A d \in Conns : g[d] = IF d = c THEN NoClip ELSE f[d]
  BY DEF Kinds
<1>2. h \in Seq(Clips) /\ Len(h) \in Nat /\ Len(l) = Len(h) + 1
  BY <1>1 DEF Kinds
<1>3. \A i \in 1..Len(l) : (i \in 1..Len(h) /\ l[i] = h[i]) \/ (i = Len(h) + 1 /\ l[i] = f[c])
  BY <1>1, <1>2
<1>4. \A i \in 1..Len(q) : q[i].clip # NoClip
  <2>1. \A i \in 1..Len(q) : q[i] \in Entries
    BY DEF Kinds
  <2>2. \A e \in Entries : e.clip # NoClip
    BY NamesAssumption DEF Entries, Clips, NoClip
  <2> QED BY <2>1, <2>2
<1> HIDE DEF g, l
<1>5. Numbered(q, g, l, w, m) /\ Numbered(q, g, h, w \cup {f[c]}, m)
  BY <1>1, <1>3 DEF Numbered
<1>6. \A d, e \in Conns : g[d] = g[e] => d = e \/ g[d] = NoClip
  BY <1>1 DEF Apart
<1>7. ASSUME NEW i \in 1..Len(l), NEW j \in 1..Len(l), l[i] = l[j] PROVE i = j
  <2>1. \A x \in 1..Len(h) : h[x] # f[c]
    BY DEF Apart
  <2> QED BY <1>3, <1>7, <2>1 DEF Apart
<1>8. ASSUME NEW i \in 1..Len(q)
      PROVE  /\ \A d \in Conns : q[i].clip # g[d]
             /\ \A j \in 1..Len(l) : q[i].clip # l[j]
             /\ q[i].clip \notin w \cup {f[c]}
             /\ \A j \in 1..Len(h) : q[i].clip # h[j]
  BY <1>1, <1>3, <1>4 DEF Apart
<1>9. ASSUME NEW d \in Conns, g[d] # NoClip
      PROVE  /\ \A j \in 1..Len(l) : g[d] # l[j]
             /\ g[d] \notin w \cup {f[c]}
             /\ \A j \in 1..Len(h) : g[d] # h[j]
  <2>1. d # c /\ g[d] = f[d] /\ f[d] # f[c]
    BY <1>1, <1>9 DEF Apart
  <2> QED BY <1>3, <1>9, <2>1 DEF Apart
<1>10. /\ \A j \in 1..Len(l) : l[j] \notin w
       /\ \A j \in 1..Len(h) : h[j] \notin w \cup {f[c]}
  BY <1>3 DEF Apart
<1>11. Apart(q, g, l, w)
  BY <1>6, <1>7, <1>8, <1>9, <1>10 DEF Apart
<1>12. Apart(q, g, h, w \cup {f[c]})
  BY <1>6, <1>8, <1>9, <1>10 DEF Apart
<1> QED BY <1>5, <1>11, <1>12 DEF g, l

LEMMA PlaceStep ==
  ASSUME TypeOK, TypeOK', PlaceInv, [Next]_vars
  PROVE  PlaceInv'
<1>1. Kinds(outbox, flight, heard, swallowed, made) /\ FlightOK
  BY TypeParts DEF ClipsOK, FlightOK, Kinds
<1>2. outbox' \in Seq(Entries) /\ outbox \in Seq(Entries)
  BY TypeParts, TypePartsNext DEF ClipsOK
<1>3. /\ Numbered(outbox, flight, heard, swallowed, made)
      /\ Apart(outbox, flight, heard, swallowed)
  BY DEF PlaceInv
<1>4. ClipStep
  BY StepsOfClips
<1>g. PlaceInv' <=> /\ Numbered(outbox', flight', heard', swallowed', made')
                    /\ Apart(outbox', flight', heard', swallowed')
  BY DEF PlaceInv, Numbered, Apart
<1>5. CASE Tick /\ UNCHANGED <<made, flight, heard, swallowed>>
  <2>1. Len(outbox') = Len(outbox) /\ \A i \in 1..Len(outbox) : outbox'[i].clip = outbox[i].clip
    <3>1. /\ Len(outbox') = Len(outbox)
          /\ \A i \in 1..Len(outbox) :
               outbox'[i] = IF Expired(outbox[i]) THEN outbox[i]
                            ELSE [outbox[i] EXCEPT !.age = @ + 1]
      BY <1>2, <1>5 DEF Tick
    <3>2. \A i \in 1..Len(outbox) : outbox[i] \in Entries
      BY <1>2
    <3>3. \A e \in Entries : [e EXCEPT !.age = @ + 1].clip = e.clip
      BY DEF Entries
    <3> QED BY <3>1, <3>2, <3>3
  <2>2. Numbered(outbox', flight, heard, swallowed, made)
    BY <1>3, <2>1 DEF Numbered
  <2>3. Apart(outbox', flight, heard, swallowed)
    BY <1>3, <2>1 DEF Apart
  <2> QED BY <1>5, <1>g, <2>2, <2>3
<1>6. ASSUME NEW t \in Turns, Speak(t), UNCHANGED <<flight, heard, swallowed>>
      PROVE  PlaceInv'
  <2> DEFINE clip == [turn |-> t, n |-> made[t] + 1]
             a == Append(outbox, Fresh(clip))
             n == [made EXCEPT ![t] = @ + 1]
  <2>1. CASE UNCHANGED <<outbox, made>>
    BY <1>3, <1>6, <1>g, <2>1
  <2>2. CASE clip \in Clips /\ Push(clip) /\ made' = n
    <3>1. Kinds(a, flight, heard, swallowed, n) /\ Numbered(a, flight, heard, swallowed, n)
          /\ Apart(a, flight, heard, swallowed)
      BY <1>1, <1>3, NewKeeps
    <3>2. PICK k \in 0..(Len(outbox) + 1) : Drops(outbox', a, k)
      BY <1>2, <2>2, PushDrops
    <3> HIDE DEF clip, a, n
    <3>3. Numbered(outbox', flight, heard, swallowed, n) /\ Apart(outbox', flight, heard, swallowed)
      BY <1>2, <3>1, <3>2, DropKeeps
    <3> QED BY <1>6, <1>g, <2>2, <3>3
  <2> QED BY <1>6, <2>1, <2>2, SpeakPushes
<1>7. ASSUME NEW c \in Conns, TryPop(c) PROVE PlaceInv'
  <2>1. UNCHANGED <<made, heard, swallowed>> /\ flight[c] = NoClip
    BY <1>1, <1>7 DEF TryPop, FlightOK
  <2>2. CASE outbox' = <<>> /\ flight' = flight
    <3>1. Len(<<>>) = 0
      OBVIOUS
    <3>2. Numbered(<<>>, flight, heard, swallowed, made) /\ Apart(<<>>, flight, heard, swallowed)
      BY <1>3, <3>1 DEF Numbered, Apart
    <3> QED BY <1>g, <2>1, <2>2, <3>2
  <2>3. CASE \E k \in 1..Len(outbox) : /\ Drops(outbox', outbox, k)
                                       /\ flight' = [flight EXCEPT ![c] = outbox[k].clip]
    <3>1. PICK k \in 1..Len(outbox) : /\ Drops(outbox', outbox, k)
                                      /\ flight' = [flight EXCEPT ![c] = outbox[k].clip]
      BY <2>3
    <3>2. Numbered(outbox', flight', heard, swallowed, made) /\ Apart(outbox', flight', heard, swallowed)
      BY <1>1, <1>2, <1>3, <2>1, <3>1, TakeKeeps
    <3> QED BY <1>g, <2>1, <3>2
  <2> QED BY <1>2, <1>7, <2>2, <2>3, PopDrops
<1>8. ASSUME NEW c \in Conns, SendClip(c) PROVE PlaceInv'
  <2> DEFINE g == [flight EXCEPT ![c] = NoClip]
  <2>1. flight[c] # NoClip /\ UNCHANGED <<outbox, made>> /\ flight' = g
    BY <1>1, <1>8 DEF SendClip, FlightOK
  <2>2. /\ Numbered(outbox, g, Append(heard, flight[c]), swallowed, made)
        /\ Apart(outbox, g, Append(heard, flight[c]), swallowed)
        /\ Numbered(outbox, g, heard, swallowed \cup {flight[c]}, made)
        /\ Apart(outbox, g, heard, swallowed \cup {flight[c]})
    BY <1>1, <1>3, <2>1, SentKeeps
  <2>3. \/ heard' = Append(heard, flight[c]) /\ swallowed' = swallowed
        \/ swallowed' = swallowed \cup {flight[c]} /\ heard' = heard
    BY <1>8 DEF SendClip
  <2> HIDE DEF g
  <2> QED BY <1>g, <2>1, <2>2, <2>3
<1>9. ASSUME NEW c \in Conns, SendFails(c) PROVE PlaceInv'
  <2> DEFINE g == [flight EXCEPT ![c] = NoClip]
             s == <<Fresh(flight[c])>> \o outbox
  <2>1. flight[c] # NoClip /\ UNCHANGED <<heard, swallowed, made>> /\ flight' = g /\ outbox' = s
    BY <1>1, <1>9 DEF SendFails, FlightOK, PushFront, Fresh
  <2>2. Numbered(s, g, heard, swallowed, made) /\ Apart(s, g, heard, swallowed)
    BY <1>1, <1>3, <2>1, PutBackKeeps
  <2> HIDE DEF g, s
  <2> QED BY <1>g, <2>1, <2>2
<1>10. CASE UNCHANGED <<outbox, made, flight, heard, swallowed>>
  BY <1>3, <1>10, <1>g
<1> QED BY <1>4, <1>5, <1>6, <1>7, <1>8, <1>9, <1>10 DEF ClipStep

\* Every clip is in one place only: queued once, in one connection's hands, or delivered once.
THEOREM OnePlace == Spec => []ClipsInOnePlace
<1>1. Init => PlaceInv
  BY DEF Init, PlaceInv, Numbered, Apart
<1>2. TypeOK /\ PlaceInv /\ [Next]_vars => TypeOK' /\ PlaceInv'
  BY TypeStep, PlaceStep
<1>3. PlaceInv => ClipsInOnePlace
  <2> SUFFICES ASSUME PlaceInv PROVE ClipsInOnePlace
    OBVIOUS
  <2>1. Apart(outbox, flight, heard, swallowed)
    BY DEF PlaceInv
  <2> QED BY <2>1 DEF Apart, ClipsInOnePlace, Waiting, Flying, Heard
<1> QED BY <1>1, <1>2, <1>3, TypeInit, PTL DEF Spec

-----------------------------------------------------------------------------
LEMMA KeepsOrLoses ==
  ASSUME TypeOK, [Next]_vars, NEW k \in Waiting \cup Flying
  PROVE  \/ k \in Waiting' \cup Flying' \cup Heard' \cup swallowed'
         \/ \E i \in 1..Len(outbox) : outbox[i].clip = k /\ Expired(outbox[i])
         \/ Len(outbox') = MaxClips
<1> DEFINE Kept == k \in Waiting' \cup Flying' \cup Heard' \cup swallowed'
           Lost == \/ \E i \in 1..Len(outbox) : outbox[i].clip = k /\ Expired(outbox[i])
                   \/ Len(outbox') = MaxClips
<1> SUFFICES Kept \/ Lost
  OBVIOUS
<1>1. ClipsOK /\ FlightOK /\ outbox \in Seq(Entries) /\ Len(outbox) \in Nat
  BY TypeParts DEF ClipsOK
<1>2. ClipStep
  BY StepsOfClips
<1>3. ASSUME NEW j \in 1..Len(outbox'), outbox'[j].clip = k PROVE Kept
  BY <1>3 DEF Waiting
<1>4. ASSUME NEW c \in Conns, flight'[c] = k, k # NoClip PROVE Kept
  BY <1>4 DEF Flying
\* A clip on the queue at i, when the queue loses its first l.
<1>5. ASSUME NEW q \in Seq(Entries), NEW l \in Nat, outbox' \in Seq(Entries), Drops(outbox', q, l),
             NEW i \in 1..Len(q), q[i].clip = k, l < i
      PROVE  Kept
  <2>1. Len(outbox') = Len(q) - l /\ Len(q) \in Nat
    BY <1>5 DEF Drops
  <2>2. i - l \in 1..Len(outbox') /\ (i - l) + l = i
    BY <1>5, <2>1
  <2>3. outbox'[i - l] = q[i]
    BY <1>5, <2>2 DEF Drops
  <2> QED BY <1>3, <1>5, <2>2, <2>3
<1>6. CASE k \in Flying
  <2>1. PICK c \in Conns : flight[c] = k /\ k # NoClip
    BY <1>6 DEF Flying
  <2>2. CASE flight' = flight
    BY <1>4, <2>1, <2>2
  <2>3. ASSUME NEW d \in Conns, TryPop(d) PROVE Kept
    <3>1. d # c
      BY <1>1, <2>1, <2>3 DEF TryPop, FlightOK
    <3>2. flight'[c] = flight[c]
      BY <1>1, <2>3, <3>1 DEF TryPop, FlightOK
    <3> QED BY <1>4, <2>1, <3>2
  <2>4. ASSUME NEW d \in Conns, SendClip(d) \/ SendFails(d), d # c PROVE Kept
    <3>1. flight'[c] = flight[c]
      BY <1>1, <2>4 DEF SendClip, SendFails, FlightOK
    <3> QED BY <1>4, <2>1, <3>1
  <2>5. CASE SendClip(c)
    <3>1. heard' = Append(heard, k) \/ k \in swallowed'
      BY <2>1, <2>5 DEF SendClip
    <3>2. ASSUME heard' = Append(heard, k) PROVE k \in Heard'
      <4>1. heard \in Seq(Clips) /\ k \in Clips
        BY <1>1, <2>1 DEF ClipsOK, FlightOK
      <4>2. Len(heard') = Len(heard) + 1 /\ Len(heard) \in Nat /\ heard'[Len(heard) + 1] = k
        BY <3>2, <4>1
      <4>3. Len(heard) + 1 \in 1..Len(heard')
        BY <4>2
      <4> QED BY <4>2, <4>3 DEF Heard
    <3> QED BY <3>1, <3>2
  <2>6. CASE SendFails(c)
    <3>1. outbox' = <<Fresh(k)>> \o outbox
      BY <2>1, <2>6 DEF SendFails, PushFront, Fresh
    <3>2. <<Fresh(k)>> \in Seq({Fresh(k)}) /\ Len(<<Fresh(k)>>) = 1 /\ Fresh(k).clip = k
      BY DEF Fresh
    <3>3. Len(outbox') = 1 + Len(outbox) /\ outbox'[1] = Fresh(k)
      BY <1>1, <3>1, <3>2
    <3>4. 1 \in 1..Len(outbox')
      BY <1>1, <3>3
    <3> QED BY <1>3, <3>2, <3>3, <3>4
  <2> QED BY <1>2, <2>2, <2>3, <2>4, <2>5, <2>6 DEF ClipStep
<1>7. CASE k \in Waiting
  <2>1. PICK i \in 1..Len(outbox) : outbox[i].clip = k
    BY <1>7 DEF Waiting
  <2>2. CASE outbox' = outbox
    BY <1>3, <2>1, <2>2
  <2>3. CASE Tick
    <3>1. Len(outbox') = Len(outbox) /\ outbox[i] \in Entries
          /\ outbox'[i] = IF Expired(outbox[i]) THEN outbox[i]
                          ELSE [outbox[i] EXCEPT !.age = @ + 1]
      BY <1>1, <2>3 DEF Tick
    <3>2. outbox'[i].clip = k
      <4>1. \A e \in Entries : [e EXCEPT !.age = @ + 1].clip = e.clip
        BY DEF Entries
      <4> QED BY <2>1, <3>1, <4>1
    <3> QED BY <1>3, <3>1, <3>2
  <2>4. ASSUME NEW t \in Turns, Speak(t) PROVE Kept \/ Lost
    <3> DEFINE clip == [turn |-> t, n |-> made[t] + 1]
               a == Append(outbox, Fresh(clip))
    <3>1. CASE UNCHANGED <<outbox, made>>
      BY <2>2, <3>1
    <3>2. CASE clip \in Clips /\ Push(clip)
      <4>0. Fresh(clip) \in Entries
        BY <3>2, SizesAssumption DEF Fresh, Entries
      <4>1. PICK l \in 0..(Len(outbox) + 1) :
                   /\ Drops(outbox', a, l)
                   /\ \A j \in 1..Len(outbox) :
                        j <= l => Expired(outbox[j]) \/ Len(outbox') = MaxClips
        BY <1>1, <3>2, PushDrops
      <4>2. outbox' \in Seq(Entries)
        BY <1>1, <3>2, PushDrops
      <4> HIDE DEF clip
      <4>3. a \in Seq(Entries) /\ Len(a) = Len(outbox) + 1 /\ a[i] = outbox[i]
        BY <1>1, <4>0
      <4>4. i \in 1..Len(a) /\ l \in Nat /\ i \in Nat
        BY <1>1, <4>3
      <4> HIDE DEF a
      <4>5. CASE l < i
        BY <1>5, <2>1, <4>1, <4>2, <4>3, <4>4, <4>5
      <4>6. CASE i <= l
        BY <2>1, <4>1, <4>6
      <4> QED BY <4>4, <4>5, <4>6
    <3> QED BY <2>4, <3>1, <3>2, SpeakPushes
  <2>5. ASSUME NEW c \in Conns, TryPop(c) PROVE Kept \/ Lost
    <3>0. outbox' \in Seq(Entries)
      BY <1>1, <2>5, PopDrops
    <3>1. CASE \A j \in 1..Len(outbox) : Expired(outbox[j])
      BY <2>1, <3>1
    <3>2. CASE \E l \in 1..Len(outbox) :
                 /\ Drops(outbox', outbox, l)
                 /\ flight' = [flight EXCEPT ![c] = outbox[l].clip]
                 /\ \A j \in 1..(l - 1) : Expired(outbox[j])
      <4>1. PICK l \in 1..Len(outbox) :
                 /\ Drops(outbox', outbox, l)
                 /\ flight' = [flight EXCEPT ![c] = outbox[l].clip]
                 /\ \A j \in 1..(l - 1) : Expired(outbox[j])
        BY <3>2
      <4>2. l \in Nat /\ i \in Nat /\ 1 <= i
        BY <1>1
      <4>3. CASE l < i
        BY <1>1, <1>5, <2>1, <3>0, <4>1, <4>2, <4>3
      <4>4. CASE l = i
        <5>1. flight'[c] = k
          BY <1>1, <2>1, <4>1, <4>4 DEF FlightOK
        <5>2. k # NoClip
          <6>1. outbox[i] \in Entries
            BY <1>1
          <6> QED BY <2>1, <6>1, NamesAssumption DEF Entries, Clips, NoClip
        <5> QED BY <1>4, <5>1, <5>2
      <4>5. CASE i < l
        <5>1. i \in 1..(l - 1)
          BY <4>2, <4>5
        <5> QED BY <2>1, <4>1, <5>1
      <4> QED BY <4>2, <4>3, <4>4, <4>5
    <3> QED BY <1>1, <2>5, <3>1, <3>2, PopDrops
  <2>6. ASSUME NEW c \in Conns, SendFails(c) PROVE Kept
    <3>1. outbox' = <<Fresh(flight[c])>> \o outbox
      BY <2>6 DEF SendFails, PushFront, Fresh
    <3>2. <<Fresh(flight[c])>> \in Seq({Fresh(flight[c])}) /\ Len(<<Fresh(flight[c])>>) = 1
      OBVIOUS
    <3>3. Len(outbox') = 1 + Len(outbox) /\ outbox'[1 + i] = outbox[i]
      BY <1>1, <3>1, <3>2
    <3>4. 1 + i \in 1..Len(outbox')
      BY <1>1, <3>3
    <3> QED BY <1>3, <2>1, <3>3, <3>4
  <2>7. ASSUME NEW c \in Conns, SendClip(c) PROVE Kept \/ Lost
    BY <2>2, <2>7 DEF SendClip
  <2> QED BY <1>2, <2>2, <2>3, <2>4, <2>5, <2>6, <2>7 DEF ClipStep
<1> QED BY <1>6, <1>7

\* No step loses a clip that is neither expired nor pushed out by the outbox's limit.
THEOREM NoneVanishes == Spec => NoClipVanishes
<1>1. TypeOK /\ [Next]_vars => TypeOK'
  BY TypeStep
<1>2. TypeOK /\ [Next]_vars =>
        [\A k \in Waiting \cup Flying :
           \/ k \in Waiting' \cup Flying' \cup Heard' \cup swallowed'
           \/ \E i \in 1..Len(outbox) : outbox[i].clip = k /\ Expired(outbox[i])
           \/ Len(outbox') = MaxClips]_vars
  BY KeepsOrLoses
<1> QED BY <1>1, <1>2, TypeInit, PTL DEF Spec, NoClipVanishes

LEMMA TakesFresh ==
  ASSUME TypeOK, [Next]_vars, NEW c \in Conns, flight'[c] # flight[c], flight'[c] # NoClip
  PROVE  \E i \in 1..Len(outbox) : outbox[i].clip = flight'[c] /\ ~Expired(outbox[i])
<1>1. FlightOK /\ outbox \in Seq(Entries)
  BY TypeParts DEF ClipsOK
<1>2. ASSUME NEW d \in Conns, SendClip(d) \/ SendFails(d) PROVE FALSE
  BY <1>1, <1>2 DEF SendClip, SendFails, FlightOK
<1>3. PICK d \in Conns : TryPop(d)
  <2>1. ClipStep
    BY StepsOfClips
  <2> QED BY <1>2, <2>1 DEF ClipStep
<1>4. PICK k \in 1..Len(outbox) : /\ flight' = [flight EXCEPT ![d] = outbox[k].clip]
                                  /\ ~Expired(outbox[k])
  BY <1>1, <1>3, PopDrops
<1>5. flight'[c] = outbox[k].clip
  BY <1>1, <1>4 DEF FlightOK
<1> QED BY <1>4, <1>5

\* No clip is taken out to be spoken after its time to live.
THEOREM NeverStale == Spec => NothingStaleIsSpoken
<1>1. TypeOK /\ [Next]_vars => TypeOK'
  BY TypeStep
<1>2. TypeOK /\ [Next]_vars =>
        [\A c \in Conns : flight'[c] # flight[c] /\ flight'[c] # NoClip =>
           \E i \in 1..Len(outbox) : outbox[i].clip = flight'[c] /\ ~Expired(outbox[i])]_vars
  BY TakesFresh
<1> QED BY <1>1, <1>2, TypeInit, PTL DEF Spec, NothingStaleIsSpoken

-----------------------------------------------------------------------------
\* HeardInOrder is not inductive: what will be heard next is in flight or on the queue.  So
\* what was heard, then what is in flight, then the queue from its front are in order, clip
\* by clip of the same turn, but for the pairs o of which the second overtook the first; and
\* of two clips in flight the later one has overtaken the other.
Before(k, l, o) == k.turn = l.turn => k.n < l.n \/ <<l, k>> \in o

Ordered(q, f, h, o) ==
  /\ \A i, j \in 1..Len(h) : i < j => Before(h[i], h[j], o)
  /\ \A i, j \in 1..Len(q) : i < j => Before(q[i].clip, q[j].clip, o)
  /\ \A i \in 1..Len(h), j \in 1..Len(q) : Before(h[i], q[j].clip, o)
  /\ \A c \in Conns : f[c] # NoClip => /\ \A i \in 1..Len(h) : Before(h[i], f[c], o)
                                       /\ \A j \in 1..Len(q) : Before(f[c], q[j].clip, o)
  /\ \A c, d \in Conns : c # d /\ f[c] # NoClip /\ f[d] # NoClip => Before(f[c], f[d], o)

OrderInv == Ordered(outbox, flight, heard, overtaken)

LEMMA DropKeepsOrder ==
  ASSUME NEW q, NEW f, NEW h, NEW w, NEW m, NEW o, NEW s \in Seq(Entries), NEW k,
         Kinds(q, f, h, w, m), Drops(s, q, k), Ordered(q, f, h, o)
  PROVE  Ordered(s, f, h, o)
<1>1. \A i \in 1..Len(s) : i + k \in 1..Len(q) /\ s[i] = q[i + k] /\ k \in Nat /\ i \in Nat
  BY DropIndex DEF Kinds
<1>2. ASSUME NEW i \in 1..Len(s), NEW j \in 1..Len(s), i < j PROVE Before(s[i].clip, s[j].clip, o)
  <2>1. i + k \in 1..Len(q) /\ j + k \in 1..Len(q) /\ i + k < j + k
    BY <1>1, <1>2
  <2>2. Before(q[i + k].clip, q[j + k].clip, o)
    BY <2>1 DEF Ordered
  <2> QED BY <1>1, <2>2
<1>3. ASSUME NEW j \in 1..Len(s)
      PROVE  /\ \A i \in 1..Len(h) : Before(h[i], s[j].clip, o)
             /\ \A c \in Conns : f[c] # NoClip => Before(f[c], s[j].clip, o)
  <2>1. j + k \in 1..Len(q) /\ s[j] = q[j + k]
    BY <1>1
  <2> QED BY <2>1 DEF Ordered
<1> QED BY <1>2, <1>3 DEF Ordered

\* More may have been overtaken.
LEMMA MoreOvertaken ==
  ASSUME NEW q, NEW f, NEW h, NEW o, NEW p, o \subseteq p, Ordered(q, f, h, o)
  PROVE  Ordered(q, f, h, p)
<1>1. \A k, l : Before(k, l, o) => Before(k, l, p)
  BY DEF Before
<1> QED BY <1>1 DEF Ordered

\* A new clip comes after every other of its turn, because their numbers were given out before.
LEMMA NewKeepsOrder ==
  ASSUME NEW q, NEW f, NEW h, NEW w, NEW m, NEW o, NEW t \in Turns,
         Kinds(q, f, h, w, m), Numbered(q, f, h, w, m), Ordered(q, f, h, o)
  PROVE  Ordered(Append(q, Fresh([turn |-> t, n |-> m[t] + 1])), f, h, o)
<1> DEFINE clip == [turn |-> t, n |-> m[t] + 1]
           a == Append(q, Fresh(clip))
<1>1. clip \in Clips /\ m[t] \in Nat /\ clip.turn = t /\ clip.n = m[t] + 1
  BY DEF Kinds, Clips
<1>2. Fresh(clip) \in Entries /\ Fresh(clip).clip = clip
  BY <1>1, SizesAssumption DEF Fresh, Entries
<1>3. q \in Seq(Entries) /\ a \in Seq(Entries) /\ Len(a) = Len(q) + 1 /\ Len(q) \in Nat
  BY <1>2 DEF Kinds
<1>4. \A i \in 1..Len(a) : (i \in 1..Len(q) /\ a[i] = q[i]) \/ (i = Len(q) + 1 /\ a[i].clip = clip)
  BY <1>2, <1>3
<1>5. \A k \in Clips : k.n <= m[k.turn] => Before(k, clip, o)
  BY <1>1 DEF Clips, Before
<1>6. /\ \A i \in 1..Len(q) : q[i].clip \in Clips
      /\ \A c \in Conns : f[c] # NoClip => f[c] \in Clips
      /\ \A i \in 1..Len(h) : h[i] \in Clips
  <2>1. \A i \in 1..Len(q) : q[i] \in Entries
    BY <1>3
  <2>2. \A e \in Entries : e.clip \in Clips
    BY DEF Entries
  <2> QED BY <2>1, <2>2 DEF Kinds
<1> HIDE DEF clip, a
<1>7. /\ \A i \in 1..Len(q) : Before(q[i].clip, clip, o)
      /\ \A c \in Conns : f[c] # NoClip => Before(f[c], clip, o)
      /\ \A i \in 1..Len(h) : Before(h[i], clip, o)
  BY <1>5, <1>6 DEF Numbered
<1>8. ASSUME NEW i \in 1..Len(a), NEW j \in 1..Len(a), i < j PROVE Before(a[i].clip, a[j].clip, o)
  <2>1. i \in 1..Len(q) /\ a[i] = q[i]
    BY <1>3, <1>4, <1>8
  <2>2. CASE j \in 1..Len(q) /\ a[j] = q[j]
    BY <1>8, <2>1, <2>2 DEF Ordered
  <2>3. CASE a[j].clip = clip
    BY <1>7, <2>1, <2>3
  <2> QED BY <1>4, <2>2, <2>3
<1>9. ASSUME NEW j \in 1..Len(a)
      PROVE  /\ \A i \in 1..Len(h) : Before(h[i], a[j].clip, o)
             /\ \A c \in Conns : f[c] # NoClip => Before(f[c], a[j].clip, o)
  <2>1. CASE j \in 1..Len(q) /\ a[j] = q[j]
    BY <2>1 DEF Ordered
  <2>2. CASE a[j].clip = clip
    BY <1>7, <2>2
  <2> QED BY <1>4, <2>1, <2>2
<1>10. Ordered(a, f, h, o)
  BY <1>8, <1>9 DEF Ordered
<1> QED BY <1>10 DEF a, clip

\* The clip at k, once those before it are gone, stands between what was heard and the rest,
\* and has overtaken the earlier ones in flight.
LEMMA TakeKeepsOrder ==
  ASSUME NEW q, NEW f, NEW h, NEW w, NEW m, NEW o, NEW p, NEW s \in Seq(Entries),
         NEW k \in 1..Len(q), NEW c \in Conns,
         Kinds(q, f, h, w, m), Apart(q, f, h, w), Drops(s, q, k), Ordered(q, f, h, o),
         o \subseteq p,
         \A d \in Conns \ {c} : f[d].turn = q[k].clip.turn /\ f[d].n < q[k].clip.n
                                 => <<f[d], q[k].clip>> \in p
  PROVE  Ordered(s, [f EXCEPT ![c] = q[k].clip], h, p)
<1> DEFINE g == [f EXCEPT ![c] = q[k].clip]
<1>0. Ordered(q, f, h, p)
  BY MoreOvertaken
<1>1. Ordered(s, f, h, p)
  BY <1>0, DropKeepsOrder
<1>2. \A d \in Conns : g[d] = IF d = c THEN q[k].clip ELSE f[d]
  BY DEF Kinds
<1>3. \A j \in 1..Len(s) : j + k \in 1..Len(q) /\ s[j] = q[j + k] /\ k \in Nat /\ j \in Nat
  BY DropIndex DEF Kinds
<1>4. ASSUME NEW j \in 1..Len(s) PROVE Before(q[k].clip, s[j].clip, p)
  <2>1. j + k \in 1..Len(q) /\ k < j + k
    BY <1>3
  <2>2. Before(q[k].clip, q[j + k].clip, p)
    BY <1>0, <2>1 DEF Ordered
  <2> QED BY <1>3, <2>2
<1>5. \A i \in 1..Len(h) : Before(h[i], q[k].clip, p)
  BY <1>0 DEF Ordered
<1>6. ASSUME NEW d \in Conns \ {c}, f[d] # NoClip
      PROVE  Before(f[d], q[k].clip, p) /\ Before(q[k].clip, f[d], p)
  <2>1. Before(f[d], q[k].clip, p)
    BY <1>0, <1>6 DEF Ordered
  <2>2. q[k] \in Entries /\ f[d] \in Clips /\ q[k].clip # f[d]
    BY <1>6 DEF Kinds, Apart
  <2>3. q[k].clip \in Clips
    BY <2>2 DEF Entries
  <2>4. q[k].clip.turn = f[d].turn => q[k].clip.n < f[d].n \/ f[d].n < q[k].clip.n
    <3> DEFINE x == q[k].clip
               y == f[d]
    <3>1. x \in Clips /\ y \in Clips /\ x # y
      BY <2>2, <2>3
    <3> HIDE DEF x, y
    <3>2. x.turn = y.turn => x.n < y.n \/ y.n < x.n
      BY <3>1 DEF Clips
    <3> QED BY <3>2 DEF x, y
  <2>5. Before(q[k].clip, f[d], p)
    BY <2>4 DEF Before
  <2> QED BY <2>1, <2>5
<1> HIDE DEF g
<1>7. ASSUME NEW d \in Conns, g[d] # NoClip
      PROVE  /\ \A i \in 1..Len(h) : Before(h[i], g[d], p)
             /\ \A j \in 1..Len(s) : Before(g[d], s[j].clip, p)
  <2>1. CASE d = c
    BY <1>2, <1>4, <1>5, <2>1
  <2>2. CASE d # c
    BY <1>1, <1>2, <1>7, <2>2 DEF Ordered
  <2> QED BY <2>1, <2>2
<1>8. ASSUME NEW d \in Conns, NEW e \in Conns, d # e, g[d] # NoClip, g[e] # NoClip
      PROVE  Before(g[d], g[e], p)
  <2>1. CASE d = c
    BY <1>2, <1>6, <1>8, <2>1
  <2>2. CASE e = c
    BY <1>2, <1>6, <1>8, <2>2
  <2>3. CASE d # c /\ e # c
    BY <1>0, <1>2, <1>8, <2>3 DEF Ordered
  <2> QED BY <2>1, <2>2, <2>3
<1>9. Ordered(s, g, h, p)
  BY <1>1, <1>7, <1>8 DEF Ordered
<1> QED BY <1>9 DEF g

\* Put back at the front, a clip stands behind those in flight, which have overtaken it or
\* come before it.
LEMMA PutBackKeepsOrder ==
  ASSUME NEW q, NEW f, NEW h, NEW w, NEW m, NEW o, NEW c \in Conns,
         Kinds(q, f, h, w, m), Ordered(q, f, h, o), f[c] # NoClip
  PROVE  Ordered(<<Fresh(f[c])>> \o q, [f EXCEPT ![c] = NoClip], h, o)
<1> DEFINE g == [f EXCEPT ![c] = NoClip]
           s == <<Fresh(f[c])>> \o q
<1>1. f[c] \in Clips /\ \A d \in Conns : g[d] = IF d = c THEN NoClip ELSE f[d]
  BY DEF Kinds
<1>2. q \in Seq(Entries) /\ Len(q) \in Nat
  BY DEF Kinds
<1>3. <<Fresh(f[c])>> \in Seq(Entries) /\ Len(<<Fresh(f[c])>>) = 1 /\ Fresh(f[c]).clip = f[c]
  BY <1>1, SizesAssumption DEF Fresh, Entries
<1>4. Len(s) = Len(q) + 1
  BY <1>2, <1>3
<1>5. \A i \in 1..Len(s) : \/ i = 1 /\ s[i].clip = f[c]
                           \/ i - 1 \in 1..Len(q) /\ s[i] = q[i - 1] /\ i \in Nat
  <2> SUFFICES ASSUME NEW i \in 1..Len(s)
               PROVE  \/ i = 1 /\ s[i].clip = f[c]
                      \/ i - 1 \in 1..Len(q) /\ s[i] = q[i - 1] /\ i \in Nat
    OBVIOUS
  <2>1. CASE i = 1
    <3>1. s[1] = Fresh(f[c])
      BY <1>2, <1>3
    <3> QED BY <1>3, <2>1, <3>1
  <2>2. CASE i # 1
    <3>1. i - 1 \in 1..Len(q) /\ i \in Nat
      BY <1>2, <1>4, <2>2
    <3>2. s[i] = q[i - 1]
      BY <1>2, <1>3, <3>1
    <3> QED BY <3>1, <3>2
  <2> QED BY <2>1, <2>2
<1> HIDE DEF g, s
<1>6. ASSUME NEW i \in 1..Len(s), NEW j \in 1..Len(s), i < j PROVE Before(s[i].clip, s[j].clip, o)
  <2>1. j - 1 \in 1..Len(q) /\ s[j] = q[j - 1] /\ j \in Nat
    BY <1>4, <1>5, <1>6, <1>2
  <2>2. CASE i = 1 /\ s[i].clip = f[c]
    BY <2>1, <2>2 DEF Ordered
  <2>3. CASE i - 1 \in 1..Len(q) /\ s[i] = q[i - 1] /\ i \in Nat
    <3>1. i - 1 < j - 1
      BY <1>6, <2>1, <2>3
    <3>2. Before(q[i - 1].clip, q[j - 1].clip, o)
      BY <2>1, <2>3, <3>1 DEF Ordered
    <3> QED BY <2>1, <2>3, <3>2
  <2> QED BY <1>5, <2>2, <2>3
<1>7. ASSUME NEW i \in 1..Len(h), NEW j \in 1..Len(s) PROVE Before(h[i], s[j].clip, o)
  <2>1. CASE j = 1 /\ s[j].clip = f[c]
    BY <2>1 DEF Ordered
  <2>2. CASE j - 1 \in 1..Len(q) /\ s[j] = q[j - 1]
    BY <2>2 DEF Ordered
  <2> QED BY <1>5, <2>1, <2>2
<1>8. \A i, j \in 1..Len(h) : i < j => Before(h[i], h[j], o)
  BY DEF Ordered
<1>9. ASSUME NEW d \in Conns, g[d] # NoClip
      PROVE  /\ \A i \in 1..Len(h) : Before(h[i], g[d], o)
             /\ \A j \in 1..Len(s) : Before(g[d], s[j].clip, o)
  <2>1. d # c /\ g[d] = f[d] /\ Before(f[d], f[c], o)
    BY <1>1, <1>9 DEF Ordered
  <2>2. ASSUME NEW j \in 1..Len(s) PROVE Before(f[d], s[j].clip, o)
    <3>1. CASE j = 1 /\ s[j].clip = f[c]
      BY <2>1, <3>1
    <3>2. CASE j - 1 \in 1..Len(q) /\ s[j] = q[j - 1]
      BY <1>9, <2>1, <3>2 DEF Ordered
    <3> QED BY <1>5, <3>1, <3>2
  <2> QED BY <1>9, <2>1, <2>2 DEF Ordered
<1>10. \A d, e \in Conns : d # e /\ g[d] # NoClip /\ g[e] # NoClip => Before(g[d], g[e], o)
  BY <1>1 DEF Ordered
<1>11. Ordered(s, g, h, o)
  BY <1>6, <1>7, <1>8, <1>9, <1>10 DEF Ordered
<1> QED BY <1>11 DEF g, s

\* What was sent is the last that was heard, and before all that waits or is in flight.
LEMMA SentKeepsOrder ==
  ASSUME NEW q, NEW f, NEW h, NEW w, NEW m, NEW o, NEW c \in Conns,
         Kinds(q, f, h, w, m), Ordered(q, f, h, o), f[c] # NoClip
  PROVE  /\ Ordered(q, [f EXCEPT ![c] = NoClip], Append(h, f[c]), o)
         /\ Ordered(q, [f EXCEPT ![c] = NoClip], h, o)
<1> DEFINE g == [f EXCEPT ![c] = NoClip]
           l == Append(h, f[c])
<1>1. f[c] \in Clips /\ \A d \in Conns : g[d] = IF d = c THEN NoClip ELSE f[d]
  BY DEF Kinds
<1>2. h \in Seq(Clips) /\ Len(h) \in Nat /\ Len(l) = Len(h) + 1
  BY <1>1 DEF Kinds
<1>3. \A i \in 1..Len(l) : (i \in 1..Len(h) /\ l[i] = h[i]) \/ (i = Len(h) + 1 /\ l[i] = f[c])
  BY <1>1, <1>2
<1> HIDE DEF g, l
<1>4. ASSUME NEW i \in 1..Len(l), NEW j \in 1..Len(l), i < j PROVE Before(l[i], l[j], o)
  <2>1. i \in 1..Len(h) /\ l[i] = h[i]
    BY <1>2, <1>3, <1>4
  <2>2. CASE j \in 1..Len(h) /\ l[j] = h[j]
    BY <1>4, <2>1, <2>2 DEF Ordered
  <2>3. CASE l[j] = f[c]
    BY <2>1, <2>3 DEF Ordered
  <2> QED BY <1>3, <2>2, <2>3
<1>5. ASSUME NEW i \in 1..Len(l), NEW j \in 1..Len(q) PROVE Before(l[i], q[j].clip, o)
  <2>1. CASE i \in 1..Len(h) /\ l[i] = h[i]
    BY <2>1 DEF Ordered
  <2>2. CASE l[i] = f[c]
    BY <2>2 DEF Ordered
  <2> QED BY <1>3, <2>1, <2>2
<1>6. ASSUME NEW d \in Conns, g[d] # NoClip
      PROVE  /\ \A i \in 1..Len(l) : Before(l[i], g[d], o)
             /\ \A j \in 1..Len(q) : Before(g[d], q[j].clip, o)
  <2>1. d # c /\ g[d] = f[d] /\ Before(f[c], f[d], o)
    BY <1>1, <1>6 DEF Ordered
  <2>2. \A i \in 1..Len(l) : Before(l[i], f[d], o)
    BY <1>3, <1>6, <2>1 DEF Ordered
  <2> QED BY <1>6, <2>1, <2>2 DEF Ordered
<1>7. \A d, e \in Conns : d # e /\ g[d] # NoClip /\ g[e] # NoClip => Before(g[d], g[e], o)
  BY <1>1 DEF Ordered
<1>8. Ordered(q, g, l, o)
  BY <1>4, <1>5, <1>6, <1>7 DEF Ordered
<1>9. Ordered(q, g, h, o)
  BY <1>1, <1>7 DEF Ordered
<1> QED BY <1>8, <1>9 DEF g, l

LEMMA OvertakenStep == [Next]_vars => overtaken' = overtaken \/ \E c \in Conns : TryPop(c)
<1> SUFFICES ASSUME [Next]_vars PROVE overtaken' = overtaken \/ \E c \in Conns : TryPop(c)
  OBVIOUS
<1> USE DEF phoneVars
<1>1. ASSUME NEW x \in Threads, EnsureStep(x) PROVE overtaken' = overtaken
  BY <1>1 DEF EnsureStep, EnsureFindsClient, EnsureCannotConnect, EnsureConnects, EnsureGreeted
<1>2. ASSUME NEW t \in Turns, TurnStep(t) PROVE overtaken' = overtaken
  BY <1>2 DEF TurnStep, DropTurn, SendInput, ReceiveEvent, ReceiveReply, ReceiveFailure, FailTurn
<1>3. ASSUME NEW c \in Conns, ConnStep(c) \/ Hear(c) \/ PhoneConnects(c) \/ PhoneDrops(c)
      PROVE  overtaken' = overtaken \/ TryPop(c)
  BY <1>3 DEF ConnStep, SendClip, SendFails, Idle, Closed, Hear, PhoneConnects, PhoneDrops
<1>4. CASE Tick \/ NalaStep \/ NalaLinkBreaks \/ UNCHANGED vars
  BY <1>4 DEF Tick, NalaStep, NalaEvent, NalaFinish, OrphanFinishes, NalaLinkBreaks, vars
<1> QED BY <1>1, <1>2, <1>3, <1>4 DEF Next

LEMMA OrderStep ==
  ASSUME TypeOK, TypeOK', PlaceInv, OrderInv, [Next]_vars
  PROVE  OrderInv'
<1>1. Kinds(outbox, flight, heard, swallowed, made) /\ FlightOK
  BY TypeParts DEF ClipsOK, FlightOK, Kinds
<1>2. outbox' \in Seq(Entries) /\ outbox \in Seq(Entries)
  BY TypeParts, TypePartsNext DEF ClipsOK
<1>3. /\ Numbered(outbox, flight, heard, swallowed, made)
      /\ Apart(outbox, flight, heard, swallowed)
      /\ Ordered(outbox, flight, heard, overtaken)
  BY DEF PlaceInv, OrderInv
<1>4. ClipStep
  BY StepsOfClips
<1>g. OrderInv' <=> Ordered(outbox', flight', heard', overtaken')
  BY DEF OrderInv, Ordered
<1>5. ASSUME NEW c \in Conns, TryPop(c) PROVE OrderInv'
  <2>1. UNCHANGED heard
    BY <1>5 DEF TryPop
  <2>2. CASE outbox' = <<>> /\ UNCHANGED <<flight, overtaken>>
    <3>1. Len(<<>>) = 0
      OBVIOUS
    <3>2. Ordered(<<>>, flight, heard, overtaken)
      BY <1>3, <3>1 DEF Ordered
    <3> QED BY <1>g, <2>1, <2>2, <3>2
  <2>3. CASE \E k \in 1..Len(outbox) : /\ Drops(outbox', outbox, k)
                                       /\ flight' = [flight EXCEPT ![c] = outbox[k].clip]
                                       /\ Overtakes(c, outbox[k].clip)
    <3>1. PICK k \in 1..Len(outbox) : /\ Drops(outbox', outbox, k)
                                      /\ flight' = [flight EXCEPT ![c] = outbox[k].clip]
                                      /\ Overtakes(c, outbox[k].clip)
      BY <2>3
    <3>2. /\ overtaken \subseteq overtaken'
          /\ \A d \in Conns \ {c} :
               flight[d].turn = outbox[k].clip.turn /\ flight[d].n < outbox[k].clip.n
                 => <<flight[d], outbox[k].clip>> \in overtaken'
      BY <3>1 DEF Overtakes, EarlierInFlight
    <3>3. Ordered(outbox', [flight EXCEPT ![c] = outbox[k].clip], heard, overtaken')
      BY <1>1, <1>2, <1>3, <3>1, <3>2, TakeKeepsOrder
    <3> QED BY <1>g, <2>1, <3>1, <3>3
  <2> QED BY <1>2, <1>5, <2>2, <2>3, PopDrops
<1> SUFFICES ASSUME overtaken' = overtaken PROVE OrderInv'
  BY <1>5, OvertakenStep
<1>e. OrderInv' <=> Ordered(outbox', flight', heard', overtaken)
  BY <1>g
<1>6. CASE Tick /\ UNCHANGED <<made, flight, heard, swallowed>>
  <2>1. Len(outbox') = Len(outbox) /\ \A i \in 1..Len(outbox) : outbox'[i].clip = outbox[i].clip
    <3>1. /\ Len(outbox') = Len(outbox)
          /\ \A i \in 1..Len(outbox) :
               outbox'[i] = IF Expired(outbox[i]) THEN outbox[i]
                            ELSE [outbox[i] EXCEPT !.age = @ + 1]
      BY <1>2, <1>6 DEF Tick
    <3>2. \A i \in 1..Len(outbox) : outbox[i] \in Entries
      BY <1>2
    <3>3. \A e \in Entries : [e EXCEPT !.age = @ + 1].clip = e.clip
      BY DEF Entries
    <3> QED BY <3>1, <3>2, <3>3
  <2>2. Ordered(outbox', flight, heard, overtaken)
    BY <1>3, <2>1 DEF Ordered
  <2> QED BY <1>6, <1>e, <2>2
<1>7. ASSUME NEW t \in Turns, Speak(t), UNCHANGED <<flight, heard, swallowed>>
      PROVE  OrderInv'
  <2> DEFINE clip == [turn |-> t, n |-> made[t] + 1]
             a == Append(outbox, Fresh(clip))
             n == [made EXCEPT ![t] = @ + 1]
  <2>1. CASE UNCHANGED <<outbox, made>>
    BY <1>3, <1>7, <1>e, <2>1
  <2>2. CASE clip \in Clips /\ Push(clip)
    <3>1. Ordered(a, flight, heard, overtaken)
      BY <1>1, <1>3, NewKeepsOrder
    <3>2. Fresh(clip) \in Entries
      BY <2>2, SizesAssumption DEF Fresh, Entries
    <3>3. PICK k \in 0..(Len(outbox) + 1) : Drops(outbox', a, k)
      BY <1>2, <2>2, PushDrops
    <3> HIDE DEF clip
    <3>4. Kinds(a, flight, heard, swallowed, made)
      BY <1>1, <3>2, AppendProperties DEF Kinds
    <3> HIDE DEF a
    <3>5. Ordered(outbox', flight, heard, overtaken)
      BY <1>2, <3>1, <3>3, <3>4, DropKeepsOrder
    <3> QED BY <1>7, <1>e, <3>5
  <2> QED BY <1>7, <2>1, <2>2, SpeakPushes
<1>8. ASSUME NEW c \in Conns, SendClip(c) PROVE OrderInv'
  <2> DEFINE g == [flight EXCEPT ![c] = NoClip]
  <2>1. flight[c] # NoClip /\ outbox' = outbox /\ flight' = g
    BY <1>1, <1>8 DEF SendClip, FlightOK
  <2>2. Ordered(outbox, g, Append(heard, flight[c]), overtaken) /\ Ordered(outbox, g, heard, overtaken)
    BY <1>1, <1>3, <2>1, SentKeepsOrder
  <2>3. heard' = Append(heard, flight[c]) \/ heard' = heard
    BY <1>8 DEF SendClip
  <2> HIDE DEF g
  <2> QED BY <1>e, <2>1, <2>2, <2>3
<1>9. ASSUME NEW c \in Conns, SendFails(c) PROVE OrderInv'
  <2> DEFINE g == [flight EXCEPT ![c] = NoClip]
             s == <<Fresh(flight[c])>> \o outbox
  <2>1. flight[c] # NoClip /\ heard' = heard /\ flight' = g /\ outbox' = s
    BY <1>1, <1>9 DEF SendFails, FlightOK, PushFront, Fresh
  <2>2. Ordered(s, g, heard, overtaken)
    BY <1>1, <1>3, <2>1, PutBackKeepsOrder
  <2> HIDE DEF g, s
  <2> QED BY <1>e, <2>1, <2>2
<1>10. CASE UNCHANGED <<outbox, made, flight, heard, swallowed>>
  BY <1>3, <1>10, <1>e
<1> QED BY <1>4, <1>6, <1>7, <1>5, <1>8, <1>9, <1>10 DEF ClipStep

\* The clips of a turn are heard in the order they were made, whatever expires, is pushed out
\* or is put back and over however many connections (run_audio_session, Outbox), but for one
\* that another connection was still sending when a later one was taken out.
THEOREM SpokenInOrder == Spec => []HeardInOrder
<1> DEFINE Inv == TypeOK /\ PlaceInv /\ OrderInv
<1>1. Init => Inv
  <2>1. Init => PlaceInv /\ OrderInv
    BY DEF Init, PlaceInv, Numbered, Apart, OrderInv, Ordered
  <2> QED BY <2>1, TypeInit
<1>2. Inv /\ [Next]_vars => Inv'
  <2>1. TypeOK /\ PlaceInv /\ [Next]_vars => TypeOK' /\ PlaceInv'
    BY TypeStep, PlaceStep
  <2> QED BY <2>1, OrderStep
<1>3. Inv => HeardInOrder
  <2> SUFFICES ASSUME Inv, NEW i \in 1..Len(heard), NEW j \in 1..Len(heard), i < j,
                      heard[i].turn = heard[j].turn, heard[j].n < heard[i].n
               PROVE  <<heard[j], heard[i]>> \in overtaken
    BY DEF HeardInOrder
  <2>1. heard[i] \in Clips /\ heard[j] \in Clips
    BY TypeParts DEF ClipsOK
  <2>2. ~(heard[i].n < heard[j].n)
    BY <2>1 DEF Clips
  <2>3. Before(heard[i], heard[j], overtaken)
    BY DEF OrderInv, Ordered
  <2> QED BY <2>2, <2>3 DEF Before
<1> HIDE DEF Inv
<1> QED BY <1>1, <1>2, <1>3, PTL DEF Spec
=============================================================================
