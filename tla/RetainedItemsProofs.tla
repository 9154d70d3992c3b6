------------------------- MODULE RetainedItemsProofs -------------------------
(***************************************************************************)
(* For any units, readings and schedules, the sweep of RetainedItems takes *)
(* back nothing this run has published but aggregates of a unit without a  *)
(* module.                                                                 *)
(***************************************************************************)
EXTENDS RetainedItems, FiniteSetTheorems, TLAPS

\* The broker has a place for every topic, and keeps it.
Places == DOMAIN broker = Topics

\* The units are those with a module and those without.
LEMMA LocalOwned == Owned = Local \cup ToSet(Served)
<1>1. Mapped \in Seq(STRING) /\ Served \in Seq(STRING)
  BY ItemConstants
<1>2. /\ Len(Mapped) \in Nat /\ Len(Served) \in Nat
      /\ DOMAIN Mapped = 1..Len(Mapped) /\ DOMAIN Served = 1..Len(Served)
      /\ DOMAIN Devices = 1..(Len(Mapped) + Len(Served))
  BY <1>1 DEF Devices
<1>3. \A i \in DOMAIN Devices :
          Devices[i] = IF i <= Len(Mapped) THEN Mapped[i] ELSE Served[i - Len(Mapped)]
  BY <1>1, <1>2 DEF Devices
<1>4. ASSUME NEW i \in DOMAIN Mapped PROVE i \in DOMAIN Devices /\ Devices[i] = Mapped[i]
  BY <1>2, <1>3
<1>5. ASSUME NEW i \in DOMAIN Served
      PROVE  i + Len(Mapped) \in DOMAIN Devices /\ Devices[i + Len(Mapped)] = Served[i]
  BY <1>2, <1>3
<1>6. ASSUME NEW i \in DOMAIN Devices PROVE Devices[i] \in Local \cup ToSet(Served)
  <2>1. CASE i <= Len(Mapped)
    BY <1>2, <1>3, <2>1 DEF Local, ToSet
  <2>2. CASE ~(i <= Len(Mapped))
    <3>1. i - Len(Mapped) \in DOMAIN Served
      BY <1>2, <2>2
    <3>2. Devices[i] = Served[i - Len(Mapped)]
      BY <1>3, <2>2
    <3> QED  BY <3>1, <3>2 DEF ToSet
  <2> QED  BY <2>1, <2>2
<1> QED  BY <1>4, <1>5, <1>6 DEF Owned, Local, ToSet

\* The topics of this release, of 0.13 and of another daemon are told apart by the
\* device they name.
LEMMA TopicsApart == \A t \in Legacy : t \notin Items
<1>1. ASSUME NEW t \in Items PROVE t.dev \in Owned
  BY LocalOwned DEF Items
<1>2. Owned \cap {"ours", "theirs"} = {}
  BY ItemConstants
<1>3. \A t \in Legacy : t.dev \in {"ours", "theirs"}
  BY DEF Legacy
<1> QED  BY <1>1, <1>2, <1>3

\* No step adds a topic to the broker or takes one away: a clear empties it.
THEOREM BrokerKeepsItsTopics == Spec => []Places
<1>1. Init => Places
  BY DEF Init, Places
<1>2. Places /\ [Next]_vars => Places'
  <2> SUFFICES ASSUME Places, [Next]_vars PROVE Places'
    OBVIOUS
  <2>1. CASE Outside
    BY <2>1 DEF Outside, Change, CloudCatchesUp, Edit, wire, Places
  <2>2. CASE Link
    BY <2>2 DEF Link, LoseLink, Reconnect, Resent, Places
  <2>3. CASE TakeReport \/ Evaluate \/ Poll
    BY <2>3 DEF TakeReport, Evaluate, Poll, PollAnswered, PollAsksSchedules, PollEnds, wire, Places
  <2>4. CASE Sweep
    <3>1. CASE Collect \/ ReadPublished
      BY <3>1 DEF Collect, ReadPublished, wire, Places
    <3>2. CASE \E t \in Legacy : ClearLegacy(t)
      BY <3>2 DEF ClearLegacy, Cleared, Places
    <3>3. CASE EvictStale
      BY <3>3 DEF EvictStale, Cleared, Places
    <3> QED  BY <2>4, <3>1, <3>2, <3>3 DEF Sweep
  <2>5. CASE \E p \in Publishers : Publish(p)
    <3>1. PICK p \in Publishers : Observe(p) \/ Send(p)
      BY <2>5 DEF Publish
    <3>2. CASE Observe(p)
      BY <3>2 DEF Observe, Places
    <3>3. CASE Send(p)
      BY <3>3 DEF Send, Places
    <3> QED  BY <3>1, <3>2, <3>3
  <2>6. CASE UNCHANGED vars
    BY <2>6 DEF vars, wire, Places
  <2> QED  BY <2>1, <2>2, <2>3, <2>4, <2>5, <2>6 DEF Next
<1> QED  BY <1>1, <1>2, PTL DEF Spec

\* What a clear leaves in the broker differs only in what was cleared.
LEMMA OnlyTheCleared ==
    ASSUME NEW which, NEW t \in Topics, Places,
           broker' = IF link THEN Cleared(broker, which) ELSE broker,
           broker[t] # broker'[t]
    PROVE  t \in which
BY DEF Cleared, Places

\* What the reports of modules are published on, and what the engine writes.
OfModules == {t \in Items : t.dev \in Local \/ t.leaf = "shared"}
OfEngine == {t \in Items : t.leaf = "next"}

\* A report in the inbox, and the entries of the two lists.
Report == [dev : Local, value : Readings]
ModuleEntry == [topic : OfModules, value : Readings]
EngineEntry == [topic : OfEngine, value : {"due"}]

\* Nobody shows the mirror the head of an empty list.
ListsInv ==
    /\ DOMAIN pub = Publishers
    /\ \A p \in Publishers :
          /\ DOMAIN pub[p] = {"todo", "shown"} /\ pub[p].shown \in BOOLEAN
          /\ pub[p].shown => ~Quiet(p)

\* The drain and the engine have nothing but their own items to publish.
DrainInv ==
    /\ truth \in [Owned -> Readings]
    /\ inbox \in Seq(Report)
    /\ pub["drain"].todo \in Seq(ModuleEntry)
EngineInv ==
    /\ targeted \subseteq ToSet(Served)
    /\ pub["engine"].todo \in Seq(EngineEntry)

\* The sweep runs in the poll loop, which then publishes nothing.
PollInv == pollAt \notin {"points", "schedules"} => Quiet("poll")

\* What came to be published since the sweep looked at the plane.
SinceInv ==
    /\ DOMAIN plane = Items
    /\ pollAt = "clear" =>
          \A t \in Items : plane[t] # Nothing /\ t \notin held => t \in OfModules \cup OfEngine

SweepInv == ListsInv /\ DrainInv /\ EngineInv /\ PollInv /\ SinceInv

----------------------------------------------------------------------------

\* What is taken off a list, and what stays on it.
LEMMA HeadAndTail ==
    ASSUME NEW S, NEW s \in Seq(S), s # <<>>
    PROVE  Head(s) \in S /\ Tail(s) \in Seq(S)
OBVIOUS

\* A report is published on items that modules write.
LEMMA ReportsTyped ==
    ASSUME NEW d \in Local, NEW v \in Readings
    PROVE  OfReport(d, v) \in Seq(ModuleEntry)
<1> DEFINE mine == <<Entry(Item(d, "own"), v), Entry(Item(d, "hvac"), v)>>
           shared == [i \in DOMAIN Served |-> Entry(Item(Served[i], "shared"), v)]
<1>1. Served \in Seq(STRING) /\ Len(Served) \in Nat /\ DOMAIN Served = 1..Len(Served)
  BY ItemConstants
<1>2. mine \in Seq(ModuleEntry)
  <2>1. Item(d, "own") \in OfModules /\ Item(d, "hvac") \in OfModules
    BY DEF Item, Items, OfModules
  <2>2. Entry(Item(d, "own"), v) \in ModuleEntry /\ Entry(Item(d, "hvac"), v) \in ModuleEntry
    BY <2>1 DEF Entry, ModuleEntry
  <2> QED  BY <2>2
<1>3. ASSUME NEW i \in DOMAIN Served PROVE Entry(Item(Served[i], "shared"), v) \in ModuleEntry
  <2>1. Served[i] \in ToSet(Served)
    BY DEF ToSet
  <2>2. Item(Served[i], "shared") \in OfModules
    BY <2>1 DEF Item, Items, OfModules
  <2> QED  BY <2>2 DEF Entry, ModuleEntry
<1>4. shared \in Seq(ModuleEntry)
  <2> HIDE DEF ModuleEntry
  <2>1. shared \in [1..Len(Served) -> ModuleEntry]
    BY <1>1, <1>3
  <2> QED  BY <1>1, <2>1
<1>5. OfReport(d, v) = mine \o shared
  BY DEF OfReport
<1> HIDE DEF mine, shared
<1> QED  BY <1>2, <1>4, <1>5

\* The devices that are targeted can be listed, and their next changes published.
LEMMA NextChangesTyped ==
    ASSUME NEW S \in SUBSET ToSet(Served), NEW due \in SetToSeqs(S)
    PROVE  [i \in DOMAIN due |-> Entry(Item(due[i], "next"), "due")]
              \in Seq(EngineEntry)
<1>1. IsFiniteSet(ToSet(Served))
  <2>1. Served \in Seq(STRING) /\ Len(Served) \in Nat /\ DOMAIN Served = 1..Len(Served)
    BY ItemConstants
  <2>2. Served \in Surjection(1..Len(Served), ToSet(Served))
    BY <2>1 DEF Surjection, ToSet
  <2> QED  BY <2>1, <2>2, FS_Interval, FS_Surjection
<1>2. Cardinality(S) \in Nat
  BY <1>1, FS_Subset, FS_CardinalityType
<1>3. due \in [1..Cardinality(S) -> S]
  BY DEF SetToSeqs
<1>4. \A i \in DOMAIN due : Entry(Item(due[i], "next"), "due") \in EngineEntry
  BY <1>3 DEF Entry, Item, Items, OfEngine, EngineEntry
<1>5. [i \in DOMAIN due |-> Entry(Item(due[i], "next"), "due")] \in [1..Cardinality(S) -> EngineEntry]
  BY <1>3, <1>4
<1> QED  BY <1>2, <1>5

\* What a step that hands a publisher its entries leaves in the lists.
LEMMA Handed ==
    ASSUME ListsInv, NEW p \in Publishers, NEW entries, Quiet(p), Hand(p, entries)
    PROVE  /\ ListsInv'
           /\ pub'[p].todo = entries
           /\ \A q \in Publishers \ {p} : pub'[q] = pub[q]
BY DEF ListsInv, Hand, Quiet

\* What a step that publishes leaves in the lists.
LEMMA Published ==
    ASSUME ListsInv, NEW p \in Publishers, Publish(p)
    PROVE  /\ ListsInv'
           /\ pub'[p].todo = pub[p].todo \/ pub'[p].todo = Tail(pub[p].todo)
           /\ \A q \in Publishers \ {p} : pub'[q] = pub[q]
           /\ ~Quiet(p)
<1>1. CASE Observe(p)
  <2>1. ~Quiet(p) /\ pub' = [pub EXCEPT ![p].shown = TRUE]
    BY <1>1 DEF Observe
  <2> QED  BY <2>1 DEF ListsInv, Quiet
<1>2. CASE Send(p)
  <2>1. pub[p].shown /\ pub' = [pub EXCEPT ![p] = [todo |-> Tail(@.todo), shown |-> FALSE]]
    BY <1>2 DEF Send
  <2> QED  BY <2>1 DEF ListsInv, Quiet
<1> QED  BY <1>1, <1>2 DEF Publish

\* At the start nothing is to be published, and nothing is.
LEMMA InitSweepInv == Init => SweepInv
<1> SUFFICES ASSUME Init PROVE SweepInv
  OBVIOUS
<1>1. ListsInv /\ PollInv
  BY DEF Init, ListsInv, PollInv, Quiet, Publishers
<1>2. Start \in Readings
  BY ItemConstants DEF Start
<1>3. truth \in [Owned -> Readings]
  BY <1>2 DEF Init
<1>4. inbox \in Seq(Report)
  <2>1. Mapped \in Seq(STRING)
    BY ItemConstants
  <2>2. \A i \in DOMAIN Mapped : Mapped[i] \in Local /\ truth[Mapped[i]] \in Readings
    <3>1. \A i \in DOMAIN Mapped : Mapped[i] \in Local
      BY DEF Local, ToSet
    <3> QED  BY <3>1, <1>3, LocalOwned
  <2>3. [i \in DOMAIN Mapped |-> [dev |-> Mapped[i], value |-> truth[Mapped[i]]]]
            \in [1..Len(Mapped) -> Report]
    BY <2>1, <2>2 DEF Report
  <2>4. [i \in DOMAIN Mapped |-> [dev |-> Mapped[i], value |-> truth[Mapped[i]]]] \in Seq(Report)
    BY <2>1, <2>3
  <2> QED  BY <2>4 DEF Init
<1>5. DrainInv /\ EngineInv
  <2>1. pub["drain"].todo = <<>> /\ pub["engine"].todo = <<>> /\ targeted \subseteq ToSet(Served)
    BY DEF Init, Publishers
  <2> QED  BY <1>3, <1>4, <2>1 DEF DrainInv, EngineInv
<1>6. SinceInv
  BY DEF Init, SinceInv
<1> QED  BY <1>1, <1>5, <1>6 DEF SweepInv

\* No step breaks the invariant.
LEMMA StepSweepInv == SweepInv /\ [Next]_vars => SweepInv'
<1> SUFFICES ASSUME SweepInv, [Next]_vars PROVE SweepInv'
  OBVIOUS
<1> USE DEF SweepInv
<1>1. ASSUME NEW d \in Local, Change(d) PROVE SweepInv'
  <2>1. UNCHANGED <<pub, targeted, pollAt, plane, held>>
    BY <1>1 DEF Change, said, wire, sweep
  <2>2. PICK r \in Readings : /\ truth' = [truth EXCEPT ![d] = r]
                              /\ inbox' = Append(inbox, [dev |-> d, value |-> r])
    BY <1>1 DEF Change
  <2>3. DrainInv'
    <3>1. truth' \in [Owned -> Readings]
      BY <1>1, <2>2 DEF Change, DrainInv
    <3>2. [dev |-> d, value |-> r] \in Report
      BY <2>2 DEF Report
    <3>3. inbox' \in Seq(Report)
      BY <2>2, <3>2 DEF DrainInv
    <3> QED  BY <2>1, <3>1, <3>3 DEF DrainInv
  <2> QED  BY <2>1, <2>3 DEF ListsInv, EngineInv, PollInv, SinceInv, Quiet
<1>2. ASSUME NEW d \in ToSet(Served), Edit(d) PROVE SweepInv'
  BY <1>2 DEF Edit, world, wire, sweep, ListsInv, DrainInv, EngineInv, PollInv, SinceInv, Quiet
<1>3. CASE UNCHANGED <<truth, inbox, targeted, plane, pub, pollAt, held>>
  BY <1>3 DEF ListsInv, DrainInv, EngineInv, PollInv, SinceInv, Quiet
<1>4. CASE TakeReport
  <2>1. PICK r : /\ r = Head(inbox)
                 /\ Hand("drain", IF learnt THEN OfReport(r.dev, r.value) ELSE <<>>)
    BY <1>4 DEF TakeReport
  <2>2. r.dev \in Local /\ r.value \in Readings /\ inbox' \in Seq(Report)
    <3>1. r \in Report /\ inbox' \in Seq(Report)
      BY <1>4, <2>1, HeadAndTail DEF TakeReport, DrainInv
    <3> QED  BY <3>1 DEF Report
  <2>3. (IF learnt THEN OfReport(r.dev, r.value) ELSE <<>>)
            \in Seq(ModuleEntry)
    BY <2>2, ReportsTyped
  <2>4. /\ ListsInv'
        /\ pub'["drain"].todo = IF learnt THEN OfReport(r.dev, r.value) ELSE <<>>
        /\ pub'["engine"] = pub["engine"] /\ pub'["poll"] = pub["poll"]
    BY <1>4, <2>1, Handed DEF TakeReport, Publishers
  <2>5. UNCHANGED <<truth, targeted, pollAt, plane, held>>
    BY <1>4 DEF TakeReport, wire, sweep
  <2> QED  BY <2>2, <2>3, <2>4, <2>5 DEF DrainInv, EngineInv, PollInv, SinceInv, Quiet
<1>5. CASE Evaluate
  <2>1. PICK due \in SetToSeqs(targeted) :
            Hand("engine", IF learnt THEN [i \in DOMAIN due |-> Entry(Item(due[i], "next"), "due")]
                           ELSE <<>>)
    BY <1>5 DEF Evaluate
  <2>2. (IF learnt THEN [i \in DOMAIN due |-> Entry(Item(due[i], "next"), "due")] ELSE <<>>)
            \in Seq(EngineEntry)
    BY <2>1, NextChangesTyped DEF EngineInv
  <2>3. /\ ListsInv'
        /\ pub'["engine"].todo \in Seq(EngineEntry)
        /\ pub'["drain"] = pub["drain"] /\ pub'["poll"] = pub["poll"]
    BY <1>5, <2>1, <2>2, Handed DEF Evaluate, Publishers
  <2>4. UNCHANGED <<truth, inbox, targeted, pollAt, plane, held>>
    BY <1>5 DEF Evaluate, world, said, wire, sweep
  <2> QED  BY <2>3, <2>4 DEF DrainInv, EngineInv, PollInv, SinceInv, Quiet
<1>6. CASE PollAnswered \/ PollAsksSchedules
  <2>1. PICK entries : Quiet("poll") /\ Hand("poll", entries)
    BY <1>6 DEF PollAnswered, PollAsksSchedules, PollInv
  <2>2. ListsInv' /\ pub'["drain"] = pub["drain"] /\ pub'["engine"] = pub["engine"]
    BY <2>1, Handed DEF Publishers
  <2>3. UNCHANGED <<truth, inbox, targeted, plane, held>> /\ pollAt' \in {"points", "schedules"}
    BY <1>6 DEF PollAnswered, PollAsksSchedules, world, said, wire, sweep
  <2> QED  BY <2>2, <2>3 DEF DrainInv, EngineInv, PollInv, SinceInv
<1>7. CASE PollEnds \/ Collect \/ ReadPublished \/ EvictStale
  <2>1. UNCHANGED <<truth, inbox, targeted, pub>>
    BY <1>7 DEF PollEnds, Collect, ReadPublished, EvictStale, world, said, wire
  <2>2. PollInv'
    BY <1>7, <2>1 DEF PollEnds, Collect, ReadPublished, EvictStale, PollInv, Quiet
  <2>3. SinceInv'
    BY <1>7 DEF PollEnds, Collect, ReadPublished, EvictStale, SinceInv, Cleared, wire, sweep
  <2> QED  BY <2>1, <2>2, <2>3 DEF ListsInv, DrainInv, EngineInv, Quiet
<1>8. ASSUME NEW p \in Publishers, Publish(p) PROVE SweepInv'
  <2>1. /\ ListsInv' /\ ~Quiet(p)
        /\ pub'[p].todo = pub[p].todo \/ pub'[p].todo = Tail(pub[p].todo)
        /\ \A q \in Publishers \ {p} : pub'[q] = pub[q]
    BY <1>8, Published
  <2>2. UNCHANGED <<truth, inbox, targeted, pollAt, held>>
    BY <1>8 DEF Publish, Observe, Send, world, said, sweep
  <2>3. DrainInv'
    <3>1. pub["drain"].todo \in Seq(ModuleEntry)
      BY DEF DrainInv
    <3>2. pub'["drain"].todo \in Seq(ModuleEntry)
      <4>1. CASE p = "drain"
        <5>1. pub["drain"].todo # <<>>
          BY <2>1, <4>1 DEF Quiet
        <5>2. Tail(pub["drain"].todo) \in Seq(ModuleEntry)
          BY <3>1, <5>1, HeadAndTail
        <5> QED  BY <2>1, <3>1, <4>1, <5>2
      <4>2. CASE p # "drain"
        BY <2>1, <3>1, <4>2 DEF Publishers
      <4> QED  BY <4>1, <4>2
    <3> QED  BY <2>2, <3>2 DEF DrainInv
  <2>4. EngineInv'
    <3>1. pub["engine"].todo \in Seq(EngineEntry)
      BY DEF EngineInv
    <3>2. pub'["engine"].todo \in Seq(EngineEntry)
      <4>1. CASE p = "engine"
        <5>1. pub["engine"].todo # <<>>
          BY <2>1, <4>1 DEF Quiet
        <5>2. Tail(pub["engine"].todo) \in Seq(EngineEntry)
          BY <3>1, <5>1, HeadAndTail
        <5> QED  BY <2>1, <3>1, <4>1, <5>2
      <4>2. CASE p # "engine"
        BY <2>1, <3>1, <4>2 DEF Publishers
      <4> QED  BY <4>1, <4>2
    <3> QED  BY <2>2, <3>2 DEF EngineInv
  <2>5. PollInv'
    BY <2>1, <2>2 DEF PollInv, Quiet, Publishers
  <2>6. SinceInv'
    <3>1. CASE Observe(p)
      BY <3>1, <2>2 DEF Observe, SinceInv
    <3>2. CASE Send(p)
      <4>1. pollAt = "clear" => Head(pub[p].todo).topic \in OfModules \cup OfEngine
        <5>1. CASE p = "poll"
          BY <5>1, <2>1 DEF PollInv
        <5>2. CASE p = "drain"
          <6>1. Head(pub[p].todo) \in ModuleEntry
            BY <5>2, <2>1, HeadAndTail DEF DrainInv, Quiet
          <6> QED  BY <6>1 DEF ModuleEntry
        <5>3. CASE p = "engine"
          <6>1. Head(pub[p].todo) \in EngineEntry
            BY <5>3, <2>1, HeadAndTail DEF EngineInv, Quiet
          <6> QED  BY <6>1 DEF EngineEntry
        <5> QED  BY <5>1, <5>2, <5>3 DEF Publishers
      <4>2. PICK e : /\ e = Head(pub[p].todo)
                     /\ plane' = plane \/ plane' = [plane EXCEPT ![e.topic] = e.value]
        BY <3>2 DEF Send
      <4> QED  BY <4>1, <4>2, <2>2 DEF SinceInv
    <3> QED  BY <1>8, <3>1, <3>2 DEF Publish
  <2> QED  BY <2>1, <2>3, <2>4, <2>5, <2>6
<1>9. ASSUME NEW t \in Legacy, ClearLegacy(t) PROVE SweepInv'
  BY <1>9, <1>3 DEF ClearLegacy, world, said
<1>10. CASE (\E d \in Local : CloudCatchesUp(d)) \/ Link \/ UNCHANGED vars
  BY <1>10, <1>3 DEF CloudCatchesUp, Link, LoseLink, Reconnect, vars, world, said, wire, sweep
<1> QED  BY <1>1, <1>2, <1>4, <1>5, <1>6, <1>7, <1>8, <1>9, <1>10
         DEF Next, Outside, Poll, Sweep

\* Of what this run has published the sweep takes back nothing but aggregates of a
\* unit without a module: whichever reports, edits, evaluations and lost links fall
\* between the three looks it takes, for any units in any order, and any schedules.
\* (legacy_sweep.go sweepLegacyTopics, sweepScope, classifyRetained)
THEOREM SweepLeavesTheLive == Spec => LiveItemsStay
<1> DEFINE Stay == Sweep => \A t \in Items : broker[t] # broker'[t] /\ plane[t] # Nothing => t.leaf = "shared"
<1>1. Places /\ SweepInv => Stay
  <2> SUFFICES ASSUME Places, SweepInv, Sweep, NEW t \in Items,
                      broker[t] # broker'[t], plane[t] # Nothing
               PROVE  t.leaf = "shared"
    OBVIOUS
  <2>1. t \in Topics /\ t \notin Legacy
    BY TopicsApart DEF Topics
  <2>2. CASE Collect \/ ReadPublished
    BY <2>2 DEF Collect, ReadPublished, wire
  <2>3. CASE \E u \in Legacy : ClearLegacy(u)
    BY <2>1, <2>3, OnlyTheCleared DEF ClearLegacy
  <2>4. CASE EvictStale
    <3>1. IsStale(t) /\ pollAt = "clear"
      BY <2>1, <2>4, OnlyTheCleared DEF EvictStale
    <3>2. t \in OfModules \cup OfEngine
      BY <3>1 DEF IsStale, SweepInv, SinceInv
    <3> QED  BY <3>1, <3>2 DEF IsStale, CloudServed, OtherOwner, OfModules, OfEngine
  <2> QED  BY <2>2, <2>3, <2>4 DEF Sweep
<1>2. Spec => [](Places /\ SweepInv)
  <2>1. Spec => []SweepInv
    BY InitSweepInv, StepSweepInv, PTL DEF Spec
  <2> QED  BY <2>1, BrokerKeepsItsTopics, PTL
<1>3. Places /\ SweepInv => [Stay]_vars
  BY <1>1
<1>4. LiveItemsStay <=> [][Stay]_vars
  BY DEF LiveItemsStay
<1> QED  BY <1>2, <1>3, <1>4, PTL
=============================================================================
