---------------------------- MODULE RetainedItems ----------------------------
(***************************************************************************)
(* Who writes which retained status item, and who may clear it: internal/  *)
(* coordinator/ (publishState, the publishing half of pollOnce, the Faikin *)
(* read path, the schedule sensors, the retained sweep) and internal/state *)
(* (the web UI's copy).                                                    *)
(*                                                                         *)
(* Three goroutines publish.  The poll loop writes what the cloud says and *)
(* replays the last Faikin reports; the drain writes each report, for its  *)
(* own unit and for all units of the outdoor unit; the schedule engine     *)
(* writes the next change of the devices its document targets, the poll    *)
(* clears it for the others.  After the first answered poll the poll loop  *)
(* sweeps the broker once for what earlier runs and 0.13 left behind.      *)
(*                                                                         *)
(* External: the broker and go-hamqtt's StatePublisher ("the plane"), which *)
(* keeps what it has published, drops a repetition, and keeps nothing it   *)
(* could not send.                                                         *)
(***************************************************************************)
EXTENDS Naturals, Sequences, FiniteSets, SequencesExt

CONSTANTS
    Mapped,       \* the indoor units with a Faikin module, in the cloud's order
    Served,       \* the units only the cloud serves; all share one outdoor unit
    Readings,     \* what a unit can be measured to do
    MaxEvents,    \* bound: changes, edits of the schedules and lost links, together
    Nothing       \* no value, an empty retained payload: a model value

Devices == Mapped \o Served
Local == ToSet(Mapped)
Owned == ToSet(Devices)

\* One item for all that have the same writers.  "own": a reading, of a mapped unit
\* one in localTopics, which the poll skips; "hvac": the mode the poll does not skip;
\* "shared": an aggregate of the group that the cloud does not know; "next":
\* schedule_next_change; "gone": one this release no longer publishes.  For a unit
\* with a module "shared" has the writers of "own", without one "hvac" has.
Items == [dev : Local, leaf : {"own", "hvac"}]
            \cup [dev : ToSet(Served), leaf : {"own", "shared", "next", "gone"}]
Item(d, leaf) == [dev |-> d, leaf |-> leaf]

\* What 0.13 left of ours, and of a second daemon on the same root.
Legacy == [dev : {"ours", "theirs"}, leaf : {"value", "switch"}]
Topics == Items \cup Legacy

ASSUME ItemConstants ==
    /\ Mapped \in Seq(STRING) /\ Served \in Seq(STRING)
    /\ Local \cap ToSet(Served) = {} /\ Owned \cap {"ours", "theirs"} = {}
    /\ Readings \subseteq STRING /\ Readings # {} /\ {"old", "due"} \cap Readings = {}
    /\ MaxEvents \in Nat

VARIABLES
    truth,       \* what each unit does
    cloud,       \* what ONECTA says it does
    inbox,       \* c.localStates: reports not yet drained
    lastLocal,   \* the last report of each module
    learnt,      \* climateEmbedded: a poll has been answered
    targeted,    \* the devices the schedule document targets
    broker,      \* what is retained
    plane,       \* what the state plane holds, hence has sent
    mirror,      \* state.Store's values
    link,        \* the connection to the broker is up
    pub,         \* what each goroutine has left to publish, its head shown to the mirror?
    pollAt,      \* where the poll loop stands
    wake,        \* Engine.wake
    swept,       \* c.swept
    seen, held,  \* the sweep: what collectRetained saw, what Published() said
    left         \* what is left of the bound

world == <<truth, cloud, inbox>>
said == <<lastLocal, learnt, targeted>>
wire == <<broker, plane, mirror, link>>
sweep == <<swept, seen, held>>
vars == <<world, said, wire, pub, pollAt, wake, sweep, left>>

Publishers == {"poll", "drain", "engine"}
Entry(t, v) == [topic |-> t, value |-> v]

\* Readings are alike: one to start with is enough.
Start == CHOOSE r \in Readings : TRUE

\* An earlier run left everything behind, or nothing; a module may or may not have
\* a report retained.
Init ==
    /\ truth = [d \in Owned |-> Start] /\ cloud = truth
    /\ \E news \in BOOLEAN :
          inbox = IF news THEN [i \in DOMAIN Mapped |-> [dev |-> Mapped[i], value |-> truth[Mapped[i]]]]
                  ELSE <<>>
    /\ lastLocal = [d \in Local |-> Nothing] /\ learnt = FALSE
    /\ targeted \in SUBSET ToSet(Served)
    /\ \E v \in {"old", Nothing} : broker = [t \in Topics |-> v]
    /\ plane = [t \in Items |-> Nothing] /\ mirror = plane
    /\ link = TRUE
    /\ pub = [p \in Publishers |-> [todo |-> <<>>, shown |-> FALSE]]
    /\ pollAt = "idle" /\ wake = TRUE
    /\ swept = FALSE /\ seen = {} /\ held = {}
    /\ left = MaxEvents

Event == left > 0 /\ left' = left - 1
Quiet(p) == pub[p].todo = <<>>
Hand(p, entries) == pub' = [pub EXCEPT ![p].todo = entries]

----------------------------------------------------------------------------
(* The world. *)

\* A unit changes, and its module says so.
Change(d) ==
    /\ Event
    /\ \E r \in Readings \ {truth[d]} :
          /\ truth' = [truth EXCEPT ![d] = r]
          /\ inbox' = Append(inbox, [dev |-> d, value |-> r])
    /\ UNCHANGED <<cloud, said, wire, pub, pollAt, wake, sweep>>

CloudCatchesUp(d) ==
    /\ cloud[d] # truth[d]
    /\ cloud' = [cloud EXCEPT ![d] = truth[d]]
    /\ UNCHANGED <<truth, inbox, said, wire, pub, pollAt, wake, sweep, left>>

\* Somebody schedules a device or deletes its schedule: every edit wakes the engine.
Edit(d) ==
    /\ Event
    /\ targeted' = IF d \in targeted THEN targeted \ {d} ELSE targeted \cup {d}
    /\ wake' = TRUE
    /\ UNCHANGED <<world, lastLocal, learnt, wire, pub, pollAt, sweep>>

LoseLink ==
    /\ Event /\ link
    /\ link' = FALSE
    /\ UNCHANGED <<world, said, broker, plane, mirror, pub, pollAt, wake, sweep>>

\* PublishOnline: the plane sends again what it holds, whether or not the broker
\* still has its retained store.
Resent(kept) ==
    [t \in Topics |-> IF t \in Items /\ plane[t] # Nothing THEN plane[t]
                      ELSE IF kept THEN broker[t] ELSE Nothing]

Reconnect ==
    /\ ~link /\ link' = TRUE
    /\ \E kept \in BOOLEAN : broker' = Resent(kept)
    /\ UNCHANGED <<world, said, plane, mirror, pub, pollAt, wake, sweep, left>>

----------------------------------------------------------------------------
(* publishState: the web UI's store first, then the plane. *)

\* Store.Observe.
Recorded(values, t, v) == [values EXCEPT ![t] = v]

Observe(p) ==
    /\ ~Quiet(p) /\ ~pub[p].shown
    /\ LET e == Head(pub[p].todo) IN mirror' = Recorded(mirror, e.topic, e.value)
    /\ pub' = [pub EXCEPT ![p].shown = TRUE]
    /\ UNCHANGED <<world, said, broker, plane, link, pollAt, wake, sweep, left>>

\* A value the plane holds already is not sent; no value is an Evict, always sent.
Send(p) ==
    /\ pub[p].shown
    /\ LET e == Head(pub[p].todo)
           sent == link /\ (e.value = Nothing \/ plane[e.topic] # e.value) IN
          /\ broker' = IF sent THEN [broker EXCEPT ![e.topic] = e.value] ELSE broker
          /\ plane' = IF sent THEN [plane EXCEPT ![e.topic] = e.value] ELSE plane
    /\ pub' = [pub EXCEPT ![p] = [todo |-> Tail(@.todo), shown |-> FALSE]]
    /\ UNCHANGED <<world, said, mirror, link, pollAt, wake, sweep, left>>

----------------------------------------------------------------------------
(* The drain: publishLocalState and publishOutdoorShared. *)

\* The items of the unit itself, then the aggregate for the others of the group.
OfReport(d, value) ==
    <<Entry(Item(d, "own"), value), Entry(Item(d, "hvac"), value)>>
        \o [i \in DOMAIN Served |-> Entry(Item(Served[i], "shared"), value)]

\* Before the first poll there is no embeddedID to publish under: the report is
\* only remembered.
TakeReport ==
    /\ inbox # <<>> /\ Quiet("drain")
    /\ LET r == Head(inbox) IN
          /\ lastLocal' = [lastLocal EXCEPT ![r.dev] = r.value]
          /\ Hand("drain", IF learnt THEN OfReport(r.dev, r.value) ELSE <<>>)
    /\ inbox' = Tail(inbox)
    /\ UNCHANGED <<truth, cloud, learnt, targeted, wire, pollAt, wake, sweep, left>>

----------------------------------------------------------------------------
(* The poll loop. *)

\* flushLocalStates: the last report of each module once more.
Flush ==
    FlattenSeq([i \in DOMAIN Mapped |->
        LET d == Mapped[i] IN
        IF lastLocal[d] = Nothing THEN <<>> ELSE OfReport(d, lastLocal[d])])

\* The points: not those the read path owns, not those that carry no value because
\* another plane publishes them.
SkippedLocally(d) == d \in Local
Points ==
    FlattenSeq([i \in DOMAIN Devices |->
        LET d == Devices[i] IN
        IF SkippedLocally(d) THEN <<>> ELSE <<Entry(Item(d, "own"), cloud[d])>>])

\* publishHVACModes: a mapped unit's too.
HvacModes == [i \in DOMAIN Mapped |-> Entry(Item(Mapped[i], "hvac"), cloud[Mapped[i]])]

PollAnswered ==
    /\ pollAt = "idle" /\ pollAt' = "points"
    /\ learnt' = TRUE
    /\ Hand("poll", Flush \o Points \o HvacModes)
    /\ UNCHANGED <<world, lastLocal, targeted, wire, wake, sweep, left>>

\* publishUntargetedScheduleState: the document is read once, then the devices in
\* their order.
\* Mutant of Untargeted: every device's, as up to 0.14.0.
EveryDevice(d) == d \in Owned
Untargeted(d) == d \notin targeted
PollAsksSchedules ==
    /\ pollAt = "points" /\ Quiet("poll")
    /\ pollAt' = "schedules"
    /\ LET free == SelectSeq(Served, Untargeted) IN
          Hand("poll", [i \in DOMAIN free |-> Entry(Item(free[i], "next"), Nothing)])
    /\ UNCHANGED <<world, said, wire, wake, sweep, left>>

\* The poll wakes the engine and, the first time, sweeps.
PollEnds ==
    /\ pollAt = "schedules" /\ Quiet("poll")
    /\ wake' = TRUE /\ swept' = TRUE
    /\ pollAt' = IF swept THEN "idle" ELSE "collect"
    /\ UNCHANGED <<world, said, wire, pub, seen, held, left>>

----------------------------------------------------------------------------
(* The engine: Evaluate, PublishScheduleState. *)

\* In the order of the targets' keys, which says nothing about that of the units.
Evaluate ==
    /\ wake /\ Quiet("engine")
    /\ wake' = FALSE
    /\ \E due \in SetToSeqs(targeted) :
          Hand("engine", IF learnt THEN [i \in DOMAIN due |-> Entry(Item(due[i], "next"), "due")]
                         ELSE <<>>)
    /\ UNCHANGED <<world, said, wire, pollAt, sweep, left>>

----------------------------------------------------------------------------
(* The sweep. *)

\* The subtrees it listens to: the owned devices', old and new, and the old
\* scheduler's, which a second daemon shares.
Heard == Items \cup {t \in Legacy : t.dev = "ours" \/ t.leaf = "switch"}

\* collectRetained: with the link down no subscription succeeds, and the sweep of
\* this process is over.
Collect ==
    /\ pollAt = "collect" /\ pollAt' = "read"
    /\ seen' = IF link THEN {t \in Heard : broker[t] # Nothing} ELSE {}
    /\ UNCHANGED <<world, said, wire, pub, wake, swept, held, left>>

\* StatePlane.Published().
ReadPublished ==
    /\ pollAt = "read" /\ pollAt' = "clear"
    /\ held' = {t \in Items : plane[t] # Nothing}
    /\ UNCHANGED <<world, said, wire, pub, wake, swept, seen, left>>

\* Mutant of CloudServed: every owned device, as in 0.14.0.
AnyOwned(d) == d \in Owned

\* sweepScope: CloudServed and OtherOwnerLeaves.
CloudServed(d) == d \notin Local
OtherOwner(leaf) == leaf = "next"

\* classifyRetained.
IsLegacy(t) == t \in Legacy /\ t.dev = "ours"
IsStale(t) == t \in Items /\ t \notin held /\ CloudServed(t.dev) /\ ~OtherOwner(t.leaf)

Cleared(values, which) == [t \in DOMAIN values |-> IF t \in which THEN Nothing ELSE values[t]]

\* The 0.13 topics one by one, then one Evict of all that is stale.
ClearLegacy(t) ==
    /\ pollAt = "clear" /\ t \in seen /\ IsLegacy(t)
    /\ seen' = seen \ {t}
    /\ broker' = IF link THEN Cleared(broker, {t}) ELSE broker
    /\ UNCHANGED <<world, said, plane, mirror, link, pub, pollAt, wake, swept, held, left>>

EvictStale ==
    /\ pollAt = "clear" /\ \A t \in seen : ~IsLegacy(t)
    /\ pollAt' = "idle" /\ seen' = {} /\ held' = {}
    /\ LET stale == {t \in seen : IsStale(t)} IN
          /\ broker' = IF link THEN Cleared(broker, stale) ELSE broker
          /\ plane' = IF link THEN Cleared(plane, stale) ELSE plane
    /\ UNCHANGED <<world, said, mirror, link, pub, wake, swept, left>>

----------------------------------------------------------------------------

Outside == (\E d \in Local : Change(d) \/ CloudCatchesUp(d)) \/ (\E d \in ToSet(Served) : Edit(d))
Link == LoseLink \/ Reconnect
Poll == PollAnswered \/ PollAsksSchedules \/ PollEnds
Sweep == Collect \/ ReadPublished \/ EvictStale \/ \E t \in Legacy : ClearLegacy(t)
Publish(p) == Observe(p) \/ Send(p)

Next ==
    \/ Outside \/ Link
    \/ TakeReport \/ Evaluate \/ Poll \/ Sweep
    \/ \E p \in Publishers : Publish(p)

Spec == Init /\ [][Next]_vars

\* Every goroutine goes on, polls are answered again and again, the link comes
\* back, and the cloud learns of a change in the end.
FairSpec ==
    /\ Spec
    /\ \A d \in Local : WF_vars(CloudCatchesUp(d))
    /\ WF_vars(Reconnect) /\ WF_vars(TakeReport) /\ WF_vars(Evaluate)
    /\ WF_vars(Poll) /\ WF_vars(Sweep)
    /\ \A p \in Publishers : WF_vars(Publish(p))

----------------------------------------------------------------------------
(* Properties. *)

\* Of what this run has published, the sweep takes back nothing but aggregates of a
\* unit without a module: not what a module, the engine or the poll itself wrote
\* between the look at the broker, the look at the plane and the clear, nor what went
\* out before and was lost, sent again or repeated on a link that came and went.
\* (legacy_sweep.go sweepLegacyTopics, sweepScope: 0.14.0 took back a unit's own
\* items when its module spoke between the looks)
LiveItemsStay ==
    [][Sweep => \A t \in Items : broker[t] # broker'[t] /\ plane[t] # Nothing => t.leaf = "shared"]_vars

\* What an item says once its owner has had the last word.
Word(t) ==
    CASE t.leaf = "next" -> IF t.dev \in targeted THEN "due" ELSE Nothing
      [] t.leaf = "shared" -> IF lastLocal[Head(Mapped)] = Nothing THEN broker[t] ELSE truth[Head(Mapped)]
      [] t.leaf = "gone" -> broker[t]
      [] t.leaf = "own" /\ t.dev \in Local /\ lastLocal[t.dev] = Nothing -> broker[t]
      [] OTHER -> truth[t.dev]

\* When the world rests, every item ends up at, and stays at, the last word of the
\* goroutine that owns it: reordered publishes, a lost connection, a broker without
\* its store, a clear that hit a live item and an edit of the schedules in the
\* middle of a poll are all repaired.  And the web UI's copy of what this run
\* published ends up at the same, although two goroutines that publish one item may
\* cross between the store and the plane.  (coordinator.go pollOnce and
\* PublishOnline, schedule.go publishUntargetedScheduleState, runtime.go
\* publishState, state/store.go Observe)
ItemsSettle ==
    <>[](\A t \in Items : /\ broker[t] = Word(t)
                          /\ mirror[t] # Nothing \/ plane[t] # Nothing => mirror[t] = broker[t])

============================================================================
