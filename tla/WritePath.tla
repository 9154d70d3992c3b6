------------------------------ MODULE WritePath ------------------------------
(***************************************************************************)
(* From a set message or a schedule block to the units of one outdoor unit *)
(* and back into the coordinator's caches: internal/coordinator/           *)
(* coordinator.go, climate.go, schedule.go, outdoor.go, backend.go and     *)
(* local.go.                                                               *)
(*                                                                         *)
(* Four goroutines meet here.  The producers (MQTT router, web, schedule   *)
(* engine) fill the write queue; the writer drains it, one request after   *)
(* the other, each a sequence of settings and a mode sync; the drain takes *)
(* in the reports of Faikin modules; the poll loop stores what the cloud   *)
(* says and replays the last reports.  powerCache and modeCache are where  *)
(* they meet, and every access under c.mu is a step of its own.            *)
(*                                                                         *)
(* External: the units, their remote controls, the modules, which report a *)
(* change, and the cloud, whose reading of a unit lags.                    *)
(***************************************************************************)
EXTENDS Naturals, Sequences, SequencesExt

CONSTANTS
    Members,      \* the indoor units of the outdoor unit, sorted
    Houses,       \* bound: what the units may be doing at the start
    Local,        \* those mapped to a Faikin module
    Commands,     \* the set messages that may arrive
    Actions,      \* the block actions the engine may apply
    Capacity,     \* of the write queue
    MaxEvents,    \* bound: set messages, block actions, uses of remote controls and
                  \* settings that fail or get lost, together
    Nothing       \* no value: a model value

Units == ToSet(Members)
Modes == {"heating", "cooling", "auto"}

\* A setting a person asks for.  The hvac item and the setpoint of a block carry
\* the mode of their block.
Requests ==
    [unit : Units, item : {"hvac"}, value : Modes \cup {"off"}, for : Modes \cup {Nothing}]
    \cup [unit : Units, item : {"power"}, value : {"on", "off"}, for : {Nothing}]
    \cup [unit : Units, item : {"mode"}, value : Modes, for : {Nothing}]
    \cup [unit : Units, item : {"setpoint", "fan"}, value : {Nothing}, for : Modes \cup {Nothing}]
Status == [on : BOOLEAN, mode : Modes]

ASSUME WriteConstants ==
    /\ Members \in Seq(Units) /\ Local \subseteq Units
    /\ Commands \subseteq {r \in Requests : r.for = Nothing}
    /\ Actions \subseteq [unit : Units, value : Modes \cup {"off"}, setpoint : BOOLEAN]
    /\ Capacity \in Nat \ {0} /\ MaxEvents \in Nat

Report(u, status) == [unit |-> u, status |-> status]
Reports == [unit : Local, status : Status]

ASSUME NothingIsNoValue ==
    /\ Nothing \notin BOOLEAN /\ Nothing \notin Modes \cup {"on", "off", "units", "groups"}
    /\ Nothing \notin Status /\ Nothing \notin [Units -> Status]
    /\ Nothing \notin Requests /\ Nothing \notin Reports

VARIABLES
    unit,        \* each unit: whether it runs, and its operation mode
    cloud,       \* what ONECTA would answer about each unit
    told,        \* the last report of each module
    inbox,       \* its report not yet drained, or Nothing
    window,      \* the scan-ignore window after a PATCH is open
    powerCache, modeCache, lastLocal,
    learnt,      \* what polls have learnt: nothing, "units" (climateEmbedded), "groups"
    queue,       \* c.writes
    engine,      \* the block's setpoint, still to be queued by ApplySchedule
    writer, drain, poll,   \* where each goroutine stands
    left,        \* what is left of the bound
    misled,      \* history: the caches of a unit are wrong for a known reason
    spoilt,      \* history: modeCache has moved since the last block's mode was noted
    excused      \* history: something came between that mode sync does not cover

world == <<unit, cloud, told, inbox>>
caches == <<powerCache, modeCache, lastLocal, learnt>>
history == <<misled, spoilt, excused>>
vars == <<world, window, caches, queue, engine, writer, drain, poll, left, history>>

\* One call of setCharacteristic: which setting, the mode in its path, the mode
\* its block meant, and whether mode sync asks for it.
Settings ==
    [unit : Units, what : {"power"}, value : {"on", "off"},
     path : {Nothing}, for : {Nothing}, sync : {FALSE}]
    \cup [unit : Units, what : {"mode"}, value : Modes,
          path : {Nothing}, for : Modes \cup {Nothing}, sync : BOOLEAN]
    \cup [unit : Units, what : {"scoped"}, value : {Nothing},
          path : Modes \cup {Nothing}, for : Modes \cup {Nothing}, sync : {FALSE}]
Writers == [at : {"idle", "set", "note", "sync"}, todo : Seq(Settings),
            sync : Modes \cup {Nothing}, peers : Seq(Units)]
Polls == [at : {"idle", "answered", "stored", "replay", "mode"},
          snap : [Units -> Status] \cup {Nothing}, replay : SUBSET Reports, one : Reports \cup {Nothing}]
Idle == [at |-> "idle", todo |-> <<>>, sync |-> Nothing, peers |-> <<>>]
Asleep == [at |-> "idle", snap |-> Nothing, replay |-> {}, one |-> Nothing]

TypeOK ==
    /\ unit \in [Units -> Status] /\ cloud \in [Units -> Status]
    /\ told \in [Local -> Status] /\ inbox \in [Local -> Status \cup {Nothing}]
    /\ lastLocal \in [Local -> Status \cup {Nothing}]
    /\ window \in BOOLEAN
    /\ powerCache \in [Units -> BOOLEAN \cup {Nothing}]
    /\ modeCache \in [Units -> Modes \cup {Nothing}]
    /\ learnt \in {Nothing, "units", "groups"}
    /\ queue \in Seq(Requests) /\ Len(queue) <= Capacity
    /\ engine \in {r \in Requests : r.item = "setpoint"} \cup {Nothing}
    /\ writer \in Writers
    /\ writer.at \in {"set", "note"} <=> writer.todo # <<>>
    /\ writer.at = "sync" => writer.peers # <<>>
    /\ drain \in Reports \cup {Nothing}
    /\ poll \in Polls
    /\ poll.at = "answered" => poll.snap # Nothing
    /\ poll.at = "mode" <=> poll.one # Nothing
    /\ left \in 0..MaxEvents
    /\ misled \in [Units -> BOOLEAN] /\ spoilt \in [Units -> BOOLEAN] /\ excused \in BOOLEAN

\* modeFamily: the direction a mode asks of the compressor, if any.
Family(mode) == CASE mode = "heating" -> "heat" [] mode = "cooling" -> "cool" [] OTHER -> Nothing

\* Two directions that cannot run at once.
Against(f, g) == Nothing \notin {f, g} /\ f # g
Opposed(units, u, v) ==
    units[u].on /\ units[v].on /\ Against(Family(units[u].mode), Family(units[v].mode))

\* No two units run against each other to begin with.
ASSUME HousesAtPeace ==
    Houses \subseteq [Units -> Status] /\ \A h \in Houses : \A u, v \in Units : ~Opposed(h, u, v)

\* Nobody knows anything yet; the retained reports come with the subscriptions.
Init ==
    /\ unit \in Houses /\ cloud = unit
    /\ told = [u \in Local |-> unit[u]] /\ inbox = told
    /\ window = FALSE
    /\ powerCache = [u \in Units |-> Nothing] /\ modeCache = [u \in Units |-> Nothing]
    /\ lastLocal = [u \in Local |-> Nothing] /\ learnt = Nothing
    /\ queue = <<>> /\ engine = Nothing
    /\ writer = Idle /\ drain = Nothing /\ poll = Asleep
    /\ left = MaxEvents
    /\ misled = [u \in Units |-> FALSE] /\ spoilt = [u \in Units |-> TRUE] /\ excused = FALSE

Event == left > 0 /\ left' = left - 1

----------------------------------------------------------------------------
(* What the caches are worth. *)

\* What is known of a unit is true of it.
Fits(power, mode, status) == power \in {Nothing, status.on} /\ mode \in {Nothing, status.mode}
Agrees(u) == Fits(powerCache[u], modeCache[u], unit[u])
AgreesNext(u) == Fits(powerCache'[u], modeCache'[u], unit'[u])

\* The bookkeeping of every action: which units it gives a reason to be misjudged,
\* and whose mode it moves.
Account(reasons) ==
    /\ misled' = [u \in Units |-> (misled[u] \/ u \in reasons) /\ ~AgreesNext(u)]
    /\ spoilt' = [u \in Units |-> spoilt[u] \/ modeCache'[u] # modeCache[u]]

Unaccounted == UNCHANGED <<misled, spoilt>>

----------------------------------------------------------------------------
(* The world. *)

\* Somebody switches a unit on or off, or chooses its mode, with a remote control.
Remote(u) ==
    /\ Event
    /\ \/ unit' = [unit EXCEPT ![u].on = ~@]
       \/ \E m \in Modes \ {unit[u].mode} : unit' = [unit EXCEPT ![u].mode = m]
    /\ excused' = TRUE
    /\ UNCHANGED <<cloud, told, inbox, window, caches, queue, engine, writer, drain, poll>>
    /\ Account({u})

\* ONECTA learns of a change.  What it says of a mapped unit matters only until
\* something is known of that unit.
CloudCatchesUp(u) ==
    /\ cloud[u] # unit[u]
    /\ u \in Local => Nothing \in {powerCache[u], modeCache[u]}
    /\ cloud' = [cloud EXCEPT ![u] = unit[u]]
    /\ UNCHANGED <<unit, told, inbox, window, caches, queue, engine, writer, drain, poll, left, history>>

\* subscribeFaikin: a module reports a change, and the queue of reports has room.
Reported(u) ==
    /\ told[u] # unit[u] /\ inbox[u] = Nothing
    /\ told' = [told EXCEPT ![u] = unit[u]] /\ inbox' = [inbox EXCEPT ![u] = unit[u]]
    /\ UNCHANGED <<unit, cloud, window, caches, queue, engine, writer, drain, poll, left, history>>

WindowEnds ==
    /\ window /\ window' = FALSE
    /\ UNCHANGED <<world, caches, queue, engine, writer, drain, poll, left, history>>

----------------------------------------------------------------------------
(* The producers. *)

\* Mutant of HasRoom: one request too many.
HasRoomForOneMore == Len(queue) <= Capacity

HasRoom == Len(queue) < Capacity

\* subscribeWrites and webWriter.Submit: a set message is queued, or dropped.
Receive(r) ==
    /\ Event
    /\ queue' = IF HasRoom THEN Append(queue, r) ELSE queue
    /\ UNCHANGED <<world, window, caches, engine, writer, drain, poll, history>>

HvacOf(a) == [unit |-> a.unit, item |-> "hvac", value |-> a.value,
              for |-> IF a.value = "off" THEN Nothing ELSE a.value]
SetpointOf(a) == [unit |-> a.unit, item |-> "setpoint", value |-> Nothing, for |-> a.value]

\* ApplySchedule of an indoor block: refused before a poll has learnt the unit and
\* when the queue is full; the setpoint follows in a send of its own.
Apply(a) ==
    /\ engine = Nothing /\ learnt # Nothing /\ HasRoom
    /\ Event
    /\ queue' = Append(queue, HvacOf(a))
    /\ engine' = IF a.value # "off" /\ a.setpoint THEN SetpointOf(a) ELSE Nothing
    /\ UNCHANGED <<world, window, caches, writer, drain, poll, history>>

\* The second send, or its error.
ApplySetpoint ==
    /\ engine # Nothing /\ engine' = Nothing
    /\ queue' = IF HasRoom THEN Append(queue, engine) ELSE queue
    /\ UNCHANGED <<world, window, caches, writer, drain, poll, left, history>>

----------------------------------------------------------------------------
(* The writer: handleWrite and what it calls. *)

Setting(u, what, value) == [unit |-> u, what |-> what, value |-> value,
                            path |-> Nothing, for |-> Nothing, sync |-> FALSE]
Scoped(r) == [unit |-> r.unit, what |-> "scoped", value |-> Nothing,
              path |-> modeCache[r.unit], for |-> r.for, sync |-> FALSE]

\* The settings of a request.  A numeric fan speed is one Faikin command or two
\* PATCHes.  The path of a scoped setting is fixed here.
SettingsOf(r) ==
    CASE r.item = "hvac" /\ r.value = "off" -> <<Setting(r.unit, "power", "off")>>
      [] r.item = "hvac" /\ r.value # "off" ->
             <<Setting(r.unit, "power", "on"), [Setting(r.unit, "mode", r.value) EXCEPT !.for = r.for]>>
      [] r.item \in {"power", "mode"} -> <<Setting(r.unit, r.item, r.value)>>
      [] r.item = "setpoint" -> <<Scoped(r)>>
      [] r.item = "fan" -> IF r.unit \in Local THEN <<Scoped(r)>> ELSE <<Scoped(r), Scoped(r)>>

\* No mode is known to put into the path.  Faikin's fan command needs none.
LacksMode(r) ==
    /\ modeCache[r.unit] = Nothing
    /\ r.item = "setpoint" \/ (r.item = "fan" /\ r.unit \notin Local)

\* Mode sync follows the hvac item alone.  The power and operation_mode items set
\* one unit, whatever the others do.
SyncOf(r) == IF r.item = "hvac" /\ r.value # "off" THEN r.value ELSE Nothing
Unsynced(r) == r.item = "mode" \/ (r.item = "power" /\ r.value = "on")

\* The next request is taken, or rejected for want of a mode.
Take ==
    /\ writer.at = "idle" /\ queue # <<>> /\ queue' = Tail(queue)
    /\ LET r == Head(queue)
       IN /\ writer' = IF LacksMode(r) THEN Idle
                       ELSE [Idle EXCEPT !.at = "set", !.todo = SettingsOf(r), !.sync = SyncOf(r)]
          /\ excused' = (excused \/ Unsynced(r))
    /\ UNCHANGED <<world, window, caches, engine, drain, poll, left, misled, spoilt>>

\* What a setting does to its unit.  The mode command of a module starts the unit.
CarriedOut(status, s) ==
    CASE s.what = "power" -> [status EXCEPT !.on = s.value = "on"]
      [] s.what = "mode" -> [on |-> status.on \/ s.unit \in Local, mode |-> s.value]
      [] s.what = "scoped" -> status

ThisSetting == Head(writer.todo)
InEffect(s) == CarriedOut(unit[s.unit], s) = unit[s.unit]
HappensTo(s) == unit' = [unit EXCEPT ![s.unit] = CarriedOut(@, s)]
ServedByCloud(s) == s.unit \notin Local

\* groupMembers without the unit itself, once a poll has found the groups.
Peers(u) == IF learnt = "groups" THEN RemoveAt(Members, CHOOSE i \in DOMAIN Members : Members[i] = u) ELSE <<>>
Proceed(todo, peers) ==
    IF todo = <<>> /\ peers = <<>> THEN Idle
    ELSE [writer EXCEPT !.at = IF todo # <<>> THEN "set" ELSE "sync", !.todo = todo, !.peers = peers]

\* setCharacteristic, applySet: a PATCH is answered 204, a publish is accepted.
SetAccepted ==
    /\ writer.at = "set" /\ HappensTo(ThisSetting)
    /\ window' = (window \/ ServedByCloud(ThisSetting))
    /\ writer' = [writer EXCEPT !.at = "note"]
    /\ UNCHANGED <<cloud, told, inbox, caches, queue, engine, drain, poll, left, excused>>
    /\ Account({})

\* A publish with QoS 0 is accepted and never arrives.
SetVanishes ==
    /\ writer.at = "set" /\ ~ServedByCloud(ThisSetting) /\ Event
    /\ writer' = [writer EXCEPT !.at = "note"]
    /\ excused' = TRUE
    /\ UNCHANGED <<world, window, caches, queue, engine, drain, poll, misled, spoilt>>

\* An error: a request ends, but for the second PATCH of a fan speed; a mode sync
\* goes on with the next unit.
GivenUp == IF ThisSetting.sync \/ ThisSetting.what = "scoped"
           THEN Proceed(Tail(writer.todo), writer.peers)
           ELSE Idle
Spoils(s) == spoilt' = [spoilt EXCEPT ![s.unit] = TRUE]

SetRefused ==
    /\ writer.at = "set" /\ Event
    /\ writer' = GivenUp
    /\ Spoils(ThisSetting) /\ excused' = TRUE
    /\ UNCHANGED <<world, window, caches, queue, engine, drain, poll, misled>>

\* The PATCH takes effect, its answer is lost.
AnswerLost ==
    /\ writer.at = "set" /\ ServedByCloud(ThisSetting) /\ Event
    /\ HappensTo(ThisSetting)
    /\ writer' = GivenUp
    /\ Spoils(ThisSetting) /\ excused' = TRUE
    /\ UNCHANGED <<cloud, told, inbox, window, caches, queue, engine, drain, poll>>
    /\ misled' = [misled EXCEPT ![ThisSetting.unit] = ~AgreesNext(ThisSetting.unit)]

\* Mutants of Noted: a write that is not folded into the caches; one whose mode is not.
NotNoted(s) == UNCHANGED <<powerCache, modeCache>>
PowerNoted(s) ==
    /\ powerCache' = IF s.what = "power" THEN [powerCache EXCEPT ![s.unit] = s.value = "on"] ELSE powerCache
    /\ UNCHANGED modeCache

\* noteWrite.
Noted(s) ==
    /\ powerCache' = IF s.what = "power" THEN [powerCache EXCEPT ![s.unit] = s.value = "on"] ELSE powerCache
    /\ modeCache' = IF s.what = "mode" THEN [modeCache EXCEPT ![s.unit] = s.value] ELSE modeCache

\* The settings still to make, then the units to sync.
NoteWrite ==
    /\ writer.at = "note"
    /\ Noted(ThisSetting)
    /\ UNCHANGED <<world, window, lastLocal, learnt, queue, engine, drain, poll, left>>
    /\ LET rest == Tail(writer.todo)
           s == ThisSetting
           syncs == rest = <<>> /\ ~s.sync /\ writer.sync # Nothing /\ Family(writer.sync) # Nothing
       IN /\ writer' = Proceed(rest, IF syncs THEN Peers(s.unit) ELSE writer.peers)
          /\ excused' = (excused \/ (syncs /\ learnt # "groups"))
          /\ misled' = [u \in Units |-> (misled[u] \/ (u = s.unit /\ ~InEffect(s))) /\ ~AgreesNext(u)]
          /\ spoilt' = [u \in Units |-> IF u = s.unit /\ s.what = "mode" /\ s.for # Nothing THEN FALSE
                                        ELSE spoilt[u] \/ modeCache'[u] # modeCache[u]]

\* Mutant of RunsAgainst: power is not asked.
RunsAgainstOff(u, mode) == modeCache[u] # Nothing /\ Against(Family(modeCache[u]), Family(mode))

\* A unit known to run in the opposite direction (powerState, cachedMode).
RunsAgainst(u, mode) ==
    /\ powerCache[u] = TRUE
    /\ modeCache[u] # Nothing /\ Against(Family(modeCache[u]), Family(mode))

\* syncModeToGroup looks at the next unit.  Its two reads of the caches are one
\* step here: a report between them is a report after the first.
SyncPeer ==
    /\ writer.at = "sync"
    /\ LET peer == Head(writer.peers)
           rest == Tail(writer.peers)
       IN /\ writer' = IF RunsAgainst(peer, writer.sync)
                       THEN Proceed(<<[Setting(peer, "mode", writer.sync) EXCEPT !.sync = TRUE]>>, rest)
                       ELSE Proceed(<<>>, rest)
          /\ excused' = \/ excused \/ misled[peer]
                        \/ Nothing \in {powerCache[peer], modeCache[peer]}
    /\ UNCHANGED <<world, window, caches, queue, engine, drain, poll, left, misled, spoilt>>

----------------------------------------------------------------------------
(* The drain and the poll loop. *)

Stale(r) == IF r.status # unit[r.unit] THEN {r.unit} ELSE {}

\* publishLocalState, in two critical sections: lastLocal and the power, ...
StorePower(r) ==
    /\ lastLocal' = [lastLocal EXCEPT ![r.unit] = r.status]
    /\ powerCache' = [powerCache EXCEPT ![r.unit] = r.status.on]
    /\ UNCHANGED <<modeCache, learnt>>

\* ... and the mode, once a poll has learnt the unit.
StoreMode(r) ==
    /\ modeCache' = [modeCache EXCEPT ![r.unit] = r.status.mode]
    /\ UNCHANGED <<powerCache, lastLocal, learnt>>

\* drainLocalStates.
DrainReport(u) ==
    /\ drain = Nothing /\ inbox[u] # Nothing
    /\ StorePower(Report(u, inbox[u]))
    /\ drain' = IF learnt # Nothing THEN Report(u, inbox[u]) ELSE Nothing
    /\ inbox' = [inbox EXCEPT ![u] = Nothing]
    /\ UNCHANGED <<unit, cloud, told, window, queue, engine, writer, poll, left, excused>>
    /\ Account(Stale(Report(u, inbox[u])))

DrainMode ==
    /\ drain # Nothing /\ StoreMode(drain) /\ drain' = Nothing
    /\ UNCHANGED <<world, window, queue, engine, writer, poll, left, excused>>
    /\ Account(Stale(drain))

PollOnly == UNCHANGED <<world, window, queue, engine, writer, drain, left, excused>>

\* GetDevices outside the scan-ignore window.  A poll that is skipped or fails
\* changes nothing here.
PollAnswered ==
    /\ poll.at = "idle" /\ ~window
    /\ poll' = [poll EXCEPT !.at = "answered", !.snap = cloud]
    /\ PollOnly /\ UNCHANGED <<caches, misled, spoilt>>

\* Mutant of FromCloud: every unit takes from the cloud only what it lacks.
FromCloudOnce(old, u, new) == IF old # Nothing THEN old ELSE new

\* A mapped unit takes from the cloud only what it lacks.
FromCloud(old, u, new) == IF u \in Local /\ old # Nothing THEN old ELSE new

\* updateModeCache.
StoreSnapshot ==
    /\ poll.at = "answered"
    /\ powerCache' = [u \in Units |-> FromCloud(powerCache[u], u, poll.snap[u].on)]
    /\ modeCache' = [u \in Units |-> FromCloud(modeCache[u], u, poll.snap[u].mode)]
    /\ learnt' = IF learnt = Nothing THEN "units" ELSE learnt
    /\ poll' = [poll EXCEPT !.at = "stored", !.snap = Nothing]
    /\ PollOnly /\ UNCHANGED lastLocal
    /\ Account({u \in Units : /\ u \in Local => Nothing \in {powerCache[u], modeCache[u]}
                              /\ poll.snap[u] # unit[u]})

\* updateOutdoorGroups, and the copy flushLocalStates makes.
LearnGroups ==
    /\ poll.at = "stored" /\ learnt' = "groups"
    /\ LET copies == {Report(u, lastLocal[u]) : u \in {v \in Local : lastLocal[v] # Nothing}}
       IN poll' = IF copies = {} THEN Asleep ELSE [poll EXCEPT !.at = "replay", !.replay = copies]
    /\ PollOnly /\ UNCHANGED <<powerCache, modeCache, lastLocal, misled, spoilt>>

ReplayPower ==
    /\ poll.at = "replay"
    /\ \E r \in poll.replay :
         /\ StorePower(r)
         /\ poll' = [poll EXCEPT !.at = "mode", !.replay = @ \ {r}, !.one = r]
         /\ PollOnly /\ Account(Stale(r))

ReplayMode ==
    /\ poll.at = "mode" /\ StoreMode(poll.one)
    /\ poll' = IF poll.replay = {} THEN Asleep ELSE [poll EXCEPT !.at = "replay", !.one = Nothing]
    /\ PollOnly /\ Account(Stale(poll.one))

----------------------------------------------------------------------------

World == \E u \in Units : Remote(u) \/ CloudCatchesUp(u)
Producers == (\E r \in Commands : Receive(r)) \/ (\E a \in Actions : Apply(a)) \/ ApplySetpoint
Setter == SetAccepted \/ SetVanishes \/ SetRefused \/ AnswerLost
Writer == Take \/ Setter \/ NoteWrite \/ SyncPeer
Drain == (\E u \in Local : DrainReport(u)) \/ DrainMode
Storing == StoreSnapshot \/ LearnGroups \/ ReplayPower \/ ReplayMode
Polling == PollAnswered \/ Storing

Next == World \/ (\E u \in Local : Reported(u)) \/ WindowEnds \/ Producers \/ Writer \/ Drain \/ Polling

Spec == Init /\ [][Next]_vars

\* The goroutines run, the poll interval and the window pass, modules report what
\* changes, ONECTA learns of it, and not every poll fails.
Fairness ==
    /\ \A u \in Units : WF_vars(CloudCatchesUp(u))
    /\ \A u \in Local : WF_vars(Reported(u)) /\ WF_vars(DrainReport(u))
    /\ WF_vars(WindowEnds) /\ WF_vars(ApplySetpoint) /\ WF_vars(Writer)
    /\ WF_vars(DrainMode) /\ WF_vars(PollAnswered) /\ WF_vars(Storing)

FairSpec == Spec /\ Fairness

----------------------------------------------------------------------------
(* Properties. *)

\* outdoor.go: a unit that is off is never written to by mode sync, because that
\* would start it.  Mode sync chooses such a unit only on a power state that is
\* wrong for a known reason: remote control, a lost setting, or an old report or
\* reading stored over a newer write.
ModeSyncWakesNobody ==
    [][writer.at = "sync" /\ writer'.at = "set" =>
          LET u == writer'.todo[1].unit IN unit[u].on \/ misled[u]]_vars

\* When the commands have been served, no two units run in opposite directions:
\* the last hvac command won, whatever they were and wherever they came from,
\* unless something happened that mode sync does not cover.
OneDirection ==
    queue = <<>> /\ writer.at = "idle" /\ ~excused =>
        \A u, v \in Units : ~Opposed(unit, u, v)

\* schedule.go: the mode of a block is known by the time its setpoint is served, so
\* the setpoint goes to the block's mode unless the cache has moved in between.
SetpointHitsItsBlock ==
    writer.at = "set" /\ ThisSetting.what = "scoped" /\ ThisSetting.for # Nothing =>
        ThisSetting.path = ThisSetting.for \/ spoilt[ThisSetting.unit]

\* The last report of a module has been overwritten by a replay of an older one;
\* the module will not repeat it (see OutdoorEcono).
ReportLost(u) ==
    /\ u \in Local /\ inbox[u] = Nothing /\ drain = Nothing /\ poll.at \notin {"replay", "mode"}
    /\ lastLocal[u] # told[u]

\* However wrong the caches become, reports and polls put them right.
CachesRecover == \A u \in Units : []<>(Agrees(u) \/ ReportLost(u))
=============================================================================
