# Specifications of go-daikin2mqtt

go-daikin2mqtt connects Daikin air conditioners to MQTT and Home Assistant. It polls the ONECTA
cloud, publishes what it reads as retained MQTT items and Home Assistant discovery documents,
turns set messages into cloud PATCH requests or into commands for Faikin modules on the local
network, and carries weekly schedules out. The modules in this directory model the parts of the
daemon whose correctness depends on order, concurrency, failure or arithmetic on the week. Each
module names the source file it is translated from; `PROJECT.json` maps every definition to its
lines.

## The system

One process runs these goroutines:

| goroutine | started in | touches |
|---|---|---|
| poll loop | `coordinator.Run` | cloud client, all caches, discovery plane, connected level, wakes the engine |
| `drainWrites` | `coordinator.Run` | single consumer of the write queue (64 places, drops when full) |
| `drainLocalStates` | `coordinator.Run` | single consumer of Faikin states (64 places, drops when full) |
| `watchUpstream` | `coordinator.Run`, local mode | connected level, every 15 s |
| schedule engine | `main.run` | evaluates the week, enqueues writes |
| web server | `main.run` | cloud client, token source, schedule engine, write queue |
| MQTT lifecycle | go-mqtt | `PublishOnline` on every reconnect |

`daikin2mqtt-util` is a second process that shares the token store.

### Components, their state, and what makes them correct

**ONECTA transport** (`internal/daikin/client`). State: `cloudLock`, the breaker (state, counter,
opening time), `lastPatch`. Operations: `GetDevices`, `Patch`. Callers are the poll loop, the write
queue and the web handlers. Correct when the cloud sees one request at a time, the breaker opens
and closes as its counter says, reads inside the scan-ignore window are prevented or at least
explained, and every call returns. Hard: the scan-ignore check is made before the wait for the
lock, the breaker is checked once per call and not per retry.

**Token source** (`internal/daikin/auth`). State: the token in memory, the token on disk, both
rotating. Operations: `Token`, `Invalidate`, `SetToken`, the code exchange. Correct when a session
survives every interleaving of refreshes, logins and restarts that does not actually lose a token.
Hard: an answer that is lost after the provider has rotated; two processes on one store.

**Weekly schedules** (`internal/schedule`, `internal/web/schedules.go`). State: the document with
its revision (memory and disk), the last action applied per target, the timer. Operations:
evaluate, replace, enable, delete, wake. Correct when the right block wins every slot, the engine
wakes at every switch point, every edit takes effect, and what somebody changes by hand stays for as
long as the schedules ask the same. Hard: a week is a ring, edits land in the middle of an evaluation, restarts, the catch-up
window.

**Discovery plane** (`internal/coordinator/bundle.go`, `runtime.go`, `internal/hass/bundle.go`).
State: the signature committed last, the components published before, the runtime of the current
connection, the generation. Operations: the batch a poll sends, and the reconnect that reopens the
gate. Correct when a closed gate means that the broker holds the documents, and a component that
disappears is marked removed. Hard: reconnects in the middle of a batch, a broker that lost its
store, half a batch, publishes into a dead link; the scheduler's document, which every instance of
the bridge writes, is never read back, and after the last schedule there is none to mark anything in.

**Connected level** (`internal/coordinator/upstream.go`, `coordinator.go`). State: what is known of
the cloud, the Faikin link, the level decided last, the level the broker retains. Operations: a
poll's verdict, the watch, the announcement on connect, the withdrawal on stop. Correct when the
retained level is the decided one, the decided one follows the upstream, and a stopped daemon
leaves 0 behind. Hard: a level is derived before the lock that orders it is taken; a normal
disconnect discards the Last Will.

**Local plane and outdoor groups** (`local.go`, `outdoor.go`, `backend.go`). State: the last Faikin
state per unit, the econo latch, the save and restore of econo around a boost, the optimistic hold.
Correct when econo ends up as the user chose it. Hard: three goroutines decide under the lock and
write outside it; a flush publishes copies of states.

**Write path** (`coordinator.go`, `climate.go`, `schedule.go`, `refresh.go`). State: the write queue,
the mode and power caches, the refresh throttle. Correct when a sequence of commands ends in the
state the last one asked for, mode sync never starts a unit that is off, and the caches recover from
whatever made them wrong. Hard: four goroutines read and write the caches, each in several critical
sections; settings get lost; the cloud's reading lags.

**Retained items** (`runtime.go`, `webstate.go`, `legacy_sweep.go`, `internal/state`). State: what
the broker retains, what the state plane has published, the web UI's mirror. Operations: publish,
publish again on a reconnect, one sweep per process of what earlier versions left. Correct when each
item ends up at the last word of its owner and the sweep takes nothing back that this run has
published (aggregates of a mixed outdoor unit excepted, see below). Hard: three goroutines publish;
the sweep looks at the broker, then at the plane, and clears later.

**Schedule documents** (`internal/schedule/model.go`, `internal/web/schedules.go`). Validation, clean-up
and identification of what is posted. Correct when an accepted block claims the minutes its clocks
name and its signature stands for its writes.

**Entity set** (`internal/process`, `internal/hass`). No state of its own: from an answer of the cloud to
the entities Home Assistant is told of. Correct when it depends on the installation and not on the
order of the answer.

The rest holds no state that orders matter to: payloads and templates (`internal/hass`), parsing
(`model`, `faikin`), configuration and layout (read once), the HTTP plumbing.

## Modules

| module | models | role |
|---|---|---|
| `CloudTurns` | what the transport promises | abstract specification: calls take turns with the cloud |
| `CloudClient` | ONECTA transport | one call = a small process: queue for `cloudLock`, breaker check, attempts; implements `CloudTurns` |
| `CloudClientProofs` | | TLAPS proofs about it, the refinement among them |
| `TokenSourceProofs`, `ConnectedLevelProofs`, `DiscoveryGateProofs`, `WritePathProofs`, `ScheduleEngineProofs`, `OutdoorEconoProofs`, `RetainedItemsProofs` | | TLAPS proofs about the module each is named after; `ScheduleEngineProofs` also about `WeekRing` and `ScheduleDocument`, `ConnectedLevelProofs` also about `ClimateEntity` (see Proofs) |
| `TokenSource` | token source, both processes | one action per step a crash or a lost answer can fall between |
| `WeekRing` | `ring.go`, `model.go` | pure operators: who wins a slot, switch points, segments, conflicts |
| `ScheduleDocument` | `model.go`, the editing half of `web/schedules.go`, what `coordinator/schedule.go` writes | validation, ids, clocks, writes; extends `WeekRing` |
| `ScheduleEngine` | `engine.go`, web handlers | the engine, the editors, time; extends `WeekRing` |
| `DiscoveryGate` | `bundle.go`, `PublishOnline` | one action per access to shared state |
| `ConnectedLevel` | `upstream.go`, `PublishOnline`, stop | one action per critical section |
| `OutdoorEcono` | `outdoor.go`, `local.go`, `backend.go`, the econo write | one action per access under `c.mu`, per command and per publication |
| `WritePath` | `coordinator.go` (`handleWrite`, caches), `schedule.go`, `outdoor.go` (mode sync), `backend.go`, `local.go` | one action per access under `c.mu`, per command and per queue operation |
| `ClimateEntity` | `climate.go` and its local rendering | fan and swing of one unit, cloud and Faikin |
| `RetainedItems` | `runtime.go`, the publishing half of `pollOnce`, `local.go`, `schedule.go`, `legacy_sweep.go`, `state/store.go` | who writes and who clears which item |
| `EntitySet` | `process.go`, `discovery.go`, `hamqtt.go`, `hass/climate.go` | points, unique ids, survivors, the thermostat |
| `MC...` | | small instances for TLC; `MCSessions` holds four modules in independent sessions, with the properties that need its bounded inputs (`NewIdsAreFree`, `EntitiesFollowTheInstallation`) or two of its modules (`ScheduledModesAreServed`) |

How they compose: `ScheduleDocument` and `ScheduleEngine` extend `WeekRing`; the former turns what is
posted into the week the latter's `Winner`, `Resolve` and `NextChange` work on. `CloudClient` implements
`CloudTurns` under the mapping at its end. The others meet at single calls that each module abstracts: a
token request of the client succeeds or fails (`Send`, `Abandon`), a poll of `ConnectedLevel` has one of
four outcomes, a poll of `DiscoveryGate` resolves any of the entity sets, and an application of the engine
is accepted or refused. `WritePath` and `OutdoorEcono` look at the same drain, flush and writer from two
sides, the caches and the econo of the group, as `RetainedItems` looks at what they publish.

### Correspondence to the code

*CloudClient.* `pc[c]` is where the goroutine stands: before the call, waiting for `cloudLock`,
between attempts, in `http.Client.Do`. `attempt` and `refreshed` are the loop's locals. The two
clock comparisons (`lastPatch`, `cbOpenedAt`) are saturating ages. `overtaken` is a history variable
for one property. `Admit` and `ShortCircuit` are the lock and `checkBreaker` in one step, which
`cloudLock` justifies: nobody else runs between them.

*TokenSource.* `holder` is `ts.mu`, which `Token` keeps over its HTTP request, so that a call is the
steps load, refresh, answer, adopt, save. The provider numbers what it issues; a refresh token is
accepted while its number is in `alive`. `lost`, `unsaved` and `foreign` record the causes for which
losing the session is nobody's fault in this process.

*WeekRing.* Clock strings, weekday names and labels are numbers; an action is its power and one
value for everything else it selects.

*ScheduleDocument.* Names and ids are sequences of characters of which only the class matters, clocks are
minutes of the day. `Create`, `Update`, `Enable` and `DeleteSchedule` are the handlers from the posted
body to the saved document (`Save`); a document that does not validate leaves everything as it was. Revisions are
`ScheduleEngine`'s; `on_end`, labels and the time zone are not there.

*ScheduleEngine.* `snap` holds the document and the instant an evaluation works on, `todo` the
targets its loop has not reached. `doc` is what is in memory and on disk: the code saves before it
installs. `timer` and `wake` are the `select` of `Run`. `manual` is a history variable: the targets
changed by hand since the schedules last asked something else of them. An edit or the passing of time
takes a target out of it only if the winning block then has another signature (`Unaltered`), or if an
engine without a record of the target, after a restart, finds itself within the catch-up window.

*DiscoveryGate.* `poll` is `maybePublishDiscovery` with its locals, one value of `at` per read or
write of shared state; `online` is `PublishOnline` likewise. `memo` is the byte-level memory of the
go-hamqtt runtime, one per connection; a batch that holds a replaced runtime keeps its memory in
`oldMemo`. A device for which the entity set has nothing is not in the batch (`Rendered`), the
scheduler without schedules among them. The read-back takes no document of the scheduler (`Owned`),
and of the others those its window sees and whose payload it does not decline: any subset. `forgot[d]`
is a history variable: what the broker retains of `d` may be more than this process knows, because the
read-back did not see or declined it, a reconnect threw the read away, or a write was lost.

*ConnectedLevel.* `poll` and `watch` hold the level `updateConnected` derived before it took
`connMu`. A disconnect and the broker's publication of the Last Will are one step.

*OutdoorEcono.* `job[g]` is where the drain, the poll loop's flush or the writer stands, with the
locals it carries from one critical section to the next. `knob` is the econo of the outdoor unit,
one for the group whichever unit is commanded. `told` is what each Faikin module has reported last;
it reports only changes. `wanted` is econo as a person last set it, `disturbed` records that
something happened which the code does not cover. Publications of values other than econo are left
out, and the taking of a report from the queue is one step with storing it, because nothing else
can see the difference.

*WritePath.* `writer` is `drainWrites` inside `handleWrite`: the settings still to make, the mode to sync,
the units still to look at. `drain` and `poll` stand between the two critical sections of
`publishLocalState`. `misled`, `spoilt` and `excused` are history variables: that a cache is wrong for
a known reason (a remote control, a lost or refused setting, a stale report, a replay or reading stored
over a newer write), that a mode moved since a block's mode was noted, that something happened which
mode sync does not cover. Each cause was found as a counterexample first. Mode sync's two cache reads
are one step. The `power` and `operation_mode` items set one unit without mode sync, as in the code.

*RetainedItems.* Items with the same writers are one item: a unit's own readings, the combined mode, the
aggregates of the outdoor unit, the next schedule change, one no longer published. `pub[p].todo` is
what a goroutine has still to publish; `Observe` and `Send` are the two halves of `publishState`. The
flush copies and stores in one step (their interleaving is `WritePath`'s and `OutdoorEcono`'s).

*ClimateEntity.* `unit` is what the unit does in its current mode, `seen` what was last polled or
reported, `cached` the mode cache. The cloud keeps settings per mode: a change of mode brings up
arbitrary ones. The module's own reading of its words is external. A write without a cached mode is
dropped with a warning, in the code and here.

*EntitySet.* An id is the tuple it is composed of. The catalogue is one entry of each kind that is told
apart: per operation mode, of the outdoor unit, of the gateway, replaced by the thermostat.

## Runs

| run | bounds | shows |
|---|---|---|
| `CloudClient` | 2 readers with 3 attempts, 1 writer, breaker threshold 4, recovery and window 2 ticks | implements `CloudTurns`, breaker and counter, which reads can be stale, open breaker, every call returns |
| `Sessions` | see below | resolver, calendar, documents, signatures; fan and swing; the entity set; the stored token |
| `ScheduleAuto` | the same | *violated*: an accepted block has a mode the write handler does not serve |
| `ScheduleEngine` | 1 target, a day of 4 slots, 2 editors, 2 edits, lag of 1 tick | the engine and its editors |
| `ScheduleSeed` | the same without lag | *violated*: a timer tick seeds |
| `DiscoveryGate` | the documents of 1 unit and of the scheduler, 3 entity sets, 2 reconnects | gate and tombstones |
| `LastSchedule` | the same with 1 reconnect | *violated*: the switch of the last schedule deleted stays live |
| `ConnectedLevel` | the code's threshold (2), 3 losses of a link, crashes or stops, 3 modes | the level |
| `OutdoorEcono` | 2 units, 4 events (switching, boosts, remote econo, writes, failed commands), 2 polls, a queue of 2 | econo survives boosts, the status shows what is in effect |
| `EconoRestore` | 1 unit, 2 events | *violated*: a replayed report suspends econo again and nothing restores it |
| `WritePath` | 1 unit on a module, 1 in the cloud, a queue of 2, 2 events (set messages, blocks, remote controls, lost settings) | one direction, setpoints, mode sync, caches |
| `RetainedItems` | 1 unit on a module, 1 in the cloud, 2 readings, 1 event | sweep, items and mirror |

`Sessions` joins four sessions that share no state, chosen in the initial state. *Editing*: a week of 2
days of 3 slots of 2 minutes, two schedules of up to 2 and 1 blocks out of 6 good and 11 bad indoor
or 6 outdoor ones, names that collide after clean-up. *Climate*: both planes, 2 speeds, 2 operation
modes, any representable settings. *Discovery*: up to two devices on one outdoor unit, with or without
serial numbers and thermostat, in every order of devices and parts, in a mode with and one without a
setpoint. *Token*: 3 callers in 2 processes, 3 tokens.

Why the bounds are enough. In `CloudClient` nothing is bounded: ages and the counter saturate where
the code stops telling values apart, and two readers and a writer give every pair of callers that
can meet. The threshold 4 is one more than a call's attempts, so that failures of different calls
must add up, as with the code's 5 against 3. In `Sessions` two blocks decide every comparison
`beats` makes, and a week of two days has a midnight inside and one at the wrap. `ScheduleEngine`
runs a base programme under an override that ends first, with a gap, a programme that wraps the week
and one that holds all day, past the week's end into its own next start: every branch of
`evaluateTarget` is taken. `MaxLag` bounds how long the engine may be
starved; one tick is enough to cross a slot. `DiscoveryGate` needs one reconnect to race a batch and
a second to race the recovery; its entity sets drop a component of either document, or every schedule,
and it starts over documents that any earlier runs left, of different sets too. In `ScheduleEngine` an edit
that keeps what a target is asked for occurs while the engine sleeps, in the middle of an evaluation and right
after a restart; that the next block asks for the same action does not occur in the instance, and is left to
the proof. `ConnectedLevel` lets three events (losses, crashes, stops) hit one
another. `OutdoorEcono` needs four events for two boosts that overlap and end one after the other,
or a boost, its end and a failing command; the first poll makes the units known and the second
replays reports. Its constraint stops at the first disturbance, after which neither property says
anything. The token session needs one token to lose, one that replaces it and one that replaces that. In `WritePath`
two units are enough for a direction and its opposite, one on each plane because only a mapped one
trusts reports over the cloud; two events make a command cross a block or a remote control. In
`RetainedItems` one event (a change, an edit, a lost link) can fall between any two steps of the three
publishers and the sweep, from a broker that is empty or full of what earlier versions left.

Deadlock is not checked where events are counted and the system may come to rest (`OutdoorEcono`,
`EconoRestore`, `WritePath`, `RetainedItems`); every other module can always take a step.

`EconoComesBack` and `ShownIsInEffect` hold up to `disturbed`, which the actions set in these cases,
each found as a counterexample first: the drain and a flush render at the same time; a report is
dropped by a full queue; a person sets econo (or, through Home Assistant, writes it) while a boost
or its handling is under way, or by remote control before the last report has been taken in; a
boost starts while another unit still reports econo on, or during a write; the last running unit
goes off before its report is taken in, or econo is written between the two; all commands of a
suspend or restore fail. They are limits of the code, not of the model, and `EconoRestore` shows
the first of them.

The four violated properties are statements of comments and documents of the repository; `PROJECT.json`
quotes each and says what the trace shows. The trace of `LastSchedule` is the shortest, in which another
document of the batch happens to fail first; without any failure it is two steps longer.

### Known divergences without a run

Met while modelling; the models contain the behaviour, but no run is spent on it.

- A read that waits for `cloudLock` behind a PATCH goes out inside the scan-ignore window
  (`client.go:206` checks before the wait); `StaleReadWasOvertaken` says which reads.
- A running daemon does not notice an authorization by the utility (`tokensource.go:75` reads the store
  only without a token in memory), against the hint at `coordinator.go:430`.
- A batch that fails half way is forgotten when the next poll resolves the committed entity set again
  (`bundle.go:95`, 119-124).
- The switch of a schedule deleted while the daemon is stopped, or between a reconnect and the next poll, stays
  in Home Assistant: the read-back declines the scheduler's document (`bundle.go:415`). The documents say so of
  the first case (`coordinator.go:853`), not of the second. A device that leaves the entity set altogether
  keeps its document the way the scheduler does.
- `publishHVACModes` (`coordinator.go:567`) publishes the cloud's lagging mode also for units whose module
  has just reported a newer one, until the next report.
- The sweep clears shared aggregates on a unit without a module when a module on its outdoor unit writes them
  (`publishOutdoorShared`, `local.go:355-363`): such a unit counts as served by the cloud, so what an earlier run
  left goes, and a value the module publishes between the sweep's look at the plane and its clear goes as well,
  against `legacy_sweep.go:47` ("this stale path is restricted to the items the cloud poll is the only writer
  of"); the module's next report publishes them again. `LiveItemsStay` names this exception.
- The sweep runs once: if the link is down while it collects, it finds nothing and is spent.
- After the last outdoor schedule is deleted, its two items keep the last block (`schedule.go:351-356`);
  the switch item of a deleted schedule stays retained (286-295).
- `aggregateEnergy` takes equal counters for one meter, so a total can drop (`local.go:528-551`); the outdoor
  temperature of local mode is a maximum from 0 (`local.go:498`), which shows 0 below freezing.
- A manual refresh is throttled by a poll that was skipped or failed (`refresh.go`).
- A replayed report can put an old "on" into the power cache, and mode sync then wakes the unit; this is
  one of the causes in `misled`.
- Choosing a mode without a setpoint (fan only) takes the thermostat out of the entity set
  (`hass/climate.go:204`), as `EntitySet` shows; two zones of one device share one thermostat id.
- `on_end` "off" (`model.go:71-74`) is validated and copied, and nothing acts on it. `Target.Key` ignores
  the embedded id (`docs/schedule-design.md:136-138`), so a second zone is never driven. The documents say
  setpoints of 5 to 35 degrees, the code takes 5 to 60. A new block without an id can take the id of an
  existing block behind it, which is then renamed. A schedule named "Scheduler" is refused as reserved.
- Two swing commands before a report: the second repeats the first axis as it was before
  (`climate.go:408`); `AskedIsShown` excludes exactly this.

### Fairness

`CloudClient`: the clock runs and polls keep coming (weak fairness); a request ends within the
HTTP client's 60 s timeout and a backoff ends (weak); Go's mutex is starvation free, so a caller
that is again and again able to take `cloudLock` does (strong). `ScheduleEngine`: the goroutine runs
and time passes (weak). `ConnectedLevel`: the poll loop digests the answer it has, the 15 s ticker
ticks, `Run` announces (weak); no link is assumed to come back, no poll to be answered. `WritePath` and
`RetainedItems`: each goroutine goes on with what it has begun, polls keep coming, a module reports a
change and the cloud learns of it, a lost link comes back, the window ends (weak). The other modules
make safety statements only and assume nothing.

## Proofs

Eight modules named `...Proofs` hold the proofs about ten. Every theorem holds for all values of the constants
that meet the named assumptions of the module: any callers, units, documents, weeks, thresholds, fan speeds
and queue sizes.

| proofs about | theorems (property) |
|---|---|
| `CloudClient` | `TypeCorrect` (`TypeOK`), `ClientTakesTurns` (`CallsTakeTurns`, a refinement), `CloudSerialized`, `BreakerFollowsCounter` (`BreakerMatchesCounter`), `StaleReadsCharacterised` (`StaleReadWasOvertaken`), `OpenBreakerAdmitsNobody` (`OpenBreakerSendsOnlyRetries`) |
| `TokenSource` | `TokenTypeCorrect` (`TypeOK`), `SessionAlwaysSurvives` (`SessionSurvives`), `RejectedTokenStaysOut` (`RejectedIsNotReused`) |
| `ConnectedLevel` | `LevelTypeCorrect` (`TypeOK`), `LevelFollowsAnswers` (`CloudLevelFollowsAnswers`), `BrokerIsTold` (`BrokerHoldsDecidedLevel`), `StopLeavesOffline` (`StoppedMeansOffline`) |
| `DiscoveryGate` | `GateTypeCorrect` (`TypeOK`), `ClosedGateIsTrue` (`ClosedGateMeansDocuments`), `DroppedIsTombstoned` (`DroppedComponentsAreTombstoned`) |
| `WritePath` | `WriteTypeCorrect` (`TypeOK`), `SyncWakesNobody` (`ModeSyncWakesNobody`), `UnitsAgree` (`OneDirection`), `SetpointFollowsItsBlock` (`SetpointHitsItsBlock`) |
| `ScheduleEngine` | `EngineTypeCorrect` (`TypeOK`), `EngineNeverOversleeps` (`TimerCoversNextSwitch`), `RestsOnTheDocument` (`SettledMatchesDocument`), `ManualChangesSurvive` (`ManualChangeSurvives`), `CarefulEditsKeepOthers` (`CarefulEditKeepsOthers`); of the ring: `WinnerIsBest`, `SwitchPointsAreVisited` |
| `ScheduleDocument` (in `ScheduleEngineProofs`) | `ResolverPicksTheBest` (`ResolvePicksBest`), `TimerVisitsThemAll` (`TimerVisitsEverySwitchPoint`), `SignaturesDecideWrites` (`SignatureDecidesWrites`), `AcceptedBlocksMeanTheirClocks` (`BlocksMeanTheirClocks`), `CalendarAlwaysAgrees` (`CalendarAgrees`) |
| `ClimateEntity` (in `ConnectedLevelProofs`) | `EntityShowsWhatWasAsked` (`AskedIsShown`) |
| `OutdoorEcono` | `EconoTypeCorrect` (its `TypeOK`, which the run leaves to the proof), `EconoIsRestored` (`EconoComesBack`), `StatusTellsTheTruth` (`ShownIsInEffect`) |
| `RetainedItems` | `SweepLeavesTheLive` (`LiveItemsStay`) |

Each proof has the same shape. `IInv` is the type invariant with the facts below; `Init => IInv` and
`IInv /\ [Next]_vars => IInv'` have one case per action, the latter in one lemma per part of `IInv` where the
parts are many; `IInv => Inv` gives the state properties, and the action properties follow from a step that
starts in `IInv`. Lemmas named after a helper say what it does to the state, so that a case cites them and not
the helper's definition. Every theorem about behaviours is about `Spec`, without fairness
and without the constraint of a run; `ClimateEntity` and `ScheduleDocument` are parts of the sessions `Sessions`
checks and have none of their own, so theirs are about `ClimateInit /\ [][ClimateNext]_climateVars` and about
`Stored` (below).

*CloudClient.* `LockInv`: `cloudLock` is held exactly by the caller that is past `checkBreaker`; that one
request is on the wire does not follow from its own truth one step earlier, a second caller could be ready.
`AdmittedInv`: a call on its first attempt has not seen the breaker open since its check, because only the
lock holder can open it, at the price of an attempt. `WindowInv`: a reader queued inside the scan-ignore
window has been overtaken. The refinement maps the callers queued for `cloudLock` to those waiting for a
turn, the lock to the turn, and the holder's attempts, the one on the wire included, to the requests of the
turn. Assumed: callers are disjoint from each other and from the free lock, limits are positive.

*TokenSource.* `IssuedInv`: what is held anywhere was issued. `CallInv` ties a call's token to its process's
memory while it holds `ts.mu`. `FreshInv`: a token just issued is nobody else's and nobody has rejected it.
`DaemonInv`: what the daemon rejected is marked; `ForeignInv`: what another process was issued counts as
foreign until it is saved. `SessionInv` extends `SessionSurvives` to the middle of a call, where memory and
store differ. Assumed: "no token" is no token.

*ConnectedLevel.* `LossesInv` gives every announcement a loss of the link that caused it, `WorkInv` says
which goroutine can work when, `AnswersInv` and `DecisionInv` tie what the poll loop carries towards
`connMu` to what it has last learnt, `OfflineInv` says that after `PublishOffline` only a reconnect's
announcement remains.

*DiscoveryGate.* `MemoInv`: what the go-hamqtt runtime has written since its connection came up is what is
retained. `BatchInv`, `LateInv`, `ClearedInv`: a batch that holds a replaced runtime will be caught by the
generation check, or its reconnect has cleared the gate or is about to. `GateInv` carries the closed gate
through a batch under way, `PriorInv` says where the knowledge of what is retained is, document by document:
loaded, read and not stored yet, or in the batch, and that it is complete for every document not `forgot`.
Assumed: "no document" is no document, every entity set has at least one.

*WritePath.* `ShapeInv`: what is in hand concerns one unit, the mode comes last. `WakeInv`: a unit the
cache calls on is on, or its caches are wrong for a reason in `misled`, or a power setting has still to be
noted. `HvacInv`, `FitInv`, `PeaceInv`: as long as nothing `excused` came between, the settings in hand
are those of one request, the caches are true, and two running units that disagree have the change that
will reconcile them still in hand or among the units mode sync has yet to look at. `BlockInv` follows a
block's setpoint from the engine through the queue. Assumed: "nothing" is none of the values it stands
beside, and a house starts without units that oppose each other.

*ScheduleEngine.* `SnapInv`: an evaluation nobody has woken since works on the document in force.
`DoneInv`: the targets it is done with are on record as its snapshot says. `EditInv`: an editor's revision
was the document's, and as long as it still is, so is its copy. `ManualInv`: what the document in force, and
the snapshot an evaluation under way has yet to apply, ask of a target changed by hand is on record, or there
is no record and the catch-up window has passed. `EditLeavesManual` says that an edit, also one in
the middle of an evaluation, keeps that of the targets it leaves in `manual`. `TimerCoversNextSwitch`
and `SettledMatchesDocument` are themselves parts. They rest on lemmas about the ring for any number of
slots: the winner is the claim of one of the document's blocks (`WinnerIsClaim`), `NextChange` is the
least offset at which the block is another (`NextChangeIs`) and comes nearer by one a slot
(`NextChangeNears`). Beyond what the engine needs, `WinnerIsBest` says of documents of any length who wins a
slot, and `SwitchPointsAreVisited` where the timer stops in any week: `BestSoFar` goes from block to block and from schedule to schedule.
`Winner` is a fold in a fold; `StakeScheduleSteps` and `WinnerSteps` unroll them into the values after
each position, and the inductions over positions use that `<` is well-founded, stated for sets of naturals
(`SetInduction`), because the library's induction rule takes an operator the provers cannot instantiate.
Assumed: the heartbeat is positive and no longer than a week, and the first document and the programmes
are what `Document.Validate` accepts. An attempt at `ManualChangeSurvives` failed with reason: a block
that holds all day into its own next start begins again without a switch point, and an engine that has
just restarted applies it then; TLC confirmed the trace on a programme of that kind. That is why
`Unaltered` asks, of a target without a record, that the catch-up window has passed.

*ScheduleDocument.* `Stored` is every document that begins empty and changes only by the four edits (`Edited`),
with anything posted that the decoder could have built: the fields and types the Go structures give it
(`DecodedSchedule`), valid or not, of any length. The invariant is `Sound`: what is stored is so decoded, and
passes `Validate`. The first half is what makes the second usable, since validation looks into fields it takes
to be there. `EditedIsSound` needs that the ids an edit gives keep the type of a block (`BlocksKeepTypes`,
through the fold of `NormalizeBlockIDs`), and that there is a free id for a new block at all: the lowest free
number exists because finitely many blocks cannot take one more number than they are (`AnIdIsFree`). The five properties then follow from `Sound` (of `CalendarAgrees` the segments and of the switch points all
hold for any week at all). `AcceptedBlocksMeanTheirClocks` turns clocks into slots and back:
each clock lies on the grid, so a minute is named exactly when its slot is reached, and a block of at most a
day reaches a slot from one day (`BlockFits`, `ReachesFromOneDay`). `ResolverPicksTheBest` carries
`WinnerIsBest` over to the claimants as the document has them, the instant a claim began included
(`ClaimantsStake`, `ClaimantsAreClaims`). `SignaturesDecideWrites` goes field by field: a field is in the
signature, absent or with its value, exactly when it is among the writes. `CalendarAlwaysAgrees` follows the
folds slot by slot: `Draws` and `Warns` say what the segments and windows so far have to do with the slots
so far, `OneSlotMore` and `OneWarningMore` that a slot keeps it so, and at the week's end they are the
property; a block that was accepted takes a side exactly if it runs (`WinnerTakesSide`). Assumed beyond the module's own: the
nil claim is none of the claims (`NilIsNoClaim`, a hypothesis of `ResolverPicksTheBest` and
`CalendarAlwaysAgrees`).

*OutdoorEcono.* `LatestInv`: what a module said last is the last of its reports in the queue, or the one
taken in last, so that once the queue is empty the coordinator knows what is so (`SettledReads`).
`ReportInv`, `RenderInv` and `Places` say where a report, a replay and each goroutine can be. `ApartInv`,
`BoostInv` and `StaleInv` keep what the coordinator knows of boosts apart from writes and from readings
older than the boost; `KnobInv`, `OffInv` and `LatchInv` tie the econo of the outdoor unit, the suspended
econo, the reports and the latch to one another and to `wanted`; `ShownInv` carries `ShownIsInEffect`
through the renderings that are under way. Assumed: there is a unit and the queue has a place.

*RetainedItems.* `LiveItemsStay` speaks of what was published between the sweep's looks, so the invariant
follows it there. `SinceInv`: while the clears are under way, what the plane has and had not when the sweep
looked comes from a module or the engine, because the poll loop, in which the sweep runs, publishes nothing then
(`PollInv`) and the other two have only their own items to publish, those in their inbox and on their lists
included (`DrainInv`, `EngineInv`). The clears spare the units with a module and the engine's leaf, and no topic
of 0.13 or of a second daemon is one of this run's items (`TopicsApart`); what remains are the aggregates a
module writes for a unit without one, which the property names. Reconnects publish again what the plane
already has. Assumed: there is a reading, and the readings are not the values of the other items.

*ClimateEntity.* `ClimateInv`: what was asked for and not overtaken is what the unit has now. Each write sends
two aspects in one word or two PATCHes; the invariant holds because the word repeats the other axis from a
report that is still true, or the action itself counts the request as overtaken. `SwingWordIs` and its
neighbours say that the words read back as what was written. Assumed: the numeric speeds are none of the
words for automatic and quiet (`SpeedsAreNumbers`).

What is only model-checked. Liveness (`EveryCallReturns`, `EditsTakeEffect`, `LocalLevelSettles`,
`CachesRecover`, `ItemsSettle`): fairness and ENABLED are out of the prover's reach. Two properties
of `MCSessions` over the bounded inputs of the run `Sessions`: `NewIdsAreFree`, about what `Slug` makes of a text,
a fold over its characters, and the suffix a number is spelt as; and `EntitiesFollowTheInstallation`, over
every order of small installations, which has not been proved: it holds of answers that name each part
once, and the points of an answer are a fold in a fold in a fold.

## Not modelled

Summer time, time zones and the wall clock; rate-limit headers; payloads, templates and entity ids of
documents; coercion and formatting of values; energy sums and demand; presets, floor-heating airflow;
PKCE and the callback server's plumbing; configuration code; the maintenance plane of go-hamqtt; the
orphan sweep of per-entity configurations; econo of groups without Faikin modules. In `OutdoorEcono`:
commands lost by a broker that accepted them, outdoor silent, restarts during a boost (the saved econo
is not persisted, which the tests accept). In `WritePath`: settings of the outdoor unit, the swing axes
(`ClimateEntity`), a local unit whose mode the module does not know. In `RetainedItems`: failing polls,
the optimistic publication of a write, the outdoor schedule pair and the schedule switches.

## Plan

1. Proofs: the agreement of plane, broker and mirror in `RetainedItems` while the link is up.
2. An abstract "register that follows its source" for `ConnectedLevel`, with a refinement mapping proved.
3. The cloud's own econo reconciliation for groups without Faikin modules; the coercion of written values.
