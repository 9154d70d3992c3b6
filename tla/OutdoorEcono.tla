------------------------------ MODULE OutdoorEcono ------------------------------
(***************************************************************************)
(* Econo of one outdoor unit and powerful of its indoor units, in local     *)
(* mode (internal/coordinator/outdoor.go, local.go, backend.go and          *)
(* handleWrite of coordinator.go).                                          *)
(*                                                                         *)
(* Econo is one knob of the outdoor unit.  A boost (powerful) of any indoor *)
(* unit suspends it for the group and the coordinator restores it when the  *)
(* last boost ends, because the hardware does not.  Three goroutines do the *)
(* work: one drains the reports of the Faikin modules, the poll loop        *)
(* replays the last report of every unit, and the writer serves Home        *)
(* Assistant.  Each access under c.mu, each command and each publication is *)
(* a step of its own.                                                       *)
(*                                                                         *)
(* The house is external: the units, the knob, the remote controls and the  *)
(* modules, which report a unit's status when it has changed.  A boost       *)
(* leaves the reading of econo alone until the coordinator switches it off,  *)
(* as the tests of reconcileEconoSuspend assume.  Powerful written by Home   *)
(* Assistant changes nothing here but the unit: it is a Boost or a Turn.     *)
(***************************************************************************)
EXTENDS Naturals, Sequences

CONSTANTS
    Units,       \* indoor units of the outdoor unit
    QueueSize,   \* capacity of localStates
    MaxEvents,   \* bound: changes in the house, writes and failed commands together
    MaxPolls     \* bound: polls

ASSUME EconoConstants ==
    /\ Units # {} /\ QueueSize \in Nat \ {0}
    /\ MaxEvents \in Nat /\ MaxPolls \in Nat

VARIABLES
    unit,       \* each indoor unit: off, on, or boosting
    knob,       \* the outdoor unit's econo
    told,       \* the last status each module has reported
    queue,      \* localStates: reports not yet drained
    known,      \* a poll has learnt the units (climateEmbedded, outdoorSerial)
    lastLocal, econoLatch, econoSuspend,
    hold,       \* pendingOutdoor of econo
    shown,      \* the econo status item of the group
    job,        \* where each goroutine stands
    left,       \* what is left of each bound
    wanted,     \* history: econo as a person last set it
    disturbed   \* history: something came between that the code does not cover

house == <<unit, knob, told>>
memory == <<known, lastLocal, econoLatch, econoSuspend>>
display == <<hold, shown>>
history == <<wanted, disturbed>>
vars == <<house, queue, memory, display, job, left, history>>

Goroutines == {"drain", "poll", "write"}
Reports == [device : Units, on : BOOLEAN, econo : BOOLEAN, boost : BOOLEAN]
NoHold == [active |-> FALSE, value |-> FALSE, expired |-> FALSE]

\* A goroutine's locals: the unit it works for, the report it renders, those it
\* has yet to replay, the aggregate, the value to write, the units still to
\* command, and whether the command to the first of them went out.
Locals == [at : {"idle", "replay", "aggregate", "reconcile", "command", "note",
                 "hold", "reflect", "clear", "forget", "combine", "resolve", "show"},
           device : Units \cup {"none"}, replay : SUBSET Reports,
           boost : BOOLEAN, value : BOOLEAN, todo : SUBSET Units, written : BOOLEAN]
AtRest == [at |-> "idle", device |-> "none", replay |-> {},
           boost |-> FALSE, value |-> FALSE, todo |-> {}, written |-> FALSE]

TypeOK ==
    /\ unit \in [Units -> {"off", "on", "boost"}] /\ knob \in BOOLEAN
    /\ told \in [Units -> Reports] /\ lastLocal \in [Units -> Reports]
    /\ \A u \in Units : told[u].device = u /\ lastLocal[u].device = u
    /\ queue \in Seq(Reports) /\ Len(queue) <= QueueSize
    /\ known \in BOOLEAN /\ econoLatch \in BOOLEAN /\ shown \in BOOLEAN
    /\ econoSuspend \in [boosting : BOOLEAN, pending : BOOLEAN]
    /\ hold \in [active : BOOLEAN, value : BOOLEAN, expired : BOOLEAN]
    /\ job \in [Goroutines -> Locals]
    /\ wanted \in BOOLEAN /\ disturbed \in BOOLEAN

\* A unit that is off always reads econo off.
Status(u) == [device |-> u, on |-> unit[u] # "off",
              econo |-> unit[u] # "off" /\ knob, boost |-> unit[u] = "boost"]

\* The retained reports came with the subscriptions, before the first poll.  Some
\* unit runs and none boosts.
Init ==
    /\ unit \in [Units -> {"off", "on"}] /\ \E u \in Units : unit[u] = "on"
    /\ knob \in BOOLEAN /\ wanted = knob
    /\ told = [u \in Units |-> Status(u)] /\ queue = <<>> /\ lastLocal = told
    /\ known = FALSE /\ econoLatch = FALSE
    /\ econoSuspend = [boosting |-> FALSE, pending |-> FALSE]
    /\ hold = NoHold /\ shown = FALSE
    /\ job = [g \in Goroutines |-> AtRest]
    /\ left = [events |-> MaxEvents, polls |-> MaxPolls]
    /\ disturbed = FALSE

At(g, place) == job[g].at = place
Idle(g) == At(g, "idle")
Go(g, place) == job' = [job EXCEPT ![g].at = place]
Rest(g) == job' = [job EXCEPT ![g] = AtRest]
Spend(what) == left[what] > 0 /\ left' = [left EXCEPT ![what] = @ - 1]

----------------------------------------------------------------------------
(* The house. *)

Reported(u) == told[u] = Status(u)

\* Everything reported has been taken in, and nobody is at work.
Settled ==
    /\ known /\ queue = <<>>
    /\ \A u \in Units : Reported(u)
    /\ \A g \in Goroutines : Idle(g)

AllOff(units) == \A u \in Units : units[u] = "off"

\* Reports the coordinator has, or has yet to take in.
Underway == {queue[i] : i \in 1..Len(queue)} \cup {lastLocal[u] : u \in Units}
            \cup UNION {job[g].replay : g \in Goroutines}

\* A boost runs, or the coordinator is not yet done with one.
BoostInSight ==
    \/ econoSuspend.boosting
    \/ \E u \in Units : unit[u] = "boost"
    \/ \E r \in Underway : r.boost
    \/ \E g \in {"drain", "poll"} : job[g].boost \/ job[g].at \in {"command", "note"}

\* A unit switched on or off, or out of its boost.  When the last one goes off
\* before its econo was taken in, nobody can know what econo is.
Turn(u, to) ==
    /\ Spend("events") /\ unit[u] # to
    /\ unit' = [unit EXCEPT ![u] = to]
    /\ disturbed' = (disturbed \/ (AllOff(unit') /\ ~Settled))
    /\ UNCHANGED <<knob, told, queue, memory, display, job, wanted>>

\* A boost.  A report that still reads econo on makes the coordinator restore what
\* was off, and a write under way may cross it.
Boost(u) ==
    /\ Spend("events") /\ unit[u] = "on"
    /\ unit' = [unit EXCEPT ![u] = "boost"]
    /\ disturbed' = \/ disturbed \/ ~Idle("write")
                    \/ ~knob /\ \E v \in Units : told[v].econo
    /\ UNCHANGED <<knob, told, queue, memory, display, job, wanted>>

\* A person sets econo on a remote control.
RemoteEcono(u) ==
    /\ Spend("events") /\ unit[u] # "off"
    /\ knob' = ~knob /\ wanted' = ~knob
    /\ disturbed' = (disturbed \/ BoostInSight \/ ~Settled)
    /\ UNCHANGED <<unit, told, queue, memory, display, job>>

\* outdoorHoldDuration, two minutes: longer than any goroutine is at work.
HoldExpires ==
    /\ hold.active /\ ~hold.expired /\ \A g \in Goroutines : Idle(g)
    /\ hold' = [hold EXCEPT !.expired = TRUE]
    /\ UNCHANGED <<house, queue, memory, shown, job, left, history>>

\* The MQTT callback must not block: it drops a report the queue cannot take.
RoomFor == Len(queue) < QueueSize

\* A module publishes the status of its unit; a full queue drops it.
Report(u) ==
    /\ ~Reported(u)
    /\ told' = [told EXCEPT ![u] = Status(u)]
    /\ queue' = IF RoomFor THEN Append(queue, Status(u)) ELSE queue
    /\ disturbed' = (disturbed \/ ~RoomFor)
    /\ UNCHANGED <<unit, knob, memory, display, job, left, wanted>>

----------------------------------------------------------------------------
(* The aggregate of the group. *)

Running == {u \in Units : lastLocal[u].on}

\* Mutant of GroupEcono: a group that is off reads econo off.
GroupEconoForgets == \E u \in Running : lastLocal[u].econo

\* localOutdoorAgg: what a running unit reports, else the latch.
GroupEcono == IF Running = {} THEN econoLatch ELSE \E u \in Running : lastLocal[u].econo
GroupBoost == \E u \in Units : lastLocal[u].boost

----------------------------------------------------------------------------
(* publishLocalState, in the drain and in the poll loop. *)

\* Two goroutines render reports at once.
Crossing(g) == ~Idle(IF g = "drain" THEN "poll" ELSE "drain")

\* publishLocalState first remembers the report as the unit's last.
Remember(g, r, replay) ==
    /\ lastLocal' = [lastLocal EXCEPT ![r.device] = r]
    /\ job' = [job EXCEPT ![g] = [AtRest EXCEPT !.at = "aggregate", !.device = r.device, !.replay = replay]]

\* The report is rendered.
Done(g) == IF job[g].replay = {} THEN Rest(g) ELSE Go(g, "replay")

\* drainLocalStates takes the next report.
Drain ==
    /\ Idle("drain") /\ queue # <<>>
    /\ Remember("drain", Head(queue), {}) /\ queue' = Tail(queue)
    /\ disturbed' = (disturbed \/ Crossing("drain"))
    /\ UNCHANGED <<house, known, econoLatch, econoSuspend, display, left, wanted>>

\* A poll learns the units; flushLocalStates copies the last reports...
Poll ==
    /\ Spend("polls") /\ Idle("poll")
    /\ known' = TRUE
    /\ job' = [job EXCEPT !["poll"].at = "replay", !["poll"].replay = {lastLocal[u] : u \in Units}]
    /\ disturbed' = (disturbed \/ Crossing("poll"))
    /\ UNCHANGED <<house, queue, lastLocal, econoLatch, econoSuspend, display, wanted>>

\* ... and renders them one by one, in any order.
Replay ==
    /\ At("poll", "replay")
    /\ \E r \in job["poll"].replay : Remember("poll", r, job["poll"].replay \ {r})
    /\ UNCHANGED <<house, queue, known, econoLatch, econoSuspend, display, left, history>>

\* Without the unit's embedded id nothing more can be published.
Aggregate(g) ==
    /\ At(g, "aggregate")
    /\ IF known
       THEN /\ econoLatch' = GroupEcono
            /\ job' = [job EXCEPT ![g].at = "reconcile", ![g].boost = GroupBoost,
                                  ![g].value = GroupEcono]
       ELSE Done(g) /\ UNCHANGED econoLatch
    /\ UNCHANGED <<house, queue, known, lastLocal, econoSuspend, display, left, history>>

\* reconcileEconoSuspend: an edge of the group's boost.
GroupEdge(g) == econoSuspend.boosting # job[g].boost

\* Mutant of Pending: a report in the middle of a boost, where econo reads off,
\* forgets what is to be restored.
PendingAnyReport(g) == job[g].boost /\ job[g].value

\* Econo is to be restored if it was on when the boost began.
Pending(g) == IF GroupEdge(g) THEN job[g].boost /\ job[g].value ELSE econoSuspend.pending

\* On the first boost econo is suspended if it was on, on the last it comes back.
Reconcile(g) ==
    /\ At(g, "reconcile")
    /\ LET boost == job[g].boost
           reverses == GroupEdge(g) /\ IF boost THEN job[g].value ELSE econoSuspend.pending
       IN  /\ econoSuspend' = [boosting |-> boost, pending |-> Pending(g)]
           /\ job' = IF reverses
                     THEN [job EXCEPT ![g].at = "command", ![g].value = ~boost,
                                      ![g].boost = FALSE, ![g].todo = Units]
                     ELSE [job EXCEPT ![g].at = "combine", ![g].boost = FALSE]
    /\ UNCHANGED <<house, queue, known, lastLocal, econoLatch, display, left, history>>

----------------------------------------------------------------------------
(* setGroupEcono, and the same steps in handleWrite: a command to every unit, the *)
(* origin's first, then the hold and the optimistic status. *)

Origin(g) == job[g].todo = Units
NextUnit(g) == IF Origin(g) THEN {job[g].device} ELSE job[g].todo

\* Where a goroutine goes once the last unit is served.  Only a write that reached
\* the origin is reflected.
Served(g, todo, written) == IF todo # {} THEN "command" ELSE IF written THEN "hold" ELSE "combine"

\* The command reaches the Faikin broker, and turns the one knob.
Command(g) ==
    /\ At(g, "command")
    /\ \E u \in NextUnit(g) :
         /\ knob' = job[g].value
         /\ job' = [job EXCEPT ![g].at = "note", ![g].todo = @ \ {u}, ![g].written = @ \/ Origin(g)]
    /\ wanted' = IF g = "write" THEN job[g].value ELSE wanted
    /\ UNCHANGED <<unit, told, queue, memory, display, left, disturbed>>

\* The publication fails, which is logged; at the origin it rejects a write of
\* Home Assistant.  Nothing repeats a suspend or a restore that reached no unit.
CommandFails(g) ==
    /\ At(g, "command") /\ Spend("events")
    /\ \E u \in NextUnit(g) :
         LET todo == job[g].todo \ {u}
         IN  IF g = "write" /\ Origin(g) THEN Rest(g)
             ELSE job' = [job EXCEPT ![g].todo = todo, ![g].at = Served(g, todo, job[g].written)]
    /\ disturbed' = (disturbed \/ (job'[g].at = "combine" /\ knob # job[g].value))
    /\ UNCHANGED <<house, queue, memory, display, wanted>>

\* noteWrite: what was written is what holds until a running unit reports.
Noted(g) == job[g].value

Note(g) ==
    /\ At(g, "note")
    /\ econoLatch' = Noted(g)
    /\ Go(g, Served(g, job[g].todo, job[g].written))
    /\ UNCHANGED <<house, queue, known, lastLocal, econoSuspend, display, left, history>>

HoldOutdoor(g) ==
    /\ At(g, "hold")
    /\ hold' = [active |-> TRUE, value |-> job[g].value, expired |-> FALSE]
    /\ Go(g, "reflect")
    /\ UNCHANGED <<house, queue, memory, shown, left, history>>

\* publishOptimistic; a write of econo on then clears the boosts.
Reflect(g) ==
    /\ At(g, "reflect")
    /\ shown' = job[g].value
    /\ IF g # "write" THEN job' = [job EXCEPT ![g].at = "combine", ![g].written = FALSE]
       ELSE IF job[g].value THEN job' = [job EXCEPT ![g].at = "clear", ![g].todo = Units]
       ELSE Rest(g)
    /\ UNCHANGED <<house, queue, memory, hold, left, history>>

----------------------------------------------------------------------------
(* publishOutdoorShared. *)

Combine(g) ==
    /\ At(g, "combine")
    /\ econoLatch' = GroupEcono
    /\ job' = [job EXCEPT ![g].at = "resolve", ![g].value = GroupEcono]
    /\ UNCHANGED <<house, queue, known, lastLocal, econoSuspend, display, left, history>>

\* heldOutdoorValue: the hold ends once it is confirmed or has expired.
Released(raw) == raw = hold.value \/ hold.expired

Resolve(g) ==
    /\ At(g, "resolve")
    /\ LET raw == job[g].value
           held == hold.active /\ ~Released(raw)
       IN  /\ hold' = IF held THEN hold ELSE NoHold
           /\ job' = [job EXCEPT ![g].at = "show", ![g].value = IF held THEN hold.value ELSE raw]
    /\ UNCHANGED <<house, queue, memory, shown, left, history>>

Show(g) ==
    /\ At(g, "show")
    /\ shown' = job[g].value
    /\ Done(g)
    /\ UNCHANGED <<house, queue, memory, hold, left, history>>

----------------------------------------------------------------------------
(* The writer. *)

\* handleWrite of econo, through one of the units the first poll has made known.
\* A report of a running unit rendered after it writes over the latch, which
\* nothing corrects while the group is off.
Write ==
    /\ Spend("events") /\ Idle("write") /\ known
    /\ \E u \in Units, on \in BOOLEAN :
         job' = [job EXCEPT !["write"].at = "command", !["write"].device = u,
                            !["write"].value = on, !["write"].todo = Units]
    /\ disturbed' = (disturbed \/ BoostInSight \/ (AllOff(unit) /\ ~Settled))
    /\ UNCHANGED <<house, queue, memory, display, wanted>>

\* enforceMutualExclusive: powerful off for every unit, the origin first; a
\* failure there ends it.
Clear ==
    /\ At("write", "clear")
    /\ \E u \in NextUnit("write") :
         /\ unit' = [unit EXCEPT ![u] = IF @ = "boost" THEN "on" ELSE @]
         /\ job' = [job EXCEPT !["write"].todo = @ \ {u},
                               !["write"].at = IF job["write"].todo = {u} THEN "forget" ELSE "clear"]
    /\ UNCHANGED <<knob, told, queue, memory, display, left, history>>

ClearFails ==
    /\ At("write", "clear") /\ Spend("events")
    /\ \E u \in NextUnit("write") :
         IF Origin("write") THEN Rest("write")
         ELSE job' = [job EXCEPT !["write"].todo = @ \ {u},
                                 !["write"].at = IF job["write"].todo = {u} THEN "forget" ELSE "clear"]
    /\ UNCHANGED <<house, queue, memory, display, history>>

\* A restore still due is forgotten: econo was just chosen.
Forget ==
    /\ At("write", "forget")
    /\ econoSuspend' = [boosting |-> FALSE, pending |-> FALSE]
    /\ Rest("write")
    /\ UNCHANGED <<house, queue, known, lastLocal, econoLatch, display, left, history>>

----------------------------------------------------------------------------

Render(g) == Aggregate(g) \/ Reconcile(g) \/ Combine(g) \/ Resolve(g) \/ Show(g)
SetEcono(g) == Command(g) \/ CommandFails(g) \/ Note(g) \/ HoldOutdoor(g) \/ Reflect(g)
Exclude == Clear \/ ClearFails \/ Forget

House(u) == (\E to \in {"off", "on"} : Turn(u, to)) \/ Boost(u) \/ RemoteEcono(u) \/ Report(u)

Next ==
    \/ \E u \in Units : House(u)
    \/ HoldExpires
    \/ Drain \/ Poll \/ Replay \/ Write
    \/ \E g \in {"drain", "poll"} : Render(g)
    \/ \E g \in Goroutines : SetEcono(g)
    \/ Exclude

Spec == Init /\ [][Next]_vars

----------------------------------------------------------------------------
(* Properties. *)

Boosting == \E u \in Units : unit[u] = "boost"

\* Once every boost is over and its report taken in, econo is what a person last
\* made it: whatever the units' boosts overlapped or ended with (a switch-off
\* included), through one failed command, with the replays of the polls in between
\* (reconcileEconoSuspend, setGroupEcono).  `disturbed` names what the code leaves
\* open: a drain and a replay at once, a choice made during a boost, a boost
\* started on a status not yet reported, a report lost.
EconoComesBack == (Settled /\ ~Boosting /\ ~disturbed) => knob = wanted

\* What the status shows is the outdoor unit's econo once no hold stands in for it,
\* although units that are off always report econo off (localOutdoorAgg's latch,
\* noteWrite, heldOutdoorValue).
ShownIsInEffect == (Settled /\ ~disturbed /\ ~hold.active) => shown = knob

\* Outdoor.go's promise without its conditions: the last member to leave powerful
\* restores econo.
EconoAlwaysRestored == (Settled /\ ~Boosting) => knob = wanted
=============================================================================
