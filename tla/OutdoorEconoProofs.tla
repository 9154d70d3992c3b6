-------------------------- MODULE OutdoorEconoProofs --------------------------
(***************************************************************************)
(* Proofs about OutdoorEcono, for any number of units and any bounds: its    *)
(* types, and what it promises of the knob and of the status.               *)
(*                                                                         *)
(* The argument, for runs in which nothing disturbs: reports keep their      *)
(* order, so that once all is settled what is remembered is the house        *)
(* (LatestInv, SettledReads); the drain and a replay never render at once,   *)
(* and nobody writes while a boost is in sight (RenderInv, ApartInv), so      *)
(* that the coordinator's idea of the boosts is the reports' (BoostInv); a   *)
(* boost that begins while econo is unwanted meets no stale reading of econo *)
(* on (StaleInv), so that only a wanted econo is ever suspended, and the knob *)
(* differs from the wanted econo only while its restore is due (KnobInv).     *)
(* The latch is what running units report or what was last written          *)
(* (LatchInv), and with every unit off it remembers the knob (OffInv); what   *)
(* is shown is the latch, or a hold that stands in for it (ShownInv).        *)
(***************************************************************************)
EXTENDS OutdoorEcono, TLAPS

Renderers == {"drain", "poll"}

(***************************************************************************)
(* The steps, field by field.                                               *)
(***************************************************************************)

\* The one goroutine that moves, and what its locals become.
Moved(g, at, replay, boost, value, todo, written) ==
    /\ job' \in [Goroutines -> Locals]
    /\ \A h \in Goroutines : h # g => job'[h] = job[h]
    /\ job'[g].at = at /\ job'[g].replay = replay /\ job'[g].todo = todo
    /\ (job'[g].boost <=> boost) /\ (job'[g].value <=> value) /\ (job'[g].written <=> written)

Stops(g) == Moved(g, "idle", {}, FALSE, FALSE, {}, FALSE)
Goes(g, at) == Moved(g, at, job[g].replay, job[g].boost, job[g].value, job[g].todo, job[g].written)
Finishes(g) == IF job[g].replay = {} THEN Stops(g) ELSE Goes(g, "replay")

\* Only the unit u is changed, to be s.
Becomes(u, s) == unit'[u] = s /\ \A v \in Units : v # u => unit'[v] = unit[v]

\* Only the report remembered of r's unit is changed.
Recalls(r) == lastLocal'[r.device] = r /\ \A v \in Units : v # r.device => lastLocal'[v] = lastLocal[v]

\* The queue has n reports.
Holds(n) == Len(queue) = n /\ n \in Nat /\ DOMAIN queue = 1..n

Turned(u, to) ==
    /\ unit[u] # to /\ Becomes(u, to)
    /\ ~disturbed' => ~disturbed /\ (AllOff(unit') => Settled)
    /\ UNCHANGED <<knob, told, queue, known, lastLocal, econoLatch, econoSuspend, hold, shown,
                    job, wanted>>
Boosted(u) ==
    /\ unit[u] = "on" /\ Becomes(u, "boost")
    /\ ~disturbed' => ~disturbed /\ Idle("write") /\ (knob \/ \A v \in Units : ~told[v].econo)
    /\ UNCHANGED <<knob, told, queue, known, lastLocal, econoLatch, econoSuspend, hold, shown,
                    job, wanted>>
Chosen(u) ==
    /\ unit[u] # "off" /\ (knob' <=> ~knob) /\ (wanted' <=> ~knob)
    /\ ~disturbed' => ~disturbed /\ ~BoostInSight /\ Settled
    /\ UNCHANGED <<unit, told, queue, known, lastLocal, econoLatch, econoSuspend, hold, shown, job>>
Expires ==
    /\ hold.active /\ \A g \in Goroutines : Idle(g)
    /\ hold'.active = TRUE /\ hold'.value = hold.value /\ hold'.expired = TRUE
    /\ UNCHANGED <<unit, knob, told, queue, known, lastLocal, econoLatch, econoSuspend, shown,
                    job, wanted, disturbed>>
Told(u) ==
    /\ told'[u] = Status(u) /\ \A v \in Units : v # u => told'[v] = told[v]
    /\ ~disturbed' =>
         /\ ~disturbed
         /\ \E n \in Nat : /\ Holds(n) /\ Holds(n + 1)'
                           /\ queue'[n + 1] = Status(u) /\ \A i \in 1..n : queue'[i] = queue[i]
    /\ UNCHANGED <<unit, knob, known, lastLocal, econoLatch, econoSuspend, hold, shown, job,
                    wanted>>
Drained ==
    /\ Idle("drain")
    /\ \E r \in Reports, n \in Nat :
         /\ Holds(n + 1) /\ Holds(n)' /\ r = queue[1] /\ \A i \in 1..n : queue'[i] = queue[i + 1]
         /\ Recalls(r)
    /\ Moved("drain", "aggregate", {}, FALSE, FALSE, {}, FALSE)
    /\ ~disturbed' => ~disturbed /\ Idle("poll")
    /\ UNCHANGED <<unit, knob, told, known, econoLatch, econoSuspend, hold, shown, wanted>>
Polled ==
    /\ Idle("poll") /\ known' = TRUE
    /\ Moved("poll", "replay", {lastLocal[u] : u \in Units}, job["poll"].boost, job["poll"].value,
             job["poll"].todo, job["poll"].written)
    /\ ~disturbed' => ~disturbed /\ Idle("drain")
    /\ UNCHANGED <<unit, knob, told, queue, lastLocal, econoLatch, econoSuspend, hold, shown,
                    wanted>>
Replayed ==
    /\ At("poll", "replay")
    /\ \E r \in job["poll"].replay :
         /\ r \in Reports /\ Recalls(r)
         /\ Moved("poll", "aggregate", job["poll"].replay \ {r}, FALSE, FALSE, {}, FALSE)
    /\ UNCHANGED <<unit, knob, told, queue, known, econoLatch, econoSuspend, hold, shown, wanted,
                    disturbed>>
Begins ==
    /\ Idle("write") /\ known
    /\ \E on \in BOOLEAN : Moved("write", "command", job["write"].replay, job["write"].boost, on,
                    Units, job["write"].written)
    /\ job'["write"].device \in Units
    /\ ~disturbed' => ~disturbed /\ ~BoostInSight /\ (AllOff(unit) => Settled)
    /\ UNCHANGED <<unit, knob, told, queue, known, lastLocal, econoLatch, econoSuspend, hold,
                    shown, wanted>>
Aggregated(g) ==
    /\ At(g, "aggregate")
    /\ IF known THEN /\ econoLatch' <=> GroupEcono
                     /\ Moved(g, "reconcile", job[g].replay, GroupBoost, GroupEcono, job[g].todo,
                             job[g].written)
                ELSE Finishes(g) /\ econoLatch' = econoLatch
    /\ UNCHANGED <<unit, knob, told, queue, known, lastLocal, econoSuspend, hold, shown, wanted,
                    disturbed>>
Reconciled(g) ==
    /\ At(g, "reconcile")
    /\ econoSuspend'.boosting <=> job[g].boost
    /\ econoSuspend'.pending <=> Pending(g)
    /\ IF GroupEdge(g) /\ IF job[g].boost THEN job[g].value ELSE econoSuspend.pending
       THEN Moved(g, "command", job[g].replay, FALSE, ~job[g].boost, Units, job[g].written)
       ELSE Moved(g, "combine", job[g].replay, FALSE, job[g].value, job[g].todo, job[g].written)
    /\ UNCHANGED <<unit, knob, told, queue, known, lastLocal, econoLatch, hold, shown, wanted,
                    disturbed>>
Commanded(g) ==
    /\ At(g, "command")
    /\ \E u \in NextUnit(g) : Moved(g, "note", job[g].replay, job[g].boost, job[g].value,
                    job[g].todo \ {u},
                                    job[g].written \/ job[g].todo = Units)
    /\ knob' = job[g].value
    /\ wanted' = IF g = "write" THEN job[g].value ELSE wanted
    /\ UNCHANGED <<unit, told, queue, known, lastLocal, econoLatch, econoSuspend, hold, shown,
                    disturbed>>
Failed(g) ==
    /\ At(g, "command")
    /\ \E u \in NextUnit(g) :
         IF g = "write" /\ job[g].todo = Units THEN Stops(g)
         ELSE Moved(g, Served(g, job[g].todo \ {u}, job[g].written), job[g].replay, job[g].boost,
                    job[g].value, job[g].todo \ {u}, job[g].written)
    /\ ~disturbed' => ~disturbed /\ (job'[g].at = "combine" => knob = job[g].value)
    /\ UNCHANGED <<unit, knob, told, queue, known, lastLocal, econoLatch, econoSuspend, hold,
                    shown, wanted>>
Notes(g) ==
    /\ At(g, "note") /\ econoLatch' = job[g].value
    /\ Goes(g, Served(g, job[g].todo, job[g].written))
    /\ UNCHANGED <<unit, knob, told, queue, known, lastLocal, econoSuspend, hold, shown, wanted,
                    disturbed>>
HoldsBack(g) ==
    /\ At(g, "hold") /\ Goes(g, "reflect")
    /\ hold'.active = TRUE /\ hold'.value = job[g].value /\ hold'.expired = FALSE
    /\ UNCHANGED <<unit, knob, told, queue, known, lastLocal, econoLatch, econoSuspend, shown,
                    wanted, disturbed>>
Reflects(g) ==
    /\ At(g, "reflect") /\ shown' = job[g].value
    /\ IF g # "write"
       THEN Moved(g, "combine", job[g].replay, job[g].boost, job[g].value, job[g].todo, FALSE)
       ELSE IF job[g].value
            THEN Moved(g, "clear", job[g].replay, job[g].boost, job[g].value, Units, job[g].written)
            ELSE Stops(g)
    /\ UNCHANGED <<unit, knob, told, queue, known, lastLocal, econoLatch, econoSuspend, hold,
                    wanted, disturbed>>
Combined(g) ==
    /\ At(g, "combine") /\ (econoLatch' <=> GroupEcono)
    /\ Moved(g, "resolve", job[g].replay, job[g].boost, GroupEcono, job[g].todo, job[g].written)
    /\ UNCHANGED <<unit, knob, told, queue, known, lastLocal, econoSuspend, hold, shown, wanted,
                    disturbed>>
Resolved(g) ==
    /\ At(g, "resolve")
    /\ IF hold.active /\ ~Released(job[g].value)
       THEN hold' = hold /\ Moved(g, "show", job[g].replay, job[g].boost, hold.value,
                    job[g].todo, job[g].written)
       ELSE hold'.active = FALSE /\ Goes(g, "show")
    /\ UNCHANGED <<unit, knob, told, queue, known, lastLocal, econoLatch, econoSuspend, shown,
                    wanted, disturbed>>
Displays(g) ==
    /\ At(g, "show") /\ shown' = job[g].value /\ Finishes(g)
    /\ UNCHANGED <<unit, knob, told, queue, known, lastLocal, econoLatch, econoSuspend, hold,
                    wanted, disturbed>>
Proceeds == \E u \in NextUnit("write"), at \in {"clear", "forget"} :
    Moved("write", at, job["write"].replay, job["write"].boost, job["write"].value,
                    job["write"].todo \ {u}, job["write"].written)
Cleared ==
    /\ At("write", "clear") /\ Proceeds
    /\ \A v \in Units : unit'[v] = unit[v] \/ (unit[v] = "boost" /\ unit'[v] = "on")
    /\ UNCHANGED <<knob, told, queue, known, lastLocal, econoLatch, econoSuspend, hold, shown,
                    wanted, disturbed>>
ClearFailed ==
    /\ At("write", "clear") /\ (Stops("write") \/ Proceeds)
    /\ UNCHANGED <<unit, knob, told, queue, known, lastLocal, econoLatch, econoSuspend, hold,
                    shown, wanted, disturbed>>
Forgotten ==
    /\ At("write", "forget") /\ Stops("write")
    /\ econoSuspend'.boosting = FALSE /\ econoSuspend'.pending = FALSE
    /\ UNCHANGED <<unit, knob, told, queue, known, lastLocal, econoLatch, hold, shown, wanted,
                    disturbed>>

\* Replacing the locals of one goroutine keeps the type of all.
LEMMA Replaced ==
  ASSUME job \in [Goroutines -> Locals], NEW g \in Goroutines, NEW l \in Locals,
         job' = [job EXCEPT ![g] = l]
  PROVE  /\ job' \in [Goroutines -> Locals] /\ job'[g] = l
         /\ \A h \in Goroutines : h # g => job'[h] = job[h]
  OBVIOUS


\* A goroutine that rests has nothing left in its locals.
LEMMA RestStops ==
  ASSUME job \in [Goroutines -> Locals], NEW g \in Goroutines, Rest(g)
  PROVE  Stops(g)
  <1>1. AtRest \in Locals
    BY DEF AtRest, Locals
  <1>2. /\ AtRest.at = "idle" /\ AtRest.replay = {} /\ AtRest.todo = {} /\ AtRest.boost = FALSE
        /\ AtRest.value = FALSE /\ AtRest.written = FALSE
    BY DEF AtRest
  <1> QED
    BY <1>1, <1>2, Replaced DEF Rest, Stops, Moved

\* A goroutine that only moves on keeps its locals.
LEMMA GoGoes ==
  ASSUME job \in [Goroutines -> Locals], NEW g \in Goroutines, NEW at \in {"idle", "replay",
                    "aggregate", "reconcile", "command", "note",
                     "hold", "reflect", "clear", "forget", "combine", "resolve", "show"},
         Go(g, at)
  PROVE  Goes(g, at)
  <1>f. /\ job[g] \in Locals
        /\ job[g].device \in Units \cup {"none"} /\ job[g].replay \in SUBSET Reports
        /\ job[g].boost \in BOOLEAN /\ job[g].value \in BOOLEAN /\ job[g].todo \in SUBSET Units
        /\ job[g].written \in BOOLEAN
    BY DEF Locals
  <1> DEFINE l == [job[g] EXCEPT !.at = at]
  <1>1a. l \in Locals
    BY <1>f DEF Locals
  <1>1b. /\ l.at = at /\ l.replay = job[g].replay /\ l.todo = job[g].todo
         /\ l.boost = job[g].boost /\ l.value = job[g].value /\ l.written = job[g].written
    BY <1>f DEF Locals
  <1>1. job' = [job EXCEPT ![g] = l]
    BY <1>f DEF Go
  <1> HIDE DEF l
  <1>1m. Moved(g, at, job[g].replay, job[g].boost, job[g].value, job[g].todo, job[g].written)
    BY <1>1, <1>1a, <1>1b, Replaced DEF Moved
  <1> QED
    BY <1>1m DEF Goes

\* A rendered report is followed by the next replayed one.
LEMMA DoneFinishes ==
  ASSUME TypeOK, NEW g \in Goroutines, Done(g)
  PROVE  Finishes(g)
  <1>1. job \in [Goroutines -> Locals]
    BY DEF TypeOK
  <1>2. CASE job[g].replay = {}
    BY <1>1, <1>2, RestStops DEF Done, Finishes
  <1>3. CASE job[g].replay # {}
    BY <1>1, <1>3, GoGoes DEF Done, Finishes
  <1> QED
    BY <1>2, <1>3

\* A unit is turned off or on.
LEMMA TurnDoes ==
  ASSUME TypeOK, NEW u \in Units, NEW to \in {"off", "on"}, Turn(u, to)
  PROVE  Turned(u, to)
  <1>1. Becomes(u, to)
    BY DEF TypeOK, Turn, Becomes
  <1> QED
    BY <1>1 DEF Turn, Turned, At, Idle, house, memory, display, history

\* A boost.
LEMMA BoostDoes ==
  ASSUME TypeOK, NEW u \in Units, Boost(u)
  PROVE  Boosted(u)
  <1>1. Becomes(u, "boost")
    BY DEF TypeOK, Boost, Becomes
  <1>2. ~disturbed' => ~disturbed /\ Idle("write") /\ (knob \/ \A v \in Units : ~told[v].econo)
    BY DEF Boost
  <1> QED
    BY <1>1, <1>2 DEF Boost, Boosted, At, Idle, house, memory, display, history

\* Econo set on a remote control.
LEMMA RemoteDoes ==
  ASSUME TypeOK, NEW u \in Units, RemoteEcono(u)
  PROVE  Chosen(u)
  <1>1. /\ knob' = ~knob /\ wanted' = ~knob
    BY DEF RemoteEcono
  <1>2. (knob' <=> ~knob) /\ (wanted' <=> ~knob)
    BY <1>1
  <1> QED
    BY <1>2 DEF RemoteEcono, Chosen, At, Idle, house, memory, display, history

\* The hold runs out.
LEMMA HoldExpiresDoes ==
  ASSUME TypeOK, HoldExpires
  PROVE  Expires
  <1>1. hold'.active = TRUE /\ hold'.value = hold.value /\ hold'.expired = TRUE
    BY DEF HoldExpires, TypeOK
  <1> QED
    BY <1>1 DEF HoldExpires, Expires, At, Idle, house, memory, display, history

\* What a module says of its unit is a report of it.
LEMMA StatusType ==
  ASSUME TypeOK, NEW u \in Units
  PROVE  /\ Status(u) \in Reports /\ Status(u).device = u
         /\ (Status(u).on <=> unit[u] # "off") /\ (Status(u).econo <=> unit[u] # "off" /\ knob)
         /\ (Status(u).boost <=> unit[u] = "boost")
  BY DEF TypeOK, Status, Reports

\* A module reports.
LEMMA ReportDoes ==
  ASSUME TypeOK, NEW u \in Units, Report(u)
  PROVE  Told(u)
  <1>1. told'[u] = Status(u) /\ \A v \in Units : v # u => told'[v] = told[v]
    BY DEF TypeOK, Report
  <1>2. ASSUME ~disturbed'
        PROVE  /\ ~disturbed
               /\ \E n \in Nat : /\ Holds(n) /\ Holds(n + 1)'
                                 /\ queue'[n + 1] = Status(u) /\ \A i \in 1..n : queue'[i] = queue[i]
    <2>1. ~disturbed /\ queue' = Append(queue, Status(u))
      BY <1>2 DEF Report
    <2>2. queue \in Seq(Reports) /\ Status(u) \in Reports
      BY StatusType DEF TypeOK
    <2>n. PICK n \in Nat : n = Len(queue)
      BY <2>2
    <2>3. Len(queue) = n /\ Len(queue') = n + 1 /\ DOMAIN queue = 1..n /\ DOMAIN queue' = 1..(n + 1)
      BY <2>1, <2>2, <2>n
    <2>4. queue'[n + 1] = Status(u) /\ \A i \in 1..n : queue'[i] = queue[i]
      BY <2>1, <2>2, <2>3
    <2> QED
      BY <2>1, <2>3, <2>4 DEF Holds
  <1> QED
    BY <1>1, <1>2 DEF Report, Told, At, Idle, house, memory, display, history

\* A report remembered is the last of its unit.
LEMMA Remembered ==
  ASSUME TypeOK, NEW g \in Goroutines, NEW r \in Reports, NEW replay \in SUBSET Reports,
         Remember(g, r, replay)
  PROVE  /\ Recalls(r) /\ Moved(g, "aggregate", replay, FALSE, FALSE, {}, FALSE)
         /\ lastLocal' \in [Units -> Reports] /\ \A u \in Units : lastLocal'[u].device = u
  <1>0. /\ job \in [Goroutines -> Locals] /\ r.device \in Units
        /\ lastLocal \in [Units -> Reports] /\ \A u \in Units : lastLocal[u].device = u
    BY DEF TypeOK, Reports
  <1> DEFINE l == [AtRest EXCEPT !.at = "aggregate", !.device = r.device, !.replay = replay]
  <1>1a. l \in Locals
    BY <1>0 DEF AtRest, Locals
  <1>1b. /\ l.at = "aggregate" /\ l.replay = replay /\ l.todo = {} /\ l.boost = FALSE
         /\ l.value = FALSE /\ l.written = FALSE
    BY DEF AtRest
  <1>1. job' = [job EXCEPT ![g] = l]
    BY DEF Remember
  <1> HIDE DEF l
  <1>2. Moved(g, "aggregate", replay, FALSE, FALSE, {}, FALSE)
    BY <1>0, <1>1, <1>1a, <1>1b, Replaced DEF Moved
  <1>3. /\ Recalls(r) /\ lastLocal' \in [Units -> Reports] /\ \A u \in Units : lastLocal'[u].device = u
    BY <1>0 DEF Remember, Recalls
  <1> QED
    BY <1>2, <1>3

\* The queue after its head is taken.
LEMMA Dequeued ==
  ASSUME TypeOK, queue # <<>>, queue' = Tail(queue)
  PROVE  /\ queue' \in Seq(Reports) /\ Len(queue') <= QueueSize
         /\ \E r \in Reports, n \in Nat :
              /\ Holds(n + 1) /\ Holds(n)' /\ r = queue[1] /\ r = Head(queue)
              /\ \A i \in 1..n : queue'[i] = queue[i + 1]
  <1>1. queue \in Seq(Reports) /\ Len(queue) <= QueueSize /\ QueueSize \in Nat
    BY EconoConstants DEF TypeOK
  <1>0. PICK n \in Nat : n = Len(queue) - 1
    BY <1>1
  <1>2. Len(queue) = n + 1 /\ DOMAIN queue = 1..(n + 1)
    BY <1>0, <1>1
  <1>3. Len(queue') = n /\ DOMAIN queue' = 1..n /\ queue' \in Seq(Reports)
    BY <1>1, <1>2
  <1>4. \A i \in 1..n : queue'[i] = queue[i + 1]
    BY <1>1, <1>2
  <1>5. queue[1] \in Reports /\ Head(queue) = queue[1]
    BY <1>1, <1>2
  <1>6. Holds(n + 1) /\ Holds(n)'
    BY <1>2, <1>3 DEF Holds
  <1>7. Len(queue') <= QueueSize
    BY <1>1, <1>2, <1>3
  <1> QED
    BY <1>2, <1>3, <1>4, <1>5, <1>6, <1>7

\* The drain takes a report in.
LEMMA DrainDoes ==
  ASSUME TypeOK, Drain
  PROVE  Drained
  <1>1. queue # <<>> /\ queue' = Tail(queue) /\ Remember("drain", Head(queue), {})
    BY DEF Drain
  <1>2. PICK r \in Reports, n \in Nat :
          /\ Holds(n + 1) /\ Holds(n)' /\ r = queue[1] /\ r = Head(queue)
          /\ \A i \in 1..n : queue'[i] = queue[i + 1]
    BY <1>1, Dequeued
  <1>0. "drain" \in Goroutines /\ {} \in SUBSET Reports /\ Remember("drain", r, {})
    BY <1>1, <1>2 DEF Goroutines
  <1>3. Recalls(r) /\ Moved("drain", "aggregate", {}, FALSE, FALSE, {}, FALSE)
    BY <1>0, Remembered
  <1>4. ~disturbed' => ~disturbed /\ Idle("poll")
    BY DEF Drain, Crossing
  <1> QED
    BY <1>2, <1>3, <1>4 DEF Drain, Drained, At, Idle, house, memory, display, history

\* A poll learns the units and begins a replay.
LEMMA PollDoes ==
  ASSUME TypeOK, Poll
  PROVE  Polled
  <1>t. /\ job \in [Goroutines -> Locals] /\ "drain" \in Goroutines /\ "poll" \in Goroutines
        /\ "write" \in Goroutines
    BY DEF TypeOK, Goroutines
  <1>f. /\ job["poll"] \in Locals
        /\ job["poll"].device \in Units \cup {"none"} /\ job["poll"].replay \in SUBSET Reports
        /\ job["poll"].boost \in BOOLEAN /\ job["poll"].value \in BOOLEAN
        /\ job["poll"].todo \in SUBSET Units
        /\ job["poll"].written \in BOOLEAN
    BY <1>t DEF Locals, Goroutines, Renderers
  <1>r. {lastLocal[u] : u \in Units} \in SUBSET Reports
    BY DEF TypeOK
  <1> DEFINE l == [job["poll"] EXCEPT !.at = "replay", !.replay = {lastLocal[u] : u \in Units}]
  <1>1a. l \in Locals
    BY <1>t, <1>f, <1>r DEF Locals
  <1>1b. /\ l.at = "replay" /\ l.replay = {lastLocal[u] : u \in Units}
         /\ l.todo = job["poll"].todo /\ l.boost = job["poll"].boost
         /\ l.value = job["poll"].value /\ l.written = job["poll"].written
    BY <1>t, <1>f, <1>r DEF Locals
  <1>1. job' = [job EXCEPT !["poll"] = l]
    BY <1>t, <1>f, <1>r DEF Poll
  <1> HIDE DEF l
  <1>1m. Moved("poll", "replay", {lastLocal[u] : u \in Units}, job["poll"].boost,
                    job["poll"].value, job["poll"].todo, job["poll"].written)
    BY <1>1, <1>1a, <1>1b, <1>t, Replaced DEF Moved
  <1>2. ~disturbed' => ~disturbed /\ Idle("drain")
    BY DEF Poll, Crossing
  <1>3. known' = TRUE
    BY DEF Poll
  <1> QED
    BY <1>1m, <1>2, <1>3 DEF Poll, Polled, At, Idle, house, memory, display, history

\* One of the reports a poll copied is rendered.
LEMMA ReplayDoes ==
  ASSUME TypeOK, Replay
  PROVE  Replayed
  <1>1. PICK r \in job["poll"].replay : Remember("poll", r, job["poll"].replay \ {r})
    BY DEF Replay
  <1>2. job["poll"].replay \in SUBSET Reports
    BY DEF TypeOK, Locals, Goroutines
  <1> DEFINE rest == job["poll"].replay \ {r}
  <1>0. "poll" \in Goroutines /\ rest \in SUBSET Reports /\ r \in Reports /\ Remember("poll", r,
                    rest)
    BY <1>1, <1>2 DEF Goroutines
  <1> HIDE DEF rest
  <1>3. Recalls(r) /\ Moved("poll", "aggregate", rest, FALSE, FALSE, {}, FALSE)
    BY <1>0, Remembered
  <1> QED
    BY <1>0, <1>1, <1>2, <1>3 DEF rest, Replay, Replayed, At, Idle, house, memory, display, history

\* A write of econo begins.
LEMMA WriteDoes ==
  ASSUME TypeOK, Write
  PROVE  Begins
  <1>t. /\ job \in [Goroutines -> Locals] /\ "drain" \in Goroutines /\ "poll" \in Goroutines
        /\ "write" \in Goroutines
    BY DEF TypeOK, Goroutines
  <1>f. /\ job["write"] \in Locals
        /\ job["write"].device \in Units \cup {"none"} /\ job["write"].replay \in SUBSET Reports
        /\ job["write"].boost \in BOOLEAN /\ job["write"].value \in BOOLEAN
        /\ job["write"].todo \in SUBSET Units
        /\ job["write"].written \in BOOLEAN
    BY <1>t DEF Locals, Goroutines, Renderers
  <1>w. PICK u \in Units, on \in BOOLEAN :
          job' = [job EXCEPT !["write"].at = "command", !["write"].device = u,
                             !["write"].value = on, !["write"].todo = Units]
    BY DEF Write
  <1> DEFINE l == [job["write"] EXCEPT !.at = "command", !.device = u, !.value = on, !.todo = Units]
  <1>1a. l \in Locals
    BY <1>t, <1>f, <1>w DEF Locals
  <1>1b. /\ l.at = "command" /\ l.replay = job["write"].replay /\ l.todo = Units
         /\ l.boost = job["write"].boost /\ l.value = on /\ l.written = job["write"].written
    BY <1>t, <1>f, <1>w DEF Locals
  <1>1. job' = [job EXCEPT !["write"] = l]
    BY <1>t, <1>f, <1>w DEF Write
  <1>d. l.device = u
    OBVIOUS
  <1> HIDE DEF l
  <1>1m. Moved("write", "command", job["write"].replay, job["write"].boost, on, Units,
                    job["write"].written)
    BY <1>1, <1>1a, <1>1b, <1>t, Replaced DEF Moved
  <1>e. job'["write"].device \in Units
    BY <1>1, <1>1a, <1>d, <1>t, Replaced
  <1> QED
    BY <1>1m, <1>e DEF Write, Begins, At, Idle, house, memory, display, history

\* The aggregate is a Boolean.
LEMMA AggregateType ==
  ASSUME TypeOK
  PROVE  GroupEcono \in BOOLEAN /\ GroupBoost \in BOOLEAN
  BY DEF TypeOK, GroupEcono, GroupBoost, Running

\* The aggregate of the group.
LEMMA AggregateDoes ==
  ASSUME TypeOK, NEW g \in Renderers, Aggregate(g)
  PROVE  Aggregated(g)
  <1>t. /\ g \in Goroutines /\ job \in [Goroutines -> Locals] /\ "drain" \in Goroutines
        /\ "poll" \in Goroutines
        /\ "write" \in Goroutines
    BY DEF TypeOK, Goroutines, Renderers
  <1>f. /\ job[g] \in Locals
        /\ job[g].device \in Units \cup {"none"} /\ job[g].replay \in SUBSET Reports
        /\ job[g].boost \in BOOLEAN /\ job[g].value \in BOOLEAN /\ job[g].todo \in SUBSET Units
        /\ job[g].written \in BOOLEAN
    BY <1>t DEF Locals, Goroutines, Renderers
  <1>b. GroupEcono \in BOOLEAN /\ GroupBoost \in BOOLEAN
    BY AggregateType
  <1>k. CASE known
    <2>0. econoLatch' = GroupEcono
      BY <1>k DEF Aggregate
    <2> DEFINE l == [job[g] EXCEPT !.at = "reconcile", !.boost = GroupBoost, !.value = GroupEcono]
    <2>1a. l \in Locals
      BY <1>t, <1>f, <1>k, <1>b DEF Locals
    <2>1b. /\ l.at = "reconcile" /\ l.replay = job[g].replay /\ l.todo = job[g].todo
           /\ l.boost = GroupBoost /\ l.value = GroupEcono /\ l.written = job[g].written
      BY <1>t, <1>f, <1>k, <1>b DEF Locals
    <2>1. job' = [job EXCEPT ![g] = l]
      BY <1>t, <1>f, <1>k, <1>b DEF Aggregate
    <2> HIDE DEF l
    <2>1m. Moved(g, "reconcile", job[g].replay, GroupBoost, GroupEcono, job[g].todo, job[g].written)
      BY <2>1, <2>1a, <2>1b, <1>t, Replaced DEF Moved
    <2> QED
      BY <1>k, <2>0, <2>1m DEF Aggregate, Aggregated, At, Idle, house, memory, display, history
  <1>n. CASE ~known
    <2>1. Finishes(g)
      BY <1>t, <1>n, DoneFinishes DEF Aggregate
    <2> QED
      BY <1>n, <2>1 DEF Aggregate, Aggregated, At, Idle, house, memory, display, history
  <1> QED
    BY <1>k, <1>n

\* The group's boost is compared with the last seen one.
LEMMA ReconcileDoes ==
  ASSUME TypeOK, NEW g \in Renderers, Reconcile(g)
  PROVE  Reconciled(g)
  <1>t. /\ g \in Goroutines /\ job \in [Goroutines -> Locals] /\ "drain" \in Goroutines
        /\ "poll" \in Goroutines
        /\ "write" \in Goroutines
    BY DEF TypeOK, Goroutines, Renderers
  <1>f. /\ job[g] \in Locals
        /\ job[g].device \in Units \cup {"none"} /\ job[g].replay \in SUBSET Reports
        /\ job[g].boost \in BOOLEAN /\ job[g].value \in BOOLEAN /\ job[g].todo \in SUBSET Units
        /\ job[g].written \in BOOLEAN
    BY <1>t DEF Locals, Goroutines, Renderers
  <1> DEFINE reverses == GroupEdge(g) /\ IF job[g].boost THEN job[g].value ELSE econoSuspend.pending
  <1>a. /\ econoSuspend' = [boosting |-> job[g].boost, pending |-> Pending(g)]
        /\ job' = IF reverses
                  THEN [job EXCEPT ![g].at = "command", ![g].value = ~job[g].boost,
                                   ![g].boost = FALSE, ![g].todo = Units]
                  ELSE [job EXCEPT ![g].at = "combine", ![g].boost = FALSE]
    BY DEF Reconcile
  <1>b. (econoSuspend'.boosting <=> job[g].boost) /\ (econoSuspend'.pending <=> Pending(g))
    BY <1>a
  <1> HIDE DEF reverses
  <1>r. CASE reverses
    <2> DEFINE l == [job[g] EXCEPT !.at = "command", !.boost = FALSE, !.value = ~job[g].boost,
                    !.todo = Units]
    <2>1a. l \in Locals
      BY <1>t, <1>f, <1>a, <1>r DEF Locals
    <2>1b. /\ l.at = "command" /\ l.replay = job[g].replay /\ l.todo = Units /\ l.boost = FALSE
           /\ l.value = ~job[g].boost /\ l.written = job[g].written
      BY <1>t, <1>f, <1>a, <1>r DEF Locals
    <2>1. job' = [job EXCEPT ![g] = l]
      BY <1>t, <1>f, <1>a, <1>r
    <2> HIDE DEF l
    <2>1m. Moved(g, "command", job[g].replay, FALSE, ~job[g].boost, Units, job[g].written)
      BY <2>1, <2>1a, <2>1b, <1>t, Replaced DEF Moved
    <2> QED
      BY <1>b, <1>r, <2>1m
         DEF Reconcile, Reconciled, reverses, At, Idle, house, memory, display, history
  <1>n. CASE ~reverses
    <2> DEFINE l == [job[g] EXCEPT !.at = "combine", !.boost = FALSE]
    <2>1a. l \in Locals
      BY <1>t, <1>f, <1>a, <1>n DEF Locals
    <2>1b. /\ l.at = "combine" /\ l.replay = job[g].replay /\ l.todo = job[g].todo
           /\ l.boost = FALSE /\ l.value = job[g].value /\ l.written = job[g].written
      BY <1>t, <1>f, <1>a, <1>n DEF Locals
    <2>1. job' = [job EXCEPT ![g] = l]
      BY <1>t, <1>f, <1>a, <1>n
    <2> HIDE DEF l
    <2>1m. Moved(g, "combine", job[g].replay, FALSE, job[g].value, job[g].todo, job[g].written)
      BY <2>1, <2>1a, <2>1b, <1>t, Replaced DEF Moved
    <2> QED
      BY <1>b, <1>n, <2>1m
         DEF Reconcile, Reconciled, reverses, At, Idle, house, memory, display, history
  <1> QED
    BY <1>r, <1>n

\* A command reaches its unit.
LEMMA CommandDoes ==
  ASSUME TypeOK, NEW g \in Goroutines, Command(g)
  PROVE  Commanded(g)
  <1>t. /\ job \in [Goroutines -> Locals] /\ "drain" \in Goroutines /\ "poll" \in Goroutines
        /\ "write" \in Goroutines
    BY DEF TypeOK, Goroutines
  <1>f. /\ job[g] \in Locals
        /\ job[g].device \in Units \cup {"none"} /\ job[g].replay \in SUBSET Reports
        /\ job[g].boost \in BOOLEAN /\ job[g].value \in BOOLEAN /\ job[g].todo \in SUBSET Units
        /\ job[g].written \in BOOLEAN
    BY <1>t DEF Locals, Goroutines, Renderers
  <1>u. PICK u \in NextUnit(g) :
          /\ knob' = job[g].value
          /\ job' = [job EXCEPT ![g].at = "note", ![g].todo = @ \ {u},
                    ![g].written = @ \/ Origin(g)]
    BY DEF Command
  <1> DEFINE l == [job[g] EXCEPT !.at = "note", !.todo = job[g].todo \ {u},
                    !.written = (job[g].written \/ job[g].todo = Units)]
  <1>1a. l \in Locals
    BY <1>t, <1>f, <1>u DEF Locals
  <1>1b. /\ l.at = "note" /\ l.replay = job[g].replay /\ l.todo = job[g].todo \ {u} /\ l.boost = job[g].boost
         /\ l.value = job[g].value /\ l.written = (job[g].written \/ job[g].todo = Units)
    BY <1>t, <1>f, <1>u DEF Locals
  <1>1. job' = [job EXCEPT ![g] = l]
    BY <1>t, <1>f, <1>u DEF Command, Origin
  <1> HIDE DEF l
  <1>1m. Moved(g, "note", job[g].replay, job[g].boost, job[g].value, job[g].todo \ {u},
                    (job[g].written \/ job[g].todo = Units))
    BY <1>1, <1>1a, <1>1b, <1>t, Replaced DEF Moved
  <1> QED
    BY <1>u, <1>1m DEF Command, Commanded, At, Idle, house, memory, display, history

\* A command fails.
LEMMA CommandFailsDoes ==
  ASSUME TypeOK, NEW g \in Goroutines, CommandFails(g)
  PROVE  Failed(g)
  <1>t. /\ job \in [Goroutines -> Locals] /\ "drain" \in Goroutines /\ "poll" \in Goroutines
        /\ "write" \in Goroutines
    BY DEF TypeOK, Goroutines
  <1>f. /\ job[g] \in Locals
        /\ job[g].device \in Units \cup {"none"} /\ job[g].replay \in SUBSET Reports
        /\ job[g].boost \in BOOLEAN /\ job[g].value \in BOOLEAN /\ job[g].todo \in SUBSET Units
        /\ job[g].written \in BOOLEAN
    BY <1>t DEF Locals, Goroutines, Renderers
  <1>u. PICK u \in NextUnit(g) :
          IF g = "write" /\ Origin(g) THEN Rest(g)
          ELSE job' = [job EXCEPT ![g].todo = job[g].todo \ {u},
                                  ![g].at = Served(g, job[g].todo \ {u}, job[g].written)]
    BY DEF CommandFails
  <1>1. IF g = "write" /\ job[g].todo = Units THEN Stops(g)
        ELSE Moved(g, Served(g, job[g].todo \ {u}, job[g].written), job[g].replay, job[g].boost,
                   job[g].value, job[g].todo \ {u}, job[g].written)
    <2>1. CASE g = "write" /\ job[g].todo = Units
      BY <1>t, <1>u, <2>1, RestStops DEF Origin
    <2>n. CASE ~(g = "write" /\ job[g].todo = Units)
      <3>b. Served(g, job[g].todo \ {u}, job[g].written) \in {"command", "hold", "combine"}
        BY DEF Served
      <3> DEFINE l == [job[g] EXCEPT !.at = Served(g, job[g].todo \ {u}, job[g].written),
                    !.todo = job[g].todo \ {u}]
      <3>1a. l \in Locals
        BY <1>t, <1>f, <1>u, <2>n, <3>b DEF Locals
      <3>1b. /\ l.at = Served(g, job[g].todo \ {u}, job[g].written) /\ l.replay = job[g].replay
             /\ l.todo = job[g].todo \ {u} /\ l.boost = job[g].boost /\ l.value = job[g].value
             /\ l.written = job[g].written
        BY <1>t, <1>f, <1>u, <2>n, <3>b DEF Locals
      <3>1. job' = [job EXCEPT ![g] = l]
        BY <1>t, <1>f, <1>u, <2>n, <3>b DEF Origin
      <3> HIDE DEF l
      <3>1m. Moved(g, Served(g, job[g].todo \ {u}, job[g].written), job[g].replay, job[g].boost,
                    job[g].value, job[g].todo \ {u}, job[g].written)
        BY <3>1, <3>1a, <3>1b, <1>t, Replaced DEF Moved
      <3> QED
        BY <2>n, <3>1m
    <2> QED
      BY <2>1, <2>n
  <1>2. ~disturbed' => ~disturbed /\ (job'[g].at = "combine" => knob = job[g].value)
    BY DEF CommandFails
  <1> QED
    BY <1>u, <1>1, <1>2 DEF CommandFails, Failed, At, Idle, house, memory, display, history

\* What was written is noted.
LEMMA NoteDoes ==
  ASSUME TypeOK, NEW g \in Goroutines, Note(g)
  PROVE  Notes(g)
  <1>1. Go(g, Served(g, job[g].todo, job[g].written)) /\ econoLatch' = job[g].value
    BY DEF Note, Noted
  <1>2. Served(g, job[g].todo, job[g].written) \in {"command", "hold", "combine"}
    BY DEF Served
  <1>3. Goes(g, Served(g, job[g].todo, job[g].written))
    BY <1>1, <1>2, GoGoes DEF TypeOK
  <1> QED
    BY <1>1, <1>3 DEF Note, Notes, At, Idle, house, memory, display, history

\* What was written is held.
LEMMA HoldOutdoorDoes ==
  ASSUME TypeOK, NEW g \in Goroutines, HoldOutdoor(g)
  PROVE  HoldsBack(g)
  <1>1. Goes(g, "reflect")
    BY GoGoes DEF TypeOK, HoldOutdoor
  <1>2. hold'.active = TRUE /\ hold'.value = job[g].value /\ hold'.expired = FALSE
    BY DEF HoldOutdoor
  <1> QED
    BY <1>1, <1>2 DEF HoldOutdoor, HoldsBack, At, Idle, house, memory, display, history

\* What was written is shown.
LEMMA ReflectDoes ==
  ASSUME TypeOK, NEW g \in Goroutines, Reflect(g)
  PROVE  Reflects(g)
  <1>t. /\ job \in [Goroutines -> Locals] /\ "drain" \in Goroutines /\ "poll" \in Goroutines
        /\ "write" \in Goroutines
    BY DEF TypeOK, Goroutines
  <1>f. /\ job[g] \in Locals
        /\ job[g].device \in Units \cup {"none"} /\ job[g].replay \in SUBSET Reports
        /\ job[g].boost \in BOOLEAN /\ job[g].value \in BOOLEAN /\ job[g].todo \in SUBSET Units
        /\ job[g].written \in BOOLEAN
    BY <1>t DEF Locals, Goroutines, Renderers
  <1>r. CASE g # "write"
    <2> DEFINE l == [job[g] EXCEPT !.at = "combine", !.written = FALSE]
    <2>1a. l \in Locals
      BY <1>t, <1>f, <1>r DEF Locals
    <2>1b. /\ l.at = "combine" /\ l.replay = job[g].replay /\ l.todo = job[g].todo
           /\ l.boost = job[g].boost /\ l.value = job[g].value /\ l.written = FALSE
      BY <1>t, <1>f, <1>r DEF Locals
    <2>1. job' = [job EXCEPT ![g] = l]
      BY <1>t, <1>f, <1>r DEF Reflect
    <2> HIDE DEF l
    <2>1m. Moved(g, "combine", job[g].replay, job[g].boost, job[g].value, job[g].todo, FALSE)
      BY <2>1, <2>1a, <2>1b, <1>t, Replaced DEF Moved
    <2> QED
      BY <1>r, <2>1m DEF Reflect, Reflects, At, Idle, house, memory, display, history
  <1>c. CASE g = "write" /\ job[g].value
    <2> DEFINE l == [job[g] EXCEPT !.at = "clear", !.todo = Units]
    <2>1a. l \in Locals
      BY <1>t, <1>f, <1>c DEF Locals
    <2>1b. /\ l.at = "clear" /\ l.replay = job[g].replay /\ l.todo = Units
           /\ l.boost = job[g].boost /\ l.value = job[g].value /\ l.written = job[g].written
      BY <1>t, <1>f, <1>c DEF Locals
    <2>1. job' = [job EXCEPT ![g] = l]
      BY <1>t, <1>f, <1>c DEF Reflect
    <2> HIDE DEF l
    <2>1m. Moved(g, "clear", job[g].replay, job[g].boost, job[g].value, Units, job[g].written)
      BY <2>1, <2>1a, <2>1b, <1>t, Replaced DEF Moved
    <2> QED
      BY <1>c, <2>1m DEF Reflect, Reflects, At, Idle, house, memory, display, history
  <1>s. CASE g = "write" /\ ~job[g].value
    <2>1. Stops(g)
      BY <1>t, <1>s, RestStops DEF Reflect
    <2> QED
      BY <1>s, <2>1 DEF Reflect, Reflects, At, Idle, house, memory, display, history
  <1> QED
    BY <1>r, <1>c, <1>s

\* The shared status is computed.
LEMMA CombineDoes ==
  ASSUME TypeOK, NEW g \in Renderers, Combine(g)
  PROVE  Combined(g)
  <1>t. /\ g \in Goroutines /\ job \in [Goroutines -> Locals] /\ "drain" \in Goroutines
        /\ "poll" \in Goroutines
        /\ "write" \in Goroutines
    BY DEF TypeOK, Goroutines, Renderers
  <1>f. /\ job[g] \in Locals
        /\ job[g].device \in Units \cup {"none"} /\ job[g].replay \in SUBSET Reports
        /\ job[g].boost \in BOOLEAN /\ job[g].value \in BOOLEAN /\ job[g].todo \in SUBSET Units
        /\ job[g].written \in BOOLEAN
    BY <1>t DEF Locals, Goroutines, Renderers
  <1>b. GroupEcono \in BOOLEAN
    BY AggregateType
  <1>0. econoLatch' = GroupEcono
    BY DEF Combine
  <1> DEFINE l == [job[g] EXCEPT !.at = "resolve", !.value = GroupEcono]
  <1>1a. l \in Locals
    BY <1>t, <1>f, <1>b DEF Locals
  <1>1b. /\ l.at = "resolve" /\ l.replay = job[g].replay /\ l.todo = job[g].todo
         /\ l.boost = job[g].boost /\ l.value = GroupEcono /\ l.written = job[g].written
    BY <1>t, <1>f, <1>b DEF Locals
  <1>1. job' = [job EXCEPT ![g] = l]
    BY <1>t, <1>f, <1>b DEF Combine
  <1> HIDE DEF l
  <1>1m. Moved(g, "resolve", job[g].replay, job[g].boost, GroupEcono, job[g].todo, job[g].written)
    BY <1>1, <1>1a, <1>1b, <1>t, Replaced DEF Moved
  <1> QED
    BY <1>0, <1>1m DEF Combine, Combined, At, Idle, house, memory, display, history

\* The hold, or the status itself.
LEMMA ResolveDoes ==
  ASSUME TypeOK, NEW g \in Renderers, Resolve(g)
  PROVE  Resolved(g)
  <1>t. /\ g \in Goroutines /\ job \in [Goroutines -> Locals] /\ "drain" \in Goroutines
        /\ "poll" \in Goroutines
        /\ "write" \in Goroutines
    BY DEF TypeOK, Goroutines, Renderers
  <1>f. /\ job[g] \in Locals
        /\ job[g].device \in Units \cup {"none"} /\ job[g].replay \in SUBSET Reports
        /\ job[g].boost \in BOOLEAN /\ job[g].value \in BOOLEAN /\ job[g].todo \in SUBSET Units
        /\ job[g].written \in BOOLEAN
    BY <1>t DEF Locals, Goroutines, Renderers
  <1>v. hold.value \in BOOLEAN
    BY DEF TypeOK
  <1>h. CASE hold.active /\ ~Released(job[g].value)
    <2>0. hold' = hold
      BY <1>h DEF Resolve
    <2> DEFINE l == [job[g] EXCEPT !.at = "show", !.value = hold.value]
    <2>1a. l \in Locals
      BY <1>t, <1>f, <1>v, <1>h DEF Locals
    <2>1b. /\ l.at = "show" /\ l.replay = job[g].replay /\ l.todo = job[g].todo
           /\ l.boost = job[g].boost /\ l.value = hold.value /\ l.written = job[g].written
      BY <1>t, <1>f, <1>v, <1>h DEF Locals
    <2>1. job' = [job EXCEPT ![g] = l]
      BY <1>t, <1>f, <1>v, <1>h DEF Resolve, NoHold, Released
    <2> HIDE DEF l
    <2>1m. Moved(g, "show", job[g].replay, job[g].boost, hold.value, job[g].todo, job[g].written)
      BY <2>1, <2>1a, <2>1b, <1>t, Replaced DEF Moved
    <2> QED
      BY <1>h, <2>0, <2>1m DEF Resolve, Resolved, At, Idle, house, memory, display, history
  <1>r. CASE ~(hold.active /\ ~Released(job[g].value))
    <2>0. hold'.active = FALSE
      BY <1>r DEF Resolve, NoHold
    <2> DEFINE l == [job[g] EXCEPT !.at = "show"]
    <2>1a. l \in Locals
      BY <1>t, <1>f, <1>v, <1>r DEF Locals
    <2>1b. /\ l.at = "show" /\ l.replay = job[g].replay /\ l.todo = job[g].todo
           /\ l.boost = job[g].boost /\ l.value = job[g].value /\ l.written = job[g].written
      BY <1>t, <1>f, <1>v, <1>r DEF Locals
    <2>1. job' = [job EXCEPT ![g] = l]
      BY <1>t, <1>f, <1>v, <1>r DEF Resolve, NoHold, Released
    <2> HIDE DEF l
    <2>1m. Moved(g, "show", job[g].replay, job[g].boost, job[g].value, job[g].todo, job[g].written)
      BY <2>1, <2>1a, <2>1b, <1>t, Replaced DEF Moved
    <2> QED
      BY <1>r, <2>0, <2>1m DEF Resolve, Resolved, Goes, At, Idle, house, memory, display, history
  <1> QED
    BY <1>h, <1>r

\* The status is shown.
LEMMA ShowDoes ==
  ASSUME TypeOK, NEW g \in Renderers, Show(g)
  PROVE  Displays(g)
  <1>1. Finishes(g)
    BY DoneFinishes DEF Show, Goroutines, Renderers
  <1> QED
    BY <1>1 DEF Show, Displays, At, Idle, house, memory, display, history

\* A boost is cleared.
LEMMA ClearDoes ==
  ASSUME TypeOK, Clear
  PROVE  Cleared
  <1>t. /\ job \in [Goroutines -> Locals] /\ "drain" \in Goroutines /\ "poll" \in Goroutines
        /\ "write" \in Goroutines
    BY DEF TypeOK, Goroutines
  <1>f. /\ job["write"] \in Locals
        /\ job["write"].device \in Units \cup {"none"} /\ job["write"].replay \in SUBSET Reports
        /\ job["write"].boost \in BOOLEAN /\ job["write"].value \in BOOLEAN
        /\ job["write"].todo \in SUBSET Units
        /\ job["write"].written \in BOOLEAN
    BY <1>t DEF Locals, Goroutines, Renderers
  <1>u. PICK u \in NextUnit("write") :
          /\ unit' = [unit EXCEPT ![u] = IF @ = "boost" THEN "on" ELSE @]
          /\ job' = [job EXCEPT !["write"].todo = @ \ {u},
                                !["write"].at = IF job["write"].todo = {u} THEN "forget" ELSE "clear"]
    BY DEF Clear
  <1>w. PICK at \in {"clear", "forget"} : at = IF job["write"].todo = {u} THEN "forget" ELSE "clear"
    OBVIOUS
  <1> DEFINE l == [job["write"] EXCEPT !.at = at, !.todo = job["write"].todo \ {u}]
  <1>1a. l \in Locals
    BY <1>t, <1>f, <1>u, <1>w DEF Locals
  <1>1b. /\ l.at = at /\ l.replay = job["write"].replay /\ l.todo = job["write"].todo \ {u}
         /\ l.boost = job["write"].boost /\ l.value = job["write"].value
         /\ l.written = job["write"].written
    BY <1>t, <1>f, <1>u, <1>w DEF Locals
  <1>1. job' = [job EXCEPT !["write"] = l]
    BY <1>t, <1>f, <1>u, <1>w
  <1> HIDE DEF l
  <1>1m. Moved("write", at, job["write"].replay, job["write"].boost, job["write"].value,
                    job["write"].todo \ {u}, job["write"].written)
    BY <1>1, <1>1a, <1>1b, <1>t, Replaced DEF Moved
  <1>2. \A v \in Units : unit'[v] = unit[v] \/ (unit[v] = "boost" /\ unit'[v] = "on")
    BY <1>u DEF TypeOK
  <1>3. Proceeds
    BY <1>u, <1>w, <1>1m DEF Proceeds
  <1> QED
    BY <1>2, <1>3 DEF Clear, Cleared, At, Idle, house, memory, display, history

\* Clearing a boost fails.
LEMMA ClearFailsDoes ==
  ASSUME TypeOK, ClearFails
  PROVE  ClearFailed
  <1>t. /\ job \in [Goroutines -> Locals] /\ "drain" \in Goroutines /\ "poll" \in Goroutines
        /\ "write" \in Goroutines
    BY DEF TypeOK, Goroutines
  <1>f. /\ job["write"] \in Locals
        /\ job["write"].device \in Units \cup {"none"} /\ job["write"].replay \in SUBSET Reports
        /\ job["write"].boost \in BOOLEAN /\ job["write"].value \in BOOLEAN
        /\ job["write"].todo \in SUBSET Units
        /\ job["write"].written \in BOOLEAN
    BY <1>t DEF Locals, Goroutines, Renderers
  <1>o. CASE Origin("write")
    <2>1. Rest("write")
      BY <1>o DEF ClearFails
    <2>2. Stops("write")
      BY <1>t, <2>1, RestStops
    <2> QED
      BY <2>2 DEF ClearFails, ClearFailed, At, Idle, house, memory, display, history
  <1>n. CASE ~Origin("write")
    <2>u. PICK u \in NextUnit("write") :
            job' = [job EXCEPT !["write"].todo = @ \ {u},
                               !["write"].at = IF job["write"].todo = {u} THEN "forget" ELSE "clear"]
      BY <1>n DEF ClearFails
    <2>w. PICK at \in {"clear", "forget"} : at = IF job["write"].todo = {u} THEN "forget" ELSE "clear"
      OBVIOUS
    <2> DEFINE l == [job["write"] EXCEPT !.at = at, !.todo = job["write"].todo \ {u}]
    <2>1a. l \in Locals
      BY <1>t, <1>f, <1>n, <2>u, <2>w DEF Locals
    <2>1b. /\ l.at = at /\ l.replay = job["write"].replay /\ l.todo = job["write"].todo \ {u}
           /\ l.boost = job["write"].boost /\ l.value = job["write"].value
           /\ l.written = job["write"].written
      BY <1>t, <1>f, <1>n, <2>u, <2>w DEF Locals
    <2>1. job' = [job EXCEPT !["write"] = l]
      BY <1>t, <1>f, <1>n, <2>u, <2>w
    <2> HIDE DEF l
    <2>1m. Moved("write", at, job["write"].replay, job["write"].boost, job["write"].value,
                    job["write"].todo \ {u}, job["write"].written)
      BY <2>1, <2>1a, <2>1b, <1>t, Replaced DEF Moved
    <2>3. Proceeds
      BY <2>u, <2>w, <2>1m DEF Proceeds
    <2> QED
      BY <2>3 DEF ClearFails, ClearFailed, At, Idle, house, memory, display, history
  <1> QED
    BY <1>o, <1>n

\* A restore still due is forgotten.
LEMMA ForgetDoes ==
  ASSUME TypeOK, Forget
  PROVE  Forgotten
  <1>1. Stops("write")
    BY RestStops DEF TypeOK, Forget, Goroutines
  <1>2. econoSuspend'.boosting = FALSE /\ econoSuspend'.pending = FALSE
    BY DEF Forget
  <1> QED
    BY <1>1, <1>2 DEF Forget, Forgotten, At, Idle, house, memory, display, history

\* Every step, field by field.
Does ==
    \/ \E u \in Units : \E to \in {"off", "on"} : Turned(u, to)
    \/ \E u \in Units : Boosted(u) \/ Chosen(u) \/ Told(u)
    \/ Expires \/ Drained \/ Polled \/ Replayed \/ Begins
    \/ \E g \in Renderers : Aggregated(g) \/ Reconciled(g) \/ Combined(g) \/ Resolved(g) \/ Displays(g)
    \/ \E g \in Goroutines : Commanded(g) \/ Failed(g) \/ Notes(g) \/ HoldsBack(g) \/ Reflects(g)
    \/ Cleared \/ ClearFailed \/ Forgotten

\* A step does what the lemmas above say of its action.
LEMMA NextDoes ==
  ASSUME TypeOK, Next
  PROVE  Does
  <1>1. ASSUME NEW u \in Units, House(u)
        PROVE  Does
    <2>1. (\E to \in {"off", "on"} : Turned(u, to)) \/ Boosted(u) \/ Chosen(u) \/ Told(u)
      BY <1>1, TurnDoes, BoostDoes, RemoteDoes, ReportDoes DEF House
    <2> QED
      BY <2>1 DEF Does
  <1>2. CASE HoldExpires \/ Drain \/ Poll \/ Replay \/ Write
    <2>1. Expires \/ Drained \/ Polled \/ Replayed \/ Begins
      BY <1>2, HoldExpiresDoes, DrainDoes, PollDoes, ReplayDoes, WriteDoes
    <2> QED
      BY <2>1 DEF Does
  <1>3. ASSUME NEW g \in Renderers, Render(g)
        PROVE  Does
    <2>1. Aggregated(g) \/ Reconciled(g) \/ Combined(g) \/ Resolved(g) \/ Displays(g)
      BY <1>3, AggregateDoes, ReconcileDoes, CombineDoes, ResolveDoes, ShowDoes DEF Render
    <2> QED
      BY <2>1 DEF Does
  <1>4. ASSUME NEW g \in Goroutines, SetEcono(g)
        PROVE  Does
    <2>1. Commanded(g) \/ Failed(g) \/ Notes(g) \/ HoldsBack(g) \/ Reflects(g)
      BY <1>4, CommandDoes, CommandFailsDoes, NoteDoes, HoldOutdoorDoes, ReflectDoes DEF SetEcono
    <2> QED
      BY <2>1 DEF Does
  <1>5. CASE Exclude
    <2>1. Cleared \/ ClearFailed \/ Forgotten
      BY <1>5, ClearDoes, ClearFailsDoes, ForgetDoes DEF Exclude
    <2> QED
      BY <2>1 DEF Does
  <1> QED
    BY <1>1, <1>2, <1>3, <1>4, <1>5 DEF Next, Renderers

\* Every step keeps the types.
LEMMA TypeStep == TypeOK /\ [Next]_vars => TypeOK'
  <1> SUFFICES ASSUME TypeOK, [Next]_vars
               PROVE  TypeOK'
    OBVIOUS
  <1> USE DEF At, Idle, Go, Rest, Spend, house, memory, display, history
  <1>a. TypeOK
    OBVIOUS
  <1>1. ASSUME NEW u \in Units, NEW to \in {"off", "on"}, Turn(u, to)
        PROVE  TypeOK'
    <2>j. job' \in [Goroutines -> Locals]
      BY <1>a, <1>1 DEF TypeOK, Turn
    <2>1. /\ unit' \in [Units -> {"off", "on", "boost"}] /\ knob' \in BOOLEAN
          /\ known' \in BOOLEAN /\ econoLatch' \in BOOLEAN /\ shown' \in BOOLEAN
          /\ wanted' \in BOOLEAN /\ disturbed' \in BOOLEAN
      BY <1>a, <1>1 DEF TypeOK, Locals, Turn, Goroutines, Renderers
    <2>2. /\ told' \in [Units -> Reports] /\ lastLocal' \in [Units -> Reports]
          /\ \A v \in Units : told'[v].device = v /\ lastLocal'[v].device = v
      BY <1>a, <1>1 DEF TypeOK, Locals, Reports, Turn
    <2>4. queue' \in Seq(Reports) /\ Len(queue') <= QueueSize
      BY <1>a, <1>1 DEF TypeOK, Turn
    <2>3. /\ econoSuspend' \in [boosting : BOOLEAN, pending : BOOLEAN]
          /\ hold' \in [active : BOOLEAN, value : BOOLEAN, expired : BOOLEAN]
      BY <1>a, <1>1 DEF TypeOK, Locals, Turn, Goroutines, Renderers
    <2> QED
      BY <2>j, <2>1, <2>2, <2>3, <2>4 DEF TypeOK
  <1>2. ASSUME NEW u \in Units, Boost(u)
        PROVE  TypeOK'
    <2>j. job' \in [Goroutines -> Locals]
      BY <1>a, <1>2 DEF TypeOK, Boost
    <2>1. /\ unit' \in [Units -> {"off", "on", "boost"}] /\ knob' \in BOOLEAN
          /\ known' \in BOOLEAN /\ econoLatch' \in BOOLEAN /\ shown' \in BOOLEAN
          /\ wanted' \in BOOLEAN /\ disturbed' \in BOOLEAN
      BY <1>a, <1>2 DEF TypeOK, Locals, Boost, Goroutines, Renderers
    <2>2. /\ told' \in [Units -> Reports] /\ lastLocal' \in [Units -> Reports]
          /\ \A v \in Units : told'[v].device = v /\ lastLocal'[v].device = v
      BY <1>a, <1>2 DEF TypeOK, Locals, Reports, Boost
    <2>4. queue' \in Seq(Reports) /\ Len(queue') <= QueueSize
      BY <1>a, <1>2 DEF TypeOK, Boost
    <2>3. /\ econoSuspend' \in [boosting : BOOLEAN, pending : BOOLEAN]
          /\ hold' \in [active : BOOLEAN, value : BOOLEAN, expired : BOOLEAN]
      BY <1>a, <1>2 DEF TypeOK, Locals, Boost, Goroutines, Renderers
    <2> QED
      BY <2>j, <2>1, <2>2, <2>3, <2>4 DEF TypeOK
  <1>3. ASSUME NEW u \in Units, RemoteEcono(u)
        PROVE  TypeOK'
    <2>j. job' \in [Goroutines -> Locals]
      BY <1>a, <1>3 DEF TypeOK, RemoteEcono
    <2>1. /\ unit' \in [Units -> {"off", "on", "boost"}] /\ knob' \in BOOLEAN
          /\ known' \in BOOLEAN /\ econoLatch' \in BOOLEAN /\ shown' \in BOOLEAN
          /\ wanted' \in BOOLEAN /\ disturbed' \in BOOLEAN
      BY <1>a, <1>3 DEF TypeOK, Locals, RemoteEcono, Goroutines, Renderers
    <2>2. /\ told' \in [Units -> Reports] /\ lastLocal' \in [Units -> Reports]
          /\ \A v \in Units : told'[v].device = v /\ lastLocal'[v].device = v
      BY <1>a, <1>3 DEF TypeOK, Locals, Reports, RemoteEcono
    <2>4. queue' \in Seq(Reports) /\ Len(queue') <= QueueSize
      BY <1>a, <1>3 DEF TypeOK, RemoteEcono
    <2>3. /\ econoSuspend' \in [boosting : BOOLEAN, pending : BOOLEAN]
          /\ hold' \in [active : BOOLEAN, value : BOOLEAN, expired : BOOLEAN]
      BY <1>a, <1>3 DEF TypeOK, Locals, RemoteEcono, Goroutines, Renderers
    <2> QED
      BY <2>j, <2>1, <2>2, <2>3, <2>4 DEF TypeOK
  <1>4. ASSUME NEW u \in Units, Report(u)
        PROVE  TypeOK'
    <2>j. job' \in [Goroutines -> Locals]
      BY <1>a, <1>4 DEF TypeOK, Report
    <2>1. /\ unit' \in [Units -> {"off", "on", "boost"}] /\ knob' \in BOOLEAN
          /\ known' \in BOOLEAN /\ econoLatch' \in BOOLEAN /\ shown' \in BOOLEAN
          /\ wanted' \in BOOLEAN /\ disturbed' \in BOOLEAN
      BY <1>a, <1>4 DEF TypeOK, Locals, Report, Goroutines, Renderers
    <2>2. /\ told' \in [Units -> Reports] /\ lastLocal' \in [Units -> Reports]
          /\ \A v \in Units : told'[v].device = v /\ lastLocal'[v].device = v
      BY <1>a, <1>4, StatusType DEF TypeOK, Report
    <2>4. queue' \in Seq(Reports) /\ Len(queue') <= QueueSize
      <3>1. Status(u) \in Reports
        BY <1>a, StatusType
      <3>2. queue \in Seq(Reports) /\ Len(queue) <= QueueSize /\ QueueSize \in Nat
        BY <1>a, EconoConstants DEF TypeOK
      <3>3. CASE RoomFor
        BY <1>4, <3>1, <3>2, <3>3 DEF Report, RoomFor
      <3>4. CASE ~RoomFor
        BY <1>4, <3>2, <3>4 DEF Report
      <3> QED
        BY <3>3, <3>4
    <2>3. /\ econoSuspend' \in [boosting : BOOLEAN, pending : BOOLEAN]
          /\ hold' \in [active : BOOLEAN, value : BOOLEAN, expired : BOOLEAN]
      BY <1>a, <1>4 DEF TypeOK, Locals, Report, Goroutines, Renderers
    <2> QED
      BY <2>j, <2>1, <2>2, <2>3, <2>4 DEF TypeOK
  <1>5. CASE HoldExpires
    <2>j. job' \in [Goroutines -> Locals]
      BY <1>a, <1>5 DEF TypeOK, HoldExpires
    <2>1. /\ unit' \in [Units -> {"off", "on", "boost"}] /\ knob' \in BOOLEAN
          /\ known' \in BOOLEAN /\ econoLatch' \in BOOLEAN /\ shown' \in BOOLEAN
          /\ wanted' \in BOOLEAN /\ disturbed' \in BOOLEAN
      BY <1>a, <1>5 DEF TypeOK, Locals, HoldExpires, Goroutines, Renderers
    <2>2. /\ told' \in [Units -> Reports] /\ lastLocal' \in [Units -> Reports]
          /\ \A v \in Units : told'[v].device = v /\ lastLocal'[v].device = v
      BY <1>a, <1>5 DEF TypeOK, Locals, Reports, HoldExpires
    <2>4. queue' \in Seq(Reports) /\ Len(queue') <= QueueSize
      BY <1>a, <1>5 DEF TypeOK, HoldExpires
    <2>3. /\ econoSuspend' \in [boosting : BOOLEAN, pending : BOOLEAN]
          /\ hold' \in [active : BOOLEAN, value : BOOLEAN, expired : BOOLEAN]
      BY <1>a, <1>5 DEF TypeOK, Locals, HoldExpires, Goroutines, Renderers
    <2> QED
      BY <2>j, <2>1, <2>2, <2>3, <2>4 DEF TypeOK
  <1>6. CASE Drain
    <2>j. job' \in [Goroutines -> Locals]
      <3>1. Drained
        BY <1>a, <1>6, DrainDoes
      <3> QED
        BY <3>1 DEF Drained, Moved
    <2>1. /\ unit' \in [Units -> {"off", "on", "boost"}] /\ knob' \in BOOLEAN
          /\ known' \in BOOLEAN /\ econoLatch' \in BOOLEAN /\ shown' \in BOOLEAN
          /\ wanted' \in BOOLEAN /\ disturbed' \in BOOLEAN
      BY <1>a, <1>6 DEF TypeOK, Locals, Drain, Remember, AtRest, Goroutines, Renderers
    <2>2. /\ told' \in [Units -> Reports] /\ lastLocal' \in [Units -> Reports]
          /\ \A v \in Units : told'[v].device = v /\ lastLocal'[v].device = v
      <3>1. queue # <<>> /\ queue' = Tail(queue) /\ Remember("drain", Head(queue),
                    {}) /\ told' = told
        BY <1>6 DEF Drain
      <3>2. PICK r \in Reports : r = Head(queue)
        BY <1>a, <3>1, Dequeued
      <3>3. "drain" \in Goroutines /\ {} \in SUBSET Reports /\ Remember("drain", r, {})
        BY <3>1, <3>2 DEF Goroutines
      <3> QED
        BY <1>a, <3>1, <3>3, Remembered DEF TypeOK
    <2>4. queue' \in Seq(Reports) /\ Len(queue') <= QueueSize
      BY <1>a, <1>6, Dequeued DEF Drain
    <2>3. /\ econoSuspend' \in [boosting : BOOLEAN, pending : BOOLEAN]
          /\ hold' \in [active : BOOLEAN, value : BOOLEAN, expired : BOOLEAN]
      BY <1>a, <1>6 DEF TypeOK, Locals, Drain, Remember, AtRest, Goroutines, Renderers
    <2> QED
      BY <2>j, <2>1, <2>2, <2>3, <2>4 DEF TypeOK
  <1>7. CASE Poll
    <2>j. job' \in [Goroutines -> Locals]
      <3>1. Polled
        BY <1>a, <1>7, PollDoes
      <3> QED
        BY <3>1 DEF Polled, Moved
    <2>1. /\ unit' \in [Units -> {"off", "on", "boost"}] /\ knob' \in BOOLEAN
          /\ known' \in BOOLEAN /\ econoLatch' \in BOOLEAN /\ shown' \in BOOLEAN
          /\ wanted' \in BOOLEAN /\ disturbed' \in BOOLEAN
      BY <1>a, <1>7 DEF TypeOK, Locals, Poll, Goroutines, Renderers
    <2>2. /\ told' \in [Units -> Reports] /\ lastLocal' \in [Units -> Reports]
          /\ \A v \in Units : told'[v].device = v /\ lastLocal'[v].device = v
      BY <1>a, <1>7 DEF TypeOK, Locals, Reports, Poll
    <2>4. queue' \in Seq(Reports) /\ Len(queue') <= QueueSize
      BY <1>a, <1>7 DEF TypeOK, Poll
    <2>3. /\ econoSuspend' \in [boosting : BOOLEAN, pending : BOOLEAN]
          /\ hold' \in [active : BOOLEAN, value : BOOLEAN, expired : BOOLEAN]
      BY <1>a, <1>7 DEF TypeOK, Locals, Poll, Goroutines, Renderers
    <2> QED
      BY <2>j, <2>1, <2>2, <2>3, <2>4 DEF TypeOK
  <1>8. CASE Replay
    <2>j. job' \in [Goroutines -> Locals]
      <3>1. Replayed
        BY <1>a, <1>8, ReplayDoes
      <3> QED
        BY <3>1 DEF Replayed, Moved
    <2>1. /\ unit' \in [Units -> {"off", "on", "boost"}] /\ knob' \in BOOLEAN
          /\ known' \in BOOLEAN /\ econoLatch' \in BOOLEAN /\ shown' \in BOOLEAN
          /\ wanted' \in BOOLEAN /\ disturbed' \in BOOLEAN
      BY <1>a, <1>8 DEF TypeOK, Locals, Replay, Remember, AtRest, Goroutines, Renderers
    <2>2. /\ told' \in [Units -> Reports] /\ lastLocal' \in [Units -> Reports]
          /\ \A v \in Units : told'[v].device = v /\ lastLocal'[v].device = v
      <3>1. PICK r \in job["poll"].replay : Remember("poll", r, job["poll"].replay \ {r})
        BY <1>8 DEF Replay
      <3> DEFINE rest == job["poll"].replay \ {r}
      <3>2. rest \in SUBSET Reports /\ r \in Reports /\ "poll" \in Goroutines /\ Remember("poll",
                    r, rest)
        BY <1>a, <3>1 DEF TypeOK, Locals, Goroutines
      <3> HIDE DEF rest
      <3> QED
        BY <1>a, <1>8, <3>2, Remembered DEF TypeOK, Replay
    <2>4. queue' \in Seq(Reports) /\ Len(queue') <= QueueSize
      BY <1>a, <1>8 DEF TypeOK, Replay, Remember, AtRest
    <2>3. /\ econoSuspend' \in [boosting : BOOLEAN, pending : BOOLEAN]
          /\ hold' \in [active : BOOLEAN, value : BOOLEAN, expired : BOOLEAN]
      BY <1>a, <1>8 DEF TypeOK, Locals, Replay, Remember, AtRest, Goroutines, Renderers
    <2> QED
      BY <2>j, <2>1, <2>2, <2>3, <2>4 DEF TypeOK
  <1>9. CASE Write
    <2>j. job' \in [Goroutines -> Locals]
      <3>1. Begins
        BY <1>a, <1>9, WriteDoes
      <3> QED
        BY <3>1 DEF Begins, Moved
    <2>1. /\ unit' \in [Units -> {"off", "on", "boost"}] /\ knob' \in BOOLEAN
          /\ known' \in BOOLEAN /\ econoLatch' \in BOOLEAN /\ shown' \in BOOLEAN
          /\ wanted' \in BOOLEAN /\ disturbed' \in BOOLEAN
      BY <1>a, <1>9 DEF TypeOK, Locals, Write, Goroutines, Renderers
    <2>2. /\ told' \in [Units -> Reports] /\ lastLocal' \in [Units -> Reports]
          /\ \A v \in Units : told'[v].device = v /\ lastLocal'[v].device = v
      BY <1>a, <1>9 DEF TypeOK, Locals, Reports, Write
    <2>4. queue' \in Seq(Reports) /\ Len(queue') <= QueueSize
      BY <1>a, <1>9 DEF TypeOK, Write
    <2>3. /\ econoSuspend' \in [boosting : BOOLEAN, pending : BOOLEAN]
          /\ hold' \in [active : BOOLEAN, value : BOOLEAN, expired : BOOLEAN]
      BY <1>a, <1>9 DEF TypeOK, Locals, Write, Goroutines, Renderers
    <2> QED
      BY <2>j, <2>1, <2>2, <2>3, <2>4 DEF TypeOK
  <1>10. ASSUME NEW g \in Renderers, Aggregate(g)
        PROVE  TypeOK'
    <2>j. job' \in [Goroutines -> Locals]
      <3>1. Aggregated(g)
        BY <1>a, <1>10, AggregateDoes DEF Goroutines, Renderers
      <3> QED
        BY <3>1 DEF Aggregated, Moved, Finishes, Stops, Goes
    <2>1. /\ unit' \in [Units -> {"off", "on", "boost"}] /\ knob' \in BOOLEAN
          /\ known' \in BOOLEAN /\ econoLatch' \in BOOLEAN /\ shown' \in BOOLEAN
          /\ wanted' \in BOOLEAN /\ disturbed' \in BOOLEAN
      BY <1>a, <1>10, AggregateType
         DEF TypeOK, Locals, Aggregate, Done, AtRest, Goroutines, Renderers
    <2>2. /\ told' \in [Units -> Reports] /\ lastLocal' \in [Units -> Reports]
          /\ \A v \in Units : told'[v].device = v /\ lastLocal'[v].device = v
      BY <1>a, <1>10 DEF TypeOK, Locals, Reports, Aggregate, Done, AtRest
    <2>4. queue' \in Seq(Reports) /\ Len(queue') <= QueueSize
      BY <1>a, <1>10 DEF TypeOK, Aggregate, Done, AtRest
    <2>3. /\ econoSuspend' \in [boosting : BOOLEAN, pending : BOOLEAN]
          /\ hold' \in [active : BOOLEAN, value : BOOLEAN, expired : BOOLEAN]
      BY <1>a, <1>10 DEF TypeOK, Locals, Aggregate, Done, AtRest, Goroutines, Renderers
    <2> QED
      BY <2>j, <2>1, <2>2, <2>3, <2>4 DEF TypeOK
  <1>11. ASSUME NEW g \in Renderers, Reconcile(g)
        PROVE  TypeOK'
    <2>j. job' \in [Goroutines -> Locals]
      <3>1. Reconciled(g)
        BY <1>a, <1>11, ReconcileDoes DEF Goroutines, Renderers
      <3> QED
        BY <3>1 DEF Reconciled, Moved
    <2>1. /\ unit' \in [Units -> {"off", "on", "boost"}] /\ knob' \in BOOLEAN
          /\ known' \in BOOLEAN /\ econoLatch' \in BOOLEAN /\ shown' \in BOOLEAN
          /\ wanted' \in BOOLEAN /\ disturbed' \in BOOLEAN
      BY <1>a, <1>11 DEF TypeOK, Locals, Reconcile, GroupEdge, Pending, Goroutines, Renderers
    <2>2. /\ told' \in [Units -> Reports] /\ lastLocal' \in [Units -> Reports]
          /\ \A v \in Units : told'[v].device = v /\ lastLocal'[v].device = v
      BY <1>a, <1>11 DEF TypeOK, Locals, Reports, Reconcile, GroupEdge, Pending
    <2>4. queue' \in Seq(Reports) /\ Len(queue') <= QueueSize
      BY <1>a, <1>11 DEF TypeOK, Reconcile, GroupEdge, Pending
    <2>3. /\ econoSuspend' \in [boosting : BOOLEAN, pending : BOOLEAN]
          /\ hold' \in [active : BOOLEAN, value : BOOLEAN, expired : BOOLEAN]
      BY <1>a, <1>11 DEF TypeOK, Locals, Reconcile, GroupEdge, Pending, Goroutines, Renderers
    <2> QED
      BY <2>j, <2>1, <2>2, <2>3, <2>4 DEF TypeOK
  <1>12. ASSUME NEW g \in Renderers, Combine(g)
        PROVE  TypeOK'
    <2>j. job' \in [Goroutines -> Locals]
      <3>1. Combined(g)
        BY <1>a, <1>12, CombineDoes DEF Goroutines, Renderers
      <3> QED
        BY <3>1 DEF Combined, Moved
    <2>1. /\ unit' \in [Units -> {"off", "on", "boost"}] /\ knob' \in BOOLEAN
          /\ known' \in BOOLEAN /\ econoLatch' \in BOOLEAN /\ shown' \in BOOLEAN
          /\ wanted' \in BOOLEAN /\ disturbed' \in BOOLEAN
      BY <1>a, <1>12, AggregateType DEF TypeOK, Locals, Combine, Goroutines, Renderers
    <2>2. /\ told' \in [Units -> Reports] /\ lastLocal' \in [Units -> Reports]
          /\ \A v \in Units : told'[v].device = v /\ lastLocal'[v].device = v
      BY <1>a, <1>12 DEF TypeOK, Locals, Reports, Combine
    <2>4. queue' \in Seq(Reports) /\ Len(queue') <= QueueSize
      BY <1>a, <1>12 DEF TypeOK, Combine
    <2>3. /\ econoSuspend' \in [boosting : BOOLEAN, pending : BOOLEAN]
          /\ hold' \in [active : BOOLEAN, value : BOOLEAN, expired : BOOLEAN]
      BY <1>a, <1>12 DEF TypeOK, Locals, Combine, Goroutines, Renderers
    <2> QED
      BY <2>j, <2>1, <2>2, <2>3, <2>4 DEF TypeOK
  <1>13. ASSUME NEW g \in Renderers, Resolve(g)
        PROVE  TypeOK'
    <2>j. job' \in [Goroutines -> Locals]
      <3>1. Resolved(g)
        BY <1>a, <1>13, ResolveDoes DEF Goroutines, Renderers
      <3> QED
        BY <3>1 DEF Resolved, Moved, Goes
    <2>1. /\ unit' \in [Units -> {"off", "on", "boost"}] /\ knob' \in BOOLEAN
          /\ known' \in BOOLEAN /\ econoLatch' \in BOOLEAN /\ shown' \in BOOLEAN
          /\ wanted' \in BOOLEAN /\ disturbed' \in BOOLEAN
      BY <1>a, <1>13 DEF TypeOK, Locals, Resolve, NoHold, Goroutines, Renderers
    <2>2. /\ told' \in [Units -> Reports] /\ lastLocal' \in [Units -> Reports]
          /\ \A v \in Units : told'[v].device = v /\ lastLocal'[v].device = v
      BY <1>a, <1>13 DEF TypeOK, Locals, Reports, Resolve, NoHold
    <2>4. queue' \in Seq(Reports) /\ Len(queue') <= QueueSize
      BY <1>a, <1>13 DEF TypeOK, Resolve, NoHold
    <2>3. /\ econoSuspend' \in [boosting : BOOLEAN, pending : BOOLEAN]
          /\ hold' \in [active : BOOLEAN, value : BOOLEAN, expired : BOOLEAN]
      BY <1>a, <1>13 DEF TypeOK, Locals, Resolve, NoHold, Goroutines, Renderers
    <2> QED
      BY <2>j, <2>1, <2>2, <2>3, <2>4 DEF TypeOK
  <1>14. ASSUME NEW g \in Renderers, Show(g)
        PROVE  TypeOK'
    <2>j. job' \in [Goroutines -> Locals]
      <3>1. Displays(g)
        BY <1>a, <1>14, ShowDoes DEF Goroutines, Renderers
      <3> QED
        BY <3>1 DEF Displays, Moved, Finishes, Stops, Goes
    <2>1. /\ unit' \in [Units -> {"off", "on", "boost"}] /\ knob' \in BOOLEAN
          /\ known' \in BOOLEAN /\ econoLatch' \in BOOLEAN /\ shown' \in BOOLEAN
          /\ wanted' \in BOOLEAN /\ disturbed' \in BOOLEAN
      BY <1>a, <1>14 DEF TypeOK, Locals, Show, Done, AtRest, Goroutines, Renderers
    <2>2. /\ told' \in [Units -> Reports] /\ lastLocal' \in [Units -> Reports]
          /\ \A v \in Units : told'[v].device = v /\ lastLocal'[v].device = v
      BY <1>a, <1>14 DEF TypeOK, Locals, Reports, Show, Done, AtRest
    <2>4. queue' \in Seq(Reports) /\ Len(queue') <= QueueSize
      BY <1>a, <1>14 DEF TypeOK, Show, Done, AtRest
    <2>3. /\ econoSuspend' \in [boosting : BOOLEAN, pending : BOOLEAN]
          /\ hold' \in [active : BOOLEAN, value : BOOLEAN, expired : BOOLEAN]
      BY <1>a, <1>14 DEF TypeOK, Locals, Show, Done, AtRest, Goroutines, Renderers
    <2> QED
      BY <2>j, <2>1, <2>2, <2>3, <2>4 DEF TypeOK
  <1>15. ASSUME NEW g \in Goroutines, Command(g)
        PROVE  TypeOK'
    <2>j. job' \in [Goroutines -> Locals]
      <3>1. Commanded(g)
        BY <1>a, <1>15, CommandDoes
      <3> QED
        BY <3>1 DEF Commanded, Moved
    <2>1. /\ unit' \in [Units -> {"off", "on", "boost"}] /\ knob' \in BOOLEAN
          /\ known' \in BOOLEAN /\ econoLatch' \in BOOLEAN /\ shown' \in BOOLEAN
          /\ wanted' \in BOOLEAN /\ disturbed' \in BOOLEAN
      BY <1>a, <1>15 DEF TypeOK, Locals, Command, Origin, NextUnit, Goroutines, Renderers
    <2>2. /\ told' \in [Units -> Reports] /\ lastLocal' \in [Units -> Reports]
          /\ \A v \in Units : told'[v].device = v /\ lastLocal'[v].device = v
      BY <1>a, <1>15 DEF TypeOK, Locals, Reports, Command, Origin, NextUnit
    <2>4. queue' \in Seq(Reports) /\ Len(queue') <= QueueSize
      BY <1>a, <1>15 DEF TypeOK, Command, Origin, NextUnit
    <2>3. /\ econoSuspend' \in [boosting : BOOLEAN, pending : BOOLEAN]
          /\ hold' \in [active : BOOLEAN, value : BOOLEAN, expired : BOOLEAN]
      BY <1>a, <1>15 DEF TypeOK, Locals, Command, Origin, NextUnit, Goroutines, Renderers
    <2> QED
      BY <2>j, <2>1, <2>2, <2>3, <2>4 DEF TypeOK
  <1>16. ASSUME NEW g \in Goroutines, CommandFails(g)
        PROVE  TypeOK'
    <2>0. disturbed' = (disturbed \/ (job'[g].at = "combine" /\ knob # job[g].value))
      BY <1>16 DEF CommandFails
    <2>b. disturbed' \in BOOLEAN
      BY <2>0
    <2>j. job' \in [Goroutines -> Locals]
      <3>1. Failed(g)
        BY <1>a, <1>16, CommandFailsDoes
      <3> QED
        BY <3>1 DEF Failed, Moved, Stops
    <2>1. /\ unit' \in [Units -> {"off", "on", "boost"}] /\ knob' \in BOOLEAN
          /\ known' \in BOOLEAN /\ econoLatch' \in BOOLEAN /\ shown' \in BOOLEAN
          /\ wanted' \in BOOLEAN /\ disturbed' \in BOOLEAN
      BY <1>a, <1>16, <2>b
         DEF TypeOK, Locals, CommandFails, Served, Origin, NextUnit, AtRest, Goroutines, Renderers
    <2>2. /\ told' \in [Units -> Reports] /\ lastLocal' \in [Units -> Reports]
          /\ \A v \in Units : told'[v].device = v /\ lastLocal'[v].device = v
      BY <1>a, <1>16 DEF TypeOK, Locals, Reports, CommandFails, Served, Origin, NextUnit, AtRest
    <2>4. queue' \in Seq(Reports) /\ Len(queue') <= QueueSize
      BY <1>a, <1>16 DEF TypeOK, CommandFails, Served, Origin, NextUnit, AtRest
    <2>3. /\ econoSuspend' \in [boosting : BOOLEAN, pending : BOOLEAN]
          /\ hold' \in [active : BOOLEAN, value : BOOLEAN, expired : BOOLEAN]
      BY <1>a, <1>16
         DEF TypeOK, Locals, CommandFails, Served, Origin, NextUnit, AtRest, Goroutines, Renderers
    <2> QED
      BY <2>j, <2>1, <2>2, <2>3, <2>4 DEF TypeOK
  <1>17. ASSUME NEW g \in Goroutines, Note(g)
        PROVE  TypeOK'
    <2>j. job' \in [Goroutines -> Locals]
      <3>1. Notes(g)
        BY <1>a, <1>17, NoteDoes
      <3> QED
        BY <3>1 DEF Notes, Moved, Goes
    <2>1. /\ unit' \in [Units -> {"off", "on", "boost"}] /\ knob' \in BOOLEAN
          /\ known' \in BOOLEAN /\ econoLatch' \in BOOLEAN /\ shown' \in BOOLEAN
          /\ wanted' \in BOOLEAN /\ disturbed' \in BOOLEAN
      BY <1>a, <1>17 DEF TypeOK, Locals, Note, Noted, Served, Goroutines, Renderers
    <2>2. /\ told' \in [Units -> Reports] /\ lastLocal' \in [Units -> Reports]
          /\ \A v \in Units : told'[v].device = v /\ lastLocal'[v].device = v
      BY <1>a, <1>17 DEF TypeOK, Locals, Reports, Note, Noted, Served
    <2>4. queue' \in Seq(Reports) /\ Len(queue') <= QueueSize
      BY <1>a, <1>17 DEF TypeOK, Note, Noted, Served
    <2>3. /\ econoSuspend' \in [boosting : BOOLEAN, pending : BOOLEAN]
          /\ hold' \in [active : BOOLEAN, value : BOOLEAN, expired : BOOLEAN]
      BY <1>a, <1>17 DEF TypeOK, Locals, Note, Noted, Served, Goroutines, Renderers
    <2> QED
      BY <2>j, <2>1, <2>2, <2>3, <2>4 DEF TypeOK
  <1>18. ASSUME NEW g \in Goroutines, HoldOutdoor(g)
        PROVE  TypeOK'
    <2>j. job' \in [Goroutines -> Locals]
      <3>1. HoldsBack(g)
        BY <1>a, <1>18, HoldOutdoorDoes
      <3> QED
        BY <3>1 DEF HoldsBack, Moved, Goes
    <2>1. /\ unit' \in [Units -> {"off", "on", "boost"}] /\ knob' \in BOOLEAN
          /\ known' \in BOOLEAN /\ econoLatch' \in BOOLEAN /\ shown' \in BOOLEAN
          /\ wanted' \in BOOLEAN /\ disturbed' \in BOOLEAN
      BY <1>a, <1>18 DEF TypeOK, Locals, HoldOutdoor, Goroutines, Renderers
    <2>2. /\ told' \in [Units -> Reports] /\ lastLocal' \in [Units -> Reports]
          /\ \A v \in Units : told'[v].device = v /\ lastLocal'[v].device = v
      BY <1>a, <1>18 DEF TypeOK, Locals, Reports, HoldOutdoor
    <2>4. queue' \in Seq(Reports) /\ Len(queue') <= QueueSize
      BY <1>a, <1>18 DEF TypeOK, HoldOutdoor
    <2>3. /\ econoSuspend' \in [boosting : BOOLEAN, pending : BOOLEAN]
          /\ hold' \in [active : BOOLEAN, value : BOOLEAN, expired : BOOLEAN]
      BY <1>a, <1>18 DEF TypeOK, Locals, HoldOutdoor, Goroutines, Renderers
    <2> QED
      BY <2>j, <2>1, <2>2, <2>3, <2>4 DEF TypeOK
  <1>19. ASSUME NEW g \in Goroutines, Reflect(g)
        PROVE  TypeOK'
    <2>j. job' \in [Goroutines -> Locals]
      <3>1. Reflects(g)
        BY <1>a, <1>19, ReflectDoes
      <3> QED
        BY <3>1 DEF Reflects, Moved, Stops
    <2>1. /\ unit' \in [Units -> {"off", "on", "boost"}] /\ knob' \in BOOLEAN
          /\ known' \in BOOLEAN /\ econoLatch' \in BOOLEAN /\ shown' \in BOOLEAN
          /\ wanted' \in BOOLEAN /\ disturbed' \in BOOLEAN
      BY <1>a, <1>19 DEF TypeOK, Locals, Reflect, AtRest, Goroutines, Renderers
    <2>2. /\ told' \in [Units -> Reports] /\ lastLocal' \in [Units -> Reports]
          /\ \A v \in Units : told'[v].device = v /\ lastLocal'[v].device = v
      BY <1>a, <1>19 DEF TypeOK, Locals, Reports, Reflect, AtRest
    <2>4. queue' \in Seq(Reports) /\ Len(queue') <= QueueSize
      BY <1>a, <1>19 DEF TypeOK, Reflect, AtRest
    <2>3. /\ econoSuspend' \in [boosting : BOOLEAN, pending : BOOLEAN]
          /\ hold' \in [active : BOOLEAN, value : BOOLEAN, expired : BOOLEAN]
      BY <1>a, <1>19 DEF TypeOK, Locals, Reflect, AtRest, Goroutines, Renderers
    <2> QED
      BY <2>j, <2>1, <2>2, <2>3, <2>4 DEF TypeOK
  <1>20. CASE Clear
    <2>0. PICK u : unit' = [unit EXCEPT ![u] = IF @ = "boost" THEN "on" ELSE @]
      BY <1>20 DEF Clear
    <2>u. unit' \in [Units -> {"off", "on", "boost"}]
      BY <1>a, <2>0 DEF TypeOK
    <2>j. job' \in [Goroutines -> Locals]
      <3>1. Cleared
        BY <1>a, <1>20, ClearDoes
      <3> QED
        BY <3>1 DEF Cleared, Moved, Proceeds
    <2>1. /\ unit' \in [Units -> {"off", "on", "boost"}] /\ knob' \in BOOLEAN
          /\ known' \in BOOLEAN /\ econoLatch' \in BOOLEAN /\ shown' \in BOOLEAN
          /\ wanted' \in BOOLEAN /\ disturbed' \in BOOLEAN
      BY <1>a, <1>20, <2>u DEF TypeOK, Locals, Clear, Origin, NextUnit, Goroutines, Renderers
    <2>2. /\ told' \in [Units -> Reports] /\ lastLocal' \in [Units -> Reports]
          /\ \A v \in Units : told'[v].device = v /\ lastLocal'[v].device = v
      BY <1>a, <1>20 DEF TypeOK, Locals, Reports, Clear, Origin, NextUnit
    <2>4. queue' \in Seq(Reports) /\ Len(queue') <= QueueSize
      BY <1>a, <1>20 DEF TypeOK, Clear, Origin, NextUnit
    <2>3. /\ econoSuspend' \in [boosting : BOOLEAN, pending : BOOLEAN]
          /\ hold' \in [active : BOOLEAN, value : BOOLEAN, expired : BOOLEAN]
      BY <1>a, <1>20 DEF TypeOK, Locals, Clear, Origin, NextUnit, Goroutines, Renderers
    <2> QED
      BY <2>j, <2>1, <2>2, <2>3, <2>4 DEF TypeOK
  <1>21. CASE ClearFails
    <2>j. job' \in [Goroutines -> Locals]
      <3>1. ClearFailed
        BY <1>a, <1>21, ClearFailsDoes
      <3> QED
        BY <3>1 DEF ClearFailed, Moved, Proceeds, Stops
    <2>1. /\ unit' \in [Units -> {"off", "on", "boost"}] /\ knob' \in BOOLEAN
          /\ known' \in BOOLEAN /\ econoLatch' \in BOOLEAN /\ shown' \in BOOLEAN
          /\ wanted' \in BOOLEAN /\ disturbed' \in BOOLEAN
      BY <1>a, <1>21 DEF TypeOK, Locals, ClearFails, Origin, NextUnit, AtRest, Goroutines, Renderers
    <2>2. /\ told' \in [Units -> Reports] /\ lastLocal' \in [Units -> Reports]
          /\ \A v \in Units : told'[v].device = v /\ lastLocal'[v].device = v
      BY <1>a, <1>21 DEF TypeOK, Locals, Reports, ClearFails, Origin, NextUnit, AtRest
    <2>4. queue' \in Seq(Reports) /\ Len(queue') <= QueueSize
      BY <1>a, <1>21 DEF TypeOK, ClearFails, Origin, NextUnit, AtRest
    <2>3. /\ econoSuspend' \in [boosting : BOOLEAN, pending : BOOLEAN]
          /\ hold' \in [active : BOOLEAN, value : BOOLEAN, expired : BOOLEAN]
      BY <1>a, <1>21 DEF TypeOK, Locals, ClearFails, Origin, NextUnit, AtRest, Goroutines, Renderers
    <2> QED
      BY <2>j, <2>1, <2>2, <2>3, <2>4 DEF TypeOK
  <1>22. CASE Forget
    <2>j. job' \in [Goroutines -> Locals]
      <3>1. Forgotten
        BY <1>a, <1>22, ForgetDoes
      <3> QED
        BY <3>1 DEF Forgotten, Moved, Stops
    <2>1. /\ unit' \in [Units -> {"off", "on", "boost"}] /\ knob' \in BOOLEAN
          /\ known' \in BOOLEAN /\ econoLatch' \in BOOLEAN /\ shown' \in BOOLEAN
          /\ wanted' \in BOOLEAN /\ disturbed' \in BOOLEAN
      BY <1>a, <1>22 DEF TypeOK, Locals, Forget, AtRest, Goroutines, Renderers
    <2>2. /\ told' \in [Units -> Reports] /\ lastLocal' \in [Units -> Reports]
          /\ \A v \in Units : told'[v].device = v /\ lastLocal'[v].device = v
      BY <1>a, <1>22 DEF TypeOK, Locals, Reports, Forget, AtRest
    <2>4. queue' \in Seq(Reports) /\ Len(queue') <= QueueSize
      BY <1>a, <1>22 DEF TypeOK, Forget, AtRest
    <2>3. /\ econoSuspend' \in [boosting : BOOLEAN, pending : BOOLEAN]
          /\ hold' \in [active : BOOLEAN, value : BOOLEAN, expired : BOOLEAN]
      BY <1>a, <1>22 DEF TypeOK, Locals, Forget, AtRest, Goroutines, Renderers
    <2> QED
      BY <2>j, <2>1, <2>2, <2>3, <2>4 DEF TypeOK
  <1>23. CASE UNCHANGED vars
    BY <1>a, <1>23 DEF vars, TypeOK
  <1> QED
    BY <1>1, <1>2, <1>3, <1>4, <1>5, <1>6, <1>7, <1>8, <1>9, <1>10, <1>11, <1>12, <1>13, <1>14,
       <1>15, <1>16, <1>17, <1>18, <1>19, <1>20, <1>21, <1>22, <1>23
       DEF Next, House, Render, SetEcono, Exclude, Renderers

\* What the aggregate depends on.
LEMMA Frames ==
  /\ lastLocal' = lastLocal => GroupBoost' = GroupBoost /\ Running' = Running
  /\ lastLocal' = lastLocal /\ econoLatch' = econoLatch => GroupEcono' = GroupEcono
  /\ lastLocal' = lastLocal /\ Running # {} => GroupEcono' = GroupEcono
  /\ Running = {} => GroupEcono = econoLatch
  /\ Running' = {} => GroupEcono' = econoLatch'
  /\ unit' = unit => (AllOff(unit') <=> AllOff(unit))
  /\ GroupBoost \in BOOLEAN /\ GroupBoost' \in BOOLEAN
  <1>1. lastLocal' = lastLocal => GroupBoost' = GroupBoost /\ Running' = Running
    BY DEF GroupBoost, Running
  <1>2. lastLocal' = lastLocal /\ econoLatch' = econoLatch => GroupEcono' = GroupEcono
    BY DEF GroupEcono, Running
  <1>3. lastLocal' = lastLocal /\ Running # {} => GroupEcono' = GroupEcono
    BY <1>1 DEF GroupEcono
  <1>4. (Running = {} => GroupEcono = econoLatch) /\ (Running' = {} => GroupEcono' = econoLatch')
    BY DEF GroupEcono
  <1>5. unit' = unit => (AllOff(unit') <=> AllOff(unit))
    BY DEF AllOff
  <1> QED
    BY <1>1, <1>2, <1>3, <1>4, <1>5 DEF GroupBoost

\* No boost is in sight, place by place.
Calm ==
    /\ ~econoSuspend.boosting
    /\ \A u \in Units : unit[u] # "boost" /\ ~lastLocal[u].boost
    /\ \A i \in DOMAIN queue : ~queue[i].boost
    /\ \A g \in Goroutines : \A r \in job[g].replay : ~r.boost
    /\ \A g \in Renderers : ~job[g].boost /\ job[g].at \notin {"command", "note"}

\* Calm is what BoostInSight denies, in both states of a step.
LEMMA CalmIs ==
  ASSUME TypeOK, TypeOK'
  PROVE  (BoostInSight <=> ~Calm) /\ (BoostInSight' <=> ~Calm')
  <1>1. DOMAIN queue = 1..Len(queue) /\ (DOMAIN queue)' = 1..Len(queue')
    BY DEF TypeOK
  <1>2. BoostInSight <=> ~Calm
    BY <1>1 DEF BoostInSight, Underway, Calm, Renderers
  <1>3. BoostInSight' <=> ~Calm'
    BY <1>1 DEF BoostInSight, Underway, Calm, Renderers
  <1> QED
    BY <1>2, <1>3

(***************************************************************************)
(* The inductive invariant.                                                *)
(***************************************************************************)

\* Reports come one behind the other: what a module said last is the last of its reports
\* in the queue, or the one taken in last.
LatestInv ==
    ~disturbed => \A u \in Units :
        \/ /\ \A i \in DOMAIN queue : queue[i].device # u
           /\ lastLocal[u] = told[u]
        \/ \E i \in DOMAIN queue :
              /\ queue[i] = told[u]
              /\ \A k \in DOMAIN queue : k > i => queue[k].device # u

\* A boosting unit runs, and reports so.
ReportInv ==
    ~disturbed =>
        /\ \A u \in Units : lastLocal[u].boost => lastLocal[u].on
        /\ \A u \in Units : told[u].boost => told[u].on
        /\ \A i \in DOMAIN queue : queue[i].boost => queue[i].on

\* The drain and a replay do not render at once; a replay renders what is remembered
\* already; renderers have work before them.
RenderInv ==
    ~disturbed =>
        /\ Idle("drain") \/ Idle("poll")
        /\ \A r \in job["poll"].replay : lastLocal[r.device] = r
        /\ job["drain"].replay = {} /\ job["write"].replay = {}
        /\ At("poll", "replay") => job["poll"].replay # {}
        /\ Idle("poll") => job["poll"].replay = {}
        /\ ~At("drain", "replay")
        /\ ~Idle("poll") => known

Places ==
    /\ \A g \in Renderers : job[g].at \notin {"clear", "forget"}
    /\ job["write"].at \in {"idle", "command", "note", "hold", "reflect", "clear", "forget"}
    /\ \A g \in Renderers : job[g].at \in {"reconcile", "command", "note", "hold", "reflect",
                    "combine", "resolve", "show"} => known
    /\ \A g \in Renderers : job[g].boost => At(g, "reconcile")
    /\ ~Idle("write") => known
    /\ ~job["write"].boost
    /\ \A g \in Renderers : At(g, "aggregate") \/ At(g, "reconcile") => ~job[g].written
    /\ Idle("write") => ~job["write"].written
    /\ At("write", "command") => job["write"].written \/ job["write"].todo = Units
    /\ At("write", "note") => job["write"].written
    /\ At("write", "command") /\ ~job["write"].written => job["write"].device \in Units
    /\ job["write"].at \in {"command", "note"} /\ job["write"].written => job["write"].todo # Units

\* While a boost is in sight nobody writes.
ApartInv == ~disturbed /\ BoostInSight => Idle("write")

\* The coordinator has taken in what it knows of boosts once it is done.
BoostInv ==
    ~disturbed =>
        /\ known /\ Idle("drain") /\ Idle("poll") => econoSuspend.boosting = GroupBoost
        /\ \A g \in Renderers : At(g, "reconcile") => job[g].boost = GroupBoost
        /\ \A g \in Renderers : job[g].at \in {"command", "note", "hold", "reflect", "combine",
                    "resolve", "show"} =>
              econoSuspend.boosting = GroupBoost
        /\ econoSuspend.pending => econoSuspend.boosting

\* While econo is not wanted no boost comes with a reading of econo on.
StaleInv ==
    ~disturbed /\ ~wanted =>
        /\ (\E u \in Units : unit[u] = "boost" \/ told[u].boost) => \A v \in Units : ~told[v].econo
        /\ (\E u \in Units : lastLocal[u].boost) =>
              /\ \A v \in Units : ~lastLocal[v].econo
              /\ \A i \in DOMAIN queue : ~queue[i].econo
        /\ \A i \in DOMAIN queue : queue[i].boost =>
              /\ \A j \in DOMAIN queue : j >= i => ~queue[j].econo
              /\ \A j \in DOMAIN queue : j < i /\ queue[j].econo =>
                    \E k \in DOMAIN queue : j < k /\ k <= i /\ queue[k].device = queue[j].device
              /\ \A v \in Units : lastLocal[v].econo =>
                    \E k \in DOMAIN queue : k <= i /\ queue[k].device = v

\* The knob is as wanted, unless econo is suspended or about to be restored.
Restoring(g) == At(g, "command") /\ job[g].value
KnobInv ==
    ~disturbed =>
        /\ econoSuspend.pending => wanted
        /\ \A g \in Renderers : At(g, "reconcile") /\ job[g].boost /\ job[g].value => wanted
        /\ \A g \in Renderers : job[g].at \in {"command", "note"} =>
              IF job[g].value THEN wanted ELSE econoSuspend.pending
        /\ \A g \in Goroutines : At(g, "note") => knob = job[g].value
        /\ \A g \in Goroutines : At(g, "command") /\ job[g].written => knob = job[g].value
        /\ knob # wanted => econoSuspend.pending \/ \E g \in Renderers : Restoring(g)
        /\ job["write"].at \in {"hold", "reflect"} => knob = job["write"].value

\* All units are off: the reports still to come say so, and the latch remembers.
NobodyNotes == \A g \in Goroutines : ~At(g, "note")
OffInv ==
    ~disturbed /\ AllOff(unit) =>
        /\ known
        /\ \A i \in DOMAIN queue : ~queue[i].on
        /\ \A u \in Units : lastLocal[u].on =>
              /\ lastLocal[u].econo = knob
              /\ econoSuspend.boosting => lastLocal[u].boost
              /\ \A g \in Goroutines : job[g].at \notin {"command", "note"}
              /\ Idle("write")
        /\ GroupBoost => econoSuspend.boosting
        /\ NobodyNotes => econoLatch = knob

\* The latch is what the reports say, or what was written since.
LatchInv ==
    ~disturbed /\ known /\ NobodyNotes /\ (\A g \in Renderers : job[g].at \in {"idle", "resolve",
                    "show"}) =>
        econoLatch = GroupEcono \/ econoLatch = knob

\* A write that will hold its value.
Promised == job["write"].at \in {"note", "hold"} \/ (At("write", "command") /\ job["write"].written)
ShownInv ==
    ~disturbed =>
        /\ \A g \in Renderers : At(g, "resolve") =>
              \/ job[g].value = econoLatch
              \/ Promised /\ econoLatch = job["write"].value
              \/ /\ hold.active /\ ~hold.expired /\ hold.value = econoLatch
                 /\ Promised => At("write", "note")
        /\ \A g \in Renderers : At(g, "show") => job[g].value = econoLatch \/ Promised \/ hold.active
        /\ known /\ (\A g \in Renderers : Idle(g)) /\ ~hold.active /\ ~Promised =>
              shown = econoLatch \/ shown = knob

IInv ==
    /\ TypeOK /\ LatestInv /\ ReportInv /\ RenderInv /\ Places /\ ApartInv /\ BoostInv
    /\ StaleInv /\ KnobInv /\ OffInv /\ LatchInv /\ ShownInv

\* The initial states satisfy the invariant.
LEMMA InitIInv == Init => IInv
  <1> SUFFICES ASSUME Init
               PROVE  IInv
    OBVIOUS
  <1>1. told \in [Units -> Reports] /\ \A u \in Units : told[u].device = u /\ ~told[u].boost
    BY DEF Init, Reports, Status
  <1>2. queue = <<>> /\ DOMAIN queue = {} /\ queue \in Seq(Reports) /\ Len(queue) = 0
    BY DEF Init
  <1>3. AtRest \in Locals
    BY DEF AtRest, Locals
  <1>4. TypeOK
    <2>1. /\ unit \in [Units -> {"off", "on", "boost"}] /\ knob \in BOOLEAN /\ wanted \in BOOLEAN
          /\ known \in BOOLEAN /\ econoLatch \in BOOLEAN /\ shown \in BOOLEAN
          /\ disturbed \in BOOLEAN
          /\ econoSuspend \in [boosting : BOOLEAN, pending : BOOLEAN]
          /\ hold \in [active : BOOLEAN, value : BOOLEAN, expired : BOOLEAN]
      BY DEF Init, NoHold
    <2>2. job \in [Goroutines -> Locals] /\ lastLocal = told
      BY <1>3 DEF Init
    <2>3. Len(queue) <= QueueSize
      BY <1>2, EconoConstants
    <2> QED
      BY <1>1, <1>2, <2>1, <2>2, <2>3 DEF TypeOK
  <1>5. \A g \in Goroutines : job[g] = AtRest
    BY DEF Init
  <1>6. ~AllOff(unit) /\ unit \in [Units -> {"off", "on"}] /\ lastLocal = told /\ knob = wanted
    BY DEF Init, AllOff
  <1>7. known = FALSE /\ econoSuspend.boosting = FALSE /\ econoSuspend.pending = FALSE
    BY DEF Init
  <1>8. LatestInv /\ ReportInv /\ OffInv /\ LatchInv
    BY <1>1, <1>2, <1>5, <1>6, <1>7 DEF LatestInv, ReportInv, OffInv, LatchInv, AtRest
  <1>9. \A g \in Goroutines : job[g].at = "idle" /\ job[g].replay = {} /\ job[g].boost = FALSE
                            /\ job[g].written = FALSE
    BY <1>5 DEF AtRest
  <1>10. RenderInv /\ Places /\ ApartInv /\ BoostInv /\ KnobInv
    BY <1>6, <1>7, <1>9 DEF RenderInv, Places, ApartInv, BoostInv, KnobInv, At, Idle, Renderers,
                    Goroutines, Restoring
  <1>11. StaleInv /\ ShownInv
    BY <1>1, <1>2, <1>6, <1>7, <1>9 DEF StaleInv, ShownInv, At, Idle, Renderers, Goroutines
  <1> QED
    BY <1>4, <1>8, <1>10, <1>11 DEF IInv

\* Once everything reported has been taken in, what is remembered is the house.
LEMMA SettledReads ==
  ASSUME TypeOK, LatestInv, Settled, ~disturbed
  PROVE  /\ \A u \in Units : lastLocal[u] = Status(u)
         /\ ~AllOff(unit) => Running # {} /\ GroupEcono = knob
         /\ AllOff(unit) => Running = {} /\ GroupEcono = econoLatch
         /\ GroupBoost <=> Boosting
  <1>1. DOMAIN queue = {} /\ \A u \in Units : told[u] = Status(u)
    BY DEF Settled, Reported
  <1>2. \A u \in Units : lastLocal[u] = Status(u)
    BY <1>1 DEF LatestInv
  <1>3. \A u \in Units : /\ (lastLocal[u].on <=> unit[u] # "off")
                         /\ (lastLocal[u].econo <=> unit[u] # "off" /\ knob)
                         /\ (lastLocal[u].boost <=> unit[u] = "boost")
    BY <1>2, StatusType
  <1>4. GroupBoost <=> Boosting
    BY <1>3 DEF GroupBoost, Boosting
  <1>5. CASE AllOff(unit)
    <2>1. Running = {}
      BY <1>3, <1>5 DEF AllOff, Running
    <2> QED
      BY <1>2, <1>4, <1>5, <2>1 DEF GroupEcono
  <1>6. CASE ~AllOff(unit)
    <2>1. Running # {} /\ \A u \in Running : lastLocal[u].econo <=> knob
      BY <1>3, <1>6 DEF AllOff, Running
    <2>2. GroupEcono <=> knob
      BY <2>1 DEF GroupEcono
    <2>3. GroupEcono \in BOOLEAN /\ knob \in BOOLEAN
      BY AggregateType DEF TypeOK
    <2> QED
      BY <1>2, <1>4, <1>6, <2>1, <2>2, <2>3
  <1> QED
    BY <1>5, <1>6

\* Reports keep their order.
LEMMA LatestStep == IInv /\ [Next]_vars => LatestInv'
  <1> SUFFICES ASSUME IInv, [Next]_vars
               PROVE  LatestInv'
    OBVIOUS
  <1> USE DEF At, Idle, Renderers, Goroutines
  <1>a. /\ TypeOK /\ LatestInv /\ ReportInv /\ RenderInv /\ Places /\ ApartInv
        /\ BoostInv /\ StaleInv /\ KnobInv /\ OffInv /\ LatchInv /\ ShownInv
    BY DEF IInv
  <1>b. Does \/ UNCHANGED vars
    BY <1>a, NextDoes
  <1>c. TypeOK'
    BY <1>a, TypeStep
  <1>y. /\ \A u \in Units : /\ told[u] \in Reports /\ lastLocal[u] \in Reports /\ unit[u] \in {"off", "on", "boost"}
                           /\ told[u].device = u /\ lastLocal[u].device = u
        /\ knob \in BOOLEAN /\ econoLatch \in BOOLEAN /\ wanted \in BOOLEAN
    BY <1>a DEF TypeOK
  <1>t. /\ \A g \in Goroutines : job[g].boost \in BOOLEAN /\ job[g].value \in BOOLEAN /\ job[g].written \in BOOLEAN
        /\ econoSuspend.boosting \in BOOLEAN /\ econoSuspend.pending \in BOOLEAN
        /\ hold.value \in BOOLEAN
    BY <1>a DEF TypeOK, Locals
  <1>T. /\ \A g \in Goroutines : job'[g].boost \in BOOLEAN /\ job'[g].value \in BOOLEAN /\ job'[g].written \in BOOLEAN
        /\ econoSuspend'.boosting \in BOOLEAN /\ econoSuspend'.pending \in BOOLEAN
        /\ hold'.value \in BOOLEAN
        /\ knob' \in BOOLEAN /\ econoLatch' \in BOOLEAN /\ wanted' \in BOOLEAN
    BY <1>c DEF TypeOK, Locals
  <1>s. (BoostInSight <=> ~Calm) /\ (BoostInSight' <=> ~Calm')
    BY <1>a, <1>c, CalmIs
  <1>g. GroupEcono \in BOOLEAN /\ GroupEcono' \in BOOLEAN /\ GroupBoost \in BOOLEAN
    BY <1>a, <1>c, AggregateType, Frames DEF TypeOK, GroupEcono
  <1>r. \A u \in Units : /\ Status(u) \in Reports /\ Status(u).device = u
                        /\ (Status(u).on <=> unit[u] # "off") /\ (Status(u).econo <=> unit[u] # "off" /\ knob)
                        /\ (Status(u).boost <=> unit[u] = "boost")
    BY <1>a, StatusType
  <1>1. ASSUME NEW u \in Units, NEW to \in {"off", "on"}, Turned(u, to)
        PROVE  LatestInv'
    BY <1>a, <1>y, <1>r, <1>1 DEF Turned, Becomes, LatestInv
  <1>2. ASSUME NEW u \in Units, Boosted(u)
        PROVE  LatestInv'
    BY <1>a, <1>y, <1>r, <1>2 DEF Boosted, Becomes, LatestInv
  <1>3. ASSUME NEW u \in Units, Chosen(u)
        PROVE  LatestInv'
    BY <1>a, <1>y, <1>r, <1>3 DEF Chosen, LatestInv
  <1>4. ASSUME NEW u \in Units, Told(u)
        PROVE  LatestInv'
    <2>1. told'[u] = Status(u) /\ \A v \in Units : v # u => told'[v] = told[v]
      BY <1>4 DEF Told
    <2>2. UNCHANGED <<unit, knob, known, lastLocal, econoLatch, econoSuspend, hold, shown, job,
                    wanted>>
      BY <1>4 DEF Told
    <2>3. SUFFICES ASSUME ~disturbed'
                   PROVE  LatestInv'
      BY DEF LatestInv
    <2>4. ~disturbed
      BY <1>4, <2>3 DEF Told
    <2>5. PICK n \in Nat : /\ Holds(n) /\ Holds(n + 1)'
                          /\ queue'[n + 1] = Status(u) /\ \A i \in 1..n : queue'[i] = queue[i]
      BY <1>4, <2>3 DEF Told
    <2>6. /\ DOMAIN queue = 1..n /\ (DOMAIN queue') = 1..(n + 1)
          /\ n + 1 \in DOMAIN queue' /\ queue'[n + 1] = Status(u)
          /\ \A i \in DOMAIN queue' : i = n + 1 \/ (i \in DOMAIN queue /\ queue'[i] = queue[i])
          /\ \A i \in DOMAIN queue : i \in DOMAIN queue' /\ queue'[i] = queue[i]
      BY <2>5 DEF Holds
    <2>7. ASSUME NEW v \in Units
          PROVE  \/ /\ \A i \in DOMAIN queue' : queue'[i].device # v
                    /\ lastLocal'[v] = told'[v]
                 \/ \E i \in DOMAIN queue' :
                       /\ queue'[i] = told'[v]
                       /\ \A k \in DOMAIN queue' : k > i => queue'[k].device # v
      <3>1. CASE v = u
        BY <2>1, <2>6, <3>1
      <3>2. CASE v # u /\ \A i \in DOMAIN queue : queue[i].device # v
        BY <1>a, <1>r, <2>1, <2>2, <2>4, <2>6, <3>2 DEF LatestInv
      <3>3. CASE v # u /\ ~\A i \in DOMAIN queue : queue[i].device # v
        <4>1. PICK i \in DOMAIN queue : /\ queue[i] = told[v]
                                       /\ \A k \in DOMAIN queue : k > i => queue[k].device # v
          BY <1>a, <2>4, <3>3 DEF LatestInv
        <4> QED
          BY <1>r, <2>1, <2>6, <3>3, <4>1
      <3> QED
        BY <3>1, <3>2, <3>3
    <2> QED
      BY <2>7 DEF LatestInv
  <1>5. CASE Expires
    BY <1>a, <1>y, <1>r, <1>5 DEF Expires, LatestInv
  <1>6. CASE Drained
    <2>1. PICK r \in Reports, n \in Nat :
            /\ Holds(n + 1) /\ Holds(n)' /\ r = queue[1] /\ \A i \in 1..n : queue'[i] = queue[i + 1]
            /\ Recalls(r)
      BY <1>6 DEF Drained
    <2>2. /\ 1 \in DOMAIN queue /\ r = queue[1] /\ DOMAIN queue = 1..(n + 1)
          /\ (DOMAIN queue') = 1..n
          /\ \A i \in DOMAIN queue' : i + 1 \in DOMAIN queue /\ queue'[i] = queue[i + 1]
      BY <2>1 DEF Holds
    <2>3. r.device \in Units /\ \A u \in Units : lastLocal'[u] = IF u = r.device THEN r ELSE lastLocal[u]
      BY <2>1 DEF Recalls, Reports
    <2>4. /\ job["drain"].at = "idle" /\ Moved("drain", "aggregate", {}, FALSE, FALSE, {}, FALSE)
          /\ ~disturbed' => ~disturbed /\ job["poll"].at = "idle"
          /\ UNCHANGED <<unit, knob, told, known, econoLatch, econoSuspend, hold, shown, wanted>>
      BY <1>6 DEF Drained
    <2>5. SUFFICES ASSUME ~disturbed', NEW v \in Units
                   PROVE  \/ /\ \A i \in DOMAIN queue' : queue'[i].device # v
                             /\ lastLocal'[v] = told'[v]
                          \/ \E i \in DOMAIN queue' :
                                /\ queue'[i] = told'[v]
                                /\ \A k \in DOMAIN queue' : k > i => queue'[k].device # v
      BY DEF LatestInv
    <2>6. CASE \A i \in DOMAIN queue : queue[i].device # v
      <3>1. lastLocal[v] = told[v] /\ r.device # v
        BY <1>a, <1>y, <2>2, <2>4, <2>5, <2>6 DEF LatestInv
      <3>2. lastLocal'[v] = told'[v] /\ \A i \in DOMAIN queue' : queue'[i].device # v
        BY <2>2, <2>3, <2>4, <2>6, <3>1
      <3> QED
        BY <3>2
    <2>7. CASE ~\A i \in DOMAIN queue : queue[i].device # v
      <3>1. PICK i \in DOMAIN queue : /\ queue[i] = told[v]
                                     /\ \A k \in DOMAIN queue : k > i => queue[k].device # v
        BY <1>a, <2>4, <2>5, <2>7 DEF LatestInv
      <3>2. CASE i = 1
        <4>1. \A k \in DOMAIN queue' : queue'[k].device # v
          BY <2>2, <3>1, <3>2
        <4> QED
          BY <1>y, <2>2, <2>3, <2>4, <3>1, <3>2, <4>1
      <3>3. CASE i # 1
        <4>1. i - 1 \in DOMAIN queue' /\ queue'[i - 1] = told'[v]
          BY <2>2, <2>4, <3>1, <3>3
        <4>2. \A k \in DOMAIN queue' : k > i - 1 => queue'[k].device # v
          BY <2>2, <3>1, <3>3
        <4> QED
          BY <4>1, <4>2
      <3> QED
        BY <3>2, <3>3
    <2> QED
      BY <2>6, <2>7
  <1>7. CASE Polled
    BY <1>a, <1>y, <1>r, <1>7 DEF Polled, Moved, LatestInv
  <1>8. CASE Replayed
    <2>1. PICK r \in job["poll"].replay :
            /\ r \in Reports /\ Recalls(r)
            /\ Moved("poll", "aggregate", job["poll"].replay \ {r}, FALSE, FALSE, {}, FALSE)
      BY <1>8 DEF Replayed
    <2>2. /\ job["poll"].at = "replay"
          /\ UNCHANGED <<unit, knob, told, queue, known, econoLatch, econoSuspend, hold, shown,
                    wanted, disturbed>>
      BY <1>8 DEF Replayed
    <2>3. r.device \in Units /\ \A u \in Units : lastLocal'[u] = IF u = r.device THEN r ELSE lastLocal[u]
      BY <2>1 DEF Recalls, Reports
    <2>4. ~disturbed => lastLocal' = lastLocal
      <3>1. ASSUME ~disturbed
            PROVE  \A u \in Units : lastLocal'[u] = lastLocal[u]
        BY <1>a, <2>1, <2>3, <3>1 DEF RenderInv
      <3>2. lastLocal \in [Units -> Reports] /\ lastLocal' \in [Units -> Reports]
        BY <1>a, <1>c DEF TypeOK
      <3> QED
        BY <3>1, <3>2
    <2> QED
      BY <1>a, <2>2, <2>4 DEF LatestInv
  <1>9. CASE Begins
    BY <1>a, <1>y, <1>r, <1>9 DEF Begins, Moved, LatestInv
  <1>10. ASSUME NEW g \in Renderers, Aggregated(g)
        PROVE  LatestInv'
    BY <1>a, <1>y, <1>r, <1>10 DEF Aggregated, Finishes, Stops, Goes, Moved, LatestInv
  <1>11. ASSUME NEW g \in Renderers, Reconciled(g)
        PROVE  LatestInv'
    BY <1>a, <1>y, <1>r, <1>11 DEF Reconciled, Moved, LatestInv
  <1>12. ASSUME NEW g \in Renderers, Combined(g)
        PROVE  LatestInv'
    BY <1>a, <1>y, <1>r, <1>12 DEF Combined, Moved, LatestInv
  <1>13. ASSUME NEW g \in Renderers, Resolved(g)
        PROVE  LatestInv'
    BY <1>a, <1>y, <1>r, <1>13 DEF Resolved, Goes, Moved, LatestInv
  <1>14. ASSUME NEW g \in Renderers, Displays(g)
        PROVE  LatestInv'
    BY <1>a, <1>y, <1>r, <1>14 DEF Displays, Finishes, Stops, Goes, Moved, LatestInv
  <1>15. ASSUME NEW g \in Goroutines, Commanded(g)
        PROVE  LatestInv'
    BY <1>a, <1>y, <1>r, <1>15 DEF Commanded, Moved, LatestInv
  <1>16. ASSUME NEW g \in Goroutines, Failed(g)
        PROVE  LatestInv'
    BY <1>a, <1>y, <1>r, <1>16 DEF Failed, Served, Stops, Moved, LatestInv
  <1>17. ASSUME NEW g \in Goroutines, Notes(g)
        PROVE  LatestInv'
    BY <1>a, <1>y, <1>r, <1>17 DEF Notes, Served, Goes, Moved, LatestInv
  <1>18. ASSUME NEW g \in Goroutines, HoldsBack(g)
        PROVE  LatestInv'
    BY <1>a, <1>y, <1>r, <1>18 DEF HoldsBack, Goes, Moved, LatestInv
  <1>19. ASSUME NEW g \in Goroutines, Reflects(g)
        PROVE  LatestInv'
    BY <1>a, <1>y, <1>r, <1>19 DEF Reflects, Stops, Moved, LatestInv
  <1>20. CASE Cleared
    BY <1>a, <1>y, <1>r, <1>20 DEF Cleared, Proceeds, Moved, LatestInv
  <1>21. CASE ClearFailed
    BY <1>a, <1>y, <1>r, <1>21 DEF ClearFailed, Proceeds, Stops, Moved, LatestInv
  <1>22. CASE Forgotten
    BY <1>a, <1>y, <1>r, <1>22 DEF Forgotten, Stops, Moved, LatestInv
  <1>23. CASE UNCHANGED vars
    BY <1>a, <1>y, <1>r, <1>23 DEF vars, house, memory, display, history, LatestInv
  <1> QED
    BY <1>b, <1>1, <1>2, <1>3, <1>4, <1>5, <1>6, <1>7, <1>8, <1>9, <1>10, <1>11, <1>12, <1>13,
       <1>14, <1>15, <1>16, <1>17, <1>18, <1>19, <1>20, <1>21, <1>22, <1>23
       DEF Does

\* A boost is reported by a unit that runs.
LEMMA ReportStep == IInv /\ [Next]_vars => ReportInv'
  <1> SUFFICES ASSUME IInv, [Next]_vars
               PROVE  ReportInv'
    OBVIOUS
  <1> USE DEF At, Idle, Renderers, Goroutines
  <1>a. /\ TypeOK /\ LatestInv /\ ReportInv /\ RenderInv /\ Places /\ ApartInv
        /\ BoostInv /\ StaleInv /\ KnobInv /\ OffInv /\ LatchInv /\ ShownInv
    BY DEF IInv
  <1>b. Does \/ UNCHANGED vars
    BY <1>a, NextDoes
  <1>c. TypeOK'
    BY <1>a, TypeStep
  <1>y. /\ \A u \in Units : /\ told[u] \in Reports /\ lastLocal[u] \in Reports /\ unit[u] \in {"off", "on", "boost"}
                           /\ told[u].device = u /\ lastLocal[u].device = u
        /\ knob \in BOOLEAN /\ econoLatch \in BOOLEAN /\ wanted \in BOOLEAN
    BY <1>a DEF TypeOK
  <1>t. /\ \A g \in Goroutines : job[g].boost \in BOOLEAN /\ job[g].value \in BOOLEAN /\ job[g].written \in BOOLEAN
        /\ econoSuspend.boosting \in BOOLEAN /\ econoSuspend.pending \in BOOLEAN
        /\ hold.value \in BOOLEAN
    BY <1>a DEF TypeOK, Locals
  <1>T. /\ \A g \in Goroutines : job'[g].boost \in BOOLEAN /\ job'[g].value \in BOOLEAN /\ job'[g].written \in BOOLEAN
        /\ econoSuspend'.boosting \in BOOLEAN /\ econoSuspend'.pending \in BOOLEAN
        /\ hold'.value \in BOOLEAN
        /\ knob' \in BOOLEAN /\ econoLatch' \in BOOLEAN /\ wanted' \in BOOLEAN
    BY <1>c DEF TypeOK, Locals
  <1>s. (BoostInSight <=> ~Calm) /\ (BoostInSight' <=> ~Calm')
    BY <1>a, <1>c, CalmIs
  <1>g. GroupEcono \in BOOLEAN /\ GroupEcono' \in BOOLEAN /\ GroupBoost \in BOOLEAN
    BY <1>a, <1>c, AggregateType, Frames DEF TypeOK, GroupEcono
  <1>r. \A u \in Units : /\ Status(u) \in Reports /\ Status(u).device = u
                        /\ (Status(u).on <=> unit[u] # "off") /\ (Status(u).econo <=> unit[u] # "off" /\ knob)
                        /\ (Status(u).boost <=> unit[u] = "boost")
    BY <1>a, StatusType
  <1>1. ASSUME NEW u \in Units, NEW to \in {"off", "on"}, Turned(u, to)
        PROVE  ReportInv'
    BY <1>a, <1>y, <1>r, <1>1 DEF Turned, Becomes, ReportInv
  <1>2. ASSUME NEW u \in Units, Boosted(u)
        PROVE  ReportInv'
    BY <1>a, <1>y, <1>r, <1>2 DEF Boosted, Becomes, ReportInv
  <1>3. ASSUME NEW u \in Units, Chosen(u)
        PROVE  ReportInv'
    BY <1>a, <1>y, <1>r, <1>3 DEF Chosen, ReportInv
  <1>4. ASSUME NEW u \in Units, Told(u)
        PROVE  ReportInv'
    <2>1. told'[u] = Status(u) /\ \A v \in Units : v # u => told'[v] = told[v]
      BY <1>4 DEF Told
    <2>2. UNCHANGED <<unit, knob, known, lastLocal, econoLatch, econoSuspend, hold, shown, job,
                    wanted>>
      BY <1>4 DEF Told
    <2>3. SUFFICES ASSUME ~disturbed'
                   PROVE  ReportInv'
      BY DEF ReportInv
    <2>4. ~disturbed
      BY <1>4, <2>3 DEF Told
    <2>5. PICK n \in Nat : /\ Holds(n) /\ Holds(n + 1)'
                          /\ queue'[n + 1] = Status(u) /\ \A i \in 1..n : queue'[i] = queue[i]
      BY <1>4, <2>3 DEF Told
    <2>6. /\ DOMAIN queue = 1..n /\ (DOMAIN queue') = 1..(n + 1)
          /\ n + 1 \in DOMAIN queue' /\ queue'[n + 1] = Status(u)
          /\ \A i \in DOMAIN queue' : i = n + 1 \/ (i \in DOMAIN queue /\ queue'[i] = queue[i])
          /\ \A i \in DOMAIN queue : i \in DOMAIN queue' /\ queue'[i] = queue[i]
      BY <2>5 DEF Holds
    <2> QED
      BY <1>a, <1>r, <2>1, <2>2, <2>4, <2>6 DEF ReportInv
  <1>5. CASE Expires
    BY <1>a, <1>y, <1>r, <1>5 DEF Expires, ReportInv
  <1>6. CASE Drained
    <2>1. PICK r \in Reports, n \in Nat :
            /\ Holds(n + 1) /\ Holds(n)' /\ r = queue[1] /\ \A i \in 1..n : queue'[i] = queue[i + 1]
            /\ Recalls(r)
      BY <1>6 DEF Drained
    <2>2. /\ 1 \in DOMAIN queue /\ r = queue[1] /\ DOMAIN queue = 1..(n + 1)
          /\ (DOMAIN queue') = 1..n
          /\ \A i \in DOMAIN queue' : i + 1 \in DOMAIN queue /\ queue'[i] = queue[i + 1]
      BY <2>1 DEF Holds
    <2>3. r.device \in Units /\ \A u \in Units : lastLocal'[u] = IF u = r.device THEN r ELSE lastLocal[u]
      BY <2>1 DEF Recalls, Reports
    <2>4. /\ job["drain"].at = "idle" /\ Moved("drain", "aggregate", {}, FALSE, FALSE, {}, FALSE)
          /\ ~disturbed' => ~disturbed /\ job["poll"].at = "idle"
          /\ UNCHANGED <<unit, knob, told, known, econoLatch, econoSuspend, hold, shown, wanted>>
      BY <1>6 DEF Drained
    <2> QED
      BY <1>a, <2>2, <2>3, <2>4 DEF ReportInv
  <1>7. CASE Polled
    BY <1>a, <1>y, <1>r, <1>7 DEF Polled, Moved, ReportInv
  <1>8. CASE Replayed
    <2>1. PICK r \in job["poll"].replay :
            /\ r \in Reports /\ Recalls(r)
            /\ Moved("poll", "aggregate", job["poll"].replay \ {r}, FALSE, FALSE, {}, FALSE)
      BY <1>8 DEF Replayed
    <2>2. /\ job["poll"].at = "replay"
          /\ UNCHANGED <<unit, knob, told, queue, known, econoLatch, econoSuspend, hold, shown,
                    wanted, disturbed>>
      BY <1>8 DEF Replayed
    <2>3. r.device \in Units /\ \A u \in Units : lastLocal'[u] = IF u = r.device THEN r ELSE lastLocal[u]
      BY <2>1 DEF Recalls, Reports
    <2> QED
      BY <1>a, <2>1, <2>2, <2>3 DEF ReportInv, RenderInv
  <1>9. CASE Begins
    BY <1>a, <1>y, <1>r, <1>9 DEF Begins, Moved, ReportInv
  <1>10. ASSUME NEW g \in Renderers, Aggregated(g)
        PROVE  ReportInv'
    BY <1>a, <1>y, <1>r, <1>10 DEF Aggregated, Finishes, Stops, Goes, Moved, ReportInv
  <1>11. ASSUME NEW g \in Renderers, Reconciled(g)
        PROVE  ReportInv'
    BY <1>a, <1>y, <1>r, <1>11 DEF Reconciled, Moved, ReportInv
  <1>12. ASSUME NEW g \in Renderers, Combined(g)
        PROVE  ReportInv'
    BY <1>a, <1>y, <1>r, <1>12 DEF Combined, Moved, ReportInv
  <1>13. ASSUME NEW g \in Renderers, Resolved(g)
        PROVE  ReportInv'
    BY <1>a, <1>y, <1>r, <1>13 DEF Resolved, Goes, Moved, ReportInv
  <1>14. ASSUME NEW g \in Renderers, Displays(g)
        PROVE  ReportInv'
    BY <1>a, <1>y, <1>r, <1>14 DEF Displays, Finishes, Stops, Goes, Moved, ReportInv
  <1>15. ASSUME NEW g \in Goroutines, Commanded(g)
        PROVE  ReportInv'
    BY <1>a, <1>y, <1>r, <1>15 DEF Commanded, Moved, ReportInv
  <1>16. ASSUME NEW g \in Goroutines, Failed(g)
        PROVE  ReportInv'
    BY <1>a, <1>y, <1>r, <1>16 DEF Failed, Served, Stops, Moved, ReportInv
  <1>17. ASSUME NEW g \in Goroutines, Notes(g)
        PROVE  ReportInv'
    BY <1>a, <1>y, <1>r, <1>17 DEF Notes, Served, Goes, Moved, ReportInv
  <1>18. ASSUME NEW g \in Goroutines, HoldsBack(g)
        PROVE  ReportInv'
    BY <1>a, <1>y, <1>r, <1>18 DEF HoldsBack, Goes, Moved, ReportInv
  <1>19. ASSUME NEW g \in Goroutines, Reflects(g)
        PROVE  ReportInv'
    BY <1>a, <1>y, <1>r, <1>19 DEF Reflects, Stops, Moved, ReportInv
  <1>20. CASE Cleared
    BY <1>a, <1>y, <1>r, <1>20 DEF Cleared, Proceeds, Moved, ReportInv
  <1>21. CASE ClearFailed
    BY <1>a, <1>y, <1>r, <1>21 DEF ClearFailed, Proceeds, Stops, Moved, ReportInv
  <1>22. CASE Forgotten
    BY <1>a, <1>y, <1>r, <1>22 DEF Forgotten, Stops, Moved, ReportInv
  <1>23. CASE UNCHANGED vars
    BY <1>a, <1>y, <1>r, <1>23 DEF vars, house, memory, display, history, ReportInv
  <1> QED
    BY <1>b, <1>1, <1>2, <1>3, <1>4, <1>5, <1>6, <1>7, <1>8, <1>9, <1>10, <1>11, <1>12, <1>13,
       <1>14, <1>15, <1>16, <1>17, <1>18, <1>19, <1>20, <1>21, <1>22, <1>23
       DEF Does

\* The drain and a replay take turns.
LEMMA RenderStep == IInv /\ [Next]_vars => RenderInv'
  <1> SUFFICES ASSUME IInv, [Next]_vars
               PROVE  RenderInv'
    OBVIOUS
  <1> USE DEF At, Idle, Renderers, Goroutines
  <1>a. /\ TypeOK /\ LatestInv /\ ReportInv /\ RenderInv /\ Places /\ ApartInv
        /\ BoostInv /\ StaleInv /\ KnobInv /\ OffInv /\ LatchInv /\ ShownInv
    BY DEF IInv
  <1>b. Does \/ UNCHANGED vars
    BY <1>a, NextDoes
  <1>c. TypeOK'
    BY <1>a, TypeStep
  <1>y. /\ \A u \in Units : /\ told[u] \in Reports /\ lastLocal[u] \in Reports /\ unit[u] \in {"off", "on", "boost"}
                           /\ told[u].device = u /\ lastLocal[u].device = u
        /\ knob \in BOOLEAN /\ econoLatch \in BOOLEAN /\ wanted \in BOOLEAN
    BY <1>a DEF TypeOK
  <1>t. /\ \A g \in Goroutines : job[g].boost \in BOOLEAN /\ job[g].value \in BOOLEAN /\ job[g].written \in BOOLEAN
        /\ econoSuspend.boosting \in BOOLEAN /\ econoSuspend.pending \in BOOLEAN
        /\ hold.value \in BOOLEAN
    BY <1>a DEF TypeOK, Locals
  <1>T. /\ \A g \in Goroutines : job'[g].boost \in BOOLEAN /\ job'[g].value \in BOOLEAN /\ job'[g].written \in BOOLEAN
        /\ econoSuspend'.boosting \in BOOLEAN /\ econoSuspend'.pending \in BOOLEAN
        /\ hold'.value \in BOOLEAN
        /\ knob' \in BOOLEAN /\ econoLatch' \in BOOLEAN /\ wanted' \in BOOLEAN
    BY <1>c DEF TypeOK, Locals
  <1>s. (BoostInSight <=> ~Calm) /\ (BoostInSight' <=> ~Calm')
    BY <1>a, <1>c, CalmIs
  <1>g. GroupEcono \in BOOLEAN /\ GroupEcono' \in BOOLEAN /\ GroupBoost \in BOOLEAN
    BY <1>a, <1>c, AggregateType, Frames DEF TypeOK, GroupEcono
  <1>r. \A u \in Units : /\ Status(u) \in Reports /\ Status(u).device = u
                        /\ (Status(u).on <=> unit[u] # "off") /\ (Status(u).econo <=> unit[u] # "off" /\ knob)
                        /\ (Status(u).boost <=> unit[u] = "boost")
    BY <1>a, StatusType
  <1>1. ASSUME NEW u \in Units, NEW to \in {"off", "on"}, Turned(u, to)
        PROVE  RenderInv'
    BY <1>a, <1>y, <1>r, <1>1 DEF Turned, Becomes, RenderInv
  <1>2. ASSUME NEW u \in Units, Boosted(u)
        PROVE  RenderInv'
    BY <1>a, <1>y, <1>r, <1>2 DEF Boosted, Becomes, RenderInv
  <1>3. ASSUME NEW u \in Units, Chosen(u)
        PROVE  RenderInv'
    BY <1>a, <1>y, <1>r, <1>3 DEF Chosen, RenderInv
  <1>4. ASSUME NEW u \in Units, Told(u)
        PROVE  RenderInv'
    BY <1>a, <1>y, <1>r, <1>4 DEF Told, Holds, RenderInv
  <1>5. CASE Expires
    BY <1>a, <1>y, <1>r, <1>5 DEF Expires, RenderInv
  <1>6. CASE Drained
    <2>1. PICK r \in Reports, n \in Nat :
            /\ Holds(n + 1) /\ Holds(n)' /\ r = queue[1] /\ \A i \in 1..n : queue'[i] = queue[i + 1]
            /\ Recalls(r)
      BY <1>6 DEF Drained
    <2>2. /\ 1 \in DOMAIN queue /\ r = queue[1] /\ DOMAIN queue = 1..(n + 1)
          /\ (DOMAIN queue') = 1..n
          /\ \A i \in DOMAIN queue' : i + 1 \in DOMAIN queue /\ queue'[i] = queue[i + 1]
      BY <2>1 DEF Holds
    <2>3. r.device \in Units /\ \A u \in Units : lastLocal'[u] = IF u = r.device THEN r ELSE lastLocal[u]
      BY <2>1 DEF Recalls, Reports
    <2>4. /\ job["drain"].at = "idle" /\ Moved("drain", "aggregate", {}, FALSE, FALSE, {}, FALSE)
          /\ ~disturbed' => ~disturbed /\ job["poll"].at = "idle"
          /\ UNCHANGED <<unit, knob, told, known, econoLatch, econoSuspend, hold, shown, wanted>>
      BY <1>6 DEF Drained
    <2> QED
      BY <1>a, <2>2, <2>3, <2>4 DEF RenderInv, Moved
  <1>7. CASE Polled
    <2>1. \A r \in {lastLocal[u] : u \in Units} : lastLocal[r.device] = r
      BY <1>y
    <2>2. {lastLocal[u] : u \in Units} # {}
      BY EconoConstants
    <2> QED
      BY <1>a, <1>7, <2>1, <2>2 DEF Polled, Moved, RenderInv
  <1>8. CASE Replayed
    <2>1. PICK r \in job["poll"].replay :
            /\ r \in Reports /\ Recalls(r)
            /\ Moved("poll", "aggregate", job["poll"].replay \ {r}, FALSE, FALSE, {}, FALSE)
      BY <1>8 DEF Replayed
    <2>2. /\ job["poll"].at = "replay"
          /\ UNCHANGED <<unit, knob, told, queue, known, econoLatch, econoSuspend, hold, shown,
                    wanted, disturbed>>
      BY <1>8 DEF Replayed
    <2>3. r.device \in Units /\ \A u \in Units : lastLocal'[u] = IF u = r.device THEN r ELSE lastLocal[u]
      BY <2>1 DEF Recalls, Reports
    <2>4. job["poll"].replay \subseteq Reports /\ \A x \in Reports : x.device \in Units
      BY <1>a DEF TypeOK, Locals, Reports
    <2>5. ~disturbed => \A x \in job["poll"].replay : lastLocal'[x.device] = x
      BY <1>a, <2>1, <2>3, <2>4 DEF RenderInv
    <2> QED
      BY <1>a, <2>1, <2>2, <2>5 DEF RenderInv, Moved
  <1>9. CASE Begins
    BY <1>a, <1>y, <1>r, <1>9 DEF Begins, Moved, RenderInv
  <1>10. ASSUME NEW g \in Renderers, Aggregated(g)
        PROVE  RenderInv'
    BY <1>a, <1>y, <1>r, <1>10 DEF Aggregated, Finishes, Stops, Goes, Moved, RenderInv
  <1>11. ASSUME NEW g \in Renderers, Reconciled(g)
        PROVE  RenderInv'
    BY <1>a, <1>y, <1>r, <1>11 DEF Reconciled, Moved, RenderInv
  <1>12. ASSUME NEW g \in Renderers, Combined(g)
        PROVE  RenderInv'
    BY <1>a, <1>y, <1>r, <1>12 DEF Combined, Moved, RenderInv
  <1>13. ASSUME NEW g \in Renderers, Resolved(g)
        PROVE  RenderInv'
    BY <1>a, <1>y, <1>r, <1>13 DEF Resolved, Goes, Moved, RenderInv
  <1>14. ASSUME NEW g \in Renderers, Displays(g)
        PROVE  RenderInv'
    BY <1>a, <1>y, <1>r, <1>14 DEF Displays, Finishes, Stops, Goes, Moved, RenderInv
  <1>15. ASSUME NEW g \in Goroutines, Commanded(g)
        PROVE  RenderInv'
    BY <1>a, <1>y, <1>r, <1>15 DEF Commanded, Moved, RenderInv
  <1>16. ASSUME NEW g \in Goroutines, Failed(g)
        PROVE  RenderInv'
    BY <1>a, <1>y, <1>r, <1>16 DEF Failed, Served, Stops, Moved, RenderInv
  <1>17. ASSUME NEW g \in Goroutines, Notes(g)
        PROVE  RenderInv'
    BY <1>a, <1>y, <1>r, <1>17 DEF Notes, Served, Goes, Moved, RenderInv
  <1>18. ASSUME NEW g \in Goroutines, HoldsBack(g)
        PROVE  RenderInv'
    BY <1>a, <1>y, <1>r, <1>18 DEF HoldsBack, Goes, Moved, RenderInv
  <1>19. ASSUME NEW g \in Goroutines, Reflects(g)
        PROVE  RenderInv'
    BY <1>a, <1>y, <1>r, <1>19 DEF Reflects, Stops, Moved, RenderInv
  <1>20. CASE Cleared
    BY <1>a, <1>y, <1>r, <1>20 DEF Cleared, Proceeds, Moved, RenderInv
  <1>21. CASE ClearFailed
    BY <1>a, <1>y, <1>r, <1>21 DEF ClearFailed, Proceeds, Stops, Moved, RenderInv
  <1>22. CASE Forgotten
    BY <1>a, <1>y, <1>r, <1>22 DEF Forgotten, Stops, Moved, RenderInv
  <1>23. CASE UNCHANGED vars
    BY <1>a, <1>y, <1>r, <1>23 DEF vars, house, memory, display, history, RenderInv
  <1> QED
    BY <1>b, <1>1, <1>2, <1>3, <1>4, <1>5, <1>6, <1>7, <1>8, <1>9, <1>10, <1>11, <1>12, <1>13,
       <1>14, <1>15, <1>16, <1>17, <1>18, <1>19, <1>20, <1>21, <1>22, <1>23
       DEF Does

\* Each goroutine keeps to its own places.
LEMMA PlacesStep == IInv /\ [Next]_vars => Places'
  <1> SUFFICES ASSUME IInv, [Next]_vars
               PROVE  Places'
    OBVIOUS
  <1> USE DEF At, Idle, Renderers, Goroutines
  <1>a. /\ TypeOK /\ LatestInv /\ ReportInv /\ RenderInv /\ Places /\ ApartInv
        /\ BoostInv /\ StaleInv /\ KnobInv /\ OffInv /\ LatchInv /\ ShownInv
    BY DEF IInv
  <1>b. Does \/ UNCHANGED vars
    BY <1>a, NextDoes
  <1>c. TypeOK'
    BY <1>a, TypeStep
  <1>y. /\ \A u \in Units : /\ told[u] \in Reports /\ lastLocal[u] \in Reports /\ unit[u] \in {"off", "on", "boost"}
                           /\ told[u].device = u /\ lastLocal[u].device = u
        /\ knob \in BOOLEAN /\ econoLatch \in BOOLEAN /\ wanted \in BOOLEAN
    BY <1>a DEF TypeOK
  <1>t. /\ \A g \in Goroutines : job[g].boost \in BOOLEAN /\ job[g].value \in BOOLEAN /\ job[g].written \in BOOLEAN
        /\ econoSuspend.boosting \in BOOLEAN /\ econoSuspend.pending \in BOOLEAN
        /\ hold.value \in BOOLEAN
    BY <1>a DEF TypeOK, Locals
  <1>T. /\ \A g \in Goroutines : job'[g].boost \in BOOLEAN /\ job'[g].value \in BOOLEAN /\ job'[g].written \in BOOLEAN
        /\ econoSuspend'.boosting \in BOOLEAN /\ econoSuspend'.pending \in BOOLEAN
        /\ hold'.value \in BOOLEAN
        /\ knob' \in BOOLEAN /\ econoLatch' \in BOOLEAN /\ wanted' \in BOOLEAN
    BY <1>c DEF TypeOK, Locals
  <1>s. (BoostInSight <=> ~Calm) /\ (BoostInSight' <=> ~Calm')
    BY <1>a, <1>c, CalmIs
  <1>g. GroupEcono \in BOOLEAN /\ GroupEcono' \in BOOLEAN /\ GroupBoost \in BOOLEAN
    BY <1>a, <1>c, AggregateType, Frames DEF TypeOK, GroupEcono
  <1>r. \A u \in Units : /\ Status(u) \in Reports /\ Status(u).device = u
                        /\ (Status(u).on <=> unit[u] # "off") /\ (Status(u).econo <=> unit[u] # "off" /\ knob)
                        /\ (Status(u).boost <=> unit[u] = "boost")
    BY <1>a, StatusType
  <1>1. ASSUME NEW u \in Units, NEW to \in {"off", "on"}, Turned(u, to)
        PROVE  Places'
    BY <1>a, <1>t, <1>T, <1>1 DEF Turned, Becomes, Places
  <1>2. ASSUME NEW u \in Units, Boosted(u)
        PROVE  Places'
    BY <1>a, <1>t, <1>T, <1>2 DEF Boosted, Becomes, Places
  <1>3. ASSUME NEW u \in Units, Chosen(u)
        PROVE  Places'
    BY <1>a, <1>t, <1>T, <1>3 DEF Chosen, Places
  <1>4. ASSUME NEW u \in Units, Told(u)
        PROVE  Places'
    BY <1>a, <1>t, <1>T, <1>4 DEF Told, Holds, Places
  <1>5. CASE Expires
    BY <1>a, <1>t, <1>T, <1>5 DEF Expires, Places
  <1>6. CASE Drained
    BY <1>a, <1>t, <1>T, <1>6 DEF Drained, Holds, Recalls, Moved, Places
  <1>7. CASE Polled
    BY <1>a, <1>t, <1>T, <1>7 DEF Polled, Moved, Places
  <1>8. CASE Replayed
    BY <1>a, <1>t, <1>T, <1>8 DEF Replayed, Recalls, Moved, Places
  <1>9. CASE Begins
    BY <1>a, <1>t, <1>T, <1>9 DEF Begins, Moved, Places
  <1>10. ASSUME NEW g \in Renderers, Aggregated(g)
        PROVE  Places'
    BY <1>a, <1>t, <1>T, <1>10 DEF Aggregated, Finishes, Stops, Goes, Moved, Places
  <1>11. ASSUME NEW g \in Renderers, Reconciled(g)
        PROVE  Places'
    BY <1>a, <1>t, <1>T, <1>11 DEF Reconciled, Moved, Places
  <1>12. ASSUME NEW g \in Renderers, Combined(g)
        PROVE  Places'
    BY <1>a, <1>t, <1>T, <1>12 DEF Combined, Moved, Places
  <1>13. ASSUME NEW g \in Renderers, Resolved(g)
        PROVE  Places'
    BY <1>a, <1>t, <1>T, <1>13 DEF Resolved, Goes, Moved, Places
  <1>14. ASSUME NEW g \in Renderers, Displays(g)
        PROVE  Places'
    BY <1>a, <1>t, <1>T, <1>14 DEF Displays, Finishes, Stops, Goes, Moved, Places
  <1>15. ASSUME NEW g \in Goroutines, Commanded(g)
        PROVE  Places'
    <2>1. PICK u \in NextUnit(g) :
            Moved(g, "note", job[g].replay, job[g].boost, job[g].value, job[g].todo \ {u},
                  job[g].written \/ job[g].todo = Units)
      BY <1>15 DEF Commanded
    <2>2. job[g].at = "command" /\ known' = known
      BY <1>15 DEF Commanded
    <2>3. CASE g # "write"
      BY <1>a, <1>t, <1>T, <2>1, <2>2, <2>3 DEF Moved, Places
    <2>4. CASE g = "write"
      <3>1. job'["write"].written
        BY <1>a, <1>t, <1>T, <2>1, <2>2, <2>4 DEF Moved, Places
      <3>2. job'["write"].todo # Units
        <4>1. CASE job["write"].written
          <5>1. job["write"].todo # Units
            BY <1>a, <2>2, <2>4, <4>1 DEF Places
          <5>2. job["write"].todo \subseteq Units
            BY <1>a DEF TypeOK, Locals
          <5>3. job'["write"].todo = job["write"].todo \ {u}
            BY <2>1, <2>4 DEF Moved
          <5> QED
            BY <5>1, <5>2, <5>3
        <4>2. CASE ~job["write"].written
          <5>1. u \in Units
            BY <1>a, <2>1, <2>2, <2>4, <4>2 DEF Places, NextUnit, Origin
          <5> QED
            BY <2>1, <2>4, <5>1 DEF Moved
        <4> QED
          BY <4>1, <4>2
      <3> QED
        BY <1>a, <1>t, <1>T, <2>1, <2>2, <2>4, <3>1, <3>2 DEF Moved, Places
    <2> QED
      BY <2>3, <2>4
  <1>16. ASSUME NEW g \in Goroutines, Failed(g)
        PROVE  Places'
    <2>1. \A v : job["write"].todo # Units => job["write"].todo \ {v} # Units
      BY <1>a DEF TypeOK, Locals
    <2> QED
      BY <1>a, <1>t, <1>T, <1>16, <2>1 DEF Failed, Served, Stops, Moved, Places
  <1>17. ASSUME NEW g \in Goroutines, Notes(g)
        PROVE  Places'
    BY <1>a, <1>t, <1>T, <1>17 DEF Notes, Served, Goes, Moved, Places
  <1>18. ASSUME NEW g \in Goroutines, HoldsBack(g)
        PROVE  Places'
    BY <1>a, <1>t, <1>T, <1>18 DEF HoldsBack, Goes, Moved, Places
  <1>19. ASSUME NEW g \in Goroutines, Reflects(g)
        PROVE  Places'
    BY <1>a, <1>t, <1>T, <1>19 DEF Reflects, Stops, Moved, Places
  <1>20. CASE Cleared
    BY <1>a, <1>t, <1>T, <1>20 DEF Cleared, Proceeds, Moved, Places
  <1>21. CASE ClearFailed
    BY <1>a, <1>t, <1>T, <1>21 DEF ClearFailed, Proceeds, Stops, Moved, Places
  <1>22. CASE Forgotten
    BY <1>a, <1>t, <1>T, <1>22 DEF Forgotten, Stops, Moved, Places
  <1>23. CASE UNCHANGED vars
    BY <1>a, <1>t, <1>T, <1>23 DEF vars, house, memory, display, history, Places
  <1> QED
    BY <1>b, <1>1, <1>2, <1>3, <1>4, <1>5, <1>6, <1>7, <1>8, <1>9, <1>10, <1>11, <1>12, <1>13,
       <1>14, <1>15, <1>16, <1>17, <1>18, <1>19, <1>20, <1>21, <1>22, <1>23
       DEF Does

\* Nobody begins to write while a boost is in sight, and none begins while somebody writes.
LEMMA ApartStep == IInv /\ [Next]_vars => ApartInv'
  <1> SUFFICES ASSUME IInv, [Next]_vars
               PROVE  ApartInv'
    OBVIOUS
  <1> USE DEF At, Idle, Renderers, Goroutines
  <1>a. /\ TypeOK /\ LatestInv /\ ReportInv /\ RenderInv /\ Places /\ ApartInv
        /\ BoostInv /\ StaleInv /\ KnobInv /\ OffInv /\ LatchInv /\ ShownInv
    BY DEF IInv
  <1>b. Does \/ UNCHANGED vars
    BY <1>a, NextDoes
  <1>c. TypeOK'
    BY <1>a, TypeStep
  <1>y. /\ \A u \in Units : /\ told[u] \in Reports /\ lastLocal[u] \in Reports /\ unit[u] \in {"off", "on", "boost"}
                           /\ told[u].device = u /\ lastLocal[u].device = u
        /\ knob \in BOOLEAN /\ econoLatch \in BOOLEAN /\ wanted \in BOOLEAN
    BY <1>a DEF TypeOK
  <1>t. /\ \A g \in Goroutines : job[g].boost \in BOOLEAN /\ job[g].value \in BOOLEAN /\ job[g].written \in BOOLEAN
        /\ econoSuspend.boosting \in BOOLEAN /\ econoSuspend.pending \in BOOLEAN
        /\ hold.value \in BOOLEAN
    BY <1>a DEF TypeOK, Locals
  <1>T. /\ \A g \in Goroutines : job'[g].boost \in BOOLEAN /\ job'[g].value \in BOOLEAN /\ job'[g].written \in BOOLEAN
        /\ econoSuspend'.boosting \in BOOLEAN /\ econoSuspend'.pending \in BOOLEAN
        /\ hold'.value \in BOOLEAN
        /\ knob' \in BOOLEAN /\ econoLatch' \in BOOLEAN /\ wanted' \in BOOLEAN
    BY <1>c DEF TypeOK, Locals
  <1>s. (BoostInSight <=> ~Calm) /\ (BoostInSight' <=> ~Calm')
    BY <1>a, <1>c, CalmIs
  <1>g. GroupEcono \in BOOLEAN /\ GroupEcono' \in BOOLEAN /\ GroupBoost \in BOOLEAN
    BY <1>a, <1>c, AggregateType, Frames DEF TypeOK, GroupEcono
  <1>r. \A u \in Units : /\ Status(u) \in Reports /\ Status(u).device = u
                        /\ (Status(u).on <=> unit[u] # "off") /\ (Status(u).econo <=> unit[u] # "off" /\ knob)
                        /\ (Status(u).boost <=> unit[u] = "boost")
    BY <1>a, StatusType
  <1>1. ASSUME NEW u \in Units, NEW to \in {"off", "on"}, Turned(u, to)
        PROVE  ApartInv'
    BY <1>a, <1>s, <1>t, <1>1 DEF Turned, Becomes, ApartInv, Calm, Pending, GroupEdge, GroupBoost
  <1>2. ASSUME NEW u \in Units, Boosted(u)
        PROVE  ApartInv'
    BY <1>a, <1>s, <1>t, <1>2 DEF Boosted, Becomes, ApartInv, Calm, Pending, GroupEdge, GroupBoost
  <1>3. ASSUME NEW u \in Units, Chosen(u)
        PROVE  ApartInv'
    BY <1>a, <1>s, <1>t, <1>3 DEF Chosen, ApartInv, Calm, Pending, GroupEdge, GroupBoost
  <1>4. ASSUME NEW u \in Units, Told(u)
        PROVE  ApartInv'
    <2>1. told'[u] = Status(u) /\ \A v \in Units : v # u => told'[v] = told[v]
      BY <1>4 DEF Told
    <2>2. UNCHANGED <<unit, knob, known, lastLocal, econoLatch, econoSuspend, hold, shown, job,
                    wanted>>
      BY <1>4 DEF Told
    <2>3. SUFFICES ASSUME ~disturbed'
                   PROVE  ApartInv'
      BY DEF ApartInv
    <2>4. ~disturbed
      BY <1>4, <2>3 DEF Told
    <2>5. PICK n \in Nat : /\ Holds(n) /\ Holds(n + 1)'
                          /\ queue'[n + 1] = Status(u) /\ \A i \in 1..n : queue'[i] = queue[i]
      BY <1>4, <2>3 DEF Told
    <2>6. /\ DOMAIN queue = 1..n /\ (DOMAIN queue') = 1..(n + 1)
          /\ n + 1 \in DOMAIN queue' /\ queue'[n + 1] = Status(u)
          /\ \A i \in DOMAIN queue' : i = n + 1 \/ (i \in DOMAIN queue /\ queue'[i] = queue[i])
          /\ \A i \in DOMAIN queue : i \in DOMAIN queue' /\ queue'[i] = queue[i]
      BY <2>5 DEF Holds
    <2> QED
      BY <1>a, <1>s, <1>r, <2>1, <2>2, <2>4, <2>6 DEF ApartInv, Calm
  <1>5. CASE Expires
    BY <1>a, <1>s, <1>t, <1>5 DEF Expires, ApartInv, Calm, Pending, GroupEdge, GroupBoost
  <1>6. CASE Drained
    <2>1. PICK r \in Reports, n \in Nat :
            /\ Holds(n + 1) /\ Holds(n)' /\ r = queue[1] /\ \A i \in 1..n : queue'[i] = queue[i + 1]
            /\ Recalls(r)
      BY <1>6 DEF Drained
    <2>2. /\ 1 \in DOMAIN queue /\ r = queue[1] /\ DOMAIN queue = 1..(n + 1)
          /\ (DOMAIN queue') = 1..n
          /\ \A i \in DOMAIN queue' : i + 1 \in DOMAIN queue /\ queue'[i] = queue[i + 1]
      BY <2>1 DEF Holds
    <2>3. r.device \in Units /\ \A u \in Units : lastLocal'[u] = IF u = r.device THEN r ELSE lastLocal[u]
      BY <2>1 DEF Recalls, Reports
    <2>4. /\ job["drain"].at = "idle" /\ Moved("drain", "aggregate", {}, FALSE, FALSE, {}, FALSE)
          /\ ~disturbed' => ~disturbed /\ job["poll"].at = "idle"
          /\ UNCHANGED <<unit, knob, told, known, econoLatch, econoSuspend, hold, shown, wanted>>
      BY <1>6 DEF Drained
    <2> QED
      BY <1>a, <1>s, <2>2, <2>3, <2>4 DEF Moved, ApartInv, Calm
  <1>7. CASE Polled
    BY <1>a, <1>s, <1>t, <1>7 DEF Polled, Moved, ApartInv, Calm, Pending, GroupEdge, GroupBoost
  <1>8. CASE Replayed
    BY <1>a, <1>s, <1>t, <1>8
       DEF Replayed, Recalls, Moved, ApartInv, Calm, Pending, GroupEdge, GroupBoost
  <1>9. CASE Begins
    BY <1>a, <1>s, <1>t, <1>9 DEF Begins, Moved, ApartInv, Calm, Pending, GroupEdge, GroupBoost
  <1>10. ASSUME NEW g \in Renderers, Aggregated(g)
        PROVE  ApartInv'
    BY <1>a, <1>s, <1>t, <1>10
       DEF Aggregated, Finishes, Stops, Goes, Moved, ApartInv, Calm, Pending, GroupEdge, GroupBoost
  <1>11. ASSUME NEW g \in Renderers, Reconciled(g)
        PROVE  ApartInv'
    BY <1>a, <1>s, <1>t, <1>11 DEF Reconciled, Moved, ApartInv, Calm, Pending, GroupEdge, GroupBoost
  <1>12. ASSUME NEW g \in Renderers, Combined(g)
        PROVE  ApartInv'
    BY <1>a, <1>s, <1>t, <1>12 DEF Combined, Moved, ApartInv, Calm, Pending, GroupEdge, GroupBoost
  <1>13. ASSUME NEW g \in Renderers, Resolved(g)
        PROVE  ApartInv'
    BY <1>a, <1>s, <1>t, <1>13
       DEF Resolved, Goes, Moved, ApartInv, Calm, Pending, GroupEdge, GroupBoost
  <1>14. ASSUME NEW g \in Renderers, Displays(g)
        PROVE  ApartInv'
    BY <1>a, <1>s, <1>t, <1>14
       DEF Displays, Finishes, Stops, Goes, Moved, ApartInv, Calm, Pending, GroupEdge, GroupBoost
  <1>15. ASSUME NEW g \in Goroutines, Commanded(g)
        PROVE  ApartInv'
    BY <1>a, <1>s, <1>t, <1>15 DEF Commanded, Moved, ApartInv, Calm, Pending, GroupEdge, GroupBoost
  <1>16. ASSUME NEW g \in Goroutines, Failed(g)
        PROVE  ApartInv'
    BY <1>a, <1>s, <1>t, <1>16
       DEF Failed, Served, Stops, Moved, ApartInv, Calm, Pending, GroupEdge, GroupBoost
  <1>17. ASSUME NEW g \in Goroutines, Notes(g)
        PROVE  ApartInv'
    BY <1>a, <1>s, <1>t, <1>17
       DEF Notes, Served, Goes, Moved, ApartInv, Calm, Pending, GroupEdge, GroupBoost
  <1>18. ASSUME NEW g \in Goroutines, HoldsBack(g)
        PROVE  ApartInv'
    BY <1>a, <1>s, <1>t, <1>18
       DEF HoldsBack, Goes, Moved, ApartInv, Calm, Pending, GroupEdge, GroupBoost
  <1>19. ASSUME NEW g \in Goroutines, Reflects(g)
        PROVE  ApartInv'
    BY <1>a, <1>s, <1>t, <1>19
       DEF Reflects, Stops, Moved, ApartInv, Calm, Pending, GroupEdge, GroupBoost
  <1>20. CASE Cleared
    BY <1>a, <1>s, <1>t, <1>20
       DEF Cleared, Proceeds, Moved, ApartInv, Calm, Pending, GroupEdge, GroupBoost
  <1>21. CASE ClearFailed
    BY <1>a, <1>s, <1>t, <1>21
       DEF ClearFailed, Proceeds, Stops, Moved, ApartInv, Calm, Pending, GroupEdge, GroupBoost
  <1>22. CASE Forgotten
    BY <1>a, <1>s, <1>t, <1>22
       DEF Forgotten, Stops, Moved, ApartInv, Calm, Pending, GroupEdge, GroupBoost
  <1>23. CASE UNCHANGED vars
    BY <1>a, <1>s, <1>t, <1>23
       DEF vars, house, memory, display, history, ApartInv, Calm, Pending, GroupEdge, GroupBoost
  <1> QED
    BY <1>b, <1>1, <1>2, <1>3, <1>4, <1>5, <1>6, <1>7, <1>8, <1>9, <1>10, <1>11, <1>12, <1>13,
       <1>14, <1>15, <1>16, <1>17, <1>18, <1>19, <1>20, <1>21, <1>22, <1>23
       DEF Does

\* What the coordinator holds of boosts is what it was last told.
LEMMA BoostStep == IInv /\ [Next]_vars => BoostInv'
  <1> SUFFICES ASSUME IInv, [Next]_vars
               PROVE  BoostInv'
    OBVIOUS
  <1> USE DEF At, Idle, Renderers, Goroutines
  <1>a. /\ TypeOK /\ LatestInv /\ ReportInv /\ RenderInv /\ Places /\ ApartInv
        /\ BoostInv /\ StaleInv /\ KnobInv /\ OffInv /\ LatchInv /\ ShownInv
    BY DEF IInv
  <1>b. Does \/ UNCHANGED vars
    BY <1>a, NextDoes
  <1>c. TypeOK'
    BY <1>a, TypeStep
  <1>y. /\ \A u \in Units : /\ told[u] \in Reports /\ lastLocal[u] \in Reports /\ unit[u] \in {"off", "on", "boost"}
                           /\ told[u].device = u /\ lastLocal[u].device = u
        /\ knob \in BOOLEAN /\ econoLatch \in BOOLEAN /\ wanted \in BOOLEAN
    BY <1>a DEF TypeOK
  <1>t. /\ \A g \in Goroutines : job[g].boost \in BOOLEAN /\ job[g].value \in BOOLEAN /\ job[g].written \in BOOLEAN
        /\ econoSuspend.boosting \in BOOLEAN /\ econoSuspend.pending \in BOOLEAN
        /\ hold.value \in BOOLEAN
    BY <1>a DEF TypeOK, Locals
  <1>T. /\ \A g \in Goroutines : job'[g].boost \in BOOLEAN /\ job'[g].value \in BOOLEAN /\ job'[g].written \in BOOLEAN
        /\ econoSuspend'.boosting \in BOOLEAN /\ econoSuspend'.pending \in BOOLEAN
        /\ hold'.value \in BOOLEAN
        /\ knob' \in BOOLEAN /\ econoLatch' \in BOOLEAN /\ wanted' \in BOOLEAN
    BY <1>c DEF TypeOK, Locals
  <1>s. (BoostInSight <=> ~Calm) /\ (BoostInSight' <=> ~Calm')
    BY <1>a, <1>c, CalmIs
  <1>g. GroupEcono \in BOOLEAN /\ GroupEcono' \in BOOLEAN /\ GroupBoost \in BOOLEAN
    BY <1>a, <1>c, AggregateType, Frames DEF TypeOK, GroupEcono
  <1>r. \A u \in Units : /\ Status(u) \in Reports /\ Status(u).device = u
                        /\ (Status(u).on <=> unit[u] # "off") /\ (Status(u).econo <=> unit[u] # "off" /\ knob)
                        /\ (Status(u).boost <=> unit[u] = "boost")
    BY <1>a, StatusType
  <1>1. ASSUME NEW u \in Units, NEW to \in {"off", "on"}, Turned(u, to)
        PROVE  BoostInv'
    BY <1>a, <1>t, <1>T, Frames, <1>1
       DEF Turned, Becomes, BoostInv, Places, RenderInv, Pending, GroupEdge
  <1>2. ASSUME NEW u \in Units, Boosted(u)
        PROVE  BoostInv'
    BY <1>a, <1>t, <1>T, Frames, <1>2
       DEF Boosted, Becomes, BoostInv, Places, RenderInv, Pending, GroupEdge
  <1>3. ASSUME NEW u \in Units, Chosen(u)
        PROVE  BoostInv'
    BY <1>a, <1>t, <1>T, Frames, <1>3 DEF Chosen, BoostInv, Places, RenderInv, Pending, GroupEdge
  <1>4. ASSUME NEW u \in Units, Told(u)
        PROVE  BoostInv'
    BY <1>a, <1>t, <1>T, Frames, <1>4
       DEF Told, Holds, BoostInv, Places, RenderInv, Pending, GroupEdge
  <1>5. CASE Expires
    BY <1>a, <1>t, <1>T, Frames, <1>5 DEF Expires, BoostInv, Places, RenderInv, Pending, GroupEdge
  <1>6. CASE Drained
    BY <1>a, <1>t, <1>T, Frames, <1>6
       DEF Drained, Holds, Recalls, Moved, BoostInv, Places, RenderInv, Pending, GroupEdge
  <1>7. CASE Polled
    BY <1>a, <1>t, <1>T, Frames, <1>7
       DEF Polled, Moved, BoostInv, Places, RenderInv, Pending, GroupEdge
  <1>8. CASE Replayed
    BY <1>a, <1>t, <1>T, Frames, <1>8
       DEF Replayed, Recalls, Moved, BoostInv, Places, RenderInv, Pending, GroupEdge
  <1>9. CASE Begins
    BY <1>a, <1>t, <1>T, Frames, <1>9
       DEF Begins, Moved, BoostInv, Places, RenderInv, Pending, GroupEdge
  <1>10. ASSUME NEW g \in Renderers, Aggregated(g)
        PROVE  BoostInv'
    BY <1>a, <1>t, <1>T, Frames, <1>10
       DEF Aggregated, Finishes, Stops, Goes, Moved, BoostInv, Places, RenderInv, Pending, GroupEdge
  <1>11. ASSUME NEW g \in Renderers, Reconciled(g)
        PROVE  BoostInv'
    BY <1>a, <1>t, <1>T, Frames, <1>11
       DEF Reconciled, Moved, BoostInv, Places, RenderInv, Pending, GroupEdge
  <1>12. ASSUME NEW g \in Renderers, Combined(g)
        PROVE  BoostInv'
    BY <1>a, <1>t, <1>T, Frames, <1>12
       DEF Combined, Moved, BoostInv, Places, RenderInv, Pending, GroupEdge
  <1>13. ASSUME NEW g \in Renderers, Resolved(g)
        PROVE  BoostInv'
    BY <1>a, <1>t, <1>T, Frames, <1>13
       DEF Resolved, Goes, Moved, BoostInv, Places, RenderInv, Pending, GroupEdge
  <1>14. ASSUME NEW g \in Renderers, Displays(g)
        PROVE  BoostInv'
    BY <1>a, <1>t, <1>T, Frames, <1>14
       DEF Displays, Finishes, Stops, Goes, Moved, BoostInv, Places, RenderInv, Pending, GroupEdge
  <1>15. ASSUME NEW g \in Goroutines, Commanded(g)
        PROVE  BoostInv'
    BY <1>a, <1>t, <1>T, Frames, <1>15
       DEF Commanded, Moved, BoostInv, Places, RenderInv, Pending, GroupEdge
  <1>16. ASSUME NEW g \in Goroutines, Failed(g)
        PROVE  BoostInv'
    BY <1>a, <1>t, <1>T, Frames, <1>16
       DEF Failed, Served, Stops, Moved, BoostInv, Places, RenderInv, Pending, GroupEdge
  <1>17. ASSUME NEW g \in Goroutines, Notes(g)
        PROVE  BoostInv'
    BY <1>a, <1>t, <1>T, Frames, <1>17
       DEF Notes, Served, Goes, Moved, BoostInv, Places, RenderInv, Pending, GroupEdge
  <1>18. ASSUME NEW g \in Goroutines, HoldsBack(g)
        PROVE  BoostInv'
    BY <1>a, <1>t, <1>T, Frames, <1>18
       DEF HoldsBack, Goes, Moved, BoostInv, Places, RenderInv, Pending, GroupEdge
  <1>19. ASSUME NEW g \in Goroutines, Reflects(g)
        PROVE  BoostInv'
    BY <1>a, <1>t, <1>T, Frames, <1>19
       DEF Reflects, Stops, Moved, BoostInv, Places, RenderInv, Pending, GroupEdge
  <1>20. CASE Cleared
    BY <1>a, <1>t, <1>T, Frames, <1>20
       DEF Cleared, Proceeds, Moved, BoostInv, Places, RenderInv, Pending, GroupEdge
  <1>21. CASE ClearFailed
    BY <1>a, Frames, <1>21 DEF ClearFailed, Proceeds, Stops, Moved, BoostInv
  <1>22. CASE Forgotten
    <2>1. ~disturbed => Calm
      BY <1>a, <1>22, <1>s DEF ApartInv, Forgotten
    <2>2. ~disturbed => ~GroupBoost
      BY <2>1 DEF Calm, GroupBoost
    <2> QED
      BY <1>a, <1>22, <1>t, <1>T, Frames, <2>1, <2>2 DEF Forgotten, Stops, Moved, BoostInv, Calm
  <1>23. CASE UNCHANGED vars
    BY <1>a, <1>t, <1>T, Frames, <1>23
       DEF vars, house, memory, display, history, BoostInv, Places, RenderInv, Pending, GroupEdge
  <1> QED
    BY <1>b, <1>1, <1>2, <1>3, <1>4, <1>5, <1>6, <1>7, <1>8, <1>9, <1>10, <1>11, <1>12, <1>13,
       <1>14, <1>15, <1>16, <1>17, <1>18, <1>19, <1>20, <1>21, <1>22, <1>23
       DEF Does

\* While econo is not wanted, no report of a boost meets a reading of econo on.
LEMMA StaleStep == IInv /\ [Next]_vars => StaleInv'
  <1> SUFFICES ASSUME IInv, [Next]_vars
               PROVE  StaleInv'
    OBVIOUS
  <1> USE DEF At, Idle, Renderers, Goroutines
  <1>a. /\ TypeOK /\ LatestInv /\ ReportInv /\ RenderInv /\ Places /\ ApartInv
        /\ BoostInv /\ StaleInv /\ KnobInv /\ OffInv /\ LatchInv /\ ShownInv
    BY DEF IInv
  <1>b. Does \/ UNCHANGED vars
    BY <1>a, NextDoes
  <1>c. TypeOK'
    BY <1>a, TypeStep
  <1>y. /\ \A u \in Units : /\ told[u] \in Reports /\ lastLocal[u] \in Reports /\ unit[u] \in {"off", "on", "boost"}
                           /\ told[u].device = u /\ lastLocal[u].device = u
        /\ knob \in BOOLEAN /\ econoLatch \in BOOLEAN /\ wanted \in BOOLEAN
    BY <1>a DEF TypeOK
  <1>t. /\ \A g \in Goroutines : job[g].boost \in BOOLEAN /\ job[g].value \in BOOLEAN /\ job[g].written \in BOOLEAN
        /\ econoSuspend.boosting \in BOOLEAN /\ econoSuspend.pending \in BOOLEAN
        /\ hold.value \in BOOLEAN
    BY <1>a DEF TypeOK, Locals
  <1>T. /\ \A g \in Goroutines : job'[g].boost \in BOOLEAN /\ job'[g].value \in BOOLEAN /\ job'[g].written \in BOOLEAN
        /\ econoSuspend'.boosting \in BOOLEAN /\ econoSuspend'.pending \in BOOLEAN
        /\ hold'.value \in BOOLEAN
        /\ knob' \in BOOLEAN /\ econoLatch' \in BOOLEAN /\ wanted' \in BOOLEAN
    BY <1>c DEF TypeOK, Locals
  <1>s. (BoostInSight <=> ~Calm) /\ (BoostInSight' <=> ~Calm')
    BY <1>a, <1>c, CalmIs
  <1>g. GroupEcono \in BOOLEAN /\ GroupEcono' \in BOOLEAN /\ GroupBoost \in BOOLEAN
    BY <1>a, <1>c, AggregateType, Frames DEF TypeOK, GroupEcono
  <1>r. \A u \in Units : /\ Status(u) \in Reports /\ Status(u).device = u
                        /\ (Status(u).on <=> unit[u] # "off") /\ (Status(u).econo <=> unit[u] # "off" /\ knob)
                        /\ (Status(u).boost <=> unit[u] = "boost")
    BY <1>a, StatusType
  <1>1. ASSUME NEW u \in Units, NEW to \in {"off", "on"}, Turned(u, to)
        PROVE  StaleInv'
    BY <1>a, <1>y, <1>r, <1>1 DEF Turned, Becomes, StaleInv
  <1>2. ASSUME NEW u \in Units, Boosted(u)
        PROVE  StaleInv'
    <2>k. ~disturbed /\ ~wanted => ~knob
      BY <1>a DEF KnobInv, Restoring
    <2> QED
      BY <1>a, <1>y, <1>2, <2>k DEF Boosted, Becomes, StaleInv
  <1>3. ASSUME NEW u \in Units, Chosen(u)
        PROVE  StaleInv'
    <2>1. ~disturbed' => Settled /\ ~disturbed /\ Calm
      BY <1>3, <1>s DEF Chosen
    <2>2. ~disturbed' => \A v \in Units : unit[v] # "boost" /\ ~told[v].boost /\ ~lastLocal[v].boost
      BY <1>r, <2>1 DEF Settled, Reported, Calm
    <2>3. ~disturbed' => \A i \in DOMAIN queue : ~queue[i].boost
      BY <2>1 DEF Calm
    <2> QED
      BY <1>3, <2>2, <2>3 DEF Chosen, StaleInv
  <1>4. ASSUME NEW u \in Units, Told(u)
        PROVE  StaleInv'
    <2>1. told'[u] = Status(u) /\ \A v \in Units : v # u => told'[v] = told[v]
      BY <1>4 DEF Told
    <2>2. UNCHANGED <<unit, knob, known, lastLocal, econoLatch, econoSuspend, hold, shown, job,
                    wanted>>
      BY <1>4 DEF Told
    <2>3. SUFFICES ASSUME ~disturbed', ~wanted'
                   PROVE  StaleInv'
      BY DEF StaleInv
    <2>4. ~disturbed
      BY <1>4, <2>3 DEF Told
    <2>5. PICK n \in Nat : /\ Holds(n) /\ Holds(n + 1)'
                          /\ queue'[n + 1] = Status(u) /\ \A i \in 1..n : queue'[i] = queue[i]
      BY <1>4, <2>3 DEF Told
    <2>6. /\ DOMAIN queue = 1..n /\ (DOMAIN queue') = 1..(n + 1)
          /\ n + 1 \in DOMAIN queue' /\ queue'[n + 1] = Status(u)
          /\ \A i \in DOMAIN queue' : i = n + 1 \/ (i \in DOMAIN queue /\ queue'[i] = queue[i])
          /\ \A i \in DOMAIN queue : i \in DOMAIN queue' /\ queue'[i] = queue[i]
      BY <2>5 DEF Holds
    <2>k. ~disturbed /\ ~wanted => ~knob
      BY <1>a DEF KnobInv, Restoring
    <2>7. ~Status(u).econo /\ (Status(u).boost => unit[u] = "boost")
      BY <1>r, <2>2, <2>3, <2>4, <2>k
    <2>8. ~disturbed /\ ~wanted
      BY <2>2, <2>3, <2>4
    <2>9. (\E v \in Units : unit'[v] = "boost" \/ told'[v].boost) => \A v \in Units : ~told'[v].econo
      BY <1>a, <2>1, <2>2, <2>7, <2>8 DEF StaleInv
    <2>10. (\E v \in Units : lastLocal'[v].boost) =>
              /\ \A v \in Units : ~lastLocal'[v].econo
              /\ \A i \in DOMAIN queue' : ~queue'[i].econo
      BY <1>a, <2>2, <2>6, <2>7, <2>8 DEF StaleInv
    <2>11. ASSUME NEW i \in DOMAIN queue', queue'[i].boost
           PROVE  /\ \A j \in DOMAIN queue' : j >= i => ~queue'[j].econo
                  /\ \A j \in DOMAIN queue' : j < i /\ queue'[j].econo =>
                        \E k \in DOMAIN queue' : j < k /\ k <= i /\ queue'[k].device = queue'[j].device
                  /\ \A v \in Units : lastLocal'[v].econo =>
                        \E k \in DOMAIN queue' : k <= i /\ queue'[k].device = v
      <3>1. CASE i \in DOMAIN queue /\ i # n + 1
        <4>1. queue[i].boost
          BY <2>6, <2>11, <3>1
        <4>2. \A j \in DOMAIN queue' : j >= i => ~queue'[j].econo
          BY <1>a, <2>6, <2>7, <2>8, <3>1, <4>1 DEF StaleInv
        <4>3. ASSUME NEW j \in DOMAIN queue', j < i, queue'[j].econo
              PROVE  \E k \in DOMAIN queue' : j < k /\ k <= i /\ queue'[k].device = queue'[j].device
          <5>1. j \in DOMAIN queue /\ queue[j].econo
            BY <2>6, <3>1, <4>3
          <5>2. PICK k \in DOMAIN queue : j < k /\ k <= i /\ queue[k].device = queue[j].device
            BY <1>a, <2>8, <3>1, <4>1, <4>3, <5>1 DEF StaleInv
          <5> QED
            BY <2>6, <5>1, <5>2
        <4>4. ASSUME NEW v \in Units, lastLocal'[v].econo
              PROVE  \E k \in DOMAIN queue' : k <= i /\ queue'[k].device = v
          <5>1. PICK k \in DOMAIN queue : k <= i /\ queue[k].device = v
            BY <1>a, <2>2, <2>8, <3>1, <4>1, <4>4 DEF StaleInv
          <5> QED
            BY <2>6, <5>1
        <4> QED
          BY <4>2, <4>3, <4>4
      <3>2. CASE i = n + 1
        <4>1. \A v \in Units : ~told[v].econo
          BY <1>a, <2>6, <2>7, <2>8, <2>11, <3>2 DEF StaleInv
        <4>2. \A j \in DOMAIN queue' : j >= i => ~queue'[j].econo
          BY <2>6, <2>7, <3>2
        <4>3. ASSUME NEW v \in Units, (\E j \in DOMAIN queue : queue[j].device = v) \/ lastLocal[v].econo
              PROVE  \E k \in DOMAIN queue :
                        /\ queue[k].device = v
                        /\ \A j \in DOMAIN queue : queue[j].device = v /\ queue[j].econo => j < k
          <5>1. PICK k \in DOMAIN queue : /\ queue[k] = told[v]
                                         /\ \A j \in DOMAIN queue : j > k => queue[j].device # v
            BY <1>a, <2>8, <4>1, <4>3 DEF LatestInv
          <5>2. queue[k].device = v /\ ~queue[k].econo
            BY <1>y, <4>1, <5>1
          <5>3. \A j \in DOMAIN queue : queue[j].device = v /\ queue[j].econo => j < k
            BY <2>6, <5>1, <5>2
          <5> QED
            BY <5>2, <5>3
        <4>4. ASSUME NEW j \in DOMAIN queue', j < i, queue'[j].econo
              PROVE  \E k \in DOMAIN queue' : j < k /\ k <= i /\ queue'[k].device = queue'[j].device
          <5>1. j \in DOMAIN queue /\ queue[j].econo /\ queue'[j] = queue[j]
            BY <2>6, <3>2, <4>4
          <5>2. queue[j].device \in Units
            <6>1. queue[j] \in Reports
              BY <1>a, <5>1 DEF TypeOK
            <6> QED
              BY <6>1 DEF Reports
          <5>3. PICK k \in DOMAIN queue : queue[k].device = queue[j].device /\ j < k
            BY <4>3, <5>1, <5>2
          <5> QED
            BY <2>6, <3>2, <5>1, <5>3
        <4>5. ASSUME NEW v \in Units, lastLocal'[v].econo
              PROVE  \E k \in DOMAIN queue' : k <= i /\ queue'[k].device = v
          <5>1. PICK k \in DOMAIN queue : queue[k].device = v
            BY <2>2, <4>3, <4>5
          <5> QED
            BY <2>6, <3>2, <5>1
        <4> QED
          BY <4>2, <4>4, <4>5
      <3> QED
        BY <2>6, <3>1, <3>2
    <2> QED
      BY <2>9, <2>10, <2>11 DEF StaleInv
  <1>5. CASE Expires
    BY <1>a, <1>y, <1>r, <1>5 DEF Expires, StaleInv
  <1>6. CASE Drained
    <2>1. PICK r \in Reports, n \in Nat :
            /\ Holds(n + 1) /\ Holds(n)' /\ r = queue[1] /\ \A i \in 1..n : queue'[i] = queue[i + 1]
            /\ Recalls(r)
      BY <1>6 DEF Drained
    <2>2. /\ 1 \in DOMAIN queue /\ r = queue[1] /\ DOMAIN queue = 1..(n + 1)
          /\ (DOMAIN queue') = 1..n
          /\ \A i \in DOMAIN queue' : i + 1 \in DOMAIN queue /\ queue'[i] = queue[i + 1]
      BY <2>1 DEF Holds
    <2>3. r.device \in Units /\ \A u \in Units : lastLocal'[u] = IF u = r.device THEN r ELSE lastLocal[u]
      BY <2>1 DEF Recalls, Reports
    <2>4. /\ job["drain"].at = "idle" /\ Moved("drain", "aggregate", {}, FALSE, FALSE, {}, FALSE)
          /\ ~disturbed' => ~disturbed /\ job["poll"].at = "idle"
          /\ UNCHANGED <<unit, knob, told, known, econoLatch, econoSuspend, hold, shown, wanted>>
      BY <1>6 DEF Drained
    <2>5. SUFFICES ASSUME ~disturbed', ~wanted'
                   PROVE  StaleInv'
      BY DEF StaleInv
    <2>6. ~disturbed /\ ~wanted
      BY <2>4, <2>5
    <2>7. (\E v \in Units : unit'[v] = "boost" \/ told'[v].boost) => \A v \in Units : ~told'[v].econo
      BY <1>a, <2>4, <2>6 DEF StaleInv
    <2>8. (\E v \in Units : lastLocal'[v].boost) =>
             /\ \A v \in Units : ~lastLocal'[v].econo
             /\ \A i \in DOMAIN queue' : ~queue'[i].econo
      <3>1. CASE r.boost
        <4>1. /\ \A j \in DOMAIN queue : ~queue[j].econo
              /\ \A v \in Units : lastLocal[v].econo => \E k \in DOMAIN queue : k <= 1 /\ queue[k].device = v
          BY <1>a, <2>2, <2>6, <3>1 DEF StaleInv
        <4>2. \A v \in Units : lastLocal[v].econo => v = r.device
          BY <2>2, <4>1
        <4> QED
          BY <2>2, <2>3, <4>1, <4>2
      <3>2. CASE ~r.boost
        BY <1>a, <2>2, <2>3, <2>6, <3>2 DEF StaleInv
      <3> QED
        BY <3>1, <3>2
    <2>9. ASSUME NEW i \in DOMAIN queue', queue'[i].boost
          PROVE  /\ \A j \in DOMAIN queue' : j >= i => ~queue'[j].econo
                 /\ \A j \in DOMAIN queue' : j < i /\ queue'[j].econo =>
                       \E k \in DOMAIN queue' : j < k /\ k <= i /\ queue'[k].device = queue'[j].device
                 /\ \A v \in Units : lastLocal'[v].econo =>
                       \E k \in DOMAIN queue' : k <= i /\ queue'[k].device = v
      <3>1. i + 1 \in DOMAIN queue /\ queue[i + 1].boost /\ i \in Nat /\ i >= 1
        BY <2>2, <2>9
      <3>2. \A j \in DOMAIN queue' : j >= i => ~queue'[j].econo
        BY <1>a, <2>2, <2>6, <3>1 DEF StaleInv
      <3>3. ASSUME NEW d, \E j \in DOMAIN queue : j < i + 1 /\ queue[j].econo /\ queue[j].device = d,
                   NEW m \in DOMAIN queue, m < i + 1, queue[m].econo, queue[m].device = d
            PROVE  \E k \in DOMAIN queue' : m < k + 1 /\ k <= i /\ queue'[k].device = d
        <4>1. PICK k \in DOMAIN queue : m < k /\ k <= i + 1 /\ queue[k].device = d
          BY <1>a, <2>6, <3>1, <3>3 DEF StaleInv
        <4>2. k - 1 \in DOMAIN queue' /\ queue'[k - 1] = queue[k]
          BY <2>2, <3>3, <4>1
        <4> QED
          BY <2>2, <4>1, <4>2
      <3>4. ASSUME NEW j \in DOMAIN queue', j < i, queue'[j].econo
            PROVE  \E k \in DOMAIN queue' : j < k /\ k <= i /\ queue'[k].device = queue'[j].device
        <4>1. j + 1 \in DOMAIN queue /\ queue'[j] = queue[j + 1] /\ j + 1 < i + 1
          BY <2>2, <3>1, <3>4
        <4>2. PICK k \in DOMAIN queue' : j + 1 < k + 1 /\ k <= i /\ queue'[k].device = queue'[j].device
          BY <3>3, <3>4, <4>1
        <4> QED
          BY <2>2, <3>4, <4>2
      <3>5. ASSUME NEW v \in Units, lastLocal'[v].econo
            PROVE  \E k \in DOMAIN queue' : k <= i /\ queue'[k].device = v
        <4>1. CASE v = r.device
          <5>1. queue[1].econo /\ queue[1].device = v /\ 1 \in DOMAIN queue /\ 1 < i + 1
            BY <2>2, <2>3, <3>1, <3>5, <4>1
          <5> QED
            BY <3>3, <5>1
        <4>2. CASE v # r.device
          <5>1. lastLocal[v].econo
            BY <2>3, <3>5, <4>2
          <5>2. PICK k \in DOMAIN queue : k <= i + 1 /\ queue[k].device = v
            BY <1>a, <2>6, <3>1, <5>1 DEF StaleInv
          <5>3. k - 1 \in DOMAIN queue' /\ queue'[k - 1] = queue[k] /\ k - 1 <= i
            BY <2>2, <3>1, <4>2, <5>2
          <5> QED
            BY <5>2, <5>3
        <4> QED
          BY <4>1, <4>2
      <3> QED
        BY <3>2, <3>4, <3>5
    <2> QED
      BY <2>7, <2>8, <2>9 DEF StaleInv
  <1>7. CASE Polled
    BY <1>a, <1>y, <1>r, <1>7 DEF Polled, Moved, StaleInv
  <1>8. CASE Replayed
    <2>1. PICK r \in job["poll"].replay :
            /\ r \in Reports /\ Recalls(r)
            /\ Moved("poll", "aggregate", job["poll"].replay \ {r}, FALSE, FALSE, {}, FALSE)
      BY <1>8 DEF Replayed
    <2>2. /\ job["poll"].at = "replay"
          /\ UNCHANGED <<unit, knob, told, queue, known, econoLatch, econoSuspend, hold, shown,
                    wanted, disturbed>>
      BY <1>8 DEF Replayed
    <2>3. r.device \in Units /\ \A u \in Units : lastLocal'[u] = IF u = r.device THEN r ELSE lastLocal[u]
      BY <2>1 DEF Recalls, Reports
    <2>4. ~disturbed => lastLocal' = lastLocal
      <3>1. ASSUME ~disturbed
            PROVE  \A u \in Units : lastLocal'[u] = lastLocal[u]
        BY <1>a, <2>1, <2>3, <3>1 DEF RenderInv
      <3>2. lastLocal \in [Units -> Reports] /\ lastLocal' \in [Units -> Reports]
        BY <1>a, <1>c DEF TypeOK
      <3> QED
        BY <3>1, <3>2
    <2> QED
      BY <1>a, <2>2, <2>4 DEF StaleInv
  <1>9. CASE Begins
    BY <1>a, <1>y, <1>r, <1>9 DEF Begins, Moved, StaleInv
  <1>10. ASSUME NEW g \in Renderers, Aggregated(g)
        PROVE  StaleInv'
    BY <1>a, <1>y, <1>r, <1>10 DEF Aggregated, Finishes, Stops, Goes, Moved, StaleInv
  <1>11. ASSUME NEW g \in Renderers, Reconciled(g)
        PROVE  StaleInv'
    BY <1>a, <1>y, <1>r, <1>11 DEF Reconciled, Moved, StaleInv
  <1>12. ASSUME NEW g \in Renderers, Combined(g)
        PROVE  StaleInv'
    BY <1>a, <1>y, <1>r, <1>12 DEF Combined, Moved, StaleInv
  <1>13. ASSUME NEW g \in Renderers, Resolved(g)
        PROVE  StaleInv'
    BY <1>a, <1>y, <1>r, <1>13 DEF Resolved, Goes, Moved, StaleInv
  <1>14. ASSUME NEW g \in Renderers, Displays(g)
        PROVE  StaleInv'
    BY <1>a, <1>y, <1>r, <1>14 DEF Displays, Finishes, Stops, Goes, Moved, StaleInv
  <1>15. ASSUME NEW g \in Goroutines, Commanded(g)
        PROVE  StaleInv'
    <2>t. ~disturbed /\ Calm => \A u \in Units : ~told[u].boost
      BY <1>a DEF LatestInv, Calm
    <2>1. CASE g = "write"
      <3>1. ~disturbed => Calm
        BY <1>a, <1>15, <1>s, <2>1 DEF ApartInv, Commanded
      <3> QED
        BY <1>15, <2>t, <3>1 DEF Commanded, StaleInv, Calm
    <2>2. CASE g # "write"
      BY <1>a, <1>15, <2>2 DEF Commanded, StaleInv
    <2> QED
      BY <2>1, <2>2
  <1>16. ASSUME NEW g \in Goroutines, Failed(g)
        PROVE  StaleInv'
    BY <1>a, <1>y, <1>r, <1>16 DEF Failed, Served, Stops, Moved, StaleInv
  <1>17. ASSUME NEW g \in Goroutines, Notes(g)
        PROVE  StaleInv'
    BY <1>a, <1>y, <1>r, <1>17 DEF Notes, Served, Goes, Moved, StaleInv
  <1>18. ASSUME NEW g \in Goroutines, HoldsBack(g)
        PROVE  StaleInv'
    BY <1>a, <1>y, <1>r, <1>18 DEF HoldsBack, Goes, Moved, StaleInv
  <1>19. ASSUME NEW g \in Goroutines, Reflects(g)
        PROVE  StaleInv'
    BY <1>a, <1>y, <1>r, <1>19 DEF Reflects, Stops, Moved, StaleInv
  <1>20. CASE Cleared
    BY <1>a, <1>y, <1>r, <1>20 DEF Cleared, Proceeds, Moved, StaleInv
  <1>21. CASE ClearFailed
    BY <1>a, <1>y, <1>r, <1>21 DEF ClearFailed, Proceeds, Stops, Moved, StaleInv
  <1>22. CASE Forgotten
    BY <1>a, <1>y, <1>r, <1>22 DEF Forgotten, Stops, Moved, StaleInv
  <1>23. CASE UNCHANGED vars
    BY <1>a, <1>y, <1>r, <1>23 DEF vars, house, memory, display, history, StaleInv
  <1> QED
    BY <1>b, <1>1, <1>2, <1>3, <1>4, <1>5, <1>6, <1>7, <1>8, <1>9, <1>10, <1>11, <1>12, <1>13,
       <1>14, <1>15, <1>16, <1>17, <1>18, <1>19, <1>20, <1>21, <1>22, <1>23
       DEF Does

\* The knob is as a person last set it, but for a suspended or a due restore.
LEMMA KnobStep == IInv /\ [Next]_vars => KnobInv'
  <1> SUFFICES ASSUME IInv, [Next]_vars
               PROVE  KnobInv'
    OBVIOUS
  <1> USE DEF At, Idle, Renderers, Goroutines
  <1>a. /\ TypeOK /\ LatestInv /\ ReportInv /\ RenderInv /\ Places /\ ApartInv
        /\ BoostInv /\ StaleInv /\ KnobInv /\ OffInv /\ LatchInv /\ ShownInv
    BY DEF IInv
  <1>b. Does \/ UNCHANGED vars
    BY <1>a, NextDoes
  <1>c. TypeOK'
    BY <1>a, TypeStep
  <1>y. /\ \A u \in Units : /\ told[u] \in Reports /\ lastLocal[u] \in Reports /\ unit[u] \in {"off", "on", "boost"}
                           /\ told[u].device = u /\ lastLocal[u].device = u
        /\ knob \in BOOLEAN /\ econoLatch \in BOOLEAN /\ wanted \in BOOLEAN
    BY <1>a DEF TypeOK
  <1>t. /\ \A g \in Goroutines : job[g].boost \in BOOLEAN /\ job[g].value \in BOOLEAN /\ job[g].written \in BOOLEAN
        /\ econoSuspend.boosting \in BOOLEAN /\ econoSuspend.pending \in BOOLEAN
        /\ hold.value \in BOOLEAN
    BY <1>a DEF TypeOK, Locals
  <1>T. /\ \A g \in Goroutines : job'[g].boost \in BOOLEAN /\ job'[g].value \in BOOLEAN /\ job'[g].written \in BOOLEAN
        /\ econoSuspend'.boosting \in BOOLEAN /\ econoSuspend'.pending \in BOOLEAN
        /\ hold'.value \in BOOLEAN
        /\ knob' \in BOOLEAN /\ econoLatch' \in BOOLEAN /\ wanted' \in BOOLEAN
    BY <1>c DEF TypeOK, Locals
  <1>s. (BoostInSight <=> ~Calm) /\ (BoostInSight' <=> ~Calm')
    BY <1>a, <1>c, CalmIs
  <1>g. GroupEcono \in BOOLEAN /\ GroupEcono' \in BOOLEAN /\ GroupBoost \in BOOLEAN
    BY <1>a, <1>c, AggregateType, Frames DEF TypeOK, GroupEcono
  <1>r. \A u \in Units : /\ Status(u) \in Reports /\ Status(u).device = u
                        /\ (Status(u).on <=> unit[u] # "off") /\ (Status(u).econo <=> unit[u] # "off" /\ knob)
                        /\ (Status(u).boost <=> unit[u] = "boost")
    BY <1>a, StatusType
  <1>1. ASSUME NEW u \in Units, NEW to \in {"off", "on"}, Turned(u, to)
        PROVE  KnobInv'
    BY <1>a, <1>t, <1>T, <1>s, <1>1
       DEF Turned, Becomes, KnobInv, Places, RenderInv, ApartInv, BoostInv, Restoring, Calm,
           Pending, GroupEdge
  <1>2. ASSUME NEW u \in Units, Boosted(u)
        PROVE  KnobInv'
    BY <1>a, <1>t, <1>T, <1>s, <1>2
       DEF Boosted, Becomes, KnobInv, Places, RenderInv, ApartInv, BoostInv, Restoring, Calm,
           Pending, GroupEdge
  <1>3. ASSUME NEW u \in Units, Chosen(u)
        PROVE  KnobInv'
    <2>1. ~disturbed' => Calm /\ ~disturbed /\ \A h \in Goroutines : job[h].at = "idle"
      BY <1>3, <1>s DEF Chosen, Settled
    <2>2. ~disturbed' => ~econoSuspend.pending
      BY <1>a, <2>1 DEF BoostInv, Calm
    <2> QED
      BY <1>t, <1>T, <1>3, <2>1, <2>2 DEF Chosen, KnobInv, Restoring
  <1>4. ASSUME NEW u \in Units, Told(u)
        PROVE  KnobInv'
    BY <1>a, <1>t, <1>T, <1>s, <1>4
       DEF Told, Holds, KnobInv, Places, RenderInv, ApartInv, BoostInv, Restoring, Calm, Pending,
           GroupEdge
  <1>5. CASE Expires
    BY <1>a, <1>t, <1>T, <1>s, <1>5
       DEF Expires, KnobInv, Places, RenderInv, ApartInv, BoostInv, Restoring, Calm, Pending,
           GroupEdge
  <1>6. CASE Drained
    BY <1>a, <1>6 DEF Drained, Moved, KnobInv, Restoring
  <1>7. CASE Polled
    BY <1>a, <1>t, <1>T, <1>s, <1>7
       DEF Polled, Moved, KnobInv, Places, RenderInv, ApartInv, BoostInv, Restoring, Calm, Pending,
           GroupEdge
  <1>8. CASE Replayed
    BY <1>a, <1>8 DEF Replayed, Moved, KnobInv, Restoring
  <1>9. CASE Begins
    BY <1>a, <1>t, <1>T, <1>s, <1>9
       DEF Begins, Moved, KnobInv, Places, RenderInv, ApartInv, BoostInv, Restoring, Calm, Pending,
           GroupEdge
  <1>10. ASSUME NEW g \in Renderers, Aggregated(g)
        PROVE  KnobInv'
    <2>1. ~disturbed /\ GroupBoost /\ GroupEcono => wanted
      <3>1. SUFFICES ASSUME ~disturbed, ~wanted, GroupBoost
                     PROVE  ~GroupEcono
        OBVIOUS
      <3>2. \A u \in Units : ~lastLocal[u].econo
        BY <1>a, <3>1 DEF StaleInv, GroupBoost
      <3>3. Running # {}
        BY <1>a, <3>1 DEF ReportInv, GroupBoost, Running
      <3> QED
        BY <3>2, <3>3 DEF GroupEcono, Running
    <2> QED
      BY <1>a, <1>t, <1>T, <1>10, <1>y, <2>1
         DEF Aggregated, Finishes, Stops, Goes, Moved, KnobInv, Places, RenderInv, Restoring
  <1>11. ASSUME NEW g \in Renderers, Reconciled(g)
        PROVE  KnobInv'
    <2>1. ~disturbed => \A h \in Renderers : h # g => Idle(h)
      BY <1>a, <1>t, <1>T, <1>s, <1>11 DEF Reconciled, RenderInv
    <2>2. ~disturbed /\ knob # wanted => econoSuspend.pending
      BY <1>a, <1>11, <2>1 DEF Reconciled, KnobInv, Restoring
    <2>3. ~job[g].written
      BY <1>a, <1>t, <1>T, <1>s, <1>11 DEF Reconciled, Places
    <2>4. ~disturbed /\ econoSuspend.pending => econoSuspend.boosting
      BY <1>a DEF BoostInv
    <2> QED
      BY <1>a, <1>t, <1>T, <1>11, <2>1, <2>2, <2>3, <2>4
         DEF Reconciled, Moved, KnobInv, Restoring, Pending, GroupEdge
  <1>12. ASSUME NEW g \in Renderers, Combined(g)
        PROVE  KnobInv'
    BY <1>a, <1>12 DEF Combined, Moved, KnobInv, Restoring
  <1>13. ASSUME NEW g \in Renderers, Resolved(g)
        PROVE  KnobInv'
    BY <1>a, <1>13 DEF Resolved, Goes, Moved, KnobInv, Restoring
  <1>14. ASSUME NEW g \in Renderers, Displays(g)
        PROVE  KnobInv'
    BY <1>a, <1>14 DEF Displays, Finishes, Stops, Goes, Moved, KnobInv, Restoring
  <1>15. ASSUME NEW g \in Goroutines, Commanded(g)
        PROVE  KnobInv'
    <2>1. SUFFICES ASSUME ~disturbed
                   PROVE  KnobInv'
      BY <1>15 DEF Commanded, KnobInv
    <2>2. PICK u \in NextUnit(g) :
            Moved(g, "note", job[g].replay, job[g].boost, job[g].value, job[g].todo \ {u},
                  job[g].written \/ job[g].todo = Units)
      BY <1>15 DEF Commanded
    <2>3. /\ job'[g].at = "note" /\ job'[g].value = job[g].value
          /\ \A h \in Goroutines : h # g => job'[h] = job[h]
      BY <1>t, <1>T, <2>2 DEF Moved
    <2>4. /\ job[g].at = "command" /\ knob' = job[g].value /\ econoSuspend' = econoSuspend
          /\ wanted' = IF g = "write" THEN job[g].value ELSE wanted
      BY <1>15 DEF Commanded
    <2>5. CASE g = "write"
      <3>1. Calm
        BY <1>a, <1>s, <2>1, <2>4, <2>5 DEF ApartInv
      <3>2. ~econoSuspend.pending /\ \A h \in Renderers : job[h].at \notin {"command", "note"}
        BY <1>a, <2>1, <3>1 DEF BoostInv, Calm
      <3> QED
        BY <1>a, <2>1, <2>3, <2>4, <2>5, <3>1, <3>2 DEF KnobInv, Restoring, Calm
    <2>6. CASE g \in Renderers
      <3>1. Idle("write")
        BY <1>a, <1>s, <2>1, <2>4, <2>6 DEF ApartInv, Calm
      <3>2. \A h \in Renderers : h # g => Idle(h)
        BY <1>a, <2>1, <2>4, <2>6 DEF RenderInv
      <3>3. IF job[g].value THEN wanted ELSE econoSuspend.pending
        BY <1>a, <2>1, <2>4, <2>6 DEF KnobInv
      <3>4. econoSuspend.pending => wanted
        BY <1>a, <2>1 DEF KnobInv
      <3> QED
        BY <1>t, <1>y, <2>3, <2>4, <2>6, <3>1, <3>2, <3>3, <3>4 DEF KnobInv, Restoring
    <2> QED
      BY <2>5, <2>6
  <1>16. ASSUME NEW g \in Goroutines, Failed(g)
        PROVE  KnobInv'
    <2>1. SUFFICES ASSUME ~disturbed, job'[g].at = "combine" => knob = job[g].value
                   PROVE  KnobInv'
      BY <1>16 DEF Failed, KnobInv
    <2>2. /\ job[g].at = "command"
          /\ UNCHANGED <<knob, econoSuspend, wanted>>
          /\ \A h \in Goroutines : h # g => job'[h] = job[h]
      BY <1>16 DEF Failed, Moved, Stops
    <2>3. \/ job'[g].at = "idle"
          \/ /\ job'[g].at = "command" \/ (job'[g].at = "hold" /\ job[g].written)
                                      \/ (job'[g].at = "combine" /\ ~job[g].written)
             /\ job'[g].value = job[g].value /\ job'[g].written = job[g].written
      BY <1>t, <1>T, <1>16 DEF Failed, Served, Moved, Stops
    <2>4. g # "write" => job'[g].at # "idle"
      BY <1>16 DEF Failed, Served, Moved
    <2>5. CASE g = "write"
      <3>1. Calm
        BY <1>a, <1>s, <2>1, <2>2, <2>5 DEF ApartInv
      <3>2. ~econoSuspend.pending /\ \A h \in Renderers : job[h].at \notin {"command", "note"}
        BY <1>a, <2>1, <3>1 DEF BoostInv, Calm
      <3>3. knob = wanted
        BY <1>a, <2>1, <3>2 DEF KnobInv, Restoring
      <3>4. job["write"].written => knob = job["write"].value
        BY <1>a, <2>1, <2>2, <2>5 DEF KnobInv
      <3>5. \A h \in Renderers : ~job[h].boost
        BY <3>1 DEF Calm
      <3> QED
        BY <2>2, <2>3, <2>5, <3>2, <3>3, <3>4, <3>5 DEF KnobInv, Restoring
    <2>6. CASE g \in Renderers
      <3>1. Idle("write")
        BY <1>a, <1>s, <2>1, <2>2, <2>6 DEF ApartInv, Calm
      <3>2. \A h \in Renderers : h # g => Idle(h)
        BY <1>a, <2>1, <2>2, <2>6 DEF RenderInv
      <3>3. IF job[g].value THEN wanted ELSE econoSuspend.pending
        BY <1>a, <2>1, <2>2, <2>6 DEF KnobInv
      <3>4. /\ econoSuspend.pending => wanted
            /\ knob # wanted => econoSuspend.pending \/ job[g].value
            /\ job[g].written => knob = job[g].value
        BY <1>a, <2>1, <2>2, <2>6, <3>2 DEF KnobInv, Restoring
      <3>5. job'[g].at # "command" => knob = job[g].value
        BY <2>1, <2>3, <2>4, <2>6, <3>4
      <3> QED
        BY <1>t, <1>y, <2>2, <2>3, <2>4, <2>6, <3>1, <3>2, <3>3, <3>4, <3>5
           DEF KnobInv, Restoring
    <2> QED
      BY <2>5, <2>6
  <1>17. ASSUME NEW g \in Goroutines, Notes(g)
        PROVE  KnobInv'
    BY <1>a, <1>T, <1>17 DEF Notes, Goes, Moved, KnobInv, Restoring
  <1>18. ASSUME NEW g \in Goroutines, HoldsBack(g)
        PROVE  KnobInv'
    BY <1>a, <1>t, <1>T, <1>s, <1>18
       DEF HoldsBack, Goes, Moved, KnobInv, Places, RenderInv, ApartInv, BoostInv, Restoring, Calm,
           Pending, GroupEdge
  <1>19. ASSUME NEW g \in Goroutines, Reflects(g)
        PROVE  KnobInv'
    BY <1>a, <1>t, <1>T, <1>s, <1>19
       DEF Reflects, Stops, Moved, KnobInv, Places, RenderInv, ApartInv, BoostInv, Restoring, Calm,
           Pending, GroupEdge
  <1>20. CASE Cleared
    BY <1>a, <1>20 DEF Cleared, Proceeds, Moved, KnobInv, Restoring
  <1>21. CASE ClearFailed
    <2>1. /\ job["write"].at = "clear" /\ job'["write"].at \in {"idle", "clear", "forget"}
          /\ \A h \in Goroutines : h # "write" => job'[h] = job[h]
      BY <1>21 DEF ClearFailed, Proceeds, Stops, Moved
    <2>2. UNCHANGED <<knob, econoSuspend, wanted, disturbed>>
      BY <1>21 DEF ClearFailed
    <2> QED
      BY <1>a, <2>1, <2>2 DEF KnobInv, Restoring
  <1>22. CASE Forgotten
    BY <1>a, <1>s, <1>22 DEF Forgotten, Stops, Moved, KnobInv, ApartInv, BoostInv, Restoring, Calm
  <1>23. CASE UNCHANGED vars
    BY <1>a, <1>t, <1>T, <1>s, <1>23
       DEF vars, house, memory, display, history, KnobInv, Places, RenderInv, ApartInv, BoostInv,
           Restoring, Calm, Pending, GroupEdge
  <1> QED
    BY <1>b, <1>1, <1>2, <1>3, <1>4, <1>5, <1>6, <1>7, <1>8, <1>9, <1>10, <1>11, <1>12, <1>13,
       <1>14, <1>15, <1>16, <1>17, <1>18, <1>19, <1>20, <1>21, <1>22, <1>23
       DEF Does

\* With every unit off the latch remembers the knob.
LEMMA OffStep == IInv /\ [Next]_vars => OffInv'
  <1> SUFFICES ASSUME IInv, [Next]_vars
               PROVE  OffInv'
    OBVIOUS
  <1> USE DEF At, Idle, Renderers, Goroutines
  <1>a. /\ TypeOK /\ LatestInv /\ ReportInv /\ RenderInv /\ Places /\ ApartInv
        /\ BoostInv /\ StaleInv /\ KnobInv /\ OffInv /\ LatchInv /\ ShownInv
    BY DEF IInv
  <1>b. Does \/ UNCHANGED vars
    BY <1>a, NextDoes
  <1>c. TypeOK'
    BY <1>a, TypeStep
  <1>y. /\ \A u \in Units : /\ told[u] \in Reports /\ lastLocal[u] \in Reports /\ unit[u] \in {"off", "on", "boost"}
                           /\ told[u].device = u /\ lastLocal[u].device = u
        /\ knob \in BOOLEAN /\ econoLatch \in BOOLEAN /\ wanted \in BOOLEAN
    BY <1>a DEF TypeOK
  <1>t. /\ \A g \in Goroutines : job[g].boost \in BOOLEAN /\ job[g].value \in BOOLEAN /\ job[g].written \in BOOLEAN
        /\ econoSuspend.boosting \in BOOLEAN /\ econoSuspend.pending \in BOOLEAN
        /\ hold.value \in BOOLEAN
    BY <1>a DEF TypeOK, Locals
  <1>T. /\ \A g \in Goroutines : job'[g].boost \in BOOLEAN /\ job'[g].value \in BOOLEAN /\ job'[g].written \in BOOLEAN
        /\ econoSuspend'.boosting \in BOOLEAN /\ econoSuspend'.pending \in BOOLEAN
        /\ hold'.value \in BOOLEAN
        /\ knob' \in BOOLEAN /\ econoLatch' \in BOOLEAN /\ wanted' \in BOOLEAN
    BY <1>c DEF TypeOK, Locals
  <1>s. (BoostInSight <=> ~Calm) /\ (BoostInSight' <=> ~Calm')
    BY <1>a, <1>c, CalmIs
  <1>g. GroupEcono \in BOOLEAN /\ GroupEcono' \in BOOLEAN /\ GroupBoost \in BOOLEAN
    BY <1>a, <1>c, AggregateType, Frames DEF TypeOK, GroupEcono
  <1>r. \A u \in Units : /\ Status(u) \in Reports /\ Status(u).device = u
                        /\ (Status(u).on <=> unit[u] # "off") /\ (Status(u).econo <=> unit[u] # "off" /\ knob)
                        /\ (Status(u).boost <=> unit[u] = "boost")
    BY <1>a, StatusType
  <1>1. ASSUME NEW u \in Units, NEW to \in {"off", "on"}, Turned(u, to)
        PROVE  OffInv'
    <2>1. SUFFICES ASSUME ~disturbed', AllOff(unit')
                   PROVE  OffInv'
      BY DEF OffInv
    <2>2. Settled /\ ~disturbed /\ to = "off" /\ unit[u] # "off" /\ \A v \in Units : v # u => unit[v] = "off"
      BY <1>1, <2>1 DEF Turned, Becomes, AllOff
    <2>3. /\ \A v \in Units : lastLocal[v] = Status(v)
          /\ GroupEcono = knob /\ Running # {} /\ (GroupBoost <=> Boosting)
      BY <1>a, <2>2, SettledReads DEF AllOff
    <2>4. known /\ DOMAIN queue = {} /\ \A g \in Goroutines : job[g].at = "idle"
      BY <2>2 DEF Settled
    <2>5. econoSuspend.boosting = GroupBoost
      BY <1>a, <2>2, <2>4 DEF BoostInv
    <2>6. econoLatch = knob
      BY <1>a, <2>2, <2>3, <2>4 DEF LatchInv, NobodyNotes
    <2>7. \A v \in Units : lastLocal[v].on =>
            lastLocal[v].econo = knob /\ (GroupBoost => lastLocal[v].boost)
      <3>1. \A v \in Units : lastLocal[v].on => v = u
        BY <1>r, <2>2, <2>3
      <3>2. \A v \in Units : lastLocal[v].boost => v = u
        BY <1>r, <2>2, <2>3
      <3>3. lastLocal[u].econo <=> knob
        BY <1>r, <2>2, <2>3
      <3>4. lastLocal[u].econo \in BOOLEAN
        BY <1>y DEF Reports
      <3> QED
        BY <1>y, <3>1, <3>2, <3>3, <3>4 DEF GroupBoost
    <2> QED
      BY <1>1, <2>4, <2>5, <2>6, <2>7, Frames DEF Turned, OffInv
  <1>2. ASSUME NEW u \in Units, Boosted(u)
        PROVE  OffInv'
    BY <1>a, <1>y, <1>t, <1>T, <1>g, Frames, <1>2
       DEF Boosted, Becomes, OffInv, NobodyNotes, AllOff, Places, RenderInv, KnobInv
  <1>3. ASSUME NEW u \in Units, Chosen(u)
        PROVE  OffInv'
    BY <1>a, <1>y, <1>t, <1>T, <1>g, Frames, <1>3
       DEF Chosen, OffInv, NobodyNotes, AllOff, Places, RenderInv, KnobInv
  <1>4. ASSUME NEW u \in Units, Told(u)
        PROVE  OffInv'
    <2>1. told'[u] = Status(u) /\ \A v \in Units : v # u => told'[v] = told[v]
      BY <1>4 DEF Told
    <2>2. UNCHANGED <<unit, knob, known, lastLocal, econoLatch, econoSuspend, hold, shown, job,
                    wanted>>
      BY <1>4 DEF Told
    <2>3. SUFFICES ASSUME ~disturbed'
                   PROVE  OffInv'
      BY DEF OffInv
    <2>4. ~disturbed
      BY <1>4, <2>3 DEF Told
    <2>5. PICK n \in Nat : /\ Holds(n) /\ Holds(n + 1)'
                          /\ queue'[n + 1] = Status(u) /\ \A i \in 1..n : queue'[i] = queue[i]
      BY <1>4, <2>3 DEF Told
    <2>6. /\ DOMAIN queue = 1..n /\ (DOMAIN queue') = 1..(n + 1)
          /\ n + 1 \in DOMAIN queue' /\ queue'[n + 1] = Status(u)
          /\ \A i \in DOMAIN queue' : i = n + 1 \/ (i \in DOMAIN queue /\ queue'[i] = queue[i])
          /\ \A i \in DOMAIN queue : i \in DOMAIN queue' /\ queue'[i] = queue[i]
      BY <2>5 DEF Holds
    <2>7. AllOff(unit') => ~Status(u).on /\ AllOff(unit)
      BY <1>r, <2>2 DEF AllOff
    <2> QED
      BY <1>a, <2>2, <2>4, <2>6, <2>7, Frames DEF OffInv, NobodyNotes
  <1>5. CASE Expires
    BY <1>a, <1>y, <1>t, <1>T, <1>g, Frames, <1>5
       DEF Expires, OffInv, NobodyNotes, AllOff, Places, RenderInv, KnobInv
  <1>6. CASE Drained
    <2>1. PICK r \in Reports, n \in Nat :
            /\ Holds(n + 1) /\ Holds(n)' /\ r = queue[1] /\ \A i \in 1..n : queue'[i] = queue[i + 1]
            /\ Recalls(r)
      BY <1>6 DEF Drained
    <2>2. /\ 1 \in DOMAIN queue /\ r = queue[1] /\ DOMAIN queue = 1..(n + 1)
          /\ (DOMAIN queue') = 1..n
          /\ \A i \in DOMAIN queue' : i + 1 \in DOMAIN queue /\ queue'[i] = queue[i + 1]
      BY <2>1 DEF Holds
    <2>3. r.device \in Units /\ \A u \in Units : lastLocal'[u] = IF u = r.device THEN r ELSE lastLocal[u]
      BY <2>1 DEF Recalls, Reports
    <2>4. /\ job["drain"].at = "idle" /\ Moved("drain", "aggregate", {}, FALSE, FALSE, {}, FALSE)
          /\ ~disturbed' => ~disturbed /\ job["poll"].at = "idle"
          /\ UNCHANGED <<unit, knob, told, known, econoLatch, econoSuspend, hold, shown, wanted>>
      BY <1>6 DEF Drained
    <2>5. ~disturbed' /\ AllOff(unit') => ~r.on /\ ~r.boost /\ ~disturbed /\ AllOff(unit)
      BY <1>a, <2>2, <2>4 DEF OffInv, ReportInv
    <2>6. ~disturbed' /\ AllOff(unit') /\ GroupBoost' => GroupBoost
      BY <2>3, <2>5 DEF GroupBoost
    <2>7. NobodyNotes' => NobodyNotes
      BY <2>4 DEF Moved, NobodyNotes
    <2>8. \A h \in Goroutines : job'[h].at \in {"command", "note"} => job[h].at \in {"command",
                    "note"}
      BY <2>4 DEF Moved
    <2>9. job'["write"] = job["write"]
      BY <2>4 DEF Moved
    <2> QED
      BY <1>a, <2>2, <2>3, <2>4, <2>5, <2>6, <2>7, <2>8, <2>9 DEF OffInv
  <1>7. CASE Polled
    BY <1>a, <1>y, <1>t, <1>T, <1>g, Frames, <1>7
       DEF Polled, Moved, OffInv, NobodyNotes, AllOff, Places, RenderInv, KnobInv
  <1>8. CASE Replayed
    <2>1. PICK r \in job["poll"].replay :
            /\ r \in Reports /\ Recalls(r)
            /\ Moved("poll", "aggregate", job["poll"].replay \ {r}, FALSE, FALSE, {}, FALSE)
      BY <1>8 DEF Replayed
    <2>2. /\ job["poll"].at = "replay"
          /\ UNCHANGED <<unit, knob, told, queue, known, econoLatch, econoSuspend, hold, shown,
                    wanted, disturbed>>
      BY <1>8 DEF Replayed
    <2>3. r.device \in Units /\ \A u \in Units : lastLocal'[u] = IF u = r.device THEN r ELSE lastLocal[u]
      BY <2>1 DEF Recalls, Reports
    <2>4. ~disturbed => lastLocal' = lastLocal
      <3>1. ASSUME ~disturbed
            PROVE  \A u \in Units : lastLocal'[u] = lastLocal[u]
        BY <1>a, <2>1, <2>3, <3>1 DEF RenderInv
      <3>2. lastLocal \in [Units -> Reports] /\ lastLocal' \in [Units -> Reports]
        BY <1>a, <1>c DEF TypeOK
      <3> QED
        BY <3>1, <3>2
    <2>7. NobodyNotes' => NobodyNotes
      BY <2>1, <2>2 DEF Moved, NobodyNotes
    <2>8. \A h \in Goroutines : job'[h].at \in {"command", "note"} => job[h].at \in {"command",
                    "note"}
      BY <2>1 DEF Moved
    <2>9. job'["write"] = job["write"]
      BY <2>1 DEF Moved
    <2> QED
      BY <1>a, <2>2, <2>4, <2>7, <2>8, <2>9, Frames DEF OffInv
  <1>9. CASE Begins
    <2>1. ~disturbed' /\ AllOff(unit') => Running = {}
      BY <1>a, <1>9, SettledReads, Frames DEF Begins
    <2>2. Running = {} => \A u \in Units : ~lastLocal[u].on
      BY DEF Running
    <2>3. NobodyNotes' => NobodyNotes
      BY <1>9 DEF Begins, Moved, NobodyNotes
    <2> QED
      BY <1>a, <1>9, <2>1, <2>2, <2>3, Frames DEF Begins, OffInv
  <1>10. ASSUME NEW g \in Renderers, Aggregated(g)
        PROVE  OffInv'
    <2>k. ~disturbed /\ AllOff(unit) => (GroupEcono <=> IF Running = {} THEN econoLatch ELSE knob)
      <3>1. ~disturbed /\ AllOff(unit) => \A u \in Running : lastLocal[u].econo = knob
        BY <1>a DEF OffInv, Running
      <3> QED
        BY <3>1, <1>y DEF GroupEcono
    <2>u. Running = {} <=> \A u \in Units : ~lastLocal[u].on
      BY DEF Running
    <2> QED
      BY <1>a, <1>t, <1>T, <1>g, <1>y, <1>10, <2>k, <2>u, Frames
         DEF Aggregated, Finishes, Stops, Goes, Moved, OffInv, NobodyNotes
  <1>11. ASSUME NEW g \in Renderers, Reconciled(g)
        PROVE  OffInv'
    <2>1. ~disturbed => job[g].boost = GroupBoost
      BY <1>a, <1>y, <1>t, <1>T, <1>g, Frames, <1>11 DEF BoostInv, Reconciled
    <2>2. ~disturbed /\ AllOff(unit) /\ Running # {} => econoSuspend.boosting = GroupBoost
      BY <1>a, <1>t, <1>g DEF OffInv, Running, GroupBoost
    <2>3. ~disturbed /\ AllOff(unit) /\ Running # {} => job'[g].at = "combine"
      BY <1>11, <2>1, <2>2 DEF Reconciled, Moved, GroupEdge
    <2>4. \A u \in Units : lastLocal[u].on => Running # {}
      BY DEF Running
    <2>5. NobodyNotes' => NobodyNotes
      BY <1>11 DEF Reconciled, Moved, NobodyNotes
    <2>6. ~disturbed => econoSuspend'.boosting = GroupBoost
      BY <1>11, <1>t, <1>T, <2>1 DEF Reconciled
    <2>7. /\ UNCHANGED <<unit, knob, queue, known, lastLocal, econoLatch, disturbed>>
          /\ \A h \in Goroutines : h # g => job'[h] = job[h]
      BY <1>11 DEF Reconciled, Moved
    <2>8. Idle("write") => job'["write"].at = "idle"
      BY <1>11, <2>7 DEF Reconciled
    <2> QED
      BY <1>a, <2>2, <2>3, <2>4, <2>5, <2>6, <2>7, <2>8, Frames DEF OffInv
  <1>12. ASSUME NEW g \in Renderers, Combined(g)
        PROVE  OffInv'
    <2>k. ~disturbed /\ AllOff(unit) => (GroupEcono <=> IF Running = {} THEN econoLatch ELSE knob)
      <3>1. ~disturbed /\ AllOff(unit) => \A u \in Running : lastLocal[u].econo = knob
        BY <1>a DEF OffInv, Running
      <3> QED
        BY <3>1, <1>y DEF GroupEcono
    <2>u. Running = {} <=> \A u \in Units : ~lastLocal[u].on
      BY DEF Running
    <2> QED
      BY <1>a, <1>t, <1>T, <1>g, <1>y, <1>12, <2>k, <2>u, Frames
         DEF Combined, Moved, OffInv, NobodyNotes
  <1>13. ASSUME NEW g \in Renderers, Resolved(g)
        PROVE  OffInv'
    BY <1>a, Frames, <1>13 DEF Resolved, Goes, Moved, OffInv, NobodyNotes
  <1>14. ASSUME NEW g \in Renderers, Displays(g)
        PROVE  OffInv'
    BY <1>a, Frames, <1>14 DEF Displays, Finishes, Stops, Goes, Moved, OffInv, NobodyNotes
  <1>15. ASSUME NEW g \in Goroutines, Commanded(g)
        PROVE  OffInv'
    BY <1>a, <1>y, <1>t, <1>T, <1>g, Frames, <1>15
       DEF Commanded, Moved, OffInv, NobodyNotes, AllOff, Places, RenderInv, KnobInv
  <1>16. ASSUME NEW g \in Goroutines, Failed(g)
        PROVE  OffInv'
    BY <1>a, Frames, <1>16 DEF Failed, Stops, Moved, OffInv, NobodyNotes
  <1>17. ASSUME NEW g \in Goroutines, Notes(g)
        PROVE  OffInv'
    BY <1>a, Frames, <1>17 DEF Notes, OffInv, KnobInv
  <1>18. ASSUME NEW g \in Goroutines, HoldsBack(g)
        PROVE  OffInv'
    BY <1>a, Frames, <1>18 DEF HoldsBack, Goes, Moved, OffInv, NobodyNotes
  <1>19. ASSUME NEW g \in Goroutines, Reflects(g)
        PROVE  OffInv'
    BY <1>a, Frames, <1>19 DEF Reflects, Stops, Moved, OffInv, NobodyNotes
  <1>20. CASE Cleared
    BY <1>a, <1>y, <1>t, <1>T, <1>g, Frames, <1>20
       DEF Cleared, Proceeds, Moved, OffInv, NobodyNotes, AllOff, Places, RenderInv, KnobInv
  <1>21. CASE ClearFailed
    BY <1>a, Frames, <1>21
       DEF ClearFailed, Proceeds, Stops, Moved, OffInv, NobodyNotes, RenderInv, KnobInv
  <1>22. CASE Forgotten
    <2>1. ~disturbed => Calm
      BY <1>a, <1>22, <1>s DEF ApartInv, Forgotten
    <2>2. ~disturbed => ~GroupBoost
      BY <2>1 DEF Calm, GroupBoost
    <2> QED
      BY <1>a, <1>22, <2>2, Frames DEF Forgotten, Stops, Moved, OffInv, NobodyNotes
  <1>23. CASE UNCHANGED vars
    BY <1>a, <1>y, <1>t, <1>T, <1>g, Frames, <1>23
       DEF vars, house, memory, display, history, OffInv, NobodyNotes, AllOff, Places, RenderInv,
           KnobInv
  <1> QED
    BY <1>b, <1>1, <1>2, <1>3, <1>4, <1>5, <1>6, <1>7, <1>8, <1>9, <1>10, <1>11, <1>12, <1>13,
       <1>14, <1>15, <1>16, <1>17, <1>18, <1>19, <1>20, <1>21, <1>22, <1>23
       DEF Does

\* The latch follows the reports and the writes.
LEMMA LatchStep == IInv /\ [Next]_vars => LatchInv'
  <1> SUFFICES ASSUME IInv, [Next]_vars
               PROVE  LatchInv'
    OBVIOUS
  <1> USE DEF At, Idle, Renderers, Goroutines
  <1>a. /\ TypeOK /\ LatestInv /\ ReportInv /\ RenderInv /\ Places /\ ApartInv
        /\ BoostInv /\ StaleInv /\ KnobInv /\ OffInv /\ LatchInv /\ ShownInv
    BY DEF IInv
  <1>b. Does \/ UNCHANGED vars
    BY <1>a, NextDoes
  <1>c. TypeOK'
    BY <1>a, TypeStep
  <1>y. /\ \A u \in Units : /\ told[u] \in Reports /\ lastLocal[u] \in Reports /\ unit[u] \in {"off", "on", "boost"}
                           /\ told[u].device = u /\ lastLocal[u].device = u
        /\ knob \in BOOLEAN /\ econoLatch \in BOOLEAN /\ wanted \in BOOLEAN
    BY <1>a DEF TypeOK
  <1>t. /\ \A g \in Goroutines : job[g].boost \in BOOLEAN /\ job[g].value \in BOOLEAN /\ job[g].written \in BOOLEAN
        /\ econoSuspend.boosting \in BOOLEAN /\ econoSuspend.pending \in BOOLEAN
        /\ hold.value \in BOOLEAN
    BY <1>a DEF TypeOK, Locals
  <1>T. /\ \A g \in Goroutines : job'[g].boost \in BOOLEAN /\ job'[g].value \in BOOLEAN /\ job'[g].written \in BOOLEAN
        /\ econoSuspend'.boosting \in BOOLEAN /\ econoSuspend'.pending \in BOOLEAN
        /\ hold'.value \in BOOLEAN
        /\ knob' \in BOOLEAN /\ econoLatch' \in BOOLEAN /\ wanted' \in BOOLEAN
    BY <1>c DEF TypeOK, Locals
  <1>s. (BoostInSight <=> ~Calm) /\ (BoostInSight' <=> ~Calm')
    BY <1>a, <1>c, CalmIs
  <1>g. GroupEcono \in BOOLEAN /\ GroupEcono' \in BOOLEAN /\ GroupBoost \in BOOLEAN
    BY <1>a, <1>c, AggregateType, Frames DEF TypeOK, GroupEcono
  <1>r. \A u \in Units : /\ Status(u) \in Reports /\ Status(u).device = u
                        /\ (Status(u).on <=> unit[u] # "off") /\ (Status(u).econo <=> unit[u] # "off" /\ knob)
                        /\ (Status(u).boost <=> unit[u] = "boost")
    BY <1>a, StatusType
  <1>1. ASSUME NEW u \in Units, NEW to \in {"off", "on"}, Turned(u, to)
        PROVE  LatchInv'
    BY <1>a, <1>t, <1>T, <1>y, <1>g, Frames, <1>1
       DEF Turned, Becomes, LatchInv, NobodyNotes, Places, RenderInv, KnobInv
  <1>2. ASSUME NEW u \in Units, Boosted(u)
        PROVE  LatchInv'
    BY <1>a, <1>t, <1>T, <1>y, <1>g, Frames, <1>2
       DEF Boosted, Becomes, LatchInv, NobodyNotes, Places, RenderInv, KnobInv
  <1>3. ASSUME NEW u \in Units, Chosen(u)
        PROVE  LatchInv'
    <2>1. ~disturbed' => Settled /\ ~disturbed /\ ~AllOff(unit)
      BY <1>3 DEF Chosen, AllOff
    <2>2. ~disturbed' => GroupEcono = knob
      BY <1>a, <2>1, SettledReads
    <2> QED
      BY <1>a, <1>y, <1>g, <1>T, <1>3, <2>1, <2>2, Frames DEF Chosen, LatchInv, NobodyNotes
  <1>4. ASSUME NEW u \in Units, Told(u)
        PROVE  LatchInv'
    BY <1>a, <1>t, <1>T, <1>y, <1>g, Frames, <1>4
       DEF Told, Holds, LatchInv, NobodyNotes, Places, RenderInv, KnobInv
  <1>5. CASE Expires
    BY <1>a, <1>t, <1>T, <1>y, <1>g, Frames, <1>5
       DEF Expires, LatchInv, NobodyNotes, Places, RenderInv, KnobInv
  <1>6. CASE Drained
    BY <1>a, <1>t, <1>T, <1>y, <1>g, Frames, <1>6
       DEF Drained, Holds, Recalls, Moved, LatchInv, NobodyNotes, Places, RenderInv, KnobInv
  <1>7. CASE Polled
    BY <1>a, <1>t, <1>T, <1>y, <1>g, Frames, <1>7
       DEF Polled, Moved, LatchInv, NobodyNotes, Places, RenderInv, KnobInv
  <1>8. CASE Replayed
    BY <1>a, <1>t, <1>T, <1>y, <1>g, Frames, <1>8
       DEF Replayed, Recalls, Moved, LatchInv, NobodyNotes, Places, RenderInv, KnobInv
  <1>9. CASE Begins
    BY <1>a, <1>t, <1>T, <1>y, <1>g, Frames, <1>9
       DEF Begins, Moved, LatchInv, NobodyNotes, Places, RenderInv, KnobInv
  <1>10. ASSUME NEW g \in Renderers, Aggregated(g)
        PROVE  LatchInv'
    BY <1>a, <1>t, <1>T, <1>y, <1>g, Frames, <1>10
       DEF Aggregated, Finishes, Stops, Goes, Moved, LatchInv, NobodyNotes, Places, RenderInv,
           KnobInv
  <1>11. ASSUME NEW g \in Renderers, Reconciled(g)
        PROVE  LatchInv'
    BY <1>a, <1>t, <1>T, <1>y, <1>g, Frames, <1>11
       DEF Reconciled, Moved, LatchInv, NobodyNotes, Places, RenderInv, KnobInv
  <1>12. ASSUME NEW g \in Renderers, Combined(g)
        PROVE  LatchInv'
    BY <1>a, <1>t, <1>T, <1>y, <1>g, Frames, <1>12
       DEF Combined, Moved, LatchInv, NobodyNotes, Places, RenderInv, KnobInv
  <1>13. ASSUME NEW g \in Renderers, Resolved(g)
        PROVE  LatchInv'
    BY <1>a, <1>t, <1>T, <1>y, <1>g, Frames, <1>13
       DEF Resolved, Goes, Moved, LatchInv, NobodyNotes, Places, RenderInv, KnobInv
  <1>14. ASSUME NEW g \in Renderers, Displays(g)
        PROVE  LatchInv'
    BY <1>a, <1>t, <1>T, <1>y, <1>g, Frames, <1>14
       DEF Displays, Finishes, Stops, Goes, Moved, LatchInv, NobodyNotes, Places, RenderInv, KnobInv
  <1>15. ASSUME NEW g \in Goroutines, Commanded(g)
        PROVE  LatchInv'
    BY <1>a, <1>t, <1>T, <1>y, <1>g, Frames, <1>15
       DEF Commanded, Moved, LatchInv, NobodyNotes, Places, RenderInv, KnobInv
  <1>16. ASSUME NEW g \in Goroutines, Failed(g)
        PROVE  LatchInv'
    BY <1>a, Frames, <1>16 DEF Failed, Served, Stops, Moved, LatchInv, NobodyNotes
  <1>17. ASSUME NEW g \in Goroutines, Notes(g)
        PROVE  LatchInv'
    BY <1>a, <1>t, <1>T, <1>y, <1>g, Frames, <1>17
       DEF Notes, Served, Goes, Moved, LatchInv, NobodyNotes, Places, RenderInv, KnobInv
  <1>18. ASSUME NEW g \in Goroutines, HoldsBack(g)
        PROVE  LatchInv'
    BY <1>a, <1>t, <1>T, <1>y, <1>g, Frames, <1>18
       DEF HoldsBack, Goes, Moved, LatchInv, NobodyNotes, Places, RenderInv, KnobInv
  <1>19. ASSUME NEW g \in Goroutines, Reflects(g)
        PROVE  LatchInv'
    BY <1>a, <1>t, <1>T, <1>y, <1>g, Frames, <1>19
       DEF Reflects, Stops, Moved, LatchInv, NobodyNotes, Places, RenderInv, KnobInv
  <1>20. CASE Cleared
    BY <1>a, <1>t, <1>T, <1>y, <1>g, Frames, <1>20
       DEF Cleared, Proceeds, Moved, LatchInv, NobodyNotes, Places, RenderInv, KnobInv
  <1>21. CASE ClearFailed
    BY <1>a, Frames, <1>21 DEF ClearFailed, Proceeds, Stops, Moved, LatchInv, NobodyNotes
  <1>22. CASE Forgotten
    BY <1>a, <1>t, <1>T, <1>y, <1>g, Frames, <1>22
       DEF Forgotten, Stops, Moved, LatchInv, NobodyNotes, Places, RenderInv, KnobInv
  <1>23. CASE UNCHANGED vars
    BY <1>a, <1>t, <1>T, <1>y, <1>g, Frames, <1>23
       DEF vars, house, memory, display, history, LatchInv, NobodyNotes, Places, RenderInv, KnobInv
  <1> QED
    BY <1>b, <1>1, <1>2, <1>3, <1>4, <1>5, <1>6, <1>7, <1>8, <1>9, <1>10, <1>11, <1>12, <1>13,
       <1>14, <1>15, <1>16, <1>17, <1>18, <1>19, <1>20, <1>21, <1>22, <1>23
       DEF Does

\* What is shown follows the latch and the hold.
LEMMA ShownStep == IInv /\ [Next]_vars => ShownInv'
  <1> SUFFICES ASSUME IInv, [Next]_vars
               PROVE  ShownInv'
    OBVIOUS
  <1> USE DEF At, Idle, Renderers, Goroutines
  <1>a. /\ TypeOK /\ LatestInv /\ ReportInv /\ RenderInv /\ Places /\ ApartInv
        /\ BoostInv /\ StaleInv /\ KnobInv /\ OffInv /\ LatchInv /\ ShownInv
    BY DEF IInv
  <1>b. Does \/ UNCHANGED vars
    BY <1>a, NextDoes
  <1>c. TypeOK'
    BY <1>a, TypeStep
  <1>y. /\ \A u \in Units : /\ told[u] \in Reports /\ lastLocal[u] \in Reports /\ unit[u] \in {"off", "on", "boost"}
                           /\ told[u].device = u /\ lastLocal[u].device = u
        /\ knob \in BOOLEAN /\ econoLatch \in BOOLEAN /\ wanted \in BOOLEAN
    BY <1>a DEF TypeOK
  <1>t. /\ \A g \in Goroutines : job[g].boost \in BOOLEAN /\ job[g].value \in BOOLEAN /\ job[g].written \in BOOLEAN
        /\ econoSuspend.boosting \in BOOLEAN /\ econoSuspend.pending \in BOOLEAN
        /\ hold.value \in BOOLEAN
    BY <1>a DEF TypeOK, Locals
  <1>T. /\ \A g \in Goroutines : job'[g].boost \in BOOLEAN /\ job'[g].value \in BOOLEAN /\ job'[g].written \in BOOLEAN
        /\ econoSuspend'.boosting \in BOOLEAN /\ econoSuspend'.pending \in BOOLEAN
        /\ hold'.value \in BOOLEAN
        /\ knob' \in BOOLEAN /\ econoLatch' \in BOOLEAN /\ wanted' \in BOOLEAN
    BY <1>c DEF TypeOK, Locals
  <1>s. (BoostInSight <=> ~Calm) /\ (BoostInSight' <=> ~Calm')
    BY <1>a, <1>c, CalmIs
  <1>g. GroupEcono \in BOOLEAN /\ GroupEcono' \in BOOLEAN /\ GroupBoost \in BOOLEAN
    BY <1>a, <1>c, AggregateType, Frames DEF TypeOK, GroupEcono
  <1>r. \A u \in Units : /\ Status(u) \in Reports /\ Status(u).device = u
                        /\ (Status(u).on <=> unit[u] # "off") /\ (Status(u).econo <=> unit[u] # "off" /\ knob)
                        /\ (Status(u).boost <=> unit[u] = "boost")
    BY <1>a, StatusType
  <1>1. ASSUME NEW u \in Units, NEW to \in {"off", "on"}, Turned(u, to)
        PROVE  ShownInv'
    BY <1>a, <1>1 DEF Turned, ShownInv, Promised
  <1>2. ASSUME NEW u \in Units, Boosted(u)
        PROVE  ShownInv'
    BY <1>a, <1>y, <1>t, <1>T, <1>g, Frames, <1>2
       DEF Boosted, Becomes, ShownInv, Promised, Places, RenderInv, KnobInv, Released
  <1>3. ASSUME NEW u \in Units, Chosen(u)
        PROVE  ShownInv'
    <2>1. ~disturbed' =>
            Settled /\ ~disturbed /\ ~AllOff(unit) /\ known /\ \A h \in Goroutines : job[h].at = "idle"
      BY <1>3 DEF Chosen, AllOff, Settled
    <2>2. ~disturbed' => GroupEcono = knob
      BY <1>a, <2>1, SettledReads
    <2>3. ~disturbed' => econoLatch = knob
      BY <1>a, <2>1, <2>2 DEF LatchInv, NobodyNotes
    <2> QED
      BY <1>a, <1>y, <1>T, <1>3, <2>1, <2>3 DEF Chosen, ShownInv, Promised
  <1>4. ASSUME NEW u \in Units, Told(u)
        PROVE  ShownInv'
    BY <1>a, <1>4 DEF Told, ShownInv, Promised
  <1>5. CASE Expires
    BY <1>a, <1>y, <1>t, <1>T, <1>g, Frames, <1>5
       DEF Expires, ShownInv, Promised, Places, RenderInv, KnobInv, Released
  <1>6. CASE Drained
    BY <1>6 DEF Drained, Moved, ShownInv
  <1>7. CASE Polled
    BY <1>7 DEF Polled, Moved, ShownInv
  <1>8. CASE Replayed
    BY <1>a, <1>8 DEF Replayed, Moved, ShownInv, RenderInv
  <1>9. CASE Begins
    BY <1>a, <1>y, <1>t, <1>T, <1>g, Frames, <1>9
       DEF Begins, Moved, ShownInv, Promised, Places, RenderInv, KnobInv, Released
  <1>10. ASSUME NEW g \in Renderers, Aggregated(g)
        PROVE  ShownInv'
    BY <1>a, <1>10 DEF Aggregated, Finishes, Stops, Moved, ShownInv, RenderInv
  <1>11. ASSUME NEW g \in Renderers, Reconciled(g)
        PROVE  ShownInv'
    BY <1>a, <1>11 DEF Reconciled, Moved, ShownInv, RenderInv
  <1>12. ASSUME NEW g \in Renderers, Combined(g)
        PROVE  ShownInv'
    BY <1>a, <1>T, <1>12 DEF Combined, Moved, ShownInv, RenderInv
  <1>13. ASSUME NEW g \in Renderers, Resolved(g)
        PROVE  ShownInv'
    BY <1>a, <1>T, <1>13 DEF Resolved, Goes, Moved, ShownInv, Promised, RenderInv, Released
  <1>14. ASSUME NEW g \in Renderers, Displays(g)
        PROVE  ShownInv'
    BY <1>a, <1>14 DEF Displays, Finishes, Stops, Goes, Moved, ShownInv, Promised
  <1>15. ASSUME NEW g \in Goroutines, Commanded(g)
        PROVE  ShownInv'
    BY <1>a, <1>T, <1>15 DEF Commanded, Moved, ShownInv, Promised
  <1>16. ASSUME NEW g \in Goroutines, Failed(g)
        PROVE  ShownInv'
    BY <1>a, <1>T, <1>16 DEF Failed, Served, Stops, Moved, ShownInv, Promised, Places
  <1>17. ASSUME NEW g \in Goroutines, Notes(g)
        PROVE  ShownInv'
    BY <1>a, <1>T, <1>17 DEF Notes, Served, Goes, Moved, ShownInv, Promised, Places, RenderInv
  <1>18. ASSUME NEW g \in Goroutines, HoldsBack(g)
        PROVE  ShownInv'
    BY <1>a, <1>T, <1>18 DEF HoldsBack, Goes, Moved, ShownInv, RenderInv
  <1>19. ASSUME NEW g \in Goroutines, Reflects(g)
        PROVE  ShownInv'
    BY <1>a, <1>19 DEF Reflects, Stops, Moved, ShownInv, Promised, KnobInv
  <1>20. CASE Cleared
    BY <1>a, <1>y, <1>t, <1>T, <1>g, Frames, <1>20
       DEF Cleared, Proceeds, Moved, ShownInv, Promised, Places, RenderInv, KnobInv, Released
  <1>21. CASE ClearFailed
    <2>1. /\ job["write"].at = "clear" /\ job'["write"].at \in {"idle", "clear", "forget"}
          /\ \A h \in Goroutines : h # "write" => job'[h] = job[h]
      BY <1>21 DEF ClearFailed, Proceeds, Stops, Moved
    <2>2. UNCHANGED <<knob, econoLatch, hold, known, shown, disturbed>>
      BY <1>21 DEF ClearFailed
    <2>3. ~Promised /\ ~Promised'
      BY <2>1 DEF Promised
    <2> QED
      BY <1>a, <2>1, <2>2, <2>3 DEF ShownInv
  <1>22. CASE Forgotten
    BY <1>a, <1>y, <1>t, <1>T, <1>g, Frames, <1>22
       DEF Forgotten, Stops, Moved, ShownInv, Promised, Places, RenderInv, KnobInv, Released
  <1>23. CASE UNCHANGED vars
    BY <1>a, <1>y, <1>t, <1>T, <1>g, Frames, <1>23
       DEF vars, house, memory, display, history, ShownInv, Promised, Places, RenderInv, KnobInv,
           Released
  <1> QED
    BY <1>b, <1>1, <1>2, <1>3, <1>4, <1>5, <1>6, <1>7, <1>8, <1>9, <1>10, <1>11, <1>12, <1>13,
       <1>14, <1>15, <1>16, <1>17, <1>18, <1>19, <1>20, <1>21, <1>22, <1>23
       DEF Does

\* Every step keeps the invariant.
LEMMA StepIInv == IInv /\ [Next]_vars => IInv'
  <1>1. IInv /\ [Next]_vars => TypeOK'
    BY TypeStep DEF IInv
  <1> QED
    BY <1>1, LatestStep, ReportStep, RenderStep, PlacesStep, ApartStep, BoostStep, StaleStep,
                    KnobStep,
       OffStep, LatchStep, ShownStep
       DEF IInv

\* The invariant holds throughout.
THEOREM EconoInvariant == Spec => []IInv
  BY InitIInv, StepIInv, PTL DEF Spec

\* Every variable keeps to its type: the queue to its size, each goroutine to its
\* places (outdoor.go, local.go, coordinator.go).
THEOREM EconoTypeCorrect == Spec => []TypeOK
  <1>1. IInv => TypeOK
    BY DEF IInv
  <1> QED
    BY <1>1, EconoInvariant, PTL

\* Once every boost is over and taken in, econo is what a person last made it, for
\* any number of units, reports, polls and failures (reconcileEconoSuspend).
THEOREM EconoIsRestored == Spec => []EconoComesBack
  <1>1. IInv => EconoComesBack
    <2>1. SUFFICES ASSUME IInv, Settled, ~Boosting, ~disturbed
                   PROVE  knob = wanted
      BY DEF EconoComesBack
    <2>2. TypeOK /\ LatestInv /\ BoostInv /\ KnobInv
      BY <2>1 DEF IInv
    <2>3. ~GroupBoost
      BY <2>1, <2>2, SettledReads
    <2>4. known /\ \A g \in Goroutines : job[g].at = "idle"
      BY <2>1 DEF Settled, Idle, At
    <2>5. ~econoSuspend.boosting
      BY <2>1, <2>2, <2>3, <2>4 DEF BoostInv, Idle, At, Goroutines
    <2>6. ~econoSuspend.pending
      BY <2>1, <2>2, <2>5 DEF BoostInv
    <2> QED
      BY <2>1, <2>2, <2>4, <2>6 DEF KnobInv, Restoring, At, Renderers, Goroutines
  <1> QED
    BY <1>1, EconoInvariant, PTL

\* Without a hold the status shows the outdoor unit's econo, whether units run or all
\* are off (publishOutdoorShared, localOutdoorAgg, noteWrite).
THEOREM StatusTellsTheTruth == Spec => []ShownIsInEffect
  <1>1. IInv => ShownIsInEffect
    <2>1. SUFFICES ASSUME IInv, Settled, ~disturbed, ~hold.active
                   PROVE  shown = knob
      BY DEF ShownIsInEffect
    <2>2. TypeOK /\ LatestInv /\ OffInv /\ LatchInv /\ ShownInv
      BY <2>1 DEF IInv
    <2>3. known /\ \A g \in Goroutines : job[g].at = "idle"
      BY <2>1 DEF Settled, Idle, At
    <2>4. NobodyNotes
      BY <2>3 DEF NobodyNotes, At
    <2>5. econoLatch = knob
      <3>1. CASE AllOff(unit)
        BY <2>1, <2>2, <2>4, <3>1 DEF OffInv
      <3>2. CASE ~AllOff(unit)
        <4>1. GroupEcono = knob
          BY <2>1, <2>2, <3>2, SettledReads
        <4> QED
          BY <2>1, <2>2, <2>3, <2>4, <4>1 DEF LatchInv, Renderers, Goroutines
      <3> QED
        BY <3>1, <3>2
    <2> QED
      BY <2>1, <2>2, <2>3, <2>5 DEF ShownInv, Promised, Idle, At, Renderers, Goroutines
  <1> QED
    BY <1>1, EconoInvariant, PTL
=============================================================================
