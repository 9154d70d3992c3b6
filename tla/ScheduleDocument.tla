-------------------------- MODULE ScheduleDocument --------------------------
(***************************************************************************)
(* The schedule document as it is posted, checked and stored:               *)
(* internal/schedule/model.go and the editing helpers of                    *)
(* internal/web/schedules.go.  WeekRing sees it through Week, the writes    *)
(* of a block through Writes (internal/coordinator/schedule.go).            *)
(*                                                                         *)
(* A schedule is [id, name, type, enabled, priority, targets, blocks], a     *)
(* target [device, serial], a block [id, days, start, end, action].  Clocks  *)
(* are minutes of the day, or Malformed for a text that is none.  Names and  *)
(* ids are sequences of characters of which only the class matters.         *)
(* Revisions and who may overwrite whom are ScheduleEngine's.               *)
(***************************************************************************)
EXTENDS WeekRing, TLC

CONSTANTS
    SlotMinutes,  \* 30
    Malformed     \* a text that is no clock

VARIABLE document  \* schedules.json

ASSUME GridIsPositive == SlotMinutes \in Nat \ {0}

MinutesPerDay == SlotsPerDay * SlotMinutes
Modes == {"heat", "cool", "auto", "dry", "fan_only"}
Setpoints == 5..60
Demands == 0..100

----------------------------------------------------------------------------
(* Ids. *)

Others == {" ", "_"}   \* whatever is neither a letter, a digit nor a hyphen

\* Slug: a run of other characters becomes one underscore, at either end none.
Slug(name) ==
    LET step(acc, char) ==
            IF char \in Others THEN [acc EXCEPT !.gap = TRUE]
            ELSE [ out |-> acc.out \o (IF acc.gap /\ acc.out # <<>> THEN <<"_">> ELSE <<>>) \o <<char>>,
                   gap |-> FALSE ]
    IN FoldLeft(step, [out |-> <<>>, gap |-> FALSE], name).out

Fallback == <<"schedule">>
Reserved == <<"scheduler">>   \* SchedulerDeviceID

\* Mutant of Suffixed: it does not count on.
SuffixedOnce(base, taken) == base \o <<"-", ToString(2)>>

\* base-2, base-3, ...: the first that is free.
Suffixed(base, taken) ==
    LET candidate(n) == base \o <<"-", ToString(n)>>
    IN candidate(Min({n \in 2..(Cardinality(taken) + 2) : candidate(n) \notin taken}))

\* UniqueSlug: the id a new schedule gets from its name, for good.
UniqueSlug(name, taken) ==
    LET base == IF Slug(name) = <<>> THEN Fallback ELSE Slug(name)
    IN IF base \notin taken THEN base ELSE Suffixed(base, taken)

\* normalizeBlockIDs: a block without an id, or with one that an earlier block
\* has, gets the lowest free "b<n>".
NormalizeBlockIDs(blocks) ==
    LET fresh(taken) == <<"b", Min({n \in 1..(Cardinality(taken) + 1) : <<"b", n>> \notin taken})>>
        step(acc, block) ==
            LET id == IF block.id # <<>> /\ block.id \notin acc.taken THEN block.id ELSE fresh(acc.taken)
            IN [ taken |-> acc.taken \cup {id}, out |-> Append(acc.out, [block EXCEPT !.id = id]) ]
    IN FoldLeft(step, [taken |-> {}, out |-> <<>>], blocks).out

----------------------------------------------------------------------------
(* Clocks. *)

\* Mutant of IsClock: a time off the grid is accepted.
IsClockOffGrid(clock, allow24) == clock \in 0..MinutesPerDay

\* parseClock accepts times of day on the grid, and 24:00 where a block ends.
IsClock(clock, allow24) ==
    \/ allow24 /\ clock = MinutesPerDay
    \/ /\ clock \in 0..(MinutesPerDay - 1)
       /\ clock % SlotMinutes = 0

\* Block.Duration: a block whose end is not after its start wraps.
Duration(block) ==
    LET d == block.end - block.start IN IF d > 0 THEN d ELSE d + MinutesPerDay

----------------------------------------------------------------------------
(* Validate. *)

\* Type.Normalized: a file from before there were types has none.
Kind(schedule) == IF schedule.type = "outdoor" THEN "outdoor" ELSE "indoor"

\* validateTarget
TargetOk(kind, target) ==
    IF kind = "outdoor" THEN target.serial # "" /\ target.device = ""
    ELSE target.device # "" /\ target.serial = ""

\* validateIndoorAction, validateOutdoorAction
ActionOk(kind, action) ==
    LET outdoor == action.silent \o action.econo \o action.demand
    IN IF kind = "indoor"
       THEN /\ action.power \in {"on", "off"}
            /\ action.power = "on" => action.mode \in Modes
            /\ ToSet(action.setpoint) \subseteq Setpoints
            /\ outdoor = <<>>
       ELSE /\ action.power = "" /\ action.mode = "" /\ action.setpoint = <<>>
            /\ outdoor # <<>>
            /\ ToSet(action.demand) \subseteq Demands

\* validateBlock
BlockOk(kind, block) ==
    /\ block.id # <<>>
    /\ block.days # <<>> /\ ToSet(block.days) \subseteq 0..(WeekDays - 1) /\ IsInjective(block.days)
    /\ IsClock(block.start, FALSE) /\ IsClock(block.end, TRUE)
    /\ block.start # block.end
    /\ ActionOk(kind, block.action)

ScheduleOk(schedule) ==
    /\ schedule.id \notin {<<>>, Reserved} /\ Slug(schedule.id) = schedule.id
    /\ ToSet(schedule.name) \ {" "} # {}
    /\ schedule.type \in {"", "indoor", "outdoor"}
    /\ schedule.targets # <<>>
    /\ \A t \in ToSet(schedule.targets) : TargetOk(Kind(schedule), t)
    /\ \A b \in ToSet(schedule.blocks) : BlockOk(Kind(schedule), b)
    /\ IsInjective([j \in DOMAIN schedule.blocks |-> schedule.blocks[j].id])

\* Document.Validate reports no issue.
Valid(proposed) ==
    /\ \A s \in ToSet(proposed) : ScheduleOk(s)
    /\ IsInjective([i \in DOMAIN proposed |-> proposed[i].id])

----------------------------------------------------------------------------
(* Edits.  A document that does not pass is not stored. *)

Save(proposed) == Valid(proposed) /\ document' = proposed

\* handleScheduleCreate: the id comes from the name, once; a posted one is ignored.
Create(posted) ==
    LET taken == {document[i].id : i \in DOMAIN document}
    IN Save(Append(document, [posted EXCEPT !.id = UniqueSlug(posted.name, taken),
                                            !.blocks = NormalizeBlockIDs(@)]))

\* handleScheduleUpdate: the whole schedule but its id.
Update(i, posted) ==
    Save([document EXCEPT ![i] = [posted EXCEPT !.id = document[i].id,
                                                   !.blocks = NormalizeBlockIDs(@)]])

\* SetEnabled
Enable(i, on) == Save([document EXCEPT ![i].enabled = on])

\* Delete
DeleteSchedule(i) == Save(RemoveAt(document, i))

----------------------------------------------------------------------------
(* What the stored document means. *)

\* Target.Key: serials are kept apart from device ids, management points are not
\* part of the key.
TargetKey(target) == IF target.serial # "" THEN <<"outdoor:", target.serial>> ELSE <<target.device>>

\* The block as the ring sees it: clocks in slots, each weekday counted once.
ExpandBlock(block) ==
    [ id |-> block.id, days |-> ToSet(block.days),
      start |-> block.start \div SlotMinutes, length |-> Duration(block) \div SlotMinutes,
      action |-> block.action ]

Week ==
    [i \in DOMAIN document |->
        [ id |-> document[i].id, enabled |-> document[i].enabled, priority |-> document[i].priority,
          targets |-> {TargetKey(t) : t \in ToSet(document[i].targets)},
          blocks |-> [j \in DOMAIN document[i].blocks |-> ExpandBlock(document[i].blocks[j])] ]]

\* Action.HVACPayload
HVACPayload(action) == IF action.power = "off" THEN "off" ELSE action.mode

Sets(item, optional) == IF optional = <<>> THEN <<>> ELSE << <<item, Head(optional)>> >>

\* ApplySchedule: the write requests of a block, in the order they are queued.
\* An off block leaves the temperature alone.
Writes(kind, action) ==
    IF kind = "outdoor"
    THEN Sets("outdoor_silent", action.silent) \o Sets("econo_mode", action.econo)
             \o Sets("demand_control", action.demand)
    ELSE << <<"hvac_mode", HVACPayload(action)>> >>
             \o (IF action.power = "on" THEN Sets("temperature_setpoint", action.setpoint) ELSE <<>>)

\* daikinToHA, and what handleHVACModeWrite takes: "off" and what DaikinModeForHA
\* finds in it.
DaikinToHA ==
    [heating |-> "heat", cooling |-> "cool", auto |-> "heat_cool", dry |-> "dry", fanOnly |-> "fan_only"]
Served == {"off"} \cup Range(DaikinToHA)

----------------------------------------------------------------------------
(* What the code makes of the stored document, compared with what the        *)
(* document says in terms that use none of the resolver's operators.        *)

\* The minutes of the week a block names, read off its clocks: those that follow its
\* start on one of its days by less than it lasts.
Minutes == 0..(WeekDays * MinutesPerDay - 1)
MinutesNamed(block) ==
    LET lasts == IF block.end > block.start THEN block.end - block.start
                 ELSE MinutesPerDay - block.start + block.end
    IN {m \in Minutes : \E day \in ToSet(block.days) :
           (m - (day * MinutesPerDay + block.start)) % (WeekDays * MinutesPerDay) < lasts}

\* Every block that was accepted claims exactly the minutes of the week its clocks
\* name, each slot from one of its days, and shares its id with no other block of
\* its schedule: validation lets nothing through that means something else on the
\* grid.  (model.go Validate, parseClock and Duration, schedules.go
\* normalizeBlockIDs, ring.go claimBlock)
BlocksMeanTheirClocks ==
    \A i \in DOMAIN document : \A j \in DOMAIN document[i].blocks :
        LET block == document[i].blocks[j]
            reach(slot) == Reaches(ExpandBlock(block), slot)
        IN /\ {m \in Minutes : reach(m \div SlotMinutes) # {}} = MinutesNamed(block)
           /\ \A slot \in Slots : Cardinality(reach(slot)) <= 1
           /\ \A k \in DOMAIN document[i].blocks \ {j} : document[i].blocks[k].id # block.id

Scheduled == TargetKeys(Week)

Positions == UNION {{i} \X DOMAIN Week[i].blocks : i \in DOMAIN Week}

\* Who claims a slot: position in the document, and slots since the block began.
Claimants(target, slot) ==
    {p \in Positions \X (0..SlotsPerDay) :
        LET schedule == Week[p[1][1]]
            block == schedule.blocks[p[1][2]]
        IN /\ schedule.enabled /\ target \in schedule.targets
           /\ p[2] < block.length
           /\ \E day \in block.days : slot = (day * SlotsPerDay + block.start + p[2]) % SlotsPerWeek}

EarlierPosition(b, c) == b[1] < c[1] \/ (b[1] = c[1] /\ b[2] < c[2])

\* The claimant p precedes q: priority, then recency, then document order.
Precedes(p, q) ==
    LET prio(x) == Week[x[1][1]].priority
    IN \/ prio(p) > prio(q)
       \/ prio(p) = prio(q) /\ p[2] < q[2]
       \/ prio(p) = prio(q) /\ p[2] = q[2] /\ EarlierPosition(p[1], q[1])

\* The week resolves every slot to the claimant that precedes all others: the
\* order in which the blocks stake their claims leaves no trace but in a full
\* tie, and a block that runs past midnight or past Sunday keeps its claim.
\* (ring.go Resolve, claimBlock, beats)
ResolvePicksBest ==
    \A target \in Scheduled :
      LET week == Resolve(Week, target) IN
      \A slot \in Slots :
        LET all == Claimants(target, slot)
            won == week[slot]
        IN IF all = {} THEN won = NoClaim
           ELSE \E p \in all :
                  /\ \A q \in all \ {p} : Precedes(p, q)
                  /\ Key(won) = <<Week[p[1][1]].id, Week[p[1][1]].blocks[p[1][2]].id>>
                  /\ won.age = p[2] /\ won.start = (slot - p[2]) % SlotsPerWeek

\* Sleeping from one NextChange to the next visits every slot at which the
\* winner differs from the one before it, around the end of the week too, and
\* stops nowhere else.  (ring.go NextChange)
TimerVisitsEverySwitchPoint ==
    \A target \in Scheduled :
        LET week == Resolve(Week, target)
            switches == {s \in Slots : Key(week[s]) # Key(week[(s - 1) % SlotsPerWeek])}
            wakes == {(s + NextChange(week, s)) % SlotsPerWeek :
                          s \in {f \in Slots : NextChange(week, f) # 0}}
        IN wakes = switches

\* Two blocks that drive the same kind of target have one signature exactly when
\* they make the same writes: the engine, which skips a block whose signature it
\* applied last, leaves no write out and repeats none.  (model.go Signature,
\* schedule.go ApplySchedule)
SignatureDecidesWrites ==
    \A i, k \in DOMAIN document :
      Kind(document[i]) = Kind(document[k]) =>
        \A x \in ToSet(document[i].blocks), y \in ToSet(document[k].blocks) :
            Signature(x.action) = Signature(y.action)
              <=> Writes(Kind(document[i]), x.action) = Writes(Kind(document[k]), y.action)

\* First half of CalendarAgrees: what the editor draws.
SegmentsTileTheWeek ==
    \A target \in Scheduled, day \in 0..(WeekDays - 1) :
        LET week == Resolve(Week, target)
            segs == Segments(week, day)
            key(i) == Key(week[day * SlotsPerDay + i])
        IN /\ \A i \in 0..(SlotsPerDay - 1) :
                 {segs[k].key : k \in {k \in DOMAIN segs : i \in segs[k].from..(segs[k].to - 1)}}
                    = (IF key(i) = <<>> THEN {} ELSE {key(i)})
           /\ \A k \in DOMAIN segs : segs[k].from < segs[k].to
           /\ \A k \in 1..(Len(segs) - 1) :
                 /\ segs[k].to <= segs[k + 1].from
                 /\ segs[k].to = segs[k + 1].from => segs[k].key # segs[k + 1].key

\* Second half of CalendarAgrees: what the editor warns of.
ConflictWindowsExact ==
    LET weeks == [d \in Scheduled |-> Resolve(Week, d)]
        running(d, slot, modes) ==
            LET won == weeks[d][slot]
            IN won # NoClaim /\ won.action.power = "on" /\ won.action.mode \in modes
        heating(slot) == {d \in Scheduled : running(d, slot, {"heat"})}
        cooling(slot) == {d \in Scheduled : running(d, slot, {"cool", "dry"})}
        windows == Conflicts(Week, Scheduled)
    IN \A slot \in Slots :
         LET covering == {w \in ToSet(windows) : slot \in w.from..(w.to - 1)}
         IN IF heating(slot) = {} \/ cooling(slot) = {} THEN covering = {}
            ELSE \E w \in covering : /\ covering = {w}
                                     /\ heating(slot) \subseteq w.heating
                                     /\ cooling(slot) \subseteq w.cooling

\* The calendar of the editor agrees with the week.  It draws every slot exactly
\* once, under the block that wins it, draws nothing in a gap and never splits a
\* block within a day; and it warns of exactly the slots in which one target is
\* to heat while another is to cool or dry, every target of such a slot named on
\* its side of the window that covers it.  (ring.go Segments, Conflicts)
CalendarAgrees == SegmentsTileTheWeek /\ ConflictWindowsExact
=============================================================================
