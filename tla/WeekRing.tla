------------------------------ MODULE WeekRing ------------------------------
(***************************************************************************)
(* The resolver of the weekly schedules, internal/schedule/ring.go: pure   *)
(* functions from a document (a sequence of schedules) to the ring of      *)
(* slots of one week.  A slot is won by at most one block.                 *)
(*                                                                         *)
(* A schedule is a record [id, enabled, priority, targets, blocks]; a      *)
(* block is [id, days, start, length, action], start and length in slots;  *)
(* an action is [power, mode, setpoint, silent, econo, demand], where an   *)
(* optional field is a sequence of at most one value.  ScheduleDocument     *)
(* has the document as it is stored, with its clocks and weekdays.         *)
(***************************************************************************)
EXTENDS Integers, Sequences, SequencesExt, FiniteSets

CONSTANTS
    WeekDays,     \* 7
    SlotsPerDay,  \* 48
    NoClaim       \* the nil claim of a gap

ASSUME RingSize == WeekDays \in Nat \ {0} /\ SlotsPerDay \in Nat \ {0}

SlotsPerWeek == WeekDays * SlotsPerDay
Slots == 0..(SlotsPerWeek - 1)

\* Mutant of Running: an off block keeps the setpoint it carries.
RunningOff(action) ==
    IF action.power = "" THEN <<>> ELSE <<action.power, action.mode, action.setpoint>>

\* What the action says about a unit that runs: an off block ignores mode and
\* setpoint, an outdoor block has no power at all.
Running(action) ==
    CASE action.power = "off" -> <<"off">>
      [] action.power = "on"  -> <<"on", action.mode, action.setpoint>>
      [] OTHER                -> <<>>

\* Action.Signature
Signature(action) == <<Running(action), action.silent, action.econo, action.demand>>

----------------------------------------------------------------------------
(* Who wins a slot. *)

\* The ring index a block starts at on one of its days, and how far into the
\* block a slot lies.
FirstSlot(block, day) == day * SlotsPerDay + block.start
Distance(first, slot) == (slot - first) % SlotsPerWeek

\* Mutant of Reaches: a block that ends at midnight instead of running past it.
ReachesSameDay(block, slot) ==
    {day \in block.days : /\ slot - FirstSlot(block, day) \in 0..(block.length - 1)
                          /\ slot \div SlotsPerDay = day}

\* The claim of a block on a slot.  A block lasts at most a day and names no
\* weekday twice, so it reaches a slot from one day only.
Reaches(block, slot) ==
    {day \in block.days : Distance(FirstSlot(block, day), slot) < block.length}

ClaimOn(schedule, block, slot) ==
    LET first == FirstSlot(block, CHOOSE day \in Reaches(block, slot) : TRUE)
    IN [ schedule |-> schedule.id,
         block    |-> block.id,
         priority |-> schedule.priority,
         action   |-> block.action,
         start    |-> first,
         age      |-> Distance(first, slot) ]

\* beats: higher priority first, then the block that started more recently.
Beats(cand, cur) ==
    \/ cur = NoClaim
    \/ cand.priority > cur.priority
    \/ cand.priority = cur.priority /\ cand.age < cur.age

\* Schedule.Applies, for the enabled schedules Resolve looks at.
InForce(schedule, target) == schedule.enabled /\ target \in schedule.targets

\* One block after the other stakes its claim, in document order.
StakeBlock(schedule, slot, cur, block) ==
    IF Reaches(block, slot) = {} THEN cur
    ELSE LET cand == ClaimOn(schedule, block, slot)
         IN IF Beats(cand, cur) THEN cand ELSE cur

StakeSchedule(target, slot, cur, schedule) ==
    IF ~InForce(schedule, target) THEN cur
    ELSE FoldLeft(LAMBDA c, b : StakeBlock(schedule, slot, c, b), cur, schedule.blocks)

Winner(schedules, target, slot) ==
    FoldLeft(LAMBDA c, s : StakeSchedule(target, slot, c, s), NoClaim, schedules)

\* Resolve: the whole week of one target; w.At(slot) is week[slot].
Resolve(schedules, target) == [slot \in Slots |-> Winner(schedules, target, slot)]

\* Document.TargetKeys: disabled schedules count too.
TargetKeys(schedules) == UNION {schedules[i].targets : i \in DOMAIN schedules}

----------------------------------------------------------------------------
(* Switch points. *)

\* Claim.Key: which block a claim belongs to.
Key(claim) == IF claim = NoClaim THEN <<>> ELSE <<claim.schedule, claim.block>>

Ahead(from, n) == (from + n) % SlotsPerWeek

\* Mutant of SwitchOffsets: a switch point at the wrap of the week is not seen.
SwitchOffsetsThisWeek(week, from) ==
    {n \in 1..(SlotsPerWeek - 1 - from) : Key(week[Ahead(from, n)]) # Key(week[from])}

\* The offsets at which the winner is another one than at `from`.
SwitchOffsets(week, from) == {n \in 1..SlotsPerWeek : Key(week[Ahead(from, n)]) # Key(week[from])}

\* Week.NextChange: how many slots ahead the next switch point is; 0 if the
\* week has none.
NextChange(week, from) ==
    LET offsets == SwitchOffsets(week, from)
    IN IF offsets = {} THEN 0 ELSE Min(offsets)

----------------------------------------------------------------------------
(* The calendar of the UI. *)

\* The slot i of the day prolongs the run.
Continues(run, i, key) == run.to = i /\ run.key = key

\* Week.Segments: the runs of equal winners within one day, from inclusive and
\* to exclusive, in slots of the day.
Segments(week, day) ==
    LET claim(i) == week[day * SlotsPerDay + i]
        extend(out, i) ==
            IF claim(i) = NoClaim THEN out
            ELSE IF out # <<>> /\ Continues(Last(out), i, Key(claim(i)))
                 THEN [out EXCEPT ![Len(out)].to = i + 1]
                 ELSE Append(out, [key |-> Key(claim(i)), from |-> i, to |-> i + 1])
    IN FoldLeft(extend, <<>>, [i \in 1..SlotsPerDay |-> i - 1])

\* Mutant of Camp: an off block still takes the side of the mode it carries.
CampOfOff(claim) ==
    IF claim = NoClaim THEN "none"
    ELSE IF claim.action.mode = "heat" THEN "heating"
    ELSE IF claim.action.mode \in {"cool", "dry"} THEN "cooling" ELSE "none"

\* sides: dry runs the compressor in the cooling direction; auto and fan_only
\* commit to none.
Camp(claim) ==
    IF claim = NoClaim \/ claim.action.power = "off" THEN "none"
    ELSE CASE claim.action.mode = "heat" -> "heating"
           [] claim.action.mode \in {"cool", "dry"} -> "cooling"
           [] OTHER -> "none"

InCamp(schedules, devices, camp, slot) ==
    {d \in devices : Camp(Winner(schedules, d, slot)) = camp}

\* Conflicts: the windows in which members of one outdoor group are scheduled
\* into opposite directions.  A window is never extended over the week's end.
Conflicts(schedules, devices) ==
    LET extend(out, slot) ==
            LET heat == InCamp(schedules, devices, "heating", slot)
                cool == InCamp(schedules, devices, "cooling", slot)
            IN IF heat = {} \/ cool = {} THEN out
               ELSE IF out # <<>> /\ Last(out).to = slot
                    THEN [out EXCEPT ![Len(out)].to = slot + 1,
                                     ![Len(out)].heating = @ \cup heat,
                                     ![Len(out)].cooling = @ \cup cool]
                    ELSE Append(out, [from |-> slot, to |-> slot + 1, heating |-> heat, cooling |-> cool])
    IN FoldLeft(extend, <<>>, [i \in 1..SlotsPerWeek |-> i - 1])
=============================================================================
