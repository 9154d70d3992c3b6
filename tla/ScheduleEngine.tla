--------------------------- MODULE ScheduleEngine ---------------------------
(***************************************************************************)
(* The engine that carries the weekly schedules out,                       *)
(* internal/schedule/engine.go, and the handlers that edit them,           *)
(* internal/web/schedules.go.                                              *)
(*                                                                         *)
(* One goroutine evaluates, arms a timer for the next switch point and     *)
(* sleeps; editors replace the document, and every edit and every poll     *)
(* wakes it.  The document is saved before it is installed, so what is on  *)
(* disk is what is in memory.  Time is the position on the week's ring; an *)
(* evaluation works on the document and the instant it read when it began. *)
(* The wall clock of the model has no daylight saving.                     *)
(***************************************************************************)
EXTENDS WeekRing

CONSTANTS
    Targets,         \* indoor devices and outdoor units
    Programmes,      \* schedules an editor may post
    FirstSchedules,  \* the document found on disk at the first start
    Editors,         \* browser sessions and API clients
    Careful,         \* the editors that send the revision they loaded
    SlotTicks,       \* clock ticks per slot
    Catchup,         \* Options.Catchup, in clock ticks
    Heartbeat,       \* heartbeat, in clock ticks
    MaxLag,          \* bound: ticks that pass while the engine is due or at work
    MaxRev           \* bound: revisions of the document

ASSUME EngineConstants ==
    /\ Careful \subseteq Editors
    /\ SlotTicks \in Nat \ {0} /\ Catchup \in Nat
    /\ Heartbeat \in 1..(SlotTicks * SlotsPerWeek)
    /\ MaxLag \in Nat /\ MaxRev \in Nat

\* What Document.Validate rules out: no two schedules of a document, and no two
\* blocks of a schedule, have one id.
DistinctIds(s) == \A i, j \in DOMAIN s : s[i].id = s[j].id => i = j

\* A schedule as the store holds it.
WellFormed(p) ==
    /\ p = [id |-> p.id, enabled |-> p.enabled, priority |-> p.priority,
            targets |-> p.targets, blocks |-> p.blocks]
    /\ p.enabled \in BOOLEAN /\ p.targets \subseteq Targets
    /\ p.blocks \in Seq(ToSet(p.blocks)) /\ DistinctIds(p.blocks)

\* Store.Load and Store.Save validate the document.
ASSUME DocumentConstants ==
    /\ FirstSchedules \in Seq(ToSet(FirstSchedules)) /\ DistinctIds(FirstSchedules)
    /\ \A p \in Programmes \cup ToSet(FirstSchedules) : WellFormed(p)

VARIABLES
    doc,      \* the current document: [rev, schedules]
    clock,    \* the time of the week
    pc,       \* the engine: "awake", "evaluating" or "asleep"
    snap,     \* what the evaluation read: [rev, schedules, now]
    todo,     \* targets the evaluation has not come to yet
    last,     \* target -> signature of the last action applied, <<>> if none
    timer,    \* ticks until the timer fires
    wake,     \* a token is in the wake channel
    editor,   \* editor -> what it is doing: [at, rev, base]
    lag,      \* ticks since the engine has been due
    crossed,  \* history: a slot boundary passed while the last evaluation ran
    failed,   \* history: targets whose last application failed
    manual,   \* history: targets changed by hand since they were last asked for another action
    ticked    \* history: the timer, and nothing else, started this evaluation on time

engineVars == <<pc, snap, todo, last, timer, wake>>
vars == <<doc, clock, engineVars, editor, lag, crossed, failed, manual, ticked>>

WeekTicks == SlotsPerWeek * SlotTicks
SlotOf(time) == time \div SlotTicks
NoSignature == <<>>
Schedules == {[p EXCEPT !.enabled = on] : p \in Programmes \cup ToSet(FirstSchedules), on \in BOOLEAN}
Signatures == {NoSignature} \cup
    {Signature(b.action) : b \in UNION {ToSet(p.blocks) : p \in Schedules}}
NoEdit == [at |-> "idle", rev |-> 0, base |-> <<>>]

TypeOK ==
    /\ doc.rev \in 0..MaxRev /\ doc.schedules \in Seq(Schedules)
    /\ clock \in 0..(WeekTicks - 1)
    /\ pc \in {"awake", "evaluating", "asleep"}
    /\ snap.rev \in 0..MaxRev /\ snap.now \in 0..(WeekTicks - 1)
    /\ todo \subseteq Targets /\ (todo # {} => pc = "evaluating")
    /\ last \in [Targets -> Signatures]
    /\ timer \in 0..WeekTicks
    /\ wake \in BOOLEAN /\ crossed \in BOOLEAN /\ ticked \in BOOLEAN
    /\ \A e \in Editors : editor[e].at \in {"idle", "loaded", "handling"}
    /\ lag \in 0..MaxLag
    /\ failed \subseteq Targets /\ manual \subseteq Targets

\* A fresh process: NewEngine, before the first poll.
Fresh ==
    /\ pc' = "awake" /\ todo' = {} /\ timer' = 0 /\ wake' = FALSE
    /\ last' = [t \in Targets |-> NoSignature]
    /\ lag' = 0 /\ crossed' = FALSE /\ failed' = {} /\ ticked' = FALSE

Init ==
    /\ doc = [rev |-> 0, schedules |-> FirstSchedules]
    /\ clock = 0
    /\ pc = "awake" /\ todo = {} /\ timer = 0 /\ wake = FALSE
    /\ snap = [rev |-> 0, schedules |-> <<>>, now |-> 0]
    /\ last = [t \in Targets |-> NoSignature]
    /\ editor = [e \in Editors |-> NoEdit]
    /\ lag = 0 /\ crossed = FALSE /\ failed = {} /\ manual = {} /\ ticked = FALSE

----------------------------------------------------------------------------
(* The evaluation. *)

\* Mutant of Current: the document the engine was built with.
CurrentNever == [rev |-> 0, schedules |-> FirstSchedules]

Current == doc

\* Evaluate up to its loop: the document under the lock, then the time.
BeginEvaluate ==
    /\ pc = "awake"
    /\ pc' = "evaluating"
    /\ snap' = [rev |-> Current.rev, schedules |-> Current.schedules, now |-> clock]
    /\ todo' = TargetKeys(Current.schedules)
    /\ UNCHANGED <<doc, clock, last, timer, wake, editor, lag, crossed, failed, manual, ticked>>

\* What the snapshot says about a target, and when that block started.
Due(t) == Winner(snap.schedules, t, SlotOf(snap.now))
Age(claim) == (snap.now - claim.start * SlotTicks) % WeekTicks
TooOld(claim) == Age(claim) > Catchup

\* Mutants of InEffect and WakeUp.
InEffectNever(t) == FALSE
WakeUpNever == UNCHANGED wake

InEffect(t) == last[t] = Signature(Due(t).action)

\* evaluateTarget comes to t, and is done with it.
AtTarget(t) ==
    /\ pc = "evaluating" /\ t \in todo
    /\ todo' = todo \ {t}
    /\ UNCHANGED <<doc, clock, pc, snap, timer, wake, editor, lag, crossed, manual, ticked>>

Remember(t) == last' = [last EXCEPT ![t] = Signature(Due(t).action)]

\* A gap: forget, so that the next block start is applied.
Gap(t) ==
    /\ AtTarget(t) /\ Due(t) = NoClaim
    /\ last' = [last EXCEPT ![t] = NoSignature]
    /\ failed' = failed \ {t}

\* The action is in force already.
Idempotent(t) ==
    /\ AtTarget(t) /\ Due(t) # NoClaim /\ InEffect(t)
    /\ failed' = failed \ {t}
    /\ UNCHANGED last

Pending(t) == AtTarget(t) /\ Due(t) # NoClaim /\ ~InEffect(t)

\* The block started too long ago: record it without writing.
Seed(t) ==
    /\ Pending(t) /\ TooOld(Due(t))
    /\ Remember(t)
    /\ failed' = failed \ {t}

\* ApplySchedule puts the action on the write queue.
Apply(t) ==
    /\ Pending(t) /\ ~TooOld(Due(t))
    /\ Remember(t)
    /\ failed' = failed \ {t}

\* ApplySchedule fails: the target is unknown before the first poll, or the
\* write queue is full.  Nothing is remembered.  The applier is not part of
\* this module, so every application may fail.
ApplyFails(t) ==
    /\ Pending(t) /\ ~TooOld(Due(t))
    /\ failed' = failed \cup {t}
    /\ UNCHANGED last

\* untilNext: the earliest next switch point of any target of the current
\* document, the heartbeat if there is none.
TicksToSwitch(schedules, now) ==
    LET ahead == {NextChange(Resolve(schedules, t), SlotOf(now)) : t \in TargetKeys(schedules)} \ {0}
    IN IF ahead = {} THEN Heartbeat
       ELSE (SlotOf(now) + Min(ahead)) * SlotTicks - now

\* Mutant of UntilNext: counted from the instant the evaluation began at.
UntilNextOfEvaluation == TicksToSwitch(doc.schedules, snap.now)

UntilNext == TicksToSwitch(doc.schedules, clock)

\* Mutant of AllEvaluated: the engine goes to sleep before the loop over the targets is through.
EvaluatedAnyhow == TRUE

AllEvaluated == todo = {}

\* All targets are evaluated; arm the timer and select.  What the evaluation
\* read is dropped, but for the revision.
Sleep ==
    /\ pc = "evaluating" /\ AllEvaluated
    /\ pc' = "asleep"
    /\ timer' = UntilNext
    /\ lag' = 0
    /\ crossed' = (SlotOf(clock) # SlotOf(snap.now))
    /\ snap' = [snap EXCEPT !.schedules = <<>>, !.now = 0]
    /\ UNCHANGED <<doc, clock, todo, last, wake, editor, failed, manual, ticked>>

TimerFires ==
    /\ pc = "asleep" /\ timer = 0
    /\ pc' = "awake"
    /\ ticked' = (lag = 0 /\ ~wake)
    /\ UNCHANGED <<doc, clock, snap, todo, last, timer, wake, editor, lag, crossed, failed, manual>>

TakeWake ==
    /\ pc = "asleep" /\ wake
    /\ pc' = "awake" /\ wake' = FALSE /\ timer' = 0
    /\ ticked' = FALSE
    /\ UNCHANGED <<doc, clock, snap, todo, last, editor, lag, crossed, failed, manual>>

----------------------------------------------------------------------------
(* The editors.  Every change bumps the revision, is saved, and wakes the   *)
(* engine; a failed save changes nothing.                                   *)

\* The catch-up window of the block has passed: an engine without a record of
\* the target leaves it alone.
WindowPassed(schedules, t, time) ==
    (time - Winner(schedules, t, SlotOf(time)).start * SlotTicks) % WeekTicks > Catchup

\* A document at a time still asks of the target what is asked of it now; if the
\* engine has just restarted and has no record of that, its block is not a fresh one.
Unaltered(schedules, t, time) ==
    LET asked == Winner(schedules, t, SlotOf(time))
        before == Winner(doc.schedules, t, SlotOf(clock))
    IN /\ asked # NoClaim /\ Signature(asked.action) = Signature(before.action)
       /\ last[t] = NoSignature => WindowPassed(schedules, t, time)

\* Wake: the channel holds one token.
WakeUp == wake' = TRUE

Install(schedules) ==
    /\ doc.rev < MaxRev
    /\ doc' = [rev |-> doc.rev + 1, schedules |-> schedules]
    /\ WakeUp
    /\ manual' = {t \in manual : Unaltered(schedules, t, clock)} /\ ticked' = FALSE
    /\ UNCHANGED <<clock, pc, snap, todo, last, timer, lag, crossed, failed>>

\* A careful editor loads the schedules, GET /api/schedules.
Load(e) ==
    /\ e \in Careful /\ editor[e].at = "idle" /\ doc.rev < MaxRev
    /\ editor' = [editor EXCEPT ![e].at = "loaded", ![e].rev = doc.rev]
    /\ UNCHANGED <<doc, clock, engineVars, lag, crossed, failed, manual, ticked>>

\* POST and PUT: the handler takes its copy of the document...
Handle(e) ==
    /\ editor[e].at = IF e \in Careful THEN "loaded" ELSE "idle"
    /\ doc.rev < MaxRev
    /\ editor' = [editor EXCEPT ![e].at = "handling", ![e].base = doc.schedules]
    /\ UNCHANGED <<doc, clock, engineVars, lag, crossed, failed, manual, ticked>>

\* ...puts the posted schedule into the copy, in the place of the one with its
\* id or at the end...
Put(schedules, p) ==
    IF \E i \in DOMAIN schedules : schedules[i].id = p.id
    THEN [i \in DOMAIN schedules |-> IF schedules[i].id = p.id THEN p ELSE schedules[i]]
    ELSE Append(schedules, p)

\* Mutant of RevisionOk: the revision check is lost.
RevisionIgnored(e) == TRUE

RevisionOk(e) == e \in Careful => editor[e].rev = doc.rev

\* ...and replaces the document if the revision still matches.
Replace(e) ==
    /\ editor[e].at = "handling" /\ RevisionOk(e)
    /\ \E p \in Programmes : Install(Put(editor[e].base, p))
    /\ editor' = [editor EXCEPT ![e] = NoEdit]

\* ErrStaleRevision, a validation error or a failed save.
Reject(e) ==
    /\ editor[e].at = "handling"
    /\ editor' = [editor EXCEPT ![e] = NoEdit]
    /\ UNCHANGED <<doc, clock, engineVars, lag, crossed, failed, manual, ticked>>

\* SetEnabled, from Home Assistant or the UI; a switch that is there already
\* changes nothing.
SetEnabled(i) ==
    /\ Install([doc.schedules EXCEPT ![i].enabled = ~@])
    /\ UNCHANGED editor

Delete(i) ==
    /\ Install(RemoveAt(doc.schedules, i))
    /\ UNCHANGED editor

----------------------------------------------------------------------------
(* The rest of the daemon, the household, and time. *)

\* A poll succeeded, pollOnce wakes the engine: the targets are known now.
Poll ==
    /\ WakeUp
    /\ UNCHANGED <<doc, clock, pc, snap, todo, last, timer, editor, lag, crossed, failed, manual, ticked>>

\* Somebody changes the device by hand while the engine rests.
AtRest == pc = "asleep" /\ ~wake /\ timer > 0 /\ ~crossed

ManualChange(t) ==
    /\ AtRest /\ t \in TargetKeys(doc.schedules) \ failed
    /\ Winner(doc.schedules, t, SlotOf(clock)) # NoClaim
    /\ manual' = manual \cup {t}
    /\ UNCHANGED <<doc, clock, engineVars, editor, lag, crossed, failed, ticked>>

EngineDue == pc # "asleep" \/ wake \/ timer = 0

Tick ==
    LET next == (clock + 1) % WeekTicks
    IN /\ EngineDue => lag < MaxLag
       /\ clock' = next
       /\ lag' = IF EngineDue THEN lag + 1 ELSE lag
       /\ timer' = IF timer > 0 THEN timer - 1 ELSE 0
       /\ manual' = {t \in manual : Unaltered(doc.schedules, t, next)}
       /\ ticked' = (ticked /\ pc = "evaluating")
       /\ UNCHANGED <<doc, pc, snap, todo, last, wake, editor, crossed, failed>>

\* The daemon stops and starts again.  Within the catch-up window a restart
\* may repeat a write, which is why a manual change counts only outside it.
Crash ==
    /\ Fresh
    /\ manual' = {t \in manual : WindowPassed(doc.schedules, t, clock)}
    /\ editor' = [e \in Editors |-> IF editor[e].at = "handling" THEN NoEdit ELSE editor[e]]
    /\ snap' = [snap EXCEPT !.schedules = <<>>, !.now = 0]
    /\ UNCHANGED <<doc, clock>>

EvaluateTarget(t) == Gap(t) \/ Idempotent(t) \/ Seed(t) \/ Apply(t) \/ ApplyFails(t)

EngineStep ==
    \/ BeginEvaluate \/ Sleep \/ TimerFires \/ TakeWake
    \/ \E t \in Targets : EvaluateTarget(t)

Edit ==
    \/ \E e \in Editors : Load(e) \/ Handle(e) \/ Replace(e) \/ Reject(e)
    \/ \E i \in DOMAIN doc.schedules : SetEnabled(i) \/ Delete(i)

Next == EngineStep \/ Edit \/ Poll \/ Tick \/ Crash \/ \E t \in Targets : ManualChange(t)

Spec == Init /\ [][Next]_vars

\* A step of the engine as far as pc and todo show it, which is all fairness
\* asks for (and much cheaper to evaluate than EngineStep itself).
EngineMoves ==
    \/ pc = "awake" /\ pc' = "evaluating" /\ todo' \in SUBSET Targets
    \/ pc = "evaluating" /\ UNCHANGED pc /\ \E t \in todo : todo' = todo \ {t}
    \/ pc = "evaluating" /\ pc' = "asleep" /\ todo = {} /\ UNCHANGED todo
    \/ pc = "asleep" /\ pc' = "awake" /\ (wake \/ timer = 0) /\ UNCHANGED todo

\* The goroutine runs, and time passes.
FairSpec == Spec /\ WF_<<pc, todo>>(EngineMoves) /\ WF_vars(Tick)

----------------------------------------------------------------------------
(* Properties. *)

\* At rest the cache tells the truth about the current document: a target under
\* a block has that block's action on record, one in a gap has none, unless
\* its last application failed.  No edit, wake-up or restart in between leaves
\* the engine resting on a document it has not carried out.  The one gap is an
\* evaluation during which the slot changed (history `crossed`).
SettledMatchesDocument ==
    AtRest => \A t \in TargetKeys(doc.schedules) \ failed :
        LET claim == Winner(doc.schedules, t, SlotOf(clock))
        IN last[t] = IF claim = NoClaim THEN NoSignature ELSE Signature(claim.action)

\* A sleeping engine that nobody has woken never sleeps past the next switch
\* point of the document in force, whatever was edited while it evaluated.
TimerCoversNextSwitch ==
    pc = "asleep" /\ ~wake => timer <= TicksToSwitch(doc.schedules, clock)

\* A manual change stays untouched for as long as the schedules ask the same of the
\* target: no poll, no wake-up, no timer, no switch to a block with the same action,
\* no edit of other schedules, or of other hours, or of who asks, and no restart
\* outside the catch-up window makes the engine write to it.  An edit that lands while
\* an evaluation of the old document is under way counts.  (engine.go evaluateTarget)
ManualChangeSurvives == [][\A t \in manual : ~Apply(t)]_vars

\* An editor that sends its revision changes one schedule and keeps every
\* other exactly as it was, even if others save while its request is handled.
CarefulEditKeepsOthers ==
    [][\A e \in Careful :
         editor[e].at = "handling" /\ editor'[e] = NoEdit /\ doc' # doc =>
           \E p \in Programmes :
             LET others(schedules) == {s \in ToSet(schedules) : s.id # p.id}
             IN others(doc.schedules) = others(doc'.schedules)]_vars

\* Every revision is read by an evaluation, or a later one is.
EditsTakeEffect == \A r \in 1..MaxRev : doc.rev = r ~> snap.rev >= r

\* Claimed by engine.go:343 ("On a timer tick the age is ~0"): an evaluation that
\* the timer started, on time, under an unchanged document and after no failed
\* application, never seeds.
TimerTickNeverSeeds == [][ticked /\ failed = {} => \A t \in Targets : ~Seed(t)]_vars

=============================================================================
