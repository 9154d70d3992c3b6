-------------------------- MODULE MCScheduleEngine --------------------------
(* A week of one day of four slots of one tick.  The document found on disk  *)
(* has a base programme that leaves a gap, and an override of higher         *)
(* priority that ends before the base block does; the editors may replace    *)
(* the base by a programme that holds all day and so runs past the end of    *)
(* the week into its own next start.                                         *)
EXTENDS ScheduleEngine, TLC

CONSTANTS living, ui, script

MCTargets == {living}
MCEditors == {ui, script}
MCCareful == {ui}

Blank == [power |-> "", mode |-> "", setpoint |-> <<>>, silent |-> <<>>, econo |-> <<>>, demand |-> <<>>]
On(mode) == [Blank EXCEPT !.power = "on", !.mode = mode]
Off == [Blank EXCEPT !.power = "off"]
Block(id, days, start, length, action) ==
    [id |-> id, days |-> days, start |-> start, length |-> length, action |-> action]
Programme(id, priority, targets, blocks) ==
    [id |-> id, enabled |-> TRUE, priority |-> priority, targets |-> targets, blocks |-> blocks]

Base == Programme("base", 1, {living}, <<Block("b1", {0}, 0, 3, On("heat"))>>)
Over == Programme("over", 2, {living}, <<Block("b1", {0}, 1, 1, Off)>>)
Changed == Programme("base", 1, {living}, <<Block("b1", {0}, 2, 4, On("dry"))>>)

MCFirst == <<Base, Over>>
MCProgrammes == {Changed}
=============================================================================
