----------------------------- MODULE MCWritePath -----------------------------
(* An outdoor unit with one unit on a Faikin module and one in the cloud,    *)
(* and the set messages and block actions that can cross.                    *)
EXTENDS WritePath

Ask(u, item, value) == [unit |-> u, item |-> item, value |-> value, for |-> Nothing]
House(bedroom, living) == [bedroom |-> bedroom, living |-> living]
Runs(mode) == [on |-> TRUE, mode |-> mode]
Rests(mode) == [on |-> FALSE, mode |-> mode]

MCMembers == <<"bedroom", "living">>
MCLocal == {"living"}
MCHouses == {House(Rests("auto"), Runs("heating"))}
MCCommands == {
    Ask("living", "hvac", "off"), Ask("living", "mode", "cooling"), Ask("bedroom", "fan", Nothing) }
MCActions == {
    [unit |-> "bedroom", value |-> "cooling", setpoint |-> TRUE],
    [unit |-> "living", value |-> "heating", setpoint |-> FALSE] }
=============================================================================
