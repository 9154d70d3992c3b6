--------------------------- MODULE MCDiscoveryGate ---------------------------
(* The documents of one unit and of the scheduler, two reconnects.           *)
(* "fewer" lacks a component of each document, "none" also every schedule.   *)
EXTENDS DiscoveryGate, TLC

CONSTANTS unit, scheduler

MCDevices == {unit, scheduler}
MCSignatures == {"all", "fewer", "none"}
MCComps == [s \in MCSignatures |-> [d \in MCDevices |->
    CASE s = "all" -> {"x", "y"} [] s = "none" /\ d = scheduler -> {} [] OTHER -> {"x"}]]
=============================================================================
