---------------------------- MODULE MCOutdoorEcono ----------------------------
(* Two indoor units on one outdoor unit. *)
EXTENDS OutdoorEcono, TLC

CONSTANTS u1, u2

Alike == Permutations({u1, u2})

\* The properties say nothing of what follows a disturbance.
Undisturbed == ~disturbed
=============================================================================
