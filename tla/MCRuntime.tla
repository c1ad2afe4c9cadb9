----------------------------- MODULE MCRuntime -----------------------------
(***************************************************************************)
(* The simulation of the server that OperationalRuntime.cfg checks.  A     *)
(* world of one bit, so that two branches of the timeline differ, an input *)
(* that turns it, and one that overflows in one of the two worlds.         *)
(***************************************************************************)
EXTENDS OperationalRuntime

Turns(world, input) == IF input = "turn" THEN 1 - world ELSE world

Outgrows(world, input) == input = "grow" /\ world = 1

=============================================================================
