---------------------------- MODULE MCScheduler ----------------------------
(***************************************************************************)
(* An instance of Scheduler for TLC: two queues, the items of one of them  *)
(* run alone on a wide engine.                                             *)
(***************************************************************************)
EXTENDS Scheduler

CONSTANTS encode, extract

\* The default, and each knob turned off.
OneKnobOff == [idle : BOOLEAN, hold : BOOLEAN] \ {[idle |-> FALSE, hold |-> FALSE]}
=============================================================================
