---------------------------- MODULE MCSchedules ----------------------------
(***************************************************************************)
(* Instance of Schedules for TLC: a schedule that is due at every tick,    *)
(* one whose grid leaves ticks out, and one of a scope with more shards    *)
(* than are allowed.                                                       *)
(***************************************************************************)
EXTENDS Schedules, TLC

CONSTANTS hourly, daily, vast

MCSchedule == {hourly, daily, vast}
MCInterval == (hourly :> 1) @@ (daily :> 2) @@ (vast :> 1)
MCUnshardable == {vast}
=============================================================================
