-------------------------- MODULE MCScheduledTasks --------------------------
(***************************************************************************)
(* The scheduled tasks for TLC: a task that is sent at two instants, and   *)
(* one of a rule whose second instant is more than 40 years away.          *)
(***************************************************************************)
EXTENDS ScheduledTasks

SchedulesDef == {{1}, {1, 2}}
EndlessDef == {{1}}

=============================================================================
