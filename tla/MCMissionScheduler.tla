-------------------------- MODULE MCMissionScheduler --------------------------
(* Two workers and two schedules.  The time bound lets a crashed worker's  *)
(* lease run out and a schedule fail often enough to be switched off.      *)
EXTENDS MissionScheduler
===============================================================================
