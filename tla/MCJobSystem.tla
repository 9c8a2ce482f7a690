---------------------------- MODULE MCJobSystem ----------------------------
(* JobSystem on one API instance.                                           *)
EXTENDS JobSystem

MCCronMinutes == [j \in Cron |-> {0}]
=============================================================================
