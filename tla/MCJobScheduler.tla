-------------------------- MODULE MCJobScheduler --------------------------
(* JobScheduler on two API instances, one cron job and one one-time job.   *)
EXTENDS JobScheduler

\* A cron expression that matches minute 1 and not 0: the goroutine of a claim
\* in minute 0 can find its job not due or, when it is late, due.
MCCronMinutes == [j \in Cron |-> {1}]

\* The behaviours of FairSpec in which nothing goes wrong but that a process
\* exits: no call or write fails, and no answer is lost.
NextOnlyExits ==
  \/ MinutePasses
  \/ \E i \in Instances : Crash(i) \/ Restart(i) \/ Tick(i, MaybeLocked)
  \/ \E j \in Jobs : Create(j) \/ Delete(j)
  \/ \E r \in runs : CheckDue(r) \/ Fire(r) \/ Log(r) \/ Mark(r)

ExitsSpec == Init /\ [][NextOnlyExits]_vars /\ Fairness
=============================================================================
