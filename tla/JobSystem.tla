----------------------------- MODULE JobSystem -----------------------------
(***************************************************************************)
(* The jobs as they run when EventBridge is configured: JobScheduler, whose *)
(* scheduler main starts in any case, composed with the second execution   *)
(* path: the schedules that JobService creates and deletes in EventBridge, *)
(* the SQS queue they write to, and the Lambda worker (apps/worker).       *)
(* EventBridge and SQS are external; they deliver at least once.           *)
(***************************************************************************)
EXTENDS JobScheduler

CONSTANTS
  MaxCreated,       \* bound: jobs created over a behaviour
  MaxRedeliveries,  \* bound: messages that SQS hands out once more
  CallsFail         \* may a call to EventBridge fail?

ASSUME SystemAssumption ==
  /\ MaxCreated \in Nat /\ MaxRedeliveries \in Nat
  /\ CallsFail \in BOOLEAN

VARIABLES
  calls,        \* calls to EventBridge that API handlers are making
  rules,        \* jobs that have a schedule in EventBridge
  lastSent,     \* [Jobs -> Minutes or NULL], when the schedule last fired
  queue,        \* [Jobs -> Nat], visible SQS messages naming the job
  received,     \* [Jobs -> Nat], messages handed to the worker so far
  redelivered,  \* messages that came back or were duplicated so far
  lambdas       \* worker executions of one message that have not ended

aws == <<calls, rules, lastSent, queue, received, redelivered, lambdas>>
allVars == <<vars, aws>>

Call == [inst : Instances, op : {"create", "delete"}, job : Jobs]

\* Execute on one message. It is over ("done") before its message is: that is
\* deleted when the handler returns, after the whole batch.
Lambda == [id : Nat, job : Jobs, pc : {"get", "fire", "log", "mark", "done"},
           outcome : Outcomes]

SystemInit ==
  /\ Init
  /\ calls = {}
  /\ rules = {}
  /\ lastSent = [j \in Jobs |-> NULL]
  /\ queue = [j \in Jobs |-> 0]
  /\ received = [j \in Jobs |-> 0]
  /\ redelivered = 0
  /\ lambdas = {}

----------------------------------------------------------------------------
(* The API handlers: the row first, then the call to EventBridge, whose     *)
(* failure is ignored.  The schedule is named after the job.                *)

CreateJob(i, j) ==
  /\ up[i]
  /\ Cardinality({k \in Jobs : status[k] # "absent"}) < MaxCreated
  /\ Create(j)
  /\ calls' = calls \union {[inst |-> i, op |-> "create", job |-> j]}
  /\ UNCHANGED <<rules, lastSent, queue, received, redelivered, lambdas>>

DeleteJob(i, j) ==
  /\ up[i]
  /\ Delete(j)
  /\ calls' = calls \union {[inst |-> i, op |-> "delete", job |-> j]}
  /\ UNCHANGED <<rules, lastSent, queue, received, redelivered, lambdas>>

CreateSchedule(c) ==
  /\ c.op = "create"
  /\ rules' = rules \union {c.job}
  /\ calls' = calls \ {c}
  /\ UNCHANGED <<vars, lastSent, queue, received, redelivered, lambdas>>

\* A schedule that is not there counts as deleted.
DeleteSchedule(c) ==
  /\ c.op = "delete"
  /\ rules' = rules \ {c.job}
  /\ calls' = calls \ {c}
  /\ UNCHANGED <<vars, lastSent, queue, received, redelivered, lambdas>>

CallFails(c) ==
  /\ CallsFail
  /\ calls' = calls \ {c}
  /\ UNCHANGED <<vars, rules, lastSent, queue, received, redelivered, lambdas>>

ProcessExits(i) ==
  /\ Crash(i)
  /\ calls' = {c \in calls : c.inst # i}
  /\ UNCHANGED <<rules, lastSent, queue, received, redelivered, lambdas>>

----------------------------------------------------------------------------
(* EventBridge and SQS.                                                     *)

\* A one-time job's schedule fires once and is deleted by EventBridge
\* (ActionAfterCompletion); a cron job's fires in each minute it matches.
RuleFires(j) ==
  /\ j \in rules
  /\ \/ /\ j \in OneTime /\ runAt[j] <= minute
        /\ rules' = rules \ {j}
     \/ /\ j \in Cron /\ minute \in CronMinutes[j] /\ lastSent[j] # minute
        /\ UNCHANGED rules
  /\ lastSent' = [lastSent EXCEPT ![j] = minute]
  /\ queue' = [queue EXCEPT ![j] = @ + 1]
  /\ UNCHANGED <<vars, calls, received, redelivered, lambdas>>

Receive(j) ==
  /\ queue[j] > 0
  /\ queue' = [queue EXCEPT ![j] = @ - 1]
  /\ received' = [received EXCEPT ![j] = @ + 1]
  /\ lambdas' = lambdas \union
       {[id |-> received[j], job |-> j, pc |-> "get", outcome |-> "failed"]}
  /\ UNCHANGED <<vars, calls, rules, lastSent, redelivered>>

\* A message in a worker's hands becomes visible a second time.
Redeliver(l) ==
  /\ redelivered < MaxRedeliveries
  /\ redelivered' = redelivered + 1
  /\ queue' = [queue EXCEPT ![l.job] = @ + 1]
  /\ UNCHANGED <<vars, calls, rules, lastSent, received>>

\* ... because the visibility timeout ran out, or because the invocation died
\* before its handler returned.
RedeliverWhileRunning(l) == Redeliver(l) /\ UNCHANGED lambdas
LambdaDies(l) == Redeliver(l) /\ lambdas' = lambdas \ {l}

----------------------------------------------------------------------------
(* The worker: Executor.Execute on one message.                             *)

Continue(l, next) ==
  /\ lambdas' = (lambdas \ {l}) \union {next}
  /\ UNCHANGED <<calls, rules, lastSent, queue, received, redelivered>>

\* The check on the status forgotten.
GetJob_AnyStatus(l) ==
  /\ l.pc = "get"
  /\ Continue(l, [l EXCEPT !.pc = IF status[l.job] \in Stored THEN "fire" ELSE "done"])
  /\ UNCHANGED vars

\* A job that is gone or not active is skipped.
GetJob(l) ==
  /\ l.pc = "get"
  /\ Continue(l, [l EXCEPT !.pc = IF status[l.job] = "active" THEN "fire" ELSE "done"])
  /\ UNCHANGED vars

\* The query fails: the error is swallowed and the message consumed.
GetJobFails(l) ==
  /\ l.pc = "get"
  /\ Continue(l, [l EXCEPT !.pc = "done"])
  /\ UNCHANGED vars

WorkerFires(l) ==
  /\ l.pc = "fire"
  /\ fires' = [fires EXCEPT ![l.job] = Append(@, [claimed |-> NULL, slot |-> minute])]
  /\ \E o \in Outcomes : Continue(l, [l EXCEPT !.pc = "log", !.outcome = o])
  /\ UNCHANGED <<minute, db, executions, runs, up, crashes>>

\* No SMTP configuration, a password that does not decrypt, a bad URL.
WorkerCannotFire(l) ==
  /\ l.pc = "fire"
  /\ Continue(l, [l EXCEPT !.pc = "log", !.outcome = "failed"])
  /\ UNCHANGED vars

AfterLogExecution(l) ==
  Continue(l, [l EXCEPT !.pc = IF l.job \in OneTime THEN "mark" ELSE "done"])

LogExecution(l) ==
  /\ l.pc = "log"
  /\ status[l.job] \in Stored
  /\ executions' = executions \union
       {[job |-> l.job, claimed |-> minute, status |-> l.outcome]}
  /\ AfterLogExecution(l)
  /\ UNCHANGED <<minute, db, runs, up, crashes, fires>>

LogExecutionFails(l) ==
  /\ l.pc = "log"
  /\ AfterLogExecution(l)
  /\ UNCHANGED vars

\* Completed whatever came of the call.
MarkStatus_AlwaysCompleted(l) == "completed"

MarkStatus(l) == IF l.outcome = "success" THEN "completed" ELSE "failed"

\* MarkJobCompleted or MarkJobFailed, over any earlier status.
MarkJob(l) ==
  /\ l.pc = "mark"
  /\ status' = IF status[l.job] \in Stored
                 THEN [status EXCEPT ![l.job] = MarkStatus(l)]
                 ELSE status
  /\ Continue(l, [l EXCEPT !.pc = "done"])
  /\ UNCHANGED <<minute, runAt, lastRun, executions, runs, up, crashes, fires>>

MarkJobFails(l) ==
  /\ l.pc = "mark"
  /\ Continue(l, [l EXCEPT !.pc = "done"])
  /\ UNCHANGED vars

\* The handler returns nil, whatever happened, and SQS deletes the message.
HandlerReturns(l) ==
  /\ l.pc = "done"
  /\ lambdas' = lambdas \ {l}
  /\ UNCHANGED <<vars, calls, rules, lastSent, queue, received, redelivered>>

Execute(l) ==
  \/ GetJob(l) \/ GetJobFails(l)
  \/ WorkerFires(l) \/ WorkerCannotFire(l)
  \/ LogExecution(l) \/ LogExecutionFails(l)
  \/ MarkJob(l) \/ MarkJobFails(l)
  \/ HandlerReturns(l)

----------------------------------------------------------------------------
\* The worker's INSERT and UPDATE lock the row as the scheduler's own do.
MaybeLockedBySome ==
  MaybeLocked \union {l.job : l \in {k \in lambdas : k.pc \in {"log", "mark"}}}

Ticks(i) ==
  /\ Tick(i, MaybeLockedBySome) \/ TickLosesAnswer(i, MaybeLockedBySome)
  /\ UNCHANGED aws

SystemNext ==
  \/ MinutePasses /\ UNCHANGED aws
  \/ \E i \in Instances :
       \/ ProcessExits(i)
       \/ Restart(i) /\ UNCHANGED aws
       \/ Ticks(i)
       \/ \E j \in Jobs : CreateJob(i, j) \/ DeleteJob(i, j)
  \/ \E r \in runs : ExecuteJob(r) /\ UNCHANGED aws
  \/ \E c \in calls : CreateSchedule(c) \/ DeleteSchedule(c) \/ CallFails(c)
  \/ \E j \in Jobs : RuleFires(j) \/ Receive(j)
  \/ \E l \in lambdas :
       Execute(l) \/ RedeliverWhileRunning(l) \/ LambdaDies(l)

SystemSpec == SystemInit /\ [][SystemNext]_allVars

\* As in JobScheduler; and an EventBridge call returns, a schedule that is due
\* fires, SQS hands a visible message out, and a Lambda invocation goes on.
SystemFairness ==
  /\ WF_allVars(MinutePasses /\ UNCHANGED aws)
  /\ \A i \in Instances :
       /\ WF_allVars(Restart(i) /\ UNCHANGED aws)
       /\ WF_allVars(Ticks(i))
  /\ WF_allVars(\E r \in runs : ExecuteJob(r) /\ UNCHANGED aws)
  /\ WF_allVars(\E c \in calls : CreateSchedule(c) \/ DeleteSchedule(c) \/ CallFails(c))
  /\ WF_allVars(\E j \in Jobs : RuleFires(j))
  /\ WF_allVars(\E j \in Jobs : Receive(j))
  /\ WF_allVars(\E l \in lambdas : Execute(l))

FairSystemSpec == SystemSpec /\ SystemFairness

----------------------------------------------------------------------------
(* Properties.                                                              *)

\* Of the calls made for a job, the scheduler makes no more in all than it can
\* have claimed the job: once, or, a cron job, once in each minute up to now.
\* Beyond that, each is due to a message that the worker received.
\* The worker's status writes never make the scheduler claim a job again.
CallsAreAccountedFor ==
  \A j \in Jobs :
    Len(fires[j]) <= received[j] + (IF j \in OneTime THEN 1 ELSE minute + 1)

\* "completed" is never written for a one-time job that nobody called, by
\* either executor.
CompletedWasCalled ==
  \A j \in OneTime : status[j] = "completed" => fires[j] # << >>

\* The job has settled or is gone, and no executor still holds an earlier
\* reading of it.
Quiet(j) ==
  /\ status[j] \in Settled \union {"deleted"}
  /\ \A r \in runs : r.job # j
  /\ \A l \in lambdas : l.job = j => l.pc \in {"get", "done"}

\* From then on the job is left alone for good: schedules that still fire,
\* messages that are delivered again and ticks change nothing (the status
\* check of Execute, which reads the row and not the message).
QuietIsForever ==
  [][\A j \in OneTime :
       Quiet(j) => /\ fires'[j] = fires[j]
                   /\ Quiet(j)' /\ status'[j] \in {status[j], "deleted"}]_allVars

\* Nothing is left that would execute the job.
Abandoned(j) ==
  /\ Stranded(j)
  /\ j \notin rules /\ queue[j] = 0
  /\ \A c \in calls : c.job # j
  /\ \A l \in lambdas : l.job = j => l.pc = "done"

\* A one-time job that is due settles, is deleted, or was taken up and lost on
\* both paths: a claim lost by the scheduler alone is made good by the worker.
DueJobsSettleOrAreAbandoned ==
  \A j \in OneTime :
    Overdue(j) ~> (status[j] \in Settled \union {"deleted"} \/ Abandoned(j))

\* README.md: a one_time job "runs once at run_at". Both executors run it.
OneTimeRunsOnce == \A j \in OneTime : Len(fires[j]) <= 1

\* JobService.Delete: removing the schedule "prevents orphaned rules that would
\* keep firing after deletion".
NoOrphanedRule ==
  \A j \in rules :
    status[j] = "deleted" => \E c \in calls : c.job = j /\ c.op = "delete"
=============================================================================
