--------------------------- MODULE JobScheduler ---------------------------
(***************************************************************************)
(* The self-hosted execution path of the jobs: the jobs and job_executions *)
(* tables, the API's create and delete handlers, and the scheduler that    *)
(* runs inside every API process (internal/service/scheduler.go).  Every   *)
(* instance ticks, claims the due rows with one UPDATE ... FOR UPDATE SKIP *)
(* LOCKED, and starts one goroutine per claimed row; the goroutines of all *)
(* instances, the API calls, the clock and process crashes interleave.     *)
(***************************************************************************)
EXTENDS Integers, Sequences, FiniteSets

CONSTANTS
  Instances,    \* API processes
  Jobs,         \* job ids: UUIDs, never used twice
  OneTime,      \* the jobs with schedule_type one_time; the others are cron
  CronMinutes,  \* [Cron -> SUBSET Nat], the minutes a cron expression matches
  MaxMinute,    \* bound: the clock stops there
  MaxCrashes    \* bound: process exits over a behaviour

ASSUME OneTimeAssumption == OneTime \subseteq Jobs
ASSUME CronAssumption == CronMinutes \in [Jobs \ OneTime -> SUBSET Nat]
ASSUME BoundsAssumption == MaxMinute \in Nat /\ MaxCrashes \in Nat

Cron == Jobs \ OneTime
Minutes == 0..MaxMinute
NULL == -1      \* SQL NULL in the timestamp columns

VARIABLES
  minute,      \* the clock, in minutes
  status,      \* [Jobs -> Statuses], jobs.status, or the row's absence
  runAt,       \* [Jobs -> Minutes or NULL], jobs.run_at
  lastRun,     \* [Jobs -> Minutes or NULL], jobs.last_run_at
  executions,  \* the rows of job_executions
  runs,        \* the executeJob goroutines that have not returned
  up,          \* [Instances -> BOOLEAN]
  crashes,     \* process exits so far
  fires        \* history: [Jobs -> Seq(Made)], calls made for the job

db == <<status, runAt, lastRun>>
vars == <<minute, db, executions, runs, up, crashes, fires>>

Settled == {"completed", "failed"}
Stored == {"active"} \union Settled
Statuses == {"absent", "deleted"} \union Stored
Outcomes == {"success", "failed"}

Execution == [job : Jobs, claimed : Minutes, status : Outcomes]

\* History: a call, with the minute of the claim it is due to (NULL if there is
\* none) and the minute that was found due.
Made == [claimed : Minutes \union {NULL}, slot : Minutes]

\* An executeJob goroutine. claimed is the minute of the claim that started
\* it, slot the minute that was found due, pc the next thing it does.
Run == [inst : Instances, job : Jobs, claimed : Minutes, slot : Minutes,
        pc : {"check", "fire", "log", "mark"}, outcome : Outcomes]

TypeOK ==
  /\ minute \in Minutes
  /\ status \in [Jobs -> Statuses]
  /\ runAt \in [Jobs -> Minutes \union {NULL}]
  /\ lastRun \in [Jobs -> Minutes \union {NULL}]
  /\ executions \subseteq Execution
  /\ runs \subseteq Run
  /\ up \in [Instances -> BOOLEAN]
  /\ crashes \in 0..MaxCrashes
  /\ fires \in [Jobs -> Seq(Made)]

Init ==
  /\ minute = 0
  /\ status = [j \in Jobs |-> "absent"]
  /\ runAt = [j \in Jobs |-> NULL]
  /\ lastRun = [j \in Jobs |-> NULL]
  /\ executions = {}
  /\ runs = {}
  /\ up = [i \in Instances |-> TRUE]
  /\ crashes = 0
  /\ fires = [j \in Jobs |-> << >>]

----------------------------------------------------------------------------
(* The environment: the clock, and processes that exit and come back.      *)

MinutePasses ==
  /\ minute < MaxMinute
  /\ minute' = minute + 1
  /\ UNCHANGED <<db, executions, runs, up, crashes, fires>>

\* The process exits, by a crash or by SIGTERM: main returns after the HTTP
\* server is shut down and waits for no executeJob goroutine.
Crash(i) ==
  /\ up[i]
  /\ crashes < MaxCrashes
  /\ up' = [up EXCEPT ![i] = FALSE]
  /\ crashes' = crashes + 1
  /\ runs' = {r \in runs : r.inst # i}
  /\ UNCHANGED <<minute, db, executions, fires>>

\* Nothing is recovered: Start ticks at once, and every minute from then on.
Restart(i) ==
  /\ ~up[i]
  /\ up' = [up EXCEPT ![i] = TRUE]
  /\ UNCHANGED <<minute, db, executions, runs, crashes, fires>>

----------------------------------------------------------------------------
(* The API: JobService.Create and JobService.Delete.                       *)

ApiUp == \E i \in Instances : up[i]

\* A one-time job's run_at must not lie before now.
Create(j) ==
  /\ ApiUp
  /\ status[j] = "absent"
  /\ \E t \in IF j \in OneTime THEN minute..MaxMinute ELSE {NULL} :
       runAt' = [runAt EXCEPT ![j] = t]
  /\ status' = [status EXCEPT ![j] = "active"]
  /\ UNCHANGED <<minute, lastRun, executions, runs, up, crashes, fires>>

\* The job's execution rows go with it (ON DELETE CASCADE); a goroutine that
\* is running the job is not told.
Delete(j) ==
  /\ ApiUp
  /\ status[j] \in Stored
  /\ status' = [status EXCEPT ![j] = "deleted"]
  /\ executions' = {e \in executions : e.job # j}
  /\ UNCHANGED <<minute, runAt, lastRun, runs, up, crashes, fires>>

----------------------------------------------------------------------------
(* The scheduler's tick.  The definitions named X_... are slips that the   *)
(* properties below must notice: each one replaces X in a run of its own.  *)

\* The filter on last_run_at forgotten for one-time jobs.
Due_NoLastRunFilter(j) ==
  /\ status[j] = "active"
  /\ \/ j \in Cron /\ (lastRun[j] = NULL \/ lastRun[j] < minute)
     \/ j \in OneTime /\ runAt[j] <= minute

\* last_run_at <= date_trunc('minute', now) for last_run_at < ...
Due_SameMinuteAgain(j) ==
  /\ status[j] = "active"
  /\ \/ j \in Cron /\ (lastRun[j] = NULL \/ lastRun[j] <= minute)
     \/ j \in OneTime /\ runAt[j] <= minute /\ lastRun[j] = NULL

\* A one-time job picked up only in the very minute of its run_at.
Due_OnlyInItsMinute(j) ==
  /\ status[j] = "active"
  /\ \/ j \in Cron /\ (lastRun[j] = NULL \/ lastRun[j] < minute)
     \/ j \in OneTime /\ runAt[j] = minute /\ lastRun[j] = NULL

Due(j) ==
  /\ status[j] = "active"
  /\ \/ j \in Cron /\ (lastRun[j] = NULL \/ lastRun[j] < minute)
     \/ j \in OneTime /\ runAt[j] <= minute /\ lastRun[j] = NULL

\* An insert into job_executions (its foreign key locks the jobs row) or an
\* UPDATE of the row may be in flight: SKIP LOCKED then passes the row by.
MaybeLocked == {r.job : r \in {s \in runs : s.pc \in {"log", "mark"}}}

\* The UPDATE: C is the set of rows it stamps and returns; rows of locked may
\* be locked.
ListActiveDue(C, locked) ==
  /\ C # {}
  /\ \A j \in C : Due(j)
  /\ \A j \in Jobs \ C : Due(j) => j \in locked
  /\ lastRun' = [j \in Jobs |-> IF j \in C THEN minute ELSE lastRun[j]]

NewRun(i, j) ==
  [inst |-> i, job |-> j, claimed |-> minute, slot |-> minute,
   pc |-> IF j \in Cron THEN "check" ELSE "fire", outcome |-> "failed"]

Tick(i, locked) ==
  /\ up[i]
  /\ \E C \in SUBSET Jobs :
       /\ ListActiveDue(C, locked)
       /\ runs' = runs \union {NewRun(i, j) : j \in C}
  /\ UNCHANGED <<minute, status, runAt, executions, up, crashes, fires>>

\* The UPDATE commits and its answer is lost: the 55 s deadline, a broken
\* connection or a row that does not scan make tick return with no goroutine
\* started, for any of the rows.
TickLosesAnswer(i, locked) ==
  /\ up[i]
  /\ \E C \in SUBSET Jobs : ListActiveDue(C, locked)
  /\ UNCHANGED <<minute, status, runAt, executions, runs, up, crashes, fires>>

----------------------------------------------------------------------------
(* executeJob, a goroutine per claimed row.                                *)

Advance(r, s) == runs' = (runs \ {r}) \union {s}
Return(r) == runs' = runs \ {r}

\* isCronDue reads the clock when the goroutine runs, not when the row was
\* claimed.
CheckDue(r) ==
  /\ r.pc = "check"
  /\ IF minute \in CronMinutes[r.job]
       THEN Advance(r, [r EXCEPT !.pc = "fire", !.slot = minute])
       ELSE Return(r)
  /\ UNCHANGED <<minute, db, executions, up, crashes, fires>>

\* The webhook or the e-mail is sent; the answer may be an error although the
\* other side got it.
Fire(r) ==
  /\ r.pc = "fire"
  /\ fires' = [fires EXCEPT ![r.job] = Append(@, [claimed |-> r.claimed, slot |-> r.slot])]
  /\ \E o \in Outcomes : Advance(r, [r EXCEPT !.pc = "log", !.outcome = o])
  /\ UNCHANGED <<minute, db, executions, up, crashes>>

\* A missing mailer taken for a mail that was sent.
CannotFire_NoError(r) ==
  /\ r.pc = "fire"
  /\ Advance(r, [r EXCEPT !.pc = "log", !.outcome = "success"])
  /\ UNCHANGED <<minute, db, executions, up, crashes, fires>>

\* Nothing is sent: the request cannot be built, there is no mailer.
CannotFire(r) ==
  /\ r.pc = "fire"
  /\ Advance(r, [r EXCEPT !.pc = "log", !.outcome = "failed"])
  /\ UNCHANGED <<minute, db, executions, up, crashes, fires>>

AfterLog(r) ==
  IF r.job \in OneTime THEN Advance(r, [r EXCEPT !.pc = "mark"]) ELSE Return(r)

\* CreateExecution; the foreign key refuses it when the job is gone.
Log(r) ==
  /\ r.pc = "log"
  /\ status[r.job] \in Stored
  /\ executions' = executions \union
       {[job |-> r.job, claimed |-> r.claimed, status |-> r.outcome]}
  /\ AfterLog(r)
  /\ UNCHANGED <<minute, db, up, crashes, fires>>

\* The error is logged and swallowed.
LogFails(r) ==
  /\ r.pc = "log"
  /\ AfterLog(r)
  /\ UNCHANGED <<minute, db, executions, up, crashes, fires>>

\* execErr forgotten; the execution's status written as the job's.
FinalStatus_IgnoresError(r) == "completed"
FinalStatus_WritesOutcome(r) == r.outcome

FinalStatus(r) == IF r.outcome = "success" THEN "completed" ELSE "failed"

\* UpdateStatus looks at no earlier status; it touches no row if the job is
\* gone.
Mark(r) ==
  /\ r.pc = "mark"
  /\ status' = IF status[r.job] \in Stored
                 THEN [status EXCEPT ![r.job] = FinalStatus(r)]
                 ELSE status
  /\ Return(r)
  /\ UNCHANGED <<minute, runAt, lastRun, executions, up, crashes, fires>>

\* The error is logged and swallowed.
MarkFails(r) ==
  /\ r.pc = "mark"
  /\ Return(r)
  /\ UNCHANGED <<minute, db, executions, up, crashes, fires>>

ExecuteJob(r) ==
  \/ CheckDue(r)
  \/ Fire(r) \/ CannotFire(r)
  \/ Log(r) \/ LogFails(r)
  \/ Mark(r) \/ MarkFails(r)

----------------------------------------------------------------------------
Next ==
  \/ MinutePasses
  \/ \E i \in Instances :
       \/ Crash(i) \/ Restart(i)
       \/ Tick(i, MaybeLocked) \/ TickLosesAnswer(i, MaybeLocked)
  \/ \E j \in Jobs : Create(j) \/ Delete(j)
  \/ \E r \in runs : ExecuteJob(r)

Spec == Init /\ [][Next]_vars

\* The ticker of a live process keeps firing, every process is restarted, and
\* a goroutine of a live process keeps running: a webhook call gives up after
\* 30 s, a statement after 10 s, and an e-mail's SMTP server is assumed to
\* answer or hang up.
Fairness ==
  /\ WF_vars(MinutePasses)
  /\ \A i \in Instances :
       /\ WF_vars(Restart(i))
       /\ WF_vars(Tick(i, MaybeLocked) \/ TickLosesAnswer(i, MaybeLocked))
  /\ \A j \in Jobs : WF_vars(\E r \in runs : r.job = j /\ ExecuteJob(r))

FairSpec == Spec /\ Fairness
----------------------------------------------------------------------------
(* Safety.                                                                 *)

\* A row is never handed to two goroutines for one minute, whatever the
\* number of instances ticking at once and of restarts in that minute
\* (ListActiveDue).
ClaimsAreExclusive ==
  \A r1, r2 \in runs :
    r1.job = r2.job /\ r1.claimed = r2.claimed => r1 = r2

\* The endpoint of a one-time job is called at most once, across instances,
\* crashes, restarts and failed writes (ListActiveDue, executeJob).
OneTimeFiresAtMostOnce == \A j \in OneTime : Len(fires[j]) <= 1

\* A cron job is called for minutes its expression matches only, and once for
\* each claim, however many instances tick and however late their goroutines
\* run. So the claim of a minute serves that minute once; a second call for it
\* can only come from a claim of an earlier minute, whose goroutine reads the
\* clock late (isCronDue), as one call for each such claim.
CronClaimCallsOnce ==
  \A j \in Cron : \A n \in DOMAIN fires[j] :
    LET c == fires[j][n] IN
    /\ c.slot \in CronMinutes[j] /\ c.claimed <= c.slot
    /\ \A m \in DOMAIN fires[j] \ {n} : fires[j][m].claimed # c.claimed

\* What the user is told of a settled one-time job is what happened:
\* "completed" needs a call that was made, and the row of its execution, when
\* there is one, says the same as its status (executeJob's two writes, either
\* of which may fail).
SettledStatusIsTrue ==
  \A j \in OneTime :
    /\ status[j] = "completed" => Len(fires[j]) = 1
    /\ \A e \in executions :
         e.job = j /\ status[j] \in Settled =>
           (e.status = "success" <=> status[j] = "completed")

\* The execution history never shows more successes than calls were made.
HistoryIsTrue ==
  \A j \in Jobs :
    Cardinality({e \in executions : e.job = j /\ e.status = "success"})
      <= Len(fires[j])

----------------------------------------------------------------------------
(* The inductive invariant: why OneTimeFiresAtMostOnce and                 *)
(* SettledStatusIsTrue hold.                                               *)

LastRunIsPast == \A j \in Jobs : lastRun[j] <= minute

\* A goroutine exists only because of a claim, which left its minute behind;
\* only a one-time job's goroutine goes on to write the status.
RunsAreClaimed ==
  \A r \in runs :
    /\ r.claimed <= lastRun[r.job]
    /\ r.pc = "mark" => r.job \in OneTime

\* What is known of the goroutine of a one-time job: it is the one of the only
\* claim, so nothing it has not done yet was done by anyone.
OnlyRun(r) ==
  /\ r.claimed = lastRun[r.job]
  /\ status[r.job] \notin Settled
  /\ r.pc # "check"
  /\ r.pc = "fire" => fires[r.job] = << >>
  /\ r.pc # "fire" /\ r.outcome = "success" => Len(fires[r.job]) = 1
  /\ \A e \in executions :
       e.job = r.job => r.pc = "mark" /\ e.status = r.outcome

OneTimeProgress ==
  /\ \A r \in runs : r.job \in OneTime => OnlyRun(r)
  /\ \A j \in OneTime :
       lastRun[j] = NULL =>
         /\ fires[j] = << >>
         /\ status[j] \notin Settled
         /\ \A e \in executions : e.job # j

IInv ==
  /\ TypeOK
  /\ LastRunIsPast
  /\ RunsAreClaimed
  /\ ClaimsAreExclusive
  /\ OneTimeProgress
  /\ OneTimeFiresAtMostOnce
  /\ SettledStatusIsTrue

----------------------------------------------------------------------------
(* Action properties.                                                      *)

\* UpdateStatus is unguarded, and yet a settled status is only ever lost with
\* the row: no late goroutine turns "completed" into "failed" or back.
SettledIsFinal ==
  [][\A j \in Jobs :
       status[j] \in Settled => status'[j] \in {status[j], "deleted"}]_vars

\* A one-time job that was claimed, is still "active", and has no goroutine:
\* its process exited, or the claim's or the status write's answer was lost.
Stranded(j) ==
  /\ status[j] = "active" /\ lastRun[j] # NULL
  /\ \A r \in runs : r.job # j

\* Nothing picks a stranded one-time job up again: it is never called later
\* and stays "active" until its user deletes it (ListActiveDue skips it, and
\* there is no recovery at startup).
StrandedIsForever ==
  [][\A j \in OneTime :
       Stranded(j) => /\ fires'[j] = fires[j]
                      /\ Stranded(j)' \/ status'[j] = "deleted"]_vars

----------------------------------------------------------------------------
(* Liveness, under FairSpec.                                               *)

Overdue(j) == status[j] = "active" /\ runAt[j] <= minute

\* Every one-time job whose time has come is claimed, unless it is deleted
\* first: run_at <= now leaves no window that a late tick could miss.
DueOneTimeIsClaimed ==
  \A j \in OneTime :
    Overdue(j) ~> (lastRun[j] # NULL \/ status[j] = "deleted")

\* ... and from there it settles, is deleted, or is stranded; no goroutine
\* stops half way in a live process.
DueOneTimeSettlesOrStrands ==
  \A j \in OneTime :
    Overdue(j) ~> (status[j] \in Settled \union {"deleted"} \/ Stranded(j))

\* What README.md says of a one-time job, "runs once at run_at": its endpoint is
\* called, unless the job is deleted. A process exit between the claim and the
\* call refutes it.
DueOneTimeIsCalled ==
  \A j \in OneTime :
    Overdue(j) ~> (fires[j] # << >> \/ status[j] = "deleted")

----------------------------------------------------------------------------
(* The one-time jobs implement OneTimeExecution.                           *)

Abstract == INSTANCE OneTimeExecution WITH
  Jobs   <- OneTime,
  status <- [j \in OneTime |-> status[j]],
  taken  <- [j \in OneTime |-> lastRun[j] # NULL],
  calls  <- [j \in OneTime |-> Len(fires[j])]

\* Every behaviour of the instances, seen from the one-time jobs, is one the
\* abstract specification allows.
ImplementsOneTimeExecution == Abstract!Spec
=============================================================================
