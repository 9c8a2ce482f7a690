-------------------------- MODULE JobSystemProofs --------------------------
(***************************************************************************)
(* Theorems about JobSystem: both executors at once, for every set of      *)
(* instances and jobs, every number of crashes and redeliveries, and       *)
(* whether or not the calls to EventBridge fail.  The lemmas about the     *)
(* scheduler's own steps are those of JobSchedulerProofs.                  *)
(***************************************************************************)
EXTENDS JobSystem, JobSchedulerProofs

----------------------------------------------------------------------------
(* The inductive invariant.                                                *)

\* A step of the jobs' rows and goroutines that is not the worker's.
JobStep == StepUnder(MaybeLockedBySome)

\* What WorkerFires adds to the history.
WorkerCall == [claimed |-> NULL, slot |-> minute]

LEMMA WorkerCallType == TypeOK => WorkerCall \in Made
BY DEF TypeOK, WorkerCall, Made

AwsTypeOK ==
  /\ calls \subseteq Call
  /\ rules \subseteq Jobs
  /\ lastSent \in [Jobs -> Minutes \union {NULL}]
  /\ queue \in [Jobs -> Nat]
  /\ received \in [Jobs -> Nat]
  /\ redelivered \in 0..MaxRedeliveries
  /\ lambdas \subseteq Lambda

\* The worker executions that may still call the job's endpoint.
WorkerToFire(j) == {l \in lambdas : l.job = j /\ l.pc \in {"get", "fire"}}

\* The calls made and those still possible, by either executor, are covered by
\* the claims of the one and the messages of the other.
CallsHaveACause ==
  \A j \in Jobs :
    /\ IsFiniteSet(ToFire(j)) /\ IsFiniteSet(WorkerToFire(j))
    /\ Len(fires[j]) + Cardinality(ToFire(j)) + Cardinality(WorkerToFire(j))
         <= received[j] + Claimed(j)

\* An executor that remembers a success made the call.
Remembers(x) == x.pc \in {"log", "mark"} /\ x.outcome = "success"
SuccessWasCalled ==
  /\ \A r \in runs : Remembers(r) => fires[r.job] # << >>
  /\ \A l \in lambdas : Remembers(l) => fires[l.job] # << >>

SystemInv ==
  /\ TypeOK
  /\ AwsTypeOK
  /\ LastRunIsPast
  /\ CallsHaveACause
  /\ SuccessWasCalled
  /\ CompletedWasCalled

----------------------------------------------------------------------------
(* Types.                                                                  *)

\* A worker execution that goes on is still a worker execution.
LEMMA LambdaType ==
  ASSUME NEW l \in Lambda
  PROVE  /\ \A p \in {"fire", "mark", "done"} : [l EXCEPT !.pc = p] \in Lambda
         /\ \A o \in Outcomes : [l EXCEPT !.pc = "log", !.outcome = o] \in Lambda
BY DEF Lambda

\* What one step of the worker does to its execution: it goes on with the same
\* job, towards the call only from "get" and past it only by making the call
\* or giving up, or it is over.
LEMMA ExecuteMoves ==
  ASSUME NEW l \in Lambda, Execute(l)
  PROVE  \/ /\ lambdas' = lambdas \ {l}
            /\ UNCHANGED <<vars, calls, rules, lastSent, queue, received,
                           redelivered>>
         \/ \E m \in Lambda :
              /\ m.job = l.job /\ Continue(l, m)
              /\ \/ l.pc = "get" /\ m.pc \in {"fire", "done"}
                 \/ l.pc = "fire" /\ m.pc = "log"
                 \/ l.pc \in {"log", "mark"} /\ m.pc \in {"mark", "done"}
              /\ l.pc \in {"log", "mark"} => m.outcome = l.outcome
              /\ l.pc = "fire" /\ m.outcome = "success" => WorkerFires(l)
<1>1. CASE HandlerReturns(l)
  BY <1>1 DEF HandlerReturns
<1>2. CASE WorkerFires(l)
  <2>1. PICK o \in Outcomes :
          l.pc = "fire" /\ Continue(l, [l EXCEPT !.pc = "log", !.outcome = o])
    BY <1>2 DEF WorkerFires
  <2> DEFINE m == [l EXCEPT !.pc = "log", !.outcome = o]
  <2>2. m \in Lambda /\ m.job = l.job /\ m.pc = "log"
    BY DEF Lambda
  <2> HIDE DEF m
  <2> QED BY <1>2, <2>1, <2>2 DEF m
<1>3. CASE WorkerCannotFire(l)
  <2> DEFINE m == [l EXCEPT !.pc = "log", !.outcome = "failed"]
  <2>2. m \in Lambda /\ m.job = l.job /\ m.pc = "log" /\ m.outcome = "failed"
    BY DEF Lambda, Outcomes
  <2>3. l.pc = "fire" /\ Continue(l, m)
    BY <1>3 DEF WorkerCannotFire
  <2> HIDE DEF m
  <2> QED BY <2>2, <2>3
<1>4. ASSUME NEW p \in {"fire", "mark", "done"}, Continue(l, [l EXCEPT !.pc = p]),
             \/ l.pc = "get" /\ p \in {"fire", "done"}
             \/ l.pc \in {"log", "mark"} /\ p \in {"mark", "done"}
      PROVE  \E m \in Lambda :
               /\ m.job = l.job /\ Continue(l, m)
               /\ \/ l.pc = "get" /\ m.pc \in {"fire", "done"}
                  \/ l.pc \in {"log", "mark"} /\ m.pc \in {"mark", "done"}
               /\ l.pc \in {"log", "mark"} => m.outcome = l.outcome
               /\ l.pc # "fire"
  <2> DEFINE m == [l EXCEPT !.pc = p]
  <2>1. m \in Lambda /\ m.job = l.job /\ m.pc = p /\ m.outcome = l.outcome
    BY DEF Lambda
  <2> HIDE DEF m
  <2> QED BY <1>4, <2>1 DEF m
<1>5. CASE GetJob(l) \/ GetJobFails(l)
  <2>1. \E p \in {"fire", "done"} :
          l.pc = "get" /\ Continue(l, [l EXCEPT !.pc = p])
    BY <1>5 DEF GetJob, GetJobFails
  <2> QED BY <2>1, <1>4
<1>6. CASE LogExecution(l) \/ LogExecutionFails(l) \/ MarkJob(l) \/ MarkJobFails(l)
  <2>1. \E p \in {"mark", "done"} :
          l.pc \in {"log", "mark"} /\ Continue(l, [l EXCEPT !.pc = p])
    BY <1>6 DEF LogExecution, LogExecutionFails, AfterLogExecution, MarkJob,
                MarkJobFails
  <2> QED BY <2>1, <1>4
<1> QED
  BY <1>1, <1>2, <1>3, <1>5, <1>6 DEF Execute

\* What a step of the system is to the scheduler's variables: a step of the
\* scheduler, a write of the worker, or nothing.
LEMMA StepKinds ==
  ASSUME SystemNext
  PROVE  \/ JobStep /\ UNCHANGED <<received, lambdas>>
         \/ \E l \in lambdas : Execute(l)
         \/ UNCHANGED vars /\ \E j \in Jobs : RuleFires(j) \/ Receive(j)
         \/ UNCHANGED vars /\ \E c \in calls :
              CreateSchedule(c) \/ DeleteSchedule(c) \/ CallFails(c)
         \/ UNCHANGED vars /\ \E l \in lambdas :
              RedeliverWhileRunning(l) \/ LambdaDies(l)
<1>1. ASSUME NEW i \in Instances, ProcessExits(i)
      PROVE  JobStep /\ UNCHANGED <<received, lambdas>>
  BY <1>1 DEF ProcessExits, JobStep, StepUnder
<1>2. ASSUME NEW i \in Instances, NEW j \in Jobs, CreateJob(i, j) \/ DeleteJob(i, j)
      PROVE  JobStep /\ UNCHANGED <<received, lambdas>>
  BY <1>2 DEF CreateJob, DeleteJob, JobStep, StepUnder
<1>3. CASE MinutePasses /\ UNCHANGED aws
  BY <1>3 DEF aws, JobStep, StepUnder
<1>4. ASSUME NEW i \in Instances, (Restart(i) /\ UNCHANGED aws) \/ Ticks(i)
      PROVE  JobStep /\ UNCHANGED <<received, lambdas>>
  BY <1>4 DEF aws, Ticks, JobStep, StepUnder
<1>5. ASSUME NEW r \in runs, ExecuteJob(r), UNCHANGED aws
      PROVE  JobStep /\ UNCHANGED <<received, lambdas>>
  BY <1>5 DEF aws, JobStep, StepUnder
<1>6. ASSUME NEW j \in Jobs, RuleFires(j) \/ Receive(j) PROVE UNCHANGED vars
  BY <1>6 DEF RuleFires, Receive
<1>7. ASSUME NEW c \in calls, CreateSchedule(c) \/ DeleteSchedule(c) \/ CallFails(c)
      PROVE  UNCHANGED vars
  BY <1>7 DEF CreateSchedule, DeleteSchedule, CallFails
<1>8. ASSUME NEW l \in lambdas, RedeliverWhileRunning(l) \/ LambdaDies(l)
      PROVE  UNCHANGED vars
  BY <1>8 DEF RedeliverWhileRunning, LambdaDies, Redeliver
<1> QED
  BY <1>1, <1>2, <1>3, <1>4, <1>5, <1>6, <1>7, <1>8 DEF SystemNext

\* The worker's writes keep the types of the jobs' rows.
LEMMA TypeOKExecute ==
  ASSUME TypeOK, NEW l \in Lambda, Execute(l)
  PROVE  TypeOK'
<1> USE DEF TypeOK
<1>l. l.job \in Jobs /\ l.outcome \in Outcomes
  BY DEF Lambda
<1>1. CASE UNCHANGED vars
  BY <1>1 DEF vars, db
<1>2. CASE WorkerFires(l)
  <2>1. fires' \in [Jobs -> Seq(Made)]
    BY <1>2, <1>l, WorkerCallType DEF WorkerFires, WorkerCall
  <2> QED BY <1>2, <2>1 DEF WorkerFires, db
<1>3. CASE LogExecution(l)
  <2>1. executions' \subseteq Execution
    BY <1>3, <1>l DEF LogExecution, Execution
  <2> QED BY <1>3, <2>1 DEF LogExecution, db
<1>4. CASE MarkJob(l)
  <2>1. status' \in [Jobs -> Statuses]
    BY <1>4, <1>l DEF MarkJob, MarkStatus, Statuses, Stored, Settled
  <2> QED BY <1>4, <2>1 DEF MarkJob
<1> QED
  BY <1>1, <1>2, <1>3, <1>4
     DEF Execute, GetJob, GetJobFails, WorkerCannotFire, LogExecutionFails,
         MarkJobFails, HandlerReturns

LEMMA SystemTypes ==
  ASSUME TypeOK, AwsTypeOK, SystemNext
  PROVE  TypeOK' /\ AwsTypeOK'
<1> USE DEF AwsTypeOK
<1>1. TypeOK'
  <2>1. CASE JobStep
    BY <2>1, TypeOKStep DEF JobStep
  <2>2. ASSUME NEW l \in lambdas, Execute(l) PROVE TypeOK'
    BY <2>2, TypeOKExecute
  <2>3. CASE UNCHANGED vars
    BY <2>3, TypeOKInductive
  <2> QED BY <2>1, <2>2, <2>3, StepKinds
<1>2. AwsTypeOK'
  <2>1. CASE UNCHANGED aws
    BY <2>1 DEF aws
  <2>2. ASSUME NEW i \in Instances, ProcessExits(i) PROVE AwsTypeOK'
    BY <2>2 DEF ProcessExits
  <2>3. ASSUME NEW i \in Instances, NEW j \in Jobs, CreateJob(i, j) \/ DeleteJob(i, j)
        PROVE  AwsTypeOK'
    BY <2>3 DEF CreateJob, DeleteJob, Call
  <2>4. ASSUME NEW c \in calls, CreateSchedule(c) \/ DeleteSchedule(c) \/ CallFails(c)
        PROVE  AwsTypeOK'
    BY <2>4 DEF CreateSchedule, DeleteSchedule, CallFails, Call
  <2>5. ASSUME NEW j \in Jobs, RuleFires(j) PROVE AwsTypeOK'
    <3>1. rules' \subseteq Jobs
      BY <2>5 DEF RuleFires
    <3>2. lastSent' \in [Jobs -> Minutes \union {NULL}]
      BY <2>5 DEF RuleFires, TypeOK
    <3>3. queue' \in [Jobs -> Nat]
      BY <2>5 DEF RuleFires
    <3> QED BY <2>5, <3>1, <3>2, <3>3 DEF RuleFires
  <2>6. ASSUME NEW j \in Jobs, Receive(j) PROVE AwsTypeOK'
    <3>1. queue' \in [Jobs -> Nat] /\ received' \in [Jobs -> Nat]
      BY <2>6 DEF Receive
    <3>2. lambdas' \subseteq Lambda
      BY <2>6 DEF Receive, Lambda, Outcomes
    <3> QED BY <2>6, <3>1, <3>2 DEF Receive
  <2>7. ASSUME NEW l \in lambdas, RedeliverWhileRunning(l) \/ LambdaDies(l)
        PROVE  AwsTypeOK'
    <3>1. l.job \in Jobs
      BY DEF Lambda
    <3>2. queue' \in [Jobs -> Nat]
      BY <2>7, <3>1 DEF RedeliverWhileRunning, LambdaDies, Redeliver
    <3>3. redelivered' \in 0..MaxRedeliveries
      BY <2>7, SystemAssumption DEF RedeliverWhileRunning, LambdaDies, Redeliver
    <3> QED BY <2>7, <3>2, <3>3 DEF RedeliverWhileRunning, LambdaDies, Redeliver
  <2>8. ASSUME NEW l \in lambdas, Execute(l) PROVE AwsTypeOK'
    BY <2>8, ExecuteMoves DEF Continue
  <2> QED
    BY <2>1, <2>2, <2>3, <2>4, <2>5, <2>6, <2>7, <2>8 DEF SystemNext, Ticks
<1> QED
  BY <1>1, <1>2

\* last_run_at only ever moves to the current minute, and the clock only on.
LEMMA LastRunStep ==
  ASSUME TypeOK, LastRunIsPast, SystemNext
  PROVE  LastRunIsPast'
<1>t. minute \in Nat /\ \A j \in Jobs : lastRun[j] \in Int /\ lastRun[j] <= minute
  BY BoundsAssumption DEF TypeOK, Minutes, NULL, LastRunIsPast
<1>1. CASE UNCHANGED <<minute, lastRun>>
  BY <1>1 DEF LastRunIsPast
<1>2. CASE MinutePasses
  BY <1>2, <1>t DEF MinutePasses, db, LastRunIsPast
<1>3. ASSUME NEW i \in Instances, Tick(i, MaybeLockedBySome) \/ TickLosesAnswer(i, MaybeLockedBySome)
      PROVE  LastRunIsPast'
  BY <1>3, <1>t DEF Tick, TickLosesAnswer, ListActiveDue, LastRunIsPast
<1>4. ASSUME NEW l \in lambdas, Execute(l) PROVE UNCHANGED <<minute, lastRun>>
  BY <1>4 DEF Execute, GetJob, GetJobFails, WorkerFires, WorkerCannotFire,
              LogExecution, LogExecutionFails, MarkJob, MarkJobFails,
              HandlerReturns, vars, db
<1>e. ASSUME NEW r \in runs, ExecuteJob(r) PROVE UNCHANGED <<minute, lastRun>>
  BY <1>e DEF ExecuteJob, CheckDue, Fire, CannotFire, Log, LogFails, Mark,
              MarkFails, db
<1>5. JobStep => \/ MinutePasses
                 \/ \E i \in Instances : \/ Tick(i, MaybeLockedBySome)
                                         \/ TickLosesAnswer(i, MaybeLockedBySome)
                 \/ UNCHANGED <<minute, lastRun>>
  BY <1>e DEF JobStep, StepUnder, Crash, Restart, Create, Delete, db
<1>6. UNCHANGED vars => UNCHANGED <<minute, lastRun>>
  BY DEF vars, db
<1> QED
  BY <1>1, <1>2, <1>3, <1>4, <1>5, <1>6, StepKinds

----------------------------------------------------------------------------
(* Every call has a cause.                                                 *)

LEMMA CausesStep ==
  ASSUME TypeOK, AwsTypeOK, LastRunIsPast, SystemNext, NEW j \in Jobs,
         IsFiniteSet(ToFire(j)), IsFiniteSet(WorkerToFire(j)),
         Len(fires[j]) + Cardinality(ToFire(j)) + Cardinality(WorkerToFire(j))
           <= received[j] + Claimed(j)
  PROVE  /\ IsFiniteSet(ToFire(j)') /\ IsFiniteSet(WorkerToFire(j)')
         /\ Len(fires'[j]) + Cardinality(ToFire(j)') + Cardinality(WorkerToFire(j)')
              <= received'[j] + Claimed(j)'
<1> DEFINE T == ToFire(j)
           TP == ToFire(j)'
           W == WorkerToFire(j)
           WP == WorkerToFire(j)'
           Goal == /\ IsFiniteSet(TP) /\ IsFiniteSet(WP)
                   /\ Len(fires'[j]) + Cardinality(TP) + Cardinality(WP)
                        <= received'[j] + Claimed(j)'
<1>t. TypeOK' /\ AwsTypeOK'
  BY SystemTypes
<1>l. lastRun[j] \in Int /\ lastRun'[j] \in Int
  BY <1>t, BoundsAssumption DEF TypeOK, Minutes, NULL
<1>c. Claimed(j) \in Int /\ Claimed(j)' \in Int
  BY <1>l DEF Claimed
<1>n. Len(fires[j]) \in Nat /\ Len(fires'[j]) \in Nat
  BY <1>t DEF TypeOK
<1>r. received[j] \in Nat /\ received'[j] \in Nat
  BY <1>t DEF AwsTypeOK
<1>i. /\ IsFiniteSet(T) /\ IsFiniteSet(W)
      /\ Len(fires[j]) + Cardinality(T) + Cardinality(W) <= received[j] + Claimed(j)
  OBVIOUS
<1>d. Cardinality(T) \in Nat /\ Cardinality(W) \in Nat
  BY FS_CardinalityType
\* Fewer worker executions and nothing else of the job: the bound holds on.
<1>0. ASSUME UNCHANGED <<runs, lastRun>>, fires'[j] = fires[j],
             received'[j] = received[j], WP \subseteq W
      PROVE  Goal
  <2>1. TP = T /\ Claimed(j)' = Claimed(j)
    BY <1>0 DEF ToFire, Claimed
  <2>2. IsFiniteSet(WP) /\ Cardinality(WP) <= Cardinality(W)
    BY <1>0, FS_Subset
  <2>3. Cardinality(WP) \in Nat
    BY <2>2, FS_CardinalityType
  <2> HIDE DEF T, TP, W, WP
  <2> QED BY <1>0, <1>i, <1>c, <1>n, <1>r, <1>d, <2>1, <2>2, <2>3
<1>1. ASSUME JobStep, UNCHANGED <<received, lambdas>> PROVE Goal
  <2>1. /\ IsFiniteSet(TP)
        /\ Len(fires'[j]) + Cardinality(TP) + Claimed(j)
             <= Len(fires[j]) + Cardinality(T) + Claimed(j)'
    BY <1>1, CallsStep DEF JobStep
  <2>2. IsFiniteSet(WP) /\ Cardinality(WP) = Cardinality(W) /\ received'[j] = received[j]
    BY <1>1 DEF WorkerToFire
  <2>3. Cardinality(TP) \in Nat
    BY <2>1, FS_CardinalityType
  <2> HIDE DEF T, TP, W, WP
  <2>4. Len(fires'[j]) + Cardinality(TP)
          <= Len(fires[j]) + Cardinality(T) + (Claimed(j)' - Claimed(j))
    BY <1>c, <1>n, <1>d, <2>1, <2>3
  <2>5. Len(fires[j]) + Cardinality(T) <= received[j] + Claimed(j) - Cardinality(W)
    BY <1>c, <1>n, <1>r, <1>d, <1>i
  <2>6. Len(fires'[j]) + Cardinality(TP)
          <= received[j] + Claimed(j) - Cardinality(W) + (Claimed(j)' - Claimed(j))
    BY <1>c, <1>n, <1>r, <1>d, <2>3, <2>4, <2>5, SMTT(30)
  <2>7. Len(fires'[j]) + Cardinality(TP) + Cardinality(W) <= received[j] + Claimed(j)'
    BY <1>c, <1>n, <1>r, <1>d, <2>3, <2>6
  <2> QED BY <2>1, <2>2, <2>7
<1>2. ASSUME NEW l \in lambdas, Execute(l) PROVE Goal
  <2>l. l \in Lambda
    BY DEF AwsTypeOK
  <2>u. UNCHANGED <<runs, lastRun, received>>
    BY <1>2 DEF Execute, GetJob, GetJobFails, WorkerFires, WorkerCannotFire,
                LogExecution, LogExecutionFails, AfterLogExecution, MarkJob,
                MarkJobFails, HandlerReturns, Continue, vars, db
  <2>1. CASE WorkerFires(l) /\ l.job = j
    <3>1. PICK o \in Outcomes : Continue(l, [l EXCEPT !.pc = "log", !.outcome = o])
      BY <2>1 DEF WorkerFires
    <3>2. [l EXCEPT !.pc = "log", !.outcome = o].pc = "log"
      BY <2>l DEF Lambda
    <3>3. l \in W /\ WP \subseteq W \ {l}
      BY <2>1, <3>1, <3>2 DEF WorkerFires, Continue, WorkerToFire
    <3>4. IsFiniteSet(WP) /\ Cardinality(WP) + 1 <= Cardinality(W)
      BY <3>3, CardLess
    <3>5. Cardinality(WP) \in Nat
      BY <3>4, FS_CardinalityType
    <3>6. fires'[j] = Append(fires[j], WorkerCall)
      BY <2>1 DEF WorkerFires, TypeOK, WorkerCall
    <3>7. Len(fires'[j]) = Len(fires[j]) + 1
      BY <3>6, WorkerCallType DEF TypeOK
    <3>8. TP = T /\ Claimed(j)' = Claimed(j) /\ received' = received
      BY <2>u DEF ToFire, Claimed
    <3> HIDE DEF T, TP, W, WP
    <3> QED BY <1>i, <1>c, <1>n, <1>r, <1>d, <3>4, <3>5, <3>7, <3>8, SMTT(30)
  <2>2. CASE ~(WorkerFires(l) /\ l.job = j)
    <3>1. fires'[j] = fires[j]
      BY <1>2, <2>2 DEF Execute, GetJob, GetJobFails, WorkerFires, WorkerCannotFire,
                LogExecution, LogExecutionFails, MarkJob, MarkJobFails,
                HandlerReturns, vars, TypeOK
    <3>2. CASE lambdas' = lambdas \ {l}
      <4>1. WP \subseteq W
        BY <3>2 DEF WorkerToFire
      <4> QED BY <1>0, <2>u, <3>1, <4>1
    <3>3. ASSUME NEW m \in Lambda, m.job = l.job, Continue(l, m),
                 l.pc \in {"get", "fire"} \/ m.pc \notin {"get", "fire"}
          PROVE  Goal
      <4>1. CASE l \in W
        <5>1. WP \subseteq (W \ {l}) \union {m}
          BY <3>3 DEF Continue, WorkerToFire
        <5>2. IsFiniteSet(WP) /\ Cardinality(WP) <= Cardinality(W)
          BY <4>1, <5>1, CardSwap
        <5>3. Cardinality(WP) \in Nat
          BY <5>2, FS_CardinalityType
        <5>4. TP = T /\ Claimed(j)' = Claimed(j) /\ received' = received
          BY <2>u DEF ToFire, Claimed
        <5> HIDE DEF T, TP, W, WP
        <5> QED BY <1>i, <1>c, <1>n, <1>r, <1>d, <3>1, <5>2, <5>3, <5>4
      <4>2. CASE l \notin W
        <5>1. m.job # j \/ m.pc \notin {"get", "fire"}
          BY <3>3, <4>2 DEF WorkerToFire
        <5>2. WP \subseteq W
          BY <3>3, <5>1 DEF Continue, WorkerToFire
        <5> QED BY <1>0, <2>u, <3>1, <5>2
      <4> QED BY <4>1, <4>2
    <3> QED BY <1>2, <2>l, <3>2, <3>3, ExecuteMoves
  <2> QED BY <2>1, <2>2
<1>3. ASSUME UNCHANGED vars, NEW k \in Jobs, RuleFires(k) PROVE Goal
  <2>1. UNCHANGED <<runs, lastRun, fires, received, lambdas>>
    BY <1>3 DEF RuleFires, vars, db
  <2>2. WP \subseteq W
    BY <2>1 DEF WorkerToFire
  <2> QED BY <1>0, <2>1, <2>2
<1>4. ASSUME UNCHANGED vars, NEW k \in Jobs, Receive(k) PROVE Goal
  <2>1. UNCHANGED <<runs, lastRun, fires>>
    BY <1>4 DEF vars, db
  <2>2. CASE k # j
    <3>1. received'[j] = received[j] /\ WP \subseteq W
      BY <1>4, <2>2 DEF Receive, WorkerToFire, AwsTypeOK
    <3> QED BY <1>0, <2>1, <3>1
  <2>3. CASE k = j
    <3> DEFINE new == [id |-> received[j], job |-> j, pc |-> "get", outcome |-> "failed"]
    <3>1. WP \subseteq W \union {new}
      BY <1>4, <2>3 DEF Receive, WorkerToFire
    <3>2. received'[j] = received[j] + 1
      BY <1>4, <2>3 DEF Receive, AwsTypeOK
    <3>3. IsFiniteSet(WP) /\ Cardinality(WP) <= Cardinality(W) + 1
      BY <3>1, CardMore
    <3>4. Cardinality(WP) \in Nat
      BY <3>3, FS_CardinalityType
    <3>5. TP = T /\ Claimed(j)' = Claimed(j) /\ fires' = fires
      BY <2>1 DEF ToFire, Claimed
    <3> HIDE DEF T, TP, W, WP
    <3> QED BY <1>i, <1>c, <1>n, <1>r, <1>d, <3>2, <3>3, <3>4, <3>5, SMTT(30)
  <2> QED BY <2>2, <2>3
<1>5. ASSUME UNCHANGED vars, NEW c \in calls,
             CreateSchedule(c) \/ DeleteSchedule(c) \/ CallFails(c)
      PROVE  Goal
  <2>1. UNCHANGED <<runs, lastRun, fires, received, lambdas>>
    BY <1>5 DEF CreateSchedule, DeleteSchedule, CallFails, vars, db
  <2>2. WP \subseteq W
    BY <2>1 DEF WorkerToFire
  <2> QED BY <1>0, <2>1, <2>2
<1>6. ASSUME UNCHANGED vars, NEW l \in lambdas,
             RedeliverWhileRunning(l) \/ LambdaDies(l)
      PROVE  Goal
  <2>1. UNCHANGED <<runs, lastRun, fires, received>> /\ lambdas' \subseteq lambdas
    BY <1>6 DEF RedeliverWhileRunning, LambdaDies, Redeliver, vars, db
  <2>2. WP \subseteq W
    BY <2>1 DEF WorkerToFire
  <2> QED BY <1>0, <2>1, <2>2
<1> QED
  BY <1>1, <1>2, <1>3, <1>4, <1>5, <1>6, StepKinds

----------------------------------------------------------------------------
(* A success that is remembered, or written down, was a call.              *)

\* No step takes a call back.
LEMMA CallsStay ==
  ASSUME TypeOK, SystemNext, NEW j \in Jobs, fires[j] # << >>
  PROVE  fires'[j] # << >>
<1>1. ASSUME NEW m \in Made, NEW k \in Jobs,
             fires' = [fires EXCEPT ![k] = Append(@, m)]
      PROVE  fires'[j] # << >>
  <2>1. fires[j] \in Seq(Made)
    BY DEF TypeOK
  <2>2. Append(fires[j], m) # << >>
    BY <2>1
  <2> QED BY <1>1, <2>2 DEF TypeOK
<1>2. ASSUME NEW r \in runs, Fire(r) PROVE fires'[j] # << >>
  <2>1. CallOf(r) \in Made /\ r.job \in Jobs
    BY CallType DEF TypeOK, Run
  <2> QED BY <1>2, <2>1, <1>1 DEF Fire, CallOf
<1>3. ASSUME NEW l \in lambdas, WorkerFires(l) PROVE fires'[j] # << >>
  <2>1. minute \in Minutes
    BY DEF TypeOK
  <2>2. CASE l.job \in Jobs
    BY <1>3, <2>1, <2>2, <1>1 DEF WorkerFires
  <2>3. CASE l.job \notin Jobs
    BY <1>3, <2>3, WorkerCallType DEF WorkerFires, TypeOK, WorkerCall
  <2> QED BY <2>2, <2>3
<1>4. JobStep => fires' = fires \/ \E r \in runs : Fire(r)
  BY DEF JobStep, StepUnder, MinutePasses, Crash, Restart, Tick, TickLosesAnswer, Create,
         Delete, ExecuteJob, CheckDue, CannotFire, Log, LogFails, Mark, MarkFails
<1>5. ASSUME NEW l \in lambdas, Execute(l)
      PROVE  fires' = fires \/ WorkerFires(l)
  BY <1>5 DEF Execute, GetJob, GetJobFails, WorkerCannotFire, LogExecution,
              LogExecutionFails, MarkJob, MarkJobFails, HandlerReturns, vars
<1>6. UNCHANGED vars => fires' = fires
  BY DEF vars
<1> QED
  BY <1>2, <1>3, <1>4, <1>5, <1>6, StepKinds

\* Of the scheduler's goroutines: one that remembers a success already did, or
\* makes its call in this very step.
LEMMA SchedulerRemembers ==
  ASSUME TypeOK, JobStep, NEW q \in runs', Remembers(q)
  PROVE  \/ fires'[q.job] # << >>
         \/ \E r \in runs : Remembers(r) /\ r.job = q.job
<1>0. CASE q \in runs
  BY <1>0
<1>1. ASSUME NEW i \in Instances, NEW C \in SUBSET Jobs,
             q \in {NewRun(i, k) : k \in C}
      PROVE  FALSE
  BY <1>1 DEF NewRun, Remembers
<1>2. ASSUME NEW r \in runs, ExecuteJob(r), q \notin runs
      PROVE  \/ fires'[q.job] # << >>
             \/ \E x \in runs : Remembers(x) /\ x.job = q.job
  <2>r. r \in Run
    BY DEF TypeOK
  <2>1. CASE CheckDue(r)
    <3>1. q = [r EXCEPT !.pc = "fire", !.slot = minute]
      BY <1>2, <2>1 DEF CheckDue, Advance, Return
    <3> QED BY <3>1, <2>r DEF Run, Remembers
  <2>2. CASE Fire(r)
    <3>1. PICK o \in Outcomes : q = [r EXCEPT !.pc = "log", !.outcome = o]
      BY <1>2, <2>2 DEF Fire, Advance
    <3>2. q.job = r.job /\ r.job \in Jobs /\ CallOf(r) \in Made
      BY <3>1, <2>r, CallType DEF Run
    <3>3. fires'[r.job] = Append(fires[r.job], CallOf(r)) /\ fires[r.job] \in Seq(Made)
      BY <2>2, <3>2 DEF Fire, TypeOK, CallOf
    <3>4. fires'[r.job] # << >>
      BY <3>2, <3>3
    <3> QED BY <3>2, <3>4
  <2>3. CASE CannotFire(r)
    <3>1. q = [r EXCEPT !.pc = "log", !.outcome = "failed"]
      BY <1>2, <2>3 DEF CannotFire, Advance
    <3> QED BY <3>1, <2>r DEF Run, Remembers
  <2>4. CASE Log(r) \/ LogFails(r)
    <3>1. q = [r EXCEPT !.pc = "mark"] /\ r.pc = "log"
      BY <1>2, <2>4 DEF Log, LogFails, AfterLog, Advance, Return
    <3> QED BY <3>1, <2>r DEF Run, Remembers
  <2>5. CASE Mark(r) \/ MarkFails(r)
    BY <1>2, <2>5 DEF Mark, MarkFails, Return
  <2> QED BY <1>2, <2>1, <2>2, <2>3, <2>4, <2>5 DEF ExecuteJob
<1>3. runs' = runs \/ runs' \subseteq runs
        \/ (\E i \in Instances : \E C \in SUBSET Jobs :
              runs' = runs \union {NewRun(i, k) : k \in C})
        \/ \E r \in runs : ExecuteJob(r)
  BY DEF JobStep, StepUnder, MinutePasses, Crash, Restart, Tick, TickLosesAnswer, Create, Delete
<1> QED
  BY <1>0, <1>1, <1>2, <1>3

LEMMA SuccessStep ==
  ASSUME TypeOK, AwsTypeOK, SuccessWasCalled, CompletedWasCalled, SystemNext
  PROVE  SuccessWasCalled' /\ CompletedWasCalled'
<1>j. /\ \A r \in runs : r.job \in Jobs
      /\ \A l \in lambdas : l \in Lambda /\ l.job \in Jobs
  BY DEF TypeOK, AwsTypeOK, Run, Lambda
<1>s. \A j \in Jobs : fires[j] # << >> => fires'[j] # << >>
  BY CallsStay
<1>1. ASSUME NEW q \in runs', Remembers(q) PROVE fires'[q.job] # << >>
  <2>1. CASE q \in runs
    BY <1>1, <2>1, <1>j, <1>s DEF SuccessWasCalled
  <2>2. CASE JobStep
    BY <1>1, <2>2, <1>j, <1>s, SchedulerRemembers DEF SuccessWasCalled
  <2>3. CASE runs' = runs
    BY <2>1, <2>3
  <2>4. \/ JobStep \/ runs' = runs
    <3>1. UNCHANGED vars => runs' = runs
      BY DEF vars
    <3>2. \A l \in lambdas : Execute(l) => runs' = runs
      BY <3>1 DEF Execute, GetJob, GetJobFails, WorkerFires, WorkerCannotFire,
             LogExecution, LogExecutionFails, MarkJob, MarkJobFails, HandlerReturns
    <3> QED BY <3>1, <3>2, StepKinds
  <2> QED BY <2>2, <2>3, <2>4
<1>2. ASSUME NEW m \in lambdas', Remembers(m) PROVE fires'[m.job] # << >>
  <2>1. CASE m \in lambdas
    BY <1>2, <2>1, <1>j, <1>s DEF SuccessWasCalled
  <2>2. ASSUME NEW l \in lambdas, Execute(l), m \notin lambdas
        PROVE  fires'[m.job] # << >>
    <3>1. /\ m.job = l.job
          /\ \/ l.pc = "get" /\ m.pc \in {"fire", "done"}
             \/ l.pc = "fire" /\ m.pc = "log"
             \/ l.pc \in {"log", "mark"} /\ m.pc \in {"mark", "done"}
          /\ l.pc \in {"log", "mark"} => m.outcome = l.outcome
          /\ l.pc = "fire" /\ m.outcome = "success" => WorkerFires(l)
      BY <2>2, <1>j, ExecuteMoves DEF Continue
    <3>2. CASE l.pc \in {"log", "mark"}
      BY <3>1, <3>2, <1>2, <1>j, <1>s DEF Remembers, SuccessWasCalled
    <3>3. CASE WorkerFires(l)
      <4>1. fires'[l.job] = Append(fires[l.job], WorkerCall) /\ WorkerCall \in Made
            /\ fires[l.job] \in Seq(Made)
        BY <3>3, <1>j, WorkerCallType DEF WorkerFires, TypeOK, WorkerCall
      <4>2. fires'[l.job] # << >>
        BY <4>1
      <4> QED BY <3>1, <4>2
    <3> QED BY <3>1, <3>2, <3>3, <1>2 DEF Remembers
  <2>3. ASSUME NEW k \in Jobs, Receive(k), m \notin lambdas PROVE FALSE
    BY <1>2, <2>3 DEF Receive, Remembers
  <2>4. \/ lambdas' \subseteq lambdas
        \/ \E l \in lambdas : Execute(l)
        \/ \E k \in Jobs : Receive(k)
    BY StepKinds DEF RuleFires, CreateSchedule, DeleteSchedule, CallFails,
                     RedeliverWhileRunning, LambdaDies
  <2> QED BY <2>1, <2>2, <2>3, <2>4
<1>3. ASSUME NEW j \in OneTime, status'[j] = "completed" PROVE fires'[j] # << >>
  <2>j. j \in Jobs
    BY OneTimeAssumption
  <2>1. CASE status[j] = "completed"
    BY <2>1, <2>j, <1>s DEF CompletedWasCalled
  <2>2. ASSUME status'[j] # status[j], NEW r \in runs, Mark(r)
        PROVE  fires'[j] # << >>
    <3>1. r.job = j /\ FinalStatus(r) = "completed"
      BY <1>3, <2>2, <2>j, <1>j DEF Mark, TypeOK
    <3>2. r.pc = "mark" /\ r.outcome = "success"
      BY <2>2, <3>1 DEF Mark, FinalStatus
    <3> QED BY <3>1, <3>2, <2>j, <1>s DEF SuccessWasCalled, Remembers
  <2>3. ASSUME status'[j] # status[j], NEW l \in lambdas, MarkJob(l)
        PROVE  fires'[j] # << >>
    <3>1. l.job = j /\ MarkStatus(l) = "completed"
      BY <1>3, <2>3, <2>j, <1>j DEF MarkJob, TypeOK
    <3>2. l.pc = "mark" /\ l.outcome = "success"
      BY <2>3, <3>1 DEF MarkJob, MarkStatus
    <3> QED BY <3>1, <3>2, <2>j, <1>s DEF SuccessWasCalled, Remembers
  <2>4. ASSUME NEW k \in Jobs, Create(k) \/ Delete(k)
        PROVE  status'[j] = status[j] \/ status'[j] \in {"active", "deleted"}
    BY <2>4, <2>j DEF Create, Delete, TypeOK
  <2>e. ASSUME NEW r \in runs, ExecuteJob(r) PROVE Mark(r) \/ status' = status
    BY <2>e DEF ExecuteJob, CheckDue, Fire, CannotFire, Log, LogFails, MarkFails, db
  <2>5. JobStep => \/ \E r \in runs : Mark(r)
                   \/ \E k \in Jobs : Create(k) \/ Delete(k)
                   \/ status' = status
    BY <2>e DEF JobStep, StepUnder, MinutePasses, Crash, Restart, Tick,
                TickLosesAnswer, db
  <2>6. UNCHANGED vars => status' = status
    BY DEF vars, db
  <2>7. \A l \in lambdas : Execute(l) => MarkJob(l) \/ status' = status
    BY <2>6 DEF Execute, GetJob, GetJobFails, WorkerFires, WorkerCannotFire,
           LogExecution, LogExecutionFails, MarkJobFails, HandlerReturns, db
  <2> QED
    BY <1>3, <2>1, <2>2, <2>3, <2>4, <2>5, <2>6, <2>7, StepKinds
<1> QED
  BY <1>1, <1>2, <1>3 DEF SuccessWasCalled, CompletedWasCalled

----------------------------------------------------------------------------
(* The invariant is inductive.                                             *)

LEMMA SystemInvInit == SystemInit => SystemInv
<1> SUFFICES ASSUME SystemInit PROVE SystemInv
  OBVIOUS
<1>i. Init
  BY DEF SystemInit
<1>1. TypeOK /\ LastRunIsPast
  BY <1>i, IInvInit DEF IInv
<1>2. AwsTypeOK
  BY SystemAssumption DEF SystemInit, AwsTypeOK
<1>3. CallsHaveACause
  <2> SUFFICES ASSUME NEW j \in Jobs
               PROVE  /\ IsFiniteSet(ToFire(j)) /\ IsFiniteSet(WorkerToFire(j))
                      /\ Len(fires[j]) + Cardinality(ToFire(j))
                           + Cardinality(WorkerToFire(j)) <= received[j] + Claimed(j)
    BY DEF CallsHaveACause
  <2>1. ToFire(j) = {} /\ WorkerToFire(j) = {}
    BY <1>i DEF SystemInit, Init, ToFire, WorkerToFire
  <2>2. Len(fires[j]) = 0 /\ Claimed(j) = 0 /\ received[j] = 0
    BY <1>i DEF SystemInit, Init, Claimed, NULL
  <2>3. IsFiniteSet({}) /\ Cardinality({}) = 0
    BY FS_EmptySet
  <2> QED BY <2>1, <2>2, <2>3
<1>4. SuccessWasCalled /\ CompletedWasCalled
  BY <1>i, OneTimeAssumption
     DEF SystemInit, Init, SuccessWasCalled, CompletedWasCalled
<1> QED
  BY <1>1, <1>2, <1>3, <1>4 DEF SystemInv

LEMMA SystemInvInductive == SystemInv /\ [SystemNext]_allVars => SystemInv'
<1> SUFFICES ASSUME SystemInv, [SystemNext]_allVars PROVE SystemInv'
  OBVIOUS
<1>1. CASE SystemNext
  <2>1. TypeOK' /\ AwsTypeOK' /\ LastRunIsPast'
    BY <1>1, SystemTypes, LastRunStep DEF SystemInv
  <2>2. CallsHaveACause'
    BY <1>1, CausesStep DEF SystemInv, CallsHaveACause
  <2>3. SuccessWasCalled' /\ CompletedWasCalled'
    BY <1>1, SuccessStep DEF SystemInv
  <2> QED BY <2>1, <2>2, <2>3 DEF SystemInv
<1>2. CASE UNCHANGED allVars
  <2>1. UNCHANGED vars /\ UNCHANGED aws
    BY <1>2 DEF allVars
  <2>2. TypeOK' /\ LastRunIsPast'
    BY <2>1, TypeOKInductive DEF SystemInv, vars, db, LastRunIsPast
  <2>3. AwsTypeOK' /\ CallsHaveACause' /\ SuccessWasCalled' /\ CompletedWasCalled'
    BY <2>1 DEF SystemInv, vars, db, aws, AwsTypeOK, CallsHaveACause, ToFire,
                WorkerToFire, Claimed, SuccessWasCalled, CompletedWasCalled
  <2> QED BY <2>2, <2>3 DEF SystemInv
<1> QED
  BY <1>1, <1>2

THEOREM SystemInvariant == SystemSpec => []SystemInv
BY SystemInvInit, SystemInvInductive, PTL DEF SystemSpec

----------------------------------------------------------------------------
(* What follows from it.                                                   *)

\* With two executors that know nothing of each other, a call beyond those that
\* the scheduler can have claimed (one, or one for each minute up to now) costs a
\* message: neither the worker's status writes nor lost answers make the
\* scheduler claim again.
THEOREM CallsAccounted == SystemSpec => []CallsAreAccountedFor
<1>1. SystemInv => CallsAreAccountedFor
  <2> SUFFICES ASSUME SystemInv, NEW j \in Jobs
               PROVE  Len(fires[j]) <= received[j]
                        + (IF j \in OneTime THEN 1 ELSE minute + 1)
    BY DEF CallsAreAccountedFor
  <2>1. /\ IsFiniteSet(ToFire(j)) /\ IsFiniteSet(WorkerToFire(j))
        /\ Len(fires[j]) + Cardinality(ToFire(j)) + Cardinality(WorkerToFire(j))
             <= received[j] + Claimed(j)
    BY DEF SystemInv, CallsHaveACause
  <2>2. minute \in Nat /\ lastRun[j] \in Int /\ lastRun[j] <= minute
    BY BoundsAssumption DEF SystemInv, TypeOK, Minutes, NULL, LastRunIsPast
  <2>3. /\ Claimed(j) \in Int
        /\ Claimed(j) <= IF j \in OneTime THEN 1 ELSE minute + 1
    BY <2>2 DEF Claimed
  <2>4. /\ Len(fires[j]) \in Nat /\ received[j] \in Nat
        /\ Cardinality(ToFire(j)) \in Nat /\ Cardinality(WorkerToFire(j)) \in Nat
    BY <2>1, FS_CardinalityType DEF SystemInv, TypeOK, AwsTypeOK
  <2>5. Len(fires[j]) <= received[j] + Claimed(j)
    BY <2>1, <2>3, <2>4
  <2> QED BY <2>2, <2>3, <2>4, <2>5
<1> QED BY <1>1, SystemInvariant, PTL

\* Neither executor ever writes "completed" for a one-time job nobody called:
\* UpdateStatus, MarkJobCompleted.
THEOREM CompletedCalled == SystemSpec => []CompletedWasCalled
<1>1. SystemInv => CompletedWasCalled
  BY DEF SystemInv
<1> QED BY <1>1, SystemInvariant, PTL

\* A one-time job that has settled, and that no executor is still about to
\* call, stays as it is: schedules that fire and messages that come back change
\* nothing, because Execute reads the status of the row.
THEOREM QuietStays == SystemSpec => QuietIsForever
<1> DEFINE Stays == \A j \in OneTime :
      Quiet(j) => /\ fires'[j] = fires[j]
                  /\ Quiet(j)' /\ status'[j] \in {status[j], "deleted"}
<1>1. SystemInv /\ [SystemNext]_allVars => [Stays]_allVars
  <2> SUFFICES ASSUME SystemInv, SystemNext, NEW j \in OneTime, Quiet(j)
               PROVE  /\ fires'[j] = fires[j]
                      /\ Quiet(j)' /\ status'[j] \in {status[j], "deleted"}
    OBVIOUS
  <2>t. TypeOK /\ AwsTypeOK /\ j \in Jobs
    BY OneTimeAssumption DEF SystemInv
  <2>q. /\ status[j] \in Settled \union {"deleted"}
        /\ status[j] # "active" /\ status[j] # "absent"
        /\ \A r \in runs : r.job # j
        /\ \A l \in lambdas : l.job = j => l.pc \in {"get", "done"}
    BY DEF Quiet, Settled
  <2>l. \A l \in lambdas : l \in Lambda
    BY <2>t DEF AwsTypeOK
  <2>r. \A r \in runs : r \in Run
    BY <2>t DEF TypeOK
  <2> DEFINE Kept == /\ fires'[j] = fires[j]
                     /\ \A r \in runs' : r.job # j
                     /\ status'[j] \in {status[j], "deleted"}
             Lambdas == \A l \in lambdas' : l.job = j => l.pc \in {"get", "done"}
  <2>1. ASSUME JobStep PROVE Kept
    <3>1. ASSUME NEW r \in runs, ExecuteJob(r) PROVE Kept
      <4>1. /\ r.job # j
            /\ \E s : s.job = r.job /\ (Advance(r, s) \/ Return(r))
        BY <3>1, <2>q, <2>r, AdvanceKeepsJob
      <4>2. \A q \in runs' : q.job # j
        BY <4>1, <2>q DEF Advance, Return
      <4>3. fires'[j] = fires[j] /\ status'[j] = status[j]
        BY <3>1, <4>1, <2>t
           DEF ExecuteJob, CheckDue, Fire, CannotFire, Log, LogFails, Mark,
               MarkFails, db, TypeOK
      <4> QED BY <4>2, <4>3
    <3>2. ASSUME NEW i \in Instances, NEW C \in SUBSET Jobs, ListActiveDue(C, MaybeLockedBySome),
                 UNCHANGED <<status, fires>>,
                 runs' = runs \union {NewRun(i, k) : k \in C} \/ runs' = runs
          PROVE  Kept
      <4>1. j \notin C
        BY <3>2, <2>q DEF ListActiveDue, Due
      <4> QED BY <3>2, <4>1, <2>q DEF NewRun
    <3>3. ASSUME NEW k \in Jobs, Create(k) \/ Delete(k) PROVE Kept
      BY <3>3, <2>t, <2>q DEF Create, Delete, TypeOK
    <3>4. CASE MinutePasses
      BY <3>4, <2>q DEF MinutePasses, db
    <3>5. ASSUME NEW i \in Instances, Crash(i) \/ Restart(i) PROVE Kept
      BY <3>5, <2>q DEF Crash, Restart, db
    <3> HIDE DEF Kept
    <3> QED
      BY <2>1, <3>1, <3>2, <3>3, <3>4, <3>5 DEF JobStep, StepUnder, Tick, TickLosesAnswer
  <2>2. ASSUME NEW l \in lambdas, Execute(l) PROVE Kept /\ Lambdas
    <3>1. UNCHANGED runs
      BY <2>2 DEF Execute, GetJob, GetJobFails, WorkerFires, WorkerCannotFire,
             LogExecution, LogExecutionFails, MarkJob, MarkJobFails,
             HandlerReturns, vars
    <3>2. CASE l.job # j
      <4>1. fires'[j] = fires[j] /\ status'[j] = status[j]
        BY <2>2, <3>2, <2>t
           DEF Execute, GetJob, GetJobFails, WorkerFires, WorkerCannotFire,
               LogExecution, LogExecutionFails, MarkJob, MarkJobFails,
               HandlerReturns, vars, db, TypeOK
      <4>2. Lambdas
        BY <2>2, <3>2, <2>q, <2>l, ExecuteMoves DEF Continue
      <4> QED BY <4>1, <4>2, <3>1, <2>q
    <3>3. CASE l.job = j
      <4>1. l.pc \in {"get", "done"}
        BY <3>3, <2>q
      <4>2. GetJob(l) \/ GetJobFails(l) \/ HandlerReturns(l)
        BY <2>2, <4>1 DEF Execute, WorkerFires, WorkerCannotFire, LogExecution,
                          LogExecutionFails, MarkJob, MarkJobFails
      <4>3. lambdas' = lambdas \ {l} \/ Continue(l, [l EXCEPT !.pc = "done"])
        BY <4>2, <3>3, <2>q DEF GetJob, GetJobFails, HandlerReturns
      <4>4. [l EXCEPT !.pc = "done"].pc = "done"
        BY <2>l DEF Lambda
      <4>5. Lambdas
        BY <4>3, <4>4, <2>q DEF Continue
      <4>6. UNCHANGED <<fires, status>>
        BY <4>2 DEF GetJob, GetJobFails, HandlerReturns, vars, db
      <4> QED BY <4>5, <4>6, <3>1, <2>q
    <3> QED BY <3>2, <3>3
  <2>3. ASSUME UNCHANGED vars PROVE Kept
    BY <2>3, <2>q DEF vars, db
  <2>4. \/ \E l \in lambdas : Execute(l)
        \/ \E k \in Jobs : Receive(k)
        \/ lambdas' \subseteq lambdas
    BY StepKinds DEF RuleFires, CreateSchedule, DeleteSchedule, CallFails,
                     RedeliverWhileRunning, LambdaDies
  <2>5. ASSUME NEW k \in Jobs, Receive(k) PROVE Lambdas
    BY <2>5, <2>q DEF Receive
  <2>7. Kept
    <3> HIDE DEF Kept
    <3> QED BY <2>1, <2>2, <2>3, StepKinds
  <2>8. Lambdas
    <3>1. lambdas' \subseteq lambdas => Lambdas
      BY <2>q
    <3> HIDE DEF Lambdas, Kept
    <3> QED BY <3>1, <2>2, <2>4, <2>5
  <2> QED
    BY <2>7, <2>8, <2>q DEF Quiet
<1> QED
  BY <1>1, SystemInvariant, PTL DEF SystemSpec, QuietIsForever
=============================================================================
