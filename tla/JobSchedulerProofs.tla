------------------------ MODULE JobSchedulerProofs ------------------------
(***************************************************************************)
(* Theorems about JobScheduler, for every set of instances and jobs and    *)
(* every bound of the clock and of the crashes.                            *)
(***************************************************************************)
EXTENDS JobScheduler, FiniteSetTheorems, TLAPS

----------------------------------------------------------------------------
(* Type correctness.                                                       *)

\* A goroutine that advances is still a goroutine.
LEMMA AdvanceType ==
  ASSUME NEW r \in Run
  PROVE  /\ \A m \in Minutes : [r EXCEPT !.pc = "fire", !.slot = m] \in Run
         /\ \A o \in Outcomes : [r EXCEPT !.pc = "log", !.outcome = o] \in Run
         /\ [r EXCEPT !.pc = "mark"] \in Run
BY DEF Run

LEMMA NewRunType ==
  ASSUME TypeOK, NEW i \in Instances, NEW j \in Jobs
  PROVE  NewRun(i, j) \in Run
BY DEF TypeOK, NewRun, Run, Outcomes

\* What Fire adds to the history.
CallOf(r) == [claimed |-> r.claimed, slot |-> r.slot]

LEMMA CallType ==
  ASSUME NEW r \in Run
  PROVE  CallOf(r) \in Made
BY DEF Run, Made, CallOf

LEMMA TypeOKInit == Init => TypeOK
<1> SUFFICES ASSUME Init PROVE TypeOK
  OBVIOUS
<1>1. minute \in Minutes /\ crashes \in 0..MaxCrashes
  BY BoundsAssumption DEF Init, Minutes
<1>2. fires \in [Jobs -> Seq(Made)]
  BY DEF Init
<1> QED
  BY <1>1, <1>2 DEF Init, TypeOK, Statuses

\* A step of a goroutine replaces it by one of the same claim, or ends it.
LEMMA AdvanceKeepsJob ==
  ASSUME NEW r \in Run, ExecuteJob(r)
  PROVE  \E s : s.job = r.job /\ (Advance(r, s) \/ Return(r))
<1>1. CASE Return(r)
  BY <1>1
<1>2. CASE Advance(r, [r EXCEPT !.pc = "fire", !.slot = minute])
  BY <1>2 DEF Run
<1>3. ASSUME NEW o \in Outcomes, Advance(r, [r EXCEPT !.pc = "log", !.outcome = o])
      PROVE  \E s : s.job = r.job /\ (Advance(r, s) \/ Return(r))
  BY <1>3 DEF Run
<1>4. CASE Advance(r, [r EXCEPT !.pc = "mark"])
  BY <1>4 DEF Run
<1> QED
  BY <1>1, <1>2, <1>3, <1>4
     DEF ExecuteJob, CheckDue, Fire, CannotFire, Log, LogFails, AfterLog, Mark,
         MarkFails, Outcomes

\* One step of a goroutine keeps the types.
LEMMA TypeOKExecuteJob ==
  ASSUME TypeOK, NEW r \in runs, ExecuteJob(r)
  PROVE  TypeOK'
<1> USE DEF TypeOK, db
<1>r. r \in Run
  OBVIOUS
<1>1. CASE CheckDue(r)
  <2>1. runs' \subseteq Run
    <3>1. [r EXCEPT !.pc = "fire", !.slot = minute] \in Run
      BY <1>r, AdvanceType
    <3> QED BY <3>1, <1>1 DEF CheckDue, Advance, Return
  <2> QED BY <2>1, <1>1 DEF CheckDue
<1>2. CASE Fire(r)
  <2>1. runs' \subseteq Run
    BY <1>2, <1>r, AdvanceType DEF Fire, Advance
  <2>2. fires' \in [Jobs -> Seq(Made)]
    BY <1>2, <1>r, CallType DEF Fire, Run, CallOf
  <2> QED BY <2>1, <2>2, <1>2 DEF Fire
<1>3. CASE CannotFire(r)
  <2>1. runs' \subseteq Run
    BY <1>3, <1>r, AdvanceType DEF CannotFire, Advance, Outcomes
  <2> QED BY <2>1, <1>3 DEF CannotFire
<1>4. CASE Log(r)
  <2>1. runs' \subseteq Run
    BY <1>4, <1>r, AdvanceType DEF Log, AfterLog, Advance, Return
  <2>2. executions' \subseteq Execution
    BY <1>4, <1>r DEF Log, Execution, Run
  <2> QED BY <2>1, <2>2, <1>4 DEF Log
<1>5. CASE LogFails(r)
  <2>1. runs' \subseteq Run
    BY <1>5, <1>r, AdvanceType DEF LogFails, AfterLog, Advance, Return
  <2> QED BY <2>1, <1>5 DEF LogFails
<1>6. CASE Mark(r)
  <2>1. status' \in [Jobs -> Statuses]
    BY <1>6, <1>r DEF Mark, FinalStatus, Statuses, Stored, Settled
  <2> QED BY <2>1, <1>6 DEF Mark, Return
<1>7. CASE MarkFails(r)
  BY <1>7 DEF MarkFails, Return
<1> QED
  BY <1>1, <1>2, <1>3, <1>4, <1>5, <1>6, <1>7 DEF ExecuteJob

\* A step of Next, whichever rows SKIP LOCKED may pass by.
StepUnder(locked) ==
  \/ MinutePasses
  \/ \E i \in Instances :
       Crash(i) \/ Restart(i) \/ Tick(i, locked) \/ TickLosesAnswer(i, locked)
  \/ \E j \in Jobs : Create(j) \/ Delete(j)
  \/ \E r \in runs : ExecuteJob(r)

LEMMA NextIsStep == Next => StepUnder(MaybeLocked)
BY DEF Next, StepUnder

LEMMA TypeOKStep ==
  ASSUME TypeOK, NEW locked, StepUnder(locked)
  PROVE  TypeOK'
<1> USE DEF TypeOK, db
<1>1. CASE MinutePasses
  BY <1>1, BoundsAssumption DEF MinutePasses, Minutes
<1>2. ASSUME NEW i \in Instances, Crash(i) PROVE TypeOK'
  BY <1>2, BoundsAssumption DEF Crash
<1>3. ASSUME NEW i \in Instances, Restart(i) PROVE TypeOK'
  BY <1>3 DEF Restart
<1>4. ASSUME NEW i \in Instances, Tick(i, locked) PROVE TypeOK'
  <2>1. runs' \subseteq Run
    BY <1>4, NewRunType DEF Tick
  <2>2. lastRun' \in [Jobs -> Minutes \union {NULL}]
    BY <1>4 DEF Tick, ListActiveDue
  <2> QED BY <2>1, <2>2, <1>4 DEF Tick
<1>5. ASSUME NEW i \in Instances, TickLosesAnswer(i, locked) PROVE TypeOK'
  BY <1>5 DEF TickLosesAnswer, ListActiveDue
<1>6. ASSUME NEW j \in Jobs, Create(j) PROVE TypeOK'
  <2>1. runAt' \in [Jobs -> Minutes \union {NULL}]
    BY <1>6, BoundsAssumption DEF Create, Minutes
  <2> QED BY <2>1, <1>6 DEF Create, Statuses, Stored
<1>7. ASSUME NEW j \in Jobs, Delete(j) PROVE TypeOK'
  BY <1>7 DEF Delete, Statuses
<1>8. ASSUME NEW r \in runs, ExecuteJob(r) PROVE TypeOK'
  BY <1>8, TypeOKExecuteJob
<1> QED
  BY <1>1, <1>2, <1>3, <1>4, <1>5, <1>6, <1>7, <1>8 DEF StepUnder

LEMMA TypeOKInductive == TypeOK /\ [Next]_vars => TypeOK'
<1>1. TypeOK /\ UNCHANGED vars => TypeOK'
  BY DEF TypeOK, vars, db
<1> QED
  BY <1>1, NextIsStep, TypeOKStep

\* Every variable keeps its type, whatever the instances do.
THEOREM TypeCorrect == Spec => []TypeOK
BY TypeOKInit, TypeOKInductive, PTL DEF Spec
----------------------------------------------------------------------------
(* The inductive invariant.                                                *)

Claims == LastRunIsPast /\ RunsAreClaimed /\ ClaimsAreExclusive

LEMMA IInvInit == Init => IInv
<1> SUFFICES ASSUME Init PROVE IInv
  OBVIOUS
<1>1. TypeOK
  BY TypeOKInit
<1>2. LastRunIsPast
  BY DEF Init, LastRunIsPast, NULL
<1>3. RunsAreClaimed /\ ClaimsAreExclusive /\ OneTimeProgress
  BY OneTimeAssumption
     DEF Init, RunsAreClaimed, ClaimsAreExclusive, OneTimeProgress, Settled
<1>4. OneTimeFiresAtMostOnce /\ SettledStatusIsTrue
  BY OneTimeAssumption
     DEF Init, OneTimeFiresAtMostOnce, SettledStatusIsTrue, Settled
<1> QED
  BY <1>1, <1>2, <1>3, <1>4 DEF IInv

\* There is one goroutine at most for a one-time job.
LEMMA OneRunPerOneTimeJob ==
  ASSUME IInv, NEW r \in runs, NEW q \in runs, r.job = q.job, r.job \in OneTime
  PROVE  r = q
BY DEF IInv, OneTimeProgress, OnlyRun, ClaimsAreExclusive

\* A goroutine that advances, or returns, keeps the claims apart.
LEMMA ClaimsAdvance ==
  ASSUME IInv, TypeOK', UNCHANGED <<minute, lastRun>>,
         NEW r \in runs, NEW s,
         s.job = r.job, s.claimed = r.claimed,
         s.pc = "mark" => s.job \in OneTime,
         Advance(r, s) \/ Return(r)
  PROVE  Claims'
<1>1. \A q \in runs' : q \in runs \/ q = s
  BY DEF Advance, Return
<1>2. LastRunIsPast'
  BY DEF IInv, LastRunIsPast
<1>3. RunsAreClaimed'
  BY <1>1 DEF IInv, RunsAreClaimed
<1>4. ClaimsAreExclusive'
  <2> SUFFICES ASSUME NEW q1 \in runs', NEW q2 \in runs',
                      q1.job = q2.job, q1.claimed = q2.claimed
               PROVE  q1 = q2
    BY DEF ClaimsAreExclusive
  <2> QED BY <1>1 DEF IInv, ClaimsAreExclusive, Advance, Return
<1> QED
  BY <1>2, <1>3, <1>4 DEF Claims

\* One step of a goroutine keeps the invariant.
LEMMA IInvExecuteJob ==
  ASSUME IInv, NEW r \in runs, ExecuteJob(r)
  PROVE  IInv'
<1>t. TypeOK /\ TypeOK'
  BY TypeOKExecuteJob DEF IInv
<1>r. r \in Run
  BY <1>t DEF TypeOK
<1>o. ASSUME NEW q \in runs, q.job = r.job, q.job \in OneTime PROVE q = r
  BY <1>o, OneRunPerOneTimeJob
<1>1. CASE CheckDue(r)
  <2>1. Claims'
    <3>1. CASE Return(r)
      BY <1>1, <1>t, <1>r, <3>1, ClaimsAdvance DEF CheckDue, db, IInv, RunsAreClaimed
    <3>2. CASE Advance(r, [r EXCEPT !.pc = "fire", !.slot = minute])
      BY <1>1, <1>t, <1>r, <3>2, ClaimsAdvance DEF CheckDue, db, Run
    <3> QED BY <1>1, <3>1, <3>2 DEF CheckDue
  <2>2. r.job \notin OneTime
    BY <1>1 DEF CheckDue, IInv, OneTimeProgress, OnlyRun
  <2>3. \A q \in runs' : q.job \in OneTime => q \in runs
    <3>1. [r EXCEPT !.pc = "fire", !.slot = minute].job = r.job
      BY <1>r DEF Run
    <3> QED BY <1>1, <2>2, <3>1 DEF CheckDue, Advance, Return
  <2>4. OneTimeProgress'
    BY <1>1, <2>3 DEF CheckDue, db, IInv, OneTimeProgress, OnlyRun
  <2> QED
    BY <1>1, <1>t, <2>1, <2>4
       DEF CheckDue, db, Claims, IInv, OneTimeFiresAtMostOnce, SettledStatusIsTrue
<1>2. ASSUME NEW o \in Outcomes,
             Advance(r, [r EXCEPT !.pc = "log", !.outcome = o]),
             r.pc = "fire",
             UNCHANGED <<minute, db, executions, up, crashes>>,
             \/ fires' = [fires EXCEPT ![r.job] = Append(@, CallOf(r))]
             \/ fires' = fires /\ o = "failed"
      PROVE  IInv'
  <2> DEFINE s == [r EXCEPT !.pc = "log", !.outcome = o]
  <2>s. s.job = r.job /\ s.claimed = r.claimed /\ s.pc = "log" /\ s.outcome = o
    BY <1>r DEF Run
  <2>1. Claims'
    BY <1>2, <1>t, <2>s, ClaimsAdvance DEF db
  <2>2. r.job \in OneTime => /\ fires[r.job] = << >> /\ OnlyRun(r)
    BY <1>2 DEF IInv, OneTimeProgress, OnlyRun
  <2>3. \A j \in Jobs : j # r.job => fires'[j] = fires[j]
    BY <1>2, <1>t DEF TypeOK
  <2>4. r.job \in OneTime => /\ Len(fires'[r.job]) <= 1
                             /\ o = "success" => Len(fires'[r.job]) = 1
    <3> SUFFICES ASSUME r.job \in OneTime
                 PROVE  /\ Len(fires'[r.job]) <= 1
                        /\ o = "success" => Len(fires'[r.job]) = 1
      OBVIOUS
    <3>1. CASE fires' = fires /\ o = "failed"
      BY <3>1, <2>2
    <3>2. CASE fires' = [fires EXCEPT ![r.job] = Append(@, CallOf(r))]
      <4>1. fires'[r.job] = Append(<< >>, CallOf(r)) /\ CallOf(r) \in Made
        BY <3>2, <2>2, <1>t, <1>r, CallType DEF TypeOK, Run
      <4>2. Len(fires'[r.job]) = 1
        BY <4>1
      <4> QED BY <4>2
    <3> QED BY <1>2, <3>1, <3>2
  <2>5. OneTimeFiresAtMostOnce'
    BY <2>3, <2>4, OneTimeAssumption DEF IInv, OneTimeFiresAtMostOnce
  <2>6. OneTimeProgress'
    <3>1. ASSUME NEW q \in runs', q.job \in OneTime PROVE OnlyRun(q)'
      <4>1. CASE q = s
        BY <4>1, <3>1, <1>2, <2>s, <2>2, <2>4 DEF OnlyRun, db
      <4>2. CASE q # s
        <5>1. q \in runs /\ q # r
          BY <4>2, <1>2 DEF Advance
        <5>2. q.job # r.job /\ q.job \in Jobs
          BY <5>1, <3>1, <1>o, OneTimeAssumption
        <5> QED
          BY <5>1, <5>2, <3>1, <1>2, <2>3 DEF IInv, OneTimeProgress, OnlyRun, db
      <4> QED BY <4>1, <4>2
    <3>2. ASSUME NEW j \in OneTime, lastRun'[j] = NULL
          PROVE  /\ fires'[j] = << >>
                 /\ status'[j] \notin Settled
                 /\ \A e \in executions' : e.job # j
      <4>1. j # r.job
        BY <3>2, <1>2, <1>r DEF db, IInv, RunsAreClaimed, Run, NULL, Minutes
      <4> QED
        BY <4>1, <3>2, <1>2, <2>3, OneTimeAssumption DEF db, IInv, OneTimeProgress
    <3> QED BY <3>1, <3>2 DEF OneTimeProgress
  <2>7. SettledStatusIsTrue'
    BY <1>2, <2>2, <2>3, OneTimeAssumption
       DEF db, IInv, SettledStatusIsTrue, OnlyRun, Settled
  <2> QED
    BY <1>t, <2>1, <2>5, <2>6, <2>7 DEF Claims, IInv
<1>3. CASE Log(r) \/ LogFails(r)
  <2> DEFINE s == [r EXCEPT !.pc = "mark"]
  <2>s. s.job = r.job /\ s.claimed = r.claimed /\ s.pc = "mark" /\ s.outcome = r.outcome
    BY <1>r DEF Run
  <2>u. UNCHANGED <<minute, db, up, crashes, fires>>
    BY <1>3 DEF Log, LogFails
  <2>a. /\ r.pc = "log"
        /\ r.job \in OneTime => Advance(r, s)
        /\ r.job \notin OneTime => Return(r)
    BY <1>3 DEF Log, LogFails, AfterLog
  <2>e. \A e \in executions' :
          e \in executions \/ (e.job = r.job /\ e.status = r.outcome)
    BY <1>3 DEF Log, LogFails
  <2>1. Claims'
    <3>1. CASE r.job \in OneTime
      BY <3>1, <2>a, <2>u, <2>s, <1>t, ClaimsAdvance DEF db
    <3>2. CASE r.job \notin OneTime
      BY <3>2, <2>a, <2>u, <1>t, ClaimsAdvance DEF db
    <3> QED BY <3>1, <3>2
  <2>2. r.job \in OneTime => OnlyRun(r)
    BY DEF IInv, OneTimeProgress
  <2>3. OneTimeProgress'
    <3>1. ASSUME NEW q \in runs', q.job \in OneTime PROVE OnlyRun(q)'
      <4>1. CASE q = s
        BY <4>1, <3>1, <2>s, <2>u, <2>a, <2>e, <2>2 DEF OnlyRun, db
      <4>2. CASE q # s
        <5>1. q \in runs /\ q # r
          BY <4>2, <3>1, <2>a DEF Advance, Return
        <5>2. q.job # r.job
          BY <5>1, <3>1, <1>o
        <5> QED
          BY <5>1, <5>2, <3>1, <2>u, <2>e DEF IInv, OneTimeProgress, OnlyRun, db
      <4> QED BY <4>1, <4>2
    <3>2. ASSUME NEW j \in OneTime, lastRun'[j] = NULL
          PROVE  /\ fires'[j] = << >>
                 /\ status'[j] \notin Settled
                 /\ \A e \in executions' : e.job # j
      <4>1. j # r.job
        BY <3>2, <2>u, <1>r DEF db, IInv, RunsAreClaimed, Run, NULL, Minutes
      <4> QED
        BY <4>1, <3>2, <2>u, <2>e DEF db, IInv, OneTimeProgress
    <3> QED BY <3>1, <3>2 DEF OneTimeProgress
  <2>4. SettledStatusIsTrue'
    BY <2>u, <2>e, <2>2 DEF db, IInv, SettledStatusIsTrue, OnlyRun
  <2> QED
    BY <1>t, <2>u, <2>1, <2>3, <2>4 DEF Claims, IInv, OneTimeFiresAtMostOnce
<1>4. CASE Mark(r) \/ MarkFails(r)
  <2>u. /\ UNCHANGED <<minute, runAt, lastRun, executions, up, crashes, fires>>
        /\ r.pc = "mark"
        /\ Return(r)
    BY <1>4 DEF Mark, MarkFails, db
  <2>2. r.job \in OneTime /\ OnlyRun(r)
    BY <2>u DEF IInv, RunsAreClaimed, OneTimeProgress
  <2>3. \A j \in Jobs : j # r.job => status'[j] = status[j]
    BY <1>4, <1>t DEF Mark, MarkFails, db, TypeOK
  <2>4. status'[r.job] \in {status[r.job], FinalStatus(r)}
    BY <1>4, <1>t, <1>r DEF Mark, MarkFails, db, TypeOK, Run
  <2>5. Claims'
    BY <1>t, <2>u, <2>2, ClaimsAdvance
  <2>6. OneTimeProgress'
    <3>1. ASSUME NEW q \in runs', q.job \in OneTime PROVE OnlyRun(q)'
      <4>1. q \in runs /\ q.job # r.job /\ q.job \in Jobs
        BY <3>1, <2>u, <1>o, OneTimeAssumption DEF Return
      <4> QED BY <4>1, <3>1, <2>u, <2>3 DEF IInv, OneTimeProgress, OnlyRun
    <3>2. ASSUME NEW j \in OneTime, lastRun'[j] = NULL
          PROVE  /\ fires'[j] = << >>
                 /\ status'[j] \notin Settled
                 /\ \A e \in executions' : e.job # j
      <4>1. j # r.job
        BY <3>2, <2>u, <1>r DEF IInv, RunsAreClaimed, Run, NULL, Minutes
      <4> QED
        BY <4>1, <3>2, <2>u, <2>3, OneTimeAssumption DEF IInv, OneTimeProgress
    <3> QED BY <3>1, <3>2 DEF OneTimeProgress
  <2>7. SettledStatusIsTrue'
    <3> SUFFICES ASSUME NEW j \in OneTime
                 PROVE  /\ status'[j] = "completed" => Len(fires'[j]) = 1
                        /\ \A e \in executions' :
                             e.job = j /\ status'[j] \in Settled =>
                               (e.status = "success" <=> status'[j] = "completed")
      BY DEF SettledStatusIsTrue
    <3>1. CASE status'[j] = status[j]
      BY <3>1, <2>u DEF IInv, SettledStatusIsTrue
    <3>2. CASE j = r.job /\ status'[j] = FinalStatus(r)
      BY <3>2, <2>u, <2>2, <1>r DEF OnlyRun, FinalStatus, Run, Outcomes
    <3> QED BY <3>1, <3>2, <2>3, <2>4, OneTimeAssumption
  <2> QED
    BY <1>t, <2>u, <2>5, <2>6, <2>7 DEF Claims, IInv, OneTimeFiresAtMostOnce
<1>5. CASE Fire(r) \/ CannotFire(r)
  BY <1>5, <1>2 DEF Fire, CannotFire, Outcomes, CallOf
<1> QED
  BY <1>1, <1>3, <1>4, <1>5 DEF ExecuteJob

\* The claim: whoever makes it, and whether or not goroutines are started.
LEMMA IInvClaim ==
  ASSUME IInv, TypeOK', NEW i \in Instances, NEW C \in SUBSET Jobs, NEW locked,
         ListActiveDue(C, locked),
         UNCHANGED <<minute, status, executions, fires>>,
         \/ runs' = runs \union {NewRun(i, j) : j \in C}
         \/ runs' = runs
  PROVE  IInv'
<1> DEFINE fresh == {NewRun(i, j) : j \in C}
<1>t. TypeOK
  BY DEF IInv
<1>m. minute \in Nat /\ minute # NULL
  BY <1>t, BoundsAssumption DEF TypeOK, Minutes, NULL
<1>1. /\ \A j \in C : j \in Jobs /\ lastRun'[j] = minute /\ Due(j)
      /\ \A j \in Jobs \ C : lastRun'[j] = lastRun[j]
  BY DEF ListActiveDue
<1>2. \A j \in Jobs : lastRun[j] \in Int /\ lastRun[j] <= minute
  BY <1>t, BoundsAssumption DEF IInv, LastRunIsPast, TypeOK, Minutes, NULL
<1>3. \A j \in C : lastRun[j] < minute
  BY <1>1, <1>2, <1>m DEF Due, NULL, Cron
<1>4. \A q \in fresh :
        /\ q.job \in C /\ q.claimed = minute /\ q.outcome = "failed"
        /\ q.pc = IF q.job \in Cron THEN "check" ELSE "fire"
        /\ q = NewRun(i, q.job)
  BY DEF NewRun
<1>5. \A q \in runs' : q \in runs \/ q \in fresh
  OBVIOUS
<1>6. \A q \in runs :
        q.job \in Jobs /\ q.claimed \in Nat /\ q.claimed <= lastRun[q.job]
  BY <1>t, BoundsAssumption DEF IInv, RunsAreClaimed, TypeOK, Run, Minutes
<1>7. LastRunIsPast'
  BY <1>1, <1>2, <1>m DEF LastRunIsPast
<1>8. RunsAreClaimed'
  <2> SUFFICES ASSUME NEW q \in runs'
               PROVE  /\ q.claimed <= lastRun'[q.job]
                      /\ q.pc = "mark" => q.job \in OneTime
    BY DEF RunsAreClaimed
  <2>1. CASE q \in runs
    BY <2>1, <1>1, <1>2, <1>3, <1>6, <1>m DEF IInv, RunsAreClaimed
  <2>2. CASE q \in fresh
    BY <2>2, <1>1, <1>4, <1>m
  <2> QED BY <1>5, <2>1, <2>2
<1>9. ClaimsAreExclusive'
  <2> SUFFICES ASSUME NEW q1 \in runs', NEW q2 \in runs',
                      q1.job = q2.job, q1.claimed = q2.claimed
               PROVE  q1 = q2
    BY DEF ClaimsAreExclusive
  <2>1. CASE q1 \in runs /\ q2 \in runs
    BY <2>1 DEF IInv, ClaimsAreExclusive
  <2>2. CASE q1 \in fresh /\ q2 \in fresh
    BY <2>2, <1>4
  <2>3. ASSUME NEW q \in runs, NEW f \in fresh, q.job = f.job
        PROVE  q.claimed # f.claimed
    BY <2>3, <1>1, <1>2, <1>3, <1>4, <1>6, <1>m
  <2> QED BY <1>5, <2>1, <2>2, <2>3
<1>10. \A j \in OneTime \intersect C :
         /\ lastRun[j] = NULL
         /\ fires[j] = << >> /\ status[j] \notin Settled
         /\ \A e \in executions : e.job # j
         /\ \A q \in runs : q.job # j
  BY <1>1, <1>6 DEF Due, Cron, IInv, OneTimeProgress, NULL
<1>11. OneTimeProgress'
  <2>1. ASSUME NEW q \in runs', q.job \in OneTime PROVE OnlyRun(q)'
    <3>1. CASE q \in runs
      BY <3>1, <2>1, <1>1, <1>6, <1>10 DEF IInv, OneTimeProgress, OnlyRun
    <3>2. CASE q \in fresh
      BY <3>2, <2>1, <1>1, <1>4, <1>10 DEF OnlyRun, Cron
    <3> QED BY <1>5, <3>1, <3>2
  <2>2. ASSUME NEW j \in OneTime, lastRun'[j] = NULL
        PROVE  /\ fires'[j] = << >>
               /\ status'[j] \notin Settled
               /\ \A e \in executions' : e.job # j
    BY <2>2, <1>1, <1>m, OneTimeAssumption DEF IInv, OneTimeProgress
  <2> QED BY <2>1, <2>2 DEF OneTimeProgress
<1> QED
  BY <1>7, <1>8, <1>9, <1>11
     DEF IInv, OneTimeFiresAtMostOnce, SettledStatusIsTrue

LEMMA IInvInductive == IInv /\ [Next]_vars => IInv'
<1> SUFFICES ASSUME IInv, [Next]_vars PROVE IInv'
  OBVIOUS
<1>t. TypeOK /\ TypeOK'
  BY TypeOKInductive DEF IInv
<1>m. minute \in Nat
  BY <1>t, BoundsAssumption DEF TypeOK, Minutes
<1> USE DEF db
<1>1. CASE MinutePasses
  <2>1. LastRunIsPast'
    <3>1. \A j \in Jobs : lastRun[j] \in Int /\ lastRun[j] <= minute
      BY <1>t, BoundsAssumption DEF IInv, LastRunIsPast, TypeOK, Minutes, NULL
    <3> QED BY <3>1, <1>1, <1>m DEF MinutePasses, LastRunIsPast
  <2> QED
    BY <1>1, <1>t, <2>1
       DEF MinutePasses, IInv, RunsAreClaimed, ClaimsAreExclusive,
           OneTimeProgress, OnlyRun, OneTimeFiresAtMostOnce, SettledStatusIsTrue
<1>2. ASSUME NEW i \in Instances, Crash(i) \/ Restart(i) PROVE IInv'
  <2>1. runs' \subseteq runs /\ UNCHANGED <<minute, db, executions, fires>>
    BY <1>2 DEF Crash, Restart
  <2> QED
    BY <1>t, <2>1
       DEF IInv, LastRunIsPast, RunsAreClaimed, ClaimsAreExclusive,
           OneTimeProgress, OnlyRun, OneTimeFiresAtMostOnce, SettledStatusIsTrue
<1>3. ASSUME NEW i \in Instances, Tick(i, MaybeLocked) PROVE IInv'
  BY <1>3, <1>t, IInvClaim DEF Tick
<1>4. ASSUME NEW i \in Instances, TickLosesAnswer(i, MaybeLocked) PROVE IInv'
  BY <1>4, <1>t, IInvClaim DEF TickLosesAnswer
<1>5. ASSUME NEW j \in Jobs, Create(j) \/ Delete(j) PROVE IInv'
  <2>1. /\ \A k \in Jobs : status'[k] \in Settled => status'[k] = status[k]
        /\ executions' \subseteq executions
        /\ UNCHANGED <<minute, lastRun, runs, fires>>
    BY <1>5, <1>t DEF Create, Delete, TypeOK, Settled
  <2> QED
    BY <1>t, <2>1, OneTimeAssumption
       DEF IInv, LastRunIsPast, RunsAreClaimed, ClaimsAreExclusive, TypeOK, Run,
           OneTimeProgress, OnlyRun, OneTimeFiresAtMostOnce, SettledStatusIsTrue,
           Settled
<1>6. ASSUME NEW r \in runs, ExecuteJob(r) PROVE IInv'
  BY <1>6, IInvExecuteJob
<1>7. CASE UNCHANGED vars
  BY <1>7, <1>t
     DEF vars, IInv, LastRunIsPast, RunsAreClaimed, ClaimsAreExclusive,
         OneTimeProgress, OnlyRun, OneTimeFiresAtMostOnce, SettledStatusIsTrue
<1> QED
  BY <1>1, <1>2, <1>3, <1>4, <1>5, <1>6, <1>7 DEF Next

THEOREM InductiveInvariant == Spec => []IInv
BY IInvInit, IInvInductive, PTL DEF Spec
----------------------------------------------------------------------------
(* What follows from it.                                                   *)

\* No row is handed to two goroutines for one minute: ListActiveDue.
THEOREM ClaimsExclusive == Spec => []ClaimsAreExclusive
<1>1. IInv => ClaimsAreExclusive
  BY DEF IInv
<1> QED BY <1>1, InductiveInvariant, PTL

\* A one-time job's endpoint is called at most once, whatever crashes,
\* restarts and however many instances there are.
THEOREM AtMostOnce == Spec => []OneTimeFiresAtMostOnce
<1>1. IInv => OneTimeFiresAtMostOnce
  BY DEF IInv
<1> QED BY <1>1, InductiveInvariant, PTL

\* A one-time job's settled status agrees with the calls and the history.
THEOREM StatusTrue == Spec => []SettledStatusIsTrue
<1>1. IInv => SettledStatusIsTrue
  BY DEF IInv
<1> QED BY <1>1, InductiveInvariant, PTL

\* A goroutine that writes a status is a one-time job's only goroutine, and
\* its job has not settled.
LEMMA MarkedIsUnsettled ==
  ASSUME IInv, NEW r \in runs, r.pc = "mark"
  PROVE  r.job \in OneTime /\ status[r.job] \notin Settled
BY DEF IInv, RunsAreClaimed, OneTimeProgress, OnlyRun

\* The unguarded UpdateStatus never overwrites a settled status.
THEOREM SettledFinal == Spec => SettledIsFinal
<1> DEFINE Final == \A j \in Jobs :
      status[j] \in Settled => status'[j] \in {status[j], "deleted"}
<1>1. IInv /\ [Next]_vars => [Final]_vars
  <2> SUFFICES ASSUME IInv, Next, NEW j \in Jobs, status[j] \in Settled
               PROVE  status'[j] \in {status[j], "deleted"}
    OBVIOUS
  <2>t. TypeOK
    BY DEF IInv
  <2>1. ASSUME NEW k \in Jobs, Create(k) \/ Delete(k)
        PROVE  status'[j] \in {status[j], "deleted"}
    BY <2>1, <2>t DEF Create, Delete, TypeOK, Settled
  <2>2. ASSUME NEW r \in runs, Mark(r)
        PROVE  status'[j] \in {status[j], "deleted"}
    <3>1. r.job # j
      BY <2>2, MarkedIsUnsettled DEF Mark
    <3> QED BY <3>1, <2>2, <2>t DEF Mark, TypeOK
  <2>3. ASSUME UNCHANGED status
        PROVE  status'[j] \in {status[j], "deleted"}
    BY <2>3
  <2> QED
    BY <2>1, <2>2, <2>3
       DEF Next, MinutePasses, Crash, Restart, Tick, TickLosesAnswer, ExecuteJob,
           CheckDue, Fire, CannotFire, Log, LogFails, MarkFails, db
<1> QED
  BY <1>1, InductiveInvariant, PTL DEF Spec, SettledIsFinal

\* A stranded one-time job is never picked up again.
THEOREM StrandedStays == Spec => StrandedIsForever
<1> DEFINE Stays == \A j \in OneTime :
      Stranded(j) => /\ fires'[j] = fires[j]
                     /\ Stranded(j)' \/ status'[j] = "deleted"
<1>1. IInv /\ [Next]_vars => [Stays]_vars
  <2> SUFFICES ASSUME IInv, Next, NEW j \in OneTime, Stranded(j)
               PROVE  /\ fires'[j] = fires[j]
                      /\ Stranded(j)' \/ status'[j] = "deleted"
    OBVIOUS
  <2> DEFINE Goal == /\ fires'[j] = fires[j]
                     /\ Stranded(j)' \/ status'[j] = "deleted"
  <2>t. TypeOK /\ j \in Jobs /\ j \notin Cron
    BY OneTimeAssumption DEF IInv, Cron
  <2>1. CASE MinutePasses
    BY <2>1 DEF MinutePasses, Stranded, db
  <2>2. ASSUME NEW i \in Instances, Crash(i) \/ Restart(i) PROVE Goal
    BY <2>2 DEF Crash, Restart, Stranded, db
  <2>3. ASSUME NEW C \in SUBSET Jobs, NEW i \in Instances, NEW locked,
               ListActiveDue(C, locked),
               UNCHANGED <<status, fires>>,
               runs' = runs \union {NewRun(i, k) : k \in C} \/ runs' = runs
        PROVE  Goal
    <3>1. j \notin C
      BY <2>3, <2>t DEF ListActiveDue, Due, Stranded
    <3>2. \A q \in runs' : q.job # j
      BY <2>3, <3>1 DEF NewRun, Stranded
    <3>3. lastRun'[j] = lastRun[j]
      BY <2>3, <2>t, <3>1 DEF ListActiveDue
    <3> QED BY <2>3, <3>2, <3>3 DEF Stranded
  <2>4. ASSUME NEW k \in Jobs, Create(k) \/ Delete(k) PROVE Goal
    BY <2>4, <2>t DEF Create, Delete, Stranded, TypeOK
  <2>5. ASSUME NEW r \in runs, ExecuteJob(r) PROVE Goal
    <3>1. r.job # j
      BY DEF Stranded
    <3>2. /\ fires'[j] = fires[j] /\ status'[j] = status[j]
          /\ UNCHANGED lastRun
      BY <2>5, <2>t, <3>1
         DEF ExecuteJob, CheckDue, Fire, CannotFire, Log, LogFails, Mark,
             MarkFails, db, TypeOK
    <3>r. r \in Run
      BY <2>t DEF TypeOK
    <3>3. \E s : s.job = r.job /\ (Advance(r, s) \/ Return(r))
      BY <2>5, <3>r, AdvanceKeepsJob
    <3> QED BY <3>1, <3>2, <3>3 DEF Stranded, Advance, Return
  <2> QED
    BY <2>1, <2>2, <2>3, <2>4, <2>5 DEF Next, Tick, TickLosesAnswer
<1> QED
  BY <1>1, InductiveInvariant, PTL DEF Spec, StrandedIsForever
----------------------------------------------------------------------------
(* Counting: a call costs a claim, a success in the history costs a call.  *)

\* The goroutines of the job that may still call its endpoint.
ToFire(j) == {r \in runs : r.job = j /\ r.pc \in {"check", "fire"}}

\* How many times the job can have been claimed, read off its last_run_at: a
\* one-time job only while that was NULL, a cron job once for each minute.
Claimed(j) ==
  IF j \in OneTime THEN IF lastRun[j] = NULL THEN 0 ELSE 1
                   ELSE lastRun[j] + 1

\* The calls made and the calls still possible are covered by claims.
CallsAreClaimed ==
  \A j \in Jobs :
    /\ IsFiniteSet(ToFire(j))
    /\ Len(fires[j]) + Cardinality(ToFire(j)) <= Claimed(j)

Successes(j) == {e \in executions : e.job = j /\ e.status = "success"}
\* Calls that succeeded and have no row yet.
Unlogged(j) ==
  {r \in runs : r.job = j /\ r.pc = "log" /\ r.outcome = "success"}

\* The successes written and those still to be written are covered by calls.
SuccessesAreCalls ==
  \A j \in Jobs :
    /\ IsFiniteSet(Successes(j)) /\ IsFiniteSet(Unlogged(j))
    /\ Cardinality(Successes(j)) + Cardinality(Unlogged(j)) <= Len(fires[j])

\* What a set may grow to when one element is swapped, taken out or added.
LEMMA CardSwap ==
  ASSUME NEW T, NEW U, NEW x \in T, NEW y, IsFiniteSet(T),
         U \subseteq (T \ {x}) \union {y}
  PROVE  IsFiniteSet(U) /\ Cardinality(U) <= Cardinality(T)
<1>1. IsFiniteSet(T \ {x}) /\ Cardinality(T \ {x}) = Cardinality(T) - 1
  BY FS_RemoveElement
<1> DEFINE V == (T \ {x}) \union {y}
<1>2. /\ IsFiniteSet(V)
      /\ \/ Cardinality(V) = Cardinality(T \ {x})
         \/ Cardinality(V) = Cardinality(T \ {x}) + 1
  BY <1>1, FS_AddElement
<1>3. IsFiniteSet(U) /\ Cardinality(U) <= Cardinality(V)
  BY <1>2, FS_Subset
<1>4. Cardinality(T) \in Nat /\ Cardinality(U) \in Nat /\ Cardinality(V) \in Nat
  BY <1>2, <1>3, FS_CardinalityType
<1> HIDE DEF V
<1> QED
  BY <1>1, <1>2, <1>3, <1>4

LEMMA CardLess ==
  ASSUME NEW T, NEW U, NEW x \in T, IsFiniteSet(T), U \subseteq T \ {x}
  PROVE  IsFiniteSet(U) /\ Cardinality(U) + 1 <= Cardinality(T)
<1>1. IsFiniteSet(T \ {x}) /\ Cardinality(T \ {x}) = Cardinality(T) - 1
  BY FS_RemoveElement
<1>2. IsFiniteSet(U) /\ Cardinality(U) <= Cardinality(T \ {x})
  BY <1>1, FS_Subset
<1>3. Cardinality(T) \in Nat /\ Cardinality(U) \in Nat
  BY <1>2, FS_CardinalityType
<1> QED
  BY <1>1, <1>2, <1>3

LEMMA CardMore ==
  ASSUME NEW T, NEW U, NEW y, IsFiniteSet(T), U \subseteq T \union {y}
  PROVE  IsFiniteSet(U) /\ Cardinality(U) <= Cardinality(T) + 1
<1> DEFINE V == T \union {y}
<1>1. /\ IsFiniteSet(V)
      /\ Cardinality(V) = Cardinality(T) \/ Cardinality(V) = Cardinality(T) + 1
  BY FS_AddElement
<1>2. IsFiniteSet(U) /\ Cardinality(U) <= Cardinality(V)
  BY <1>1, FS_Subset
<1>3. Cardinality(T) \in Nat /\ Cardinality(U) \in Nat /\ Cardinality(V) \in Nat
  BY <1>1, <1>2, FS_CardinalityType
<1> HIDE DEF V
<1> QED
  BY <1>1, <1>2, <1>3

\* In one step the calls made and possible grow by no more than the claims do.
LEMMA CallsStep ==
  ASSUME TypeOK, LastRunIsPast, NEW locked, StepUnder(locked), NEW j \in Jobs, IsFiniteSet(ToFire(j))
  PROVE  /\ IsFiniteSet(ToFire(j)')
         /\ Len(fires'[j]) + Cardinality(ToFire(j)') + Claimed(j)
              <= Len(fires[j]) + Cardinality(ToFire(j)) + Claimed(j)'
<1> DEFINE T == ToFire(j)
           U == ToFire(j)'
           Goal == /\ IsFiniteSet(U)
                   /\ Len(fires'[j]) + Cardinality(U) + Claimed(j)
                        <= Len(fires[j]) + Cardinality(T) + Claimed(j)'
<1>m. minute \in Nat /\ lastRun[j] \in Int /\ lastRun[j] <= minute
  BY BoundsAssumption DEF TypeOK, Minutes, NULL, LastRunIsPast
<1>n. Len(fires[j]) \in Nat /\ Cardinality(T) \in Nat /\ Claimed(j) \in Int
  BY <1>m, FS_CardinalityType DEF TypeOK, Claimed
<1>0. ASSUME U \subseteq T, fires'[j] = fires[j], lastRun'[j] = lastRun[j]
      PROVE  Goal
  <2>1. IsFiniteSet(U) /\ Cardinality(U) <= Cardinality(T)
    BY <1>0, FS_Subset
  <2>2. Cardinality(U) \in Nat
    BY <2>1, FS_CardinalityType
  <2>3. Claimed(j)' = Claimed(j)
    BY <1>0 DEF Claimed
  <2> HIDE DEF T, U
  <2> QED BY <1>0, <1>n, <2>1, <2>2, <2>3
<1>1. CASE MinutePasses
  BY <1>1, <1>0 DEF MinutePasses, db, ToFire
<1>2. ASSUME NEW i \in Instances, Crash(i) \/ Restart(i) PROVE Goal
  BY <1>2, <1>0 DEF Crash, Restart, db, ToFire
<1>3. ASSUME NEW i \in Instances, NEW C \in SUBSET Jobs, ListActiveDue(C, locked),
             UNCHANGED fires,
             runs' = runs \union {NewRun(i, k) : k \in C} \/ runs' = runs
      PROVE  Goal
  <2>1. CASE j \notin C
    <3>1. U \subseteq T
      BY <1>3, <2>1 DEF NewRun, ToFire
    <3>2. lastRun'[j] = lastRun[j]
      BY <1>3, <2>1 DEF ListActiveDue
    <3> QED BY <1>0, <1>3, <3>1, <3>2
  <2>2. CASE j \in C
    <3>1. U \subseteq T \union {NewRun(i, j)}
      BY <1>3 DEF NewRun, ToFire
    <3>2. IsFiniteSet(U) /\ Cardinality(U) <= Cardinality(T) + 1
      BY <3>1, CardMore
    <3>3. Cardinality(U) \in Nat
      BY <3>2, FS_CardinalityType
    <3>4. lastRun'[j] = minute /\ Due(j)
      BY <1>3, <2>2 DEF ListActiveDue
    <3>5. Claimed(j) + 1 <= Claimed(j)' /\ Claimed(j)' \in Int
      BY <3>4, <1>m DEF Claimed, Due, Cron, NULL
    <3> HIDE DEF T, U
    <3> QED BY <1>3, <1>n, <3>2, <3>3, <3>5
  <2> QED BY <2>1, <2>2
<1>4. ASSUME NEW k \in Jobs, Create(k) \/ Delete(k) PROVE Goal
  BY <1>4, <1>0 DEF Create, Delete, ToFire
<1>5. ASSUME NEW r \in runs, ExecuteJob(r) PROVE Goal
  <2>r. r \in Run
    BY DEF TypeOK
  <2>l. lastRun'[j] = lastRun[j]
    BY <1>5 DEF ExecuteJob, CheckDue, Fire, CannotFire, Log, LogFails, Mark,
                MarkFails, db
  <2>1. CASE r.job # j
    <3>1. \E s : s.job = r.job /\ (Advance(r, s) \/ Return(r))
      BY <1>5, <2>r, AdvanceKeepsJob
    <3>2. U \subseteq T
      BY <3>1, <2>1 DEF Advance, Return, ToFire
    <3>3. fires'[j] = fires[j]
      BY <1>5, <2>1
         DEF ExecuteJob, CheckDue, Fire, CannotFire, Log, LogFails, Mark,
             MarkFails, TypeOK
    <3> QED BY <1>0, <2>l, <3>2, <3>3
  <2>2. CASE CheckDue(r) /\ r.job = j
    <3>1. r \in T
      BY <2>2 DEF CheckDue, ToFire
    <3> DEFINE s == [r EXCEPT !.pc = "fire", !.slot = minute]
    <3>2. U \subseteq (T \ {r}) \union {s}
      BY <2>2 DEF CheckDue, Advance, Return, ToFire
    <3>3. IsFiniteSet(U) /\ Cardinality(U) <= Cardinality(T)
      BY <3>1, <3>2, CardSwap
    <3>4. Cardinality(U) \in Nat
      BY <3>3, FS_CardinalityType
    <3>5. Claimed(j)' = Claimed(j) /\ fires' = fires
      BY <2>2, <2>l DEF Claimed, CheckDue
    <3> HIDE DEF T, U
    <3> QED BY <1>n, <3>3, <3>4, <3>5
  <2>3. CASE Fire(r) /\ r.job = j
    <3>1. r \in T
      BY <2>3 DEF Fire, ToFire
    <3>2. PICK o \in Outcomes : Advance(r, [r EXCEPT !.pc = "log", !.outcome = o])
      BY <2>3 DEF Fire
    <3> DEFINE s == [r EXCEPT !.pc = "log", !.outcome = o]
    <3>s. s.pc = "log"
      BY <2>r DEF Run
    <3>3. U \subseteq T \ {r}
      BY <3>2, <3>s DEF Advance, ToFire
    <3>4. IsFiniteSet(U) /\ Cardinality(U) + 1 <= Cardinality(T)
      BY <3>1, <3>3, CardLess
    <3>5. Cardinality(U) \in Nat
      BY <3>4, FS_CardinalityType
    <3>6. fires'[j] = Append(fires[j], CallOf(r))
      BY <2>3 DEF Fire, TypeOK, CallOf
    <3>7. Len(fires'[j]) = Len(fires[j]) + 1
      BY <3>6, <2>r, CallType DEF TypeOK
    <3>8. Claimed(j)' = Claimed(j)
      BY <2>l DEF Claimed
    <3> HIDE DEF T, U
    <3> QED BY <1>n, <3>4, <3>5, <3>7, <3>8
  <2>4. CASE CannotFire(r) \/ Log(r) \/ LogFails(r) \/ Mark(r) \/ MarkFails(r)
    <3>1. fires' = fires
      BY <2>4 DEF CannotFire, Log, LogFails, Mark, MarkFails
    <3>2. \A q \in runs' : q \in runs \/ q.pc \in {"log", "mark"}
      BY <2>4, <2>r DEF CannotFire, Log, LogFails, AfterLog, Mark, MarkFails,
                        Advance, Return, Run
    <3>3. U \subseteq T
      BY <3>2 DEF ToFire
    <3> QED BY <1>0, <2>l, <3>1, <3>3
  <2> QED BY <1>5, <2>1, <2>2, <2>3, <2>4 DEF ExecuteJob
<1> QED
  BY <1>1, <1>2, <1>3, <1>4, <1>5 DEF StepUnder, Tick, TickLosesAnswer

\* In one step the successes written and to be written grow by no more than
\* the calls do.
LEMMA SuccessesStep ==
  ASSUME TypeOK, Next, NEW j \in Jobs,
         IsFiniteSet(Successes(j)), IsFiniteSet(Unlogged(j))
  PROVE  /\ IsFiniteSet(Successes(j)') /\ IsFiniteSet(Unlogged(j)')
         /\ Cardinality(Successes(j)') + Cardinality(Unlogged(j)') + Len(fires[j])
              <= Cardinality(Successes(j)) + Cardinality(Unlogged(j)) + Len(fires'[j])
<1> DEFINE S == Successes(j)
           L == Unlogged(j)
           SP == Successes(j)'
           LP == Unlogged(j)'
           Goal == /\ IsFiniteSet(SP) /\ IsFiniteSet(LP)
                   /\ Cardinality(SP) + Cardinality(LP) + Len(fires[j])
                        <= Cardinality(S) + Cardinality(L) + Len(fires'[j])
<1>n. /\ Len(fires[j]) \in Nat
      /\ IsFiniteSet(S) /\ Cardinality(S) \in Nat /\ Cardinality(L) \in Nat
  BY FS_CardinalityType DEF TypeOK
<1>0. ASSUME SP \subseteq S, LP \subseteq L, fires'[j] = fires[j]
      PROVE  Goal
  <2>1. /\ IsFiniteSet(SP) /\ Cardinality(SP) <= Cardinality(S)
        /\ IsFiniteSet(LP) /\ Cardinality(LP) <= Cardinality(L)
    BY <1>0, FS_Subset
  <2>2. Cardinality(SP) \in Nat /\ Cardinality(LP) \in Nat
    BY <2>1, FS_CardinalityType
  <2> HIDE DEF S, L, SP, LP
  <2> QED BY <1>0, <1>n, <2>1, <2>2
<1>1. CASE MinutePasses
  BY <1>1, <1>0 DEF MinutePasses, Successes, Unlogged
<1>2. ASSUME NEW i \in Instances, Crash(i) \/ Restart(i) PROVE Goal
  BY <1>2, <1>0 DEF Crash, Restart, Successes, Unlogged
<1>3. ASSUME NEW i \in Instances, NEW C \in SUBSET Jobs,
             UNCHANGED <<fires, executions>>,
             runs' = runs \union {NewRun(i, k) : k \in C} \/ runs' = runs
      PROVE  Goal
  <2>1. \A k : NewRun(i, k).pc # "log"
    BY DEF NewRun
  <2>2. SP \subseteq S /\ LP \subseteq L
    BY <1>3, <2>1 DEF Successes, Unlogged
  <2> QED BY <1>0, <1>3, <2>2
<1>4. ASSUME NEW k \in Jobs, Create(k) \/ Delete(k) PROVE Goal
  BY <1>4, <1>0 DEF Create, Delete, Successes, Unlogged
<1>5. ASSUME NEW r \in runs, ExecuteJob(r) PROVE Goal
  <2>r. r \in Run
    BY DEF TypeOK
  <2>1. CASE CheckDue(r) \/ CannotFire(r) \/ LogFails(r) \/ Mark(r) \/ MarkFails(r)
    <3>1. UNCHANGED <<fires, executions>>
      BY <2>1 DEF CheckDue, CannotFire, LogFails, Mark, MarkFails
    <3>2. \A q \in runs' : q \in runs \/ q.pc # "log" \/ q.outcome = "failed"
      BY <2>1, <2>r
         DEF CheckDue, CannotFire, LogFails, AfterLog, Mark, MarkFails,
             Advance, Return, Run
    <3>3. SP \subseteq S /\ LP \subseteq L
      BY <3>1, <3>2 DEF Successes, Unlogged
    <3> QED BY <1>0, <3>1, <3>3
  <2>2. CASE Fire(r)
    <3>1. PICK o \in Outcomes : Advance(r, [r EXCEPT !.pc = "log", !.outcome = o])
      BY <2>2 DEF Fire
    <3> DEFINE s == [r EXCEPT !.pc = "log", !.outcome = o]
    <3>2. s.job = r.job
      BY <2>r DEF Run
    <3>3. CASE r.job # j
      <4>1. fires'[j] = fires[j] /\ executions' = executions
        BY <2>2, <3>3 DEF Fire, TypeOK
      <4>2. SP \subseteq S /\ LP \subseteq L
        BY <4>1, <3>1, <3>2, <3>3 DEF Successes, Unlogged, Advance
      <4> QED BY <1>0, <4>1, <4>2
    <3>4. CASE r.job = j
      <4>1. fires'[j] = Append(fires[j], CallOf(r)) /\ executions' = executions
        BY <2>2, <3>4 DEF Fire, TypeOK, CallOf
      <4>2. Len(fires'[j]) = Len(fires[j]) + 1
        BY <4>1, <2>r, CallType DEF TypeOK
      <4>3. SP = S /\ LP \subseteq L \union {s}
        BY <4>1, <3>1 DEF Successes, Unlogged, Advance
      <4>4. IsFiniteSet(LP) /\ Cardinality(LP) <= Cardinality(L) + 1
        BY <4>3, CardMore
      <4>5. Cardinality(LP) \in Nat
        BY <4>4, FS_CardinalityType
      <4> HIDE DEF S, L, SP, LP
      <4> QED BY <1>n, <4>2, <4>3, <4>4, <4>5
    <3> QED BY <3>3, <3>4
  <2>3. CASE Log(r)
    <3> DEFINE e == [job |-> r.job, claimed |-> r.claimed, status |-> r.outcome]
    <3>1. fires' = fires /\ executions' = executions \union {e} /\ r.pc = "log"
      BY <2>3 DEF Log
    <3>2. \A q \in runs' : (q \in runs /\ q # r) \/ q.pc # "log"
      BY <2>3, <2>r DEF Log, AfterLog, Advance, Return, Run
    <3>3. CASE r.job = j /\ r.outcome = "success"
      <4>1. r \in L /\ LP \subseteq L \ {r} /\ SP \subseteq S \union {e}
        BY <3>1, <3>2, <3>3 DEF Successes, Unlogged
      <4>2. IsFiniteSet(SP) /\ Cardinality(SP) <= Cardinality(S) + 1
        BY <4>1, CardMore
      <4>3. IsFiniteSet(LP) /\ Cardinality(LP) + 1 <= Cardinality(L)
        BY <4>1, CardLess
      <4>4. Cardinality(SP) \in Nat /\ Cardinality(LP) \in Nat
        BY <4>2, <4>3, FS_CardinalityType
      <4> HIDE DEF S, L, SP, LP
      <4> QED BY <1>n, <3>1, <4>2, <4>3, <4>4
    <3>4. CASE ~(r.job = j /\ r.outcome = "success")
      <4>1. SP \subseteq S /\ LP \subseteq L
        BY <3>1, <3>2, <3>4 DEF Successes, Unlogged
      <4> QED BY <1>0, <3>1, <4>1
    <3> QED BY <3>3, <3>4
  <2> QED BY <1>5, <2>1, <2>2, <2>3 DEF ExecuteJob
<1> QED
  BY <1>1, <1>2, <1>3, <1>4, <1>5 DEF Next, Tick, TickLosesAnswer

LEMMA CountingInit == Init => CallsAreClaimed /\ SuccessesAreCalls
<1> SUFFICES ASSUME Init, NEW j \in Jobs
             PROVE  /\ IsFiniteSet(ToFire(j))
                    /\ Len(fires[j]) + Cardinality(ToFire(j)) <= Claimed(j)
                    /\ IsFiniteSet(Successes(j)) /\ IsFiniteSet(Unlogged(j))
                    /\ Cardinality(Successes(j)) + Cardinality(Unlogged(j))
                         <= Len(fires[j])
  BY DEF CallsAreClaimed, SuccessesAreCalls
<1>1. ToFire(j) = {} /\ Successes(j) = {} /\ Unlogged(j) = {}
  BY DEF Init, ToFire, Successes, Unlogged
<1>2. Len(fires[j]) = 0 /\ Claimed(j) = 0
  BY DEF Init, Claimed, NULL
<1>3. IsFiniteSet({}) /\ Cardinality({}) = 0
  BY FS_EmptySet
<1> QED
  BY <1>1, <1>2, <1>3

LEMMA CountingInductive ==
  IInv /\ CallsAreClaimed /\ SuccessesAreCalls /\ [Next]_vars
    => CallsAreClaimed' /\ SuccessesAreCalls'
<1> SUFFICES ASSUME IInv, CallsAreClaimed, SuccessesAreCalls, [Next]_vars
             PROVE  CallsAreClaimed' /\ SuccessesAreCalls'
  OBVIOUS
<1>t. TypeOK /\ LastRunIsPast
  BY DEF IInv
<1>1. CASE UNCHANGED vars
  BY <1>1 DEF vars, db, CallsAreClaimed, SuccessesAreCalls, ToFire, Claimed,
              Successes, Unlogged
<1>2. CASE Next
  <2>t. TypeOK'
    BY <1>t, <1>2, TypeOKInductive
  <2> SUFFICES ASSUME NEW j \in Jobs
               PROVE  /\ IsFiniteSet(ToFire(j)')
                      /\ Len(fires'[j]) + Cardinality(ToFire(j)') <= Claimed(j)'
                      /\ IsFiniteSet(Successes(j)') /\ IsFiniteSet(Unlogged(j)')
                      /\ Cardinality(Successes(j)') + Cardinality(Unlogged(j)')
                           <= Len(fires'[j])
    BY DEF CallsAreClaimed, SuccessesAreCalls
  <2>1. /\ IsFiniteSet(ToFire(j))
        /\ Len(fires[j]) + Cardinality(ToFire(j)) <= Claimed(j)
    BY DEF CallsAreClaimed
  <2>2. /\ IsFiniteSet(Successes(j)) /\ IsFiniteSet(Unlogged(j))
        /\ Cardinality(Successes(j)) + Cardinality(Unlogged(j)) <= Len(fires[j])
    BY DEF SuccessesAreCalls
  <2>3. /\ IsFiniteSet(ToFire(j)')
        /\ Len(fires'[j]) + Cardinality(ToFire(j)') + Claimed(j)
             <= Len(fires[j]) + Cardinality(ToFire(j)) + Claimed(j)'
    BY <1>t, <1>2, <2>1, NextIsStep, CallsStep
  <2>4. /\ IsFiniteSet(Successes(j)') /\ IsFiniteSet(Unlogged(j)')
        /\ Cardinality(Successes(j)') + Cardinality(Unlogged(j)') + Len(fires[j])
             <= Cardinality(Successes(j)) + Cardinality(Unlogged(j)) + Len(fires'[j])
    BY <1>t, <1>2, <2>2, SuccessesStep
  <2>l. lastRun[j] \in Int /\ lastRun'[j] \in Int
    BY <1>t, <2>t, BoundsAssumption DEF TypeOK, NULL, Minutes
  <2>c. Claimed(j) \in Int /\ Claimed(j)' \in Int
    BY <2>l DEF Claimed
  <2>5. Len(fires[j]) \in Nat /\ Len(fires'[j]) \in Nat
    BY <1>t, <2>t DEF TypeOK
  <2>6. /\ Cardinality(ToFire(j)) \in Nat /\ Cardinality(ToFire(j)') \in Nat
        /\ Cardinality(Successes(j)) \in Nat /\ Cardinality(Successes(j)') \in Nat
        /\ Cardinality(Unlogged(j)) \in Nat /\ Cardinality(Unlogged(j)') \in Nat
    BY <2>1, <2>2, <2>3, <2>4, FS_CardinalityType
  <2>7. Len(fires'[j]) + Cardinality(ToFire(j)') <= Claimed(j)'
    BY <2>1, <2>3, <2>c, <2>5, <2>6, SMTT(30)
  <2>8. Cardinality(Successes(j)') + Cardinality(Unlogged(j)') <= Len(fires'[j])
    BY <2>2, <2>4, <2>5, <2>6
  <2> QED BY <2>3, <2>4, <2>7, <2>8
<1> QED
  BY <1>1, <1>2

\* The counting invariant holds of the scheduler: however many instances tick
\* and crash, calls cost claims and recorded successes cost calls.
THEOREM Counting == Spec => [](CallsAreClaimed /\ SuccessesAreCalls)
BY CountingInit, CountingInductive, InductiveInvariant, PTL DEF Spec

\* The claims that cron calls are due to: none lies after last_run_at, and a
\* goroutine that may still call comes from a claim that no call is due to yet.
CronProgress ==
  \A j \in Cron :
    /\ \A n \in DOMAIN fires[j] : fires[j][n].claimed <= lastRun[j]
    /\ \A r \in runs :
         r.job = j /\ r.pc \in {"check", "fire"} =>
           /\ \A n \in DOMAIN fires[j] : fires[j][n].claimed # r.claimed
           /\ r.pc = "fire" => r.slot \in CronMinutes[j] /\ r.claimed <= r.slot

\* The calls of a sequence that grew by one.
LEMMA AppendElements ==
  ASSUME NEW S, NEW s \in Seq(S), NEW c \in S, NEW t, t = Append(s, c)
  PROVE  \A n \in DOMAIN t :
           \/ n \in DOMAIN s /\ t[n] = s[n]
           \/ n = Len(s) + 1 /\ n \notin DOMAIN s /\ t[n] = c
OBVIOUS

LEMMA CronCallStep ==
  ASSUME IInv, CronProgress, CronClaimCallsOnce,
         NEW r \in runs, Fire(r), NEW j \in Cron
  PROVE  /\ \A n \in DOMAIN fires'[j] :
              /\ fires'[j][n].claimed <= lastRun'[j]
              /\ fires'[j][n].slot \in CronMinutes[j]
              /\ fires'[j][n].claimed <= fires'[j][n].slot
              /\ \A m \in DOMAIN fires'[j] \ {n} :
                   fires'[j][m].claimed # fires'[j][n].claimed
         /\ \A q \in runs' :
              q.job = j /\ q.pc \in {"check", "fire"} =>
                /\ q \in runs
                /\ \A n \in DOMAIN fires'[j] : fires'[j][n].claimed # q.claimed
<1>t. TypeOK /\ r \in Run /\ j \in Jobs
  BY DEF IInv, TypeOK, Cron
<1>a. PICK o \in Outcomes : Advance(r, [r EXCEPT !.pc = "log", !.outcome = o])
  BY DEF Fire
<1>l. [r EXCEPT !.pc = "log", !.outcome = o].pc = "log"
  BY <1>t DEF Run
<1>q. \A q \in runs' : q.pc \in {"check", "fire"} => q \in runs /\ q # r
  BY <1>a, <1>l DEF Advance
<1>u. UNCHANGED lastRun
  BY DEF Fire, db
<1>1. CASE r.job # j
  <2>1. fires'[j] = fires[j]
    BY <1>1, <1>t DEF Fire, TypeOK
  <2> QED BY <2>1, <1>q, <1>u DEF CronProgress, CronClaimCallsOnce
<1>2. CASE r.job = j
  <2> DEFINE c == CallOf(r)
  <2>c. c.claimed = r.claimed /\ c.slot = r.slot /\ c \in Made
    BY <1>t, CallType DEF CallOf
  <2>1. fires'[j] = Append(fires[j], c) /\ fires[j] \in Seq(Made)
    BY <1>2, <1>t DEF Fire, TypeOK, CallOf
  <2>2. \A n \in DOMAIN fires'[j] :
          \/ n \in DOMAIN fires[j] /\ fires'[j][n] = fires[j][n]
          \/ n = Len(fires[j]) + 1 /\ n \notin DOMAIN fires[j] /\ fires'[j][n] = c
    BY <2>1, <2>c, AppendElements
  <2>3. /\ c.claimed <= lastRun[j] /\ c.slot \in CronMinutes[j] /\ c.claimed <= c.slot
        /\ \A n \in DOMAIN fires[j] : fires[j][n].claimed # c.claimed
    BY <1>2, <2>c DEF Fire, IInv, RunsAreClaimed, CronProgress
  <2>4. \A q \in runs' :
          q.job = j /\ q.pc \in {"check", "fire"} => q.claimed # c.claimed
    BY <1>2, <1>q, <2>c DEF IInv, ClaimsAreExclusive
  <2> HIDE DEF c
  <2> QED
    BY <2>2, <2>3, <2>4, <1>q, <1>u DEF CronProgress, CronClaimCallsOnce
<1> QED BY <1>1, <1>2

LEMMA CronInit == Init => CronProgress /\ CronClaimCallsOnce
BY DEF Init, CronProgress, CronClaimCallsOnce, Cron

LEMMA CronInductive ==
  IInv /\ CronProgress /\ CronClaimCallsOnce /\ [Next]_vars
    => CronProgress' /\ CronClaimCallsOnce'
<1> SUFFICES ASSUME IInv, CronProgress, CronClaimCallsOnce, [Next]_vars
             PROVE  CronProgress' /\ CronClaimCallsOnce'
  OBVIOUS
<1> DEFINE Goal == CronProgress' /\ CronClaimCallsOnce'
<1>t. TypeOK
  BY DEF IInv
<1>c. \A j \in Cron : j \in Jobs
  BY DEF Cron
<1>0. ASSUME UNCHANGED <<lastRun, fires>>, \A q \in runs' : q \in runs
      PROVE  Goal
  BY <1>0 DEF CronProgress, CronClaimCallsOnce
<1>1. CASE MinutePasses
  BY <1>1, <1>0 DEF MinutePasses, db
<1>2. ASSUME NEW i \in Instances, Crash(i) \/ Restart(i) PROVE Goal
  BY <1>2, <1>0 DEF Crash, Restart, db
<1>3. ASSUME NEW i \in Instances, NEW C \in SUBSET Jobs, NEW locked,
             ListActiveDue(C, locked), UNCHANGED fires,
             runs' = runs \union {NewRun(i, k) : k \in C} \/ runs' = runs
      PROVE  Goal
  <2>m. /\ minute \in Int
        /\ \A j \in Jobs : lastRun[j] \in Int /\ lastRun[j] <= minute
        /\ \A j \in Jobs : \A n \in DOMAIN fires[j] : fires[j][n].claimed \in Int
    <3>1. minute \in Int /\ \A j \in Jobs : lastRun[j] \in Int /\ lastRun[j] <= minute
      BY <1>t, BoundsAssumption DEF IInv, LastRunIsPast, TypeOK, Minutes, NULL
    <3>2. \A j \in Jobs : fires[j] \in Seq(Made)
      BY <1>t DEF TypeOK
    <3>3. \A j \in Jobs : \A n \in DOMAIN fires[j] : fires[j][n] \in Made
      BY <3>2
    <3>4. \A c \in Made : c.claimed \in Int
      BY BoundsAssumption DEF Made, Minutes, NULL
    <3> QED BY <3>1, <3>3, <3>4
  <2>1. \A j \in C : lastRun[j] < minute \/ j \notin Cron
    <3>1. minute # NULL /\ minute > NULL
      BY <1>t, BoundsAssumption DEF TypeOK, Minutes, NULL
    <3>2. \A j \in C : j \in OneTime \/ lastRun[j] = NULL \/ lastRun[j] < minute
      BY <1>3 DEF ListActiveDue, Due, Cron
    <3> QED BY <3>1, <3>2 DEF Cron
  <2>2. \A j \in Cron : \A n \in DOMAIN fires[j] :
          /\ fires[j][n].claimed <= lastRun'[j]
          /\ j \in C => fires[j][n].claimed < minute
    <3>1. \A j \in Cron : IF j \in C THEN lastRun'[j] = minute /\ lastRun[j] < minute
                                     ELSE lastRun'[j] = lastRun[j]
      BY <1>3, <1>c, <2>1 DEF ListActiveDue
    <3>2. \A j \in Cron : \A n \in DOMAIN fires[j] : fires[j][n].claimed <= lastRun[j]
      BY DEF CronProgress
    <3> QED BY <3>1, <3>2, <2>m, <1>c
  <2>3. \A q \in runs' : q.job \in Cron =>
          \/ q \in runs
          \/ q.job \in C /\ q.claimed = minute /\ q.pc = "check"
    BY <1>3 DEF NewRun
  <2>4. CronProgress'
    <3> SUFFICES ASSUME NEW j \in Cron, NEW q \in runs', q.job = j,
                        q.pc \in {"check", "fire"}
                 PROVE  /\ \A n \in DOMAIN fires[j] : fires[j][n].claimed # q.claimed
                        /\ q.pc = "fire" => q.slot \in CronMinutes[j] /\ q.claimed <= q.slot
      BY <1>3, <2>2 DEF CronProgress
    <3>1. CASE q \in runs
      BY <3>1 DEF CronProgress
    <3>2. CASE q.job \in C /\ q.claimed = minute /\ q.pc = "check"
      BY <3>2, <2>2, <2>m, <1>c
    <3> QED BY <2>3, <3>1, <3>2
  <2> QED BY <1>3, <2>4 DEF CronClaimCallsOnce
<1>4. ASSUME NEW k \in Jobs, Create(k) \/ Delete(k) PROVE Goal
  BY <1>4, <1>0 DEF Create, Delete
<1>5. ASSUME NEW r \in runs, Fire(r) PROVE Goal
  <2>1. ASSUME NEW q \in runs', q.job \in Cron, q.pc \in {"check", "fire"} PROVE q \in runs
    BY <1>5, <2>1, CronCallStep
  <2>2. CronProgress'
    BY <1>5, <2>1, CronCallStep DEF CronProgress
  <2>3. CronClaimCallsOnce'
    BY <1>5, CronCallStep DEF CronClaimCallsOnce
  <2> QED BY <2>2, <2>3
<1>6. ASSUME NEW r \in runs, ExecuteJob(r), ~Fire(r) PROVE Goal
  <2>r. r \in Run
    BY <1>t DEF TypeOK
  <2>u. UNCHANGED <<lastRun, fires>>
    BY <1>6 DEF ExecuteJob, CheckDue, CannotFire, Log, LogFails, Mark, MarkFails, db
  <2>1. CASE CheckDue(r)
    <3> DEFINE s == [r EXCEPT !.pc = "fire", !.slot = minute]
    <3>1. s.job = r.job /\ s.claimed = r.claimed /\ s.slot = minute /\ s.pc = "fire"
      BY <2>r DEF Run
    <3>2. r.claimed <= minute
      BY <1>t, <2>r, BoundsAssumption
         DEF IInv, RunsAreClaimed, LastRunIsPast, TypeOK, Run, Minutes, NULL
    <3>3. \A q \in runs' : q \in runs \/ (q = s /\ minute \in CronMinutes[r.job])
      BY <2>1 DEF CheckDue, Advance, Return
    <3>4. r.pc = "check"
      BY <2>1 DEF CheckDue
    <3> HIDE DEF s
    <3> QED
      BY <2>u, <3>1, <3>2, <3>3, <3>4 DEF CronProgress, CronClaimCallsOnce
  <2>2. CASE ~CheckDue(r)
    <3>1. \A q \in runs' : q \in runs \/ q.pc \in {"log", "mark"}
      BY <1>6, <2>2, <2>r DEF ExecuteJob, CannotFire, Log, LogFails, AfterLog, Mark,
                              MarkFails, Advance, Return, Run
    <3> QED BY <2>u, <3>1 DEF CronProgress, CronClaimCallsOnce
  <2> QED BY <2>1, <2>2
<1>7. CASE UNCHANGED vars
  BY <1>7, <1>0 DEF vars, db
<1> QED
  BY <1>1, <1>2, <1>3, <1>4, <1>5, <1>6, <1>7 DEF Next, Tick, TickLosesAnswer

\* A cron job is called for minutes its expression matches only, none before
\* the claim the call is due to, and once for each claim, whichever instances
\* tick and however late their goroutines run: a claim stamps last_run_at with
\* a minute that lies after the one it finds there (ListActiveDue).
THEOREM CronClaimOnce == Spec => []CronClaimCallsOnce
BY CronInit, CronInductive, InductiveInvariant, PTL DEF Spec

\* job_executions never shows more successes of a job than calls were made for
\* it, though the rows are written later, by goroutines of any instance, and
\* some of the writes fail: executeJob, CreateExecution.
THEOREM HistoryTrue == Spec => []HistoryIsTrue
<1>1. IInv /\ SuccessesAreCalls => HistoryIsTrue
  <2> SUFFICES ASSUME IInv, SuccessesAreCalls, NEW j \in Jobs
               PROVE  Cardinality(Successes(j)) <= Len(fires[j])
    BY DEF HistoryIsTrue, Successes
  <2>1. /\ IsFiniteSet(Successes(j)) /\ IsFiniteSet(Unlogged(j))
        /\ Cardinality(Successes(j)) + Cardinality(Unlogged(j)) <= Len(fires[j])
    BY DEF SuccessesAreCalls
  <2>2. /\ Len(fires[j]) \in Nat
        /\ Cardinality(Successes(j)) \in Nat /\ Cardinality(Unlogged(j)) \in Nat
    BY <2>1, FS_CardinalityType DEF IInv, TypeOK
  <2> QED BY <2>1, <2>2
<1> QED BY <1>1, Counting, InductiveInvariant, PTL
----------------------------------------------------------------------------
(* The refinement: the one-time jobs implement OneTimeExecution.           *)

\* A step that changes neither a one-time job's status, nor whether it was
\* claimed, nor the number of its calls is a stutter of the abstract jobs.
LEMMA AbstractStutter ==
  ASSUME \A j \in OneTime : /\ status'[j] = status[j]
                            /\ lastRun'[j] # NULL <=> lastRun[j] # NULL
                            /\ Len(fires'[j]) = Len(fires[j])
  PROVE  UNCHANGED Abstract!vars
BY DEF Abstract!vars

LEMMA AbstractInit == Init => Abstract!Init
BY OneTimeAssumption DEF Init, Abstract!Init

LEMMA AbstractClaim ==
  ASSUME IInv, NEW C \in SUBSET Jobs, NEW locked, ListActiveDue(C, locked),
         UNCHANGED <<status, fires>>
  PROVE  [Abstract!Next]_(Abstract!vars)
<1> DEFINE S == C \intersect OneTime
<1>1. minute # NULL
  BY BoundsAssumption DEF IInv, TypeOK, Minutes, NULL
<1>2. \A j \in S : status[j] = "active" /\ lastRun[j] = NULL
  BY DEF ListActiveDue, Due, Cron
<1>3. \A j \in OneTime : lastRun'[j] # NULL <=> (lastRun[j] # NULL \/ j \in S)
  BY <1>1, OneTimeAssumption DEF ListActiveDue
<1>4. Abstract!Take(S)
  BY <1>2, <1>3 DEF Abstract!Take
<1> QED
  BY <1>4 DEF Abstract!Next

LEMMA AbstractExecuteJob ==
  ASSUME IInv, NEW r \in runs, ExecuteJob(r)
  PROVE  [Abstract!Next]_(Abstract!vars)
<1>t. TypeOK /\ r \in Run
  BY DEF IInv, TypeOK
<1>c. r.job \in OneTime => OnlyRun(r) /\ lastRun[r.job] # NULL
  BY <1>t DEF IInv, OneTimeProgress, OnlyRun, Run, Minutes, NULL
<1>1. CASE CheckDue(r) \/ CannotFire(r) \/ Log(r) \/ LogFails(r) \/ MarkFails(r)
  BY <1>1, AbstractStutter DEF CheckDue, CannotFire, Log, LogFails, MarkFails, db
<1>2. CASE Fire(r) /\ r.job \in OneTime
  <2>1. fires[r.job] = << >> /\ status[r.job] \notin Settled /\ CallOf(r) \in Made
    BY <1>2, <1>c, <1>t, CallType DEF Fire, OnlyRun
  <2>2. /\ fires'[r.job] = Append(<< >>, CallOf(r))
        /\ \A j \in OneTime : j # r.job => fires'[j] = fires[j]
    BY <1>2, <1>t, <2>1, OneTimeAssumption DEF Fire, TypeOK, CallOf
  <2>3. Len(fires[r.job]) = 0 /\ Len(fires'[r.job]) = 1
    BY <2>1, <2>2
  <2>4. UNCHANGED <<status, lastRun>>
    BY <1>2 DEF Fire, db
  <2>5. Abstract!Call(r.job)
    BY <1>2, <1>c, <2>1, <2>2, <2>3, <2>4 DEF Abstract!Call, Abstract!Settled, Settled
  <2> QED
    BY <1>2, <2>5 DEF Abstract!Next
<1>3. CASE Fire(r) /\ r.job \notin OneTime
  <2>1. UNCHANGED <<status, lastRun>> /\ \A j \in OneTime : fires'[j] = fires[j]
    BY <1>3, <1>t, OneTimeAssumption DEF Fire, TypeOK, db
  <2> QED BY <2>1, AbstractStutter
<1>4. CASE Mark(r) /\ status[r.job] \in Stored
  <2>1. r.job \in OneTime /\ status[r.job] \notin Settled /\ OnlyRun(r)
    BY <1>4, <1>c, MarkedIsUnsettled DEF Mark
  <2>2. status[r.job] = "active"
    BY <1>4, <2>1 DEF Stored
  <2>3. /\ status'[r.job] = FinalStatus(r)
        /\ \A j \in OneTime : j # r.job => status'[j] = status[j]
        /\ UNCHANGED <<lastRun, fires>>
    BY <1>4, <1>t, <2>1, OneTimeAssumption DEF Mark, TypeOK
  <2>4. FinalStatus(r) = "completed" => Len(fires[r.job]) = 1
    BY <1>4, <2>1, <1>t DEF Mark, OnlyRun, FinalStatus, Run, Outcomes
  <2>5. Abstract!Settle(r.job, FinalStatus(r))
    BY <1>c, <2>1, <2>2, <2>3, <2>4
       DEF Abstract!Settle, Abstract!Settled, FinalStatus
  <2>6. FinalStatus(r) \in Abstract!Settled
    BY DEF FinalStatus, Abstract!Settled
  <2> QED
    BY <2>1, <2>5, <2>6 DEF Abstract!Next
<1>5. CASE Mark(r) /\ status[r.job] \notin Stored
  BY <1>5, AbstractStutter DEF Mark
<1> QED
  BY <1>1, <1>2, <1>3, <1>4, <1>5 DEF ExecuteJob

\* Every step of the system is a step, or a stutter, of the abstract jobs.
LEMMA AbstractStep == IInv /\ [Next]_vars => [Abstract!Next]_(Abstract!vars)
<1> SUFFICES ASSUME IInv, [Next]_vars PROVE [Abstract!Next]_(Abstract!vars)
  OBVIOUS
<1>t. TypeOK
  BY DEF IInv
<1>1. CASE MinutePasses
  BY <1>1, AbstractStutter DEF MinutePasses, db
<1>2. ASSUME NEW i \in Instances, Crash(i) \/ Restart(i)
      PROVE  [Abstract!Next]_(Abstract!vars)
  BY <1>2, AbstractStutter DEF Crash, Restart, db
<1>3. ASSUME NEW i \in Instances,
             Tick(i, MaybeLocked) \/ TickLosesAnswer(i, MaybeLocked)
      PROVE  [Abstract!Next]_(Abstract!vars)
  BY <1>3, AbstractClaim DEF Tick, TickLosesAnswer
<1>4. ASSUME NEW k \in Jobs, Create(k) \/ Delete(k)
      PROVE  [Abstract!Next]_(Abstract!vars)
  <2>1. CASE k \notin OneTime
    <3>1. UNCHANGED <<lastRun, fires>> /\ \A j \in OneTime : status'[j] = status[j]
      BY <1>4, <1>t, <2>1, OneTimeAssumption DEF Create, Delete, TypeOK
    <3> QED BY <3>1, AbstractStutter
  <2>2. CASE k \in OneTime /\ Create(k)
    BY <2>2, <1>t, OneTimeAssumption
       DEF Create, TypeOK, Abstract!Schedule, Abstract!Next
  <2>3. CASE k \in OneTime /\ Delete(k)
    BY <2>3, <1>t, OneTimeAssumption
       DEF Delete, TypeOK, Stored, Settled, Abstract!Delete, Abstract!Settled,
           Abstract!Next
  <2> QED BY <1>4, <2>1, <2>2, <2>3
<1>5. ASSUME NEW r \in runs, ExecuteJob(r)
      PROVE  [Abstract!Next]_(Abstract!vars)
  BY <1>5, AbstractExecuteJob
<1>6. CASE UNCHANGED vars
  BY <1>6, AbstractStutter DEF vars, db
<1> QED
  BY <1>1, <1>2, <1>3, <1>4, <1>5, <1>6 DEF Next

\* The scheduler implements what it promises about one-time jobs.
THEOREM Refinement == Spec => ImplementsOneTimeExecution
BY AbstractInit, AbstractStep, InductiveInvariant, PTL
   DEF Spec, ImplementsOneTimeExecution, Abstract!Spec
=============================================================================
