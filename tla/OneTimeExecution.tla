------------------------- MODULE OneTimeExecution -------------------------
(***************************************************************************)
(* What the scheduler promises about the one-time jobs, with no instance,  *)
(* no clock and no goroutine in it: a job is taken by somebody at most     *)
(* once, its endpoint is called at most once and only after that, and a    *)
(* settled status is final and never claims a call that was not made.      *)
(* JobScheduler is shown to implement this specification.                  *)
(***************************************************************************)
EXTENDS Naturals

CONSTANT Jobs

VARIABLES
  status,   \* [Jobs -> Statuses], jobs.status, or the row's absence
  taken,    \* [Jobs -> BOOLEAN], has somebody picked the job up?
  calls     \* [Jobs -> 0..1], calls made to the job's endpoint

vars == <<status, taken, calls>>

Settled == {"completed", "failed"}
Statuses == {"absent", "active", "deleted"} \union Settled

TypeOK ==
  /\ status \in [Jobs -> Statuses]
  /\ taken \in [Jobs -> BOOLEAN]
  /\ calls \in [Jobs -> 0..1]

Init ==
  /\ status = [j \in Jobs |-> "absent"]
  /\ taken = [j \in Jobs |-> FALSE]
  /\ calls = [j \in Jobs |-> 0]

Schedule(j) ==
  /\ status[j] = "absent"
  /\ status' = [status EXCEPT ![j] = "active"]
  /\ UNCHANGED <<taken, calls>>

\* Some waiting jobs are picked up together; a job is never picked up twice.
Take(S) ==
  /\ \A j \in S : status[j] = "active" /\ ~taken[j]
  /\ taken' = [j \in Jobs |-> taken[j] \/ j \in S]
  /\ UNCHANGED <<status, calls>>

\* The only call: never a second one, never after the job has settled.
Call(j) ==
  /\ taken[j] /\ calls[j] = 0
  /\ status[j] \notin Settled
  /\ calls' = [calls EXCEPT ![j] = 1]
  /\ UNCHANGED <<status, taken>>

Settle(j, s) ==
  /\ taken[j] /\ status[j] = "active"
  /\ s \in Settled
  /\ s = "completed" => calls[j] = 1
  /\ status' = [status EXCEPT ![j] = s]
  /\ UNCHANGED <<taken, calls>>

Delete(j) ==
  /\ status[j] \in {"active"} \union Settled
  /\ status' = [status EXCEPT ![j] = "deleted"]
  /\ UNCHANGED <<taken, calls>>

Next ==
  \/ \E S \in SUBSET Jobs : Take(S)
  \/ \E j \in Jobs : Schedule(j) \/ Call(j) \/ Delete(j)
  \/ \E j \in Jobs, s \in Settled : Settle(j, s)

Spec == Init /\ [][Next]_vars
=============================================================================
