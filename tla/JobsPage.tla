------------------------------ MODULE JobsPage ------------------------------
(***************************************************************************)
(* The scheduled-jobs page of the dashboard                                *)
(* (src/apps/web/src/app/dashboard/jobs/page.tsx) and the rows it shows.   *)
(*                                                                         *)
(* The page reads the list once, when it is opened, and from then on keeps *)
(* it up to date by hand: a created job is put in front, a deleted one is  *)
(* filtered out.  Its requests are answered in any order, requests and     *)
(* answers get lost, jobs are created and deleted elsewhere, and the page  *)
(* is left and opened again while requests are on their way.               *)
(*                                                                         *)
(* The two banners, which handlers set and clear and nothing reads, and    *)
(* the texts in the form are not kept here.                                *)
(***************************************************************************)
EXTENDS WebApi, Sequences, SequencesExt

CONSTANTS
    Jobs,       \* the job ids the server can hand out
    Outcomes,   \* how an execution ends: "success", "failed"
    MaxRuns     \* bound: executions logged per job

ASSUME JobsAssumption == Nil \notin Jobs /\ IsFiniteSet(Jobs) /\ MaxRuns \in Nat

\* null is no history.
ASSUME HistoryAssumption == Nil \notin Seq(Outcomes)

VARIABLES
    rows,       \* the server's jobs, newest first
    used,       \* the job ids handed out so far
    history,    \* [job -> its executions, newest first]
    ui,         \* the React state of the page
    calls,      \* the requests in flight
    ghost       \* what the page cannot know, for the properties only

vars == <<rows, used, history, ui, calls, ghost>>

\* What may be in the form when Create is pressed: two tabs, each with the
\* fields of its own, and the date of a one-time job, which may be missing.
\* (Without a name the button is disabled; what the other fields hold is for
\* the server to accept or to refuse.)
Forms == [ jobType : { "webhook", "email" }, scheduleType : { "cron", "one_time" },
           run_at : { "", "date" } ]
Undated(form) == form.scheduleType = "one_time" /\ form.run_at = ""

Fresh ==
    [ open |-> TRUE, jobs |-> <<>>, loading |-> FALSE, deleting |-> Nil,
      expandedJob |-> Nil, executions |-> [j \in Jobs |-> Nil],
      loadingExecutions |-> Nil ]

Closed == [ Fresh EXCEPT !.open = FALSE ]

NoGhost == [ early |-> FALSE, unseen |-> {}, missed |-> FALSE ]

Init ==
    /\ \E J \in SUBSET Jobs :
          /\ rows \in SetToSeqs(J)
          /\ used = J
    /\ history = [j \in Jobs |-> <<>>]
    /\ ui = Closed
    /\ calls = NoCalls
    /\ ghost = NoGhost

-----------------------------------------------------------------------------
(* What the page renders. *)

Listed(j)  == j \in ToSet(ui.jobs)
HeadingCount == Len(ui.jobs)
ListShown  == IF HeadingCount = 0 THEN "No jobs scheduled" ELSE "table"

CreateEnabled    == ~ui.loading
DeleteEnabled(j) == Listed(j) /\ ui.deleting # j

\* The execution panel of a row; executions[j]?.length === 0 is false of an
\* undefined history, whose panel is a table without rows.
Panel(j) ==
    IF ~Listed(j) \/ ui.expandedJob # j THEN "closed"
    ELSE IF ui.loadingExecutions = j    THEN "Loading history..."
    ELSE IF ui.executions[j] = <<>>     THEN "No executions logged yet."
    ELSE IF ui.executions[j] = Nil      THEN "empty table"
    ELSE "table"

-----------------------------------------------------------------------------
(* The user. *)

\* jobs.filter((j) => j.id !== id): the others, in their order.
Without(jobs, id) ==
    LET kept == { n \in DOMAIN jobs : jobs[n] # id }
        nth(m) == CHOOSE n \in kept : Cardinality({ k \in kept : k <= n }) = m
    IN  [ m \in 1 .. Cardinality(kept) |-> jobs[nth(m)] ]

\* The page is mounted: its effect reads the list, once.
OpenPage ==
    /\ ~ui.open /\ CanCall(calls)
    /\ ui' = Fresh
    /\ calls' = call(calls, "jobs.list", Nil)
    /\ UNCHANGED <<rows, used, history, ghost>>

\* The page is left: `cancelled' is set, every later setState is void.  What
\* the server has yet to do of its requests becomes part of Elsewhere.
LeavePage ==
    /\ ui.open
    /\ ui' = Closed
    /\ calls' = NoCalls
    /\ ghost' = NoGhost
    /\ UNCHANGED <<rows, used, history>>

toggleExecutions(j) ==
    /\ ui.open /\ Listed(j)
    /\ IF ui.expandedJob = j
         THEN /\ ui' = [ ui EXCEPT !.expandedJob = Nil ]
              /\ UNCHANGED calls
         ELSE IF ui.executions[j] # Nil
         THEN /\ ui' = [ ui EXCEPT !.expandedJob = j ]
              /\ UNCHANGED calls
         ELSE /\ CanCall(calls)
              /\ ui' = [ ui EXCEPT !.expandedJob = j, !.loadingExecutions = j ]
              /\ calls' = call(calls, "jobs.executions", j)
    /\ ghost' = [ ghost EXCEPT !.missed = FALSE ]
    /\ UNCHANGED <<rows, used, history>>

\* Mutant: no finally block, the exception leaves the button disabled.
handleCreate_Stuck(form) ==
    /\ ui.open /\ CreateEnabled
    /\ ui' = [ ui EXCEPT !.loading = TRUE ]
    /\ IF Undated(form)
         THEN UNCHANGED calls
         ELSE CanCall(calls) /\ calls' = call(calls, "jobs.create", Nil)
    /\ UNCHANGED <<rows, used, history, ghost>>

\* new Date("").toISOString() throws before the request is made; the finally
\* block takes the button back.
handleCreate(form) ==
    /\ ui.open /\ CreateEnabled
    /\ IF Undated(form)
         THEN /\ ui' = [ ui EXCEPT !.loading = FALSE ]
              /\ UNCHANGED <<calls, ghost>>
         ELSE /\ CanCall(calls)
              /\ ui' = [ ui EXCEPT !.loading = TRUE ]
              /\ calls' = call(calls, "jobs.create", Nil)
              /\ ghost' = IF Pending(calls, "jobs.list")
                            THEN [ ghost EXCEPT !.early = TRUE, !.unseen = {} ]
                            ELSE ghost
    /\ UNCHANGED <<rows, used, history>>

\* Only the last delete pressed is remembered as under way.
handleDelete(j) ==
    /\ ui.open /\ DeleteEnabled(j)
    /\ CanCall(calls)
    /\ ui' = [ ui EXCEPT !.deleting = j ]
    /\ calls' = call(calls, "jobs.delete", j)
    /\ UNCHANGED <<rows, used, history, ghost>>

-----------------------------------------------------------------------------
(* The server and the network. *)

\* The page hears of a change only if it made it, or if its list is yet to be
\* read by the server.
Unseen(J) == IF ghost.early THEN ghost ELSE [ ghost EXCEPT !.unseen = @ \cup J ]

Unheard(j) ==
    IF ui.open /\ ~\E i \in InFlight(calls, "jobs.list") : calls[i].st = "sent"
      THEN Unseen({j}) ELSE ghost

ServeList(i) ==
    /\ calls[i].st = "sent" /\ calls[i].kind = "jobs.list"
    /\ calls' = Resolve(calls, i, rows)
    /\ UNCHANGED <<rows, used, history, ui, ghost>>

ServeExecutions(i) ==
    /\ calls[i].st = "sent" /\ calls[i].kind = "jobs.executions"
    /\ calls[i].arg \in ToSet(rows)
    /\ calls' = Resolve(calls, i, history[calls[i].arg])
    /\ UNCHANGED <<rows, used, history, ui, ghost>>

ServeCreate(i) ==
    /\ calls[i].st = "sent" /\ calls[i].kind = "jobs.create"
    /\ \E j \in Jobs \ used :
          /\ rows' = <<j>> \o rows
          /\ used' = used \cup {j}
          /\ calls' = Resolve(calls, i, <<j>>)
    /\ UNCHANGED <<history, ui, ghost>>

ServeDelete(i) ==
    /\ calls[i].st = "sent" /\ calls[i].kind = "jobs.delete"
    /\ calls[i].arg \in ToSet(rows)
    /\ rows' = Without(rows, calls[i].arg)
    /\ history' = [ history EXCEPT ![calls[i].arg] = <<>> ]
    /\ calls' = Resolve(calls, i, <<>>)
    /\ UNCHANGED <<used, ui, ghost>>

\* Refused (validation, a limit, 404 for a job that is gone), or never arrived.
Refuse(i) ==
    /\ calls[i].st = "sent"
    /\ calls' = Throw(calls, i)
    /\ UNCHANGED <<rows, used, history, ui, ghost>>

\* The server did it; its answer does not arrive.
LoseAnswer(i) ==
    /\ calls[i].st = "done"
    /\ calls' = Throw(calls, i)
    /\ ghost' = CASE calls[i].kind = "jobs.create" ->
                            Unseen(ToSet(calls[i].data))
                       [] calls[i].kind = "jobs.delete" ->
                            Unseen({calls[i].arg})
                       [] OTHER -> ghost
    /\ UNCHANGED <<rows, used, history, ui>>

\* Another tab, another device, an API key of the same user.
CreateElsewhere(j) ==
    /\ j \notin used
    /\ rows' = <<j>> \o rows
    /\ used' = used \cup {j}
    /\ ghost' = Unheard(j)
    /\ UNCHANGED <<history, ui, calls>>

DeleteElsewhere(j) ==
    /\ j \in ToSet(rows)
    /\ rows' = Without(rows, j)
    /\ history' = [ history EXCEPT ![j] = <<>> ]
    /\ ghost' = Unheard(j)
    /\ UNCHANGED <<used, ui, calls>>

JobRuns(j, o) ==
    /\ j \in ToSet(rows) /\ Len(history[j]) < MaxRuns
    /\ history' = [ history EXCEPT ![j] = <<o>> \o @ ]
    /\ UNCHANGED <<rows, used, ui, calls, ghost>>

-----------------------------------------------------------------------------
(* The code behind the awaits. *)

Answered(i, kind) == calls[i].st \in {"done", "failed"} /\ calls[i].kind = kind
Ok(i) == calls[i].st = "done"

TakeList(i) ==
    /\ Answered(i, "jobs.list")
    /\ ui' = IF Ok(i) THEN [ ui EXCEPT !.jobs = calls[i].data ] ELSE ui
    /\ ghost' = IF Ok(i) THEN ghost
                ELSE Unseen(ToSet(rows))
    /\ calls' = Settle(calls, i)
    /\ UNCHANGED <<rows, used, history>>

\* Mutants: the history is filed under the panel that is open by now; the
\* spinner is taken back only when the history arrives.
TakeExecutions_OpenPanel(i) ==
    /\ Answered(i, "jobs.executions")
    /\ ui' = [ ui EXCEPT !.loadingExecutions = Nil,
                          !.executions = IF Ok(i) /\ ui.expandedJob # Nil
                                           THEN [@ EXCEPT ![ui.expandedJob] = calls[i].data]
                                           ELSE @ ]
    /\ calls' = Settle(calls, i)
    /\ UNCHANGED <<rows, used, history, ghost>>

TakeExecutions_NoFinally(i) ==
    /\ Answered(i, "jobs.executions")
    /\ ui' = IF Ok(i) THEN [ ui EXCEPT !.loadingExecutions = Nil,
                                       !.executions[calls[i].arg] = calls[i].data ]
                      ELSE ui
    /\ calls' = Settle(calls, i)
    /\ UNCHANGED <<rows, used, history, ghost>>

TakeExecutions(i) ==
    /\ Answered(i, "jobs.executions")
    /\ ui' = [ ui EXCEPT !.loadingExecutions = Nil,
                          !.executions[calls[i].arg] = IF Ok(i) THEN calls[i].data ELSE @ ]
    /\ ghost' = [ ghost EXCEPT !.missed = @ \/ (~Ok(i) /\ ui.expandedJob = calls[i].arg) ]
    /\ calls' = Settle(calls, i)
    /\ UNCHANGED <<rows, used, history>>

TakeCreate(i) ==
    /\ Answered(i, "jobs.create")
    /\ ui' = [ ui EXCEPT !.loading = FALSE,
                          !.jobs = IF Ok(i) THEN calls[i].data \o @ ELSE @ ]
    /\ calls' = Settle(calls, i)
    /\ UNCHANGED <<rows, used, history, ghost>>

\* Mutant: the row is filtered out in the finally block.
TakeDelete_Finally(i) ==
    /\ Answered(i, "jobs.delete")
    /\ ui' = [ ui EXCEPT !.deleting = Nil, !.jobs = Without(@, calls[i].arg) ]
    /\ calls' = Settle(calls, i)
    /\ UNCHANGED <<rows, used, history, ghost>>

TakeDelete(i) ==
    /\ Answered(i, "jobs.delete")
    /\ ui' = [ ui EXCEPT !.deleting = Nil,
                          !.jobs = IF Ok(i) THEN Without(@, calls[i].arg) ELSE @ ]
    /\ calls' = Settle(calls, i)
    /\ UNCHANGED <<rows, used, history, ghost>>

-----------------------------------------------------------------------------
User ==
    \/ OpenPage
    \/ LeavePage
    \/ \E form \in Forms : handleCreate(form)
    \/ \E j \in Jobs : toggleExecutions(j) \/ handleDelete(j)

Elsewhere == \E j \in Jobs :
    \/ CreateElsewhere(j)
    \/ DeleteElsewhere(j)
    \/ \E o \in Outcomes : JobRuns(j, o)

Serve(i) ==
    \/ ServeList(i)
    \/ ServeExecutions(i)
    \/ ServeCreate(i)
    \/ ServeDelete(i)
    \/ Refuse(i)

Take(i) ==
    \/ TakeList(i)
    \/ TakeExecutions(i)
    \/ TakeCreate(i)
    \/ TakeDelete(i)

Next ==
    \/ User
    \/ Elsewhere
    \/ \E i \in Slots : Serve(i) \/ LoseAnswer(i) \/ Take(i)

\* fetch settles in the end, and then the code behind its await runs.
Fairness == \A i \in Slots : WF_vars(Serve(i)) /\ WF_vars(Take(i))

Spec == Init /\ [][Next]_vars /\ Fairness

-----------------------------------------------------------------------------
(* Properties *)

\* One job is listed before another.
Before(jobs, a, b) ==
    \E m, n \in DOMAIN jobs : m < n /\ jobs[m] = a /\ jobs[n] = b

\* The list kept by hand is the server's list: once the list was answered and
\* unless a job was created before that, every job whose changes the page
\* could hear of is listed, once and in the server's order, exactly when the
\* server has it or a delete of it has been done and its answer is on its way;
\* a created job is missing only while the answer to its create is on its way.
ListIsAccountedFor ==
    (ui.open /\ ~Pending(calls, "jobs.list") /\ ~ghost.early) =>
    LET doneOf(kind) == { i \in InFlight(calls, kind) : calls[i].st = "done" }
        created == UNION { ToSet(calls[i].data) : i \in doneOf("jobs.create") }
        deleted == { calls[i].arg : i \in doneOf("jobs.delete") }
        heard(j) == j \notin ghost.unseen
        settled(j) == heard(j) /\ j \notin created \cup deleted
    IN  /\ \A j \in Jobs : heard(j) =>
              /\ j \in ToSet(rows) <=> (Listed(j) /\ j \notin deleted) \/ j \in created
              /\ Cardinality({ n \in DOMAIN ui.jobs : ui.jobs[n] = j }) <= 1
        /\ \A a, b \in Jobs : settled(a) /\ settled(b) =>
              (Before(ui.jobs, a, b) <=> Before(rows, a, b))

\* A busy mark stands for a request that is really under way: the Create
\* button is disabled exactly while a create is in flight, a row's delete
\* spinner and a panel's "Loading history..." only while theirs is.
BusyMeansCalls ==
    ui.open =>
    /\ ui.loading <=> Pending(calls, "jobs.create")
    /\ ui.deleting # Nil =>
          \E i \in InFlight(calls, "jobs.delete") : calls[i].arg = ui.deleting
    /\ ui.loadingExecutions # Nil =>
          \E i \in InFlight(calls, "jobs.executions") : calls[i].arg = ui.loadingExecutions

\* An open panel never shows another job's runs, nor runs that did not happen:
\* what it shows is the history of its own job as it was when it was read.
\* A panel without rows and without "No executions logged yet." is waiting for
\* its answer, or its answer was an error.
PanelsTellTheTruth ==
    ui.open => \A j \in Jobs :
    /\ j \in ToSet(rows) /\ ui.executions[j] # Nil => IsSuffix(ui.executions[j], history[j])
    /\ Panel(j) = "empty table" =>
          \/ ghost.missed
          \/ \E i \in InFlight(calls, "jobs.executions") : calls[i].arg = j

\* No spinner turns for ever, whatever requests are lost: each of them stands
\* still again and again (jobs/page.tsx:148, 161, 91, the three finally blocks).
SpinnersStop ==
    /\ []<>(~ui.loading)
    /\ []<>(ui.deleting = Nil)
    /\ []<>(ui.loadingExecutions = Nil)
=============================================================================
