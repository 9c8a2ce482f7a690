---------------------------- MODULE OverviewPage ----------------------------
(***************************************************************************)
(* The overview of the dashboard (src/apps/web/src/app/dashboard/page.tsx) *)
(* and the statistics it shows, which the API (service/dashboard.go) reads *)
(* in several queries, between which other requests write.                 *)
(*                                                                         *)
(* The effect that reads the statistics depends on `call', which useApi    *)
(* makes anew on every render: each render cancels the read before it and  *)
(* starts another, and each answer renders the page again.                 *)
(*                                                                         *)
(* `log' is the history of email_logs and job_executions together, oldest  *)
(* first; a place in it stands for a timestamp.  Nothing else in the model *)
(* reads it, so it is chosen when the page is opened; keys come and go     *)
(* elsewhere all the while, so a count of them finds any number.  The      *)
(* count of active jobs and the names of the jobs are left out.            *)
(***************************************************************************)
EXTENDS WebApi, Integers, Sequences

CONSTANTS
    MaxKeys,    \* API keys a user may have
    Errors,     \* the texts an error can have
    MaxLog,     \* bound: rows in the log
    LogLimit,   \* rows among which the failures are counted; 1000 in the code
    Recent      \* rows of each kind in the activity stream; 5 in the code

VARIABLES
    smtp,       \* the server's SMTP row
    log,        \* the e-mails and executions logged so far
    ui,         \* the React state of the page
    calls       \* the requests in flight

server == <<smtp, log>>
vars   == <<smtp, log, ui, calls>>

\* A row: an e-mail that was sent or failed, or the execution of a job.
Statuses == { "sent", "failed", "run" }
Emails   == { "sent", "failed" }

Fresh  == [ open |-> TRUE, stats |-> Nil, error |-> Nil, dirty |-> FALSE ]
Closed == [ Fresh EXCEPT !.open = FALSE ]

-----------------------------------------------------------------------------
(* The queries.  A row is named by its place. *)

\* The rows of some statuses, and the newest n of some rows.
Rows(statuses)  == { k \in 1 .. Len(log) : log[k] \in statuses }
Newest(rows, n) == { k \in rows : Cardinality({ j \in rows : j > k }) < n }
List(statuses, n) == Newest(Rows(statuses), n)

CountByUserID == Cardinality(Rows(Emails))

\* Mutant: the failures in the activity stream are taken for all of them.
failedCount_Recent ==
    Cardinality({ k \in List(Emails, Recent) : log[k] = "failed" })

\* Failures older than the newest LogLimit rows are not seen.
failedCount ==
    Cardinality({ k \in List(Emails, LogLimit) : log[k] = "failed" })

-----------------------------------------------------------------------------
(* What the page renders. *)

Screen ==
    IF ui.error # Nil THEN "Dashboard unavailable"
    ELSE IF ui.stats = Nil THEN "Loading your workspace..."
    ELSE "Overview"

checklist == [ smtp |-> ui.stats.has_smtp_config,
               keys |-> ui.stats.total_api_keys > 0,
               send |-> ui.stats.total_emails_sent > 0 ]
StepsDone == Cardinality({ s \in DOMAIN checklist : checklist[s] })
setupIncomplete == StepsDone < Cardinality(DOMAIN checklist)

\* The tiles; a rate without e-mails is 100 %.
metrics ==
    LET sent  == ui.stats.total_emails_sent
        total == sent + ui.stats.total_emails_failed
    IN  [ sent |-> sent,
          rate |-> IF total > 0 THEN (sent * 100) \div total ELSE 100 ]

\* Mutant: the stream is as long as one of the lists it is made of.
activities_TooShort ==
    Newest(ui.stats.recent_email_logs \cup ui.stats.recent_job_executions, Recent)

\* E-mails and executions, sorted by time, the newest 10 - twice Recent.
activities ==
    Newest(ui.stats.recent_email_logs \cup ui.stats.recent_job_executions, 2 * Recent)

Stream == IF activities = {} THEN "No activity recorded yet" ELSE "table"

-----------------------------------------------------------------------------
OpenPage ==
    /\ ~ui.open
    /\ log' \in UNION { [ 1 .. n -> Statuses ] : n \in 0 .. MaxLog }
    /\ ui' = Fresh
    /\ calls' = call(NoCalls, "dashboard.stats", Nil)
    /\ UNCHANGED smtp

LeavePage ==
    /\ ui.open
    /\ log' = <<>>
    /\ ui' = Closed /\ calls' = NoCalls
    /\ UNCHANGED smtp

\* The context of useLifygoAuth changes: its consumers render again.
ContextChanges ==
    /\ ui.open /\ ~ui.dirty
    /\ ui' = [ ui EXCEPT !.dirty = TRUE ]
    /\ UNCHANGED <<server, calls>>

\* Mutant: the cleanup function, `cancelled = true', is forgotten.
Render_NotCancelled ==
    /\ ui.open /\ ui.dirty /\ CanCall(calls)
    /\ ui' = [ ui EXCEPT !.dirty = FALSE ]
    /\ calls' = call(calls, "dashboard.stats", Nil)
    /\ UNCHANGED server

\* A cancelled call is as good as forgotten.
Render ==
    /\ ui.open /\ ui.dirty
    /\ ui' = [ ui EXCEPT !.dirty = FALSE ]
    /\ calls' = call(NoCalls, "dashboard.stats", Nil)
    /\ UNCHANGED server

-----------------------------------------------------------------------------
(* GetDashboardStats: the count, the failures, the small tables with the     *)
(* newest e-mails, and the newest executions.  `asOf' is for the properties. *)

Reading(i, step) ==
    /\ calls[i].st = "sent"
    /\ IF step = 0 THEN calls[i].data = Nil
                   ELSE calls[i].data # Nil /\ calls[i].data.step = step
    /\ UNCHANGED <<server, ui>>

CountEmails(i) ==
    /\ Reading(i, 0)
    /\ calls' = [ calls EXCEPT ![i].data =
                    [ step |-> 1, asOf |-> Len(log), total |-> CountByUserID ] ]

ListFailures(i) ==
    /\ Reading(i, 1)
    /\ calls' = [ calls EXCEPT ![i].data =
                    [ step |-> 2, asOf |-> @.asOf,
                      total_emails_sent   |-> @.total - failedCount,
                      total_emails_failed |-> failedCount ] ]

ReadTables(i, keys) ==
    /\ Reading(i, 2)
    /\ calls' = [ calls EXCEPT ![i].data =
                    [ step |-> 3, asOf |-> @.asOf,
                      total_emails_sent   |-> @.total_emails_sent,
                      total_emails_failed |-> @.total_emails_failed,
                      total_api_keys      |-> keys,
                      has_smtp_config     |-> smtp # "none",
                      recent_email_logs   |-> List(Emails, Recent),
                      recent_job_executions |-> {} ] ]

ServeStats(i) ==
    /\ Reading(i, 3)
    /\ calls' = Resolve(calls, i, [ calls[i].data EXCEPT
                    !.recent_job_executions = List({ "run" }, Recent) ])

Fail(i) ==
    /\ calls[i].st \in { "sent", "done" }
    /\ calls' = Throw(calls, i)
    /\ UNCHANGED <<server, ui>>

\* The error is never taken back.
TakeStats(i) ==
    /\ calls[i].st \in { "done", "failed" }
    /\ IF calls[i].st = "done"
         THEN ui' = [ ui EXCEPT !.stats = calls[i].data, !.dirty = TRUE ]
         ELSE \E e \in Errors :
                ui' = [ ui EXCEPT !.error = e, !.dirty = @ \/ ui.error # e ]
    /\ calls' = Settle(calls, i)
    /\ UNCHANGED server

-----------------------------------------------------------------------------
(* Elsewhere: an e-mail or an execution is logged. *)

Logged(status) ==
    /\ ui.open /\ Len(log) < MaxLog
    /\ log' = Append(log, status)
    /\ UNCHANGED <<smtp, ui, calls>>

OnPage ==
    \/ ContextChanges
    \/ Render
    \/ \E i \in Slots : \/ CountEmails(i) \/ ListFailures(i)
                        \/ \E n \in 0 .. MaxKeys : ReadTables(i, n)
                        \/ ServeStats(i) \/ Fail(i) \/ TakeStats(i)
    \/ \E s \in Statuses : Logged(s)

-----------------------------------------------------------------------------
(* Properties *)

\* However the answers arrive, an older one does not replace a newer one: the
\* e-mails that the counters add up to can only become more.
StatsNeverGoBack ==
    [][ (ui.stats # Nil /\ ui'.stats # Nil)
          => metrics'.sent + ui'.stats.total_emails_failed
               >= metrics.sent + ui.stats.total_emails_failed ]_vars

\* "Emails Sent" is never too high while the log is within LogLimit, and too low
\* only by the failures that were logged while it was being computed: the count
\* and the failures are read one after the other (service/dashboard.go:49, 76).
\* So the rate is at most 100 %, and the checklist complete only for a user
\* whose e-mail did go out.
SentIsAccountedFor ==
    (ui.open /\ Screen = "Overview" /\ CountByUserID <= LogLimit) =>
    LET before(status) == Cardinality({ k \in 1 .. ui.stats.asOf : log[k] = status })
        since(status)  == Cardinality({ k \in ui.stats.asOf + 1 .. Len(log) :
                                          log[k] = status })
    IN  /\ metrics.sent <= before("sent")
        /\ metrics.sent >= before("sent") - since("failed")
        /\ metrics.rate <= 100
        /\ ~setupIncomplete => before("sent") > 0

\* The activity stream leaves out a row that was there when the reading began
\* only for as many newer ones of its kind as the stream has room for: the two
\* lists are read at two times, put together and cut to ten.  "No activity" is
\* said to those only who had none when the reading began.
StreamIsComplete ==
    (ui.open /\ Screen = "Overview") =>
    /\ Stream = "No activity recorded yet" => ui.stats.asOf = 0
    /\ \A k \in 1 .. ui.stats.asOf :
          \/ k \in activities
          \/ Cardinality({ j \in activities :
                             j > k /\ (log[j] = "run") = (log[k] = "run") }) >= Recent
=============================================================================
