# A verification of LifyGo in TLA+

LifyGo (`src/`) is a transactional e-mail, one-time-passcode and job-scheduling
service: a Go API (`apps/api`), a Lambda worker (`apps/worker`) and a Next.js
dashboard (`apps/web`). PostgreSQL holds the durable state, Redis the passcodes
and counters. This directory holds TLA+ models of its concurrent core on the
server and of the dashboard in the browser, the TLC configurations that check
them, and machine-checked proofs of every safety property the passing runs
check.

Paths below are relative to `src/apps/api/internal/`, and those that begin with
`web:` to `src/apps/web/src/`.

## The system

| Component | State | Operations | Hard part | What makes it correct |
|---|---|---|---|---|
| Self-hosted scheduler (`service/scheduler.go`, `repository/job.go`) | `jobs`, `job_executions`; one goroutine per claimed job, in every API process | `tick` claims due rows, `executeJob` calls and writes the outcome | instances tick at once; a process exits between claim and call; the two writes fail separately; a late goroutine reads a later clock | one claim per due time, and at most one call per claim; status and history tell the truth; a due job is taken up |
| Job API (`service/job.go`) | rows of `jobs` | `Create`, `Delete`, reads | limits are counted before the insert; the row is deleted under a running job | limits hold; a deleted job stays deleted |
| EventBridge schedules (`service/eventbridge.go`) | schedules in AWS | `CreateSchedule`, `DeleteSchedule`, expression conversion | second system written after the database, errors ignored | schedules follow the rows; the converted expression fires at the same times |
| SQS and worker (`apps/worker`) | messages, running invocations | `handler`, `Execute` | at-least-once delivery; races the scheduler | extra executions are bounded; a settled job is left alone |
| Passcodes (`service/email.go`, `redis/redis.go`) | one Redis key per user and address, daily counter | `SendOTP`, `VerifyOTP` | GET and DEL in a plain pipeline; lost answers and retries; stored before charged and mailed | a code counts once, in its ten minutes; a mailed code works |
| Transactional e-mail (`service/email.go`) | `email_logs`, monthly counter | `Send`, `ListLogs` | configuration read twice; mail, row, answer | what is logged is what happened; quota |
| SMTP configuration (`service/smtp_config.go`) | `smtp_configs` | `Upsert`, `Get`, `Delete`, `GetMailer`, `GetDefaultMailer` | changes under a send | right mailer, right quota |
| SMTP pool (`pkg/mailer/pool.go`) | map from server to connection | `getClient`, `returnClient`, `reap`, `Shutdown` | a connection stays in the map while it is used | one user per session, none leaked |
| Rate limit and counters (`middleware/ratelimit.go`, `service/usage.go`) | Redis counters | increment, expiry | two calls; boundary | limit holds per window |
| API keys (`service/api_key.go`) | `api_keys` | `Create`, `Authenticate`, `Delete` | count, then insert | limit holds |
| Users and sessions (`service/user.go`, `service/auth.go`, `handler/user.go`) | `users` | Clerk webhook, register, login, account deletion | repeated webhooks; cascade under running jobs | idempotent creation; nothing left behind |
| Dashboard statistics (`service/dashboard.go`) | none | `GetDashboardStats` | several queries, a page of 1000 rows | counts agree |
| Web requests (`web:lib/use-api.ts`, `lib/api.ts`) | promises in flight | `call`, `apiFetch` | answered in any order, refused, lost; a 401 ends the session | a write is in doubt only while nobody was told of it |
| Jobs page (`web:app/dashboard/jobs/page.tsx`) | list, form, one open panel, its history | create, delete, show history | the list is read once and kept by hand; one `deleting` id and one `loadingExecutions` id for all rows | list, panels and marks are those of the server and the requests |
| Playground (`web:app/dashboard/send/page.tsx`) | two tabs, their fields and answers | send, send code, verify, Reset | Reset does not wait for a verification | one panel at a time; "verified" is said of the right address |
| API keys page (`web:app/dashboard/api-keys/page.tsx`) | keys, the secret of the new one | create, copy, revoke | every render reads the list again; handlers see the state of an old render | no stale list for good; the secret is there as long as its key |
| E-mail configuration page (`web:app/dashboard/smtp/page.tsx`) | the row as last read or written | load, two saves, remove | nothing waits for the first read; each save replaces the whole row | the page says what the server has |
| Overview (`web:app/dashboard/page.tsx`) | statistics, error | one effect that starts over on every render | reads overtake one another; the API's queries see different states | nothing older replaces newer; tiles and stream add up |
| Session and routing (`web:proxy.ts`, `components/auth-provider*.tsx`, sign-in and sign-up pages) | cookie, user, address, document | sign in, sign up, sign out, redirects, 401 | the proxy does not look into the cookie; other tabs; tokens run out; requests with an old cookie | redirects end; shown user = user of the session |
| Navigation (`web:components/layout/navbar.tsx`, `components/ui/sidebar.tsx`, `app/dashboard/layout.tsx`) | menu, sheet, sidebar, window's width | toggle, follow a link, resize | state that survives navigation and resizing | no menu open where nothing closes it |
| Public pages, unused client services, component library (`web:components`, `web:features`), crypto, validators, configuration, logging | — | — | — | — |

Interactions: an API handler writes PostgreSQL and then calls EventBridge; the
scheduler of every API process polls the same `jobs` table; EventBridge writes
to SQS, whose messages carry only ids, and the worker reads the job from
PostgreSQL and writes the same two tables as the scheduler. `SendOTP`, `Send`
and e-mail jobs share the SMTP configuration and the connection pool. `main`
starts the scheduler whether or not EventBridge is configured.

The browser's pages share no state with one another: each is mounted alone, holds
its own copy of some rows and reaches the API only through `useApi().call`. What
they do share lies outside: the rows, which other tabs and devices change as
well, and the cookie, which the API's answers set and clear, which every request
carries as it was when it was sent, and of whose presence (not value) the proxy
decides whether an address is answered or redirected. A `<Link>` keeps the
document with its provider, its bar or sidebar and its requests; an assignment to
`window.location` fetches a new one.

## Modules

| Module | What it is |
|---|---|
| `OneTimeExecution` | abstract: what the scheduler promises of one-time jobs |
| `JobScheduler` | the self-hosted path; `Abstract` is its refinement mapping |
| `JobSchedulerProofs` | theorems about `JobScheduler` |
| `JobSystem` | extends `JobScheduler` with EventBridge, SQS and the worker |
| `JobSystemProofs` | theorems about `JobSystem`, by the lemmas of `JobSchedulerProofs` |
| `Otp` | passcodes: Redis key, counter, `SendOTP`, `VerifyOTP` |
| `OtpProofs` | theorems about `Otp` |
| `MCJobScheduler`, `MCJobSystem`, `MCOtp` | values of the constants for TLC |
| `WebApi` | the table of requests in flight that the pages' modules extend |
| `JobsPage`, `SendPage`, `ApiKeysPage`, `SmtpPage`, `OverviewPage` | one page each, with the rows it shows |
| `Console` | composes `SendPage`, `SmtpPage` and `OverviewPage` over shared rows |
| `WebSession` | proxy, cookie, provider and forms of one browser tab |
| `SiteChrome` | navigation bar, sidebar and the window's width |
| `WebShell` | composes `WebSession` and `SiteChrome`: which links there are, where they lead, what survives |
| `JobsPageProofs`, `SendPageProofs`, `ApiKeysPageProofs`, `ConsoleProofs`, `WebShellProofs` | theorems about the module of that name; `ConsoleProofs` has those about `SmtpPage` and `OverviewPage`, `WebShellProofs` those about `WebSession` and `SiteChrome` |

### JobScheduler

State: `status`, `runAt`, `lastRun` are the columns of `jobs` (a row that is not
there yet is "absent", one that is gone "deleted"; ids are UUIDs and never come
back); `executions` the rows of `job_executions`; `runs` the `executeJob`
goroutines with their program counter; `minute` the clock; `fires` is history:
the calls made for a job, each with the minute of the claim it is due to and the
minute that was found due.

| Action | Code |
|---|---|
| `Tick`, `ListActiveDue` | `tick`: one `UPDATE ... FOR UPDATE SKIP LOCKED`, one goroutine per row |
| `TickLosesAnswer` | the same UPDATE committed, its answer lost or not scanned |
| `CheckDue` | `isCronDue`, which reads the clock when the goroutine runs |
| `Fire`, `CannotFire` | `executeWebhook`, `executeEmail` |
| `Log`, `LogFails`, `Mark`, `MarkFails` | `CreateExecution`, `UpdateStatus`, and their errors, which are logged and swallowed |
| `Create`, `Delete` | the API; deletion cascades to the execution rows |
| `Crash`, `Restart` | process exit (`main` waits for no goroutine) and start |

What is abstracted: time is counted in minutes, on one clock for hosts and
database; a cron expression is the set of minutes it matches; the claiming
UPDATE takes effect within one minute; `enabled` is always TRUE and "paused" is
never written (no code changes either); job types, payloads and the error
texts are left out; the limits in `Create` are not here. SKIP LOCKED may pass
over a row while an insert of its execution or its status write is in flight
(`MaybeLocked`; in `JobSystem` the worker's as well, `MaybeLockedBySome`).
Executions of one job in one minute with the same outcome are one row.

### JobSystem

Adds `calls` (API handlers between their database write and their EventBridge
call), `rules` (schedules), `queue`, `received`, `lambdas` (worker executions).
The worker's steps are those of `Execute`: `GetJob`, the call, `LogExecution`,
`MarkJob`, each with its failure; `HandlerReturns` stands for the deletion of
the message after the batch. `Redeliver` is SQS making a message visible twice
or the invocation dying. A cron schedule fires once in each matching minute.

### Otp

One user and one address, so one Redis key and one daily counter. A request
comes in (`SendBegins`, `VerifyBegins`; `MaxRequests` in all) and then `SendOTP` is
four steps: `Store` (SET with TTL), `Charge` or `NoCharge` (counter), `Mail`,
`Log`; `VerifyOTP` is two: `Get` and `GetAndDelete` (the DEL and the answer). Each has its
failures: `...LosesAnswer`, `ChargeFails` and a branch of `SetAndWait` take effect
without an answer, `SendFails` and `VerifyFails` stop without effect, which also
stands for a process exit.
`Retry` is the Redis client, which repeats a command after a network error:
the SET (`StoreAgain`, with the same code), the INCR (`ChargeLosesAnswer`, which
counts the request once more, on the day of its key) and the pipeline.
`hasSMTP` is not a variable: the configuration may change at any time and its
read may fail, so both branches are always open. Values of the key carry an
`id`, so that two equal codes are told apart, which a repeated SET keeps, and the
number of their `set`, which it does not. A code may be mailed, and the
sender report failure, or the other way round: "mailed" is read as "may have
been mailed".

### The pages

`ui` is the state of the React component, one field per `useState`; a closed
page is `Closed`, and opening it starts from `Fresh`. `calls` is `WebApi`'s
table. A user's action is guarded by the control that offers it being shown and
enabled, as the render code has it (`CreateEnabled`, `DeleteEnabled`,
`CanSaveSmtp`, `VerifyCode`...), and runs the handler up to its first `await`; a
`Serve...` action is the server taking effect and its answer leaving, `Refuse` an
answer that is not 2xx, `LoseAnswer` a request that took effect and whose answer
never came; a `Take...` action is the handler from the `await` on, with its
`catch` and `finally`. `...Elsewhere` is another tab, device or client. `ghost`
holds what the page cannot know, and is read by the properties alone.

| Module | Actions | Code |
|---|---|---|
| `JobsPage` | `handleCreate`, `handleDelete`, `toggleExecutions`, `TakeList`, `TakeCreate`, `TakeDelete`, `TakeExecutions`, `JobRuns` | the handlers of the same name; the effect that reads the list; executions logged on the server |
| `SendPage` | `handleSendEmail`, `handleSendOtp`, `handleVerifyOtp`, `Reset`, `...Answered` | the handlers and their continuations; the server is anything that answers or refuses. Calls are numbered, so that a second one of the same kind and address is another call |
| `ApiKeysPage` | `Render`, `handleCreate`, `handleDelete`, copying and its two-second timer | `Render` runs the effect, whose dependency is new each time; a delete carries the `newKey` of the render it was pressed in |
| `SmtpPage` | both saves, removal, `TakeGet`, `TakeUpsert`, `TakeDelete` | a row is "none", "from" (address only) or "own" (own server) |
| `OverviewPage` | `Render`, `CountEmails`, `ListFailures`, `ReadTables`, `TakeStats`, `Logged` | the effect with its `cancelled` flag; the queries of `GetDashboardStats` one by one, with rows logged in between |
| `WebSession` | `GoTo`, `Redirected`, `LoadDocument`, `FollowLink`, the forms, `signOut`, `TakeMe`, `TakeStats`, `TakeSignIn`, `TakeSignOut`, `OtherTab...`, `TokensRunOut` | `middleware` is `proxy.ts` for both providers; `SetCookie`, `Judgements` and `Answers` are `handler/auth.go` and the session middleware, which takes a good token for invalid when the lookup of its user fails (`service/auth.go:155`) and then clears the cookie (`middleware/clerk_auth.go:52`) |
| `SiteChrome` | `Resize`, `handleResize`, `ToggleMenu`, `toggleSidebar`, `Show`, `ShowFromMenu` ... | the event comes later than the resizing; `Show` unmounts and keeps |

In `OverviewPage` a row of the log is named by its place, which stands for its
timestamp, so that an answer is a set of places: the API's lists are ordered by
time, and the page sorts what it has merged by time again. A count of API keys finds any number up to `MaxKeys`, since keys are
created and revoked elsewhere all the while. In `WebSession` a token is the user
it was signed for, or `Stale`; with Clerk the cookie stands for Clerk's session,
and Clerk's components and SDK are external. The server of `JobsPage` is the list
of rows and their histories; what runs them is the subject of `JobScheduler`.

## Checks

| Run | Instance | Result |
|---|---|---|
| `job_scheduler` | 2 instances, 1 cron and 1 one-time job, minutes 0..1, 1 process exit | 171,516 states; all properties hold |
| `job_scheduler_called` | 1 instance, 1 one-time job, 1 exit, nothing else fails | `DueOneTimeIsCalled` is violated: claim, exit, restart |
| `job_system` | 1 instance, either of 2 jobs, 1 exit, 1 redelivery, EventBridge may fail | 660,334 states; all hold |
| `job_system_once` | 1 job, no fault of any kind | `OneTimeRunsOnce` is violated |
| `job_system_orphan` | 2 instances, 1 cron job, no fault | `NoOrphanedRule` is violated |
| `otp` | 3 sends and 2 verifications of which 3 come in, 2 codes, expiry, 1 client retry, limit 2 | 3.3 million states up to symmetry; all hold |
| `otp_single_use` | 1 send, 2 verifications | `CodeIsUsedOnce` is violated |
| `otp_limit` | 3 sends, limit 2 | `RefusedOnlyWhenUsedUp` is violated |
| `jobs_page` | 2 jobs, 1 execution each, 2 requests in flight | 936,475 states; all hold |
| `api_keys` | 2 keys, 1 error text, 2 requests in flight | 355,449 states; all hold |
| `console` | 2 addresses, 2 requests in flight, a log of 3 rows of which 2 are searched and 1 of each kind shown | 775,617 states; all hold |
| `web_shell` | 2 users, both providers, 2 hosts, 6 paths | 641,964 states; all hold |

**The scheduler.** `ClaimsAreExclusive`, `OneTimeFiresAtMostOnce` and
`CronClaimCallsOnce` say that the claim works: no two instances get a
row for the same due time, and a claim leads to one call at most, for a minute
that is due. A cron job can be called twice for one minute all the same: by its
own claim, and by one of the minute before whose goroutine reads the clock late.
`SettledStatusIsTrue`, `HistoryIsTrue` and
`SettledIsFinal` say that what the user reads is what happened, although the
writes are two, unguarded, and may fail. `DueOneTimeIsClaimed` and
`DueOneTimeSettlesOrStrands` are the liveness; `StrandedIsForever` says what the
price of at-most-once is: a job whose goroutine was lost is never run again.
The converse of `HistoryIsTrue`, that each call has its row, is false: a crash,
a failed insert or the job's deletion leaves a call without one.

**Both paths.** With EventBridge, at-most-once is gone: `CallsAreAccountedFor`
bounds the executions in all by the minutes claimed and the messages received,
`QuietIsForever` says that a settled job is left alone for good however late
messages and schedules are, `CompletedWasCalled` that "completed" is never
written for a job nobody called, and `DueJobsSettleOrAreAbandoned` that the
worker makes good what the scheduler lost.

**Passcodes.** `AnsweredCodeIsGone`: a code that was judged, right or wrong, is
compared with no later request. The exception is a code that was read between a
SET and the client's repetition of it (`early`): the repetition puts it back, and
it is compared again. `VerifiedInTime`, `MailedCodeIsUsable`: a mailed
code can be used, and only in its ten minutes, unless a later SET replaced it,
be it that of a request which is refused afterwards, or a verification took it,
be it one of an older code whose DEL came late. `WithinDailyLimit`: of three
requests that race for an allowance of two, no more than the limit lets through
are let through, also when an INCR is repeated. `SuccessIsLogged`: no success
without its row.

**Jobs page.** `ListIsAccountedFor`: a list that is read once and then prepended to
and filtered stays the server's list, whatever the order of answers - but for a
job created before the first list was answered (`ghost.early`) and changes made
elsewhere or not answered (`ghost.unseen`). `BusyMeansCalls`: with one mark for all
rows, a mark that is shown still stands for a request of that row.
`PanelsTellTheTruth`: a late history is never shown under another job. The
converse of the marks is false: the end of one delete clears the mark of another.

**Keys page.** `StaleListIsNoticed` is why the endless reading is at least not
wrong: it ends in the true list or in a visible error.
`SecretIsShownWhileValid`: the one copy of the secret survives all renders,
except when its create and a delete overlap: the delete's handler compares with
an old `newKey`.

**Console.** The playground: `BusyMeansCalls` (one request of a kind at most, for
which its control is busy; a second press would be a second call),
`VerifiedIsForThisSend`, `PanelsAgree` - the exception is an answer that a Reset overtook (`stray`), which is shown next
to a new code. `SmtpPageIsTrue`: banner, sections and the last success message
agree with the row, unless a button was pressed before the first read came
back. `StatsNeverGoBack`: the `cancelled` flag does keep overtaken reads out.
`SentIsAccountedFor`: "Emails Sent" is a difference of two queries at two times,
too low by the failures in between, exact otherwise, as long as there are no
more e-mails than the second query looks at. `StreamIsComplete`: merging two lists cut
at five loses nothing that is newer than what it shows.

**Session.** `RoutingSettles`: the proxy's rules, in which a cookie leads away from
the sign-in page and a 401 back to it, never chase each other for ever.
`BadSessionLeadsToSignIn`: an overview does not stay on a dead session.
`ShownUserIsSessionUser`, `SessionIsAsLeft`: the user in the menu is the one the
cookie is for, and this tab's last sign-in or sign-out is what counts, up to the
excuses they name (another tab; a sign-out the API refused, which is not looked
at; a late 401 to an older cookie). A failed lookup of the user signs a good
session out as well: from then on nobody is expected to be signed in
(`Remembered`). `PanelsFitTheWindow`: no menu of a small
window is left open on a wide one, and the sheet is where the sidebar is not; a
link may leave the menu open on a small one.

**Spinners.** `SpinnersStop`, on the jobs page and in the playground: whatever fails,
every busy mark is down again and again.

**Where code and documents part** (`findings` in `PROJECT.json`): a one-time job
need not be called (process exit after the claim) and can be called twice (scheduler and
worker); a delete can overtake its creation's EventBridge call and orphan the
schedule; GET and DEL are not atomic, so one code can be verified twice; the
fiftieth passcode of the day is refused.

### Bounds

Two instances show every race of two ticks; a third adds nothing a row lock
does not already decide. One job of each kind is enough because jobs share no
state but the tick, which claims any subset of them. Minutes 0 and 1 contain a
claim and its late evaluation in the next minute, before, at and after
`run_at`. One exit is the loss of any goroutine; a second only repeats it. In
`Otp`, three sends can race for an allowance of two, two give replacement, two
verifications the GET/DEL race, and `Ttl = 1` an expiry between any two steps;
three requests in all (`MaxRequests`) can be any mixture of these.

In the browser, two requests in flight (`MaxCalls`) already overtake each other, and
every race named above is between two; in the playground the bound is on the
requests of each kind, of which there could be two if its buttons did not keep
the second from being sent. Two jobs or keys are a row and another one;
`MaxRuns = 1` a history that has and has not grown. `Recent < LogLimit < MaxLog`
lets rows drop out of the stream and then out of the count. In `WebShell` the
form and the sign-out have one request under way each, another tab acts once
per document, typed addresses are three bookmarks, and the chrome rests once
the next document was asked for (its state is lost with the document). Each
other-tab action changes the cookie to any of its values, so a second one shows
no new cookie. The second path under `/dashboard` stands for the other pages of
the console, and `/security` for the public pages other than the root.

### Fairness

`FairSpec` and `FairSystemSpec` assume weak fairness only: the clock goes on up
to its bound; a process that exited is started again by its supervisor; the
ticker of a live process fires (`Start` ticks at once and then each minute);
a goroutine goes on (the webhook client gives up after 30 s, database calls
after 10 s; that an SMTP server answers or hangs up is an assumption: the
mailer sets no deadline after dialling); EventBridge, SQS and Lambda make
progress. `Otp` has no liveness property.

In the browser: a request that was sent is answered or fails in the end (the
browser gives up on a dead connection), and its continuation runs; React renders
after a state change (`Render`); the browser goes on with an address it was asked
for, redirect by redirect. Nothing is assumed of the user, of other tabs or of
the order of answers. `SmtpPage` and `SiteChrome` have no liveness property.

## Proofs

All proofs are for every value of the constants that the named assumptions
admit: any number of instances, jobs, requests in flight, keys, users, rows, and
every bound of the clock. Each `Spec => []Inv` follows from an inductive
invariant, whose preservation is proved action by action (`JobScheduler`'s is
checked by its run as well).

### The scheduler

`JobSchedulerProofs`: `TypeCorrect`, `InductiveInvariant`, `ClaimsExclusive`,
`AtMostOnce`, `StatusTrue`, `SettledFinal`, `StrandedStays`, `Counting`,
`CronClaimOnce`, `HistoryTrue` and `Refinement`, from `OneTimeAssumption`,
`CronAssumption` and `BoundsAssumption`.

None of the safety invariants is inductive alone: that a one-time job fires once
depends on there being one goroutine, and that on `last_run_at` having been
NULL when the row was claimed. `IInv` adds what is missing. `LastRunIsPast` and
`RunsAreClaimed`: a goroutine's claim left its minute in `lastRun`, which is
never ahead of the clock, so a cron row that is due has no goroutine of this
minute. `OneTimeProgress`: an unclaimed one-time job has no call, no row and no
final status; and its only goroutine (`OnlyRun`) holds the only claim, so what
it has still to do nobody has done. `SettledFinal` and `StrandedStays` follow from
`IInv` for the step, and `Refinement` maps `taken` to `lastRun # NULL`, `calls` to
the number of calls, and every step to an abstract step or a stutter.

`CronClaimOnce` follows the claims of a cron job (`CronProgress`): the calls made
are due to claims of distinct minutes, none after `last_run_at`, and a goroutine
that may still call has the claim of none of them; the claim of a row that is due
is newer than all.

`Counting`, and `HistoryTrue` from it, count. `CallsAreClaimed`: the calls made, and
the goroutines that may still make one, are no more than the minutes claimed, of
which there is one per minute of the clock. `SuccessesAreCalls`: the rows that say
"success", and the goroutines that may still write one, are no more than the
calls. Each step moves one unit from one term to the next (`CardSwap`).

### Both paths

`JobSystemProofs`: `SystemInvariant`, `CallsAccounted`, `CompletedCalled`,
`QuietStays`, from the assumptions above and `SystemAssumption`.
`CallsHaveACause` is `CallsAreClaimed` for two executors: a received message pays
for a worker execution as a claim does for a goroutine. `OneTimeProgress` is
false here, since the worker runs what the scheduler has claimed; what remains
is that whoever remembers a success has made the call (`SuccessWasCalled`).

### Passcodes

`OtpProofs`: `AnsweredGone`, `VerifiedTimely`, `MailedUsable`, `DailyLimit`,
`SuccessLogged`, from `OtpAssumption`. `KeyInv` and `ReadInv`: the values of the key
are numbered in the order of their stores, and whatever is stored or was read
is older than the next one, so a value that is gone comes back only by the
client's repetition of its SET. `RepeatInv`: as long as one is to come, every
verification that has read the code was early. `StoredInv`
follows the code from the key to the mail. `LimitInv`: the counter is never
behind the requests that it has let through, since a request is charged at least
once before it is judged, and judged once (`ChargeInv`), by a count that is
ahead of those let through before; that the charge falls on a day that has a
counter (`CounterExists`) needs a lemma about integer division (`DivMonotonic`).

### The pages

`SendPageProofs`, for every set of addresses and any number of calls: `TypeCorrect`,
`OneRequestOfAKind`, `VerifiedIsTrue`, `OnePanelAtATime`. A request is one more call
(`OneMoreCall`), whatever is in flight; that it is the only one of its kind follows
from the control that was not busy when it was pressed. Its `IInv` adds `ScreenInv`: a request in flight
finds the panel it will fill empty, and a verification that no Reset overtook
finds the screen as it left it; without that, an answer could meet a panel that
says the opposite.

`ConsoleProofs` carries three of them over to the console
(`ConsoleOneRequestOfAKind`, `ConsoleVerifiedIsTrue`, `ConsoleOnePanelAtATime`): every step
of the console is a step of the playground or leaves its variables alone, so
its invariant is one of the console, whatever the other pages and the rest of
the world do. About the other two pages:

- `ConsoleSmtpPageIsTrue` (`RowsAssumption`). There is one read and one write at
  most (`SmtpTable`). Before the row has arrived nothing is shown, and the answer
  on its way is the row (`SmtpUnread`); afterwards the page shows the row, or the
  answer to the write that made the difference is on its way (`SmtpRead`). Both
  hold only while no button was pressed too early and nobody else wrote, which is
  what `smtpGhost` remembers.
- `StatsOnlyGrow` (`StatsNeverGoBack`), `SentAddsUp`, `StreamIsWhole`
  (`LimitsAssumption`), from `HomeInv`. Each query of a reading saw the log up to
  some place that is not before the one where the reading began (`StatsOK`), and
  what is added later changes nothing about it (`Grows`). Each render cancels the
  reading before it (`OneReading`), and the reading under way began no earlier
  than the one that is shown (`NoOlderReading`). What is left is about sets of
  places: the newest `n` of them, their number, what a longer log adds. A row that the
  newest `n` leave out has `n` of them after it: that needs a last row, which
  there is because `NatLess` is well-founded.

`ApiKeysPageProofs`: `SecretWhileValid` and `OneCreateAtATime`, from `KeysAssumption`. The
property is about a key on the server and a screen that hears of it from
answers alone, and what the answer to a delete does depends on the `newKey` of
the render it was pressed in. So the invariant says what each delete in flight
remembers (`RememberedInv`), that a create and a delete are not under way
together unnoticed (`OverlapInv`), and that a secret whose key is gone is gone as
well, or the answer that will take it away is on its way (`SecretInv`).

`JobsPageProofs`: `MarksMeanRequests`, `OneCreateAtATime`, `PanelsTrue` and `ListTrue`, from
`MaxCallsAssumption`, `NilAssumption`, `JobsAssumption` and `HistoryAssumption` (null is no
list of executions). The end of a create frees the button, which is right only
if no other create is under way (`OneCreate`), and a new page has no marks,
which is right only because the old one's calls are forgotten (`ClosedInv`).

For `ListTrue` the two lists, the page's and the server's, are compared by
`ListOK`, and a lemma for each thing that can happen to either says what becomes of it
(`ListCreated`, `ListCreateTaken`, `ListDeleted`, `ListDeleteTaken`, `ListElsewhere`...); they
rest on what `filter` and putting in front do to membership, to "once" and to
the order (`WithoutKeeps`, `InFront`; the places that `filter` keeps are numbered by
how many kept ones are not after them, `Numbering`). What the property does not say,
and the induction needs: a job whose create is done and not heard of is not in
the page's list, no delete of it was asked for, and the server has it before all that
the page shows, so that putting it in front is right. Before the list has
arrived the page's list is empty, no create or delete is under way, and the
answer that is on its way is right (`UnreadInv`); afterwards `ListOK` holds
(`ReadInv`). That an id is handed out once is used throughout (`KnownInv`). For `PanelsTrue`, the
histories on their way are the ends of those of their jobs, too (`ShownInv`).

`WebShellProofs`: `ChromeFits` (`PanelsFitTheWindow`), for every set of users, with no
assumption. `IInv` adds that a menu has its bar (`MenuHasBar`): a menu that
outlived its bar would come back with the next one, after the resize event.
`ShownUser` and `SessionLeft`, from `TabAssumption`: the property of the shown
user depends on the request that will change it, and `ReadInv` says that the
provider's read of the user carries the cookie there still is; `LeftOn`, that after
a sign-in no request is on its way that carries a dead token, whose refusal would clear
the new cookie (a failed lookup ends the session and what `LeftOn` says of it); and `ClerkInv`, that Clerk's tokens do not run out under a page.

### Only model-checked

Liveness (`DueOneTimeIsClaimed`, `DueOneTimeSettlesOrStrands`,
`DueJobsSettleOrAreAbandoned`, `SpinnersStop`, `StaleListIsNoticed`, `RoutingSettles`,
`BadSessionLeadsToSignIn`) is out of the prover's reach. Every invariant and every
action property of a passing run is proved.

## Not modelled

- The public pages (hero, carousel, pricing, simulator): their state is which
  slide is shown, on timers of their own, and nothing depends on it.
- `web:features/*/*.service.ts` and the dashboard's widgets beside the pages: nothing
  imports them.
- `web:components/ui`, but for the state of the sidebar: wrappers that pass
  properties and class names through.
- Error and success banners nothing reads, scroll positions, links to other
  sites, and Clerk's own components.
- A 401 outside the overview: `apiFetch` treats every page alike, and `WebSession`
  has the one page that a sign-in leads to.
- The count of active jobs and the names of the newest jobs among the
  statistics.
- Cryptography (out of a model checker's reach), validators, configuration,
  logging.
- On the server, what the roadmap lists.

## Roadmap

In order of weight:

1. `EmailService`: `Send` and the mailer choice against `SMTPConfigService`'s
   `Upsert` and `Delete`, the monthly counter, rows for every call.
2. `SmtpPool`: concurrent senders, reaper and `Shutdown` over one map; an abstract
   pool that lends each session to one sender, to be compared with it.
3. `Limits`: job and API-key limits (count, then insert) under concurrent
   requests, by how much they can be exceeded.
4. `CronConvert`: `convertToAWSCron` as an operator on parsed fields, against the
   times the cron expression matches.
5. `Accounts`: Clerk webhook retries, registration, account deletion and its
   cascade under running jobs; `RateLimit`.
6. Proofs about the modules above as they come; that the two executors together
   implement an abstract specification in which each call names the claim or the
   message it is due to.
