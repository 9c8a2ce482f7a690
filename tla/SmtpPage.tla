------------------------------ MODULE SmtpPage ------------------------------
(***************************************************************************)
(* The e-mail configuration page of the dashboard                          *)
(* (src/apps/web/src/app/dashboard/smtp/page.tsx) and the user's row of    *)
(* smtp_configs, which is replaced as a whole by every save: saving only   *)
(* the from address takes the user's own SMTP server away again.           *)
(*                                                                         *)
(* The page reads the row once; nothing is disabled until the row arrives, *)
(* and the row then overwrites what has been typed or saved meanwhile.     *)
(***************************************************************************)
EXTENDS WebApi

VARIABLES
    smtp,       \* the server's row
    ui,         \* the React state of the page
    calls,      \* the requests in flight
    ghost       \* has something happened that the page cannot know of?

vars == <<smtp, ui, calls, ghost>>

\* No row; a row with only a from address; one with the user's own server.
Rows == { "none", "from", "own" }

\* `config': null, or the row as it was last read or written ("none" for the
\* empty object the API returns without a row).  `from', `host' and `secret':
\* the from address, the host and the password are typed.
Fresh ==
    [ open |-> TRUE, config |-> Nil, from |-> FALSE, host |-> FALSE,
      secret |-> FALSE, loading |-> FALSE, deleting |-> FALSE, success |-> Nil ]
Closed == [ Fresh EXCEPT !.open = FALSE ]

Init ==
    /\ smtp \in Rows
    /\ ui = Closed
    /\ calls = NoCalls
    /\ ghost = FALSE

-----------------------------------------------------------------------------
(* What the page renders. *)

hasFullSMTP  == ui.config = "own"
Configured   == ui.config \in { "from", "own" }
StatusBanner == IF hasFullSMTP THEN "own server" ELSE "free relay"
SmtpSection  == IF hasFullSMTP THEN "SMTP Server Settings" ELSE "Bring your own SMTP"

Idle         == ~ui.loading /\ ~ui.deleting
CanSaveFrom  == Idle /\ ui.from
\* "Connect SMTP" without, "Save Changes" with a server of one's own.
CanSaveSmtp  == Idle /\ ui.host
\* "Remove" in one section, "Disconnect" in the other.
CanRemove    == Idle /\ Configured

-----------------------------------------------------------------------------
(* The user. *)

OpenPage ==
    /\ ~ui.open
    /\ ui' = Fresh
    /\ calls' = call(NoCalls, "smtp.get", Nil)
    /\ ghost' = FALSE
    /\ UNCHANGED smtp

LeavePage ==
    /\ ui.open
    /\ ui' = Closed /\ calls' = NoCalls /\ ghost' = FALSE
    /\ UNCHANGED smtp

\* The fields are never disabled.
TypeField(field, filled) ==
    /\ ui.open /\ ui[field] # filled
    /\ ui' = [ ui EXCEPT ![field] = filled ]
    /\ UNCHANGED <<smtp, calls, ghost>>

\* What a write under way leaves to be known: it is early if the row that the
\* page was opened for is still being read.
Early == Pending(calls, "smtp.get")

handleSaveFrom ==
    /\ ui.open /\ CanSaveFrom /\ CanCall(calls)
    /\ ui' = [ ui EXCEPT !.success = Nil, !.loading = TRUE ]
    /\ calls' = call(calls, "smtp.upsert", "from")
    /\ ghost' = (ghost \/ Early)
    /\ UNCHANGED smtp

\* from_address: fromAddress || config?.from_address; the server refuses an
\* input without one, and a host without a password.
SmtpInput ==
    IF (ui.from \/ Configured) /\ ui.secret THEN "own" ELSE "invalid"

handleSaveSmtp ==
    /\ ui.open /\ CanSaveSmtp /\ CanCall(calls)
    /\ ui' = [ ui EXCEPT !.success = Nil, !.loading = TRUE ]
    /\ calls' = call(calls, "smtp.upsert", SmtpInput)
    /\ ghost' = (ghost \/ Early)
    /\ UNCHANGED smtp

handleRemove ==
    /\ ui.open /\ CanRemove /\ CanCall(calls)
    /\ ui' = [ ui EXCEPT !.success = Nil, !.deleting = TRUE ]
    /\ calls' = call(calls, "smtp.delete", Nil)
    /\ ghost' = (ghost \/ Early)
    /\ UNCHANGED smtp

-----------------------------------------------------------------------------
(* The server and the network. *)

Sent(i, kind) == calls[i].st = "sent" /\ calls[i].kind = kind

ServeGet(i) ==
    /\ Sent(i, "smtp.get")
    /\ calls' = Resolve(calls, i, smtp)
    /\ UNCHANGED <<smtp, ui, ghost>>

ServeUpsert(i) ==
    /\ Sent(i, "smtp.upsert") /\ calls[i].arg # "invalid"
    /\ smtp' = calls[i].arg
    /\ calls' = Resolve(calls, i, smtp')
    /\ UNCHANGED <<ui, ghost>>

ServeDelete(i) ==
    /\ Sent(i, "smtp.delete") /\ smtp # "none"
    /\ smtp' = "none"
    /\ calls' = Resolve(calls, i, smtp')
    /\ UNCHANGED <<ui, ghost>>

\* Refused (400, or 404 without a row), or never arrived.
Refuse(i) ==
    /\ calls[i].st = "sent"
    /\ calls' = Throw(calls, i)
    /\ UNCHANGED <<smtp, ui, ghost>>

LoseAnswer(i) ==
    /\ calls[i].st = "done"
    /\ calls' = Throw(calls, i)
    /\ ghost' = (ghost \/ calls[i].kind \in Writes)
    /\ UNCHANGED <<smtp, ui>>

ChangeElsewhere(row) ==
    /\ smtp # row
    /\ smtp' = row
    /\ ghost' = (ghost \/ (ui.open /\ ~\E i \in Slots : Sent(i, "smtp.get")))
    /\ UNCHANGED <<ui, calls>>

-----------------------------------------------------------------------------
(* The code behind the awaits. *)

Answered(i, kind) == calls[i].st \in {"done", "failed"} /\ calls[i].kind = kind
Ok(i) == calls[i].st = "done"

\* A failure is taken for "no config yet".
TakeGet(i) ==
    /\ Answered(i, "smtp.get")
    /\ ui' = IF ~Ok(i) THEN ui
             ELSE [ ui EXCEPT !.config = calls[i].data,
                              !.from   = calls[i].data # "none",
                              !.host   = @ \/ calls[i].data = "own",
                              !.secret = @ /\ calls[i].data # "own" ]
    /\ ghost' = (ghost \/ ~Ok(i))
    /\ calls' = Settle(calls, i)
    /\ UNCHANGED smtp

\* The answer is the row that was written.
TakeUpsert(i) ==
    /\ Answered(i, "smtp.upsert")
    /\ ui' = IF ~Ok(i) THEN [ ui EXCEPT !.loading = FALSE ]
             ELSE [ ui EXCEPT !.loading = FALSE, !.config = calls[i].data,
                              !.success = calls[i].data,
                              !.secret = @ /\ calls[i].data # "own" ]
    /\ calls' = Settle(calls, i)
    /\ UNCHANGED <<smtp, ghost>>

\* Mutant: the configuration that was removed is left on the page.
TakeDelete_KeepsConfig(i) ==
    /\ Answered(i, "smtp.delete")
    /\ ui' = IF ~Ok(i) THEN [ ui EXCEPT !.deleting = FALSE ]
             ELSE [ ui EXCEPT !.deleting = FALSE, !.success = "none", !.from = FALSE,
                              !.host = FALSE, !.secret = FALSE ]
    /\ calls' = Settle(calls, i)
    /\ UNCHANGED <<smtp, ghost>>

TakeDelete(i) ==
    /\ Answered(i, "smtp.delete")
    /\ ui' = IF ~Ok(i) THEN [ ui EXCEPT !.deleting = FALSE ]
             ELSE [ ui EXCEPT !.deleting = FALSE, !.config = Nil, !.success = "none",
                              !.from = FALSE, !.host = FALSE, !.secret = FALSE ]
    /\ calls' = Settle(calls, i)
    /\ UNCHANGED <<smtp, ghost>>

-----------------------------------------------------------------------------
Serve(i) == ServeGet(i) \/ ServeUpsert(i) \/ ServeDelete(i) \/ Refuse(i)
Take(i)  == TakeGet(i) \/ TakeUpsert(i) \/ TakeDelete(i)

Elsewhere == \E row \in Rows : ChangeElsewhere(row)

OnPage ==
    \/ \E field \in { "from", "host", "secret" }, b \in BOOLEAN : TypeField(field, b)
    \/ handleSaveFrom
    \/ handleSaveSmtp
    \/ handleRemove
    \/ \E i \in Slots : Serve(i) \/ LoseAnswer(i) \/ Take(i)

Spec == Init /\ [][OpenPage \/ LeavePage \/ OnPage \/ Elsewhere]_vars

-----------------------------------------------------------------------------
(* Properties *)

RowOf(config) == IF config = Nil THEN "none" ELSE config

\* Unless a button was pressed before the row arrived, the row could not be
\* read, the answer to a write was lost or the row was changed elsewhere: what
\* the page says of the configuration - banner, sections, and the message of
\* the last success - is what the server has, or is about to be told.
SmtpPageIsTrue ==
    (ui.open /\ ~Early /\ ~ghost) =>
    /\ \/ RowOf(ui.config) = smtp
       \/ \E i \in Slots : calls[i].st = "done" /\ calls[i].data = smtp
    /\ ui.success # Nil => RowOf(ui.config) = ui.success
    /\ Cardinality({ i \in Slots : calls[i].kind \in Writes }) <= 1
=============================================================================
