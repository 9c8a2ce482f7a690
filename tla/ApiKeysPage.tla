---------------------------- MODULE ApiKeysPage ----------------------------
(***************************************************************************)
(* The API keys page of the dashboard                                      *)
(* (src/apps/web/src/app/dashboard/api-keys/page.tsx) and the user's keys. *)
(*                                                                         *)
(* useApi makes a new `call' on every render, `fetchKeys' depends on it    *)
(* and the effect on `fetchKeys': every render reads the list again, and   *)
(* every list that arrives renders the page again.  Only an error that is  *)
(* already on the screen, which changes nothing, ends such a loop.         *)
(*                                                                         *)
(* A created key's secret is in the answer to its create and nowhere else. *)
(* The page shows it until the key is deleted, which it notices by the     *)
(* newKey that was on the screen when Delete was pressed.                  *)
(***************************************************************************)
EXTENDS WebApi

CONSTANTS
    Keys,       \* the key ids the server can hand out
    Errors      \* the texts an error can have

\* null is no key.
ASSUME KeysAssumption == Nil \notin Keys

VARIABLES
    keys,       \* the server's keys
    made,       \* the key ids handed out so far
    ui,         \* the React state of the page
    calls,      \* the requests in flight
    ghost       \* the last key answered, and what excuses the page about it

server == <<keys, made>>
vars   == <<keys, made, ui, calls, ghost>>

\* `dirty': the state has changed, the next render is due.  `named': a name is
\* typed.
Fresh ==
    [ open |-> TRUE, keys |-> {}, newKey |-> Nil, named |-> FALSE,
      loading |-> FALSE, deleting |-> Nil, error |-> Nil, copied |-> FALSE,
      dirty |-> FALSE ]
Closed == [ Fresh EXCEPT !.open = FALSE ]

NoGhost == [ latest |-> Nil, overlap |-> FALSE, excused |-> FALSE ]

Init ==
    /\ keys = {} /\ made = {}
    /\ ui = Closed
    /\ calls = NoCalls
    /\ ghost = NoGhost

-----------------------------------------------------------------------------
(* What the page renders. *)

SecretShown  == ui.newKey # Nil
CanGenerate  == ~ui.loading /\ ui.named
CanRevoke(k) == k \in ui.keys /\ ui.deleting # k

-----------------------------------------------------------------------------
(* The user. *)

OpenPage ==
    /\ ~ui.open
    /\ ui' = Fresh
    /\ calls' = call(NoCalls, "keys.list", "effect")
    /\ ghost' = NoGhost
    /\ UNCHANGED server

LeavePage ==
    /\ ui.open
    /\ ui' = Closed /\ calls' = NoCalls /\ ghost' = NoGhost
    /\ UNCHANGED server

\* Every key stroke is a render.
TypeName(named) ==
    /\ ui.open /\ ~ui.loading
    /\ ui' = [ ui EXCEPT !.named = named, !.dirty = TRUE ]
    /\ UNCHANGED <<server, calls, ghost>>

handleCreate ==
    /\ ui.open /\ CanGenerate /\ CanCall(calls)
    /\ ui' = [ ui EXCEPT !.error = Nil, !.loading = TRUE, !.copied = FALSE,
                         !.dirty = TRUE ]
    /\ calls' = call(calls, "keys.create", Nil)
    /\ ghost' = [ ghost EXCEPT !.overlap = Pending(calls, "keys.delete") ]
    /\ UNCHANGED server

\* The request remembers the newKey of the render it was made in.
handleDelete(k) ==
    /\ ui.open /\ CanRevoke(k) /\ CanCall(calls)
    /\ ui' = [ ui EXCEPT !.deleting = k, !.dirty = TRUE ]
    /\ calls' = call(calls, "keys.delete", [ id |-> k, newKey |-> ui.newKey ])
    /\ ghost' = [ ghost EXCEPT !.overlap = @ \/ Pending(calls, "keys.create") ]
    /\ UNCHANGED server

\* Pressed again while "Copied" is shown, the button changes nothing here, but
\* takes the word back when the first press would have.
handleCopy ==
    /\ ui.open /\ SecretShown
    /\ ui' = [ ui EXCEPT !.copied = TRUE, !.dirty = @ \/ ~ui.copied ]
    /\ UNCHANGED <<server, calls, ghost>>

\* Two seconds later.
CopiedTimeout ==
    /\ ui.open /\ ui.copied
    /\ ui' = [ ui EXCEPT !.copied = FALSE, !.dirty = TRUE ]
    /\ UNCHANGED <<server, calls, ghost>>

-----------------------------------------------------------------------------
(* React: the render that a state change asks for, with its effect. *)

\* Mutant: the effect runs once, as its sibling's on the jobs page does.
Render_Once ==
    /\ ui.open /\ ui.dirty
    /\ ui' = [ ui EXCEPT !.dirty = FALSE ]
    /\ UNCHANGED <<server, calls, ghost>>

Render ==
    /\ ui.open /\ ui.dirty /\ CanCall(calls)
    /\ ui' = [ ui EXCEPT !.dirty = FALSE ]
    /\ calls' = call(calls, "keys.list", "effect")
    /\ UNCHANGED <<server, ghost>>

-----------------------------------------------------------------------------
(* The server and the network. *)

Sent(i, kind) == calls[i].st = "sent" /\ calls[i].kind = kind

ServeList(i) ==
    /\ Sent(i, "keys.list")
    /\ calls' = Resolve(calls, i, keys)
    /\ UNCHANGED <<server, ui, ghost>>

ServeCreate(i) ==
    /\ Sent(i, "keys.create")
    /\ \E k \in Keys \ made :
          /\ keys' = keys \cup {k} /\ made' = made \cup {k}
          /\ calls' = Resolve(calls, i, {k})
    /\ UNCHANGED <<ui, ghost>>

ServeDelete(i) ==
    /\ Sent(i, "keys.delete") /\ calls[i].arg.id \in keys
    /\ keys' = keys \ {calls[i].arg.id}
    /\ calls' = Resolve(calls, i, {})
    /\ UNCHANGED <<made, ui, ghost>>

Refuse(i) ==
    /\ calls[i].st = "sent"
    /\ calls' = Throw(calls, i)
    /\ UNCHANGED <<server, ui, ghost>>

LoseAnswer(i) ==
    /\ calls[i].st = "done"
    /\ calls' = Throw(calls, i)
    /\ ghost' = [ ghost EXCEPT !.excused = @ \/ (calls[i].kind = "keys.delete"
                                                  /\ calls[i].arg.id = ghost.latest) ]
    /\ UNCHANGED <<server, ui>>

CreateElsewhere(k) ==
    /\ k \notin made
    /\ keys' = keys \cup {k} /\ made' = made \cup {k}
    /\ UNCHANGED <<ui, calls, ghost>>

DeleteElsewhere(k) ==
    /\ k \in keys
    /\ keys' = keys \ {k}
    /\ ghost' = [ ghost EXCEPT !.excused = @ \/ k = ghost.latest,
                               !.overlap = @ \/ Pending(calls, "keys.create") ]
    /\ UNCHANGED <<made, ui, calls>>

-----------------------------------------------------------------------------
(* The code behind the awaits. *)

Answered(i, kind) == calls[i].st \in {"done", "failed"} /\ calls[i].kind = kind
Ok(i) == calls[i].st = "done"

\* setError of the text that is there already changes nothing.
WithError(state, e) ==
    [ state EXCEPT !.error = e, !.dirty = @ \/ state.error # e ]

\* The list that handleCreate awaits also ends its finally block.
TakeList(i) ==
    /\ Answered(i, "keys.list")
    /\ \E e \in Errors :
          LET read == IF Ok(i) THEN [ ui EXCEPT !.keys = calls[i].data, !.dirty = TRUE ]
                      ELSE WithError(ui, e)
          IN  ui' = IF calls[i].arg = "effect" THEN read
                    ELSE [ read EXCEPT !.loading = FALSE, !.dirty = TRUE ]
    /\ calls' = Settle(calls, i)
    /\ UNCHANGED <<server, ghost>>

TakeCreate(i) ==
    /\ Answered(i, "keys.create")
    /\ IF Ok(i)
         THEN \E k \in calls[i].data :
              /\ ui' = [ ui EXCEPT !.newKey = k, !.named = FALSE, !.dirty = TRUE ]
              /\ calls' = call(Settle(calls, i), "keys.list", "create")
              /\ ghost' = [ latest |-> k, overlap |-> FALSE, excused |-> ghost.overlap ]
         ELSE /\ \E e \in Errors :
                    ui' = [ ui EXCEPT !.error = e, !.loading = FALSE, !.dirty = TRUE ]
              /\ calls' = Settle(calls, i)
              /\ ghost' = [ ghost EXCEPT !.excused = @ \/ ghost.overlap, !.overlap = FALSE ]
    /\ UNCHANGED server

\* Mutant: a revoked key's secret is left on the screen.
TakeDelete_KeepsSecret(i) ==
    /\ Answered(i, "keys.delete")
    /\ IF Ok(i)
         THEN ui' = [ ui EXCEPT !.keys = @ \ {calls[i].arg.id}, !.deleting = Nil,
                                !.dirty = TRUE ]
         ELSE \E e \in Errors :
                ui' = [ ui EXCEPT !.error = e, !.deleting = Nil, !.dirty = TRUE ]
    /\ calls' = Settle(calls, i)
    /\ UNCHANGED <<server, ghost>>

TakeDelete(i) ==
    /\ Answered(i, "keys.delete")
    /\ LET c == calls[i].arg
       IN  IF Ok(i)
             THEN ui' = [ ui EXCEPT !.keys = @ \ {c.id}, !.deleting = Nil, !.dirty = TRUE,
                                    !.newKey = IF c.newKey = c.id THEN Nil ELSE @ ]
             ELSE \E e \in Errors :
                    ui' = [ ui EXCEPT !.error = e, !.deleting = Nil, !.dirty = TRUE ]
    /\ calls' = Settle(calls, i)
    /\ UNCHANGED <<server, ghost>>

-----------------------------------------------------------------------------
Serve(i) == ServeList(i) \/ ServeCreate(i) \/ ServeDelete(i) \/ Refuse(i)
Take(i)  == TakeList(i) \/ TakeCreate(i) \/ TakeDelete(i)

Elsewhere == \E k \in Keys : CreateElsewhere(k) \/ DeleteElsewhere(k)

OnPage ==
    \/ \E b \in BOOLEAN : TypeName(b)
    \/ handleCreate
    \/ \E k \in Keys : handleDelete(k)
    \/ handleCopy
    \/ CopiedTimeout
    \/ Render
    \/ \E i \in Slots : Serve(i) \/ LoseAnswer(i) \/ Take(i)

Fairness ==
    /\ WF_vars(Render)
    /\ \A i \in Slots : WF_vars(Serve(i)) /\ WF_vars(Take(i))

Spec == Init /\ [][OpenPage \/ LeavePage \/ OnPage \/ Elsewhere]_vars /\ Fairness

-----------------------------------------------------------------------------
(* Properties *)

\* A list that is not the server's any more does not stay on the screen
\* unnoticed: sooner or later the page shows the true list, or an error.
StaleListIsNoticed ==
    (ui.open /\ ui.keys # keys /\ ui.error = Nil)
      ~> (~ui.open \/ ui.keys = keys \/ ui.error # Nil)

\* The secret of the last created key is on the screen for as long as the key
\* exists - it can be read nowhere else - and not for longer than the answer
\* to its delete takes.  Excused are a create and a delete that were under way
\* together (api-keys/page.tsx:59 compares with the newKey of an old render),
\* a delete whose answer was lost, and one made elsewhere.
SecretIsShownWhileValid ==
    (ghost.latest # Nil /\ ~ghost.excused) =>
    /\ ghost.latest \in keys => ui.newKey = ghost.latest
    /\ ghost.latest \notin keys =>
          \/ ui.newKey = Nil
          \/ \E i \in InFlight(calls, "keys.delete") : calls[i].arg.id = ghost.latest
=============================================================================
