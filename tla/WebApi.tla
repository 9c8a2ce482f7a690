------------------------------- MODULE WebApi -------------------------------
(***************************************************************************)
(* The requests of the web application (src/apps/web/src/lib): every page  *)
(* talks to the API through useApi().call, which adds the credentials and  *)
(* hands over to apiFetch.  A call is in flight in a slot of a table; any  *)
(* number of calls are in flight together and are answered in any order.   *)
(*                                                                         *)
(*   sent ---- the server works on it ----> done ----> its handler runs    *)
(*     \----- refused, or never arrived -> failed -/                       *)
(*                                                                         *)
(* The setState of an unmounted component does nothing, so that its calls  *)
(* are forgotten; a write of theirs that the server has yet to do is one   *)
(* more change made elsewhere.                                             *)
(***************************************************************************)
EXTENDS Naturals, FiniteSets

CONSTANTS
    Nil,        \* null, undefined: the absence of a value
    MaxCalls    \* bound: calls in flight at one time

ASSUME MaxCallsAssumption == MaxCalls \in Nat \ {0}

Slots == 1 .. MaxCalls

\* The endpoints the pages use that only read, and those that change a row.
Reads  == { "jobs.list", "jobs.executions", "keys.list", "smtp.get",
            "dashboard.stats", "auth.me" }
Writes == { "jobs.create", "jobs.delete", "keys.create", "keys.delete",
            "smtp.upsert", "smtp.delete", "email.send", "email.send_otp",
            "email.verify_otp", "auth.signin", "auth.signup", "auth.signout" }
Endpoints == Reads \cup Writes

ASSUME NilAssumption == Nil \notin Endpoints

IdleCall == [ kind |-> Nil, arg |-> Nil, st |-> "idle", data |-> Nil ]

\* A call table with room, and the table after one more call was made.
CanCall(calls) == \E i \in Slots : calls[i].st = "idle"

call(calls, kind, arg) ==
    LET i == CHOOSE k \in Slots : calls[k].st = "idle"
    IN  [ calls EXCEPT ![i] = [ kind |-> kind, arg |-> arg, st |-> "sent",
                                data |-> Nil ] ]

\* What apiFetch makes of an answer: the data of a 2xx, an exception otherwise.
Resolve(calls, i, data) == [ calls EXCEPT ![i].st = "done", ![i].data = data ]
Throw(calls, i)         == [ calls EXCEPT ![i].st = "failed", ![i].data = Nil ]

\* The code behind the await runs, and the slot is free again.
Settle(calls, i) == [ calls EXCEPT ![i] = IdleCall ]

\* The component is unmounted: nothing it awaits has a consequence any more.
NoCalls == [ i \in Slots |-> IdleCall ]

InFlight(calls, kind) == { i \in Slots : calls[i].kind = kind }
Pending(calls, kind)  == InFlight(calls, kind) # {}
=============================================================================
