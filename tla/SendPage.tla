------------------------------ MODULE SendPage ------------------------------
(***************************************************************************)
(* The API playground of the dashboard                                     *)
(* (src/apps/web/src/app/dashboard/send/page.tsx): a test e-mail, and a    *)
(* passcode that is sent to an address and then verified.                  *)
(*                                                                         *)
(* A request is answered, refused or lost at any later time; what the      *)
(* server makes of a passcode is the subject of module Otp.  The Reset     *)
(* button does not wait for a verification that is under way, whose answer *)
(* then meets a page that has moved on: the answer has gone astray.        *)
(***************************************************************************)
EXTENDS Naturals, FiniteSets

CONSTANTS
    Addresses,  \* what may be typed as the recipient of a passcode
    Nil,        \* null, or nothing typed
    MaxCalls    \* bound: requests of a kind in flight at one time

VARIABLES
    tab,        \* the tab that is shown
    email,      \* the state of the e-mail tab
    otp,        \* the state of the passcode tab
    calls,      \* the requests in flight; the number tells two of a kind apart
    stray       \* has the verification been overtaken by a Reset?

vars == <<tab, email, otp, calls, stray>>

Kinds == { "send", "sendOtp", "verifyOtp" }

TypeOK ==
    /\ tab \in { "email", "otp" }
    /\ email \in [ complete : BOOLEAN, loading : BOOLEAN,
                   result : BOOLEAN, error : BOOLEAN ]
    /\ otp \in [ to : Addresses \cup {Nil}, code : BOOLEAN,
                 sent : Addresses \cup {Nil}, result : Addresses \cup {Nil},
                 loading : BOOLEAN, verifying : BOOLEAN, error : BOOLEAN ]
    /\ calls \subseteq [ kind : Kinds, to : Addresses \cup {Nil}, nr : 1 .. MaxCalls ]
    /\ stray \in { "no", "flying", "shown" }

\* `complete': recipient, subject and body are typed.  A result is a 2xx answer.
NoEmail == [ complete |-> FALSE, loading |-> FALSE, result |-> FALSE, error |-> FALSE ]

\* `code': six characters are typed.  `sent' and `result' name the address that
\* the answer they hold is about.
NoOtp == [ to |-> Nil, code |-> FALSE, sent |-> Nil, result |-> Nil,
           loading |-> FALSE, verifying |-> FALSE, error |-> FALSE ]

Init ==
    /\ tab = "email"
    /\ email = NoEmail
    /\ otp = NoOtp
    /\ calls = {}
    /\ stray = "no"

-----------------------------------------------------------------------------
(* What the page renders: the controls that are shown and enabled, and the   *)
(* panels under "Response Stream" and "Authentication Status".               *)

EmailInputs  == tab = "email" /\ ~email.loading

\* Mutant: the button stays enabled while its request is in flight.
SendTestEmail_Enabled == tab = "email" /\ email.complete

SendTestEmail == tab = "email" /\ ~email.loading /\ email.complete
AddressInput == tab = "otp" /\ otp.sent = Nil /\ ~otp.loading
SendCode     == tab = "otp" /\ otp.sent = Nil /\ ~otp.loading /\ otp.to # Nil
ResetButton  == tab = "otp" /\ otp.sent # Nil
CodeInput    == tab = "otp" /\ otp.sent # Nil /\ ~otp.verifying /\ otp.result = Nil
VerifyCode   == /\ tab = "otp" /\ otp.sent # Nil
                /\ ~otp.verifying /\ otp.code /\ otp.result = Nil

EmailPanels ==
    { p \in { "error", "sent", "awaiting" } :
        \/ p = "error"    /\ email.error
        \/ p = "sent"     /\ email.result
        \/ p = "awaiting" /\ ~email.result /\ ~email.error }

OtpPanels ==
    { p \in { "error", "sent", "verified", "awaiting" } :
        \/ p = "error"    /\ otp.error
        \/ p = "sent"     /\ otp.sent # Nil /\ otp.result = Nil /\ ~otp.error
        \/ p = "verified" /\ otp.result # Nil
        \/ p = "awaiting" /\ otp.sent = Nil /\ ~otp.error }

-----------------------------------------------------------------------------
(* The user. *)

\* One more request: nothing keeps a second one of its kind from being sent but
\* the control that is disabled in the meantime.
FreeNumbers(kind) ==
    { n \in 1 .. MaxCalls : \A c \in calls : c.kind = kind => c.nr # n }

Request(kind, to) ==
    \E n \in FreeNumbers(kind) :
        /\ \A m \in FreeNumbers(kind) : n <= m
        /\ calls' = calls \cup { [ kind |-> kind, to |-> to, nr |-> n ] }

\* The page is left and opened again: a new component, deaf to the old calls.
Revisit ==
    /\ tab' = "email" /\ email' = NoEmail /\ otp' = NoOtp
    /\ calls' = {} /\ stray' = "no"

SelectTab(t) ==
    /\ tab' = t
    /\ UNCHANGED <<email, otp, calls, stray>>

TypeEmail(complete) ==
    /\ EmailInputs
    /\ email' = [ email EXCEPT !.complete = complete ]
    /\ UNCHANGED <<tab, otp, calls, stray>>

handleSendEmail ==
    /\ SendTestEmail
    /\ email' = [ email EXCEPT !.error = FALSE, !.result = FALSE, !.loading = TRUE ]
    /\ Request("send", Nil)
    /\ UNCHANGED <<tab, otp, stray>>

TypeAddress(a) ==
    /\ AddressInput
    /\ otp' = [ otp EXCEPT !.to = a ]
    /\ UNCHANGED <<tab, email, calls, stray>>

\* What a new request clears from the screen is no longer a stray answer.
Cleared == IF stray = "shown" THEN "no" ELSE stray

handleSendOtp ==
    /\ SendCode
    /\ otp' = [ otp EXCEPT !.error = FALSE, !.sent = Nil, !.result = Nil,
                           !.loading = TRUE ]
    /\ Request("sendOtp", otp.to)
    /\ stray' = Cleared
    /\ UNCHANGED <<tab, email>>

\* Mutant: Reset forgets setOtpResult(null).
Reset_KeepsResult ==
    /\ ResetButton
    /\ otp' = [ otp EXCEPT !.sent = Nil, !.code = FALSE, !.error = FALSE ]
    /\ stray' = IF otp.verifying THEN "flying" ELSE "no"
    /\ UNCHANGED <<tab, email, calls>>

\* Reset keeps the address, and does not wait for a verification.
Reset ==
    /\ ResetButton
    /\ otp' = [ otp EXCEPT !.sent = Nil, !.code = FALSE, !.result = Nil, !.error = FALSE ]
    /\ stray' = IF otp.verifying THEN "flying" ELSE "no"
    /\ UNCHANGED <<tab, email, calls>>

TypeCode(six) ==
    /\ CodeInput
    /\ otp' = [ otp EXCEPT !.code = six ]
    /\ UNCHANGED <<tab, email, calls, stray>>

\* Mutant: the error of the last attempt is left on the screen.
handleVerifyOtp_KeepsError ==
    /\ VerifyCode
    /\ otp' = [ otp EXCEPT !.result = Nil, !.verifying = TRUE ]
    /\ Request("verifyOtp", otp.to)
    /\ stray' = Cleared
    /\ UNCHANGED <<tab, email>>

handleVerifyOtp ==
    /\ VerifyCode
    /\ otp' = [ otp EXCEPT !.error = FALSE, !.result = Nil, !.verifying = TRUE ]
    /\ Request("verifyOtp", otp.to)
    /\ stray' = Cleared
    /\ UNCHANGED <<tab, email>>

-----------------------------------------------------------------------------
(* The answers: `ok' is a 2xx; anything else is thrown, caught and shown. *)

SendEmailAnswered(c, ok) ==
    /\ c \in calls /\ c.kind = "send"
    /\ email' = [ email EXCEPT !.loading = FALSE, !.result = @ \/ ok, !.error = @ \/ ~ok ]
    /\ calls' = calls \ {c}
    /\ UNCHANGED <<tab, otp, stray>>

SendOtpAnswered(c, ok) ==
    /\ c \in calls /\ c.kind = "sendOtp"
    /\ otp' = [ otp EXCEPT !.loading = FALSE,
                           !.sent = IF ok THEN c.to ELSE @, !.error = @ \/ ~ok ]
    /\ calls' = calls \ {c}
    /\ UNCHANGED <<tab, email, stray>>

\* Mutant: no finally block, a rejected code leaves the spinner.
VerifyOtpAnswered_NoFinally(c, ok) ==
    /\ c \in calls /\ c.kind = "verifyOtp"
    /\ otp' = IF ok THEN [ otp EXCEPT !.verifying = FALSE, !.result = c.to ]
                    ELSE [ otp EXCEPT !.error = TRUE ]
    /\ calls' = calls \ {c}
    /\ UNCHANGED <<tab, email, stray>>

VerifyOtpAnswered(c, ok) ==
    /\ c \in calls /\ c.kind = "verifyOtp"
    /\ otp' = [ otp EXCEPT !.verifying = FALSE,
                           !.result = IF ok THEN c.to ELSE @, !.error = @ \/ ~ok ]
    /\ calls' = calls \ {c}
    /\ stray' = IF stray = "flying" THEN "shown" ELSE stray
    /\ UNCHANGED <<tab, email>>

-----------------------------------------------------------------------------
Settle(kind) == \E c \in calls, ok \in BOOLEAN :
    /\ c.kind = kind
    /\ \/ SendEmailAnswered(c, ok)
       \/ SendOtpAnswered(c, ok)
       \/ VerifyOtpAnswered(c, ok)

OnPage ==
    \/ \E t \in { "email", "otp" } : SelectTab(t)
    \/ \E b \in BOOLEAN : TypeEmail(b) \/ TypeCode(b)
    \/ \E a \in Addresses \cup {Nil} : TypeAddress(a)
    \/ handleSendEmail
    \/ handleSendOtp
    \/ handleVerifyOtp
    \/ Reset
    \/ \E k \in Kinds : Settle(k)

Next == Revisit \/ OnPage

\* A request is answered or fails in the end: fetch settles.
Spec == Init /\ [][Next]_vars /\ \A k \in Kinds : WF_vars(Settle(k))

-----------------------------------------------------------------------------
(* Properties *)

\* A spinner stands for one request of its kind: no second one is sent while it
\* is in flight, to the same address or another, whatever is typed, reset and
\* answered in between; and no address changes under a code that is being sent.
BusyMeansCalls ==
    /\ \A c, d \in calls : c.kind = d.kind => c = d
    /\ email.loading <=> \E c \in calls : c.kind = "send"
    /\ otp.loading   <=> \E c \in calls : c.kind = "sendOtp"
    /\ otp.verifying <=> \E c \in calls : c.kind = "verifyOtp"
    /\ \A c \in calls : c.kind = "sendOtp" => otp.to = c.to /\ otp.sent = Nil

\* A code goes with the address it was sent to for as long as it is asked for,
\* and "OTP Verified" is said of that address - unless Reset was pressed
\* between Verify and its answer, which send/page.tsx:88 then shows all the
\* same, next to whatever code has been asked for by then.
VerifiedIsForThisSend ==
    /\ otp.sent # Nil => otp.to = otp.sent
    /\ (otp.result # Nil /\ stray # "shown") => otp.result = otp.sent
    /\ \A c \in calls : (c.kind = "verifyOtp" /\ stray # "flying") => c.to = otp.sent

\* Each tab shows exactly one panel: it never says "sent" and "error", or
\* "verified" and "awaiting", at once - stray answers excepted.
PanelsAgree ==
    /\ Cardinality(EmailPanels) = 1
    /\ stray # "shown" => Cardinality(OtpPanels) = 1

\* Every spinner stops, again and again, whatever fails (the three finally
\* blocks).
SpinnersStop ==
    /\ []<>(~email.loading)
    /\ []<>(~otp.loading)
    /\ []<>(~otp.verifying)
=============================================================================
