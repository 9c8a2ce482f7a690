----------------------------- MODULE WebSession -----------------------------
(***************************************************************************)
(* One browser tab and the session it lives in: the routing in front of    *)
(* the pages (src/apps/web/src/proxy.ts), the provider that knows the user *)
(* (components/auth-provider*.tsx), the sign-in and sign-up pages, and     *)
(* what a 401 does (lib/api.ts).  Another tab of the same browser signs in *)
(* and out, and the API comes to refuse the tokens it has signed.           *)
(*                                                                         *)
(* A Link changes the page and keeps the document, and with it the         *)
(* provider's state and the requests in flight; window.location and typed  *)
(* addresses fetch a new document, and until it comes the old page is      *)
(* still at work.  A request carries the cookie it was sent with, and its  *)
(* answer sets or clears the one the browser has by then.  A token the API *)
(* does not accept any more, for it was signed with an old secret or has   *)
(* run out, is Stale, whoever it was for.                                  *)
(*                                                                         *)
(* With Clerk the cookie stands for Clerk's own session: signing in and    *)
(* out are its components' and its SDK's business.                         *)
(***************************************************************************)
EXTENDS FiniteSets

CONSTANTS
    Users,      \* the accounts
    Nil,        \* null: no cookie, nobody, no navigation
    Stale,      \* a token the API refuses
    Any         \* no expectation

VARIABLES
    provider,   \* NEXT_PUBLIC_AUTH_PROVIDER
    loc,        \* the address that is shown
    to,         \* the address whose document has been asked for, or Nil
    cookie,     \* the lifygo_token cookie
    auth,       \* the state of the AuthProvider
    form,       \* the state of the sign-in or sign-up form
    error,      \* the error the overview shows
    calls,      \* the requests in flight
    ghost       \* what the properties remember

vars == <<provider, loc, to, cookie, auth, form, error, calls, ghost>>

Hosts   == { "site", "dashboard" }
Private == { "/dashboard", "/dashboard/send" }
Forms   == { "/sign-in", "/sign-up" }
Paths   == { "/", "/security" } \cup Private \cup Forms
Address == [ host : Hosts, path : Paths ]

\* What the cookie can hold: the token of a user, or a stale one.
Tokens == Users \cup {Stale}
Valid(token) == token \in Users

\* null is no token and no address, and a refused token is nobody's.
ASSUME TabAssumption == Nil \notin Tokens \cup Address /\ Stale \notin Users

\* At the root of the dashboard's host the proxy serves /dashboard.
Page(a) == IF a.host = "dashboard" /\ a.path = "/" THEN "/dashboard" ELSE a.path
page    == Page(loc)

-----------------------------------------------------------------------------
(* proxy.ts: the address a request for an address is redirected to, or the   *)
(* same address when it is answered.  The cookie is not looked into.         *)

isProtectedRoute(a) == a.path \in Private
SignInAt(a)         == [ a EXCEPT !.path = "/sign-in" ]

\* Mutant: /dashboard and the root send the browser to each other.
localMiddleware_Loops(a) ==
    IF a.host = "dashboard" /\ a.path = "/" /\ cookie # Nil
      THEN [ a EXCEPT !.path = "/dashboard" ]
    ELSE IF a.host = "dashboard" /\ a.path = "/dashboard" /\ cookie # Nil
      THEN [ a EXCEPT !.path = "/" ]
    ELSE IF isProtectedRoute(a) /\ cookie = Nil THEN SignInAt(a)
    ELSE a

localMiddleware(a) ==
    IF a.host = "dashboard" /\ a.path = "/" /\ cookie = Nil THEN SignInAt(a)
    ELSE IF a.host = "dashboard" /\ a.path = "/dashboard" /\ cookie # Nil
      THEN [ a EXCEPT !.path = "/" ]
    ELSE IF isProtectedRoute(a) /\ cookie = Nil THEN SignInAt(a)
    ELSE a

\* auth.protect() sends a visitor without a session to Clerk's sign-in address.
clerkMw(a) ==
    IF a.host = "dashboard" /\ a.path \in { "/", "/dashboard" }
      THEN IF cookie = Nil THEN SignInAt(a) ELSE [ a EXCEPT !.path = "/" ]
    ELSE IF isProtectedRoute(a) /\ cookie = Nil THEN SignInAt(a)
    ELSE a

middleware(a) == IF provider = "local" THEN localMiddleware(a) ELSE clerkMw(a)

\* A Link's request goes through the proxy too, which is through in two hops.
Reached(a) == middleware(middleware(a))

\* Where signing in leads: the hosted console, or this installation's, which
\* is taken to set NEXT_PUBLIC_CLERK_SIGN_IN_FORCE_REDIRECT_URL: its forms would
\* lead to the hosted console otherwise, whose cookies are not theirs.
DASHBOARD_URL ==
    IF provider = "clerk" THEN [ host |-> "dashboard", path |-> "/" ]
                          ELSE [ loc EXCEPT !.path = "/dashboard" ]

-----------------------------------------------------------------------------
(* The requests.  `mounted': the component that awaits it is still there.    *)

Kinds == { "me", "stats", "submit", "sign-out" }
ProviderCalls == { "me", "sign-out" }   \* no page sends these
Request(kind, token) ==
    [ kind |-> kind, token |-> token, mounted |-> TRUE ]

\* The provider's first effect, and the overview's.
OnLoad(p)  == IF provider = "local" THEN { Request("me", cookie) } ELSE {}
OnMount(p) == IF p = "/dashboard" THEN { Request("stats", cookie) } ELSE {}

Nobody   == [ user |-> Nil, isLoaded |-> FALSE ]
FreshForm == [ loading |-> FALSE, error |-> FALSE ]

\* `moved': another tab, or the API, has changed the session under this
\* document.  `expect': the cookie that the last sign-in or sign-out left.
Init ==
    /\ provider \in { "local", "clerk" }
    /\ loc \in { [ host |-> h, path |-> "/security" ] : h \in Hosts }
    /\ to = Nil
    /\ cookie = Nil
    /\ auth = [ Nobody EXCEPT !.isLoaded = TRUE ]
    /\ form = FreshForm /\ error = Nil
    /\ calls = {}
    /\ ghost = [ moved |-> FALSE, expect |-> Any ]

rigid == <<provider>>

-----------------------------------------------------------------------------
(* Navigation. *)

\* A typed address, a bookmark.  Bound: these, on the host that is shown.
Bookmarks == { "/", "/dashboard", "/sign-in" }

GoTo(p) ==
    /\ to = Nil
    /\ to' = [ loc EXCEPT !.path = p ]
    /\ UNCHANGED <<rigid, loc, cookie, auth, form, error, calls, ghost>>

Redirected ==
    /\ to # Nil /\ middleware(to) # to
    /\ to' = middleware(to)
    /\ UNCHANGED <<rigid, loc, cookie, auth, form, error, calls, ghost>>

\* The new document: the old one's requests are dropped, every state is new.
LoadDocument ==
    /\ to # Nil /\ middleware(to) = to
    /\ loc' = to /\ to' = Nil
    /\ auth' = IF provider = "local" THEN Nobody
               ELSE [ user |-> cookie,
                      isLoaded |-> TRUE ]
    /\ form' = FreshForm /\ error' = Nil
    /\ calls' = OnLoad(Page(to)) \cup OnMount(Page(to))
    /\ ghost' = [ ghost EXCEPT !.moved = FALSE ]
    /\ UNCHANGED <<rigid, cookie>>

\* next/link: the document and its requests stay, the page's component goes.
\* Bound: the overview is left for good, or until its request is answered.
FollowLink(p) ==
    LET there == Reached([ loc EXCEPT !.path = p ])
    IN  /\ to = Nil /\ Page(there) # page
        /\ Page(there) = "/dashboard" => ~\E c \in calls : c.kind = "stats"
        /\ loc' = there
        /\ form' = FreshForm /\ error' = Nil
        /\ calls' = { [ c EXCEPT !.mounted = c.kind \in ProviderCalls ] : c \in calls }
                      \cup OnMount(Page(there))
        /\ UNCHANGED <<rigid, to, cookie, auth, ghost>>

-----------------------------------------------------------------------------
(* The sign-in and sign-up forms. *)

CanSubmit(p) == page = p /\ provider = "local" /\ ~form.loading

\* Bound: one submitted form at a time, also of a form that was left.
handleSubmit(u) ==
    /\ ~\E c \in calls : c.kind = "submit"
    /\ form' = [ loading |-> TRUE, error |-> FALSE ]
    /\ calls' = calls \cup { Request("submit", u) }
    /\ UNCHANGED <<rigid, loc, to, cookie, auth, error, ghost>>

LocalSignInForm(u) == CanSubmit("/sign-in") /\ handleSubmit(u)
LocalSignUpForm(u) == CanSubmit("/sign-up") /\ handleSubmit(u)

\* Clerk's own components, told to go on to DASHBOARD_URL.
ClerkForm(u) ==
    /\ provider = "clerk" /\ cookie = Nil /\ to = Nil
    /\ cookie' = u
    /\ auth' = [ auth EXCEPT !.user = u ]
    /\ to' = DASHBOARD_URL
    /\ ghost' = [ ghost EXCEPT !.expect = cookie' ]
    /\ UNCHANGED <<rigid, loc, form, error, calls>>

ClerkSignIn(u) == page = "/sign-in" /\ ClerkForm(u)
ClerkSignUp(u) == page = "/sign-up" /\ ClerkForm(u)

-----------------------------------------------------------------------------
(* Sign out, in the header and in the user's menu. *)

UserMenuShown == page \in Private /\ (provider = "local" => auth.user # Nil)
SignOutShown  == page \in Private

\* Mutant: the cookie is dropped from JavaScript only, which HttpOnly forbids.
signOut_NoPost ==
    /\ SignOutShown /\ provider = "local"
    /\ auth' = [ auth EXCEPT !.user = Nil ]
    /\ to' = SignInAt(loc)
    /\ ghost' = [ ghost EXCEPT !.expect = Nil ]
    /\ UNCHANGED <<rigid, loc, cookie, form, error, calls>>

\* Bound: one at a time; the button does not stop a second.
signOut ==
    /\ SignOutShown /\ provider = "local"
    /\ ~\E c \in calls : c.kind = "sign-out"
    /\ calls' = calls \cup { Request("sign-out", Nil) }
    /\ UNCHANGED <<rigid, loc, to, cookie, auth, form, error, ghost>>

clerkSignOut ==
    /\ SignOutShown /\ provider = "clerk" /\ cookie # Nil
    /\ cookie' = Nil
    /\ auth' = [ auth EXCEPT !.user = Nil ]
    /\ to' = [ host |-> "site", path |-> "/" ]
    /\ ghost' = [ ghost EXCEPT !.expect = Nil ]
    /\ UNCHANGED <<rigid, loc, form, error, calls>>

-----------------------------------------------------------------------------
(* The API (middleware/clerk_auth.go, handler/auth.go) and the network.      *)

\* What the API makes of a request's token.  It takes a token for invalid, too,
\* when it cannot look up the user or, with Clerk, cannot verify it just now.
Judgements(c) ==
    IF c.kind \in { "submit", "sign-out" } THEN { "ok" }
    ELSE IF c.token = Nil THEN { "missing credentials" }
    ELSE IF Valid(c.token) THEN { "ok", "invalid session" }
    ELSE { "invalid session" }

\* The answers a request can get: that, any other refusal - wrong password, 409,
\* 429, 500 - or none at all.
Answers(c) == { "refused", "lost" } \cup Judgements(c)

\* The cookie after the browser has seen the answer's Set-Cookie; Clerk's is not
\* the API's to clear.
SetCookie(c, answer) ==
    IF answer = "ok" /\ c.kind = "submit" THEN c.token
    ELSE IF answer = "ok" /\ c.kind = "sign-out" THEN Nil
    ELSE IF answer = "invalid session" /\ provider = "local" THEN Nil
    ELSE cookie

\* The session ends here when the lookup of its user failed.
Remembered(c, answer) ==
    IF answer = "invalid session" /\ provider = "local" /\ Valid(c.token)
    THEN [ ghost EXCEPT !.expect = Nil ] ELSE ghost

-----------------------------------------------------------------------------
(* The code behind the awaits. *)

\* fetchUser: whatever goes wrong, there is no user.
TakeMe(c, answer) ==
    /\ c.kind = "me" /\ answer \in Answers(c)
    /\ cookie' = SetCookie(c, answer)
    /\ auth' = [ user |-> IF answer = "ok" THEN c.token ELSE Nil,
                 isLoaded |-> TRUE ]
    /\ calls' = calls \ {c}
    /\ ghost' = Remembered(c, answer)
    /\ UNCHANGED <<rigid, loc, to, form, error>>

Unauthorized(answer) == answer \in { "missing credentials", "invalid session" }

\* Mutant: a request without credentials is not sent to the sign-in page.
apiFetch_InvalidOnly(c, answer) ==
    IF answer = "invalid session" THEN SignInAt(loc) ELSE to

\* apiFetch throws on everything that is not a 2xx, and for these two texts
\* leaves for the sign-in page, whoever is still listening.
apiFetch(c, answer) == IF Unauthorized(answer) THEN SignInAt(loc) ELSE to

\* The overview reads again after each render; see OverviewPage.
TakeStats(c, answer) ==
    /\ c.kind = "stats" /\ answer \in Answers(c)
    /\ cookie' = SetCookie(c, answer)
    /\ to' = apiFetch(c, answer)
    /\ LET text == IF Unauthorized(answer) THEN "session" ELSE "other"
           renders == c.mounted /\ (answer = "ok" \/ error # text)
       IN  /\ error' = IF c.mounted /\ answer # "ok" THEN text ELSE error
           /\ calls' = (calls \ {c}) \cup
                         (IF renders THEN { Request("stats", cookie') } ELSE {})
    /\ ghost' = Remembered(c, answer)
    /\ UNCHANGED <<rigid, loc, auth, form>>

\* Requests that were sent with an older cookie may still clear the new one.
Overtaken(c) == \E d \in calls \ {c} :
    d.kind \in { "me", "stats" } /\ d.token = Stale

\* Mutant: router.push, a new page in the old document.
TakeSignIn_Soft(c, answer) ==
    /\ c.kind = "submit" /\ answer \in Answers(c)
    /\ cookie' = SetCookie(c, answer)
    /\ form' = [ loading |-> FALSE, error |-> answer # "ok" ]
    /\ loc' = IF answer = "ok" THEN [ loc EXCEPT !.path = "/dashboard" ] ELSE loc
    /\ calls' = calls \ {c}
    /\ UNCHANGED <<rigid, to, auth, error, ghost>>

TakeSignIn(c, answer) ==
    /\ c.kind = "submit" /\ answer \in Answers(c)
    /\ cookie' = SetCookie(c, answer)
    /\ to' = IF answer = "ok" THEN DASHBOARD_URL ELSE to
    /\ form' = IF c.mounted THEN [ loading |-> FALSE, error |-> answer # "ok" ] ELSE form
    /\ ghost' = IF answer # "ok" THEN ghost
                ELSE [ ghost EXCEPT !.expect = IF Overtaken(c) \/ ~Valid(c.token) THEN Any ELSE c.token ]
    /\ calls' = calls \ {c}
    /\ UNCHANGED <<rigid, loc, auth, error>>

\* A lost answer throws: nothing happens.  Any other answer, a refusal too,
\* is taken for a sign-out; the script cannot touch the HttpOnly cookie.
TakeSignOut(c, answer) ==
    /\ c.kind = "sign-out" /\ answer \in Answers(c)
    /\ cookie' = SetCookie(c, answer)
    /\ IF answer = "lost" THEN UNCHANGED <<auth, to, ghost>>
       ELSE /\ auth' = [ auth EXCEPT !.user = Nil ]
            /\ to' = SignInAt(loc)
            /\ ghost' = [ ghost EXCEPT !.expect = IF answer = "ok" THEN Nil ELSE Any ]
    /\ calls' = calls \ {c}
    /\ UNCHANGED <<rigid, loc, form, error>>

-----------------------------------------------------------------------------
(* Elsewhere. *)

Moved == ghost' = [ moved |-> TRUE, expect |-> Any ]

\* Bound: another tab acts once while a document is shown.
OtherTabSignsIn(u) ==
    /\ ~ghost.moved /\ cookie' = u
    /\ Moved
    /\ UNCHANGED <<rigid, loc, to, auth, form, error, calls>>

OtherTabSignsOut ==
    /\ ~ghost.moved /\ cookie # Nil /\ cookie' = Nil
    /\ Moved
    /\ UNCHANGED <<rigid, loc, to, auth, form, error, calls>>

\* A request that was served before keeps what it was served with.
TokensRunOut ==
    /\ provider = "local" /\ cookie \in Users
    /\ cookie' = Stale
    /\ \E late \in SUBSET { c \in calls : c.kind # "sign-out" } :
          calls' = (calls \ late) \cup { [ c EXCEPT !.token = Stale ] : c \in late }
    /\ Moved
    /\ UNCHANGED <<rigid, loc, to, auth, form, error>>

-----------------------------------------------------------------------------
Take(c) == \E answer \in Answers(c) :
    \/ TakeMe(c, answer) \/ TakeStats(c, answer)
    \/ TakeSignIn(c, answer) \/ TakeSignOut(c, answer)
Takes(kind) == \E c \in calls : c.kind = kind /\ Take(c)

\* What happens without a change of page or document.
InPlace ==
    \/ \E u \in Users : LocalSignInForm(u) \/ LocalSignUpForm(u)
                       \/ ClerkSignIn(u) \/ ClerkSignUp(u)
    \/ signOut \/ clerkSignOut
    \/ \E k \in Kinds : Takes(k)
    \/ \E u \in Users : OtherTabSignsIn(u)
    \/ OtherTabSignsOut \/ TokensRunOut
    \/ \E p \in Bookmarks : GoTo(p)
    \/ Redirected

-----------------------------------------------------------------------------
(* Properties *)

\* An address that is asked for is answered in the end: the redirects of the
\* proxy never run in circles, whatever happens to the session meanwhile -
\* unless the user keeps submitting the form that was left.
RoutingSettles == []<>(to = Nil \/ form.loading)

\* A session that is over is noticed: an overview that is on the screen without
\* one gives way to another page, shows that it cannot reach the API, or there
\* is a session again.
BadSessionLeadsToSignIn ==
    []<>(page # "/dashboard" \/ Valid(cookie) \/ error = "other")

\* The name in the user's menu is that of the user whose cookie the requests
\* carry - unless the session was changed elsewhere since the document was
\* loaded, or the next document is on its way.
ShownUserIsSessionUser ==
    (UserMenuShown /\ auth.user # Nil /\ ~ghost.moved /\ to = Nil)
      => cookie = auth.user

\* The browser has the cookie that the last sign-in or sign-out of this tab
\* left: what was signed in stays signed in until the API fails to look up the
\* user of a request - any error of GetByID, a database that is away (service/
\* auth.go:155), clears the good cookie (clerk_auth.go:52) - and after that, as
\* after a sign-out, there is no session.  Excused are changes made elsewhere, a
\* sign-out that the API refused (auth-provider-local.tsx:36 does not look at
\* the answer), and requests with a stale token that were in flight at the
\* sign-in: their 401 clears whatever cookie there is by then.
SessionIsAsLeft == ghost.expect = Any \/ cookie = ghost.expect
=============================================================================
