-------------------------- MODULE WebShellProofs --------------------------
(***************************************************************************)
(* That the navigation fits the window, for every user and however the     *)
(* pages, the session and the window's width change under it.              *)
(*                                                                         *)
(* PanelsFitTheWindow is not inductive: nothing in it keeps a menu from    *)
(* outliving its bar, and such a menu would be there when a bar comes      *)
(* back after the components have heard of the width.  IInv adds that a    *)
(* menu has its bar (MenuHasBar) and the types.                            *)
(*                                                                         *)
(* Then that the tab's session is the one the user is shown and left, from *)
(* an invariant of its own (SessionInv).                                   *)
(***************************************************************************)
EXTENDS WebShell, TLAPS

FlagsInv ==
    /\ bar \in BOOLEAN /\ console \in BOOLEAN
    /\ narrow \in BOOLEAN /\ resized \in BOOLEAN

NavInv ==
    /\ DOMAIN nav = DOMAIN C!FreshNav
    /\ nav.menu \in BOOLEAN

SideInv ==
    /\ DOMAIN side = DOMAIN C!FreshSide
    /\ side.openMobile \in BOOLEAN /\ side.isMobile \in BOOLEAN

MenuHasBar == nav.menu => bar

\* What PanelsFitTheWindow says of the menu, and of the sidebar.
MenuFits    == ~resized => (nav.menu => narrow)
SidebarFits == ~resized => (console => (side.isMobile = narrow))

IInv == FlagsInv /\ NavInv /\ SideInv /\ MenuHasBar /\ MenuFits /\ SidebarFits

-----------------------------------------------------------------------------
USE DEF C!FreshNav, C!FreshSide

\* The fresh page, before any component has heard of the window's width.
LEMMA ShellInitInv == ShellInit => IInv
  <1> SUFFICES ASSUME ShellInit PROVE IInv
    OBVIOUS
  <1>1. C!Init
    BY DEF ShellInit
  <1>2. /\ bar \in BOOLEAN /\ narrow \in BOOLEAN /\ console = FALSE /\ resized = TRUE
        /\ nav = C!FreshNav /\ side = C!FreshSide
    BY <1>1 DEF C!Init
  <1>3. NavInv /\ SideInv /\ nav.menu = FALSE
    BY <1>2 DEF NavInv, SideInv
  <1> QED
    BY <1>2, <1>3 DEF IInv, FlagsInv, MenuHasBar, MenuFits, SidebarFits

\* handleResize is the only step that ends "resized", and it closes the menu
\* of a wide window and tells the sidebar.
LEMMA ResizeHandled == IInv /\ C!handleResize => IInv'
  <1> SUFFICES ASSUME IInv, C!handleResize PROVE IInv'
    OBVIOUS
  <1> USE DEF IInv, FlagsInv, NavInv, SideInv, MenuHasBar, MenuFits, SidebarFits
  <1>1. UNCHANGED <<bar, console, narrow>> /\ resized' = FALSE
    BY DEF C!handleResize
  <1>2. NavInv' /\ MenuHasBar' /\ MenuFits'
    <2>1. CASE bar /\ ~narrow
      <3>1. nav' = [ nav EXCEPT !.menu = FALSE ]
        BY <2>1 DEF C!handleResize
      <3> QED BY <3>1
    <2>2. CASE ~(bar /\ ~narrow)
      <3>1. nav' = nav
        BY <2>2 DEF C!handleResize
      <3> QED BY <1>1, <2>2, <3>1
    <2> QED BY <2>1, <2>2
  <1>3. SideInv' /\ SidebarFits'
    <2>1. CASE console
      <3>1. side' = [ side EXCEPT !.isMobile = narrow ]
        BY <2>1 DEF C!handleResize, C!useIsMobile
      <3> QED BY <1>1, <3>1
    <2>2. CASE ~console
      <3>1. side' = side
        BY <2>2 DEF C!handleResize
      <3> QED BY <1>1, <2>2, <3>1
    <2> QED BY <2>1, <2>2
  <1> QED BY <1>1, <1>2, <1>3

\* The user's steps on one page: a menu is opened only by the button that a
\* narrow window shows, and the shortcut never changes what the sidebar takes
\* the window for.
LEMMA ChromeInPlace == IInv /\ C!InPlace => IInv'
  <1> SUFFICES ASSUME IInv, C!InPlace PROVE IInv'
    OBVIOUS
  <1> USE DEF IInv, FlagsInv, NavInv, SideInv, MenuHasBar, MenuFits, SidebarFits
  <1>1. CASE C!Resize
    BY <1>1 DEF C!Resize
  <1>2. CASE C!handleResize
    BY <1>2, ResizeHandled
  <1>3. CASE C!ToggleMenu
    BY <1>3 DEF C!ToggleMenu, C!MenuButton
  <1>4. CASE C!ToggleFeatures
    BY <1>4 DEF C!ToggleFeatures
  <1>5. CASE C!SignUpInNewTab
    BY <1>5 DEF C!SignUpInNewTab
  <1>6. CASE C!toggleSidebar
    <2>1. CASE side.isMobile
      BY <1>6, <2>1 DEF C!toggleSidebar
    <2>2. CASE ~side.isMobile
      BY <1>6, <2>2 DEF C!toggleSidebar
    <2> QED BY <2>1, <2>2
  <1>7. CASE C!CollapseButton
    BY <1>7 DEF C!CollapseButton
  <1>8. CASE C!CloseSheet
    BY <1>8 DEF C!CloseSheet
  <1> QED BY <1>1, <1>2, <1>3, <1>4, <1>5, <1>6, <1>7, <1>8 DEF C!InPlace

\* The page changes: a menu lives on only under a bar that stays, a sidebar
\* only on a console that stays, and one that is mounted has yet to hear of
\* the width.
LEMMA PageShown ==
  ASSUME IInv, NEW hasBar \in BOOLEAN, NEW isConsole \in BOOLEAN,
         NEW keep \in BOOLEAN, C!Show(hasBar, isConsole, keep)
  PROVE  IInv'
  <1> USE DEF IInv, FlagsInv, NavInv, SideInv, MenuHasBar, MenuFits, SidebarFits, C!Show
  <1>1. FlagsInv'
    OBVIOUS
  <1>2. NavInv' /\ MenuHasBar' /\ MenuFits'
    <2>1. CASE keep /\ bar /\ hasBar
      BY <2>1
    <2>2. CASE ~(keep /\ bar /\ hasBar)
      BY <2>2
    <2> QED BY <2>1, <2>2
  <1>3. SideInv' /\ SidebarFits'
    <2>1. CASE keep /\ console /\ isConsole
      BY <2>1
    <2>2. CASE ~(keep /\ console /\ isConsole)
      BY <2>2
    <2> QED BY <2>1, <2>2
  <1> QED BY <1>1, <1>2, <1>3

\* The same of a link in the mobile menu, which is there only on a narrow
\* window, so that the menu it may leave open fits.
LEMMA PageShownFromMenu ==
  ASSUME IInv, NEW hasBar \in BOOLEAN, NEW isConsole \in BOOLEAN,
         NEW closes \in BOOLEAN, C!ShowFromMenu(hasBar, isConsole, closes)
  PROVE  IInv'
  <1> USE DEF IInv, FlagsInv, NavInv, SideInv, MenuHasBar, MenuFits, SidebarFits,
              C!ShowFromMenu, C!MenuButton
  <1>1. FlagsInv'
    OBVIOUS
  <1>2. NavInv' /\ MenuHasBar' /\ MenuFits'
    <2>1. CASE ~hasBar
      BY <2>1
    <2>2. CASE hasBar
      <3>1. nav' = [ nav EXCEPT !.menu = ~closes ]
        BY <2>2
      <3> QED BY <2>2, <3>1
    <2> QED BY <2>1, <2>2
  <1>3. SideInv' /\ SidebarFits'
    OBVIOUS
  <1> QED BY <1>1, <1>2, <1>3

\* Where a link leads decides what is on the next page, and nothing else of it
\* matters here.
LEMMA LinkFollowed == ASSUME IInv, NEW p, Linked(p) PROVE IInv'
  <1>1. HasBar(loc') \in BOOLEAN /\ IsConsole(loc') \in BOOLEAN
    BY DEF HasBar, IsConsole
  <1>2. C!Show(HasBar(loc'), IsConsole(loc'), TRUE)
    BY DEF Linked
  <1> QED BY <1>1, <1>2, PageShown

LEMMA ShellNextInv == IInv /\ [ShellNext]_allVars => IInv'
  <1> SUFFICES ASSUME IInv, [ShellNext]_allVars PROVE IInv'
    OBVIOUS
  <1>0. CASE UNCHANGED chrome
    BY <1>0 DEF chrome, IInv, FlagsInv, NavInv, SideInv, MenuHasBar, MenuFits, SidebarFits
  <1>1. CASE SessionStep
    BY <1>0, <1>1 DEF SessionStep
  <1>2. CASE ChromeStep
    BY <1>2, ChromeInPlace DEF ChromeStep
  <1>3. CASE FollowConsoleLink
    BY <1>3, LinkFollowed DEF FollowConsoleLink
  <1>4. CASE FollowPublicLink
    BY <1>4, LinkFollowed DEF FollowPublicLink
  <1>5. CASE FollowMenuLink
    <2>1. PICK closes \in BOOLEAN : C!ShowFromMenu(HasBar(loc'), IsConsole(loc'), closes)
      BY <1>5 DEF FollowMenuLink
    <2>2. HasBar(loc') \in BOOLEAN /\ IsConsole(loc') \in BOOLEAN
      BY DEF HasBar, IsConsole
    <2> QED BY <2>1, <2>2, PageShownFromMenu
  <1>6. CASE NewDocument
    <2>1. C!Show(HasBar(to), IsConsole(to), FALSE)
      BY <1>6 DEF NewDocument
    <2>2. HasBar(to) \in BOOLEAN /\ IsConsole(to) \in BOOLEAN
      BY DEF HasBar, IsConsole
    <2> QED BY <2>1, <2>2, PageShown
  <1>7. CASE UNCHANGED allVars
    BY <1>0, <1>7 DEF allVars
  <1> QED BY <1>1, <1>2, <1>3, <1>4, <1>5, <1>6, <1>7 DEF ShellNext

\* PanelsFitTheWindow: once the components have heard of the window's width
\* (handleResize, useIsMobile), no menu for small screens is open on a wide
\* one, and the sidebar takes the window for what it is, whatever pages the
\* user, the proxy and the session have gone through before.
THEOREM ChromeFits == ShellSpec => []PanelsFitTheWindow
  <1>1. IInv => PanelsFitTheWindow
    BY DEF IInv, FlagsInv, SideInv, MenuFits, SidebarFits, PanelsFitTheWindow,
           C!PanelsFitTheWindow, C!Sidebar
  <1> QED BY <1>1, ShellInitInv, ShellNextInv, PTL DEF ShellSpec

-----------------------------------------------------------------------------
(***************************************************************************)
(* The session.  What is shown of it is read once per document, and the    *)
(* cookie is changed by whatever answers come in, so both properties hold  *)
(* for what is known of the requests in flight: the provider's read of the *)
(* user carries the cookie there still is (ReadInv), and after a sign-in   *)
(* nothing is on its way that a refusal of an older token could answer     *)
(* (LeftOn).  With Clerk no token runs out under a page (ClerkInv).        *)
(***************************************************************************)

SessionTypes ==
    /\ provider \in { "local", "clerk" }
    /\ loc \in Address /\ to \in Address \cup {Nil}
    /\ cookie \in Tokens \cup {Nil}
    /\ auth \in [ user : Tokens \cup {Nil}, isLoaded : BOOLEAN ]
    /\ calls \subseteq [ kind : Kinds, token : Tokens \cup {Nil}, mounted : BOOLEAN ]
    /\ ghost \in [ moved : BOOLEAN, expect : Tokens \cup {Nil, Any} ]

ClerkInv == provider = "clerk" =>
    cookie # Stale /\ \A c \in calls : c.token # Stale

ReadInv == (ghost.moved = FALSE /\ to = Nil) =>
    /\ auth.user # Nil => cookie = auth.user
    /\ \A c \in calls : c.kind = "me" => c = Request("me", cookie)

LeftOn == (ghost.expect # Any /\ ghost.expect # Nil) =>
    /\ cookie \in Users
    /\ \A c \in calls : c.kind \in { "me", "stats" } => c.token # Stale

SessionInv == SessionTypes /\ ClerkInv /\ ReadInv /\ SessionIsAsLeft /\ LeftOn

-----------------------------------------------------------------------------
(* Where the proxy and the links lead are addresses, and so no null. *)

LEMMA PathAddress == ASSUME NEW a \in Address, NEW p \in Paths
                     PROVE  [ a EXCEPT !.path = p ] \in Address
  BY DEF Address

LEMMA MiddlewareAddress == ASSUME NEW a \in Address PROVE middleware(a) \in Address
  <1>1. "/" \in Paths /\ "/sign-in" \in Paths
    BY DEF Paths, Forms
  <1>2. SignInAt(a) \in Address /\ [ a EXCEPT !.path = "/" ] \in Address
    BY <1>1, PathAddress DEF SignInAt
  <1> QED BY <1>2 DEF middleware, localMiddleware, clerkMw

LEMMA ReachedAddress == ASSUME NEW a \in Address PROVE Reached(a) \in Address
  BY MiddlewareAddress DEF Reached

LEMMA SignInAddress == ASSUME loc \in Address PROVE SignInAt(loc) \in Address \ {Nil}
  <1>1. "/sign-in" \in Paths
    BY DEF Paths, Forms
  <1> QED BY <1>1, PathAddress, TabAssumption DEF SignInAt

LEMMA DashboardAddress == ASSUME loc \in Address PROVE DASHBOARD_URL \in Address \ {Nil}
  <1>1. "/dashboard" \in Paths /\ "/" \in Paths
    BY DEF Paths, Private
  <1>2. [ host |-> "dashboard", path |-> "/" ] \in Address
    BY <1>1 DEF Address, Hosts
  <1>3. [ loc EXCEPT !.path = "/dashboard" ] \in Address
    BY <1>1, PathAddress
  <1> QED BY <1>2, <1>3, TabAssumption DEF DASHBOARD_URL

LEMMA LinksArePaths ==
    /\ SidebarLinks \subseteq Paths /\ HeaderLinks \subseteq Paths
    /\ LogoLinks \subseteq Paths /\ BarLinks \subseteq Paths
    /\ FormLinks \subseteq Paths /\ Bookmarks \subseteq Paths
    /\ ClosingLinks \subseteq Paths /\ LeavingOpenLinks \subseteq Paths
  BY DEF SidebarLinks, HeaderLinks, LogoLinks, BarLinks, FormLinks, Bookmarks,
         ClosingLinks, LeavingOpenLinks, Paths, Private, Forms

LEMMA RequestTyped ==
    ASSUME NEW kind \in Kinds, NEW token \in Tokens \cup {Nil}
    PROVE  /\ Request(kind, token) \in
                [ kind : Kinds, token : Tokens \cup {Nil}, mounted : BOOLEAN ]
           /\ Request(kind, token).kind = kind /\ Request(kind, token).token = token
  BY DEF Request

-----------------------------------------------------------------------------
LEMMA InitSession == Init => SessionInv
  <1> SUFFICES ASSUME Init PROVE SessionInv
    OBVIOUS
  <1>1. /\ provider \in { "local", "clerk" } /\ to = Nil /\ cookie = Nil /\ calls = {}
        /\ auth = [ user |-> Nil, isLoaded |-> TRUE ]
        /\ ghost = [ moved |-> FALSE, expect |-> Any ]
    BY DEF Init, Nobody
  <1>2. loc \in Address
    BY DEF Init, Address, Paths
  <1>3. Nil # Stale
    BY TabAssumption DEF Tokens
  <1> QED BY <1>1, <1>2, <1>3
          DEF SessionInv, SessionTypes, ClerkInv, ReadInv, SessionIsAsLeft, LeftOn

USE DEF SessionInv, SessionTypes, ClerkInv, ReadInv, SessionIsAsLeft, LeftOn

\* A new document reads the user with the cookie it was fetched with.
LEMMA DocumentSession == SessionInv /\ LoadDocument => SessionInv'
  <1> SUFFICES ASSUME SessionInv, LoadDocument PROVE SessionInv'
    OBVIOUS
  <1>1. /\ provider' = provider /\ cookie' = cookie /\ to' = Nil /\ loc' \in Address
        /\ ghost' = [ ghost EXCEPT !.moved = FALSE ]
    BY DEF LoadDocument, rigid
  <1>2. ghost' \in [ moved : BOOLEAN, expect : Tokens \cup {Nil, Any} ]
        /\ ghost'.expect = ghost.expect
    BY <1>1
  <1>3. /\ auth' \in [ user : Tokens \cup {Nil}, isLoaded : BOOLEAN ]
        /\ auth'.user # Nil => cookie = auth'.user
    BY DEF LoadDocument, Nobody
  <1>4. \A c \in calls' : \/ provider = "local" /\ c = Request("me", cookie)
                          \/ c = Request("stats", cookie)
    BY DEF LoadDocument, OnLoad, OnMount
  <1>5. "me" \in Kinds /\ "stats" \in Kinds /\ "me" # "stats"
    BY DEF Kinds
  <1>6. \A c \in calls' :
           /\ c \in [ kind : Kinds, token : Tokens \cup {Nil}, mounted : BOOLEAN ]
           /\ c.token = cookie
           /\ c.kind = "me" => c = Request("me", cookie)
    BY <1>4, <1>5, RequestTyped
  <1>7. cookie \in Users => cookie # Stale
    BY TabAssumption
  <1> QED BY <1>1, <1>2, <1>3, <1>6, <1>7

\* A link keeps the document and with it every request the provider sent.
LEMMA LinkSession == ASSUME SessionInv, NEW p \in Paths, FollowLink(p) PROVE SessionInv'
  <1> DEFINE there == Reached([ loc EXCEPT !.path = p ])
  <1>1. UNCHANGED <<provider, to, cookie, auth, ghost>> /\ loc' = there
    BY DEF FollowLink, rigid
  <1>2. loc' \in Address
    BY <1>1, PathAddress, ReachedAddress
  <1>3. \A d \in calls' :
           \/ \E c \in calls : d = [ c EXCEPT !.mounted = c.kind \in ProviderCalls ]
           \/ d = Request("stats", cookie)
    BY DEF FollowLink, OnMount
  <1>4. "stats" \in Kinds /\ "me" \in ProviderCalls /\ "me" # "stats"
    BY DEF Kinds, ProviderCalls
  <1> DEFINE Typed == [ kind : Kinds, token : Tokens \cup {Nil}, mounted : BOOLEAN ]
  <1>5. ASSUME NEW d \in calls'
        PROVE  /\ d \in Typed
               /\ \/ d.kind = "stats" /\ d.token = cookie
                  \/ \E c \in calls : /\ d.kind = c.kind /\ d.token = c.token
                                      /\ d.kind = "me" => d.mounted = TRUE
    <2>1. CASE d = Request("stats", cookie)
      BY <2>1, <1>4, RequestTyped
    <2>2. ASSUME NEW c \in calls, d = [ c EXCEPT !.mounted = c.kind \in ProviderCalls ]
          PROVE  /\ d \in Typed /\ d.kind = c.kind /\ d.token = c.token
                 /\ d.kind = "me" => d.mounted = TRUE
      <3>1. c \in Typed /\ (c.kind \in ProviderCalls) \in BOOLEAN
        OBVIOUS
      <3>2. /\ d \in Typed /\ d.kind = c.kind /\ d.token = c.token
            /\ d.mounted = (c.kind \in ProviderCalls)
        BY <2>2, <3>1
      <3> QED BY <3>2, <1>4
    <2> QED BY <1>3, <2>1, <2>2
  <1>6. (ghost.moved = FALSE /\ to = Nil) =>
           \A d \in calls' : d.kind = "me" => d = Request("me", cookie)
    <2> SUFFICES ASSUME ghost.moved = FALSE, to = Nil, NEW d \in calls', d.kind = "me"
                 PROVE  d = Request("me", cookie)
      OBVIOUS
    <2>1. PICK c \in calls : d.kind = c.kind /\ d.token = c.token /\ d.mounted = TRUE
      BY <1>5, <1>4
    <2>2. c = Request("me", cookie)
      BY <2>1
    <2>3. d.token = cookie /\ d \in Typed
      BY <2>1, <2>2, <1>5 DEF Request
    <2> QED BY <2>1, <2>3 DEF Request
  <1>7. cookie \in Users => cookie # Stale
    BY TabAssumption
  <1>8. SessionTypes' /\ SessionIsAsLeft'
    BY <1>1, <1>2, <1>5
  <1>9. \A d \in calls' : /\ d.token = cookie \/ \E c \in calls : d.token = c.token
                          /\ d.kind \in { "me", "stats" } =>
                                \/ d.token = cookie
                                \/ \E c \in calls : /\ c.kind \in { "me", "stats" }
                                                    /\ d.token = c.token
    BY <1>5
  <1>10. ClerkInv'
    BY <1>1, <1>9
  <1>11. LeftOn'
    BY <1>1, <1>7, <1>9
  <1>12. ReadInv'
    BY <1>1, <1>6
  <1> QED BY <1>8, <1>10, <1>11, <1>12

\* Steps that leave the session and its requests alone, or ask for an address:
\* the page, its form and the chrome matter to neither property.
LEMMA SessionLeftAlone ==
    ASSUME SessionInv, UNCHANGED <<provider, loc, cookie, auth, calls, ghost>>,
           to' \in Address \/ to' = to
    PROVE  SessionInv'
  <1>1. to' \in Address => to' # Nil
    BY TabAssumption
  <1> QED BY <1>1

\* A request of the page, or a sign-out, is none the provider reads the user
\* with.
LEMMA SubmitSession ==
    ASSUME SessionInv, UNCHANGED <<provider, loc, to, cookie, auth, ghost>>, provider = "local",
           NEW kind \in { "submit", "sign-out" }, NEW token \in Users \cup {Nil},
           calls' = calls \cup { Request(kind, token) }
    PROVE  SessionInv'
  <1>1. kind \in Kinds /\ token \in Tokens \cup {Nil} /\ kind \notin { "me", "stats" }
    BY DEF Kinds, Tokens
  <1>2. /\ Request(kind, token) \in
             [ kind : Kinds, token : Tokens \cup {Nil}, mounted : BOOLEAN ]
        /\ Request(kind, token).kind \notin { "me", "stats" }
    BY <1>1, RequestTyped
  <1> QED BY <1>2

\* Clerk's forms and its sign-out change the session and leave the page.
LEMMA ClerkSession ==
    ASSUME SessionInv, provider = "clerk", UNCHANGED <<provider, loc, calls>>,
           NEW left \in Users \cup {Nil}, cookie' = left,
           auth' = [ auth EXCEPT !.user = left ], to' \in Address,
           ghost' = [ ghost EXCEPT !.expect = left ]
    PROVE  SessionInv'
  <1>1. to' # Nil /\ left # Stale /\ left \in Tokens \cup {Nil}
    BY TabAssumption DEF Tokens
  <1>2. /\ auth' \in [ user : Tokens \cup {Nil}, isLoaded : BOOLEAN ]
        /\ ghost' \in [ moved : BOOLEAN, expect : Tokens \cup {Nil, Any} ]
        /\ ghost'.expect = left
    BY <1>1
  <1> QED BY <1>1, <1>2

\* Another tab's sign-in or sign-out: from here on nothing is expected.
LEMMA MovedSession ==
    ASSUME SessionInv, UNCHANGED <<provider, loc, to, auth, calls>>, Moved,
           cookie' \in Users \cup {Nil}
    PROVE  SessionInv'
  <1>1. cookie' # Stale /\ cookie' \in Tokens \cup {Nil}
    BY TabAssumption DEF Tokens
  <1>2. /\ ghost' = [ moved |-> TRUE, expect |-> Any ]
        /\ ghost' \in [ moved : BOOLEAN, expect : Tokens \cup {Nil, Any} ]
    BY DEF Moved
  <1> QED BY <1>1, <1>2

LEMMA RunOutSession == SessionInv /\ TokensRunOut => SessionInv'
  <1> SUFFICES ASSUME SessionInv, TokensRunOut PROVE SessionInv'
    OBVIOUS
  <1>1. /\ UNCHANGED <<provider, loc, to, auth>> /\ provider = "local"
        /\ cookie' = Stale /\ ghost' = [ moved |-> TRUE, expect |-> Any ]
    BY DEF TokensRunOut, Moved, rigid
  <1>2. Stale \in Tokens \cup {Nil}
        /\ ghost' \in [ moved : BOOLEAN, expect : Tokens \cup {Nil, Any} ]
    BY <1>1 DEF Tokens
  <1>3. calls' \subseteq [ kind : Kinds, token : Tokens \cup {Nil}, mounted : BOOLEAN ]
    <2>1. PICK late \in SUBSET calls :
             calls' = (calls \ late) \cup { [ c EXCEPT !.token = Stale ] : c \in late }
      BY DEF TokensRunOut
    <2> QED BY <1>2, <2>1
  <1> QED BY <1>1, <1>2, <1>3

-----------------------------------------------------------------------------
(* The answers. *)

\* No answer leaves a stale token behind where no request carries one.
LEMMA SetCookieTyped ==
    ASSUME SessionInv, NEW c \in calls, NEW answer \in Answers(c)
    PROVE  /\ SetCookie(c, answer) \in Tokens \cup {Nil}
           /\ provider = "clerk" => SetCookie(c, answer) # Stale
  <1>1. c.token \in Tokens \cup {Nil} /\ Nil # Stale
    BY TabAssumption DEF Tokens
  <1> QED BY <1>1 DEF SetCookie

\* What is remembered of an answer: that the lookup of a valid token's user
\* failed, and nothing else.
LEMMA RememberedTyped ==
    ASSUME SessionInv, NEW c \in calls, NEW answer
    PROVE  /\ Remembered(c, answer) \in [ moved : BOOLEAN, expect : Tokens \cup {Nil, Any} ]
           /\ Remembered(c, answer).moved = ghost.moved
           /\ Remembered(c, answer).expect = Nil \/ Remembered(c, answer) = ghost
  <1>1. [ ghost EXCEPT !.expect = Nil ] \in [ moved : BOOLEAN, expect : Tokens \cup {Nil, Any} ]
        /\ [ ghost EXCEPT !.expect = Nil ].moved = ghost.moved
        /\ [ ghost EXCEPT !.expect = Nil ].expect = Nil
    OBVIOUS
  <1> QED BY <1>1 DEF Remembered

\* The answer to a read, to the provider or to the overview: the cookie stays,
\* or the session is over, for its token is stale or its user was not found.
LEMMA ReadSetsCookie ==
    ASSUME SessionInv, NEW c \in calls, c.kind \in { "me", "stats" },
           NEW answer \in Answers(c)
    PROVE  \/ SetCookie(c, answer) = cookie /\ Remembered(c, answer) = ghost
           \/ /\ SetCookie(c, answer) = Nil /\ answer = "invalid session"
              /\ Remembered(c, answer).expect \in { Any, Nil }
  <1>1. c.kind # "submit" /\ c.kind # "sign-out"
    OBVIOUS
  <1>2. CASE answer = "invalid session" /\ provider = "local"
    <2>1. SetCookie(c, answer) = Nil
      BY <1>1, <1>2 DEF SetCookie
    <2>2. c.token \in Tokens
      <3>1. c.token # Nil
        BY <1>1, <1>2 DEF Answers, Judgements
      <3> QED BY <3>1
    <2>3. CASE Valid(c.token)
      <3>1. Remembered(c, answer) = [ ghost EXCEPT !.expect = Nil ]
        BY <1>2, <2>3 DEF Remembered
      <3>2. Remembered(c, answer).expect = Nil
        BY <3>1
      <3> QED BY <1>2, <2>1, <3>2
    <2>4. CASE ~Valid(c.token)
      <3>1. c.token = Stale /\ Remembered(c, answer) = ghost
        BY <2>2, <2>4 DEF Valid, Tokens, Remembered
      <3>2. ghost.expect \in { Any, Nil }
        BY <3>1
      <3> QED BY <1>2, <2>1, <3>1, <3>2
    <2> QED BY <2>3, <2>4
  <1>3. CASE ~(answer = "invalid session" /\ provider = "local")
    BY <1>1, <1>3 DEF SetCookie, Remembered
  <1> QED BY <1>2, <1>3

\* fetchUser: the user that is shown is the one the read's token was for.
LEMMA MeSession ==
    ASSUME SessionInv, NEW c \in calls, NEW answer, TakeMe(c, answer) PROVE SessionInv'
  <1>1. /\ UNCHANGED <<provider, loc, to>> /\ calls' = calls \ {c}
        /\ ghost' = Remembered(c, answer)
        /\ cookie' = SetCookie(c, answer) /\ c.kind = "me" /\ answer \in Answers(c)
        /\ auth' = [ user |-> IF answer = "ok" THEN c.token ELSE Nil, isLoaded |-> TRUE ]
    BY DEF TakeMe, rigid
  <1>2. c.token \in Tokens \cup {Nil} /\ Nil # Stale
    BY TabAssumption DEF Tokens
  <1>3. auth' \in [ user : Tokens \cup {Nil}, isLoaded : BOOLEAN ]
    BY <1>1, <1>2
  <1>4. cookie' \in Tokens \cup {Nil} /\ (provider = "clerk" => cookie' # Stale)
    BY <1>1, SetCookieTyped
  <1>5. \/ cookie' = cookie /\ ghost' = ghost
        \/ /\ cookie' = Nil /\ answer = "invalid session"
           /\ ghost'.expect = Any \/ ghost'.expect = Nil
    BY <1>1, ReadSetsCookie
  <1>t. /\ ghost' \in [ moved : BOOLEAN, expect : Tokens \cup {Nil, Any} ]
        /\ ghost'.moved = ghost.moved
    BY <1>1, RememberedTyped
  <1>6. SessionTypes' /\ ClerkInv' /\ SessionIsAsLeft' /\ LeftOn'
    BY <1>1, <1>3, <1>4, <1>5, <1>t
  <1>7. ReadInv'
    <2> SUFFICES ASSUME ghost.moved = FALSE, to = Nil
                 PROVE  /\ auth'.user # Nil => cookie' = auth'.user
                        /\ \A d \in calls' : d.kind = "me" => d = Request("me", cookie')
      BY <1>1, <1>t
    <2>1. c = Request("me", cookie) /\ \A d \in calls' : d.kind # "me"
      BY <1>1
    <2>2. c.token = cookie
      BY <2>1 DEF Request
    <2>3. auth'.user # Nil => answer = "ok" /\ auth'.user = c.token
      BY <1>1
    <2>4. answer = "ok" => cookie' = cookie
      BY <1>5
    <2> QED BY <2>1, <2>2, <2>3, <2>4
  <1> QED BY <1>6, <1>7

\* The overview: whatever takes the session away also leaves the page.
LEMMA StatsSession ==
    ASSUME SessionInv, NEW c \in calls, NEW answer, TakeStats(c, answer) PROVE SessionInv'
  <1>1. /\ UNCHANGED <<provider, loc, auth>> /\ c.kind = "stats"
        /\ ghost' = Remembered(c, answer)
        /\ answer \in Answers(c) /\ cookie' = SetCookie(c, answer)
        /\ to' = apiFetch(c, answer)
    BY DEF TakeStats, rigid
  <1>2. calls' \subseteq calls \cup { Request("stats", cookie') }
    BY DEF TakeStats
  <1>3. cookie' \in Tokens \cup {Nil} /\ (provider = "clerk" => cookie' # Stale)
    BY <1>1, SetCookieTyped
  <1>4. /\ Request("stats", cookie') \in
             [ kind : Kinds, token : Tokens \cup {Nil}, mounted : BOOLEAN ]
        /\ Request("stats", cookie').kind = "stats"
        /\ Request("stats", cookie').token = cookie'
    <2>1. "stats" \in Kinds
      BY DEF Kinds
    <2> QED BY <1>3, <2>1, RequestTyped
  <1>5. to' \in Address \cup {Nil} /\ (answer = "invalid session" => to' # Nil)
    BY <1>1, SignInAddress DEF apiFetch, Unauthorized
  <1>6. \/ cookie' = cookie /\ ghost' = ghost /\ (to' = Nil => to = Nil)
        \/ /\ cookie' = Nil /\ to' # Nil
           /\ ghost'.expect = Any \/ ghost'.expect = Nil
    <2>1. to' = Nil => to = Nil
      BY <1>1, SignInAddress DEF apiFetch
    <2> QED BY <1>1, <1>5, <2>1, ReadSetsCookie
  <1>7. cookie \in Users => cookie # Stale
    BY TabAssumption
  <1>t. /\ ghost' \in [ moved : BOOLEAN, expect : Tokens \cup {Nil, Any} ]
        /\ ghost'.moved = ghost.moved
    BY <1>1, RememberedTyped
  <1>8. SessionTypes' /\ ClerkInv' /\ SessionIsAsLeft'
    BY <1>1, <1>2, <1>3, <1>4, <1>5, <1>6, <1>t
  <1>9. ReadInv'
    BY <1>1, <1>2, <1>4, <1>6
  <1>10. LeftOn'
    BY <1>1, <1>2, <1>4, <1>6, <1>7
  <1> QED BY <1>8, <1>9, <1>10

\* A sign-in leaves the page, and expects its cookie to stay unless a read of
\* the old session is still on its way.
LEMMA SignInSession ==
    ASSUME SessionInv, NEW c \in calls, NEW answer, TakeSignIn(c, answer) PROVE SessionInv'
  <1>1. /\ UNCHANGED <<provider, loc, auth>> /\ c.kind = "submit"
        /\ answer \in Answers(c) /\ cookie' = SetCookie(c, answer)
        /\ calls' = calls \ {c}
        /\ to' = IF answer = "ok" THEN DASHBOARD_URL ELSE to
        /\ ghost' = IF answer # "ok" THEN ghost
                    ELSE [ ghost EXCEPT !.expect =
                             IF Overtaken(c) \/ ~Valid(c.token) THEN Any ELSE c.token ]
    BY DEF TakeSignIn, rigid
  <1>2. cookie' \in Tokens \cup {Nil} /\ (provider = "clerk" => cookie' # Stale)
    BY <1>1, SetCookieTyped
  <1>3. CASE answer # "ok"
    <2>1. answer # "invalid session"
      BY <1>1 DEF Answers, Judgements
    <2>2. cookie' = cookie
      BY <1>1, <1>3, <2>1 DEF SetCookie
    <2> QED BY <1>1, <1>3, <2>2
  <1>4. CASE answer = "ok"
    <2>1. cookie' = c.token /\ to' \in Address \ {Nil}
      BY <1>1, <1>4, DashboardAddress DEF SetCookie
    <2>2. CASE Overtaken(c) \/ ~Valid(c.token)
      <3>1. ghost' = [ ghost EXCEPT !.expect = Any ]
        BY <1>1, <1>4, <2>2
      <3>2. ghost'.expect = Any
            /\ ghost' \in [ moved : BOOLEAN, expect : Tokens \cup {Nil, Any} ]
        BY <3>1
      <3> HIDE DEF SessionIsAsLeft
      <3>3. SessionIsAsLeft'
        BY <3>2 DEF SessionIsAsLeft
      <3> QED BY <1>1, <1>2, <2>1, <3>2, <3>3
    <2>3. CASE ~(Overtaken(c) \/ ~Valid(c.token))
      <3>1. ghost' = [ ghost EXCEPT !.expect = c.token ] /\ c.token \in Users
        BY <1>1, <1>4, <2>3 DEF Valid
      <3>2. ghost'.expect = c.token
            /\ ghost' \in [ moved : BOOLEAN, expect : Tokens \cup {Nil, Any} ]
        BY <3>1 DEF Tokens
      <3>3. \A d \in calls' : d.kind \in { "me", "stats" } => d.token # Stale
        BY <1>1, <2>3 DEF Overtaken
      <3> QED BY <1>1, <1>2, <2>1, <3>1, <3>2, <3>3
    <2> QED BY <2>2, <2>3
  <1> QED BY <1>3, <1>4

\* A sign-out that is answered at all leaves the page.
LEMMA SignOutSession ==
    ASSUME SessionInv, NEW c \in calls, NEW answer, TakeSignOut(c, answer) PROVE SessionInv'
  <1>1. /\ UNCHANGED <<provider, loc>> /\ c.kind = "sign-out"
        /\ answer \in Answers(c) /\ cookie' = SetCookie(c, answer)
        /\ calls' = calls \ {c}
    BY DEF TakeSignOut, rigid
  <1>2. cookie' \in Tokens \cup {Nil} /\ (provider = "clerk" => cookie' # Stale)
    BY <1>1, SetCookieTyped
  <1>3. CASE answer = "lost"
    <2>1. UNCHANGED <<auth, to, ghost>>
      BY <1>3 DEF TakeSignOut
    <2>2. cookie' = cookie
      BY <1>1, <1>3 DEF SetCookie
    <2> QED BY <1>1, <2>1, <2>2
  <1>4. CASE answer # "lost"
    <2>1. /\ auth' = [ auth EXCEPT !.user = Nil ] /\ to' = SignInAt(loc)
          /\ ghost' = [ ghost EXCEPT !.expect = IF answer = "ok" THEN Nil ELSE Any ]
      BY <1>4 DEF TakeSignOut
    <2>2. to' \in Address \ {Nil}
      BY <2>1, SignInAddress
    <2>3. /\ auth' \in [ user : Tokens \cup {Nil}, isLoaded : BOOLEAN ]
          /\ ghost' \in [ moved : BOOLEAN, expect : Tokens \cup {Nil, Any} ]
          /\ ghost'.expect = IF answer = "ok" THEN Nil ELSE Any
      BY <2>1
    <2>4. answer = "ok" => cookie' = Nil
      BY <1>1 DEF SetCookie
    <2> QED BY <1>1, <1>2, <2>2, <2>3, <2>4
  <1> QED BY <1>3, <1>4

-----------------------------------------------------------------------------
LEMMA InPlaceSession == SessionInv /\ InPlace => SessionInv'
  <1> SUFFICES ASSUME SessionInv, InPlace PROVE SessionInv'
    OBVIOUS
  <1>1. ASSUME NEW u \in Users, LocalSignInForm(u) \/ LocalSignUpForm(u) PROVE SessionInv'
    BY <1>1, SubmitSession
       DEF LocalSignInForm, LocalSignUpForm, CanSubmit, handleSubmit, rigid
  <1>2. ASSUME NEW u \in Users, ClerkSignIn(u) \/ ClerkSignUp(u) PROVE SessionInv'
    <2>1. /\ provider = "clerk" /\ UNCHANGED <<provider, loc, calls>> /\ cookie' = u
          /\ auth' = [ auth EXCEPT !.user = u ] /\ to' = DASHBOARD_URL
          /\ ghost' = [ ghost EXCEPT !.expect = u ]
      BY <1>2 DEF ClerkSignIn, ClerkSignUp, ClerkForm, rigid
    <2>2. to' \in Address
      BY <2>1, DashboardAddress
    <2> QED BY <2>1, <2>2, ClerkSession
  <1>3. CASE signOut
    BY <1>3, SubmitSession DEF signOut, rigid
  <1>4. CASE clerkSignOut
    <2>1. /\ provider = "clerk" /\ UNCHANGED <<provider, loc, calls>> /\ cookie' = Nil
          /\ auth' = [ auth EXCEPT !.user = Nil ]
          /\ to' = [ host |-> "site", path |-> "/" ]
          /\ ghost' = [ ghost EXCEPT !.expect = Nil ]
      BY <1>4 DEF clerkSignOut, rigid
    <2>2. to' \in Address
      BY <2>1 DEF Address, Hosts, Paths
    <2> QED BY <2>1, <2>2, ClerkSession
  <1>5. ASSUME NEW k \in Kinds, Takes(k) PROVE SessionInv'
    BY <1>5, MeSession, StatsSession, SignInSession, SignOutSession DEF Takes, Take
  <1>6. ASSUME NEW u \in Users, OtherTabSignsIn(u) PROVE SessionInv'
    BY <1>6, MovedSession DEF OtherTabSignsIn, rigid
  <1>7. CASE OtherTabSignsOut
    BY <1>7, MovedSession DEF OtherTabSignsOut, rigid
  <1>8. CASE TokensRunOut
    BY <1>8, RunOutSession
  <1>9. ASSUME NEW p \in Bookmarks, GoTo(p) PROVE SessionInv'
    <2>1. to' \in Address
      BY <1>9, LinksArePaths, PathAddress DEF GoTo
    <2> QED BY <1>9, <2>1, SessionLeftAlone DEF GoTo, rigid
  <1>10. CASE Redirected
    <2>1. to' \in Address
      BY <1>10, MiddlewareAddress DEF Redirected
    <2> QED BY <1>10, <2>1, SessionLeftAlone DEF Redirected, rigid
  <1> QED BY <1>1, <1>2, <1>3, <1>4, <1>5, <1>6, <1>7, <1>8, <1>9, <1>10 DEF InPlace

LEMMA ShellNextSession == SessionInv /\ [ShellNext]_allVars => SessionInv'
  <1> SUFFICES ASSUME SessionInv, [ShellNext]_allVars PROVE SessionInv'
    OBVIOUS
  <1>0. ASSUME UNCHANGED vars PROVE SessionInv'
    BY <1>0, SessionLeftAlone DEF vars
  <1>1. CASE SessionStep
    BY <1>1, InPlaceSession DEF SessionStep
  <1>2. CASE ChromeStep \/ UNCHANGED allVars
    BY <1>0, <1>2 DEF ChromeStep, allVars
  <1>3. CASE FollowConsoleLink \/ FollowPublicLink
    BY <1>3, LinksArePaths, LinkSession
       DEF FollowConsoleLink, FollowPublicLink, Linked
  <1>4. CASE FollowMenuLink
    BY <1>4, LinksArePaths, LinkSession DEF FollowMenuLink
  <1>5. CASE NewDocument
    BY <1>5, DocumentSession DEF NewDocument
  <1> QED BY <1>1, <1>2, <1>3, <1>4, <1>5 DEF ShellNext

\* ShownUserIsSessionUser: the name in the user's menu (auth-provider-local.tsx)
\* is that of the user whose cookie the requests carry, however the answers to
\* the provider's read, the overview's and the forms' are ordered among links,
\* redirects and sign-outs; excused is a session changed elsewhere.
THEOREM ShownUser == ShellSpec => []ShownUserIsSessionUser
  <1>1. ShellInit => SessionInv
    BY InitSession DEF ShellInit
  <1>2. SessionInv => ShownUserIsSessionUser
    BY DEF ShownUserIsSessionUser
  <1> QED BY <1>1, <1>2, ShellNextSession, PTL DEF ShellSpec

\* SessionIsAsLeft: the browser has the cookie that the last sign-in or
\* sign-out of this tab left, and none once the API failed to look up the user
\* of a request, whatever answers to older requests come in after it: a 401
\* clears the cookie (clerk_auth.go:52) of such a request or of a stale token,
\* and none of the latter is in flight unless the sign-in overtook it.
THEOREM SessionLeft == ShellSpec => []SessionIsAsLeft
  <1>1. ShellInit => SessionInv
    BY InitSession DEF ShellInit
  <1>2. SessionInv => SessionIsAsLeft
    OBVIOUS
  <1> QED BY <1>1, <1>2, ShellNextSession, PTL DEF ShellSpec
=============================================================================
