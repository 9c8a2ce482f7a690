------------------------------ MODULE WebShell ------------------------------
(***************************************************************************)
(* The web application around its pages: the session of module WebSession  *)
(* under the navigation of module SiteChrome.  Which links there are is    *)
(* the chrome's business, where they lead is the proxy's, and what of the  *)
(* chrome survives depends on both (components/layout-wrapper.tsx,         *)
(* app/layout.tsx, app/dashboard/layout.tsx).                              *)
(***************************************************************************)
EXTENDS WebSession

VARIABLES bar, console, narrow, resized, nav, side

C == INSTANCE SiteChrome

chrome == <<bar, console, narrow, resized, nav, side>>
allVars == <<vars, chrome>>

\* LayoutWrapper: the public site's bar and footer, or neither.  The root of
\* the dashboard's host has the console's layout: the proxy rewrites it.
HasBar(a)    == a.host # "dashboard" /\ a.path \notin Private
IsConsole(a) == Page(a) \in Private

ShellInit ==
    /\ Init /\ C!Init
    /\ bar = HasBar(loc)

-----------------------------------------------------------------------------
\* dashboardNavItems: the sidebar's links, in the sheet as well.
SidebarLinks == { "/dashboard", "/dashboard/send" }

\* The header's breadcrumb leads to the overview, from every page.
HeaderLinks == { "/dashboard" }

\* The bar's logo, on every window: an open menu stays open below it.
LogoLinks == { "/" }

\* The bar's links on a wide window, and the forms' links to each other; "/"
\* stands for every public page that is not the security notice.
BarLinks  == { "/", "/dashboard", "/security", "/sign-in" }
FormLinks == IF page = "/sign-in" THEN { "/sign-up" } ELSE { "/sign-in" }

\* The links of the mobile menu that close it, and those that do not.  But for
\* "Log in" and "How it works", they are in the list of features.
ClosingLinks == { "/", "/sign-in" }
              \cup (IF nav.features THEN { "/dashboard" } ELSE {})
LeavingOpenLinks == IF nav.features THEN { "/dashboard", "/security" } ELSE {}

Linked(p) ==
    /\ FollowLink(p)
    /\ C!Show(HasBar(loc'), IsConsole(loc'), TRUE)

FollowConsoleLink ==
    \/ C!Links /\ \E p \in SidebarLinks : Linked(p)
    \/ console /\ \E p \in HeaderLinks : Linked(p)

FollowPublicLink ==
    \/ bar /\ \E p \in LogoLinks : Linked(p)
    \/ C!DesktopLinks /\ \E p \in BarLinks : Linked(p)
    \/ page \in Forms /\ provider = "local" /\ \E p \in FormLinks : Linked(p)

FollowMenuLink ==
    \E closes \in BOOLEAN : \E p \in (IF closes THEN ClosingLinks ELSE LeavingOpenLinks) :
        /\ FollowLink(p)
        /\ C!ShowFromMenu(HasBar(loc'), IsConsole(loc'), closes)

NewDocument ==
    /\ LoadDocument
    /\ C!Show(HasBar(to), IsConsole(to), FALSE)

SessionStep == InPlace /\ UNCHANGED chrome

\* Bound: the chrome of a document that is about to go is left alone.
ChromeStep  == to = Nil /\ C!InPlace /\ UNCHANGED vars

ShellNext ==
    \/ SessionStep \/ ChromeStep
    \/ FollowConsoleLink \/ FollowPublicLink \/ FollowMenuLink
    \/ NewDocument

\* The browser goes on with an address that is asked for, and a request of the
\* overview is answered or fails; then React runs what awaits it.
Fairness ==
    /\ WF_allVars((Redirected /\ UNCHANGED chrome) \/ NewDocument)
    /\ WF_allVars(Takes("stats") /\ UNCHANGED chrome)

ShellSpec == ShellInit /\ [][ShellNext]_allVars /\ Fairness

-----------------------------------------------------------------------------
(* Properties *)

\* SiteChrome: menu, sheet and sidebar are those of the window's width.
PanelsFitTheWindow == C!PanelsFitTheWindow
=============================================================================
