----------------------------- MODULE SiteChrome -----------------------------
(***************************************************************************)
(* What surrounds the pages: the navigation bar of the public site         *)
(* (src/apps/web/src/components/layout/navbar.tsx) with its menu for small *)
(* screens, and the sidebar of the console (app/dashboard/layout.tsx over  *)
(* components/ui/sidebar.tsx), which small screens get as a sheet.         *)
(*                                                                         *)
(* The window may become wide or narrow at any time; the components hear   *)
(* of it in an event, later.  The breakpoint of the style sheets, of       *)
(* useIsMobile and of the navigation bar is the same 768 pixels.           *)
(***************************************************************************)

VARIABLES
    bar,        \* is there a navigation bar? (components/layout-wrapper.tsx)
    console,    \* is there a sidebar?
    narrow,     \* is the window narrower than 768 pixels?
    resized,    \* the components have yet to hear of it
    nav,        \* the state of the navigation bar
    side        \* the state of the sidebar

vars == <<bar, console, narrow, resized, nav, side>>

FreshNav  == [ menu |-> FALSE, features |-> FALSE ]
FreshSide == [ open |-> TRUE, openMobile |-> FALSE, isMobile |-> FALSE ]

Init ==
    /\ bar \in BOOLEAN /\ console = FALSE
    /\ narrow \in BOOLEAN /\ resized = TRUE
    /\ nav = FreshNav /\ side = FreshSide

\* What the hook returns once the window's width is known.
useIsMobile == narrow

-----------------------------------------------------------------------------
(* What is shown. *)

MenuButton == bar /\ narrow
DesktopLinks == bar /\ ~narrow
Sheet      == console /\ side.isMobile /\ side.openMobile
Sidebar    == console /\ ~side.isMobile /\ ~narrow
SidebarState == IF side.open THEN "expanded" ELSE "collapsed"
Links      == Sheet \/ Sidebar

-----------------------------------------------------------------------------
(* The user. *)

Resize ==
    /\ narrow' = ~narrow /\ resized' = TRUE
    /\ UNCHANGED <<bar, console, nav, side>>

ToggleMenu ==
    /\ MenuButton
    /\ nav' = [ nav EXCEPT !.menu = ~@ ]
    /\ UNCHANGED <<bar, console, narrow, resized, side>>

\* The list of features keeps its state while the menu is closed.
ToggleFeatures ==
    /\ MenuButton /\ nav.menu
    /\ nav' = [ nav EXCEPT !.features = ~@ ]
    /\ UNCHANGED <<bar, console, narrow, resized, side>>

\* "Sign up" opens another tab, and closes the menu of this one.
SignUpInNewTab ==
    /\ MenuButton /\ nav.menu
    /\ nav' = [ nav EXCEPT !.menu = FALSE ]
    /\ UNCHANGED <<bar, console, narrow, resized, side>>

\* Ctrl+B, on every page of the console and whatever has the focus.
toggleSidebar ==
    /\ console
    /\ side' = IF side.isMobile THEN [ side EXCEPT !.openMobile = ~@ ]
                                ELSE [ side EXCEPT !.open = ~@ ]
    /\ UNCHANGED <<bar, console, narrow, resized, nav>>

\* The round button at the top of the sidebar, which is in the sheet as well:
\* there it collapses the sidebar that a wider window would show.
CollapseButton ==
    /\ Links
    /\ side' = [ side EXCEPT !.open = ~@ ]
    /\ UNCHANGED <<bar, console, narrow, resized, nav>>

\* Escape, or a click beside the sheet.
CloseSheet ==
    /\ Sheet
    /\ side' = [ side EXCEPT !.openMobile = FALSE ]
    /\ UNCHANGED <<bar, console, narrow, resized, nav>>

-----------------------------------------------------------------------------
(* The handlers of the resize event, and the effect of a fresh useIsMobile. *)

\* Mutant: a menu that was open stays open in a wide window.
handleResize_KeepsMenu ==
    /\ resized
    /\ resized' = FALSE
    /\ side' = IF console THEN [ side EXCEPT !.isMobile = useIsMobile ] ELSE side
    /\ UNCHANGED <<bar, console, narrow, nav>>

handleResize ==
    /\ resized
    /\ resized' = FALSE
    /\ nav' = IF bar /\ ~narrow THEN [ nav EXCEPT !.menu = FALSE ] ELSE nav
    /\ side' = IF console THEN [ side EXCEPT !.isMobile = useIsMobile ] ELSE side
    /\ UNCHANGED <<bar, console, narrow>>

-----------------------------------------------------------------------------
(* The page changes: what is not on the next page is unmounted, what is      *)
(* there already keeps its state.  A new document keeps nothing.             *)

Show(hasBar, isConsole, keep) ==
    /\ bar' = hasBar /\ console' = isConsole
    /\ nav'  = IF keep /\ bar /\ hasBar THEN nav ELSE FreshNav
    /\ side' = IF keep /\ console /\ isConsole THEN side ELSE FreshSide
    /\ resized' = (resized \/ (isConsole /\ ~(keep /\ console)))
    /\ UNCHANGED narrow

\* A link of the mobile menu.  Two of them, "Go to dashboard" and "Important
\* Security Notice", leave the menu open over the page they lead to.
ShowFromMenu(hasBar, isConsole, closes) ==
    /\ MenuButton /\ nav.menu
    /\ bar' = hasBar /\ console' = isConsole
    /\ nav' = IF ~hasBar THEN FreshNav
              ELSE [ nav EXCEPT !.menu = ~closes ]
    /\ side' = FreshSide
    /\ resized' = (resized \/ isConsole)
    /\ UNCHANGED narrow

InPlace ==
    \/ Resize \/ handleResize
    \/ ToggleMenu \/ ToggleFeatures \/ SignUpInNewTab
    \/ toggleSidebar \/ CollapseButton \/ CloseSheet

-----------------------------------------------------------------------------
(* Properties *)

\* Once the components have heard of the window's width, no menu for small
\* screens is open on a wide one, where no button would close it; and the
\* sidebar takes the window for what it is, so that the shortcut opens the
\* sheet exactly where there is no sidebar.
PanelsFitTheWindow ==
    ~resized => /\ nav.menu => narrow
                /\ console => (side.isMobile = narrow)
                /\ console => (Sidebar <=> ~narrow)
=============================================================================
