------------------------------ MODULE Console ------------------------------
(***************************************************************************)
(* The console: the overview, the playground and the e-mail configuration  *)
(* page, with the configuration's row that two of them show.  One page is  *)
(* mounted at a time (app/dashboard/layout.tsx renders it in the           *)
(* SidebarInset); what they show is also changed elsewhere all the while.  *)
(***************************************************************************)
EXTENDS WebApi

CONSTANTS
    MaxKeys,    \* API keys a user may have
    Addresses,  \* the recipients of passcodes
    Errors,     \* the texts an error can have
    MaxLog,     \* bound: rows in the log
    LogLimit,   \* rows among which failures are counted
    Recent      \* rows of each kind in the activity stream

VARIABLES
    smtp, log,                                  \* the server's rows
    tab, sendEmail, otp, sendCalls, stray,      \* the playground
    smtpUi, smtpCalls, smtpGhost,               \* the e-mail configuration page
    homeUi, homeCalls,                          \* the overview
    page                                        \* the page that is mounted

rows     == <<smtp, log>>
sendPage == <<tab, sendEmail, otp, sendCalls, stray>>
smtpPage == <<smtpUi, smtpCalls, smtpGhost>>
homePage == <<homeUi, homeCalls>>
vars == <<rows, sendPage, smtpPage, homePage, page>>

P == INSTANCE SendPage     WITH email <- sendEmail, calls <- sendCalls
S == INSTANCE SmtpPage     WITH ui <- smtpUi, calls <- smtpCalls, ghost <- smtpGhost
H == INSTANCE OverviewPage WITH ui <- homeUi, calls <- homeCalls

\* null is no configuration; the lists have room for a row.
ASSUME RowsAssumption == Nil \notin S!Rows
ASSUME LimitsAssumption == LogLimit \in Nat /\ Recent \in Nat \ {0}

Init ==
    /\ log = <<>>
    /\ P!Init
    /\ S!Init
    /\ homeUi = H!Closed /\ homeCalls = NoCalls
    /\ page = "none"

-----------------------------------------------------------------------------
\* A link of the sidebar: the page that is left is unmounted.
Navigate ==
    \/ /\ page = "none" /\ page' = "smtp"
       /\ S!OpenPage /\ UNCHANGED <<log, sendPage, homePage>>
    \/ /\ page = "none" /\ page' = "home"
       /\ H!OpenPage /\ UNCHANGED <<sendPage, smtpPage>>
    \/ /\ page = "none" /\ page' = "send"
       /\ P!Revisit /\ UNCHANGED <<rows, smtpPage, homePage>>
    \/ /\ page = "smtp" /\ page' = "none"
       /\ S!LeavePage /\ UNCHANGED <<log, sendPage, homePage>>
    \/ /\ page = "home" /\ page' = "none"
       /\ H!LeavePage /\ UNCHANGED <<sendPage, smtpPage>>
    \/ /\ page = "send" /\ page' = "none"
       /\ P!Revisit /\ UNCHANGED <<rows, smtpPage, homePage>>

SmtpStep ==
    /\ page = "smtp" /\ S!OnPage
    /\ UNCHANGED <<log, sendPage, homePage, page>>

HomeStep ==
    /\ page = "home" /\ H!OnPage
    /\ UNCHANGED <<sendPage, smtpPage, page>>

SendStep ==
    /\ page = "send" /\ P!OnPage
    /\ UNCHANGED <<rows, smtpPage, homePage, page>>

\* Another tab or device saves or removes the configuration.
Elsewhere ==
    /\ S!Elsewhere
    /\ UNCHANGED <<log, sendPage, homePage, page>>

Next == Navigate \/ SmtpStep \/ HomeStep \/ SendStep \/ Elsewhere

\* Every request of the playground is answered or fails in the end.
Spec ==
    /\ Init /\ [][Next]_vars
    /\ \A k \in P!Kinds : WF_vars(SendStep /\ P!Settle(k))

-----------------------------------------------------------------------------
(* Properties: those of the pages, in the console. *)

\* SendPage: a spinner stands for one request, with what is in the fields.
BusyMeansCalls == P!BusyMeansCalls

\* SendPage: "OTP Verified" is said of the address the code was sent to.
VerifiedIsForThisSend == P!VerifiedIsForThisSend

\* SendPage: each tab shows exactly one panel.
PanelsAgree == P!PanelsAgree

\* SendPage: every spinner stops.
SpinnersStop == P!SpinnersStop

\* SmtpPage: banner, sections and messages are those of the row.
SmtpPageIsTrue == S!SmtpPageIsTrue

\* OverviewPage: an older answer does not replace a newer one.
StatsNeverGoBack == H!StatsNeverGoBack

\* OverviewPage: "Emails Sent" is what was sent, but for failures of the moment.
SentIsAccountedFor == H!SentIsAccountedFor

\* OverviewPage: the activity stream leaves out nothing newer than it shows.
StreamIsComplete == H!StreamIsComplete
=============================================================================
