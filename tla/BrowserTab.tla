----------------------------- MODULE BrowserTab -----------------------------
(***************************************************************************)
(* A browser tab on one page of the application: the page's own scripts,   *)
(* the automatic refresh that every page has, and a user who acts while    *)
(* the tab is shown.  A page without a window.cassanovaRefresh is loaded   *)
(* again by the refresh, whatever it is in the middle of; the user can     *)
(* load it again at any time.  What survives is the server's state and the *)
(* two storages.                                                           *)
(*                                                                         *)
(* The pages share nothing but the interval of the refresh, so that a      *)
(* behaviour stays on one of them; to leave and to come back is a reload.  *)
(* The search box and the choice of an interval, which every page has, are *)
(* explored on a page of their own, and so is a tab that is hidden; on the *)
(* others the refresh may come at any time.                                *)
(***************************************************************************)
EXTENDS AutoRefresh, RecoveryPage, CqlConsole, RowForms, TopBar

VARIABLE page

Pages == {"search", "recovery", "console", "forms"}
others == <<searchVars, recoveryVars, consoleVars, formVars>>
vars == <<page, refreshVars, others>>

TypeOK ==
    /\ page \in Pages
    /\ RefreshTypeOK /\ SearchTypeOK /\ RecoveryTypeOK /\ ConsoleTypeOK /\ FormsTypeOK

Init ==
    /\ page \in Pages
    /\ RefreshInit /\ (page # "search" => ~storedInterval.set /\ ~hidden)
    /\ SearchInit /\ RecoveryInit /\ ConsoleInit /\ FormsInit

\* The variables of the other pages stay as they are.
OthersStay ==
    /\ UNCHANGED page
    /\ page # "search" => UNCHANGED searchVars
    /\ page # "recovery" => UNCHANGED recoveryVars
    /\ page # "console" => UNCHANGED consoleVars
    /\ page # "forms" => UNCHANGED formVars

Load ==
    /\ \/ page = "search" /\ LoadSearch
       \/ page = "recovery" /\ LoadRecovery
       \/ page = "console" /\ LoadConsole
       \/ page = "forms" /\ LoadForms
    /\ LoadRefresh
    /\ OthersStay

UserActs ==
    /\ ~hidden
    /\ \/ page = "search" /\ SearchUser
       \/ page = "recovery" /\ RecoveryUser
       \/ page = "console" /\ ConsoleUser
       \/ page = "forms" /\ FormsUser
    /\ UNCHANGED refreshVars /\ OthersStay

PageActs ==
    /\ \/ page = "search" /\ SearchNext
       \/ page = "recovery" /\ RecoveryNext
       \/ page = "console" /\ ConsoleNext
       \/ page = "forms" /\ FormsNext
    /\ UNCHANGED refreshVars /\ OthersStay

\* What the refresh does to the page: a page that has no hook is loaded again
\* (location.reload); the hook of the table's page fetches the grid (Explorer).
Refreshed ==
    \/ page \notin {"console", "forms"} /\ Load
    \/ page = "console" /\ cassanovaRefresh /\ UNCHANGED refreshVars /\ OthersStay

\* The timer is that of AutoRefresh on the search page.
Next ==
    \/ (page = "search" => doRefresh) /\ Refreshed
    \/ Load
    \/ UserActs \/ PageActs
    \/ page = "search" /\ RefreshNext /\ UNCHANGED <<page, others>>

OnRecovery(A) == page = "recovery" /\ A /\ UNCHANGED refreshVars /\ OthersStay

\* The timer of refreshDashboard goes on in a hidden tab, and a request that is
\* made again and again is some time answered.
Fairness ==
    /\ WF_vars(OnRecovery(Poll))
    /\ SF_vars(OnRecovery(\E answer \in polls : updateDashboard(answer)))

Spec == Init /\ [][Next]_vars /\ Fairness

\* Once the jobs stay as they are, the dashboard shows them again and again,
\* whatever answers come late or not at all, whichever dialog is open, and however
\* often the automatic refresh loads the page again (refreshDashboard).
DashboardCatchesUp ==
    page = "recovery" /\ <>[][UNCHANGED jobs]_vars => []<>(cards = jobs)

=============================================================================
