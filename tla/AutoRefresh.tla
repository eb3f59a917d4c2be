----------------------------- MODULE AutoRefresh -----------------------------
(***************************************************************************)
(* The automatic refresh of every page (scripts/app/auto-refresh.js): an   *)
(* interval the user selects, kept in localStorage, and one timer, stopped *)
(* while the tab is hidden.  What the timer does is the page's business: a *)
(* page's own window.cassanovaRefresh, or a reload where it has none.      *)
(***************************************************************************)
EXTENDS Naturals

CONSTANTS
    Intervals,       \* the keys of LABELS, 0 for Off
    DefaultInterval  \* DEFAULT_INTERVAL

ASSUME IntervalsAssumption ==
    /\ Intervals \subseteq Nat /\ 0 \in Intervals
    /\ DefaultInterval \in Intervals \ {0}

VARIABLES
    currentInterval,
    storedInterval,  \* localStorage: the interval chosen, if any
    timers,          \* how many timers of each interval run
    timerId,         \* the interval of the timer that timerId names, 0 for null
    hidden,          \* document.hidden
    loadedHidden     \* history: hidden since the page was loaded

refreshVars == <<currentInterval, storedInterval, timers, timerId, hidden, loadedHidden>>

RefreshTypeOK ==
    /\ currentInterval \in Intervals
    /\ storedInterval \in {[set |-> FALSE]} \cup [set: {TRUE}, ms: Intervals]
    /\ timers \in [Intervals -> Nat]
    /\ timerId \in Intervals
    /\ hidden \in BOOLEAN /\ loadedHidden \in BOOLEAN

\* The interval a page starts with.
Loaded == IF storedInterval.set THEN storedInterval.ms ELSE DefaultInterval

\* The timers when one of that interval runs, and none for Off.
Only(ms) == [i \in Intervals |-> IF i = ms /\ i # 0 THEN 1 ELSE 0]

\* A page may be opened in a tab that is not shown; it starts its timer there too.
RefreshInit ==
    /\ storedInterval \in {[set |-> FALSE]} \cup [set: {TRUE}, ms: Intervals]
    /\ currentInterval = Loaded
    /\ timers = Only(Loaded)
    /\ timerId = Loaded
    /\ hidden \in BOOLEAN /\ loadedHidden = hidden

\* A reload, or another page: its timers end with a page.
LoadRefresh ==
    /\ currentInterval' = Loaded
    /\ timers' = Only(Loaded)
    /\ timerId' = Loaded
    /\ loadedHidden' = hidden
    /\ UNCHANGED <<storedInterval, hidden>>

\* clearInterval of the timer that is named, if one is, and setInterval.
Cleared(i) == IF i = timerId /\ i # 0 THEN timers[i] - 1 ELSE timers[i]
Started(i, ms) == IF i = ms /\ i # 0 THEN 1 ELSE 0

\* As startTimer, the timer that runs being left to itself.
startTimerBeside(ms) ==
    /\ timers' = [i \in Intervals |-> timers[i] + Started(i, ms)]
    /\ timerId' = ms

startTimer(ms) ==
    /\ timers' = [i \in Intervals |-> Cleared(i) + Started(i, ms)]
    /\ timerId' = ms

stopTimer ==
    /\ timers' = [i \in Intervals |-> Cleared(i)]
    /\ timerId' = 0

selectInterval(ms) ==
    /\ ~hidden                              \* a click
    /\ currentInterval' = ms
    /\ storedInterval' = [set |-> TRUE, ms |-> ms]
    /\ startTimer(ms)
    /\ UNCHANGED <<hidden, loadedHidden>>

visibilitychange ==
    /\ hidden' = ~hidden
    /\ loadedHidden' = FALSE
    /\ IF hidden' THEN stopTimer ELSE startTimer(currentInterval)
    /\ UNCHANGED <<currentInterval, storedInterval>>

\* A timer calls doRefresh, which does nothing in a hidden tab.
doRefresh ==
    /\ \E i \in Intervals : timers[i] > 0
    /\ ~hidden

RefreshNext ==
    \/ \E ms \in Intervals : selectInterval(ms)
    \/ visibilitychange

\* Only the timer that timerId names runs, so that there is never a second one, of
\* whatever interval, that no choice of the user's could stop; a tab that is shown
\* has the one of the interval on display, a hidden tab has none unless its page was
\* loaded there, which starts one that does nothing (startTimer, stopTimer).
OneTimer ==
    /\ timers = Only(timerId)
    /\ timerId = IF hidden /\ ~loadedHidden THEN 0 ELSE currentInterval

=============================================================================
