-------------------------- MODULE BrowserPagesProofs --------------------------
(***************************************************************************)
(* Theorems about the pages in a browser: BrowserTab, for any intervals of *)
(* the refresh, any jobs, files, tables and scripts, and ReloadedPages,    *)
(* for any types, datacenters and factors and any size of the game.        *)
(*                                                                         *)
(* The first part is about the tab: its timer, the search of the top bar,  *)
(* the recovery page, the forms and the console.  Then come the pages      *)
(* that the refresh loads again: the table designer, the keyspace          *)
(* designer, the game, and the three of them together.                     *)
(***************************************************************************)
EXTENDS BrowserTab, ReloadedPages, SubsequencesProofs

(* The timer that runs is the one the next choice, or the hiding of the    *)
(* tab, will stop.                                                         *)
RefreshIInv ==
    /\ currentInterval \in Intervals
    /\ storedInterval \in {[set |-> FALSE]} \cup [set: {TRUE}, ms: Intervals]
    /\ hidden \in BOOLEAN /\ loadedHidden \in BOOLEAN /\ (loadedHidden => hidden)
    /\ OneTimer

LEMMA RefreshInvariants == RefreshIInv => RefreshTypeOK /\ OneTimer
<1> SUFFICES ASSUME RefreshIInv PROVE RefreshTypeOK
  BY DEF RefreshIInv
<1>1. timerId \in Intervals
  BY IntervalsAssumption DEF RefreshIInv, OneTimer
<1>2. timers \in [Intervals -> Nat]
  <2>1. timers = Only(timerId)
    BY DEF RefreshIInv, OneTimer
  <2> QED
    BY <2>1 DEF Only
<1> QED
  BY <1>1, <1>2 DEF RefreshIInv, RefreshTypeOK

LEMMA LoadedIsInterval ==
    ASSUME storedInterval \in {[set |-> FALSE]} \cup [set: {TRUE}, ms: Intervals]
    PROVE  Loaded \in Intervals
<1>1. CASE storedInterval = [set |-> FALSE]
  <2>1. storedInterval.set = FALSE
    BY <1>1
  <2> QED
    BY <2>1, IntervalsAssumption DEF Loaded
<1>2. CASE storedInterval \in [set: {TRUE}, ms: Intervals]
  <2>1. storedInterval.set = TRUE /\ storedInterval.ms \in Intervals
    BY <1>2
  <2> QED
    BY <2>1 DEF Loaded
<1> QED
  BY <1>1, <1>2

LEMMA InitRefresh == RefreshInit => RefreshIInv
<1> SUFFICES ASSUME RefreshInit PROVE RefreshIInv
  OBVIOUS
<1>1. currentInterval = Loaded /\ timerId = Loaded /\ timers = Only(Loaded) /\ Loaded \in Intervals
  BY LoadedIsInterval DEF RefreshInit
<1>2. hidden \in BOOLEAN /\ loadedHidden = hidden
  BY DEF RefreshInit
<1>3. OneTimer
  BY <1>1, <1>2 DEF OneTimer
<1>4. storedInterval \in {[set |-> FALSE]} \cup [set: {TRUE}, ms: Intervals]
  BY DEF RefreshInit
<1> QED
  BY <1>1, <1>2, <1>3, <1>4 DEF RefreshIInv

(* A page that is loaded has the timer of the interval kept, hidden or not. *)
LEMMA LoadRefreshInvariant == ASSUME RefreshIInv, LoadRefresh PROVE RefreshIInv'
  BY LoadedIsInterval DEF LoadRefresh, RefreshIInv, OneTimer, Only

(* The timer that is named is all that runs, so that to clear it leaves none. *)
LEMMA ClearedLeavesNone ==
    ASSUME OneTimer, NEW i \in Intervals
    PROVE  Cleared(i) = 0
<1>1. timers[i] = IF i = timerId /\ i # 0 THEN 1 ELSE 0
  BY DEF OneTimer, Only
<1> QED
  BY <1>1 DEF Cleared

(* A choice of the interval, and the hiding of the tab: the timer that runs *)
(* is stopped first.                                                        *)
LEMMA RefreshStep == ASSUME RefreshIInv, RefreshNext PROVE RefreshIInv'
<1>0. OneTimer /\ \A i \in Intervals : Cleared(i) = 0
  BY ClearedLeavesNone DEF RefreshIInv
<1>1. ASSUME NEW ms, startTimer(ms) PROVE timers' = Only(ms) /\ timerId' = ms
  <2>1. ASSUME NEW i \in Intervals
        PROVE  Cleared(i) + Started(i, ms) = IF i = ms /\ i # 0 THEN 1 ELSE 0
    <3>1. Cleared(i) = 0
      BY <1>0
    <3> QED
      BY <3>1 DEF Started
  <2> QED
    BY <1>1, <2>1 DEF startTimer, Only
<1>2. ASSUME stopTimer PROVE timers' = Only(0) /\ timerId' = 0
  BY <1>0, <1>2 DEF stopTimer, Only
<1>3. ASSUME NEW ms \in Intervals, selectInterval(ms) PROVE RefreshIInv'
  <2>1. timers' = Only(ms) /\ timerId' = ms /\ currentInterval' = ms
    BY <1>1, <1>3 DEF selectInterval
  <2>2. OneTimer'
    BY <1>3, <2>1 DEF selectInterval, OneTimer, Only
  <2> QED
    BY <1>3, <2>2 DEF selectInterval, RefreshIInv
<1>4. CASE visibilitychange
  <2>1. CASE hidden
    <3>1. timers' = Only(currentInterval) /\ timerId' = currentInterval /\ hidden' = FALSE
      BY <1>1, <1>4, <2>1 DEF visibilitychange
    <3>2. OneTimer'
      BY <1>4, <3>1 DEF visibilitychange, OneTimer, Only
    <3> QED
      BY <1>4, <3>1, <3>2 DEF visibilitychange, RefreshIInv
  <2>2. CASE ~hidden
    <3>1. timers' = Only(0) /\ timerId' = 0 /\ hidden' = TRUE /\ loadedHidden' = FALSE
      BY <1>2, <1>4, <2>2 DEF visibilitychange
    <3>2. OneTimer'
      BY <3>1 DEF OneTimer, Only
    <3> QED
      BY <1>4, <3>1, <3>2 DEF visibilitychange, RefreshIInv
  <2> QED
    BY <2>1, <2>2
<1> QED
  BY <1>3, <1>4 DEF RefreshNext

LEMMA RefreshStutter == ASSUME RefreshIInv, UNCHANGED refreshVars PROVE RefreshIInv'
  BY DEF refreshVars, RefreshIInv, OneTimer, Only

-------------------------------------------------------------------------------
(* The two dialogs of the recovery page share their selection. *)
LEMMA RecoveryKeepsSelection ==
    ASSUME SelectionIsTheOneNamed, RecoveryUser \/ RecoveryNext
    PROVE  SelectionIsTheOneNamed'
<1>1. ASSUME NEW j \in Jobs, openApproveModal(j) \/ openCancelModal(j)
      PROVE  SelectionIsTheOneNamed'
  BY <1>1, JobsAssumption DEF openApproveModal, openCancelModal, NoDialogOpen, SelectionIsTheOneNamed
<1>2. CASE closeApproveModal \/ closeCancelModal
  BY <1>2 DEF closeApproveModal, closeCancelModal, HideApproveModal, HideCancelModal,
              SelectionIsTheOneNamed
<1>3. ASSUME NEW i, ActionSucceeds(i) PROVE SelectionIsTheOneNamed'
  BY <1>3 DEF ActionSucceeds, HideApproveModal, HideCancelModal, SelectionIsTheOneNamed
<1>4. CASE UNCHANGED dialogs
  BY <1>4 DEF dialogs, SelectionIsTheOneNamed, NoDialogOpen
<1>5. \/ \E j \in Jobs : openApproveModal(j) \/ openCancelModal(j)
      \/ closeApproveModal \/ closeCancelModal
      \/ \E i \in 1..MaxActions : ActionSucceeds(i)
      \/ UNCHANGED dialogs
  BY DEF RecoveryUser, RecoveryNext, confirmApprove, confirmCancel, Confirm, JobMoves, Poll,
         updateDashboard, PollFails, ServerGrants, ActionFails
<1> QED
  BY <1>1, <1>2, <1>3, <1>4, <1>5

-------------------------------------------------------------------------------
(* The console: its histories, its scripts, and its schema. *)

(* No statement twice. *)
Distinct(s) == \A i, j \in 1..Len(s) : s[i] = s[j] => i = j

LEMMA DistinctIsCounted ==
    ASSUME NEW S, NEW s \in Seq(S), Distinct(s)
    PROVE  Cardinality(Range(s)) = Len(s)
<1>1. Len(s) \in Nat /\ DOMAIN s = 1..Len(s)
  BY LenProperties
<1>2. s \in Bijection(1..Len(s), Range(s))
  <2>1. s \in [1..Len(s) -> Range(s)] /\ Range(s) = {s[i] : i \in 1..Len(s)}
    BY <1>1, LenProperties DEF Range
  <2> QED
    BY <2>1 DEF Distinct, Bijection, Injection, Surjection, IsInjective
<1> QED
  BY <1>1, <1>2, IntervalFacts, FS_Bijection DEF ExistsBijection

HistoryOK(s) == s \in Seq(Statements) /\ Distinct(s) /\ Len(s) <= MaxHistory

(* What is remembered is in the history, or the history is full. *)
LEMMA RememberFacts ==
    ASSUME HistoryOK(queryHistory), NEW stmt \in Statements
    PROVE  /\ HistoryOK(Remember(stmt))
           /\ \/ Len(Remember(stmt)) = MaxHistory
              \/ /\ Len(queryHistory) # MaxHistory
                 /\ Range(queryHistory) \cup {stmt} \subseteq Range(Remember(stmt))
<1> DEFINE q == queryHistory
           n == Len(q)
           longer == <<stmt>> \o q
<1>1. q \in Seq(Statements) /\ n \in Nat /\ DOMAIN q = 1..n /\ n <= MaxHistory /\ Distinct(q)
  BY LenProperties DEF HistoryOK
<1>2. CASE stmt \in Range(q)
  BY <1>1, <1>2 DEF Remember, HistoryOK
<1>3. CASE stmt \notin Range(q)
  <2>1. /\ longer \in Seq(Statements) /\ Len(longer) = n + 1
        /\ \A i \in 1..n + 1 : longer[i] = IF i <= 1 THEN stmt ELSE q[i - 1]
    <3>1. <<stmt>> \in Seq(Statements) /\ Len(<<stmt>>) = 1 /\ <<stmt>>[1] = stmt
      OBVIOUS
    <3>2. /\ longer \in Seq(Statements) /\ Len(longer) = 1 + n
          /\ \A i \in 1..1 + n : longer[i] = IF i <= 1 THEN <<stmt>>[i] ELSE q[i - 1]
      BY <1>1, <3>1, ConcatProperties
    <3> HIDE DEF longer, q
    <3> QED
      BY <1>1, <3>1, <3>2
  <2> HIDE DEF longer, n
  <2>2. \A i \in 1..n : stmt # q[i]
    BY <1>1, <1>3 DEF Range
  <2>3. Distinct(longer)
    <3> SUFFICES ASSUME NEW i \in 1..n + 1, NEW j \in 1..n + 1, longer[i] = longer[j], i # j
                 PROVE  FALSE
      BY <2>1 DEF Distinct
    <3>1. CASE i = 1
      <4>1. j - 1 \in 1..n /\ longer[j] = q[j - 1] /\ longer[i] = stmt
        BY <1>1, <2>1, <3>1
      <4> QED
        BY <2>2, <4>1
    <3>2. CASE j = 1
      <4>1. i - 1 \in 1..n /\ longer[i] = q[i - 1] /\ longer[j] = stmt
        BY <1>1, <2>1, <3>2
      <4> QED
        BY <2>2, <4>1
    <3>3. CASE i # 1 /\ j # 1
      <4>1. i - 1 \in 1..n /\ j - 1 \in 1..n /\ longer[i] = q[i - 1] /\ longer[j] = q[j - 1]
        BY <1>1, <2>1, <3>3
      <4>2. i - 1 = j - 1
        BY <1>1, <4>1 DEF Distinct, n
      <4> QED
        BY <1>1, <4>2
    <3> QED
      BY <3>1, <3>2, <3>3
  <2>4. CASE Len(longer) > MaxHistory
    <3>1. n = MaxHistory /\ longer # <<>>
      BY <1>1, <2>1, <2>4, ConsoleBounds
    <3>2. Front(longer) \in Seq(Statements) /\ Len(Front(longer)) = n
          /\ \A k \in 1..n : Front(longer)[k] = longer[k]
      <4>1. Len(longer) - 1 = n
        BY <1>1, <2>1
      <4> QED
        BY <2>1, <3>1, <4>1, FrontFacts
    <3>3. Distinct(Front(longer))
      BY <1>1, <2>1, <2>3, <3>2 DEF Distinct
    <3>4. Remember(stmt) = Front(longer)
      BY <1>3, <2>4 DEF Remember, longer
    <3> QED
      BY <1>1, <3>1, <3>2, <3>3, <3>4 DEF HistoryOK
  <2>5. CASE ~(Len(longer) > MaxHistory)
    <3>1. Remember(stmt) = longer
      BY <1>3, <2>5 DEF Remember, longer
    <3>2. HistoryOK(longer) /\ n # MaxHistory
      BY <1>1, <2>1, <2>3, <2>5, ConsoleBounds DEF HistoryOK
    <3>3. DOMAIN longer = 1..n + 1
      BY <2>1, LenProperties
    <3>4. stmt \in Range(longer)
      <4>1. 1 \in 1..n + 1 /\ longer[1] = stmt
        BY <1>1, <2>1
      <4> QED
        BY <3>3, <4>1 DEF Range
    <3>5. ASSUME NEW i \in 1..n PROVE q[i] \in Range(longer)
      <4>1. i + 1 \in 1..n + 1 /\ longer[i + 1] = q[i]
        BY <1>1, <2>1
      <4> QED
        BY <3>3, <4>1 DEF Range
    <3>6. Range(q) \subseteq Range(longer)
      BY <1>1, <3>5 DEF Range
    <3> QED
      BY <3>1, <3>2, <3>4, <3>6 DEF n
  <2> QED
    BY <2>4, <2>5
<1> QED
  BY <1>2, <1>3

(* The drawer and the store hold one history, that on display another; of  *)
(* each, what has to be in it is, unless it is full.                       *)
RanStatements == UNION {run[r].ran : r \in Runs}

Histories ==
    /\ HistoryOK(queryHistory) /\ HistoryOK(storedHistory)
    /\ DrawerIsStored /\ FinishedScriptsStored
    /\ finished \subseteq Statements /\ failed \subseteq Statements
    /\ \/ Len(queryHistory) = MaxHistory
       \/ finished \cup failed \cup RanStatements \subseteq Range(queryHistory)

Scripting ==
    /\ run \in [Runs -> [left: Seq(Statements), ran: SUBSET Statements]]
    /\ disabled \in BOOLEAN
    /\ resultOf \in {"nothing", "running", "results", "error"}
    /\ ButtonComesBack

Schemas ==
    /\ serverSchema \in Version \ {0}
    /\ clusterSchema \in Version /\ cachedSchema \in Version
    /\ schemaFetches \in Seq(Version \ {0}) /\ Len(schemaFetches) <= MaxFetches

ConsoleIInv == Histories /\ Scripting /\ Schemas

LEMMA ConsoleInvariants == ConsoleIInv => ConsoleTypeOK /\ ConsoleAgrees
  BY DistinctIsCounted
     DEF ConsoleIInv, Histories, Scripting, Schemas, HistoryOK, ConsoleTypeOK, ConsoleAgrees,
         HistoryIsBoundedSet, DrawerIsStored, FailedScriptsKept

LEMMA EmptyHistory == HistoryOK(<<>>) /\ Range(<<>>) = {}
  BY ConsoleBounds, EmptySeq DEF HistoryOK, Distinct, Range

LEMMA InitConsole == ConsoleInit => ConsoleIInv
<1> SUFFICES ASSUME ConsoleInit PROVE ConsoleIInv
  OBVIOUS
<1>1. Histories
  BY EmptyHistory DEF ConsoleInit, Histories, DrawerIsStored, FinishedScriptsStored, RanStatements, Idle
<1>2. Scripting
  BY EmptySeq DEF ConsoleInit, Scripting, Idle, ButtonComesBack
<1>3. Schemas
  <2>1. 1 \in Version \ {0} /\ 0 \in Version
    BY ConsoleBounds DEF Version
  <2>2. <<1>> \in Seq(Version \ {0}) /\ Len(<<1>>) = 1
    BY <2>1
  <2> QED
    BY <2>1, <2>2, ConsoleBounds DEF ConsoleInit, Schemas
<1> QED
  BY <1>1, <1>2, <1>3 DEF ConsoleIInv

LEMMA LoadConsoleInvariant == ASSUME ConsoleIInv, LoadConsole PROVE ConsoleIInv'
<1>1. Histories'
  <2>1. \A r \in Runs : run'[r].ran = {}
    BY DEF LoadConsole, Idle
  <2>2. RanStatements' = {}
    BY <2>1 DEF RanStatements
  <2> QED
    BY <2>2 DEF LoadConsole, ConsoleIInv, Histories, HistoryOK, Distinct, DrawerIsStored,
                FinishedScriptsStored
<1>2. Scripting'
  BY EmptySeq DEF LoadConsole, Scripting, Idle, ButtonComesBack
<1>3. Schemas'
  <2>1. <<serverSchema>> \in Seq(Version \ {0}) /\ Len(<<serverSchema>>) = 1 /\ 0 \in Version
    BY ConsoleBounds DEF ConsoleIInv, Schemas, Version
  <2> QED
    BY <2>1, ConsoleBounds DEF LoadConsole, ConsoleIInv, Schemas
<1> QED
  BY <1>1, <1>2, <1>3 DEF ConsoleIInv

(* One statement of a script returns. *)
LEMMA ReturnedFacts ==
    ASSUME ConsoleIInv, NEW r \in Runs, Returned(r)
    PROVE  /\ HistoryOK(queryHistory')
           /\ run' \in [Runs -> [left: Seq(Statements), ran: SUBSET Statements]]
           /\ run'[r].left = Tail(run[r].left)
           /\ \/ Len(queryHistory') = MaxHistory
              \/ finished \cup failed \cup RanStatements' \subseteq Range(queryHistory')
<1> DEFINE stmt == Head(run[r].left)
<1>1. run[r].left \in Seq(Statements) /\ run[r].ran \subseteq Statements /\ run[r].left # <<>>
  BY DEF ConsoleIInv, Scripting, Returned, Running
<1>2. stmt \in Statements /\ Tail(run[r].left) \in Seq(Statements)
  BY <1>1, HeadTailProperties
<1>3. queryHistory' = Remember(stmt)
  BY DEF Returned
<1>4. run' = [run EXCEPT ![r] = [left |-> Tail(run[r].left), ran |-> run[r].ran \cup {stmt}]]
  BY DEF Returned
<1> HIDE DEF stmt
<1>5. /\ run' \in [Runs -> [left: Seq(Statements), ran: SUBSET Statements]]
      /\ run'[r].left = Tail(run[r].left)
      /\ run'[r].ran = run[r].ran \cup {stmt}
      /\ \A s \in Runs \ {r} : run'[s] = run[s]
  BY <1>1, <1>2, <1>4 DEF ConsoleIInv, Scripting
<1>6. RanStatements' \subseteq RanStatements \cup {stmt}
  BY <1>5 DEF RanStatements
<1> QED
  BY <1>2, <1>3, <1>5, <1>6, RememberFacts DEF ConsoleIInv, Histories

LEMMA ScriptsInvariant ==
    ASSUME ConsoleIInv,
           \/ \E r \in Runs, script \in Scripts : runQuery(r, script)
           \/ NothingToRun \/ ClearHistory
           \/ \E r \in Runs : StatementReturns(r) \/ ScriptReturns(r) \/ ScriptFails(r)
    PROVE  Histories' /\ Scripting' /\ UNCHANGED schemaVars
<1> DEFINE Runs_ == [Runs -> [left: Seq(Statements), ran: SUBSET Statements]]
<1>0. Histories /\ Scripting
  BY DEF ConsoleIInv
<1>1. ASSUME NEW r \in Runs, NEW script \in Scripts, runQuery(r, script)
      PROVE  Histories' /\ Scripting' /\ UNCHANGED schemaVars
  <2>1. script \in Seq(Statements) /\ script # <<>>
    BY ScriptsAssumption
  <2>2. /\ run' \in Runs_ /\ run'[r].left = script /\ run'[r].ran = {}
        /\ \A s \in Runs \ {r} : run'[s] = run[s]
    BY <1>0, <1>1, <2>1 DEF runQuery, Scripting
  <2>3. RanStatements' \subseteq RanStatements
    BY <2>2 DEF RanStatements
  <2>4. Histories'
    BY <1>0, <1>1, <2>3 DEF runQuery, historyVars, Histories, HistoryOK, Distinct, DrawerIsStored,
                            FinishedScriptsStored
  <2>5. Scripting'
    BY <1>1, <2>1, <2>2 DEF runQuery, Scripting, ButtonComesBack, Running
  <2> QED
    BY <1>1, <2>4, <2>5 DEF runQuery
<1>2. CASE NothingToRun
  BY <1>0, <1>2 DEF NothingToRun, historyVars, Histories, HistoryOK, Distinct, DrawerIsStored,
                    FinishedScriptsStored, RanStatements, Scripting, ButtonComesBack, Running
<1>3. CASE ClearHistory
  <2>1. /\ run' \in Runs_
        /\ \A r \in Runs : run'[r].ran = {} /\ run'[r].left = run[r].left
    <3>1. run' = [r \in Runs |-> [run[r] EXCEPT !.ran = {}]] /\ run \in Runs_
      BY <1>0, <1>3 DEF ClearHistory, Scripting
    <3> QED
      BY <3>1
  <2>2. RanStatements' = {}
    BY <2>1 DEF RanStatements
  <2>3. Histories'
    BY <1>3, <2>2, EmptyHistory DEF ClearHistory, Histories, DrawerIsStored, FinishedScriptsStored
  <2>4. Scripting'
    BY <1>0, <1>3, <2>1 DEF ClearHistory, Scripting, ButtonComesBack, Running
  <2> QED
    BY <1>3, <2>3, <2>4 DEF ClearHistory
<1>4. ASSUME NEW r \in Runs, StatementReturns(r)
      PROVE  Histories' /\ Scripting' /\ UNCHANGED schemaVars
  <2>1. Returned(r) /\ UNCHANGED <<storedHistory, historyList, finished, failed, disabled, resultOf>>
    BY <1>4 DEF StatementReturns
  <2>2. Histories'
    BY <1>0, <2>1, ReturnedFacts DEF Histories, HistoryOK, Distinct, DrawerIsStored, FinishedScriptsStored
  <2>3. run'[r].left # <<>>
    <3> DEFINE s == run[r].left
               n == Len(s)
               m == Len(Tail(s))
    <3>1. s \in Seq(Statements) /\ n > 1
      BY <1>0, <1>4 DEF StatementReturns, Scripting
    <3>2. n \in Nat /\ s # <<>>
      BY <3>1, LenProperties, EmptySeq
    <3>3. m = n - 1
      BY <3>1, <3>2, HeadTailProperties
    <3>4. m # 0
      <4> HIDE DEF m, n
      <4> QED
        BY <3>1, <3>2, <3>3
    <3>5. Tail(s) # <<>>
      BY <3>4, EmptySeq
    <3> QED
      BY <2>1, <3>5, ReturnedFacts
  <2>4. Scripting'
    BY <1>0, <2>1, <2>3, ReturnedFacts DEF Scripting, ButtonComesBack, Running
  <2> QED
    BY <2>1, <2>2, <2>4 DEF Returned
<1>5. ASSUME NEW r \in Runs, ScriptReturns(r)
      PROVE  Histories' /\ Scripting' /\ UNCHANGED schemaVars
  <2>1. /\ Returned(r) /\ disabled' = FALSE /\ resultOf' = "results"
        /\ storedHistory' = queryHistory' /\ historyList' = queryHistory'
        /\ finished' = finished \cup run'[r].ran \cup failed /\ failed' = {}
    BY <1>5 DEF ScriptReturns
  <2>2. /\ finished' \subseteq finished \cup failed \cup RanStatements'
        /\ run'[r].ran \subseteq Statements
    BY <2>1, ReturnedFacts DEF RanStatements
  <2>3. Histories'
    BY <1>0, <2>1, <2>2, ReturnedFacts DEF Histories, HistoryOK, Distinct, DrawerIsStored, FinishedScriptsStored
  <2>4. Scripting'
    BY <2>1, ReturnedFacts DEF Scripting, ButtonComesBack
  <2> QED
    BY <2>1, <2>3, <2>4 DEF Returned
<1>6. ASSUME NEW r \in Runs, ScriptFails(r)
      PROVE  Histories' /\ Scripting' /\ UNCHANGED schemaVars
  <2>1. /\ run' \in Runs_ /\ run'[r].ran = {}
        /\ \A s \in Runs \ {r} : run'[s] = run[s]
    BY <1>0, <1>6, EmptySeq DEF ScriptFails, Scripting, Idle
  <2>2. failed' \cup RanStatements' \subseteq failed \cup RanStatements
    BY <1>6, <2>1 DEF ScriptFails, RanStatements
  <2>3. failed' \subseteq Statements
    BY <1>0, <1>6 DEF ScriptFails, Histories, Scripting
  <2> QED
    BY <1>0, <1>6, <2>1, <2>2, <2>3
       DEF ScriptFails, historyVars, Histories, HistoryOK, Distinct, DrawerIsStored,
           FinishedScriptsStored, Scripting, ButtonComesBack
<1> QED
  BY <1>1, <1>2, <1>3, <1>4, <1>5, <1>6

LEMMA SchemasInvariant ==
    ASSUME Schemas,
           \/ SchemaChanges \/ cassanovaRefresh
           \/ \E i \in DOMAIN schemaFetches : fetchSchemaReturns(i) \/ fetchSchemaFails(i)
    PROVE  Schemas' /\ UNCHANGED <<historyVars, runVars>>
<1>0. /\ schemaFetches \in Seq(Version \ {0}) /\ serverSchema \in Version \ {0}
      /\ Version \subseteq Nat /\ 0 \in Version
  BY ConsoleBounds DEF Schemas, Version
<1>1. CASE SchemaChanges
  <2>1. serverSchema' \in Version \ {0}
    BY <1>0, <1>1, ConsoleBounds DEF SchemaChanges, Version
  <2> QED
    BY <1>1, <2>1 DEF SchemaChanges, Schemas
<1>2. CASE cassanovaRefresh
  <2>1. schemaFetches' \in Seq(Version \ {0}) /\ Len(schemaFetches') = Len(schemaFetches) + 1
    BY <1>0, <1>2, AppendProperties DEF cassanovaRefresh
  <2>2. Len(schemaFetches') <= MaxFetches
    BY <1>0, <1>2, <2>1, LenProperties, ConsoleBounds DEF cassanovaRefresh
  <2> QED
    BY <1>0, <1>2, <2>1, <2>2 DEF cassanovaRefresh, Schemas
<1>3. ASSUME NEW i \in DOMAIN schemaFetches, fetchSchemaReturns(i) \/ fetchSchemaFails(i)
      PROVE  Schemas' /\ UNCHANGED <<historyVars, runVars>>
  <2>1. i \in 1..Len(schemaFetches) /\ Len(schemaFetches) \in Nat /\ schemaFetches[i] \in Version \ {0}
    BY <1>0, LenProperties, ElementOfSeq
  <2>2. schemaFetches' = RemoveAt(schemaFetches, i)
    BY <1>3 DEF fetchSchemaReturns, fetchSchemaFails
  <2>3. schemaFetches' \in Seq(Version \ {0}) /\ Len(schemaFetches') = Len(schemaFetches) - 1
    BY <1>0, <2>1, <2>2, RemoveAtFacts
  <2>4. Len(schemaFetches') <= MaxFetches
    BY <2>1, <2>3, ConsoleBounds DEF Schemas
  <2> QED
    BY <1>3, <2>1, <2>3, <2>4 DEF fetchSchemaReturns, fetchSchemaFails, Schemas
<1> QED
  BY <1>1, <1>2, <1>3

LEMMA ConsoleStep ==
    ASSUME ConsoleIInv, ConsoleUser \/ ConsoleNext \/ cassanovaRefresh PROVE ConsoleIInv'
<1>1. CASE \/ \E r \in Runs, script \in Scripts : runQuery(r, script)
           \/ NothingToRun \/ ClearHistory
           \/ \E r \in Runs : StatementReturns(r) \/ ScriptReturns(r) \/ ScriptFails(r)
  BY <1>1, ScriptsInvariant DEF ConsoleIInv, Schemas, schemaVars
<1>2. CASE \/ SchemaChanges \/ cassanovaRefresh
           \/ \E i \in DOMAIN schemaFetches : fetchSchemaReturns(i) \/ fetchSchemaFails(i)
  BY <1>2, SchemasInvariant
     DEF ConsoleIInv, historyVars, runVars, Histories, HistoryOK, Distinct, DrawerIsStored,
         FinishedScriptsStored, RanStatements, Scripting, ButtonComesBack, Running
<1> QED
  BY <1>1, <1>2 DEF ConsoleUser, ConsoleNext

LEMMA ConsoleStutter == ASSUME ConsoleIInv, UNCHANGED consoleVars PROVE ConsoleIInv'
  BY DEF consoleVars, schemaVars, historyVars, runVars, ConsoleIInv, Histories, HistoryOK, Distinct,
         DrawerIsStored, FinishedScriptsStored, RanStatements, Scripting, ButtonComesBack, Running,
         Schemas

-------------------------------------------------------------------------------
(* The search box: its index, and what it finds in it. *)
LEMMA ItemsAreItems == Items \in Seq(Item) /\ DOMAIN Items = 1..Len(Items)
<1> DEFINE l == Len(Clusters)
<1>1. l \in Nat /\ \A i \in 1..l : Clusters[i] \in Range(Clusters)
  BY SearchAssumption, LenProperties, ElementOfSeq
<1>2. ASSUME NEW n \in 1..3 * l PROVE Items[n] \in Item
  <2> DEFINE t == ((n - 1) % 3) + 1
             c == ((n - 1) \div 3) + 1
  <2>1. t \in 1..3 /\ c \in 1..l
    <3> HIDE DEF l
    <3> QED
      BY <1>1
  <2>2. Items[n] = [type |-> <<"page", "keyspace", "table">>[t], cluster |-> Clusters[c]]
    BY DEF Items
  <2> HIDE DEF t, c
  <2>3. <<"page", "keyspace", "table">>[t] \in Types
    BY <2>1 DEF Types
  <2> QED
    BY <1>1, <2>1, <2>2, <2>3 DEF Item
<1>3. DOMAIN Items = 1..3 * l /\ Items = [n \in 1..3 * l |-> Items[n]] /\ 3 * l \in Nat
  BY <1>1 DEF Items
<1>4. Items \in [1..3 * l -> Item]
  BY <1>2, <1>3
<1>5. Items \in Seq(Item)
  BY <1>3, <1>4
<1> QED
  BY <1>5, LenProperties

LEMMA IndexTypes == ASSUME NEW schemas PROVE buildSearchIndex(schemas) \in Seq(Item)
<1> DEFINE I == {n \in DOMAIN Items : Items[n].type = "page" \/ Items[n].cluster \in schemas}
           first == [type |-> "page", cluster |-> NoCluster]
<1>1. Subsequence(Items, I) \in Seq(Item)
  <2>1. I \in SUBSET DOMAIN Items
    OBVIOUS
  <2> HIDE DEF I
  <2> QED
    BY <2>1, ItemsAreItems, SubsequenceFacts
<1>2. first \in Item
  BY DEF Item, Types
<1>3. <<first>> \in Seq(Item)
  <2> HIDE DEF first
  <2> QED
    BY <1>2
<1> QED
  BY <1>1, <1>3, ConcatProperties DEF buildSearchIndex

(* A part of a sequence has what the sequence has at its places. *)
LEMMA PartFacts ==
    ASSUME NEW S, NEW s \in Seq(S), NEW I \in SUBSET DOMAIN s
    PROVE  /\ Subsequence(s, I) \in Seq(S)
           /\ \A k \in 1..Len(Subsequence(s, I)) : \E i \in I : Subsequence(s, I)[k] = s[i]
           /\ \A i \in I : \E k \in 1..Len(Subsequence(s, I)) : Subsequence(s, I)[k] = s[i]
<1> DEFINE part == Subsequence(s, I)
<1>1. /\ part \in Seq(S)
      /\ \A k \in DOMAIN part : \E i \in I : part[k] = s[i]
      /\ \A i \in I : \E k \in DOMAIN part : part[k] = s[i]
  BY SubsequenceFacts
<1>2. DOMAIN part = 1..Len(part)
  BY <1>1, LenProperties
<1> HIDE DEF part
<1> QED
  BY <1>1, <1>2 DEF part

LEMMA RankedFacts ==
    ASSUME NEW matched \in Seq(Item), NEW q
    PROVE  /\ Ranked(matched, q) \in Seq(Item)
           /\ \A i \in DOMAIN matched : matched[i].cluster = CurrentCluster =>
                 \E p \in 1..Len(Ranked(matched, q)) :
                    /\ Ranked(matched, q)[p] = matched[i]
                    /\ \A r \in 1..Len(Ranked(matched, q)) :
                          Ranked(matched, q)[r].cluster # CurrentCluster => p < r
<1> DEFINE I(current, prefix) == {i \in DOMAIN matched :
                /\ (matched[i].cluster = CurrentCluster) <=> current
                /\ Prefix(q, matched[i]) <=> prefix}
           A == Subsequence(matched, I(TRUE, TRUE))
           B == Subsequence(matched, I(TRUE, FALSE))
           C == Subsequence(matched, I(FALSE, TRUE))
           D == Subsequence(matched, I(FALSE, FALSE))
           own == A \o B
           rest == C \o D
<1>1. Ranked(matched, q) = ((A \o B) \o C) \o D
  BY DEF Ranked
<1>2. /\ A \in Seq(Item) /\ B \in Seq(Item) /\ C \in Seq(Item) /\ D \in Seq(Item)
      /\ \A k \in 1..Len(A) : A[k].cluster = CurrentCluster
      /\ \A k \in 1..Len(B) : B[k].cluster = CurrentCluster
      /\ \A i \in DOMAIN matched : matched[i].cluster = CurrentCluster =>
            \/ \E k \in 1..Len(A) : A[k] = matched[i]
            \/ \E k \in 1..Len(B) : B[k] = matched[i]
  <2> DEFINE P == I(TRUE, TRUE)
             Q == I(TRUE, FALSE)
             R == I(FALSE, TRUE)
             T == I(FALSE, FALSE)
  <2>1. /\ P \in SUBSET DOMAIN matched /\ Q \in SUBSET DOMAIN matched
        /\ R \in SUBSET DOMAIN matched /\ T \in SUBSET DOMAIN matched
    OBVIOUS
  <2>2. /\ \A i \in P \cup Q : matched[i].cluster = CurrentCluster
        /\ \A i \in DOMAIN matched : matched[i].cluster = CurrentCluster => i \in P \cup Q
    OBVIOUS
  <2> HIDE DEF I, P, Q, R, T
  <2>3. /\ A = Subsequence(matched, P) /\ B = Subsequence(matched, Q)
        /\ C = Subsequence(matched, R) /\ D = Subsequence(matched, T)
    BY DEF P, Q, R, T
  <2> HIDE DEF A, B, C, D
  <2>4. /\ A \in Seq(Item) /\ \A k \in 1..Len(A) : \E i \in P : A[k] = matched[i]
        /\ \A i \in P : \E k \in 1..Len(A) : A[k] = matched[i]
    BY <2>1, <2>3, PartFacts
  <2>5. /\ B \in Seq(Item) /\ \A k \in 1..Len(B) : \E i \in Q : B[k] = matched[i]
        /\ \A i \in Q : \E k \in 1..Len(B) : B[k] = matched[i]
    BY <2>1, <2>3, PartFacts
  <2>6. C \in Seq(Item) /\ D \in Seq(Item)
    BY <2>1, <2>3, PartFacts
  <2>7. \A k \in 1..Len(A) : A[k].cluster = CurrentCluster
    BY <2>2, <2>4
  <2>8. \A k \in 1..Len(B) : B[k].cluster = CurrentCluster
    BY <2>2, <2>5
  <2>9. \A i \in DOMAIN matched : matched[i].cluster = CurrentCluster =>
            \/ \E k \in 1..Len(A) : A[k] = matched[i]
            \/ \E k \in 1..Len(B) : B[k] = matched[i]
    BY <2>2, <2>4, <2>5
  <2> QED
    BY <2>4, <2>5, <2>6, <2>7, <2>8, <2>9
<1> HIDE DEF A, B, C, D
<1>3. /\ own \in Seq(Item) /\ Len(own) = Len(A) + Len(B)
      /\ \A i \in 1..Len(own) : own[i] = IF i <= Len(A) THEN A[i] ELSE B[i - Len(A)]
      /\ Len(A) \in Nat /\ Len(B) \in Nat
  BY <1>2, ConcatProperties, LenProperties
<1>4. rest \in Seq(Item) /\ Len(rest) \in Nat
  BY <1>2, ConcatProperties, LenProperties
<1>c. (own \o C) \o D = own \o rest
  <2>1. own \in Seq(Item) /\ C \in Seq(Item) /\ D \in Seq(Item)
    BY <1>2, <1>3
  <2> HIDE DEF own
  <2> QED
    BY <2>1, ConcatAssociative
<1> HIDE DEF own, rest
<1>5. ASSUME NEW k \in 1..Len(own) PROVE own[k].cluster = CurrentCluster
  <2>1. CASE k <= Len(A)
    <3>1. k \in 1..Len(A)
      BY <1>3, <2>1
    <3> QED
      BY <1>2, <1>3, <2>1, <3>1
  <2>2. CASE ~(k <= Len(A))
    <3>1. k - Len(A) \in 1..Len(B)
      BY <1>3, <2>2
    <3> QED
      BY <1>2, <1>3, <2>2, <3>1
  <2> QED
    BY <2>1, <2>2
<1>6. ASSUME NEW i \in DOMAIN matched, matched[i].cluster = CurrentCluster
      PROVE  \E p \in 1..Len(own) : own[p] = matched[i]
  <2>1. CASE \E k \in 1..Len(A) : A[k] = matched[i]
    BY <1>3, <2>1
  <2>2. ASSUME NEW k \in 1..Len(B), B[k] = matched[i] PROVE \E p \in 1..Len(own) : own[p] = matched[i]
    <3>1. Len(A) + k \in 1..Len(own) /\ ~(Len(A) + k <= Len(A)) /\ Len(A) + k - Len(A) = k
      BY <1>3
    <3>2. own[Len(A) + k] = matched[i]
      BY <1>3, <2>2, <3>1
    <3> QED
      BY <3>1, <3>2
  <2> QED
    BY <1>2, <1>6, <2>1, <2>2
<1>7. Ranked(matched, q) = own \o rest
  <2>1. Ranked(matched, q) = (own \o C) \o D
    BY <1>1 DEF own
  <2> QED
    BY <1>c, <2>1
<1> DEFINE s == own \o rest
<1>8. /\ s \in Seq(Item) /\ Len(s) = Len(own) + Len(rest) /\ Len(own) \in Nat
      /\ \A i \in 1..Len(s) : i <= Len(own) => s[i] = own[i]
  <2>0. own \in Seq(Item) /\ rest \in Seq(Item)
    BY <1>3, <1>4
  <2>1. /\ s \in Seq(Item) /\ Len(s) = Len(own) + Len(rest)
        /\ \A i \in 1..Len(own) + Len(rest) : s[i] = IF i <= Len(own) THEN own[i] ELSE rest[i - Len(own)]
    BY <2>0, ConcatProperties
  <2> HIDE DEF s
  <2> QED
    BY <1>3, <2>1, LenProperties
<1> HIDE DEF s
<1>9. ASSUME NEW i \in DOMAIN matched, matched[i].cluster = CurrentCluster
      PROVE  \E p \in 1..Len(s) : /\ s[p] = matched[i]
                                  /\ \A r \in 1..Len(s) : s[r].cluster # CurrentCluster => p < r
  <2>1. PICK p \in 1..Len(own) : own[p] = matched[i]
    BY <1>6, <1>9
  <2>2. p \in 1..Len(s) /\ s[p] = matched[i]
    BY <1>4, <1>8, <2>1
  <2>3. ASSUME NEW r \in 1..Len(s), s[r].cluster # CurrentCluster PROVE p < r
    <3>1. ~(r <= Len(own))
      BY <1>5, <1>8, <2>3
    <3> QED
      BY <1>8, <3>1
  <2> QED
    BY <2>2, <2>3
<1> QED
  BY <1>7, <1>8, <1>9 DEF s

(* A type is cut from its end. *)
LEMMA CappedFacts ==
    ASSUME NEW type \in Types, NEW items \in Seq(Item)
    PROVE  /\ Capped(type, items) \in Seq(Item)
           /\ \A k \in 1..Len(Capped(type, items)) : Capped(type, items)[k].type = type
           /\ \A p \in 1..Len(items), j \in 1..Len(Capped(type, items)) :
                 /\ items[p].type = type
                 /\ Capped(type, items)[j].cluster # CurrentCluster
                 /\ \A r \in 1..Len(items) : items[r].cluster # CurrentCluster => p < r
                 => \E k \in 1..j : Capped(type, items)[k] = items[p]
<1> DEFINE I == {i \in DOMAIN items : items[i].type = type}
           s == Subsequence(items, I)
           n == IF Len(s) < Cap[type] THEN Len(s) ELSE Cap[type]
           c == SubSeq(s, 1, n)
<1>1. I \in SUBSET (1..Len(items)) /\ \A i \in I : items[i].type = type
  BY LenProperties
<1>2. \A p \in 1..Len(items) : items[p].type = type => p \in I
  BY LenProperties
<1>3. Capped(type, items) = c
  BY DEF Capped
<1> HIDE DEF I
<1>4. /\ IsFiniteSet(I) /\ s \in Seq(Item) /\ Len(s) = Cardinality(I)
      /\ \A k \in DOMAIN s : Ascending(I)[k] \in I /\ s[k] = items[Ascending(I)[k]]
      /\ \A i \in I : \E k \in DOMAIN s : Ascending(I)[k] = i /\ s[k] = items[i]
  <2>1. I \in SUBSET DOMAIN items
    BY <1>1, LenProperties
  <2> QED
    BY <2>1, SubsequenceFacts
<1>5. DOMAIN s = 1..Len(s) /\ Len(s) \in Nat
  BY <1>4, LenProperties
<1>6. I \in SUBSET Nat
  BY <1>1
<1>7. \A j, k \in 1..Len(s) : j < k => Ascending(I)[j] < Ascending(I)[k]
  BY <1>4, <1>6, AscendingFacts
<1> HIDE DEF s
<1>8. n \in Nat /\ n <= Len(s)
  BY <1>5, SearchAssumption
<1> HIDE DEF n
<1>9. /\ c \in Seq(Item) /\ Len(c) = n /\ \A k \in 1..n : c[k] = s[k]
  <2>1. \A k \in 1..n : s[k] \in Item
    BY <1>4, <1>5, <1>8, ElementOfSeq
  <2> QED
    BY <1>8, <2>1, SubSeqProperties
<1> HIDE DEF c
<1>10. ASSUME NEW k \in 1..n PROVE c[k].type = type
  <2> DEFINE a == Ascending(I)[k]
  <2>1. k \in DOMAIN s
    BY <1>5, <1>8
  <2>2. a \in I /\ c[k] = items[a]
    BY <1>4, <1>9, <2>1
  <2> HIDE DEF a
  <2> QED
    BY <1>1, <2>2
<1>11. ASSUME NEW p \in 1..Len(items), NEW j \in 1..n,
              items[p].type = type, c[j].cluster # CurrentCluster,
              \A r \in 1..Len(items) : items[r].cluster # CurrentCluster => p < r
       PROVE  \E k \in 1..j : c[k] = items[p]
  <2>1. j \in 1..Len(s) /\ j \in DOMAIN s
    BY <1>5, <1>8
  <2> DEFINE a == Ascending(I)[j]
  <2>2. a \in I /\ s[j] = items[a]
    BY <1>4, <2>1
  <2>3. a \in 1..Len(items)
    BY <1>1, <2>2
  <2>4. items[a].cluster # CurrentCluster
    BY <1>9, <1>11, <2>2
  <2>5. p < a
    <3> HIDE DEF a
    <3> QED
      BY <1>11, <2>3, <2>4
  <2>6. p \in I
    BY <1>2, <1>11
  <2>7. PICK k \in 1..Len(s) : Ascending(I)[k] = p /\ s[k] = items[p]
    BY <1>4, <1>5, <2>6
  <2>8. ~(j < k)
    <3> SUFFICES ASSUME j < k PROVE FALSE
      OBVIOUS
    <3>1. a < p
      BY <1>7, <2>1, <2>7
    <3>2. a \in Nat /\ p \in Nat
      <4> HIDE DEF a
      <4> QED
        BY <2>3
    <3> HIDE DEF a
    <3> QED
      BY <2>5, <3>1, <3>2
  <2>9. k \in 1..j /\ k \in 1..n
    BY <1>5, <1>8, <2>8
  <2> QED
    BY <1>9, <2>7, <2>9
<1> QED
  BY <1>3, <1>9, <1>10, <1>11

(* What filterResults returns lists an item of the page's own cluster, if  *)
(* it is found, before another cluster's of its type.                      *)
LEMMA FilterFacts ==
    ASSUME NEW index \in Seq(Item), NEW q
    PROVE  /\ filterResults(index, q) \in Seq(Item)
           /\ \A i \in DOMAIN index, j \in DOMAIN filterResults(index, q) :
                 /\ index[i].cluster = CurrentCluster /\ q # NoQuery
                 /\ Matches(q, index[i]) /\ Visible(index[i])
                 /\ filterResults(index, q)[j].type = index[i].type
                 /\ filterResults(index, q)[j].cluster # CurrentCluster
                 => \E k \in 1..j : filterResults(index, q)[k] = index[i]
<1>1. CASE q = NoQuery
  BY <1>1, EmptySeq DEF filterResults
<1>2. CASE q # NoQuery
  <2> DEFINE I == {i \in DOMAIN index : Matches(q, index[i]) /\ Visible(index[i])}
             matched == Subsequence(index, I)
             ranked == Ranked(matched, q)
             P == Capped("page", ranked)
             K == Capped("keyspace", ranked)
             T == Capped("table", ranked)
             found == (P \o K) \o T
  <2>1. filterResults(index, q) = found
    BY <1>2 DEF filterResults
  <2>2. /\ matched \in Seq(Item)
        /\ \A i \in DOMAIN index : Matches(q, index[i]) /\ Visible(index[i]) =>
              \E m \in DOMAIN matched : matched[m] = index[i]
    <3>1. I \in SUBSET DOMAIN index
      OBVIOUS
    <3>2. \A i \in DOMAIN index : Matches(q, index[i]) /\ Visible(index[i]) => i \in I
      OBVIOUS
    <3> HIDE DEF I
    <3>3. matched \in Seq(Item) /\ \A i \in I : \E m \in 1..Len(matched) : matched[m] = index[i]
      BY <3>1, PartFacts
    <3>4. DOMAIN matched = 1..Len(matched)
      BY <3>3, LenProperties
    <3> QED
      BY <3>2, <3>3, <3>4
  <2> HIDE DEF matched
  <2>3. ranked \in Seq(Item)
    BY <2>2, RankedFacts
  <2>4. /\ P \in Seq(Item) /\ K \in Seq(Item) /\ T \in Seq(Item)
        /\ \A k \in 1..Len(P) : P[k].type = "page"
        /\ \A k \in 1..Len(K) : K[k].type = "keyspace"
        /\ \A k \in 1..Len(T) : T[k].type = "table"
    <3> HIDE DEF ranked
    <3> QED
      BY <2>3, CappedFacts DEF Types
  <2>5. ASSUME NEW i \in DOMAIN index, index[i].cluster = CurrentCluster,
               Matches(q, index[i]), Visible(index[i])
        PROVE  \A type \in Types : index[i].type = type =>
                  \A j \in 1..Len(Capped(type, ranked)) :
                     Capped(type, ranked)[j].cluster # CurrentCluster =>
                        \E k \in 1..j : Capped(type, ranked)[k] = index[i]
    <3>1. PICK m \in DOMAIN matched : matched[m] = index[i]
      BY <2>2, <2>5
    <3>2. PICK p \in 1..Len(ranked) :
             /\ ranked[p] = matched[m]
             /\ \A r \in 1..Len(ranked) : ranked[r].cluster # CurrentCluster => p < r
      BY <2>2, <2>5, <3>1, RankedFacts
    <3> HIDE DEF ranked
    <3>3. ranked[p] = index[i] /\ p \in 1..Len(ranked)
      BY <3>1, <3>2
    <3> SUFFICES ASSUME NEW type \in Types, index[i].type = type,
                        NEW j \in 1..Len(Capped(type, ranked)),
                        Capped(type, ranked)[j].cluster # CurrentCluster
                 PROVE  \E k \in 1..j : Capped(type, ranked)[k] = index[i]
      OBVIOUS
    <3>4. ranked[p].type = type
      BY <3>3
    <3>5. \E k \in 1..j : Capped(type, ranked)[k] = ranked[p]
      BY <2>3, <3>2, <3>3, <3>4, CappedFacts
    <3> QED
      BY <3>3, <3>5
  <2>6. ASSUME NEW i \in DOMAIN index, index[i].cluster = CurrentCluster,
               Matches(q, index[i]), Visible(index[i])
        PROVE  /\ index[i].type = "page" => \A j \in 1..Len(P) : P[j].cluster # CurrentCluster =>
                     \E k \in 1..j : P[k] = index[i]
               /\ index[i].type = "keyspace" => \A j \in 1..Len(K) : K[j].cluster # CurrentCluster =>
                     \E k \in 1..j : K[k] = index[i]
               /\ index[i].type = "table" => \A j \in 1..Len(T) : T[j].cluster # CurrentCluster =>
                     \E k \in 1..j : T[k] = index[i]
    BY <2>5, <2>6 DEF Types
  <2> HIDE DEF P, K, T, ranked
  <2> DEFINE p == Len(P)
             n == Len(K)
             t == Len(T)
             l == P \o K
  <2>7. p \in Nat /\ n \in Nat /\ t \in Nat
    BY <2>4, LenProperties
  <2>8. l \in Seq(Item) /\ Len(l) = p + n /\ \A i \in 1..p + n : l[i] = IF i <= p THEN P[i] ELSE K[i - p]
    BY <2>4, ConcatProperties
  <2>9. /\ found \in Seq(Item) /\ Len(found) = Len(l) + t
        /\ \A i \in 1..Len(l) + t : found[i] = IF i <= Len(l) THEN l[i] ELSE T[i - Len(l)]
    <3>1. l \in Seq(Item) /\ T \in Seq(Item)
      BY <2>4, <2>8
    <3> HIDE DEF l
    <3>2. /\ l \o T \in Seq(Item) /\ Len(l \o T) = Len(l) + t
          /\ \A i \in 1..Len(l) + t : (l \o T)[i] = IF i <= Len(l) THEN l[i] ELSE T[i - Len(l)]
      BY <3>1, ConcatProperties
    <3> QED
      BY <3>2 DEF l
  <2> HIDE DEF p, n, t, l, found
  <2>10. /\ DOMAIN found = 1..p + n + t
         /\ \A i \in 1..p : found[i] = P[i]
         /\ \A i \in 1..n : found[p + i] = K[i]
         /\ \A i \in 1..t : found[p + n + i] = T[i]
    <3>1. Len(found) = p + n + t
      BY <2>7, <2>8, <2>9
    <3>2. DOMAIN found = 1..p + n + t
      BY <2>9, <3>1, LenProperties
    <3>3. ASSUME NEW i \in 1..p PROVE found[i] = P[i]
      <4>1. i \in 1..p + n /\ i <= p /\ i \in 1..Len(l) + t /\ i <= Len(l)
        BY <2>7, <2>8
      <4> QED
        BY <2>8, <2>9, <4>1
    <3>4. ASSUME NEW i \in 1..n PROVE found[p + i] = K[i]
      <4> DEFINE x == p + i
      <4>1. x \in 1..p + n /\ ~(x <= p) /\ x \in 1..Len(l) + t /\ x <= Len(l) /\ x - p = i
        BY <2>7, <2>8
      <4> HIDE DEF x
      <4>2. found[x] = l[x]
        BY <2>9, <4>1
      <4>3. l[x] = K[x - p]
        BY <2>8, <4>1
      <4>4. found[x] = K[i]
        BY <4>1, <4>2, <4>3
      <4> QED
        BY <4>4 DEF x
    <3>5. ASSUME NEW i \in 1..t PROVE found[p + n + i] = T[i]
      <4> DEFINE x == p + n + i
                 m == Len(l)
      <4>1. m = p + n
        BY <2>8
      <4> HIDE DEF m
      <4>2. x \in 1..m + t /\ ~(x <= m) /\ x - m = i
        BY <2>7, <4>1
      <4> HIDE DEF x
      <4>3. found[x] = T[x - m]
        BY <2>9, <4>2 DEF m
      <4>4. found[x] = T[i]
        BY <4>2, <4>3
      <4> QED
        BY <4>4 DEF x
    <3> QED
      BY <3>2, <3>3, <3>4, <3>5
  <2>11. ASSUME NEW i \in DOMAIN index, NEW j \in 1..p + n + t,
                index[i].cluster = CurrentCluster, Matches(q, index[i]), Visible(index[i]),
                found[j].type = index[i].type, found[j].cluster # CurrentCluster
         PROVE  \E k \in 1..j : found[k] = index[i]
    <3>1. CASE j <= p
      <4>1. j \in 1..p /\ found[j] = P[j]
        BY <2>7, <2>10, <3>1
      <4>2. index[i].type = "page"
        BY <2>4, <2>11, <4>1 DEF p
      <4>3. PICK k \in 1..j : P[k] = index[i]
        BY <2>6, <2>11, <4>1, <4>2 DEF p
      <4>4. k \in 1..p
        BY <2>7, <3>1
      <4> QED
        BY <2>10, <4>3, <4>4
    <3>2. CASE ~(j <= p) /\ j <= p + n
      <4> DEFINE h == j - p
      <4>1. h \in 1..n /\ p + h = j
        BY <2>7, <3>2
      <4>2. found[j] = K[h]
        BY <2>10, <4>1
      <4> HIDE DEF h
      <4>3. index[i].type = "keyspace"
        BY <2>4, <2>11, <4>1, <4>2 DEF n
      <4>4. PICK k \in 1..h : K[k] = index[i]
        BY <2>6, <2>11, <4>1, <4>2, <4>3 DEF n
      <4>5. k \in 1..n /\ p + k \in 1..j
        BY <2>7, <4>1
      <4>6. found[p + k] = index[i]
        BY <2>10, <4>4, <4>5
      <4> QED
        BY <4>5, <4>6
    <3>3. CASE ~(j <= p + n)
      <4> DEFINE h == j - (p + n)
      <4>1. h \in 1..t /\ p + n + h = j
        BY <2>7, <3>3
      <4>2. found[j] = T[h]
        BY <2>10, <4>1
      <4> HIDE DEF h
      <4>3. index[i].type = "table"
        BY <2>4, <2>11, <4>1, <4>2 DEF t
      <4>4. PICK k \in 1..h : T[k] = index[i]
        BY <2>6, <2>11, <4>1, <4>2, <4>3 DEF t
      <4>5. k \in 1..t /\ p + n + k \in 1..j
        BY <2>7, <4>1
      <4>6. found[p + n + k] = index[i]
        BY <2>10, <4>4, <4>5
      <4> QED
        BY <4>5, <4>6
    <3> QED
      BY <2>7, <3>1, <3>2, <3>3
  <2> QED
    BY <2>1, <2>9, <2>10, <2>11
<1> QED
  BY <1>1, <1>2

(* A request for the index is out exactly while a focus awaits it. *)
SearchIInv ==
    /\ SearchTypeOK
    /\ fetches = IF waiting THEN 1 ELSE 0
    /\ ResultsFollowInput
    /\ HighlightInList

LEMMA SearchInvariants == SearchIInv => SearchTypeOK /\ SearchAgrees
<1> SUFFICES ASSUME SearchIInv PROVE SearchTypeOK /\ SearchAgrees
  OBVIOUS
<1>1. OneIndexRequest
  BY DEF SearchIInv, OneIndexRequest, SearchTypeOK
<1>2. OwnClusterFirst
  <2>1. searchIndex \in Seq(Item) /\ (dropdown = "shown" => results = filterResults(searchIndex, input))
    BY DEF SearchIInv, SearchTypeOK, ResultsFollowInput
  <2> SUFFICES ASSUME dropdown = "shown",
                      NEW i \in DOMAIN searchIndex, searchIndex[i].cluster = CurrentCluster,
                      input # NoQuery, Matches(input, searchIndex[i]), Visible(searchIndex[i]),
                      NEW j \in DOMAIN results, results[j].type = searchIndex[i].type,
                      results[j].cluster # CurrentCluster
               PROVE  \E k \in 1..j : results[k] = searchIndex[i]
    BY DEF OwnClusterFirst
  <2> QED
    BY <2>1, FilterFacts
<1> QED
  BY <1>1, <1>2 DEF SearchIInv, SearchAgrees

LEMMA InitSearch == SearchInit => SearchIInv
<1> SUFFICES ASSUME SearchInit PROVE SearchIInv
  OBVIOUS
<1>1. SearchTypeOK
  BY EmptySeq DEF SearchInit, SearchTypeOK
<1>2. fetches = IF waiting THEN 1 ELSE 0
  BY DEF SearchInit
<1>3. ResultsFollowInput /\ HighlightInList
  BY EmptySeq DEF SearchInit, ResultsFollowInput, HighlightInList
<1> QED
  BY <1>1, <1>2, <1>3 DEF SearchIInv

LEMMA LoadSearchInvariant == LoadSearch => SearchIInv'
<1> SUFFICES ASSUME LoadSearch PROVE SearchIInv'
  OBVIOUS
<1>1. SearchTypeOK'
  BY EmptySeq DEF LoadSearch, SearchTypeOK
<1>2. fetches' = IF waiting' THEN 1 ELSE 0
  BY DEF LoadSearch
<1>3. ResultsFollowInput' /\ HighlightInList'
  BY EmptySeq DEF LoadSearch, ResultsFollowInput, HighlightInList
<1> QED
  BY <1>1, <1>2, <1>3 DEF SearchIInv

(* A list that is drawn is the answer to the input, with nothing highlighted. *)
LEMMA RenderInvariant ==
    ASSUME searchIndex' \in Seq(Item), input' \in Queries \cup {NoQuery},
           fresh' \in BOOLEAN, waiting' \in BOOLEAN, fetches' = IF waiting' THEN 1 ELSE 0,
           renderResults(filterResults(searchIndex', input'))
    PROVE  SearchIInv'
<1>1. results' \in Seq(Item)
  BY FilterFacts DEF renderResults
<1>2. Len(results') \in Nat
  BY <1>1, LenProperties
<1> QED
  BY <1>1, <1>2 DEF renderResults, SearchIInv, SearchTypeOK, ResultsFollowInput, HighlightInList

LEMMA SearchStep == ASSUME SearchIInv, SearchUser \/ SearchNext PROVE SearchIInv'
<1>0. SearchTypeOK /\ fetches = IF waiting THEN 1 ELSE 0
  BY DEF SearchIInv
<1>r. Len(results) \in Nat
  BY <1>0, LenProperties DEF SearchTypeOK
<1>1. CASE Focus
  BY <1>0, <1>1 DEF Focus, SearchIInv, SearchTypeOK, ResultsFollowInput, HighlightInList
<1>2. CASE FocusCached
  <2>1. renderResults(filterResults(searchIndex', input'))
        /\ UNCHANGED <<input, searchIndex, fresh, fetches, waiting>>
    BY <1>2 DEF FocusCached
  <2> QED
    BY <1>0, <2>1, RenderInvariant DEF SearchTypeOK
<1>3. ASSUME NEW q \in Queries \cup {NoQuery}, Type(q) PROVE SearchIInv'
  <2>1. /\ renderResults(filterResults(searchIndex', input')) /\ input' = q
        /\ UNCHANGED <<searchIndex, fresh, fetches, waiting>>
    BY <1>3 DEF Type
  <2> QED
    BY <1>0, <2>1, RenderInvariant DEF SearchTypeOK
<1>4. ASSUME NEW up \in BOOLEAN, setActive(up) PROVE SearchIInv'
  <2> DEFINE n == Len(results)
             a == (IF up THEN (activeIndex + 2 * n - 2) % n ELSE activeIndex % n) + 1
  <2>1. n \in Nat /\ n > 0 /\ activeIndex \in Nat /\ dropdown = "shown"
        /\ activeIndex' = a
        /\ UNCHANGED <<input, searchIndex, fresh, fetches, waiting, dropdown, results>>
    BY <1>0, <1>r, <1>4 DEF setActive, SearchTypeOK
  <2>2. a \in 1..n
    <3> HIDE DEF n
    <3>1. activeIndex + 2 * n - 2 \in Nat
      BY <2>1
    <3>2. (activeIndex + 2 * n - 2) % n \in 0..n - 1 /\ activeIndex % n \in 0..n - 1
      BY <2>1, <3>1
    <3> QED
      BY <2>1, <3>2
  <2> HIDE DEF a
  <2>3. activeIndex' \in Nat /\ activeIndex' <= n
    BY <2>1, <2>2
  <2> QED
    BY <1>0, <2>1, <2>3 DEF SearchIInv, SearchTypeOK, ResultsFollowInput, HighlightInList
<1>5. CASE Escape \/ ClickOutside
  BY <1>0, <1>r, <1>5 DEF Escape, ClickOutside, closeDropdown, SearchIInv, SearchTypeOK,
                     ResultsFollowInput, HighlightInList
<1>6. CASE IndexArrives
  <2>1. waiting /\ waiting' = FALSE /\ fetches' = IF waiting' THEN 1 ELSE 0
    <3>1. waiting
      BY <1>0, <1>6 DEF IndexArrives
    <3>2. fetches' = 0
      BY <1>0, <1>6, <3>1 DEF IndexArrives
    <3>3. waiting' = FALSE
      BY <1>6 DEF IndexArrives
    <3> QED
      BY <3>1, <3>2, <3>3
  <2>2. renderResults(filterResults(searchIndex', input')) /\ UNCHANGED input
    BY <1>6, <2>1 DEF IndexArrives
  <2>3. searchIndex' \in Seq(Item) /\ fresh' \in BOOLEAN
    BY <1>0, <1>6, IndexTypes DEF IndexArrives, SearchTypeOK
  <2> QED
    BY <1>0, <2>1, <2>2, <2>3, RenderInvariant DEF SearchTypeOK
<1>7. CASE IndexExpires
  BY <1>0, <1>7 DEF IndexExpires, SearchIInv, SearchTypeOK, ResultsFollowInput, HighlightInList
<1> QED
  BY <1>1, <1>2, <1>3, <1>4, <1>5, <1>6, <1>7 DEF SearchUser, SearchNext

LEMMA SearchStutter == ASSUME SearchIInv, UNCHANGED searchVars PROVE SearchIInv'
  BY DEF searchVars, SearchIInv, SearchTypeOK, ResultsFollowInput, HighlightInList

-------------------------------------------------------------------------------
(* The recovery page and the dialogs of the explorer's page keep their     *)
(* types.                                                                  *)
(* The status requests in flight are finitely many. *)
RecoveryIInv == RecoveryTypeOK /\ IsFiniteSet(polls) /\ SelectionIsTheOneNamed

LEMMA InitRecovery == RecoveryInit => RecoveryIInv
<1> SUFFICES ASSUME RecoveryInit PROVE RecoveryIInv
  OBVIOUS
<1>1. jobs \in Dashboard /\ Empty \in Dashboard
  BY DEF RecoveryInit, Dashboard, JobState, Empty
<1>2. IsFiniteSet(polls) /\ Cardinality(polls) = 1
  BY FS_Singleton DEF RecoveryInit
<1> QED
  BY <1>1, <1>2, EmptySeq, PageBounds
     DEF RecoveryInit, RecoveryIInv, RecoveryTypeOK, SelectionIsTheOneNamed

LEMMA OutcomesAreDashboards ==
    ASSUME RecoveryTypeOK, NEW i \in DOMAIN actions PROVE Outcomes(actions[i]) \subseteq Dashboard
<1>1. actions[i] \in Action
  BY LenProperties, ElementOfSeq DEF RecoveryTypeOK
<1> QED
  BY <1>1 DEF Outcomes, RecoveryTypeOK, Dashboard, JobState, Action

LEMMA LoadRecoveryInvariant == ASSUME RecoveryIInv, LoadRecovery PROVE RecoveryIInv'
<1>1. jobs' \in Dashboard
  BY OutcomesAreDashboards DEF LoadRecovery, RecoveryIInv, RecoveryTypeOK
<1>2. IsFiniteSet(polls') /\ Cardinality(polls') = 1 /\ Empty \in Dashboard
  BY FS_Singleton DEF LoadRecovery, Empty, Dashboard, JobState
<1> QED
  BY <1>1, <1>2, EmptySeq, PageBounds
     DEF LoadRecovery, RecoveryIInv, RecoveryTypeOK, SelectionIsTheOneNamed

(* An answer that is read leaves the set, one that is asked for joins it. *)
LEMMA PollsFacts ==
    ASSUME RecoveryIInv, NEW answer \in Dashboard
    PROVE  /\ Cardinality(polls) \in Nat
           /\ IsFiniteSet(polls \cup {answer}) /\ IsFiniteSet(polls \ {answer})
           /\ Cardinality(polls \cup {answer}) \in Nat /\ Cardinality(polls \ {answer}) \in Nat
           /\ Cardinality(polls \cup {answer}) <= Cardinality(polls) + 1
           /\ Cardinality(polls \ {answer}) <= Cardinality(polls)
           /\ polls \cup {answer} \subseteq Dashboard
<1>1. IsFiniteSet(polls) /\ Cardinality(polls) \in Nat
  BY FS_CardinalityType DEF RecoveryIInv
<1>2. /\ IsFiniteSet(polls \cup {answer}) /\ Cardinality(polls \cup {answer}) <= Cardinality(polls) + 1
      /\ Cardinality(polls \cup {answer}) \in Nat
  BY <1>1, FS_AddElement, FS_CardinalityType
<1>3. /\ IsFiniteSet(polls \ {answer}) /\ Cardinality(polls \ {answer}) <= Cardinality(polls)
      /\ Cardinality(polls \ {answer}) \in Nat
  <2>1. IsFiniteSet(polls \ {answer}) /\ Cardinality(polls \ {answer}) \in Nat
    BY <1>1, FS_RemoveElement, FS_CardinalityType
  <2>2. Cardinality(polls \ {answer}) \in {Cardinality(polls), Cardinality(polls) - 1}
    BY <1>1, FS_RemoveElement
  <2> QED
    BY <1>1, <2>1, <2>2
<1> QED
  BY <1>1, <1>2, <1>3 DEF RecoveryIInv, RecoveryTypeOK

LEMMA RecoveryTypesStep ==
    ASSUME RecoveryIInv, RecoveryUser \/ RecoveryNext
    PROVE  RecoveryTypeOK' /\ IsFiniteSet(polls)'
<1>0. RecoveryTypeOK /\ jobs \in Dashboard /\ actions \in Seq(Action) /\ Empty \in Dashboard
  BY DEF RecoveryIInv, RecoveryTypeOK, Empty, Dashboard, JobState
<1>1. ASSUME NEW j \in Jobs, openApproveModal(j) \/ openCancelModal(j) PROVE RecoveryTypeOK' /\ IsFiniteSet(polls)'
  BY <1>0, <1>1 DEF openApproveModal, openCancelModal, RecoveryIInv, RecoveryTypeOK
<1>2. CASE closeApproveModal \/ closeCancelModal
  BY <1>0, <1>2 DEF closeApproveModal, closeCancelModal, HideApproveModal, HideCancelModal,
                    RecoveryIInv, RecoveryTypeOK
<1>3. ASSUME NEW kind \in {"approve", "cancel"}, NEW modal, Confirm(kind, modal) PROVE RecoveryTypeOK' /\ IsFiniteSet(polls)'
  <2> DEFINE act == [kind |-> kind, job |-> selectedRecoveryId, granted |-> FALSE]
  <2>1. act \in Action
    BY <1>0, <1>3 DEF Confirm, Action, RecoveryTypeOK
  <2>2. actions' = Append(actions, act) /\ Len(actions) < MaxActions
    BY <1>3 DEF Confirm
  <2> HIDE DEF act
  <2>3. actions' \in Seq(Action) /\ Len(actions') = Len(actions) + 1 /\ Len(actions) \in Nat
    BY <1>0, <2>1, <2>2, AppendProperties, LenProperties
  <2>4. Len(actions') <= MaxActions
    BY <2>2, <2>3, PageBounds
  <2> QED
    BY <1>0, <1>3, <2>3, <2>4 DEF Confirm, dialogs, RecoveryIInv, RecoveryTypeOK
<1>4. ASSUME NEW j \in Jobs, JobMoves(j) PROVE RecoveryTypeOK' /\ IsFiniteSet(polls)'
  <2>1. jobs' \in Dashboard
    BY <1>0, <1>4 DEF JobMoves, Successors, Dashboard, JobState
  <2> QED
    BY <1>0, <1>4, <2>1 DEF JobMoves, dialogs, RecoveryIInv, RecoveryTypeOK
<1>5. CASE Poll
  <2>1. Cardinality(polls') <= MaxPolls /\ IsFiniteSet(polls') /\ polls' \subseteq Dashboard
    <3>1. Cardinality(polls) + 1 < MaxPolls /\ polls' = polls \cup {jobs}
      BY <1>5 DEF Poll
    <3>2. /\ Cardinality(polls) \in Nat /\ Cardinality(polls') \in Nat
          /\ Cardinality(polls') <= Cardinality(polls) + 1
          /\ IsFiniteSet(polls') /\ polls' \subseteq Dashboard
      BY <1>0, <3>1, PollsFacts
    <3>3. Cardinality(polls') <= MaxPolls
      BY <3>1, <3>2, PageBounds
    <3> QED
      BY <3>2, <3>3
  <2> QED
    BY <1>0, <1>5, <2>1 DEF Poll, dialogs, RecoveryIInv, RecoveryTypeOK
<1>6. ASSUME NEW answer \in polls, updateDashboard(answer) \/ PollFails(answer) PROVE RecoveryTypeOK' /\ IsFiniteSet(polls)'
  <2>1. answer \in Dashboard /\ polls' = polls \ {answer} /\ cards' \in Dashboard
    BY <1>0, <1>6 DEF updateDashboard, PollFails, RecoveryTypeOK
  <2>2. Cardinality(polls') <= MaxPolls /\ IsFiniteSet(polls') /\ polls' \subseteq Dashboard
    <3>1. Cardinality(polls') <= Cardinality(polls) /\ Cardinality(polls) <= MaxPolls
          /\ Cardinality(polls') \in Nat /\ Cardinality(polls) \in Nat /\ IsFiniteSet(polls')
      BY <1>0, <2>1, PollsFacts DEF RecoveryTypeOK
    <3> QED
      BY <1>0, <2>1, <3>1, PageBounds DEF RecoveryTypeOK
  <2> QED
    BY <1>0, <1>6, <2>1, <2>2 DEF updateDashboard, PollFails, dialogs, RecoveryIInv, RecoveryTypeOK
<1>7. ASSUME NEW i \in DOMAIN actions, ServerGrants(i) PROVE RecoveryTypeOK' /\ IsFiniteSet(polls)'
  <2>1. jobs' \in Dashboard
    BY <1>0, <1>7, OutcomesAreDashboards DEF ServerGrants
  <2>2. i \in 1..Len(actions) /\ actions[i] \in Action
    BY <1>0, LenProperties, ElementOfSeq
  <2> DEFINE act == [actions[i] EXCEPT !.granted = TRUE]
  <2>3. act \in Action /\ actions' = [actions EXCEPT ![i] = act]
    BY <1>7, <2>2 DEF ServerGrants, Action
  <2> HIDE DEF act
  <2>4. actions' \in Seq(Action) /\ Len(actions') = Len(actions)
    BY <1>0, <2>2, <2>3, ExceptSeq
  <2> QED
    BY <1>0, <1>7, <2>1, <2>4 DEF ServerGrants, dialogs, RecoveryIInv, RecoveryTypeOK
<1>8. ASSUME NEW i \in DOMAIN actions, ActionSucceeds(i) \/ ActionFails(i) PROVE RecoveryTypeOK' /\ IsFiniteSet(polls)'
  <2>1. i \in 1..Len(actions) /\ Len(actions) \in Nat
    BY <1>0, LenProperties
  <2>2. actions' = RemoveAt(actions, i)
    BY <1>8 DEF ActionSucceeds, ActionFails
  <2>3. actions' \in Seq(Action) /\ Len(actions') = Len(actions) - 1
    BY <1>0, <2>1, <2>2, RemoveAtFacts
  <2>4. Len(actions') <= MaxActions
    BY <1>0, <2>1, <2>3, PageBounds DEF RecoveryTypeOK
  <2>5. Cardinality(polls') <= MaxPolls /\ IsFiniteSet(polls') /\ polls' \subseteq Dashboard
    <3>1. CASE ActionFails(i)
      BY <1>0, <3>1 DEF ActionFails, RecoveryIInv, RecoveryTypeOK
    <3>2. CASE ActionSucceeds(i)
      <4>1. Cardinality(polls) < MaxPolls /\ polls' = polls \cup {jobs}
        BY <3>2 DEF ActionSucceeds
      <4>2. /\ Cardinality(polls) \in Nat /\ Cardinality(polls') \in Nat
            /\ Cardinality(polls') <= Cardinality(polls) + 1
            /\ IsFiniteSet(polls') /\ polls' \subseteq Dashboard
        BY <1>0, <4>1, PollsFacts
      <4>3. Cardinality(polls') <= MaxPolls
        BY <4>1, <4>2, PageBounds
      <4> QED
        BY <4>2, <4>3
    <3> QED
      BY <1>8, <3>1, <3>2
  <2> QED
    BY <1>0, <1>8, <2>3, <2>4, <2>5
       DEF ActionSucceeds, ActionFails, HideApproveModal, HideCancelModal, dialogs,
           RecoveryIInv, RecoveryTypeOK
<1> QED
  BY <1>1, <1>2, <1>3, <1>4, <1>5, <1>6, <1>7, <1>8
     DEF RecoveryUser, RecoveryNext, confirmApprove, confirmCancel

LEMMA RecoveryStep == ASSUME RecoveryIInv, RecoveryUser \/ RecoveryNext PROVE RecoveryIInv'
  BY RecoveryTypesStep, RecoveryKeepsSelection DEF RecoveryIInv

LEMMA RecoveryStutter == ASSUME RecoveryIInv, UNCHANGED recoveryVars PROVE RecoveryIInv'
  BY DEF recoveryVars, dialogs, RecoveryIInv, RecoveryTypeOK, SelectionIsTheOneNamed, NoDialogOpen

LEMMA NoImportIsImport == NoImport \in [file: Files \cup {NoFile}, format: Formats]
  BY DEF NoImport, Formats

LEMMA FormsTypes ==
    /\ FormsInit => FormsTypeOK
    /\ FormsTypeOK /\ (LoadForms \/ FormsUser \/ FormsNext \/ UNCHANGED formVars) => FormsTypeOK'
<1>1. FormsInit => FormsTypeOK
  BY NoImportIsImport DEF FormsInit, FormsTypeOK, Formats
<1> SUFFICES ASSUME FormsTypeOK, LoadForms \/ FormsUser \/ FormsNext \/ UNCHANGED formVars
             PROVE  FormsTypeOK'
  BY <1>1
<1>2. CASE LoadForms
  BY <1>2, NoImportIsImport DEF LoadForms, FormsTypeOK, Formats
<1>3. ASSUME NEW format \in Formats, openImportModal(format) PROVE FormsTypeOK'
  BY <1>3 DEF openImportModal, resetImportUI, insertVars, FormsTypeOK
<1>4. ASSUME NEW file \in Files, ChooseFile(file) \/ DropFile(file) PROVE FormsTypeOK'
  BY <1>4 DEF ChooseFile, DropFile, handleFileSelection, FormatAccepted, insertVars, FormsTypeOK
<1>5. CASE closeImportModal \/ CloseAfterImport
  BY <1>5 DEF closeImportModal, CloseAfterImport, insertVars, FormsTypeOK
<1>6. CASE StartImport
  BY <1>6 DEF StartImport, insertVars, FormsTypeOK
<1>7. CASE ImportSucceeds \/ ImportFails
  BY <1>7, NoImportIsImport DEF ImportSucceeds, ImportFails, resetImportUI, insertVars, FormsTypeOK
<1>8. CASE ClickInsert \/ closeInsertModal \/ SubmitInsert \/ InsertSucceeds \/ InsertFails
  BY <1>8 DEF ClickInsert, SchemaAnswers, closeInsertModal, SubmitInsert, InsertSucceeds, InsertFails,
              importVars, FormsTypeOK
<1>9. CASE UNCHANGED formVars
  BY <1>9 DEF formVars, importVars, insertVars, FormsTypeOK
<1> QED
  BY <1>2, <1>3, <1>4, <1>5, <1>6, <1>7, <1>8, <1>9 DEF FormsUser, FormsNext

-------------------------------------------------------------------------------
(* The tab: every page keeps what it shows in step, the other pages stand. *)
TabIInv ==
    /\ page \in Pages
    /\ RefreshIInv /\ SearchIInv /\ RecoveryIInv /\ ConsoleIInv /\ FormsTypeOK

LEMMA TabInvariants ==
    TabIInv => TypeOK /\ OneTimer /\ SearchAgrees /\ SelectionIsTheOneNamed /\ ConsoleAgrees
  BY RefreshInvariants, SearchInvariants, ConsoleInvariants DEF TabIInv, RecoveryIInv, TypeOK

LEMMA InitTab == Init => TabIInv
  BY InitRefresh, InitSearch, InitRecovery, InitConsole, FormsTypes DEF Init, TabIInv

(* On one page a step is the page's own, on the others it is none. *)
LEMMA PageOrNone ==
    ASSUME TabIInv,
           LoadRefresh \/ UNCHANGED refreshVars, OthersStay,
           page = "search" => LoadSearch \/ SearchUser \/ SearchNext,
           page = "recovery" => LoadRecovery \/ RecoveryUser \/ RecoveryNext,
           page = "console" => LoadConsole \/ ConsoleUser \/ ConsoleNext \/ cassanovaRefresh,
           page = "forms" => LoadForms \/ FormsUser \/ FormsNext
    PROVE  TabIInv'
<1>1. page' \in Pages /\ RefreshIInv'
  BY LoadRefreshInvariant, RefreshStutter DEF OthersStay, TabIInv
<1>2. SearchIInv'
  BY LoadSearchInvariant, SearchStep, SearchStutter DEF OthersStay, TabIInv
<1>3. RecoveryIInv'
  BY LoadRecoveryInvariant, RecoveryStep, RecoveryStutter DEF OthersStay, TabIInv
<1>4. ConsoleIInv'
  BY LoadConsoleInvariant, ConsoleStep, ConsoleStutter DEF OthersStay, TabIInv
<1>5. FormsTypeOK'
  BY FormsTypes DEF OthersStay, TabIInv
<1> QED
  BY <1>1, <1>2, <1>3, <1>4, <1>5 DEF TabIInv

LEMMA StepTab == TabIInv /\ [Next]_vars => TabIInv'
<1> SUFFICES ASSUME TabIInv, [Next]_vars PROVE TabIInv'
  OBVIOUS
<1>1. CASE Load
  BY <1>1, PageOrNone DEF Load
<1>2. CASE UserActs \/ PageActs
  BY <1>2, PageOrNone DEF UserActs, PageActs
<1>3. CASE page = "console" /\ cassanovaRefresh /\ UNCHANGED refreshVars /\ OthersStay
  BY <1>3, PageOrNone
<1>4. CASE (RefreshNext /\ UNCHANGED <<page, others>>) \/ UNCHANGED vars
  <2>1. page' \in Pages /\ RefreshIInv'
    BY <1>4, RefreshStep, RefreshStutter DEF vars, TabIInv
  <2>2. UNCHANGED <<searchVars, recoveryVars, consoleVars, formVars>>
    BY <1>4 DEF vars, others
  <2> QED
    BY <2>1, <2>2, SearchStutter, RecoveryStutter, ConsoleStutter, FormsTypes DEF TabIInv
<1> QED
  BY <1>1, <1>2, <1>3, <1>4 DEF Next, Refreshed

(* The invariant of the pages holds in every reachable state. *)
THEOREM TabInvariance == Spec => []TabIInv
  BY InitTab, StepTab, PTL DEF Spec

(* Every page keeps its types. *)
THEOREM TabTypeCorrect == Spec => []TypeOK
<1>1. TabIInv => TypeOK
  BY TabInvariants
<1> QED
  BY TabInvariance, <1>1, PTL

(* The list of results, its highlight and its ranking agree with the input *)
(* and the index there is, and one request for the index is out, for any   *)
(* clusters, caps and matching of queries.                                 *)
THEOREM SearchIsTrue == Spec => []SearchAgrees
<1>1. TabIInv => SearchAgrees
  BY TabInvariants
<1> QED
  BY TabInvariance, <1>1, PTL

(* The history on display, the one stored and the button agree with the    *)
(* scripts that ran, whether they finished or failed, for any number of    *)
(* them at once.                                                           *)
THEOREM ConsoleIsTrue == Spec => []ConsoleAgrees
<1>1. TabIInv => ConsoleAgrees
  BY TabInvariants
<1> QED
  BY TabInvariance, <1>1, PTL

(* Only the timer that is named runs, one in a tab that is shown, and in a *)
(* hidden one none but what its page started when it was loaded, for any   *)
(* intervals (startTimer, stopTimer).                                      *)
THEOREM TimerIsAlone == Spec => []OneTimer
<1>1. TabIInv => OneTimer
  BY TabInvariants
<1> QED
  BY TabInvariance, <1>1, PTL

(* What the dialogs of the recovery page would confirm is the job that the *)
(* dialog on display was opened for (selectedRecoveryId).                  *)
THEOREM DialogsAreTrue == Spec => []SelectionIsTheOneNamed
<1>1. TabIInv => SelectionIsTheOneNamed
  BY TabInvariants
<1> QED
  BY TabInvariance, <1>1, PTL

-------------------------------------------------------------------------------
(***************************************************************************)
(* The table designer.  The statements are those of the form, without a    *)
(* look inside: what matters is that they are a sequence, run in order.    *)
(***************************************************************************)
IsSequence(s) == \E S : s \in Seq(S)

LEMMA SequencesHaveLengths ==
    ASSUME NEW s, IsSequence(s)
    PROVE  Len(s) \in Nat /\ DOMAIN s = 1..Len(s)
<1>1. PICK S : s \in Seq(S)
  BY DEF IsSequence
<1> QED
  BY <1>1, LenProperties

LEMMA ConcatIsSequence ==
    ASSUME NEW s, NEW t, IsSequence(s), IsSequence(t)
    PROVE  IsSequence(s \o t)
<1>1. PICK S : s \in Seq(S)
  BY DEF IsSequence
<1>2. PICK T : t \in Seq(T)
  BY DEF IsSequence
<1>3. s \in Seq(S \cup T) /\ t \in Seq(S \cup T)
  BY <1>1, <1>2, SeqMonotonic
<1>4. s \o t \in Seq(S \cup T)
  BY <1>3, ConcatProperties
<1> QED
  BY <1>4 DEF IsSequence

LEMMA IndexesIsSequence ==
    ASSUME NEW cols \in Seq(Column)
    PROVE  IsSequence(Indexes(cols))
<1> DEFINE I == {i \in DOMAIN cols : cols[i].hasSaiIndex /\ ~cols[i].isPK}
           sai == Subsequence(cols, I)
<1>1. I \in SUBSET DOMAIN cols
  OBVIOUS
<1>2. sai \in Seq(Column)
  <2> HIDE DEF I
  <2> QED
    BY <1>1, SubsequenceFacts
<1>3. Len(sai) \in Nat /\ DOMAIN sai = 1..Len(sai)
  BY <1>2, LenProperties
<1>4. Indexes(cols) = [i \in 1..Len(sai) |-> [op |-> "index", name |-> sai[i].name]]
  BY <1>3 DEF Indexes
<1>5. [i \in 1..Len(sai) |-> [op |-> "index", name |-> sai[i].name]]
        \in Seq({[op |-> "index", name |-> sai[i].name] : i \in 1..Len(sai)})
  <2> HIDE DEF sai
  <2> QED
    BY <1>3, IsASeq
<1> QED
  BY <1>4, <1>5 DEF IsSequence

LEMMA GeneratedIsSequence ==
    ASSUME NEW cols \in Seq(Column), NEW guarded, NEW chosen
    PROVE  IsSequence(generateCQL(cols, guarded, chosen))
<1>1. IsSequence(Indexes(cols))
  BY IndexesIsSequence
<1>2. IsSequence(<<>>)
  BY EmptySeq DEF IsSequence
<1>3. ASSUME NEW e PROVE IsSequence(<<e>>)
  <2>1. <<e>> \in Seq({e})
    OBVIOUS
  <2> QED
    BY <2>1 DEF IsSequence
<1>4. IsSequence(generateCreateCQL(cols, guarded, chosen))
  BY <1>1, <1>2, <1>3, ConcatIsSequence DEF generateCreateCQL
<1>5. IsSequence(generateAlterCQL(cols, chosen))
  <2> DEFINE added == [i \in DOMAIN cols |-> [op |-> "add", name |-> cols[i].name,
                            type |-> resolveFullType(cols[i]), isStatic |-> cols[i].isStatic]]
             with == <<[op |-> "with", options |-> chosen]>>
  <2>1. Len(cols) \in Nat /\ DOMAIN cols = 1..Len(cols)
    BY LenProperties
  <2>2. added \in Seq({added[i] : i \in 1..Len(cols)})
    BY <2>1, IsASeq
  <2>3. IsSequence(added)
    BY <2>2 DEF IsSequence
  <2>4. IsSequence(with)
    BY <1>3
  <2> HIDE DEF added, with
  <2>5. IsSequence((added \o with) \o Indexes(cols))
    BY <1>1, <2>3, <2>4, ConcatIsSequence
  <2> QED
    BY <2>5 DEF generateAlterCQL, added, with
<1> QED
  BY <1>4, <1>5 DEF generateCQL

-------------------------------------------------------------------------------
(* What has been run of an execution is in the table. *)
Done(e) == Len(e.plan) - Len(e.left)

Progress(e) ==
    /\ e = [plan |-> e.plan, left |-> e.left]
    /\ IsSequence(e.plan) /\ IsSequence(e.left) /\ Done(e) \in Nat
    /\ \A j \in 1..Len(e.left) : e.left[j] = e.plan[Done(e) + j]
    /\ \A i \in 1..Done(e) : e.plan[i].op \in {"add", "index"} => e.plan[i].name \in table

OneConfirmed ==
    \/ loops = <<>> /\ confirmDisabled = FALSE
    \/ confirmDisabled = TRUE /\ \E e : loops = <<e>> /\ Progress(e)

ColumnsFit == columns \in Seq(Column) /\ Len(columns) <= edits + Len(DefaultColumns)

BuilderIInv ==
    /\ BuilderTypeOK /\ ColumnsFit
    /\ PreviewIsCurrent /\ FlagsAgree
    /\ OneConfirmed /\ SuccessIsComplete

LEMMA BuilderInvariants ==
    BuilderIInv => /\ BuilderTypeOK /\ FlagsAgree /\ PreviewIsCurrent
                   /\ OneExecution /\ SuccessIsComplete
<1> SUFFICES ASSUME BuilderIInv PROVE OneExecution
  BY DEF BuilderIInv
<1>1. CASE loops = <<>>
  BY <1>1 DEF OneExecution
<1>2. CASE \E e : loops = <<e>>
  BY <1>2 DEF OneExecution
<1> QED
  BY <1>1, <1>2 DEF BuilderIInv, OneConfirmed

LEMMA InitBuilder == BuilderInit => BuilderIInv
<1> SUFFICES ASSUME BuilderInit PROVE BuilderIInv
  OBVIOUS
<1> USE BuilderDefaults, BuilderBounds
<1>1. named \in BOOLEAN
  BY Zenon DEF BuilderInit
<1>2. columns \in Seq(Column) /\ Len(columns) <= edits + Len(DefaultColumns) /\ FlagsAgree
  <2>1. CASE mode = "alter"
    <3>1. columns = <<>> /\ Len(columns) = 0 /\ Len(DefaultColumns) \in Nat /\ edits = 0
      BY <2>1, LenProperties DEF BuilderInit
    <3> QED
      BY <3>1 DEF FlagsAgree
  <2>2. CASE mode = "create"
    <3>1. columns = DefaultColumns /\ Len(DefaultColumns) \in Nat /\ edits = 0
      BY <2>2, LenProperties DEF BuilderInit
    <3> QED
      BY <3>1 DEF FlagsAgree
  <2> QED
    BY <2>1, <2>2 DEF BuilderInit
<1>3. PreviewIsCurrent
  <2>1. CASE mode = "alter"
    BY <2>1 DEF BuilderInit, PreviewIsCurrent
  <2>2. CASE mode = "create"
    BY <2>2 DEF BuilderInit, PreviewIsCurrent, Report, Valid
  <2> QED
    BY <2>1, <2>2 DEF BuilderInit
<1>4. preview.report \in {"none", "no name"}
  BY DEF BuilderInit, Unwritten
<1>5. edits \in 0..MaxEdits
  <2>1. edits = 0
    BY DEF BuilderInit
  <2> QED
    BY <2>1
<1>6. BuilderTypeOK
  BY <1>1, <1>2, <1>4, <1>5, Zenon DEF BuilderInit, BuilderTypeOK
<1>7. OneConfirmed /\ SuccessIsComplete
  <2>1. loops = <<>> /\ confirmDisabled = FALSE /\ executed = <<>>
    BY DEF BuilderInit
  <2> QED
    BY <2>1 DEF OneConfirmed, SuccessIsComplete
<1> QED
  BY <1>2, <1>3, <1>6, <1>7 DEF BuilderIInv, ColumnsFit

(* A report is one of its five texts. *)
LEMMA ReportIsText == \A n, cols : Report(n, cols) \in {"no name", "no key", "risk", "healthy"}
<1> TAKE n, cols
<1>1. CASE ~n
  BY <1>1 DEF Report
<1>2. CASE n /\ ~SomePK(cols)
  BY <1>2 DEF Report
<1>3. CASE n /\ SomePK(cols)
  BY <1>3 DEF Report
<1> QED
  BY <1>1, <1>2, <1>3

(* The dialogs' half of the invariant looks at the server and what was confirmed. *)
LEMMA FormInvariant ==
    ASSUME BuilderIInv, Edit,
           named' \in BOOLEAN, ifNotExists' \in BOOLEAN, option' \in BOOLEAN,
           columns' \in Seq(Column), Len(columns') <= edits + 1 + Len(DefaultColumns),
           \A i \in DOMAIN columns' : KeysAgree(columns'[i])
    PROVE  BuilderIInv'
<1>1. UNCHANGED <<mode, executeModal, loops, confirmDisabled, executed, leaving,
                  table>>
  BY DEF Edit, dialogVariables
<1>2. edits' = edits + 1 /\ edits' \in 0..MaxEdits
  <2>1. edits \in 0..MaxEdits
    BY DEF BuilderIInv, BuilderTypeOK
  <2>2. edits < MaxEdits /\ edits' = edits + 1
    BY DEF Edit
  <2> QED
    BY <2>1, <2>2, BuilderBounds
<1>3. PreviewIsCurrent'
  BY <1>1 DEF Edit, updatePreview, PreviewIsCurrent, generateCQL
<1>4. preview'.report \in {"none", "no name", "no key", "risk", "healthy"}
  BY ReportIsText DEF Edit, updatePreview
<1>5. actionDisabled' \in BOOLEAN
  BY Zenon DEF Edit, updatePreview
<1>6. BuilderTypeOK'
  BY <1>1, <1>2, <1>4, <1>5 DEF BuilderIInv, BuilderTypeOK
<1>7. OneConfirmed' /\ SuccessIsComplete'
  BY <1>1 DEF BuilderIInv, OneConfirmed, Progress, SuccessIsComplete
<1>8. ColumnsFit' /\ FlagsAgree'
  BY <1>2 DEF ColumnsFit, FlagsAgree
<1> QED
  BY <1>3, <1>6, <1>7, <1>8 DEF BuilderIInv

LEMMA ColumnsInvariant ==
    ASSUME BuilderIInv, NEW cols \in Seq(Column), Len(cols) <= Len(columns) + 1,
           \A i \in DOMAIN cols : KeysAgree(cols[i]), EditColumns(cols)
    PROVE  BuilderIInv'
<1>1. Edit /\ columns' = cols /\ UNCHANGED <<named, ifNotExists, option>>
  BY DEF EditColumns
<1>2. Len(cols) \in Nat /\ Len(columns) \in Nat /\ Len(DefaultColumns) \in Nat /\ edits \in Nat
  <2>1. columns \in Seq(Column) /\ edits \in 0..MaxEdits
    BY DEF BuilderIInv, BuilderTypeOK
  <2> QED
    BY <2>1, LenProperties, BuilderDefaults, BuilderBounds
<1>3. Len(cols) <= edits + 1 + Len(DefaultColumns)
  BY <1>2 DEF BuilderIInv, ColumnsFit
<1>4. named \in BOOLEAN /\ ifNotExists \in BOOLEAN /\ option \in BOOLEAN
  BY DEF BuilderIInv, BuilderTypeOK
<1> QED
  BY <1>1, <1>3, <1>4, FormInvariant

LEMMA ColumnPut ==
    ASSUME BuilderIInv, NEW i \in DOMAIN columns, NEW c \in Column, KeysAgree(c),
           EditColumns([columns EXCEPT ![i] = c])
    PROVE  BuilderIInv'
<1> DEFINE cols == [columns EXCEPT ![i] = c]
<1>1. columns \in Seq(Column) /\ \A k \in DOMAIN columns : KeysAgree(columns[k])
  BY DEF BuilderIInv, BuilderTypeOK, FlagsAgree
<1>2. Len(columns) \in Nat /\ DOMAIN columns = 1..Len(columns)
  BY <1>1, LenProperties
<1>3. cols \in Seq(Column) /\ Len(cols) = Len(columns) /\ DOMAIN cols = DOMAIN columns
  BY <1>1, <1>2, ExceptSeq
<1>4. \A k \in DOMAIN cols : cols[k] = IF k = i THEN c ELSE columns[k]
  BY <1>1, <1>2, <1>3
<1>5. \A k \in DOMAIN cols : KeysAgree(cols[k])
  BY <1>1, <1>3, <1>4
<1>6. Len(cols) <= Len(columns) + 1
  BY <1>2, <1>3
<1> HIDE DEF cols
<1> QED
  BY <1>3, <1>5, <1>6, ColumnsInvariant DEF cols

LEMMA ColumnsStep ==
    ASSUME BuilderIInv, NEW i \in DOMAIN columns,
           \/ \E name \in Typed \cup {NoName} : nameInput(i, name)
           \/ \E type \in ColumnTypes : typeSelect(i, type)
           \/ \E type \in SubTypes : subTypeSelect(i, type)
           \/ pkCheck(i) \/ ckCheck(i) \/ ckOrderBtn(i) \/ staticCheck(i) \/ saiCheck(i)
           \/ removeColumn(i)
    PROVE  BuilderIInv'
<1> DEFINE col == columns[i]
<1>0. columns \in Seq(Column) /\ FlagsAgree
  BY DEF BuilderIInv, BuilderTypeOK
<1>1. columns \in Seq(Column) /\ col \in Column /\ KeysAgree(col)
  BY <1>0, ElementOfSeq, LenProperties DEF FlagsAgree
<1>2. Len(columns) \in Nat /\ i \in 1..Len(columns)
  BY <1>1, LenProperties
<1>a. ASSUME NEW name \in Typed \cup {NoName}, nameInput(i, name)
      PROVE  BuilderIInv'
  <2> DEFINE c == [col EXCEPT !.name = name]
  <2>1. c \in Column /\ KeysAgree(c)
    BY <1>1 DEF Column, KeysAgree
  <2>2. EditColumns([columns EXCEPT ![i] = c])
    BY <1>a DEF nameInput
  <2> QED
    BY <2>1, <2>2, ColumnPut
<1>b. ASSUME NEW type \in ColumnTypes, typeSelect(i, type)
      PROVE  BuilderIInv'
  <2> DEFINE c == [col EXCEPT !.type = type]
  <2>1. c \in Column /\ KeysAgree(c)
    BY <1>1 DEF Column, KeysAgree
  <2>2. EditColumns([columns EXCEPT ![i] = c])
    BY <1>b DEF typeSelect
  <2> QED
    BY <2>1, <2>2, ColumnPut
<1>c. ASSUME NEW type \in SubTypes, subTypeSelect(i, type)
      PROVE  BuilderIInv'
  <2> DEFINE c == [col EXCEPT !.subType1 = type]
  <2>1. c \in Column /\ KeysAgree(c)
    BY <1>1 DEF Column, KeysAgree
  <2>2. EditColumns([columns EXCEPT ![i] = c])
    BY <1>c DEF subTypeSelect
  <2> QED
    BY <2>1, <2>2, ColumnPut
<1>d. CASE pkCheck(i)
  <2> DEFINE c == [col EXCEPT !.isPK = ~col.isPK, !.isCK = @ /\ ~~col.isPK,
                              !.isStatic = @ /\ ~~col.isPK]
  <2>1. c \in Column /\ KeysAgree(c)
    BY <1>1 DEF Column, KeysAgree
  <2>2. EditColumns([columns EXCEPT ![i] = c])
    BY <1>d DEF pkCheck
  <2> QED
    BY <2>1, <2>2, ColumnPut
<1>e. CASE ckCheck(i)
  <2> DEFINE c == [col EXCEPT !.isCK = ~col.isCK, !.isPK = @ /\ ~~col.isCK,
                              !.isStatic = @ /\ ~~col.isCK]
  <2>1. c \in Column /\ KeysAgree(c)
    BY <1>1 DEF Column, KeysAgree
  <2>2. EditColumns([columns EXCEPT ![i] = c])
    BY <1>e DEF ckCheck
  <2> QED
    BY <2>1, <2>2, ColumnPut
<1>f. CASE ckOrderBtn(i)
  <2> DEFINE c == [col EXCEPT !.ckOrder = IF @ = "ASC" THEN "DESC" ELSE "ASC"]
  <2>1. c \in Column /\ KeysAgree(c)
    BY <1>1 DEF Column, KeysAgree
  <2>2. EditColumns([columns EXCEPT ![i] = c])
    BY <1>f DEF ckOrderBtn
  <2> QED
    BY <2>1, <2>2, ColumnPut
<1>g. CASE staticCheck(i)
  <2> DEFINE c == [col EXCEPT !.isStatic = ~@]
  <2>0. ~col.isPK /\ ~col.isCK
    BY <1>g DEF staticCheck
  <2>1. c \in Column /\ KeysAgree(c)
    BY <1>1, <2>0 DEF Column, KeysAgree
  <2>2. EditColumns([columns EXCEPT ![i] = c])
    BY <1>g DEF staticCheck
  <2> QED
    BY <2>1, <2>2, ColumnPut
<1>h. CASE saiCheck(i)
  <2> DEFINE c == [col EXCEPT !.hasSaiIndex = ~@]
  <2>1. c \in Column /\ KeysAgree(c)
    BY <1>1 DEF Column, KeysAgree
  <2>2. EditColumns([columns EXCEPT ![i] = c])
    BY <1>h DEF saiCheck
  <2> QED
    BY <2>1, <2>2, ColumnPut
<1>i. CASE removeColumn(i)
  <2> DEFINE cols == RemoveAt(columns, i)
  <2>1. /\ cols \in Seq(Column) /\ Len(cols) = Len(columns) - 1
        /\ \A k \in 1..Len(columns) - 1 : cols[k] = IF k < i THEN columns[k] ELSE columns[k + 1]
    BY <1>1, <1>2, RemoveAtFacts
  <2>2. EditColumns(cols)
    BY <1>i DEF removeColumn
  <2> HIDE DEF cols
  <2>3. \A k \in DOMAIN columns : KeysAgree(columns[k])
    BY DEF BuilderIInv, FlagsAgree
  <2>4. \A k \in DOMAIN cols : KeysAgree(cols[k])
    <3> TAKE k \in DOMAIN cols
    <3>1. k \in 1..Len(columns) - 1
      BY <1>2, <2>1, LenProperties
    <3>2. (k < i => k \in DOMAIN columns) /\ k + 1 \in DOMAIN columns
      BY <1>1, <1>2, <3>1, LenProperties
    <3> QED
      BY <2>1, <2>3, <3>1, <3>2
  <2> QED
    BY <1>2, <2>1, <2>2, <2>4, ColumnsInvariant
<1> QED
  BY <1>a, <1>b, <1>c, <1>d, <1>e, <1>f, <1>g, <1>h, <1>i

LEMMA FormStep ==
    ASSUME BuilderIInv, addColumn \/ tableNameInput \/ ifNotExistsToggle \/ optionChange
    PROVE  BuilderIInv'
<1>1. columns \in Seq(Column) /\ \A k \in DOMAIN columns : KeysAgree(columns[k])
  BY DEF BuilderIInv, BuilderTypeOK, FlagsAgree
<1>2. /\ Len(columns) \in Nat /\ Len(DefaultColumns) \in Nat /\ DOMAIN columns = 1..Len(columns)
      /\ Len(columns) <= edits + Len(DefaultColumns) /\ edits \in 0..MaxEdits
  BY <1>1, BuilderDefaults, LenProperties DEF BuilderIInv, ColumnsFit, BuilderTypeOK
<1>3. CASE addColumn
  <2> DEFINE c == createColumn(NewName(Len(columns)), TextType, FALSE, FALSE)
             cols == Append(columns, c)
  <2>1. Len(columns) \in 0..MaxEdits + Len(DefaultColumns)
    BY <1>2, BuilderBounds
  <2>2. c \in Column
    BY <2>1, BuilderTypes DEF createColumn, Column
  <2>3. KeysAgree(c)
    BY DEF createColumn, KeysAgree
  <2>4. EditColumns(cols)
    BY <1>3 DEF addColumn
  <2> HIDE DEF c
  <2>5. /\ cols \in Seq(Column) /\ Len(cols) = Len(columns) + 1
        /\ \A k \in 1..Len(columns) : cols[k] = columns[k]
        /\ cols[Len(columns) + 1] = c
    BY <1>1, <2>2, AppendProperties
  <2> HIDE DEF cols
  <2>6. \A k \in DOMAIN cols : KeysAgree(cols[k])
    <3> TAKE k \in DOMAIN cols
    <3>1. k \in 1..Len(columns) \/ k = Len(columns) + 1
      BY <1>2, <2>5, LenProperties
    <3> QED
      BY <1>1, <1>2, <2>3, <2>5, <3>1
  <2> QED
    BY <1>2, <2>4, <2>5, <2>6, ColumnsInvariant
<1>4. CASE tableNameInput \/ ifNotExistsToggle \/ optionChange
  <2>1. Edit /\ columns' = columns
    BY <1>4 DEF tableNameInput, ifNotExistsToggle, optionChange
  <2>2. named \in BOOLEAN /\ ifNotExists \in BOOLEAN /\ option \in BOOLEAN
    BY DEF BuilderIInv, BuilderTypeOK
  <2>3. named' \in BOOLEAN /\ ifNotExists' \in BOOLEAN /\ option' \in BOOLEAN
    BY <1>4, <2>2, Zenon DEF tableNameInput, ifNotExistsToggle, optionChange
  <2>4. Len(columns') <= edits + 1 + Len(DefaultColumns)
    BY <1>2, <2>1, BuilderBounds
  <2> QED
    BY <1>1, <2>1, <2>3, <2>4, FormInvariant
<1> QED
  BY <1>3, <1>4

LEMMA DialogStep ==
    ASSUME BuilderIInv, actionBtn \/ closeModal \/ confirmExecute
    PROVE  BuilderIInv'
<1>1. UNCHANGED <<mode, formVariables, leaving, table, edits>>
  BY DEF actionBtn, closeModal, confirmExecute
<1>2. executeModal' \in BOOLEAN /\ confirmDisabled' \in BOOLEAN
  BY DEF actionBtn, closeModal, confirmExecute, BuilderIInv, BuilderTypeOK
<1>3. BuilderTypeOK' /\ ColumnsFit' /\ FlagsAgree' /\ PreviewIsCurrent'
  BY <1>1, <1>2 DEF formVariables, BuilderIInv, BuilderTypeOK, ColumnsFit, FlagsAgree,
       PreviewIsCurrent, generateCQL
<1>5. CASE actionBtn \/ closeModal
  <2>1. UNCHANGED <<loops, confirmDisabled, executed, table>>
    BY <1>5 DEF actionBtn, closeModal
  <2>2. OneConfirmed' /\ SuccessIsComplete'
    BY <2>1 DEF BuilderIInv, OneConfirmed, Progress, SuccessIsComplete
  <2> QED
    BY <1>3, <2>2 DEF BuilderIInv
<1>6. CASE confirmExecute
  <2> DEFINE cql == generateCQL(columns, ifNotExists, option)
  <2>0. PICK e : e = [plan |-> cql, left |-> cql]
    OBVIOUS
  <2>1. IsSequence(cql)
    BY GeneratedIsSequence DEF BuilderIInv, ColumnsFit
  <2>2. loops = <<>>
    BY <1>6 DEF confirmExecute, BuilderIInv, OneConfirmed
  <2>3. loops' = Append(loops, e) /\ confirmDisabled' = TRUE /\ executed' = <<>>
    BY <1>6, <2>0 DEF confirmExecute
  <2>a. e.plan = cql /\ e.left = cql /\ e = [plan |-> e.plan, left |-> e.left]
    BY <2>0
  <2> HIDE DEF cql
  <2>4. loops' = <<e>>
    BY <2>2, <2>3
  <2>5. Progress(e)'
    <3>1. Len(cql) \in Nat
      BY <2>1, SequencesHaveLengths
    <3>2. Done(e) = 0
      BY <2>a, <3>1 DEF Done
    <3> QED
      BY <2>1, <2>a, <3>1, <3>2 DEF Progress, Done
  <2>6. OneConfirmed'
    BY <2>3, <2>4, <2>5 DEF OneConfirmed
  <2>7. SuccessIsComplete'
    BY <2>3 DEF SuccessIsComplete
  <2> QED
    BY <1>3, <2>6, <2>7 DEF BuilderIInv
<1> QED
  BY <1>5, <1>6

(* A statement never takes a column away. *)
LEMMA AppliedGrows == \A stmt : table \subseteq Applied(stmt)
<1> TAKE stmt
<1>1. CASE stmt.op = "create"
  BY <1>1 DEF Applied
<1>2. CASE stmt.op = "add"
  BY <1>2 DEF Applied
<1>3. CASE stmt.op # "create" /\ stmt.op # "add"
  BY <1>3 DEF Applied
<1> QED
  BY <1>1, <1>2, <1>3

LEMMA ExecutionStep ==
    ASSUME BuilderIInv, NEW l \in DOMAIN loops,
           StatementRuns(l) \/ StatementFails(l) \/ ExecutionSucceeds(l)
    PROVE  BuilderIInv'
<1>1. UNCHANGED <<mode, formVariables, executeModal, edits>>
  BY DEF StatementRuns, StatementFails, ExecutionSucceeds
<1>2. confirmDisabled' \in BOOLEAN /\ leaving' \in BOOLEAN
  BY DEF StatementRuns, StatementFails, ExecutionSucceeds, BuilderIInv, BuilderTypeOK
<1>3. BuilderTypeOK' /\ ColumnsFit' /\ FlagsAgree' /\ PreviewIsCurrent'
  BY <1>1, <1>2 DEF formVariables, BuilderIInv, BuilderTypeOK, ColumnsFit, FlagsAgree,
       PreviewIsCurrent, generateCQL
<1>4. PICK e : loops = <<e>> /\ Progress(e) /\ confirmDisabled = TRUE
  BY DEF BuilderIInv, OneConfirmed
<1>5. l = 1 /\ loops[l] = e
  BY <1>4
<1>6. RemoveAt(loops, l) = <<>>
  <2>1. <<e>> \in Seq({e}) /\ Len(<<e>>) = 1 /\ 1 \in 1..Len(<<e>>)
    OBVIOUS
  <2>2. RemoveAt(<<e>>, 1) \in Seq({e}) /\ Len(RemoveAt(<<e>>, 1)) = Len(<<e>>) - 1
    BY <2>1, RemoveAtFacts
  <2>3. RemoveAt(<<e>>, 1) = <<>>
    BY <2>1, <2>2, EmptySeq
  <2> QED
    BY <1>4, <1>5, <2>3
<1>7. SuccessIsComplete
  BY DEF BuilderIInv
<1>8. Len(e.plan) \in Nat /\ Len(e.left) \in Nat /\ DOMAIN e.plan = 1..Len(e.plan)
  BY <1>4, SequencesHaveLengths DEF Progress
<1>9. CASE StatementRuns(l)
  <2> DEFINE n == Done(e)
             f == [e EXCEPT !.left = Tail(e.left)]
  <2>1. /\ e.left # <<>> /\ Accepted(Head(e.left)) /\ table' = Applied(Head(e.left))
        /\ loops' = [loops EXCEPT ![l].left = Tail(e.left)]
        /\ UNCHANGED <<confirmDisabled, executed>>
    BY <1>5, <1>9 DEF StatementRuns
  <2>2. loops' = <<f>>
    <3>1. loops' = [<<e>> EXCEPT ![1] = f]
      BY <1>4, <1>5, <2>1
    <3> HIDE DEF f
    <3> QED
      BY <3>1
  <2>3. PICK S : e.left \in Seq(S)
    BY <1>4 DEF Progress, IsSequence
  <2>4. /\ Tail(e.left) \in Seq(S) /\ Len(Tail(e.left)) = Len(e.left) - 1
        /\ \A j \in 1..Len(Tail(e.left)) : Tail(e.left)[j] = e.left[j + 1]
        /\ Head(e.left) = e.left[1] /\ Len(e.left) > 0
    BY <2>1, <2>3, HeadTailProperties, EmptySeq
  <2>5. table \subseteq table'
    BY <2>1, AppliedGrows
  <2>a. n \in Nat /\ n = Len(e.plan) - Len(e.left)
    BY <1>4 DEF Progress, Done
  <2>b. /\ \A j \in 1..Len(e.left) : e.left[j] = e.plan[n + j]
        /\ \A i \in 1..n : e.plan[i].op \in {"add", "index"} => e.plan[i].name \in table
    BY <1>4 DEF Progress
  <2>c. f.plan = e.plan /\ f.left = Tail(e.left) /\ f = [plan |-> f.plan, left |-> f.left]
    <3>1. PICK p, q : p = e.plan /\ q = e.left
      OBVIOUS
    <3>2. e = [plan |-> p, left |-> q]
      BY <1>4, <3>1 DEF Progress
    <3>a. \A x : [[plan |-> p, left |-> q] EXCEPT !.left = x] = [plan |-> p, left |-> x]
      OBVIOUS
    <3>b. f = [[plan |-> p, left |-> q] EXCEPT !.left = Tail(q)]
      BY <3>1, <3>2, Zenon
    <3>3. f = [plan |-> p, left |-> Tail(q)]
      BY <3>a, <3>b
    <3> QED
      BY <3>1, <3>3
  <2> HIDE DEF n, f
  <2>d. Done(f) = n + 1 /\ Len(f.left) = Len(e.left) - 1
    <3> DEFINE p == Len(e.plan) q == Len(e.left) t == Len(Tail(e.left))
    <3>1. p \in Nat /\ q \in Nat /\ t = q - 1 /\ n = p - q
      BY <1>8, <2>4, <2>a
    <3>2. Done(f) = p - t /\ Len(f.left) = t
      BY <2>c DEF Done
    <3> HIDE DEF p, q, t
    <3>3. Done(f) = n + 1 /\ Len(f.left) = q - 1
      BY <3>1, <3>2
    <3> QED
      BY <3>3 DEF q
  <2>6. ASSUME NEW j \in 1..Len(f.left)
        PROVE  f.left[j] = f.plan[Done(f) + j]
    <3>1. j + 1 \in 1..Len(e.left) /\ n + (j + 1) = (n + 1) + j
      <4> DEFINE q == Len(e.left) r == Len(f.left)
      <4>1. q \in Nat /\ r = q - 1 /\ j \in 1..r /\ n \in Nat
        BY <1>8, <2>a, <2>d
      <4> HIDE DEF q, r
      <4>2. j + 1 \in 1..q /\ n + (j + 1) = (n + 1) + j
        BY <4>1
      <4> QED
        BY <4>2 DEF q
    <3>2. f.left[j] = e.left[j + 1]
      BY <2>4, <2>c
    <3>3. e.left[j + 1] = e.plan[n + (j + 1)]
      BY <2>b, <3>1
    <3> QED
      BY <2>c, <2>d, <3>1, <3>2, <3>3
  <2>7. ASSUME NEW i \in 1..Done(f), f.plan[i].op \in {"add", "index"}
        PROVE  f.plan[i].name \in table'
    <3>1. CASE i \in 1..n
      BY <2>5, <2>7, <2>b, <2>c, <3>1
    <3>2. CASE i = n + 1
      <4>1. e.plan[i] = Head(e.left)
        BY <1>8, <2>4, <2>b, <3>2
      <4>2. CASE Head(e.left).op = "add"
        BY <2>1, <2>c, <4>1, <4>2 DEF Applied
      <4>3. CASE Head(e.left).op = "index"
        BY <2>1, <2>c, <4>1, <4>3 DEF Applied, Accepted
      <4> QED
        BY <2>7, <2>c, <4>1, <4>2, <4>3
    <3>3. i \in 1..n + 1 /\ n \in Nat
      BY <2>a, <2>d
    <3> HIDE <2>7
    <3> QED
      BY <3>1, <3>2, <3>3
  <2>8. Progress(f)'
    <3>1. IsSequence(f.plan) /\ IsSequence(f.left)
      BY <1>4, <2>4, <2>c DEF Progress, IsSequence
    <3>2. Done(f) \in Nat
      BY <2>a, <2>d
    <3>3. \A j \in 1..Len(f.left) : f.left[j] = f.plan[Done(f) + j]
      BY <2>6
    <3>4. \A i \in 1..Done(f) : f.plan[i].op \in {"add", "index"} => f.plan[i].name \in table'
      BY <2>7
    <3> SUFFICES ASSUME NEW g, g = f PROVE Progress(g)'
      BY DEF f
    <3> QED
      BY <2>c, <3>1, <3>2, <3>3, <3>4 DEF Progress, Done
  <2>9. SuccessIsComplete'
    BY <1>7, <2>1, <2>5 DEF SuccessIsComplete
  <2>10. OneConfirmed'
    BY <1>4, <2>1, <2>2, <2>8 DEF OneConfirmed
  <2> QED
    BY <1>3, <2>9, <2>10 DEF BuilderIInv
<1>10. CASE StatementFails(l)
  <2>1. /\ table' \in {table} \cup {Applied(s) : s \in {t \in {Head(e.left)} : Accepted(t)}}
        /\ loops' = <<>> /\ confirmDisabled' = FALSE /\ executed' = executed
    BY <1>5, <1>6, <1>10 DEF StatementFails
  <2>2. table \subseteq table'
    BY <2>1, AppliedGrows
  <2>3. SuccessIsComplete'
    BY <1>7, <2>1, <2>2 DEF SuccessIsComplete
  <2> QED
    BY <1>3, <2>1, <2>3 DEF BuilderIInv, OneConfirmed
<1>11. CASE ExecutionSucceeds(l)
  <2>1. /\ e.left = <<>> /\ loops' = <<>> /\ executed' = e.plan /\ confirmDisabled' = FALSE
        /\ table' = table
    BY <1>5, <1>6, <1>11 DEF ExecutionSucceeds
  <2>2. Done(e) = Len(e.plan)
    BY <1>8, <2>1 DEF Done
  <2>3. SuccessIsComplete'
    BY <1>4, <1>8, <2>1, <2>2 DEF SuccessIsComplete, Progress
  <2> QED
    BY <1>3, <2>1, <2>3 DEF BuilderIInv, OneConfirmed
<1> QED
  BY <1>9, <1>10, <1>11

LEMMA LoadBuilderInvariant == ASSUME BuilderIInv, LoadBuilder PROVE BuilderIInv'
<1> USE BuilderDefaults
<1>1. mode \in {"create", "alter"} /\ mode' = mode /\ edits \in 0..MaxEdits /\ edits' = edits
  BY DEF BuilderIInv, BuilderTypeOK, LoadBuilder
<1>2. named' \in BOOLEAN
  BY Zenon DEF LoadBuilder
<1>3. columns' \in Seq(Column) /\ Len(columns') <= edits + Len(DefaultColumns) /\ FlagsAgree'
  <2>1. CASE mode = "alter"
    <3>1. columns' = <<>> /\ Len(<<>>) = 0 /\ Len(DefaultColumns) \in Nat
      BY <2>1, LenProperties DEF LoadBuilder
    <3> QED
      BY <1>1, <3>1, BuilderBounds DEF FlagsAgree
  <2>2. CASE mode = "create"
    <3>1. columns' = DefaultColumns /\ Len(DefaultColumns) \in Nat
      BY <2>2, LenProperties DEF LoadBuilder
    <3> QED
      BY <1>1, <3>1, BuilderBounds DEF FlagsAgree
  <2> QED
    BY <1>1, <2>1, <2>2
<1>4. PreviewIsCurrent'
  <2>1. CASE mode = "alter"
    BY <1>1, <2>1 DEF LoadBuilder, PreviewIsCurrent
  <2>2. CASE mode = "create"
    BY <1>1, <2>2 DEF LoadBuilder, PreviewIsCurrent, Report, Valid, generateCQL
  <2> QED
    BY <1>1, <2>1, <2>2
<1>5. preview'.report \in {"none", "no name"}
  BY DEF LoadBuilder, Unwritten
<1>6. /\ ifNotExists' = TRUE /\ option' = FALSE /\ actionDisabled' = TRUE
      /\ executeModal' = FALSE /\ loops' = <<>> /\ confirmDisabled' = FALSE /\ executed' = <<>>
      /\ leaving' = FALSE
  BY DEF LoadBuilder
<1>7. BuilderTypeOK'
  BY <1>1, <1>2, <1>3, <1>5, <1>6, Zenon DEF BuilderTypeOK
<1>8. OneConfirmed'
  BY <1>6 DEF OneConfirmed
<1>9. SuccessIsComplete'
  BY <1>6 DEF SuccessIsComplete
<1> QED
  BY <1>1, <1>3, <1>4, <1>7, <1>8, <1>9 DEF BuilderIInv, ColumnsFit

LEMMA BuilderStep ==
    ASSUME BuilderIInv, BuilderUser \/ BuilderNext \/ LoadBuilder
    PROVE  BuilderIInv'
<1>1. CASE BuilderUser
  BY <1>1, ColumnsStep, FormStep, DialogStep DEF BuilderUser
<1>2. CASE BuilderNext
  BY <1>2, ExecutionStep, LoadBuilderInvariant DEF BuilderNext, LeaveBuilder
<1> QED
  BY <1>1, <1>2, LoadBuilderInvariant

LEMMA BuilderStutter == ASSUME BuilderIInv, UNCHANGED builderVars PROVE BuilderIInv'
<1> USE DEF builderVars, formVariables, dialogVariables, BuilderIInv
<1>1. BuilderTypeOK' /\ ColumnsFit' /\ FlagsAgree'
  BY DEF BuilderTypeOK, ColumnsFit, FlagsAgree
<1>2. PreviewIsCurrent'
  BY DEF PreviewIsCurrent, generateCQL
<1>3. OneConfirmed' /\ SuccessIsComplete'
  BY DEF OneConfirmed, Progress, SuccessIsComplete
<1> QED
  BY <1>1, <1>2, <1>3

-------------------------------------------------------------------------------
(***************************************************************************)
(* The keyspace designer.  Its statements are the settings they leave a    *)
(* keyspace with.                                                          *)
(***************************************************************************)
Datacenter == [name: DCs \cup {NoDC}, rf: Factors]

Replications ==
    {[class |-> "LocalStrategy", rf |-> 0, dcs |-> <<>>]}
        \cup [class: {"SimpleStrategy"}, rf: Factors \ {0}, dcs: {<<>>}]
        \cup {[class |-> "NetworkTopologyStrategy", rf |-> 0, dcs |-> d] :
                 d \in UNION {[D -> Factors \ {0}] : D \in SUBSET DCs}}

Settings == [replication: Replications, durable: BOOLEAN]

(* The datacenters a form lists, and which of two with a name counts. *)
Listed(dcs) == {i \in DOMAIN dcs : dcs[i].name # NoDC /\ dcs[i].rf # 0}
LastOf(dcs, name) ==
    CHOOSE i \in Listed(dcs) :
        dcs[i].name = name /\ \A k \in Listed(dcs) : dcs[k].name = name => k <= i

LEMMA LastOfFacts ==
    ASSUME NEW dcs \in Seq(Datacenter), NEW j \in Listed(dcs)
    PROVE  /\ LastOf(dcs, dcs[j].name) \in Listed(dcs)
           /\ dcs[LastOf(dcs, dcs[j].name)].name = dcs[j].name
<1> DEFINE N == {i \in Listed(dcs) : dcs[i].name = dcs[j].name}
<1>1. Len(dcs) \in Nat /\ DOMAIN dcs = 1..Len(dcs)
  BY LenProperties
<1>2. N \in SUBSET (1..Len(dcs)) /\ N # {}
  BY <1>1 DEF Listed
<1>3. \E g \in N : \A m \in N : m <= g
  <2> HIDE DEF N
  <2> QED
    BY <1>1, <1>2, GreatestExists
<1>4. \E i \in Listed(dcs) :
         dcs[i].name = dcs[j].name /\ \A k \in Listed(dcs) : dcs[k].name = dcs[j].name => k <= i
  BY <1>3
<1> QED
  BY <1>4 DEF LastOf

LEMMA ReplicationTypes ==
    ASSUME NEW class \in Strategies, NEW factor \in Factors, NEW dcs \in Seq(Datacenter)
    PROVE  Replication(class, factor, dcs) \in Replications
<1>1. CASE class = "SimpleStrategy"
  BY <1>1, KeyspaceBounds DEF Replication, Replications
<1>2. CASE class = "NetworkTopologyStrategy"
  <2> DEFINE D == {dcs[i].name : i \in Listed(dcs)}
             f == [name \in D |-> dcs[LastOf(dcs, name)].rf]
  <2>0. \A i \in DOMAIN dcs : dcs[i].name \in DCs \cup {NoDC} /\ dcs[i].rf \in Factors
    <3>1. \A i \in DOMAIN dcs : dcs[i] \in Datacenter
      BY ElementOfSeq, LenProperties
    <3> QED
      BY <3>1 DEF Datacenter
  <2>1. D \in SUBSET DCs
    BY <2>0 DEF Listed
  <2>2. ASSUME NEW name \in D PROVE dcs[LastOf(dcs, name)].rf \in Factors \ {0}
    <3>1. PICK j \in Listed(dcs) : name = dcs[j].name
      OBVIOUS
    <3>2. LastOf(dcs, name) \in Listed(dcs)
      BY <3>1, LastOfFacts
    <3> QED
      BY <2>0, <3>2 DEF Listed
  <2>3. f \in [D -> Factors \ {0}]
    <3> HIDE DEF D
    <3> QED
      BY <2>2
  <2>4. Replication(class, factor, dcs) = [class |-> class, rf |-> 0, dcs |-> f]
    BY <1>2, Zenon DEF Replication, LastOf, Listed
  <2> HIDE DEF D, f
  <2>5. f \in UNION {[E -> Factors \ {0}] : E \in SUBSET DCs}
    BY <2>1, <2>3
  <2> QED
    BY <1>2, <2>4, <2>5 DEF Replications
<1> QED
  BY <1>1, <1>2 DEF Strategies

(* SetToSeq enumerates a finite set, each element once. *)
LEMMA Enumeration ==
    ASSUME NEW S, IsFiniteSet(S)
    PROVE  /\ SetToSeq(S) \in Seq(S) /\ Len(SetToSeq(S)) = Cardinality(S)
           /\ \A i, j \in DOMAIN SetToSeq(S) : SetToSeq(S)[i] = SetToSeq(S)[j] => i = j
           /\ \A x \in S : \E i \in DOMAIN SetToSeq(S) : SetToSeq(S)[i] = x
<1> DEFINE n == Cardinality(S)
<1>1. n \in Nat /\ ExistsBijection(1..n, S)
  BY FS_CardinalityType
<1>2. PICK b \in [1..n -> S] : IsInjective(b)
  BY <1>1 DEF ExistsBijection, Bijection, Injection
<1>3. SetToSeq(S) \in [1..n -> S] /\ IsInjective(SetToSeq(S))
  BY <1>2 DEF SetToSeq
<1>4. SetToSeq(S) \in Injection(1..n, S)
  BY <1>3 DEF Injection
<1>5. IsFiniteSet(1..n) /\ Cardinality(1..n) = n
  BY <1>1, IntervalFacts
<1>6. SetToSeq(S) \in Surjection(1..n, S)
  BY <1>4, <1>5, FS_Injection
<1>7. SetToSeq(S) \in Seq(S) /\ Len(SetToSeq(S)) = n
  BY <1>1, <1>3, LenProperties
<1> QED
  BY <1>3, <1>6, <1>7 DEF IsInjective, Surjection

(* The form an existing keyspace is loaded into, and the statement it stands for. *)
LEMMA FilledFacts ==
    ASSUME NEW ks \in Settings
    PROVE  /\ Filled(ks).strategy \in Strategies /\ Filled(ks).rf \in Factors
           /\ Filled(ks).durable = ks.durable /\ Filled(ks).dcs \in Seq(Datacenter)
           /\ ks.replication.class \in Strategies =>
                 Replication(Filled(ks).strategy, Filled(ks).rf, Filled(ks).dcs) = ks.replication
<1> DEFINE r == ks.replication
<1>0. r \in Replications
  BY DEF Settings
<1>3. CASE r = [class |-> "LocalStrategy", rf |-> 0, dcs |-> <<>>]
  <2>1. r.class = "LocalStrategy" /\ r.class \notin Strategies
    BY <1>3 DEF Strategies
  <2>2. /\ Filled(ks).strategy = "SimpleStrategy" /\ Filled(ks).rf = 3
        /\ Filled(ks).durable = ks.durable /\ Filled(ks).dcs = <<>>
    BY <2>1 DEF Filled
  <2>3. <<>> \in Seq(Datacenter)
    BY EmptySeq
  <2> QED
    BY <2>1, <2>2, <2>3, KeyspaceBounds DEF Strategies
<1>1. CASE r \in [class: {"SimpleStrategy"}, rf: Factors \ {0}, dcs: {<<>>}]
  <2>0. r.class = "SimpleStrategy" /\ r.rf \in Factors \ {0}
        /\ r = [class |-> "SimpleStrategy", rf |-> r.rf, dcs |-> <<>>]
    BY <1>1
  <2>1. /\ Filled(ks).strategy = "SimpleStrategy" /\ Filled(ks).rf = r.rf
        /\ Filled(ks).durable = ks.durable /\ Filled(ks).dcs = <<>>
    BY <2>0 DEF Filled, Strategies
  <2>2. Replication("SimpleStrategy", r.rf, <<>>) = r
    BY <2>0 DEF Replication
  <2>3. <<>> \in Seq(Datacenter)
    BY EmptySeq
  <2> QED
    BY <2>0, <2>1, <2>2, <2>3 DEF Strategies
<1>2. CASE \E D \in SUBSET DCs : \E d \in [D -> Factors \ {0}] :
              r = [class |-> "NetworkTopologyStrategy", rf |-> 0, dcs |-> d]
  <2>1. PICK D \in SUBSET DCs : \E d \in [D -> Factors \ {0}] :
                r = [class |-> "NetworkTopologyStrategy", rf |-> 0, dcs |-> d]
    BY <1>2
  <2>2. PICK d \in [D -> Factors \ {0}] :
                r = [class |-> "NetworkTopologyStrategy", rf |-> 0, dcs |-> d]
    BY <2>1
  <2>3. IsFiniteSet(D)
    BY <2>1, KeyspaceBounds, FS_Subset
  <2> DEFINE names == SetToSeq(D)
             dcs == [i \in DOMAIN names |-> [name |-> names[i], rf |-> d[names[i]]]]
  <2>4. /\ names \in Seq(D)
        /\ \A i, j \in DOMAIN names : names[i] = names[j] => i = j
        /\ \A x \in D : \E i \in DOMAIN names : names[i] = x
    BY <2>3, Enumeration
  <2>5. DOMAIN d = D
    OBVIOUS
  <2>6. /\ Filled(ks).strategy = "NetworkTopologyStrategy" /\ Filled(ks).rf = 3
        /\ Filled(ks).durable = ks.durable /\ Filled(ks).dcs = dcs
    BY <2>2, <2>5 DEF Filled, Strategies
  <2> HIDE DEF names
  <2>7. Len(names) \in Nat /\ DOMAIN names = 1..Len(names) /\ \A i \in DOMAIN names : names[i] \in D
    BY <2>4, LenProperties, ElementOfSeq
  <2>8. dcs \in Seq(Datacenter) /\ DOMAIN dcs = DOMAIN names
    <3>1. \A i \in 1..Len(names) : [name |-> names[i], rf |-> d[names[i]]] \in Datacenter
      BY <2>1, <2>7 DEF Datacenter
    <3>2. dcs = [i \in 1..Len(names) |-> [name |-> names[i], rf |-> d[names[i]]]]
      BY <2>7
    <3>3. [i \in 1..Len(names) |-> [name |-> names[i], rf |-> d[names[i]]]] \in Seq(Datacenter)
      BY <2>7, <3>1, IsASeq
    <3> QED
      BY <3>2, <3>3
  <2>9. \A i \in DOMAIN names : dcs[i].name = names[i] /\ dcs[i].rf = d[names[i]]
    OBVIOUS
  <2> HIDE DEF dcs
  <2>10. Listed(dcs) = DOMAIN names
    BY <2>1, <2>7, <2>8, <2>9, KeyspaceBounds DEF Listed
  <2>11. {dcs[i].name : i \in Listed(dcs)} = D
    BY <2>4, <2>7, <2>9, <2>10
  <2>12. ASSUME NEW name \in D PROVE dcs[LastOf(dcs, name)].rf = d[name]
    <3>1. PICK j \in DOMAIN names : names[j] = name
      BY <2>4
    <3>2. LastOf(dcs, name) \in Listed(dcs) /\ dcs[LastOf(dcs, name)].name = name
      BY <2>8, <2>9, <2>10, <3>1, LastOfFacts
    <3> QED
      BY <2>9, <2>10, <3>2
  <2>13. [name \in {dcs[i].name : i \in Listed(dcs)} |-> dcs[LastOf(dcs, name)].rf] = d
    BY <2>11, <2>12
  <2>14. Replication("NetworkTopologyStrategy", 3, dcs)
           = [class |-> "NetworkTopologyStrategy", rf |-> 0,
              dcs |-> [name \in {dcs[i].name : i \in Listed(dcs)} |-> dcs[LastOf(dcs, name)].rf]]
    BY Zenon DEF Replication, LastOf, Listed
  <2>15. Replication("NetworkTopologyStrategy", 3, dcs) = r
    BY <2>2, <2>13, <2>14
  <2> QED
    BY <2>6, <2>8, <2>15, KeyspaceBounds DEF Strategies
<1> QED
  BY <1>0, <1>1, <1>2, <1>3 DEF Replications

-------------------------------------------------------------------------------
(* The keyspace has settings whenever the page knows of one, and what is in flight *)
(* would, of a form nobody changed, change none of them.                           *)
SettingsKnown ==
    \/ keyspace = Nothing /\ ksMode = "create" /\ ~deployed
    \/ keyspace \in Settings

InFlightIsStatement ==
    deploying # Nothing =>
        /\ deploying.replication \in Replications
        /\ changes = 0 /\ ksMode = "alter" => deploying = ksPreview

ButtonIsHeld == deploying # Nothing \/ deployed => deployDisabled

KeyspaceIInv ==
    /\ KeyspaceTypeOK
    /\ KsPreviewIsCurrent /\ DeployedOnce /\ UntouchedChangesNothing
    /\ SettingsKnown /\ InFlightIsStatement /\ ButtonIsHeld

LEMMA FormReplication ==
    KeyspaceTypeOK => FormStatement.replication \in Replications
  BY ReplicationTypes DEF KeyspaceTypeOK, FormStatement, Statement, Datacenter

(* A statement that is executed leaves settings. *)
LEMMA ExecutedFacts ==
    ASSUME SettingsKnown, NEW stmt, stmt.replication \in Replications
    PROVE  Executed(stmt) \in Settings
<1>1. CASE ksMode = "create"
  <2>1. (stmt.durable = "default") \in BOOLEAN
    BY Zenon
  <2>2. [replication |-> stmt.replication, durable |-> stmt.durable = "default"] \in Settings
    BY <2>1 DEF Settings
  <2> QED
    BY <1>1, <2>2, Zenon DEF Executed, SettingsKnown
<1>2. CASE ksMode # "create"
  <2>1. keyspace.durable \in BOOLEAN
    BY <1>2 DEF SettingsKnown, Settings
  <2>2. (keyspace.durable /\ stmt.durable = "default") \in BOOLEAN
    BY <2>1, Zenon
  <2>3. [replication |-> stmt.replication,
         durable |-> keyspace.durable /\ stmt.durable = "default"] \in Settings
    BY <2>2 DEF Settings
  <2> QED
    BY <1>2, <2>3, Zenon DEF Executed
<1> QED
  BY <1>1, <1>2

(* What a page that is loaded to alter a keyspace would execute is what is there. *)
LEMMA FilledChangesNothing ==
    ASSUME NEW ks \in Settings, ks.replication.class \in Strategies
    PROVE  LET f == Filled(ks)
               stmt == Statement("good", f.strategy, f.rf, f.durable, f.dcs)
           IN [replication |-> stmt.replication,
               durable |-> ks.durable /\ stmt.durable = "default"] = ks
<1> DEFINE f == Filled(ks)
<1>1. Replication(f.strategy, f.rf, f.dcs) = ks.replication /\ f.durable = ks.durable
  BY FilledFacts
<1>2. ks = [replication |-> ks.replication, durable |-> ks.durable] /\ ks.durable \in BOOLEAN
  BY DEF Settings
<1> HIDE DEF f
<1>3. Statement("good", f.strategy, f.rf, f.durable, f.dcs)
        = [named |-> "good" # "empty", replication |-> ks.replication,
           durable |-> IF ks.durable THEN "default" ELSE "false"]
  BY <1>1 DEF Statement
<1>4. CASE ks.durable = TRUE
  BY <1>2, <1>3, <1>4 DEF f
<1>5. CASE ks.durable = FALSE
  BY <1>2, <1>3, <1>5 DEF f
<1> QED
  BY <1>2, <1>4, <1>5

LEMMA BlankTypes ==
    /\ Blank.strategy \in Strategies /\ Blank.rf \in Factors /\ Blank.durable \in BOOLEAN
    /\ Blank.dcs \in Seq(Datacenter)
  BY KeyspaceBounds, EmptySeq DEF Blank, Strategies

LEMMA ExistingAreSettings == ExistingKeyspaces \subseteq Settings
<1>1. /\ [class |-> "SimpleStrategy", rf |-> 1, dcs |-> <<>>] \in Replications
      /\ [class |-> "LocalStrategy", rf |-> 0, dcs |-> <<>>] \in Replications
  BY KeyspaceBounds DEF Replications
<1>2. [dc \in DCs |-> 3] \in [DCs -> Factors \ {0}]
  BY KeyspaceBounds
<1>3. [class |-> "NetworkTopologyStrategy", rf |-> 0, dcs |-> [dc \in DCs |-> 3]] \in Replications
  BY <1>2 DEF Replications
<1> QED
  BY <1>1, <1>3 DEF ExistingKeyspaces, Settings

LEMMA InitKeyspace == KeyspaceInit => KeyspaceIInv
<1> SUFFICES ASSUME KeyspaceInit PROVE KeyspaceIInv
  OBVIOUS
<1>1. /\ ksPreview = FormStatement /\ createDisabled = (ksName # "good")
      /\ ksModal = FALSE /\ deploying = Nothing /\ deployDisabled = FALSE /\ deployed = FALSE
      /\ changes = 0
  BY Zenon DEF KeyspaceInit
<1>2. CASE keyspace = Nothing
  <2>1. /\ ksMode = "create" /\ ksName = "empty" /\ strategy = Blank.strategy /\ rf = Blank.rf
        /\ durable = Blank.durable /\ datacenters = Blank.dcs
    BY <1>2 DEF KeyspaceInit
  <2>2. KeyspaceTypeOK
    <3>1. createDisabled \in BOOLEAN
      BY <1>1, Zenon
    <3>2. changes \in 0..MaxChanges
      BY <1>1, KeyspaceBounds
    <3> QED
      BY <1>1, <2>1, <3>1, <3>2, BlankTypes DEF KeyspaceTypeOK, Datacenter
  <2> QED
    BY <1>1, <1>2, <2>1, <2>2 DEF KeyspaceIInv, KsPreviewIsCurrent, DeployedOnce,
         UntouchedChangesNothing, SettingsKnown, InFlightIsStatement, ButtonIsHeld
<1>3. CASE keyspace # Nothing
  <2>1. keyspace \in Settings
    BY <1>3, ExistingAreSettings DEF KeyspaceInit
  <2> DEFINE f == Filled(keyspace)
  <2>2. /\ ksMode = "alter" /\ ksName = "good" /\ strategy = f.strategy /\ rf = f.rf
        /\ durable = f.durable /\ datacenters = f.dcs
    BY <1>3 DEF KeyspaceInit
  <2>3. /\ f.strategy \in Strategies /\ f.rf \in Factors
        /\ f.durable \in BOOLEAN /\ f.dcs \in Seq(Datacenter)
    BY <2>1, FilledFacts DEF Settings
  <2>4. KeyspaceTypeOK
    <3>1. createDisabled \in BOOLEAN
      BY <1>1, Zenon
    <3>2. changes \in 0..MaxChanges
      BY <1>1, KeyspaceBounds
    <3> HIDE DEF f
    <3> QED
      BY <1>1, <2>2, <2>3, <3>1, <3>2 DEF KeyspaceTypeOK, Datacenter
  <2>5. keyspace.replication.class \in Strategies => Executed(ksPreview) = keyspace
    BY <1>1, <2>1, <2>2, FilledChangesNothing DEF FormStatement, Executed
  <2> QED
    BY <1>1, <2>1, <2>2, <2>4, <2>5 DEF KeyspaceIInv, KsPreviewIsCurrent, DeployedOnce,
         UntouchedChangesNothing, SettingsKnown, InFlightIsStatement, ButtonIsHeld
<1> QED
  BY <1>2, <1>3

LEMMA LoadKeyspaceInvariant ==
    ASSUME KeyspaceIInv, NEW m \in {"create", "alter"}, m = ksMode \/ (deployed /\ m = "alter"),
           LoadAs(m)
    PROVE  KeyspaceIInv'
<1>1. /\ ksMode' = m /\ ksPreview' = FormStatement' /\ createDisabled' = (ksName' # "good")
      /\ ksModal' = FALSE /\ deploying' = Nothing /\ deployDisabled' = FALSE
      /\ deployed' = FALSE /\ changes' = 0
  BY Zenon DEF LoadAs, updateState
<1>2. \A stmt \in {deploying} \ {Nothing} : Executed(stmt) \in Settings
  BY ExecutedFacts DEF KeyspaceIInv, InFlightIsStatement
<1>3. keyspace' = keyspace \/ keyspace' \in Settings
  BY <1>2 DEF LoadAs
<1>a. createDisabled' \in BOOLEAN
  BY <1>1, Zenon
<1>b. changes' \in 0..MaxChanges
  BY <1>1, KeyspaceBounds
<1>4. CASE m = "create"
  <2>1. /\ ksName' = "empty" /\ strategy' = Blank.strategy /\ rf' = Blank.rf
        /\ durable' = Blank.durable /\ datacenters' = Blank.dcs
    BY <1>4 DEF LoadAs
  <2>2. KeyspaceTypeOK'
    BY <1>1, <1>4, <1>a, <1>b, <2>1, BlankTypes DEF KeyspaceTypeOK, Datacenter
  <2>3. SettingsKnown'
    BY <1>1, <1>3, <1>4 DEF KeyspaceIInv, SettingsKnown
  <2> QED
    BY <1>1, <1>4, <2>2, <2>3 DEF KeyspaceIInv, KsPreviewIsCurrent, DeployedOnce,
         UntouchedChangesNothing, InFlightIsStatement, ButtonIsHeld
<1>5. CASE m = "alter"
  <2>1. keyspace' \in Settings
    BY <1>3, <1>5 DEF KeyspaceIInv, SettingsKnown
  <2> DEFINE f == Filled(keyspace')
  <2>2. /\ ksName' = "good" /\ strategy' = f.strategy /\ rf' = f.rf
        /\ durable' = f.durable /\ datacenters' = f.dcs
    BY <1>5 DEF LoadAs
  <2>3. /\ f.strategy \in Strategies /\ f.rf \in Factors
        /\ f.durable \in BOOLEAN /\ f.dcs \in Seq(Datacenter)
    BY <2>1, FilledFacts DEF Settings
  <2>4. KeyspaceTypeOK'
    <3> HIDE DEF f
    <3> QED
      BY <1>1, <1>5, <1>a, <1>b, <2>2, <2>3 DEF KeyspaceTypeOK, Datacenter
  <2>5. keyspace'.replication.class \in Strategies => Executed(ksPreview)' = keyspace'
    <3>1. ksPreview' = Statement("good", f.strategy, f.rf, f.durable, f.dcs)
      BY <1>1, <2>2 DEF FormStatement
    <3>2. Executed(ksPreview)' = [replication |-> ksPreview'.replication,
              durable |-> keyspace'.durable /\ ksPreview'.durable = "default"]
      BY <1>1, <1>5 DEF Executed
    <3> QED
      BY <2>1, <3>1, <3>2, FilledChangesNothing
  <2> QED
    BY <1>1, <2>1, <2>4, <2>5 DEF KeyspaceIInv, KsPreviewIsCurrent, DeployedOnce,
         UntouchedChangesNothing, SettingsKnown, InFlightIsStatement, ButtonIsHeld
<1> QED
  BY <1>4, <1>5

(* A change of the form makes it differ from the keyspace, as far as is known. *)
LEMMA ChangeInvariant ==
    ASSUME KeyspaceIInv, Change, ksName' \in {"empty", "bad", "good"},
           strategy' \in Strategies, rf' \in Factors, durable' \in BOOLEAN,
           datacenters' \in Seq(Datacenter)
    PROVE  KeyspaceIInv'
<1>1. /\ changes < MaxChanges /\ changes' = changes + 1
      /\ ksPreview' = FormStatement' /\ createDisabled' = (ksName' # "good")
      /\ UNCHANGED <<ksMode, ksModal, deploying, deployDisabled, deployed, keyspace>>
  BY Zenon DEF Change, updateState, ksDialog
<1>2. changes' \in 0..MaxChanges /\ changes' # 0
  <2>1. changes \in 0..MaxChanges
    BY DEF KeyspaceIInv, KeyspaceTypeOK
  <2> QED
    BY <1>1, <2>1, KeyspaceBounds
<1>3. createDisabled' \in BOOLEAN
  BY <1>1, Zenon
<1>4. KeyspaceTypeOK'
  BY <1>1, <1>2, <1>3 DEF KeyspaceIInv, KeyspaceTypeOK, Datacenter
<1>5. KsPreviewIsCurrent'
  BY <1>1 DEF KeyspaceIInv, KeyspaceTypeOK, KsPreviewIsCurrent
<1>6. DeployedOnce' /\ SettingsKnown' /\ ButtonIsHeld'
  BY <1>1 DEF KeyspaceIInv, DeployedOnce, SettingsKnown, ButtonIsHeld
<1>7. UntouchedChangesNothing' /\ InFlightIsStatement'
  BY <1>1, <1>2 DEF KeyspaceIInv, UntouchedChangesNothing, InFlightIsStatement
<1> QED
  BY <1>4, <1>5, <1>6, <1>7 DEF KeyspaceIInv

LEMMA KeyspaceFormStep ==
    ASSUME KeyspaceIInv,
           \/ \E name \in {"empty", "bad", "good"} : nameEdited(name)
           \/ durableEdited \/ strategyEdited \/ addDatacenter
           \/ \E n \in Factors : rfEdited(n)
           \/ \E i \in DOMAIN datacenters :
                 \/ removeDatacenter(i)
                 \/ \E name \in DCs \cup {NoDC} : nameDatacenter(i, name)
                 \/ \E n \in Factors : setFactor(i, n)
    PROVE  KeyspaceIInv'
<1>0. /\ ksName \in {"empty", "bad", "good"} /\ strategy \in Strategies /\ rf \in Factors
      /\ durable \in BOOLEAN /\ datacenters \in Seq(Datacenter)
  BY DEF KeyspaceIInv, KeyspaceTypeOK, Datacenter
<1>1. ASSUME NEW name \in {"empty", "bad", "good"}, nameEdited(name) PROVE KeyspaceIInv'
  BY <1>0, <1>1, ChangeInvariant DEF nameEdited
<1>2. CASE durableEdited
  BY <1>0, <1>2, ChangeInvariant DEF durableEdited
<1>3. CASE strategyEdited
  <2>1. strategy' \in Strategies
    BY <1>3 DEF strategyEdited, Strategies
  <2>2. <<[name |-> DefaultDC, rf |-> 3]>> \in Seq(Datacenter)
    <3>1. [name |-> DefaultDC, rf |-> 3] \in Datacenter
      BY KeyspaceBounds DEF Datacenter
    <3> QED
      BY <3>1
  <2>3. datacenters' \in Seq(Datacenter)
    BY <1>0, <1>3, <2>2 DEF strategyEdited
  <2> QED
    BY <1>0, <1>3, <2>1, <2>3, ChangeInvariant DEF strategyEdited
<1>4. ASSUME NEW dcs \in Seq(Datacenter), EditDCs(dcs) PROVE KeyspaceIInv'
  BY <1>0, <1>4, ChangeInvariant DEF EditDCs
<1>5. CASE addDatacenter
  <2>1. [name |-> NoDC, rf |-> 3] \in Datacenter
    BY KeyspaceBounds DEF Datacenter
  <2>2. Append(datacenters, [name |-> NoDC, rf |-> 3]) \in Seq(Datacenter)
    BY <1>0, <2>1, AppendProperties
  <2> QED
    BY <1>4, <1>5, <2>2 DEF addDatacenter
<1>6. ASSUME NEW n \in Factors, rfEdited(n) PROVE KeyspaceIInv'
  BY <1>0, <1>6, ChangeInvariant DEF rfEdited
<1>7. ASSUME NEW i \in DOMAIN datacenters
      PROVE  /\ datacenters[i] \in Datacenter /\ i \in 1..Len(datacenters)
             /\ \A dc \in Datacenter : [datacenters EXCEPT ![i] = dc] \in Seq(Datacenter)
  BY <1>0, ElementOfSeq, LenProperties, ExceptSeq
<1>8. ASSUME NEW i \in DOMAIN datacenters, removeDatacenter(i) PROVE KeyspaceIInv'
  <2>1. RemoveAt(datacenters, i) \in Seq(Datacenter)
    BY <1>0, <1>7, RemoveAtFacts
  <2> QED
    BY <1>4, <1>8, <2>1 DEF removeDatacenter
<1>9. ASSUME NEW i \in DOMAIN datacenters, NEW name \in DCs \cup {NoDC}, nameDatacenter(i, name)
      PROVE  KeyspaceIInv'
  <2> DEFINE dc == [datacenters[i] EXCEPT !.name = name]
  <2>1. dc \in Datacenter
    BY <1>7 DEF Datacenter
  <2>2. EditDCs([datacenters EXCEPT ![i] = dc])
    BY <1>9 DEF nameDatacenter
  <2> HIDE DEF dc
  <2> QED
    BY <1>4, <1>7, <2>1, <2>2
<1>10. ASSUME NEW i \in DOMAIN datacenters, NEW n \in Factors, setFactor(i, n)
      PROVE  KeyspaceIInv'
  <2> DEFINE dc == [datacenters[i] EXCEPT !.rf = n]
  <2>1. dc \in Datacenter
    BY <1>7 DEF Datacenter
  <2>2. EditDCs([datacenters EXCEPT ![i] = dc])
    BY <1>10 DEF setFactor
  <2> HIDE DEF dc
  <2> QED
    BY <1>4, <1>7, <2>1, <2>2
<1> QED
  BY <1>1, <1>2, <1>3, <1>5, <1>6, <1>8, <1>9, <1>10

LEMMA KeyspaceDialogStep ==
    ASSUME KeyspaceIInv, openKsModal \/ closeKsModal \/ deploy
    PROVE  KeyspaceIInv'
<1>1. UNCHANGED <<ksMode, ksForm, ksOutput, deployed, keyspace, changes>>
  BY DEF openKsModal, closeKsModal, deploy
<1>2. ksModal' \in BOOLEAN /\ deployDisabled' \in BOOLEAN
  BY DEF openKsModal, closeKsModal, deploy, KeyspaceIInv, KeyspaceTypeOK
<1>3. KeyspaceTypeOK'
  BY <1>1, <1>2 DEF ksForm, ksOutput, KeyspaceIInv, KeyspaceTypeOK
<1>4. FormStatement' = FormStatement
  BY <1>1 DEF ksForm, FormStatement
<1>5. KsPreviewIsCurrent'
  BY <1>1, <1>2, <1>4 DEF ksForm, ksOutput, KeyspaceIInv, KsPreviewIsCurrent
<1>6. SettingsKnown' /\ UntouchedChangesNothing'
  BY <1>1 DEF ksOutput, KeyspaceIInv, SettingsKnown, UntouchedChangesNothing, Executed
<1>7. DeployedOnce' /\ ButtonIsHeld'
  BY <1>1 DEF openKsModal, closeKsModal, deploy, KeyspaceIInv, DeployedOnce, ButtonIsHeld
<1>8. InFlightIsStatement'
  <2>1. CASE deploy
    <3>1. ksPreview.replication \in Replications
      BY FormReplication DEF KeyspaceIInv, KsPreviewIsCurrent
    <3> QED
      BY <1>1, <2>1, <3>1 DEF deploy, ksOutput, InFlightIsStatement
  <2>2. CASE openKsModal \/ closeKsModal
    BY <1>1, <2>2 DEF openKsModal, closeKsModal, ksOutput, KeyspaceIInv, InFlightIsStatement
  <2> QED
    BY <2>1, <2>2
<1> QED
  BY <1>3, <1>5, <1>6, <1>7, <1>8 DEF KeyspaceIInv

LEMMA AnsweredInvariant ==
    ASSUME KeyspaceIInv, DeploySucceeds \/ DeployFails
    PROVE  KeyspaceIInv'
<1>1. UNCHANGED <<ksMode, ksForm, ksOutput, ksModal, changes>> /\ deploying' = Nothing
  BY DEF DeploySucceeds, DeployFails
<1>2. deploying # Nothing /\ ~deployed
  BY DEF DeploySucceeds, DeployFails, KeyspaceIInv, DeployedOnce
<1>3. deployed' \in BOOLEAN /\ deployDisabled' \in BOOLEAN /\ (deployed' => deployDisabled')
  <2>1. deployed = FALSE /\ deployDisabled = TRUE
    BY <1>2 DEF KeyspaceIInv, KeyspaceTypeOK, ButtonIsHeld
  <2>2. CASE DeploySucceeds
    BY <2>1, <2>2 DEF DeploySucceeds
  <2>3. CASE DeployFails
    BY <2>1, <2>3 DEF DeployFails
  <2> QED
    BY <2>2, <2>3
<1>4. KeyspaceTypeOK'
  BY <1>1, <1>3 DEF ksForm, ksOutput, KeyspaceIInv, KeyspaceTypeOK
<1>5. FormStatement' = FormStatement
  BY <1>1 DEF ksForm, FormStatement
<1>6. KsPreviewIsCurrent'
  BY <1>1, <1>5 DEF ksForm, ksOutput, KeyspaceIInv, KsPreviewIsCurrent
<1>7. Executed(deploying) \in Settings
  BY <1>2, ExecutedFacts DEF KeyspaceIInv, InFlightIsStatement
<1>8. SettingsKnown'
  <2>1. CASE keyspace' = Executed(deploying)
    BY <1>7, <2>1 DEF SettingsKnown
  <2>2. CASE DeployFails /\ keyspace' = keyspace
    BY <1>1, <1>2, <2>2 DEF DeployFails, KeyspaceIInv, SettingsKnown
  <2> QED
    BY <2>1, <2>2 DEF DeploySucceeds, DeployFails
<1>9. UntouchedChangesNothing'
  <2> SUFFICES ASSUME changes = 0, ksMode = "alter", keyspace'.replication.class \in Strategies
               PROVE  Executed(ksPreview)' = keyspace'
    BY <1>1 DEF UntouchedChangesNothing
  <2>1. deploying = ksPreview /\ deploying' = Nothing /\ ksMode' = "alter" /\ ksPreview' = ksPreview
    BY <1>1, <1>2 DEF ksOutput, KeyspaceIInv, InFlightIsStatement
  <2>2. CASE keyspace' = keyspace
    BY <1>1, <2>1, <2>2 DEF ksOutput, KeyspaceIInv, UntouchedChangesNothing, Executed
  <2>3. CASE keyspace' = Executed(ksPreview)
    <3>1. keyspace' = [replication |-> ksPreview.replication,
                       durable |-> keyspace.durable /\ ksPreview.durable = "default"]
      BY <2>3 DEF Executed
    <3> QED
      BY <2>1, <3>1 DEF Executed
  <2> QED
    BY <2>1, <2>2, <2>3 DEF DeploySucceeds, DeployFails
<1>10. DeployedOnce' /\ InFlightIsStatement' /\ ButtonIsHeld'
  BY <1>1, <1>3 DEF DeployedOnce, InFlightIsStatement, ButtonIsHeld
<1> QED
  BY <1>4, <1>6, <1>8, <1>9, <1>10 DEF KeyspaceIInv

LEMMA KeyspaceStep ==
    ASSUME KeyspaceIInv, KeyspaceUser \/ KeyspaceNext \/ LoadKeyspace
    PROVE  KeyspaceIInv'
<1>1. CASE KeyspaceUser
  BY <1>1, KeyspaceFormStep, KeyspaceDialogStep DEF KeyspaceUser
<1>2. CASE DeploySucceeds \/ DeployFails
  BY <1>2, AnsweredInvariant
<1>3. CASE LeaveKeyspace
  BY <1>3, LoadKeyspaceInvariant DEF LeaveKeyspace
<1>4. CASE LoadKeyspace
  <2>1. ksMode \in {"create", "alter"} /\ LoadAs(ksMode)
    BY <1>4 DEF LoadKeyspace, KeyspaceIInv, KeyspaceTypeOK
  <2>2. PICK m \in {"create", "alter"} : m = ksMode
    BY <2>1
  <2>3. LoadAs(m)
    BY <2>1, <2>2 DEF LoadAs
  <2> QED
    BY <2>2, <2>3, LoadKeyspaceInvariant
<1> QED
  BY <1>1, <1>2, <1>3, <1>4 DEF KeyspaceNext

LEMMA KeyspaceStutter == ASSUME KeyspaceIInv, UNCHANGED keyspaceVars PROVE KeyspaceIInv'
<1> USE DEF keyspaceVars, ksForm, ksOutput, ksDialog, KeyspaceIInv
<1>1. KeyspaceTypeOK'
  BY DEF KeyspaceTypeOK
<1>2. FormStatement' = FormStatement /\ Executed(ksPreview)' = Executed(ksPreview)
  BY DEF FormStatement, Executed
<1>3. KsPreviewIsCurrent' /\ DeployedOnce' /\ UntouchedChangesNothing'
  BY <1>2 DEF KsPreviewIsCurrent, DeployedOnce, UntouchedChangesNothing
<1>4. SettingsKnown' /\ InFlightIsStatement' /\ ButtonIsHeld'
  BY DEF SettingsKnown, InFlightIsStatement, ButtonIsHeld
<1> QED
  BY <1>1, <1>3, <1>4

-------------------------------------------------------------------------------
(***************************************************************************)
(* Stacks.  A tombstone on a stack has turns left, ids are told apart, and *)
(* a victim that is there is right beneath its shadow.                     *)
(***************************************************************************)
GracedTile == {t \in Tile : Tombstone(t) => t.turnsLeft > 0}

Victims(b) == {b[i].victim : i \in DOMAIN b}
DistinctIds(b) == \A i, j \in DOMAIN b : b[i].id = b[j].id => i = j
BeneathShadows(b) ==
    \A i \in DOMAIN b : b[i].victim \in Ids(b) => i > 1 /\ b[i - 1].id = b[i].victim

GoodStack(b) == b \in Seq(GracedTile) /\ DistinctIds(b) /\ BeneathShadows(b)

LEMMA StackFacts ==
    ASSUME NEW b \in Seq(GracedTile)
    PROVE  /\ Len(b) \in Nat /\ DOMAIN b = 1..Len(b)
           /\ \A i \in DOMAIN b :
                 /\ b[i] \in GracedTile /\ b[i] \in Tile
                 /\ b[i].id \in Nat \ {0} /\ b[i].victim \in Nat /\ b[i].level \in Nat
<1>1. Len(b) \in Nat /\ DOMAIN b = 1..Len(b) /\ \A i \in DOMAIN b : b[i] \in GracedTile
  BY LenProperties, ElementOfSeq
<1>2. \A t \in GracedTile :
         t \in Tile /\ t.id \in Nat \ {0} /\ t.victim \in Nat /\ t.level \in Nat
  BY DEF GracedTile, Tile
<1> QED
  BY <1>1, <1>2

(* A stack made from another by taking tiles away, in their order, keeps shadows on *)
(* their victims, also when one tile is new and no shadow's.                        *)
LEMMA DerivedIsGood ==
    ASSUME NEW b, GoodStack(b), NEW c \in Seq(GracedTile),
           NEW g \in [DOMAIN c -> DOMAIN b],
           \A j, k \in DOMAIN c : j < k => g[j] < g[k],
           \A k \in DOMAIN c :
              \/ c[k].id = b[g[k]].id /\ (c[k].victim = 0 \/ c[k].victim = b[g[k]].victim)
              \/ c[k].victim = 0 /\ c[k].id \notin Ids(b) \cup Victims(b),
           \A j, k \in DOMAIN c : c[j].id \notin Ids(b) /\ c[k].id \notin Ids(b) => j = k
    PROVE  GoodStack(c)
<1>1. b \in Seq(GracedTile) /\ DistinctIds(b) /\ BeneathShadows(b)
  BY DEF GoodStack
<1>2. /\ DOMAIN b = 1..Len(b) /\ Len(b) \in Nat /\ DOMAIN c = 1..Len(c) /\ Len(c) \in Nat
      /\ \A i \in DOMAIN c : c[i].id \in Nat \ {0}
  BY <1>1, StackFacts
<1>3. \A j, k \in DOMAIN c : g[j] = g[k] => j = k
  <2> TAKE j, k \in DOMAIN c
  <2>1. j \in Nat /\ k \in Nat /\ g[j] \in Nat /\ g[k] \in Nat
    BY <1>2
  <2>2. (j < k => g[j] < g[k]) /\ (k < j => g[k] < g[j])
    OBVIOUS
  <2> QED
    BY <2>1, <2>2
<1>4. DistinctIds(c)
  <2> SUFFICES ASSUME NEW i \in DOMAIN c, NEW j \in DOMAIN c, c[i].id = c[j].id PROVE i = j
    BY DEF DistinctIds
  <2>1. CASE c[i].id \in Ids(b)
    <3>1. c[i].id = b[g[i]].id /\ c[j].id = b[g[j]].id
      BY <2>1
    <3>2. g[i] = g[j]
      BY <1>1, <3>1 DEF DistinctIds
    <3> QED
      BY <1>3, <3>2
  <2>2. CASE c[i].id \notin Ids(b)
    BY <2>2
  <2> QED
    BY <2>1, <2>2
<1>5. BeneathShadows(c)
  <2> SUFFICES ASSUME NEW i \in DOMAIN c, c[i].victim \in Ids(c)
               PROVE  i > 1 /\ c[i - 1].id = c[i].victim
    BY DEF BeneathShadows
  <2>1. PICK m \in DOMAIN c : c[i].victim = c[m].id
    BY DEF Ids
  <2>2. c[i].victim # 0
    BY <1>2, <2>1
  <2>3. c[i].victim = b[g[i]].victim
    BY <2>2
  <2>4. c[m].id = b[g[m]].id
    BY <2>1, <2>3 DEF Victims
  <2>5. g[i] > 1 /\ b[g[i] - 1].id = b[g[m]].id
    <3>1. g[i] \in DOMAIN b /\ g[m] \in DOMAIN b
      OBVIOUS
    <3>2. b[g[i]].victim = b[g[m]].id
      BY <2>1, <2>3, <2>4
    <3>3. b[g[i]].victim \in Ids(b)
      BY <3>1, <3>2 DEF Ids
    <3> QED
      BY <1>1, <3>1, <3>2, <3>3 DEF BeneathShadows
  <2>6. g[i] \in Nat /\ g[i] - 1 \in DOMAIN b /\ g[m] \in DOMAIN b /\ g[m] \in Nat
    BY <1>2, <2>5
  <2>7. g[m] = g[i] - 1
    BY <1>1, <2>5, <2>6 DEF DistinctIds
  <2>8. m \in Nat /\ i \in Nat /\ m < i
    <3>1. m \in Nat /\ i \in Nat /\ m # i /\ ~(g[i] < g[m])
      BY <1>2, <2>6, <2>7
    <3>2. ~(i < m)
      BY <3>1
    <3> QED
      BY <3>1, <3>2
  <2>9. m = i - 1
    <3> SUFFICES ASSUME m # i - 1 PROVE FALSE
      OBVIOUS
    <3>1. i - 1 \in DOMAIN c /\ m < i - 1 /\ i - 1 < i
      BY <1>2, <2>8
    <3>2. g[m] < g[i - 1] /\ g[i - 1] < g[i] /\ g[i - 1] \in Nat
      BY <1>2, <3>1
    <3> QED
      BY <2>6, <2>7, <3>2
  <2> QED
    BY <1>2, <2>1, <2>8, <2>9
<1> QED
  BY <1>4, <1>5 DEF GoodStack

(* There is an id that none of the tiles has or refers to. *)
LEMMA FreshIdFacts ==
    ASSUME NEW b \in Seq(GracedTile)
    PROVE  FreshId(b) \in Nat \ {0} /\ FreshId(b) \notin Ids(b) \cup Victims(b)
<1> DEFINE n == Len(b)
           U == (1..2 * n + 1) \ (Ids(b) \cup Victims(b))
           f == [i \in 1..n |-> b[i].id]
           g == [i \in 1..n |-> b[i].victim]
<1>1. n \in Nat /\ DOMAIN b = 1..n
  BY StackFacts
<1>2. IsFiniteSet(1..n) /\ Cardinality(1..n) = n
  BY <1>1, IntervalFacts
<1>3. f \in Surjection(1..n, Ids(b)) /\ g \in Surjection(1..n, Victims(b))
  BY <1>1 DEF Surjection, Ids, Victims
<1>4. /\ IsFiniteSet(Ids(b)) /\ Cardinality(Ids(b)) <= n
      /\ IsFiniteSet(Victims(b)) /\ Cardinality(Victims(b)) <= n
  <2> HIDE DEF f, g, n
  <2> QED
    BY <1>2, <1>3, FS_Surjection
<1> DEFINE I == Ids(b) V == Victims(b)
<1>5. IsFiniteSet(I \cup V) /\ Cardinality(I \cup V) <= 2 * n
  <2> HIDE DEF n, I, V
  <2>1. /\ IsFiniteSet(I \cup V)
        /\ Cardinality(I \cup V) = Cardinality(I) + Cardinality(V) - Cardinality(I \cap V)
    BY <1>4, FS_Union DEF I, V
  <2>2. IsFiniteSet(I \cap V)
    BY <1>4, FS_Subset DEF I
  <2>3. Cardinality(I) \in Nat /\ Cardinality(V) \in Nat /\ Cardinality(I \cap V) \in Nat
    BY <1>4, <2>2, FS_CardinalityType DEF I, V
  <2> QED
    BY <1>1, <1>4, <2>1, <2>3 DEF I, V
<1>6. U # {}
  <2> SUFFICES ASSUME 1..2 * n + 1 \subseteq I \cup V PROVE FALSE
    OBVIOUS
  <2> HIDE DEF n, I, V, U
  <2>1. Cardinality(1..2 * n + 1) = 2 * n + 1
    BY <1>1, IntervalFacts
  <2>2. Cardinality(1..2 * n + 1) <= Cardinality(I \cup V) /\ Cardinality(I \cup V) \in Nat
    BY <1>5, FS_Subset, FS_CardinalityType
  <2> QED
    BY <1>1, <1>5, <2>1, <2>2
<1>7. U \in SUBSET Nat
  OBVIOUS
<1>8. \E u \in U : \A v \in U : u <= v
  <2> HIDE DEF U
  <2> QED
    BY <1>6, <1>7, LeastExists
<1>9. FreshId(b) \in U
  BY <1>8 DEF FreshId, Min, Victims
<1> QED
  BY <1>1, <1>9

-------------------------------------------------------------------------------
(* The two ends that splice leaves of a stack from which n tiles are taken at i. *)
LEMMA EndsFacts ==
    ASSUME NEW S, NEW b \in Seq(S), NEW i \in Nat \ {0}, NEW n \in Nat \ {0},
           i + n - 1 <= Len(b)
    PROVE  /\ SubSeq(b, 1, i - 1) \in Seq(S) /\ Len(SubSeq(b, 1, i - 1)) = i - 1
           /\ \A k \in 1..i - 1 : SubSeq(b, 1, i - 1)[k] = b[k]
           /\ SubSeq(b, i + n, Len(b)) \in Seq(S)
           /\ Len(SubSeq(b, i + n, Len(b))) = Len(b) - n - (i - 1)
           /\ \A k \in 1..Len(b) - n - (i - 1) :
                 SubSeq(b, i + n, Len(b))[k] = b[i + n + k - 1]
<1>1. Len(b) \in Nat /\ \A k \in 1..Len(b) : b[k] \in S
  BY LenProperties, ElementOfSeq
<1> DEFINE m == Len(b)
<1>2. /\ m \in Nat /\ i - 1 \in Int /\ i + n \in Int /\ m \in Int /\ i + n - 1 <= m
      /\ (\A k \in 1..i - 1 : k \in 1..m) /\ (\A k \in i + n..m : k \in 1..m)
  <2>1. m \in Nat /\ i + n - 1 <= m
    BY <1>1
  <2> HIDE DEF m
  <2> QED
    BY <2>1
<1>3. /\ SubSeq(b, 1, i - 1) \in Seq(S) /\ Len(SubSeq(b, 1, i - 1)) = i - 1
      /\ \A k \in 1..i - 1 : SubSeq(b, 1, i - 1)[k] = b[k]
  <2>1. /\ SubSeq(b, 1, i - 1) \in Seq(S)
        /\ Len(SubSeq(b, 1, i - 1)) = IF 1 <= i - 1 THEN i - 1 - 1 + 1 ELSE 0
        /\ \A k \in 1..i - 1 - 1 + 1 : SubSeq(b, 1, i - 1)[k] = b[1 + k - 1]
    BY <1>1, <1>2, SubSeqProperties
  <2> QED
    BY <2>1
<1>4. \A k \in i + n..m : b[k] \in S
  BY <1>1, <1>2
<1> HIDE DEF m
<1>5. /\ SubSeq(b, i + n, m) \in Seq(S) /\ Len(SubSeq(b, i + n, m)) = m - n - (i - 1)
      /\ \A k \in 1..m - n - (i - 1) : SubSeq(b, i + n, m)[k] = b[i + n + k - 1]
  <2>1. /\ SubSeq(b, i + n, m) \in Seq(S)
        /\ Len(SubSeq(b, i + n, m)) = IF i + n <= m THEN m - (i + n) + 1 ELSE 0
        /\ \A k \in 1..m - (i + n) + 1 : SubSeq(b, i + n, m)[k] = b[i + n + k - 1]
    BY <1>2, <1>4, SubSeqProperties
  <2> QED
    BY <1>2, <2>1
<1> QED
  BY <1>3, <1>5 DEF m

LEMMA CutFacts ==
    ASSUME NEW S, NEW b \in Seq(S), NEW i \in Nat \ {0}, NEW n \in Nat \ {0},
           i + n - 1 <= Len(b)
    PROVE  /\ Splice(b, i, n, <<>>) \in Seq(S) /\ Len(Splice(b, i, n, <<>>)) = Len(b) - n
           /\ \A k \in 1..Len(b) - n :
                 Splice(b, i, n, <<>>)[k] = IF k < i THEN b[k] ELSE b[k + n]
<1>1. PICK m : m = Len(b) /\ m \in Nat /\ i + n - 1 <= m
  BY LenProperties
<1>2. PICK l : l = SubSeq(b, 1, i - 1)
  OBVIOUS
<1>3. PICK r : r = SubSeq(b, i + n, Len(b))
  OBVIOUS
<1>4. /\ l \in Seq(S) /\ Len(l) = i - 1 /\ \A k \in 1..i - 1 : l[k] = b[k]
      /\ r \in Seq(S) /\ Len(r) = m - n - (i - 1)
      /\ \A k \in 1..m - n - (i - 1) : r[k] = b[i + n + k - 1]
  <2>1. /\ SubSeq(b, 1, i - 1) \in Seq(S) /\ Len(SubSeq(b, 1, i - 1)) = i - 1
        /\ \A k \in 1..i - 1 : SubSeq(b, 1, i - 1)[k] = b[k]
        /\ SubSeq(b, i + n, Len(b)) \in Seq(S)
        /\ Len(SubSeq(b, i + n, Len(b))) = Len(b) - n - (i - 1)
        /\ \A k \in 1..Len(b) - n - (i - 1) :
              SubSeq(b, i + n, Len(b))[k] = b[i + n + k - 1]
    BY EndsFacts
  <2> QED
    BY <1>1, <1>2, <1>3, <2>1
<1>5. Splice(b, i, n, <<>>) = l \o r
  <2>1. Splice(b, i, n, <<>>) = l \o <<>> \o r
    BY <1>2, <1>3 DEF Splice
  <2>2. l \o <<>> = l
    BY <1>4, ConcatEmptySeq
  <2> QED
    BY <2>1, <2>2
<1>6. l \in Seq(S) /\ r \in Seq(S)
  BY <1>4
<1>7. /\ l \o r \in Seq(S) /\ Len(l \o r) = Len(l) + Len(r)
      /\ \A k \in 1..Len(l) + Len(r) : (l \o r)[k] = IF k <= Len(l) THEN l[k] ELSE r[k - Len(l)]
  BY <1>6, ConcatProperties
<1>8. Len(l) + Len(r) = m - n
  BY <1>1, <1>4
<1>9. ASSUME NEW k \in 1..m - n
      PROVE  (l \o r)[k] = IF k < i THEN b[k] ELSE b[k + n]
  <2>1. (l \o r)[k] = IF k <= i - 1 THEN l[k] ELSE r[k - (i - 1)]
    BY <1>4, <1>7, <1>8
  <2>2. CASE k < i
    BY <1>1, <1>4, <2>1, <2>2
  <2>3. CASE ~(k < i)
    <3>1. k - (i - 1) \in 1..m - n - (i - 1) /\ i + n + (k - (i - 1)) - 1 = k + n
      BY <1>1, <2>3
    <3>2. (l \o r)[k] = r[k - (i - 1)]
      BY <2>1, <2>3
    <3>3. r[k - (i - 1)] = b[i + n + (k - (i - 1)) - 1]
      BY <1>4, <3>1
    <3> QED
      BY <2>3, <3>1, <3>2, <3>3
  <2> QED
    BY <2>2, <2>3
<1> QED
  BY <1>1, <1>5, <1>7, <1>8, <1>9

LEMMA PutFacts ==
    ASSUME NEW S, NEW b \in Seq(S), NEW i \in Nat \ {0}, NEW n \in Nat \ {0},
           i + n - 1 <= Len(b), NEW t \in S
    PROVE  /\ Splice(b, i, n, <<t>>) \in Seq(S) /\ Len(Splice(b, i, n, <<t>>)) = Len(b) - n + 1
           /\ \A k \in 1..Len(b) - n + 1 :
                 Splice(b, i, n, <<t>>)[k] =
                    IF k < i THEN b[k] ELSE IF k = i THEN t ELSE b[k + n - 1]
<1>1. PICK m : m = Len(b) /\ m \in Nat /\ i + n - 1 <= m
  BY LenProperties
<1>2. PICK l : l = SubSeq(b, 1, i - 1)
  OBVIOUS
<1>3. PICK r : r = SubSeq(b, i + n, Len(b))
  OBVIOUS
<1>4. /\ l \in Seq(S) /\ Len(l) = i - 1 /\ \A k \in 1..i - 1 : l[k] = b[k]
      /\ r \in Seq(S) /\ Len(r) = m - n - (i - 1)
      /\ \A k \in 1..m - n - (i - 1) : r[k] = b[i + n + k - 1]
  <2>1. /\ SubSeq(b, 1, i - 1) \in Seq(S) /\ Len(SubSeq(b, 1, i - 1)) = i - 1
        /\ \A k \in 1..i - 1 : SubSeq(b, 1, i - 1)[k] = b[k]
        /\ SubSeq(b, i + n, Len(b)) \in Seq(S)
        /\ Len(SubSeq(b, i + n, Len(b))) = Len(b) - n - (i - 1)
        /\ \A k \in 1..Len(b) - n - (i - 1) :
              SubSeq(b, i + n, Len(b))[k] = b[i + n + k - 1]
    BY EndsFacts
  <2> QED
    BY <1>1, <1>2, <1>3, <2>1
<1>5. PICK x : x = l \o <<t>>
  OBVIOUS
<1>6. Splice(b, i, n, <<t>>) = x \o r
  BY <1>2, <1>3, <1>5 DEF Splice
<1>7. <<t>> \in Seq(S) /\ Len(<<t>>) = 1 /\ <<t>>[1] = t
  OBVIOUS
<1>8. l \in Seq(S) /\ r \in Seq(S)
  BY <1>4
<1>9. /\ x \in Seq(S) /\ Len(x) = Len(l) + Len(<<t>>)
      /\ \A k \in 1..Len(l) + Len(<<t>>) : x[k] = IF k <= Len(l) THEN l[k] ELSE <<t>>[k - Len(l)]
  BY <1>5, <1>7, <1>8, ConcatProperties
<1>10. Len(x) = i /\ x[i] = t /\ \A k \in 1..i - 1 : x[k] = b[k]
  <2>1. Len(l) + Len(<<t>>) = i
    BY <1>4, <1>7
  <2>2. \A k \in 1..i : x[k] = IF k <= i - 1 THEN l[k] ELSE <<t>>[k - (i - 1)]
    BY <1>4, <1>9, <2>1
  <2>3. i - (i - 1) = 1 /\ ~(i <= i - 1) /\ i \in 1..i
    OBVIOUS
  <2>4. x[i] = t
    BY <1>7, <2>2, <2>3
  <2> QED
    BY <1>4, <1>9, <2>1, <2>2, <2>4
<1>11. x \in Seq(S)
  BY <1>9
<1>12. /\ x \o r \in Seq(S) /\ Len(x \o r) = Len(x) + Len(r)
       /\ \A k \in 1..Len(x) + Len(r) : (x \o r)[k] = IF k <= Len(x) THEN x[k] ELSE r[k - Len(x)]
  BY <1>8, <1>11, ConcatProperties
<1>13. Len(x) + Len(r) = m - n + 1
  BY <1>1, <1>4, <1>10
<1>14. ASSUME NEW k \in 1..m - n + 1
       PROVE  (x \o r)[k] = IF k < i THEN b[k] ELSE IF k = i THEN t ELSE b[k + n - 1]
  <2>1. (x \o r)[k] = IF k <= i THEN x[k] ELSE r[k - i]
    BY <1>10, <1>12, <1>13
  <2>2. CASE k < i
    BY <1>1, <1>10, <2>1, <2>2
  <2>3. CASE k = i
    BY <1>1, <1>10, <2>1, <2>3
  <2>4. CASE ~(k <= i)
    <3>1. k - i \in 1..m - n - (i - 1) /\ i + n + (k - i) - 1 = k + n - 1
      BY <1>1, <2>4
    <3>2. (x \o r)[k] = r[k - i]
      BY <2>1, <2>4
    <3>3. r[k - i] = b[i + n + (k - i) - 1]
      BY <1>4, <3>1
    <3>4. ~(k < i) /\ k # i
      BY <1>1, <2>4
    <3> QED
      BY <3>1, <3>2, <3>3, <3>4
  <2>5. k < i \/ k = i \/ ~(k <= i)
    BY <1>1
  <2> QED
    BY <2>2, <2>3, <2>4, <2>5
<1> QED
  BY <1>1, <1>6, <1>12, <1>13, <1>14

LEMMA CutIsGood ==
    ASSUME NEW b, GoodStack(b), NEW i \in Nat \ {0}, NEW n \in Nat \ {0}, i + n - 1 <= Len(b)
    PROVE  /\ GoodStack(Splice(b, i, n, <<>>))
           /\ Len(Splice(b, i, n, <<>>)) = Len(b) - n
<1> DEFINE c == Splice(b, i, n, <<>>)
           g == [k \in 1..Len(b) - n |-> IF k < i THEN k ELSE k + n]
<1>1. b \in Seq(GracedTile) /\ Len(b) \in Nat /\ DOMAIN b = 1..Len(b)
  BY StackFacts DEF GoodStack
<1>3. /\ c \in Seq(GracedTile) /\ Len(c) = Len(b) - n
      /\ \A k \in 1..Len(b) - n : c[k] = IF k < i THEN b[k] ELSE b[k + n]
  BY <1>1, CutFacts
<1> HIDE DEF c
<1>4. DOMAIN c = 1..Len(b) - n
  BY <1>3, LenProperties
<1>5. \A k \in DOMAIN c : g[k] \in DOMAIN b /\ c[k] = b[g[k]]
  BY <1>1, <1>3, <1>4
<1>6. g \in [DOMAIN c -> DOMAIN b] /\ \A j, k \in DOMAIN c : j < k => g[j] < g[k]
  BY <1>1, <1>4, <1>5
<1>7. \A k \in DOMAIN c : c[k].id = b[g[k]].id /\ c[k].victim = b[g[k]].victim
  BY <1>5
<1>8. \A k \in DOMAIN c : c[k].id \in Ids(b)
  BY <1>5 DEF Ids
<1> HIDE DEF g
<1>9. GoodStack(c)
  BY <1>3, <1>6, <1>7, <1>8, DerivedIsGood
<1> QED
  BY <1>3, <1>9 DEF c

LEMMA MergedIsTile ==
    ASSUME NEW b \in Seq(GracedTile), NEW level \in Nat
    PROVE  /\ merged(b, level) \in GracedTile /\ merged(b, level).victim = 0
           /\ merged(b, level).id \notin Ids(b) \cup Victims(b)
<1>1. FreshId(b) \in Nat \ {0} /\ FreshId(b) \notin Ids(b) \cup Victims(b)
  BY FreshIdFacts
<1>2. 0 \in 0..GCGrace /\ 0 \in 0..ShadowTurns
  BY TurnsAssumption
<1>3. merged(b, level) \in Tile /\ ~Tombstone(merged(b, level))
  BY <1>1, <1>2 DEF merged, Tile, Kinds, Tombstone
<1> QED
  BY <1>1, <1>3 DEF merged, GracedTile

LEMMA MergeIsGood ==
    ASSUME NEW b, GoodStack(b), NEW i \in Nat \ {0}, NEW n \in Nat \ {0}, i + n - 1 <= Len(b),
           NEW level \in Nat
    PROVE  /\ GoodStack(Splice(b, i, n, <<merged(b, level)>>))
           /\ Len(Splice(b, i, n, <<merged(b, level)>>)) = Len(b) - n + 1
<1> DEFINE t == merged(b, level)
           c == Splice(b, i, n, <<t>>)
           g == [k \in 1..Len(b) - n + 1 |-> IF k <= i THEN k ELSE k + n - 1]
<1>1. b \in Seq(GracedTile) /\ Len(b) \in Nat /\ DOMAIN b = 1..Len(b)
  BY StackFacts DEF GoodStack
<1>2. t \in GracedTile /\ t.victim = 0 /\ t.id \notin Ids(b) \cup Victims(b)
  BY <1>1, MergedIsTile
<1> HIDE DEF t
<1>3. /\ c \in Seq(GracedTile) /\ Len(c) = Len(b) - n + 1
      /\ \A k \in 1..Len(b) - n + 1 :
            c[k] = IF k < i THEN b[k] ELSE IF k = i THEN t ELSE b[k + n - 1]
  BY <1>1, <1>2, PutFacts
<1> HIDE DEF c
<1>4. DOMAIN c = 1..Len(b) - n + 1
  BY <1>3, LenProperties
<1>5. \A k \in DOMAIN c : g[k] \in DOMAIN b /\ (k # i => c[k] = b[g[k]])
  BY <1>1, <1>3, <1>4
<1>6. g \in [DOMAIN c -> DOMAIN b] /\ \A j, k \in DOMAIN c : j < k => g[j] < g[k]
  BY <1>1, <1>4, <1>5
<1>7. \A k \in DOMAIN c :
         \/ c[k].id = b[g[k]].id /\ (c[k].victim = 0 \/ c[k].victim = b[g[k]].victim)
         \/ c[k].victim = 0 /\ c[k].id \notin Ids(b) \cup Victims(b)
  <2>1. i \in DOMAIN c => c[i] = t
    BY <1>3, <1>4
  <2> QED
    BY <1>2, <1>5, <2>1
<1>8. \A j, k \in DOMAIN c : c[j].id \notin Ids(b) /\ c[k].id \notin Ids(b) => j = k
  <2>1. \A j \in DOMAIN c : j # i => c[j].id \in Ids(b)
    BY <1>5 DEF Ids
  <2> QED
    BY <2>1
<1> HIDE DEF g
<1>9. GoodStack(c)
  BY <1>3, <1>6, <1>7, <1>8, DerivedIsGood
<1> QED
  BY <1>3, <1>9 DEF c, t

LEMMA MinFacts ==
    ASSUME NEW N \in SUBSET Nat, N # {}
    PROVE  Min(N) \in N /\ \A m \in N : Min(N) <= m
  BY LeastExists DEF Min

LEMMA RunsFit ==
    ASSUME NEW b \in Seq(GracedTile)
    PROVE  /\ TombstoneRuns(b) \in SUBSET Nat /\ SSTableRuns(b) \in SUBSET Nat
           /\ \A i \in TombstoneRuns(b) \cup SSTableRuns(b) :
                 i \in DOMAIN b /\ i \in Nat \ {0} /\ i + RunSize - 1 <= Len(b)
<1>1. Len(b) \in Nat /\ DOMAIN b = 1..Len(b)
  BY StackFacts
<1>2. \A i \in TombstoneRuns(b) \cup SSTableRuns(b) : i \in 1..Len(b) + 1 - RunSize
  BY DEF TombstoneRuns, SSTableRuns
<1>3. \A i \in 1..Len(b) + 1 - RunSize :
         i \in DOMAIN b /\ i \in Nat \ {0} /\ i + RunSize - 1 <= Len(b)
  BY <1>1, RingAssumption
<1> QED
  BY <1>2, <1>3

(* A look at a stack keeps it good, and leaves it alone when it has no run. *)
LEMMA CompactedFacts ==
    ASSUME NEW b, GoodStack(b)
    PROVE  /\ GoodStack(Compacted(b)) /\ Len(Compacted(b)) <= Len(b)
           /\ ~HasRun(b) => Compacted(b) = b
<1>1. b \in Seq(GracedTile) /\ Len(b) \in Nat /\ DOMAIN b = 1..Len(b)
  BY StackFacts DEF GoodStack
<1>2. RunSize \in Nat \ {0} /\ RunSize > 1
  BY RingAssumption
<1>3. CASE TombstoneRuns(b) # {}
  <2> DEFINE i == Min(TombstoneRuns(b))
  <2>1. i \in TombstoneRuns(b)
    BY <1>1, <1>3, RunsFit, MinFacts
  <2>2. i \in Nat \ {0} /\ i + RunSize - 1 <= Len(b)
    BY <1>1, <2>1, RunsFit
  <2>3. Compacted(b) = Splice(b, i, RunSize, <<>>)
    BY <1>3 DEF Compacted
  <2> HIDE DEF i
  <2>4. GoodStack(Splice(b, i, RunSize, <<>>)) /\ Len(Splice(b, i, RunSize, <<>>)) = Len(b) - RunSize
    BY <1>2, <2>2, CutIsGood
  <2>5. HasRun(b)
    BY <1>3 DEF HasRun
  <2> QED
    BY <1>1, <1>2, <2>3, <2>4, <2>5
<1>4. CASE TombstoneRuns(b) = {} /\ SSTableRuns(b) # {}
  <2> DEFINE i == Min(SSTableRuns(b))
  <2>1. i \in SSTableRuns(b)
    BY <1>1, <1>4, RunsFit, MinFacts
  <2>2. i \in Nat \ {0} /\ i + RunSize - 1 <= Len(b) /\ i \in DOMAIN b
    BY <1>1, <2>1, RunsFit
  <2>3. Compacted(b) = Splice(b, i, RunSize, <<merged(b, b[i].level + 1)>>)
    BY <1>4 DEF Compacted
  <2> HIDE DEF i
  <2>4. b[i].level + 1 \in Nat
    BY <1>1, <2>2, StackFacts
  <2>5. /\ GoodStack(Splice(b, i, RunSize, <<merged(b, b[i].level + 1)>>))
        /\ Len(Splice(b, i, RunSize, <<merged(b, b[i].level + 1)>>)) = Len(b) - RunSize + 1
    BY <1>2, <2>2, <2>4, MergeIsGood
  <2>6. HasRun(b)
    BY <1>4 DEF HasRun
  <2> QED
    BY <1>1, <1>2, <2>3, <2>5, <2>6
<1>5. CASE TombstoneRuns(b) = {} /\ SSTableRuns(b) = {}
  BY <1>1, <1>5 DEF Compacted
<1> QED
  BY <1>3, <1>4, <1>5

-------------------------------------------------------------------------------
(* Two stacks with the same kinds and levels have the same runs. *)
SameRuns(b, c) ==
    /\ Len(c) = Len(b)
    /\ \A i \in DOMAIN b : c[i].kind = b[i].kind /\ c[i].level = b[i].level

LEMMA SameRunsFacts ==
    ASSUME NEW b \in Seq(GracedTile), NEW c \in Seq(GracedTile), SameRuns(b, c)
    PROVE  HasRun(c) <=> HasRun(b)
<1>1. Len(b) \in Nat /\ DOMAIN b = 1..Len(b)
  BY StackFacts
<1>2. ASSUME NEW i \in 1..Len(b) + 1 - RunSize, NEW k \in i..i + RunSize - 1
      PROVE  /\ k \in DOMAIN b /\ i \in DOMAIN b
             /\ Tombstone(c[k]) <=> Tombstone(b[k])
             /\ c[k].level = b[k].level /\ c[i].level = b[i].level
  <2>1. k \in 1..Len(b) /\ i \in 1..Len(b)
    BY <1>1, RingAssumption
  <2> QED
    BY <1>1, <2>1 DEF SameRuns, Tombstone
<1>3. TombstoneRuns(c) = TombstoneRuns(b)
  BY <1>2 DEF TombstoneRuns, SameRuns
<1>4. SSTableRuns(c) = SSTableRuns(b)
  BY <1>2 DEF SSTableRuns, SameRuns
<1> QED
  BY <1>3, <1>4 DEF HasRun

LEMMA NoRunWithoutTiles == ~HasRun(<<>>)
<1>1. Len(<<>>) = 0 /\ 1..0 + 1 - RunSize = {}
  BY RingAssumption
<1> QED
  BY <1>1 DEF HasRun, TombstoneRuns, SSTableRuns

-------------------------------------------------------------------------------
(* A stack that keeps some of its tiles, which may have forgotten their victims. *)
LEMMA PartIsGood ==
    ASSUME NEW b, GoodStack(b), NEW a \in Seq(Tile), Len(a) = Len(b), NEW I \in SUBSET DOMAIN a,
           \A i \in I : a[i] \in GracedTile /\ a[i].id = b[i].id
                          /\ (a[i].victim = 0 \/ a[i].victim = b[i].victim)
    PROVE  GoodStack(Subsequence(a, I)) /\ Len(Subsequence(a, I)) <= Len(b)
<1> DEFINE c == Subsequence(a, I)
           g == Ascending(I)
<1>1. b \in Seq(GracedTile) /\ Len(b) \in Nat /\ DOMAIN b = 1..Len(b)
  BY StackFacts DEF GoodStack
<1>2. DOMAIN a = DOMAIN b /\ I \in SUBSET DOMAIN b /\ I \in SUBSET Nat
  BY <1>1, LenProperties
<1>3. /\ IsFiniteSet(I) /\ Cardinality(I) <= Len(b)
      /\ c \in Seq(Tile) /\ Len(c) = Cardinality(I)
      /\ \A k \in DOMAIN c : g[k] \in I /\ c[k] = a[g[k]]
  BY SubsequenceFacts
<1>4. /\ g \in [1..Cardinality(I) -> I]
      /\ \A j, k \in 1..Cardinality(I) : j < k => g[j] < g[k]
  <2> HIDE DEF g
  <2> QED
    BY <1>2, <1>3, AscendingFacts DEF g
<1> HIDE DEF c, g
<1>5. DOMAIN c = 1..Cardinality(I) /\ DOMAIN c = 1..Len(c) /\ Len(c) \in Nat
  BY <1>3, LenProperties
<1>6. g \in [DOMAIN c -> DOMAIN b] /\ \A j, k \in DOMAIN c : j < k => g[j] < g[k]
  BY <1>2, <1>4, <1>5
<1>7. \A k \in DOMAIN c :
         /\ c[k] \in GracedTile
         /\ c[k].id = b[g[k]].id
         /\ c[k].victim = 0 \/ c[k].victim = b[g[k]].victim
  BY <1>3
<1>8. c \in Seq(GracedTile)
  BY <1>3, <1>5, <1>7, IsASeq
<1>9. \A k \in DOMAIN c : c[k].id \in Ids(b)
  <2>1. \A k \in DOMAIN c : g[k] \in DOMAIN b
    BY <1>6
  <2> QED
    BY <1>7, <2>1 DEF Ids
<1>10. GoodStack(c)
  BY <1>6, <1>7, <1>8, <1>9, DerivedIsGood
<1> QED
  BY <1>3, <1>10 DEF c

(* Shadows run down and delete their victims, themselves being deleted. *)
LEMMA ShadowTickedFacts ==
    ASSUME NEW b, GoodStack(b)
    PROVE  /\ GoodStack(ShadowTicked(b)) /\ Len(ShadowTicked(b)) <= Len(b)
           /\ Kills(b) = {} => SameRuns(b, ShadowTicked(b))
<1> DEFINE Aged(tile) ==
             CASE tile.shadowTurns = 0 -> tile
               [] tile.shadowTurns = 1 -> [tile EXCEPT !.shadowTurns = 0, !.victim = 0]
               [] OTHER -> [tile EXCEPT !.shadowTurns = @ - 1]
           a == [i \in DOMAIN b |-> Aged(b[i])]
           I == DOMAIN b \ (Kills(b) \cup {i - 1 : i \in Kills(b)})
<1>1. b \in Seq(GracedTile) /\ Len(b) \in Nat /\ DOMAIN b = 1..Len(b)
  BY StackFacts DEF GoodStack
<1>2. ASSUME NEW t \in GracedTile
      PROVE  /\ Aged(t) \in GracedTile /\ Aged(t).id = t.id
             /\ Aged(t).victim = 0 \/ Aged(t).victim = t.victim
             /\ Aged(t).kind = t.kind /\ Aged(t).level = t.level
  <2>1. /\ t \in Tile /\ t.shadowTurns \in 0..ShadowTurns
        /\ Tombstone(t) => t.turnsLeft > 0
    BY DEF GracedTile, Tile
  <2>2. CASE t.shadowTurns = 0
    BY <2>2
  <2>3. CASE t.shadowTurns = 1
    <3>1. Aged(t) = [t EXCEPT !.shadowTurns = 0, !.victim = 0]
      BY <2>3
    <3>2. 0 \in 0..ShadowTurns
      BY TurnsAssumption
    <3> QED
      BY <2>1, <3>1, <3>2 DEF GracedTile, Tile, Tombstone
  <2>4. CASE t.shadowTurns # 0 /\ t.shadowTurns # 1
    <3>1. Aged(t) = [t EXCEPT !.shadowTurns = t.shadowTurns - 1]
      BY <2>4
    <3>2. t.shadowTurns - 1 \in 0..ShadowTurns
      BY <2>1, <2>4, TurnsAssumption
    <3> QED
      BY <2>1, <3>1, <3>2 DEF GracedTile, Tile, Tombstone
  <2> QED
    BY <2>2, <2>3, <2>4
<1>3. ShadowTicked(b) = Subsequence(a, I)
  BY DEF ShadowTicked
<1> HIDE DEF Aged
<1>4. \A i \in DOMAIN b :
         /\ a[i] \in GracedTile /\ a[i].id = b[i].id
         /\ a[i].victim = 0 \/ a[i].victim = b[i].victim
         /\ a[i].kind = b[i].kind /\ a[i].level = b[i].level
  BY <1>1, <1>2, StackFacts
<1>5. a \in Seq(GracedTile) /\ a \in Seq(Tile) /\ DOMAIN a = DOMAIN b /\ Len(a) = Len(b)
  <2>1. a = [i \in 1..Len(b) |-> a[i]] /\ DOMAIN a = DOMAIN b
    BY <1>1
  <2>2. \A i \in 1..Len(b) : a[i] \in GracedTile /\ a[i] \in Tile
    BY <1>1, <1>4 DEF GracedTile
  <2> HIDE DEF a
  <2>3. a \in Seq(GracedTile) /\ a \in Seq(Tile) /\ DOMAIN a = 1..Len(b)
    BY <1>1, <2>1, <2>2, IsASeq
  <2> QED
    BY <1>1, <2>1, <2>3, LenProperties
<1> HIDE DEF a
<1>6. I \in SUBSET DOMAIN a
  BY <1>5
<1>7. Kills(b) = {} => I = DOMAIN a
  BY <1>5
<1> HIDE DEF I
<1>8. GoodStack(Subsequence(a, I)) /\ Len(Subsequence(a, I)) <= Len(b)
  <2>1. \A i \in I : a[i] \in GracedTile /\ a[i].id = b[i].id
                        /\ (a[i].victim = 0 \/ a[i].victim = b[i].victim)
    BY <1>4, <1>5, <1>6
  <2> QED
    BY <1>5, <1>6, <2>1, PartIsGood
<1>9. ASSUME Kills(b) = {} PROVE SameRuns(b, Subsequence(a, I))
  <2>1. Cardinality(I) = Len(a)
    BY <1>1, <1>5, <1>7, <1>9, IntervalFacts
  <2>2. Subsequence(a, I) = a
    BY <1>5, <1>6, <2>1, WholeSubsequence
  <2> QED
    BY <1>4, <1>5, <2>2 DEF SameRuns
<1> QED
  BY <1>3, <1>8, <1>9

(* Graces run down; a tombstone goes when its grace is over. *)
LEMMA GCGracedFacts ==
    ASSUME NEW b, GoodStack(b)
    PROVE  /\ GoodStack(GCGraced(b)) /\ Len(GCGraced(b)) <= Len(b)
           /\ ~(Len(GCGraced(b)) < Len(b)) => SameRuns(b, GCGraced(b))
<1> DEFINE a == [i \in DOMAIN b |->
                   IF Tombstone(b[i]) THEN [b[i] EXCEPT !.turnsLeft = @ - 1] ELSE b[i]]
           I == {i \in DOMAIN a : Tombstone(a[i]) => a[i].turnsLeft > 0}
<1>1. b \in Seq(GracedTile) /\ Len(b) \in Nat /\ DOMAIN b = 1..Len(b)
  BY StackFacts DEF GoodStack
<1>2. GCGraced(b) = Subsequence(a, I)
  BY DEF GCGraced
<1>3. ASSUME NEW i \in DOMAIN b
      PROVE  /\ a[i] \in Tile /\ a[i].id = b[i].id /\ a[i].victim = b[i].victim
             /\ a[i].kind = b[i].kind /\ a[i].level = b[i].level
  <2>1. b[i] \in GracedTile /\ b[i] \in Tile
    BY <1>1, StackFacts
  <2>2. CASE ~Tombstone(b[i])
    BY <2>1, <2>2
  <2>3. CASE Tombstone(b[i])
    <3>1. b[i].turnsLeft \in 0..GCGrace /\ b[i].turnsLeft > 0
      BY <2>1, <2>3 DEF GracedTile, Tile
    <3>2. b[i].turnsLeft - 1 \in 0..GCGrace
      BY <3>1, TurnsAssumption
    <3>3. a[i] = [b[i] EXCEPT !.turnsLeft = b[i].turnsLeft - 1]
      BY <2>3
    <3> QED
      BY <2>1, <3>2, <3>3 DEF Tile
  <2> QED
    BY <2>2, <2>3
<1>4. a \in Seq(Tile) /\ DOMAIN a = DOMAIN b /\ Len(a) = Len(b)
  <2>1. a = [i \in 1..Len(b) |-> a[i]] /\ DOMAIN a = DOMAIN b
    BY <1>1
  <2>2. \A i \in 1..Len(b) : a[i] \in Tile
    BY <1>1, <1>3
  <2> HIDE DEF a
  <2>3. a \in Seq(Tile) /\ DOMAIN a = 1..Len(b)
    BY <1>1, <2>1, <2>2, IsASeq
  <2> QED
    BY <1>1, <2>1, <2>3, LenProperties
<1> HIDE DEF a
<1>5. I \in SUBSET DOMAIN a /\ \A i \in I : a[i] \in GracedTile
  BY <1>3, <1>4 DEF GracedTile
<1> HIDE DEF I
<1>6. GoodStack(Subsequence(a, I)) /\ Len(Subsequence(a, I)) <= Len(b)
  <2>1. \A i \in I : a[i] \in GracedTile /\ a[i].id = b[i].id
                        /\ (a[i].victim = 0 \/ a[i].victim = b[i].victim)
    BY <1>3, <1>4, <1>5
  <2> QED
    BY <1>4, <1>5, <2>1, PartIsGood
<1>7. ASSUME ~(Len(Subsequence(a, I)) < Len(b)) PROVE SameRuns(b, Subsequence(a, I))
  <2>1. Len(Subsequence(a, I)) = Cardinality(I) /\ Len(Subsequence(a, I)) \in Nat
    BY <1>4, <1>5, SubsequenceFacts, LenProperties
  <2>2. Cardinality(I) = Len(a)
    BY <1>1, <1>4, <1>6, <1>7, <2>1
  <2>3. Subsequence(a, I) = a
    BY <1>4, <1>5, <2>2, WholeSubsequence
  <2> QED
    BY <1>3, <1>4, <2>3 DEF SameRuns
<1> QED
  BY <1>2, <1>6, <1>7

(* A purge takes the tombstones. *)
LEMMA PurgedFacts ==
    ASSUME NEW b, GoodStack(b)
    PROVE  /\ GoodStack(Purged(b)) /\ Len(Purged(b)) <= Len(b)
           /\ ~(Len(Purged(b)) < Len(b)) => Purged(b) = b
<1> DEFINE I == {i \in DOMAIN b : ~Tombstone(b[i])}
<1>1. b \in Seq(GracedTile) /\ Len(b) \in Nat /\ DOMAIN b = 1..Len(b)
  BY StackFacts DEF GoodStack
<1>2. b \in Seq(Tile) /\ \A i \in DOMAIN b : b[i] \in GracedTile
  <2>1. GracedTile \subseteq Tile
    BY DEF GracedTile
  <2> QED
    BY <1>1, <2>1, StackFacts, SeqMonotonic
<1>3. Purged(b) = Subsequence(b, I) /\ I \in SUBSET DOMAIN b
  BY DEF Purged
<1> HIDE DEF I
<1>4. GoodStack(Subsequence(b, I)) /\ Len(Subsequence(b, I)) <= Len(b)
  BY <1>2, <1>3, PartIsGood
<1>5. ASSUME ~(Len(Subsequence(b, I)) < Len(b)) PROVE Subsequence(b, I) = b
  <2>1. Len(Subsequence(b, I)) = Cardinality(I) /\ Len(Subsequence(b, I)) \in Nat
    BY <1>1, <1>3, SubsequenceFacts, LenProperties
  <2>2. Cardinality(I) = Len(b)
    BY <1>1, <1>4, <1>5, <2>1
  <2> QED
    BY <1>1, <1>3, <2>2, WholeSubsequence
<1> QED
  BY <1>3, <1>4, <1>5

(* A repair takes the tile on top. *)
LEMMA FrontIsGood ==
    ASSUME NEW b, GoodStack(b), b # <<>>
    PROVE  GoodStack(Front(b)) /\ Len(Front(b)) <= Len(b)
<1> DEFINE c == Front(b)
           g == [k \in 1..Len(b) - 1 |-> k]
<1>1. b \in Seq(GracedTile) /\ Len(b) \in Nat /\ DOMAIN b = 1..Len(b)
  BY StackFacts DEF GoodStack
<1>2. /\ Len(b) \in Nat \ {0} /\ c \in Seq(GracedTile) /\ Len(c) = Len(b) - 1
      /\ \A k \in 1..Len(b) - 1 : c[k] = b[k]
  BY <1>1, FrontFacts
<1> HIDE DEF c
<1>3. DOMAIN c = 1..Len(b) - 1
  BY <1>2, LenProperties
<1>4. \A k \in DOMAIN c : g[k] \in DOMAIN b /\ c[k] = b[g[k]]
  BY <1>1, <1>2, <1>3
<1>5. g \in [DOMAIN c -> DOMAIN b] /\ \A j, k \in DOMAIN c : j < k => g[j] < g[k]
  BY <1>1, <1>3, <1>4
<1>6. \A k \in DOMAIN c : c[k].id = b[g[k]].id /\ c[k].victim = b[g[k]].victim
  BY <1>4
<1>7. \A k \in DOMAIN c : c[k].id \in Ids(b)
  BY <1>4 DEF Ids
<1> HIDE DEF g
<1>8. GoodStack(c)
  BY <1>2, <1>5, <1>6, <1>7, DerivedIsGood
<1> QED
  BY <1>1, <1>2, <1>8 DEF c

(* A piece lands with an id of its own, a tombstone's victim being right beneath it. *)
LEMMA LandedFacts ==
    ASSUME NEW b, GoodStack(b), NEW kind \in Kinds
    PROVE  GoodStack(Landed(b, kind)) /\ Len(Landed(b, kind)) = Len(b) + 1
<1> DEFINE shadow == kind = "tombstone" /\ b # <<>>
           t == [kind |-> kind, level |-> 0,
                 turnsLeft |-> IF kind = "tombstone" THEN GCGrace ELSE 0,
                 shadowTurns |-> IF kind = "tombstone" /\ b # <<>> THEN ShadowTurns ELSE 0,
                 victim |-> IF kind = "tombstone" /\ b # <<>> THEN Last(b).id ELSE 0,
                 id |-> FreshId(b)]
           n == Len(b) + 1
<1>1. /\ b \in Seq(GracedTile) /\ Len(b) \in Nat /\ DOMAIN b = 1..Len(b)
      /\ DistinctIds(b) /\ BeneathShadows(b)
      /\ \A i \in DOMAIN b : b[i].id \in Nat \ {0} /\ b[i].victim \in Nat
  BY StackFacts DEF GoodStack
<1>2. FreshId(b) \in Nat \ {0} /\ FreshId(b) \notin Ids(b) \cup Victims(b)
  BY <1>1, FreshIdFacts
<1>3. b # <<>> => Len(b) \in DOMAIN b /\ Last(b).id = b[Len(b)].id /\ Last(b).id \in Nat
  <2>1. b # <<>> => Len(b) \in Nat \ {0} /\ Last(b) = b[Len(b)]
    BY <1>1, FrontFacts
  <2>2. b # <<>> => Len(b) \in 1..Len(b)
    BY <2>1
  <2> QED
    BY <1>1, <2>1, <2>2
<1>4. t \in GracedTile
  <2>1. /\ (IF kind = "tombstone" THEN GCGrace ELSE 0) \in 0..GCGrace
        /\ (IF kind = "tombstone" /\ b # <<>> THEN ShadowTurns ELSE 0) \in 0..ShadowTurns
        /\ GCGrace > 0
    BY TurnsAssumption
  <2>2. (IF kind = "tombstone" /\ b # <<>> THEN Last(b).id ELSE 0) \in Nat
    BY <1>3
  <2>3. t \in Tile
    BY <1>2, <2>1, <2>2 DEF Tile
  <2>4. Tombstone(t) => t.turnsLeft > 0
    BY <2>1 DEF Tombstone
  <2> QED
    BY <2>3, <2>4 DEF GracedTile
<1>5. t.id = FreshId(b) /\ (t.victim = 0 \/ (b # <<>> /\ t.victim = b[Len(b)].id))
  BY <1>3
<1>6. Landed(b, kind) = Append(b, t)
  BY DEF Landed
<1> HIDE DEF t
<1> DEFINE c == Append(b, t)
<1>7. /\ c \in Seq(GracedTile) /\ Len(c) = n /\ DOMAIN c = 1..n
      /\ (\A i \in 1..Len(b) : c[i] = b[i]) /\ c[n] = t
  BY <1>1, <1>4, AppendProperties, LenProperties
<1> HIDE DEF c
<1>8. \A i \in DOMAIN c : i = n \/ (i \in DOMAIN b /\ c[i] = b[i])
  BY <1>1, <1>7
<1>9. n \in Nat /\ n > 0 /\ n \notin DOMAIN b /\ n - 1 = Len(b)
  BY <1>1
<1> HIDE DEF n
<1>10. DistinctIds(c)
  <2>1. \A i \in DOMAIN b : b[i].id \in Ids(b)
    BY DEF Ids
  <2> QED
    BY <1>1, <1>2, <1>5, <1>7, <1>8, <2>1 DEF DistinctIds
<1>11. BeneathShadows(c)
  <2> SUFFICES ASSUME NEW i \in DOMAIN c, NEW j \in DOMAIN c, c[i].victim = c[j].id
               PROVE  i > 1 /\ c[i - 1].id = c[i].victim
    BY DEF BeneathShadows, Ids
  <2>1. CASE i # n
    <3>1. i \in DOMAIN b /\ c[i] = b[i] /\ c[i].victim \in Victims(b)
      BY <1>8, <2>1 DEF Victims
    <3>2. j \in DOMAIN b /\ c[j] = b[j]
      BY <1>2, <1>5, <1>7, <1>8, <3>1
    <3>3. i > 1 /\ b[i - 1].id = b[i].victim
      BY <1>1, <3>1, <3>2 DEF BeneathShadows, Ids
    <3>4. i - 1 \in 1..Len(b)
      BY <1>1, <3>1, <3>3
    <3> QED
      BY <1>7, <3>1, <3>3, <3>4
  <2>2. CASE i = n
    <3>1. c[j].id # 0
      BY <1>1, <1>2, <1>5, <1>7, <1>8
    <3>2. b # <<>> /\ c[i].victim = b[Len(b)].id
      BY <1>5, <1>7, <2>2, <3>1
    <3>3. Len(b) \in 1..Len(b) /\ i - 1 = Len(b) /\ i > 1
      BY <1>1, <1>3, <1>9, <2>2, <3>2
    <3> QED
      BY <1>7, <3>2, <3>3
  <2> QED
    BY <2>1, <2>2
<1> QED
  BY <1>6, <1>7, <1>10, <1>11 DEF GoodStack, c, n

(* The run that a minor compaction takes is one of the stack's. *)
LEMMA LowestRunFacts ==
    ASSUME NEW b, GoodStack(b), LevelRuns(b) # {}
    PROVE  findLowestCompactableRun(b) \in LevelRuns(b)
<1> DEFINE R == LevelRuns(b)
           N == {b[q[1]].level : q \in R}
<1>1. \A q \in R : q[1] \in Nat /\ b[q[1]].level \in Nat
  <2>1. /\ Len(b) \in Nat /\ DOMAIN b = 1..Len(b)
        /\ \A i \in DOMAIN b : b[i].level \in Nat
    BY StackFacts DEF GoodStack
  <2>2. \A q \in R : q[1] \in DOMAIN b
    BY DEF LevelRuns
  <2> QED
    BY <2>1, <2>2
<1>2. R # {}
  OBVIOUS
<1>3. findLowestCompactableRun(b) = CHOOSE r \in R : \A q \in R :
        \/ b[r[1]].level < b[q[1]].level
        \/ b[r[1]].level = b[q[1]].level /\ r[1] <= q[1]
  BY DEF findLowestCompactableRun
<1> HIDE DEF R
<1>4. N \in SUBSET Nat /\ N # {}
  BY <1>1, <1>2
<1>5. PICK l \in N : \A m \in N : l <= m
  <2> HIDE DEF N
  <2> QED
    BY <1>4, LeastExists
<1> DEFINE M == {q[1] : q \in {p \in R : b[p[1]].level = l}}
<1>6. M \in SUBSET Nat /\ M # {}
  BY <1>1, <1>5
<1>7. PICK s \in M : \A m \in M : s <= m
  <2> HIDE DEF M
  <2> QED
    BY <1>6, LeastExists
<1>8. PICK r \in R : b[r[1]].level = l /\ r[1] = s
  BY <1>7
<1>9. \A q \in R : \/ b[r[1]].level < b[q[1]].level
                   \/ b[r[1]].level = b[q[1]].level /\ r[1] <= q[1]
  <2> TAKE q \in R
  <2>1. l <= b[q[1]].level /\ l \in Nat /\ b[q[1]].level \in Nat
    BY <1>1, <1>4, <1>5
  <2>2. CASE b[q[1]].level = l
    <3>1. q[1] \in M
      BY <2>2
    <3> HIDE DEF M
    <3> QED
      BY <1>7, <1>8, <2>2, <3>1
  <2>3. CASE b[q[1]].level # l
    BY <1>8, <2>1, <2>3
  <2> QED
    BY <2>2, <2>3
<1> QED
  BY <1>3, <1>8, <1>9 DEF R

LEMMA MinorIsGood ==
    ASSUME NEW b, GoodStack(b), NEW r \in LevelRuns(b)
    PROVE  /\ GoodStack(Splice(b, r[1], r[2] - r[1] + 1, <<merged(b, b[r[1]].level + 1)>>))
           /\ Len(Splice(b, r[1], r[2] - r[1] + 1, <<merged(b, b[r[1]].level + 1)>>)) <= Len(b)
<1>1. /\ b \in Seq(GracedTile) /\ Len(b) \in Nat /\ DOMAIN b = 1..Len(b)
      /\ \A i \in DOMAIN b : b[i].level \in Nat
  BY StackFacts DEF GoodStack
<1>2. r[1] \in DOMAIN b /\ r[2] \in DOMAIN b /\ r[1] < r[2]
  BY DEF LevelRuns, LevelRun
<1>3. PICK i \in Nat \ {0} : i = r[1]
  BY <1>1, <1>2
<1>4. PICK n \in Nat \ {0} : n = r[2] - r[1] + 1
  BY <1>1, <1>2
<1>5. PICK level \in Nat : level = b[r[1]].level + 1
  BY <1>1, <1>2
<1>6. i + n - 1 <= Len(b)
  BY <1>1, <1>2, <1>3, <1>4
<1>7. /\ GoodStack(Splice(b, i, n, <<merged(b, level)>>))
      /\ Len(Splice(b, i, n, <<merged(b, level)>>)) = Len(b) - n + 1
  BY <1>6, MergeIsGood
<1>8. Len(b) - n + 1 <= Len(b)
  BY <1>1
<1> QED
  BY <1>3, <1>4, <1>5, <1>7, <1>8

-------------------------------------------------------------------------------
(* The sectors for which steps are due. *)
Due(ch) == {ch[k].sector : k \in DOMAIN ch}

LEMMA DueOfTwo ==
    ASSUME NEW c \in Seq(Step), NEW d \in Seq(Step)
    PROVE  c \o d \in Seq(Step) /\ Due(c) \cup Due(d) \subseteq Due(c \o d)
<1>1. /\ c \o d \in Seq(Step) /\ Len(c \o d) = Len(c) + Len(d)
      /\ \A i \in 1..Len(c) + Len(d) :
            (c \o d)[i] = IF i <= Len(c) THEN c[i] ELSE d[i - Len(c)]
  BY ConcatProperties
<1>2. Len(c) \in Nat /\ DOMAIN c = 1..Len(c) /\ Len(d) \in Nat /\ DOMAIN d = 1..Len(d)
  BY LenProperties
<1>3. DOMAIN (c \o d) = 1..Len(c) + Len(d)
  BY <1>1, LenProperties
<1>4. \A i \in DOMAIN c : i \in DOMAIN (c \o d) /\ (c \o d)[i] = c[i]
  BY <1>1, <1>2, <1>3
<1>5. \A i \in DOMAIN d :
         Len(c) + i \in DOMAIN (c \o d) /\ (c \o d)[Len(c) + i] = d[i]
  <2> TAKE i \in DOMAIN d
  <2>1. Len(c) + i \in 1..Len(c) + Len(d) /\ ~(Len(c) + i <= Len(c)) /\ Len(c) + i - Len(c) = i
    BY <1>2
  <2> QED
    BY <1>1, <1>3, <2>1
<1>6. ASSUME NEW s \in Due(c) PROVE s \in Due(c \o d)
  <2>1. PICK i \in DOMAIN c : s = c[i].sector
    BY DEF Due
  <2>2. i \in DOMAIN (c \o d) /\ s = (c \o d)[i].sector
    BY <1>4, <2>1
  <2> QED
    BY <2>2 DEF Due
<1>7. ASSUME NEW s \in Due(d) PROVE s \in Due(c \o d)
  <2>1. PICK i \in DOMAIN d : s = d[i].sector
    BY DEF Due
  <2>2. PICK j \in DOMAIN (c \o d) : s = (c \o d)[j].sector
    BY <1>5, <2>1
  <2> QED
    BY <2>2 DEF Due
<1> QED
  BY <1>1, <1>6, <1>7

LEMMA DueOfTail ==
    ASSUME NEW c \in Seq(Step), c # <<>>
    PROVE  /\ Tail(c) \in Seq(Step) /\ Head(c).sector \in Sectors /\ Head(c).depth \in Nat
           /\ Due(c) \subseteq {Head(c).sector} \cup Due(Tail(c))
<1>1. /\ Head(c) \in Step /\ Tail(c) \in Seq(Step) /\ Len(Tail(c)) = Len(c) - 1
      /\ \A i \in 1..Len(Tail(c)) : Tail(c)[i] = c[i + 1]
  BY HeadTailProperties
<1>2. Len(c) \in Nat /\ DOMAIN c = 1..Len(c) /\ Head(c) = c[1] /\ DOMAIN Tail(c) = 1..Len(Tail(c))
  BY <1>1, LenProperties
<1>3. \A i \in DOMAIN c : i = 1 \/ (i - 1 \in DOMAIN Tail(c) /\ Tail(c)[i - 1] = c[i])
  BY <1>1, <1>2
<1>4. Head(c).sector \in Sectors /\ Head(c).depth \in Nat
  BY <1>1 DEF Step
<1>5. ASSUME NEW s \in Due(c) PROVE s = Head(c).sector \/ s \in Due(Tail(c))
  <2>1. PICK i \in DOMAIN c : s = c[i].sector
    BY DEF Due
  <2>2. CASE i = 1
    BY <1>2, <2>1, <2>2
  <2>3. CASE i # 1
    <3>1. PICK j \in DOMAIN Tail(c) : s = Tail(c)[j].sector
      BY <1>3, <2>1, <2>3
    <3> QED
      BY <3>1 DEF Due
  <2> QED
    BY <2>2, <2>3
<1> QED
  BY <1>1, <1>4, <1>5

LEMMA SectorsFacts == IsFiniteSet(Sectors) /\ Sectors \in SUBSET Nat
<1>1. NumSectors - 1 \in Int
  BY RingAssumption
<1> QED
  BY <1>1, FS_Interval DEF Sectors

(* A look at some of the stacks sets a step for each of them that has a run. *)
LEMMA ScheduledFacts ==
    ASSUME NEW bs, NEW S \in SUBSET Sectors, NEW depth \in Nat
    PROVE  /\ Scheduled(bs, S, depth) \in Seq(Step)
           /\ Due(Scheduled(bs, S, depth)) = {s \in S : HasRun(bs[s])}
<1> DEFINE H == {s \in S : HasRun(bs[s])}
           g == Ascending(H)
           n == Cardinality(H)
<1>1. H \in SUBSET S /\ H \in SUBSET Sectors
  OBVIOUS
<1>2. H \in SUBSET Nat /\ IsFiniteSet(H)
  BY <1>1, SectorsFacts, FS_Subset
<1>3. Scheduled(bs, S, depth) = [k \in DOMAIN g |-> [sector |-> g[k], depth |-> depth]]
  BY DEF Scheduled
<1>4. /\ n \in Nat /\ g \in [1..n -> H]
      /\ \A s \in H : \E k \in 1..n : g[k] = s
  <2> HIDE DEF H
  <2> QED
    BY <1>2, AscendingFacts
<1> HIDE DEF H, g, n
<1>5. DOMAIN g = 1..n /\ \A k \in 1..n : g[k] \in H
  BY <1>4
<1> DEFINE c == [k \in 1..n |-> [sector |-> g[k], depth |-> depth]]
<1>6. Scheduled(bs, S, depth) = c
  BY <1>3, <1>5
<1>7. \A k \in 1..n : c[k] \in Step /\ c[k].sector = g[k]
  <2>1. \A k \in 1..n : g[k] \in Sectors
    BY <1>1, <1>5
  <2> QED
    BY <2>1 DEF Step
<1>8. DOMAIN c = 1..n /\ c = [k \in 1..n |-> c[k]]
  OBVIOUS
<1> HIDE DEF c
<1>9. c \in Seq(Step)
  BY <1>4, <1>7, <1>8
<1>10. Due(c) = H
  BY <1>4, <1>5, <1>7, <1>8 DEF Due
<1> QED
  BY <1>6, <1>9, <1>10 DEF H

-------------------------------------------------------------------------------
(* The ring. *)
Stacks == {b \in Seq(GracedTile) : GoodStack(b) /\ Len(b) <= MaxRows}

LEMMA StacksFacts ==
    /\ \A b \in Stacks : GoodStack(b) /\ Len(b) \in Nat /\ Len(b) <= MaxRows /\ b \in Seq(Tile)
    /\ \A b : GoodStack(b) /\ Len(b) <= MaxRows => b \in Stacks
    /\ <<>> \in Stacks
<1>1. ASSUME NEW b \in Stacks
      PROVE  GoodStack(b) /\ Len(b) \in Nat /\ Len(b) <= MaxRows /\ b \in Seq(Tile)
  <2>1. GracedTile \subseteq Tile
    BY DEF GracedTile
  <2>2. b \in Seq(GracedTile) /\ GoodStack(b) /\ Len(b) <= MaxRows
    BY DEF Stacks
  <2> QED
    BY <2>1, <2>2, SeqMonotonic, LenProperties
<1>2. \A b : GoodStack(b) /\ Len(b) <= MaxRows => b \in Stacks
  BY DEF Stacks, GoodStack
<1>3. <<>> \in Stacks
  <2>1. <<>> \in Seq(GracedTile) /\ Len(<<>>) = 0 /\ DOMAIN <<>> = {}
    BY EmptySeq
  <2>2. GoodStack(<<>>)
    BY <2>1 DEF GoodStack, DistinctIds, BeneathShadows
  <2>3. 0 <= MaxRows
    BY RingAssumption
  <2> QED
    BY <1>2, <2>1, <2>2, <2>3
<1> QED
  BY <1>1, <1>2, <1>3

LEMMA CheckedFacts ==
    ASSUME NEW bs \in [Sectors -> Stacks], NEW S \in SUBSET Sectors, NEW depth \in Nat
    PROVE  /\ Checked(bs, S) \in [Sectors -> Stacks]
           /\ Scheduled(bs, S, depth) \in Seq(Step)
           /\ \A s \in Sectors :
                 /\ Len(Checked(bs, S)[s]) <= Len(bs[s])
                 /\ s \notin S => Checked(bs, S)[s] = bs[s]
                 /\ HasRun(Checked(bs, S)[s]) =>
                       s \in Due(Scheduled(bs, S, depth)) \/ (s \notin S /\ HasRun(bs[s]))
<1>1. ASSUME NEW s \in Sectors
      PROVE  /\ Compacted(bs[s]) \in Stacks /\ Len(Compacted(bs[s])) <= Len(bs[s])
             /\ ~HasRun(bs[s]) => Compacted(bs[s]) = bs[s]
  <2>1. bs[s] \in Stacks
    OBVIOUS
  <2>2. GoodStack(bs[s]) /\ Len(bs[s]) \in Nat /\ Len(bs[s]) <= MaxRows
    BY <2>1, StacksFacts
  <2>3. /\ GoodStack(Compacted(bs[s])) /\ Len(Compacted(bs[s])) <= Len(bs[s])
        /\ ~HasRun(bs[s]) => Compacted(bs[s]) = bs[s]
    BY <2>2, CompactedFacts
  <2>4. Len(Compacted(bs[s])) \in Nat
    BY <2>3, LenProperties DEF GoodStack
  <2>5. Len(Compacted(bs[s])) <= MaxRows
    BY <2>2, <2>3, <2>4, RingAssumption
  <2> QED
    BY <2>3, <2>5, StacksFacts
<1>2. \A s \in Sectors : Len(bs[s]) \in Nat
  BY StacksFacts
<1>3. \A s \in Sectors : Checked(bs, S)[s] = IF s \in S THEN Compacted(bs[s]) ELSE bs[s]
  BY DEF Checked
<1>4. Checked(bs, S) \in [Sectors -> Stacks]
  BY <1>1 DEF Checked
<1>5. /\ Scheduled(bs, S, depth) \in Seq(Step)
      /\ Due(Scheduled(bs, S, depth)) = {s \in S : HasRun(bs[s])}
  BY ScheduledFacts
<1>6. \A s \in Sectors :
         /\ Len(Checked(bs, S)[s]) <= Len(bs[s])
         /\ s \notin S => Checked(bs, S)[s] = bs[s]
  BY <1>1, <1>2, <1>3
<1>7. ASSUME NEW s \in Sectors, HasRun(Checked(bs, S)[s])
      PROVE  s \in Due(Scheduled(bs, S, depth)) \/ (s \notin S /\ HasRun(bs[s]))
  <2>1. CASE s \in S
    <3>1. HasRun(Compacted(bs[s]))
      BY <1>3, <1>7, <2>1
    <3>2. HasRun(bs[s])
      BY <1>1, <3>1
    <3> QED
      BY <1>5, <2>1, <3>2
  <2>2. CASE s \notin S
    BY <1>3, <1>7, <2>2
  <2> QED
    BY <2>1, <2>2
<1> QED
  BY <1>4, <1>5, <1>6, <1>7

(* A turn keeps the stacks good, and a step is due for each new run. *)
LEMMA TurnFacts ==
    ASSUME buckets \in [Sectors -> Stacks], currentSector \in Sectors,
           Len(buckets[currentSector]) < MaxRows, NEW piece \in Kinds
    PROVE  /\ TurnOf(piece).buckets \in [Sectors -> Stacks]
           /\ TurnOf(piece).chain \in Seq(Step)
           /\ \A s \in Sectors :
                 HasRun(TurnOf(piece).buckets[s]) =>
                    \/ s \in Due(TurnOf(piece).chain)
                    \/ s \notin {currentSector} /\ HasRun(buckets[s])
<1>1. PICK killed : killed = {s \in Sectors : Kills(buckets[s]) # {}}
  OBVIOUS
<1>2. PICK ticked : ticked = [s \in Sectors |-> ShadowTicked(buckets[s])]
  OBVIOUS
<1>3. PICK looked : looked = Checked(ticked, killed)
  OBVIOUS
<1>4. PICK graced : graced = [s \in Sectors |-> GCGraced(looked[s])]
  OBVIOUS
<1>5. PICK expired : expired = {s \in Sectors : Len(graced[s]) < Len(looked[s])}
  OBVIOUS
<1>6. PICK swept : swept = Checked(graced, expired)
  OBVIOUS
<1>7. PICK fallen :
         fallen = IF currentSector \in killed \cup expired THEN swept
                  ELSE [swept EXCEPT ![currentSector] = Landed(swept[currentSector], piece)]
  OBVIOUS
<1>8. /\ TurnOf(piece).buckets = Checked(fallen, {currentSector})
      /\ TurnOf(piece).chain = Scheduled(ticked, killed, 0) \o Scheduled(graced, expired, 0)
                                  \o Scheduled(fallen, {currentSector}, 0)
  BY <1>1, <1>2, <1>3, <1>4, <1>5, <1>6, <1>7 DEF TurnOf
<1>9. killed \in SUBSET Sectors /\ expired \in SUBSET Sectors /\ {currentSector} \in SUBSET Sectors
      /\ 0 \in Nat
  BY <1>1, <1>5
<1>10. ASSUME NEW s \in Sectors
       PROVE  /\ ticked[s] \in Stacks /\ Len(ticked[s]) <= Len(buckets[s])
              /\ s \notin killed => (HasRun(ticked[s]) <=> HasRun(buckets[s]))
  <2>1. buckets[s] \in Stacks /\ ticked[s] = ShadowTicked(buckets[s])
    BY <1>2
  <2>2. GoodStack(buckets[s]) /\ Len(buckets[s]) \in Nat /\ Len(buckets[s]) <= MaxRows
    BY <2>1, StacksFacts
  <2>3. /\ GoodStack(ticked[s]) /\ Len(ticked[s]) <= Len(buckets[s])
        /\ Kills(buckets[s]) = {} => SameRuns(buckets[s], ticked[s])
    BY <2>1, <2>2, ShadowTickedFacts
  <2>4. ticked[s] \in Seq(GracedTile) /\ buckets[s] \in Seq(GracedTile) /\ Len(ticked[s]) \in Nat
    BY <2>2, <2>3, LenProperties DEF GoodStack
  <2>5. Len(ticked[s]) <= MaxRows
    BY <2>2, <2>3, <2>4, RingAssumption
  <2>6. ASSUME s \notin killed PROVE HasRun(ticked[s]) <=> HasRun(buckets[s])
    <3>1. SameRuns(buckets[s], ticked[s])
      BY <1>1, <2>3, <2>6
    <3> QED
      BY <2>4, <3>1, SameRunsFacts
  <2> QED
    BY <2>3, <2>5, <2>6, StacksFacts
<1>11. ticked \in [Sectors -> Stacks]
  BY <1>2, <1>10
<1>12. /\ looked \in [Sectors -> Stacks] /\ Scheduled(ticked, killed, 0) \in Seq(Step)
       /\ \A s \in Sectors :
             /\ Len(looked[s]) <= Len(ticked[s])
             /\ HasRun(looked[s]) =>
                   s \in Due(Scheduled(ticked, killed, 0)) \/ (s \notin killed /\ HasRun(ticked[s]))
  BY <1>3, <1>9, <1>11, CheckedFacts
<1>13. ASSUME NEW s \in Sectors
       PROVE  /\ graced[s] \in Stacks /\ Len(graced[s]) <= Len(looked[s])
              /\ s \notin expired => (HasRun(graced[s]) <=> HasRun(looked[s]))
  <2>1. looked[s] \in Stacks /\ graced[s] = GCGraced(looked[s])
    BY <1>4, <1>12
  <2>2. GoodStack(looked[s]) /\ Len(looked[s]) \in Nat /\ Len(looked[s]) <= MaxRows
    BY <2>1, StacksFacts
  <2>3. /\ GoodStack(graced[s]) /\ Len(graced[s]) <= Len(looked[s])
        /\ ~(Len(graced[s]) < Len(looked[s])) => SameRuns(looked[s], graced[s])
    BY <2>1, <2>2, GCGracedFacts
  <2>4. graced[s] \in Seq(GracedTile) /\ looked[s] \in Seq(GracedTile) /\ Len(graced[s]) \in Nat
    BY <2>2, <2>3, LenProperties DEF GoodStack
  <2>5. Len(graced[s]) <= MaxRows
    BY <2>2, <2>3, <2>4, RingAssumption
  <2>6. ASSUME s \notin expired PROVE HasRun(graced[s]) <=> HasRun(looked[s])
    <3>1. SameRuns(looked[s], graced[s])
      BY <1>5, <2>3, <2>6
    <3> QED
      BY <2>4, <3>1, SameRunsFacts
  <2> QED
    BY <2>3, <2>5, <2>6, StacksFacts
<1>14. graced \in [Sectors -> Stacks]
  BY <1>4, <1>13
<1>15. /\ swept \in [Sectors -> Stacks] /\ Scheduled(graced, expired, 0) \in Seq(Step)
       /\ \A s \in Sectors :
             /\ Len(swept[s]) <= Len(graced[s])
             /\ HasRun(swept[s]) =>
                   s \in Due(Scheduled(graced, expired, 0)) \/ (s \notin expired /\ HasRun(graced[s]))
  BY <1>6, <1>9, <1>14, CheckedFacts
<1>16. Landed(swept[currentSector], piece) \in Stacks
  <2> DEFINE c == currentSector
  <2>1. /\ GoodStack(swept[c]) /\ Len(swept[c]) \in Nat /\ Len(graced[c]) \in Nat
        /\ Len(looked[c]) \in Nat /\ Len(ticked[c]) \in Nat /\ Len(buckets[c]) \in Nat
    BY <1>11, <1>12, <1>14, <1>15, StacksFacts
  <2>2. Len(swept[c]) + 1 <= MaxRows
    <3>1. /\ Len(swept[c]) <= Len(graced[c]) /\ Len(graced[c]) <= Len(looked[c])
          /\ Len(looked[c]) <= Len(ticked[c]) /\ Len(ticked[c]) <= Len(buckets[c])
          /\ Len(buckets[c]) < MaxRows
      BY <1>10, <1>12, <1>13, <1>15
    <3> HIDE DEF c
    <3> QED
      BY <2>1, <3>1, RingAssumption
  <2>3. /\ GoodStack(Landed(swept[c], piece))
        /\ Len(Landed(swept[c], piece)) = Len(swept[c]) + 1
    BY <2>1, LandedFacts
  <2> QED
    BY <2>2, <2>3, StacksFacts
<1>17. /\ fallen \in [Sectors -> Stacks]
       /\ \A s \in Sectors : s # currentSector => fallen[s] = swept[s]
  BY <1>7, <1>15, <1>16
<1>18. /\ Checked(fallen, {currentSector}) \in [Sectors -> Stacks]
       /\ Scheduled(fallen, {currentSector}, 0) \in Seq(Step)
       /\ \A s \in Sectors :
             HasRun(Checked(fallen, {currentSector})[s]) =>
                \/ s \in Due(Scheduled(fallen, {currentSector}, 0))
                \/ s \notin {currentSector} /\ HasRun(fallen[s])
  BY <1>9, <1>17, CheckedFacts
<1>19. PICK d1 \in Seq(Step) : d1 = Scheduled(ticked, killed, 0)
  BY <1>12
<1>20. PICK d2 \in Seq(Step) : d2 = Scheduled(graced, expired, 0)
  BY <1>15
<1>21. PICK d3 \in Seq(Step) : d3 = Scheduled(fallen, {currentSector}, 0)
  BY <1>18
<1>22. d1 \o d2 \in Seq(Step) /\ Due(d1) \cup Due(d2) \subseteq Due(d1 \o d2)
  BY DueOfTwo
<1>23. d1 \o d2 \o d3 \in Seq(Step) /\ Due(d1 \o d2) \cup Due(d3) \subseteq Due(d1 \o d2 \o d3)
  BY <1>22, DueOfTwo
<1>24. TurnOf(piece).chain = d1 \o d2 \o d3
  BY <1>8, <1>19, <1>20, <1>21
<1>25. ASSUME NEW s \in Sectors, HasRun(Checked(fallen, {currentSector})[s])
       PROVE  s \in Due(d1 \o d2 \o d3) \/ (s \notin {currentSector} /\ HasRun(buckets[s]))
  <2>1. s \in Due(d3) \/ (s # currentSector /\ HasRun(fallen[s]))
    BY <1>18, <1>21, <1>25
  <2>2. s # currentSector => fallen[s] = swept[s]
    BY <1>17
  <2>3. HasRun(swept[s]) => s \in Due(d2) \/ HasRun(looked[s])
    BY <1>13, <1>15, <1>20
  <2>4. HasRun(looked[s]) => s \in Due(d1) \/ HasRun(buckets[s])
    BY <1>10, <1>12, <1>19
  <2> QED
    BY <1>22, <1>23, <2>1, <2>2, <2>3, <2>4
<1> QED
  BY <1>8, <1>18, <1>23, <1>24, <1>25

-------------------------------------------------------------------------------
(* The invariant: the stacks are good, and steps are due for their runs. *)
GameIInv == SmasherTypeOK /\ buckets \in [Sectors -> Stacks] /\ RunsAreAttended

LEMMA AttendedIsDue ==
    RunsAreAttended <=>
       (~isGameOver => \A s \in Sectors \ skipped : HasRun(buckets[s]) => s \in Due(chain))
  BY DEF RunsAreAttended, Due

(* What a step of a game that looks at the sectors of L must do for the runs. *)
LEMMA StaysAttended ==
    ASSUME RunsAreAttended, isGameOver' = isGameOver, NEW L, skipped' = skipped \ L,
           Due(chain) \subseteq Due(chain'),
           \A s \in Sectors :
              HasRun(buckets'[s]) => s \in Due(chain') \/ (s \notin L /\ HasRun(buckets[s]))
    PROVE  RunsAreAttended'
<1>1. ~isGameOver => \A s \in Sectors \ skipped : HasRun(buckets[s]) => s \in Due(chain)
  BY AttendedIsDue
<1>2. ~isGameOver' => \A s \in Sectors \ skipped' : HasRun(buckets'[s]) => s \in Due(chain')
  BY <1>1
<1> QED
  BY <1>2, AttendedIsDue DEF RunsAreAttended, Due

LEMMA RingIsTyped ==
    ASSUME buckets \in [Sectors -> Stacks]
    PROVE  \A s \in Sectors : buckets[s] \in Seq(Tile) /\ Len(buckets[s]) <= MaxRows
  BY StacksFacts

LEMMA EmptyRing ==
    /\ [s \in Sectors |-> <<>>] \in [Sectors -> Stacks]
    /\ \A s \in Sectors : ~HasRun([t \in Sectors |-> <<>>][s])
  BY StacksFacts, NoRunWithoutTiles

LEMMA StepDue ==
    ASSUME NEW c \in Seq(Step), NEW s \in Sectors
    PROVE  /\ Append(c, [sector |-> s, depth |-> 0]) \in Seq(Step)
           /\ Due(c) \cup {s} \subseteq Due(Append(c, [sector |-> s, depth |-> 0]))
<1> DEFINE e == [sector |-> s, depth |-> 0]
<1>1. e \in Step /\ e.sector = s
  BY DEF Step
<1> HIDE DEF e
<1>2. /\ Append(c, e) \in Seq(Step) /\ Len(Append(c, e)) = Len(c) + 1
      /\ (\A i \in 1..Len(c) : Append(c, e)[i] = c[i]) /\ Append(c, e)[Len(c) + 1] = e
      /\ Len(c) \in Nat /\ DOMAIN c = 1..Len(c)
  BY <1>1, AppendProperties, LenProperties
<1>3. DOMAIN Append(c, e) = 1..Len(c) + 1
  BY <1>2, LenProperties
<1>4. ASSUME NEW q \in Due(c) PROVE q \in Due(Append(c, e))
  <2>1. PICK i \in DOMAIN c : q = c[i].sector
    BY DEF Due
  <2>2. i \in DOMAIN Append(c, e) /\ q = Append(c, e)[i].sector
    BY <1>2, <1>3, <2>1
  <2> QED
    BY <2>2 DEF Due
<1>5. s \in Due(Append(c, e))
  <2>1. Len(c) + 1 \in DOMAIN Append(c, e) /\ s = Append(c, e)[Len(c) + 1].sector
    BY <1>1, <1>2, <1>3
  <2> QED
    BY <2>1 DEF Due
<1> QED
  BY <1>2, <1>4, <1>5 DEF e

LEMMA ZeroFacts ==
    /\ [key \in Range(Powerups) |-> 0] \in [Range(Powerups) -> 0..PowerupCap]
    /\ 0 \in 0..Thresholds /\ 0 \in 0..MaxDrops /\ 0 \in Sectors
  BY AwardsAssumption, GameBounds, RingAssumption DEF Sectors

LEMMA InitGame == SmasherInit => GameIInv
<1> SUFFICES ASSUME SmasherInit PROVE GameIInv
  OBVIOUS
<1> USE DEF SmasherInit
<1>1. buckets \in [Sectors -> Stacks] /\ \A s \in Sectors : ~HasRun(buckets[s])
  BY EmptyRing
<1>2. chain \in Seq(Step)
  BY EmptySeq
<1>3. SmasherTypeOK
  BY <1>1, <1>2, RingIsTyped, ZeroFacts DEF SmasherTypeOK
<1>4. RunsAreAttended
  BY <1>1 DEF RunsAreAttended
<1> QED
  BY <1>1, <1>3, <1>4 DEF GameIInv

(* A new game, and the page loaded again. *)
LEMMA ResetStep ==
    ASSUME GameIInv, resetState, chain' \in Seq(Step),
           gameModal' \in BOOLEAN, manual' \in BOOLEAN, startOverlay' \in BOOLEAN,
           isPaused' \in BOOLEAN
    PROVE  GameIInv'
<1> USE DEF resetState
<1>1. buckets' \in [Sectors -> Stacks] /\ \A s \in Sectors : ~HasRun(buckets'[s])
  BY EmptyRing
<1>2. \A s \in Sectors : buckets'[s] \in Seq(Tile) /\ Len(buckets'[s]) <= MaxRows
  BY <1>1, StacksFacts
<1>3. SmasherTypeOK'
  BY <1>2, ZeroFacts DEF SmasherTypeOK
<1>4. RunsAreAttended'
  BY <1>1 DEF RunsAreAttended
<1> QED
  BY <1>1, <1>3, <1>4 DEF GameIInv

LEMMA AwardsStep ==
    ASSUME SmasherTypeOK, checkPowerupAwards
    PROVE  powerups' \in [Range(Powerups) -> 0..PowerupCap] /\ thresholdsHit' \in 0..Thresholds
<1>1. /\ powerups \in [Range(Powerups) -> 0..PowerupCap] /\ thresholdsHit \in 0..Thresholds
      /\ PowerupCap \in Nat /\ Thresholds \in Nat
  BY AwardsAssumption DEF SmasherTypeOK
<1>2. PICK hit \in thresholdsHit..Thresholds :
         /\ thresholdsHit' = hit
         /\ powerups' = [key \in DOMAIN powerups |->
              Min({PowerupCap, powerups[key] +
                     Cardinality({n \in thresholdsHit + 1..hit :
                                     Powerups[((n - 1) % Len(Powerups)) + 1] = key})})]
  BY DEF checkPowerupAwards
<1>3. thresholdsHit + 1 \in Int /\ hit \in Int /\ thresholdsHit' \in 0..Thresholds
  BY <1>1, <1>2
<1>4. IsFiniteSet(thresholdsHit + 1..hit)
  BY <1>3, FS_Interval
<1>5. ASSUME NEW key \in Range(Powerups)
      PROVE  powerups'[key] \in 0..PowerupCap
  <2> DEFINE N == {n \in thresholdsHit + 1..hit :
                      Powerups[((n - 1) % Len(Powerups)) + 1] = key}
  <2>1. N \in SUBSET (thresholdsHit + 1..hit)
    OBVIOUS
  <2>2. powerups'[key] = Min({PowerupCap, powerups[key] + Cardinality(N)})
    BY <1>1, <1>2
  <2> HIDE DEF N
  <2>3. Cardinality(N) \in Nat
    BY <1>4, <2>1, FS_Subset, FS_CardinalityType
  <2>4. PICK p \in Nat : p = powerups[key] + Cardinality(N)
    <3>1. powerups[key] \in Nat
      BY <1>1
    <3> QED
      BY <2>3, <3>1
  <2>5. {PowerupCap, p} \in SUBSET Nat /\ {PowerupCap, p} # {}
    BY <1>1
  <2>6. Min({PowerupCap, p}) \in {PowerupCap, p} /\ \A m \in {PowerupCap, p} : Min({PowerupCap, p}) <= m
    BY <2>5, MinFacts
  <2>7. Min({PowerupCap, p}) \in Nat /\ Min({PowerupCap, p}) <= PowerupCap
    BY <1>1, <2>6
  <2> QED
    BY <1>1, <2>2, <2>4, <2>7
<1>6. powerups' \in [Range(Powerups) -> 0..PowerupCap]
  <2>1. DOMAIN powerups' = Range(Powerups) /\ powerups' = [key \in DOMAIN powerups' |-> powerups'[key]]
    BY <1>1, <1>2
  <2> QED
    BY <1>5, <2>1
<1> QED
  BY <1>3, <1>6

LEMMA UseFacts ==
    ASSUME SmasherTypeOK, NEW key, Use(key)
    PROVE  powerups' \in [Range(Powerups) -> 0..PowerupCap]
<1>1. powerups \in [Range(Powerups) -> 0..PowerupCap] /\ PowerupCap \in Nat
  BY AwardsAssumption DEF SmasherTypeOK
<1>2. powerups' = [powerups EXCEPT ![key] = powerups[key] - 1] /\ powerups[key] > 0
  BY DEF Use
<1>3. CASE key \in Range(Powerups)
  <2>1. powerups[key] - 1 \in 0..PowerupCap
    BY <1>1, <1>2, <1>3
  <2> QED
    BY <1>1, <1>2, <2>1
<1>4. CASE key \notin Range(Powerups)
  BY <1>1, <1>2, <1>4
<1> QED
  BY <1>3, <1>4

(* A ring that was changed, with the steps its changes make due. *)
LEMMA RingStep ==
    ASSUME GameIInv,
           UNCHANGED <<layers, isPaused, isGameOver, currentSector>>,
           NEW L, skipped' = skipped \ L,
           dropCount' \in 0..MaxDrops, thresholdsHit' \in 0..Thresholds,
           powerups' \in [Range(Powerups) -> 0..PowerupCap],
           buckets' \in [Sectors -> Stacks],
           NEW d \in Seq(Step), chain' = chain \o d,
           \A s \in Sectors :
              HasRun(buckets'[s]) => s \in Due(d) \/ (s \notin L /\ HasRun(buckets[s]))
    PROVE  GameIInv'
<1>1. SmasherTypeOK /\ RunsAreAttended /\ chain \in Seq(Step)
  BY DEF GameIInv, SmasherTypeOK
<1>2. chain' \in Seq(Step) /\ Due(chain) \cup Due(d) \subseteq Due(chain')
  BY <1>1, DueOfTwo
<1>3. \A s \in Sectors : buckets'[s] \in Seq(Tile) /\ Len(buckets'[s]) <= MaxRows
  BY StacksFacts
<1>4. SmasherTypeOK'
  BY <1>1, <1>2, <1>3 DEF SmasherTypeOK, layers
<1>5. isGameOver' = isGameOver /\ Due(chain) \subseteq Due(chain')
  BY <1>2
<1>6. \A s \in Sectors :
         HasRun(buckets'[s]) => s \in Due(chain') \/ (s \notin L /\ HasRun(buckets[s]))
  BY <1>2
<1>7. RunsAreAttended'
  BY <1>1, <1>5, <1>6, StaysAttended
<1> QED
  BY <1>4, <1>7 DEF GameIInv

(* A look at some stacks of a ring that has no run the ring before had not. *)
LEMMA LookFacts ==
    ASSUME NEW bs \in [Sectors -> Stacks], NEW S \in SUBSET Sectors, Look(bs, S),
           \A s \in Sectors \ S : HasRun(bs[s]) => HasRun(buckets[s])
    PROVE  /\ buckets' \in [Sectors -> Stacks] /\ skipped' = skipped \ S
           /\ \E d \in Seq(Step) :
                 /\ chain' = chain \o d
                 /\ \A s \in Sectors :
                       HasRun(buckets'[s]) => s \in Due(d) \/ (s \notin S /\ HasRun(buckets[s]))
<1>1. buckets' = Checked(bs, S) /\ chain' = chain \o Scheduled(bs, S, 0) /\ skipped' = skipped \ S
  BY DEF Look
<1>2. 0 \in Nat
  OBVIOUS
<1>3. /\ Checked(bs, S) \in [Sectors -> Stacks]
      /\ Scheduled(bs, S, 0) \in Seq(Step)
      /\ \A s \in Sectors :
            HasRun(Checked(bs, S)[s]) =>
               s \in Due(Scheduled(bs, S, 0)) \/ (s \notin S /\ HasRun(bs[s]))
  BY <1>2, CheckedFacts
<1>4. \A s \in Sectors :
         HasRun(Checked(bs, S)[s]) =>
            s \in Due(Scheduled(bs, S, 0)) \/ (s \notin S /\ HasRun(buckets[s]))
  BY <1>3
<1> QED
  BY <1>1, <1>3, <1>4

LEMMA DropStep ==
    ASSUME GameIInv, dropTable
    PROVE  GameIInv'
<1>1. SmasherTypeOK /\ buckets \in [Sectors -> Stacks] /\ currentSector \in Sectors
  BY DEF GameIInv, SmasherTypeOK
<1>2. /\ Len(buckets[currentSector]) < MaxRows /\ dropCount < MaxDrops
      /\ dropCount' = dropCount + 1 /\ checkPowerupAwards
      /\ UNCHANGED <<layers, isPaused, isGameOver, currentSector>>
      /\ skipped' = skipped \ {currentSector}
  BY DEF dropTable
<1>3. PICK piece \in Kinds :
         buckets' = TurnOf(piece).buckets /\ chain' = chain \o TurnOf(piece).chain
  BY DEF dropTable
<1>4. /\ TurnOf(piece).buckets \in [Sectors -> Stacks]
      /\ TurnOf(piece).chain \in Seq(Step)
      /\ \A s \in Sectors :
            HasRun(TurnOf(piece).buckets[s]) =>
               \/ s \in Due(TurnOf(piece).chain)
               \/ s \notin {currentSector} /\ HasRun(buckets[s])
  BY <1>1, <1>2, TurnFacts
<1>5. PICK d \in Seq(Step) : d = TurnOf(piece).chain
  BY <1>4
<1>6. dropCount' \in 0..MaxDrops
  BY <1>1, <1>2, GameBounds DEF SmasherTypeOK
<1>7. powerups' \in [Range(Powerups) -> 0..PowerupCap] /\ thresholdsHit' \in 0..Thresholds
  BY <1>1, <1>2, AwardsStep
<1>8. PICK L : L = {currentSector}
  OBVIOUS
<1>9. /\ buckets' \in [Sectors -> Stacks] /\ chain' = chain \o d /\ skipped' = skipped \ L
      /\ \A s \in Sectors :
            HasRun(buckets'[s]) => s \in Due(d) \/ (s \notin L /\ HasRun(buckets[s]))
  BY <1>2, <1>3, <1>4, <1>5, <1>8
<1> QED
  BY <1>2, <1>6, <1>7, <1>9, RingStep

LEMMA UseStep ==
    ASSUME GameIInv, NEW key, Use(key), buckets' \in [Sectors -> Stacks],
           NEW L, skipped' = skipped \ L,
           NEW d \in Seq(Step), chain' = chain \o d,
           \A s \in Sectors :
              HasRun(buckets'[s]) => s \in Due(d) \/ (s \notin L /\ HasRun(buckets[s]))
    PROVE  GameIInv'
<1>1. SmasherTypeOK
  BY DEF GameIInv
<1>2. powerups' \in [Range(Powerups) -> 0..PowerupCap]
  BY <1>1, UseFacts
<1>3. /\ UNCHANGED <<layers, isPaused, isGameOver, currentSector>>
      /\ dropCount' \in 0..MaxDrops /\ thresholdsHit' \in 0..Thresholds
  BY <1>1 DEF Use, SmasherTypeOK
<1> QED
  BY <1>2, <1>3, RingStep

LEMMA CleanupStep ==
    ASSUME GameIInv, usePowerupCleanup
    PROVE  GameIInv'
<1>1. buckets \in [Sectors -> Stacks]
  BY DEF GameIInv
<1>2. PICK purged : purged = [s \in Sectors |-> Purged(buckets[s])]
  OBVIOUS
<1>3. PICK S : S = {s \in Sectors : Len(purged[s]) < Len(buckets[s])}
  OBVIOUS
<1>4. Use("cleanup") /\ Look(purged, S)
  BY <1>2, <1>3 DEF usePowerupCleanup
<1>5. ASSUME NEW s \in Sectors
      PROVE  purged[s] \in Stacks /\ (s \notin S => purged[s] = buckets[s])
  <2>1. GoodStack(buckets[s]) /\ Len(buckets[s]) \in Nat /\ Len(buckets[s]) <= MaxRows
    BY <1>1, StacksFacts
  <2>2. /\ GoodStack(purged[s]) /\ Len(purged[s]) <= Len(buckets[s])
        /\ ~(Len(purged[s]) < Len(buckets[s])) => purged[s] = buckets[s]
    BY <1>2, <2>1, PurgedFacts
  <2>3. Len(purged[s]) \in Nat
    BY <2>2, LenProperties DEF GoodStack
  <2>4. Len(purged[s]) <= MaxRows
    BY <2>1, <2>2, <2>3, RingAssumption
  <2> QED
    BY <1>3, <2>2, <2>4, StacksFacts
<1>6. /\ purged \in [Sectors -> Stacks] /\ S \in SUBSET Sectors
      /\ \A s \in Sectors \ S : HasRun(purged[s]) => HasRun(buckets[s])
  BY <1>2, <1>3, <1>5
<1>7. buckets' \in [Sectors -> Stacks] /\ skipped' = skipped \ S
  BY <1>4, <1>6, LookFacts
<1>8. PICK d \in Seq(Step) :
         /\ chain' = chain \o d
         /\ \A s \in Sectors :
               HasRun(buckets'[s]) => s \in Due(d) \/ (s \notin S /\ HasRun(buckets[s]))
  BY <1>4, <1>6, LookFacts
<1> QED
  BY <1>4, <1>7, <1>8, UseStep

LEMMA RepairStep ==
    ASSUME GameIInv, usePowerupRepair
    PROVE  GameIInv'
<1>1. buckets \in [Sectors -> Stacks] /\ currentSector \in Sectors
  BY DEF GameIInv, SmasherTypeOK
<1>2. PICK bs : bs = [buckets EXCEPT ![currentSector] = Front(buckets[currentSector])]
  OBVIOUS
<1>3. PICK S : S = {currentSector}
  OBVIOUS
<1>4. Use("repair") /\ Look(bs, S) /\ buckets[currentSector] # <<>>
  BY <1>2, <1>3 DEF usePowerupRepair
<1>5. Front(buckets[currentSector]) \in Stacks
  <2> DEFINE b == buckets[currentSector]
  <2>1. GoodStack(b) /\ Len(b) \in Nat /\ Len(b) <= MaxRows
    BY <1>1, StacksFacts
  <2>2. GoodStack(Front(b)) /\ Len(Front(b)) <= Len(b)
    BY <1>4, <2>1, FrontIsGood
  <2>3. Len(Front(b)) \in Nat
    BY <2>2, LenProperties DEF GoodStack
  <2>4. Len(Front(b)) <= MaxRows
    BY <2>1, <2>2, <2>3, RingAssumption
  <2> QED
    BY <2>2, <2>4, StacksFacts
<1>6. /\ bs \in [Sectors -> Stacks] /\ S \in SUBSET Sectors
      /\ \A s \in Sectors \ S : HasRun(bs[s]) => HasRun(buckets[s])
  BY <1>1, <1>2, <1>3, <1>5
<1>7. buckets' \in [Sectors -> Stacks] /\ skipped' = skipped \ S
  BY <1>4, <1>6, LookFacts
<1>8. PICK d \in Seq(Step) :
         /\ chain' = chain \o d
         /\ \A s \in Sectors :
               HasRun(buckets'[s]) => s \in Due(d) \/ (s \notin S /\ HasRun(buckets[s]))
  BY <1>4, <1>6, LookFacts
<1> QED
  BY <1>4, <1>7, <1>8, UseStep

LEMMA MinorStep ==
    ASSUME GameIInv, usePowerupMinorCompaction
    PROVE  GameIInv'
<1> DEFINE c == currentSector
<1>1. buckets \in [Sectors -> Stacks] /\ c \in Sectors /\ chain \in Seq(Step) /\ SmasherTypeOK
  BY DEF GameIInv, SmasherTypeOK
<1>2. PICK b : b = buckets[c]
  OBVIOUS
<1>3. PICK r : r = findLowestCompactableRun(b)
  OBVIOUS
<1>4. PICK stack : stack = Splice(b, r[1], r[2] - r[1] + 1, <<merged(b, b[r[1]].level + 1)>>)
  OBVIOUS
<1>5. /\ LevelRuns(b) # {} /\ Use("minorCompaction")
      /\ buckets' = [buckets EXCEPT ![c] = stack]
      /\ chain' = Append(chain, [sector |-> c, depth |-> 0])
      /\ skipped' = skipped \ {c}
  BY <1>2, <1>3, <1>4 DEF usePowerupMinorCompaction
<1>6. GoodStack(b) /\ Len(b) \in Nat /\ Len(b) <= MaxRows
  BY <1>1, <1>2, StacksFacts
<1>7. r \in LevelRuns(b)
  BY <1>3, <1>5, <1>6, LowestRunFacts
<1>8. GoodStack(stack) /\ Len(stack) <= Len(b)
  BY <1>4, <1>6, <1>7, MinorIsGood
<1>9. stack \in Stacks
  <2>1. Len(stack) \in Nat
    BY <1>8, LenProperties DEF GoodStack
  <2>2. Len(stack) <= MaxRows
    BY <1>6, <1>8, <2>1, RingAssumption
  <2> QED
    BY <1>8, <2>2, StacksFacts
<1>10. /\ buckets' \in [Sectors -> Stacks]
       /\ \A s \in Sectors : s # c => buckets'[s] = buckets[s]
  BY <1>1, <1>5, <1>9
<1>11. chain' \in Seq(Step) /\ Due(chain) \cup {c} \subseteq Due(chain')
  BY <1>1, <1>5, StepDue
<1>12. UNCHANGED <<layers, isPaused, isGameOver, currentSector, dropCount, thresholdsHit>>
  BY <1>5 DEF Use
<1>13. powerups' \in [Range(Powerups) -> 0..PowerupCap]
  BY <1>1, <1>5, UseFacts
<1>14. SmasherTypeOK'
  <2>1. \A s \in Sectors : buckets'[s] \in Seq(Tile) /\ Len(buckets'[s]) <= MaxRows
    BY <1>10, StacksFacts
  <2> QED
    BY <1>1, <1>5, <1>11, <1>12, <1>13, <2>1 DEF SmasherTypeOK, layers
<1>15. RunsAreAttended'
  <2>1. PICK L : L = {c}
    OBVIOUS
  <2>2. \A s \in Sectors :
           HasRun(buckets'[s]) => s \in Due(chain') \/ (s \notin L /\ HasRun(buckets[s]))
    BY <1>10, <1>11, <2>1
  <2>3. RunsAreAttended /\ isGameOver' = isGameOver /\ skipped' = skipped \ L
    BY <1>5, <1>12, <2>1 DEF GameIInv
  <2> QED
    BY <1>11, <2>2, <2>3, StaysAttended
<1> QED
  BY <1>10, <1>14, <1>15 DEF GameIInv

LEMMA ChainStep ==
    ASSUME GameIInv, chainStep
    PROVE  GameIInv'
<1>1. /\ buckets \in [Sectors -> Stacks] /\ chain \in Seq(Step) /\ chain # <<>> /\ SmasherTypeOK
      /\ skipped \subseteq Sectors
      /\ UNCHANGED <<layers, isPaused, isGameOver, currentSector, dropCount, awards>>
  BY DEF GameIInv, SmasherTypeOK, chainStep
<1>2. PICK s : s = Head(chain).sector
  OBVIOUS
<1>3. PICK depth : depth = Head(chain).depth + 1
  OBVIOUS
<1>4. /\ Tail(chain) \in Seq(Step) /\ s \in Sectors /\ depth \in Nat
      /\ Due(chain) \subseteq {s} \cup Due(Tail(chain))
  BY <1>1, <1>2, <1>3, DueOfTail
<1>5. ~isGameOver => \A q \in Sectors \ skipped : HasRun(buckets[q]) => q \in Due(chain)
  BY AttendedIsDue DEF GameIInv
<1>6. CASE isPaused \/ isGameOver \/ depth > MaxChain
  <2>1. chain' = Tail(chain) /\ skipped' = skipped \cup {s} /\ buckets' = buckets
    BY <1>2, <1>3, <1>6 DEF chainStep
  <2>2. SmasherTypeOK'
    BY <1>1, <1>4, <2>1 DEF SmasherTypeOK, layers, awards
  <2>3. ~isGameOver' => \A q \in Sectors \ skipped' : HasRun(buckets'[q]) => q \in Due(chain')
    BY <1>1, <1>4, <1>5, <2>1
  <2>4. RunsAreAttended'
    BY <2>3 DEF RunsAreAttended, Due
  <2> QED
    BY <1>1, <2>1, <2>2, <2>4 DEF GameIInv
<1>7. CASE ~(isPaused \/ isGameOver \/ depth > MaxChain)
  <2>1. PICK d : d = Scheduled(buckets, {s}, depth)
    OBVIOUS
  <2>2. chain' = Tail(chain) \o d /\ skipped' = skipped \ {s} /\ buckets' = Checked(buckets, {s})
    BY <1>2, <1>3, <1>7, <2>1 DEF chainStep
  <2>3. {s} \in SUBSET Sectors
    BY <1>4
  <2>4. /\ Checked(buckets, {s}) \in [Sectors -> Stacks]
        /\ Scheduled(buckets, {s}, depth) \in Seq(Step)
        /\ \A q \in Sectors :
              HasRun(Checked(buckets, {s})[q]) =>
                 q \in Due(Scheduled(buckets, {s}, depth)) \/ (q \notin {s} /\ HasRun(buckets[q]))
    BY <1>1, <1>4, <2>3, CheckedFacts
  <2>5. d \in Seq(Step)
    BY <2>1, <2>4
  <2>6. chain' \in Seq(Step) /\ Due(Tail(chain)) \cup Due(d) \subseteq Due(chain')
    BY <1>4, <2>2, <2>5, DueOfTwo
  <2>7. buckets' \in [Sectors -> Stacks]
    BY <2>2, <2>4
  <2>8. SmasherTypeOK'
    <3>1. \A q \in Sectors : buckets'[q] \in Seq(Tile) /\ Len(buckets'[q]) <= MaxRows
      BY <2>7, StacksFacts
    <3> QED
      BY <1>1, <2>2, <2>6, <3>1 DEF SmasherTypeOK, layers, awards
  <2>9. ~isGameOver' => \A q \in Sectors \ skipped' : HasRun(buckets'[q]) => q \in Due(chain')
    <3>1. \A q \in Sectors :
             HasRun(buckets'[q]) => q \in Due(d) \/ (q # s /\ HasRun(buckets[q]))
      BY <2>1, <2>2, <2>4
    <3> QED
      BY <1>1, <1>4, <1>5, <2>2, <2>6, <3>1
  <2>10. RunsAreAttended'
    BY <2>9 DEF RunsAreAttended, Due
  <2> QED
    BY <2>7, <2>8, <2>10 DEF GameIInv
<1> QED
  BY <1>6, <1>7

(* The steps that leave the stacks and the timers alone. *)
LEMMA OtherGameStep ==
    ASSUME GameIInv, UNCHANGED <<buckets, chain, skipped, dropCount, awards>>,
           isGameOver' = isGameOver \/ isGameOver' = TRUE,
           gameModal' \in BOOLEAN, manual' \in BOOLEAN, startOverlay' \in BOOLEAN,
           isPaused' \in BOOLEAN, currentSector' \in Sectors
    PROVE  GameIInv'
<1>1. isGameOver' \in BOOLEAN /\ SmasherTypeOK
  BY DEF GameIInv, SmasherTypeOK
<1>2. SmasherTypeOK'
  BY <1>1 DEF SmasherTypeOK, awards
<1>3. RunsAreAttended'
  BY DEF GameIInv, RunsAreAttended
<1> QED
  BY <1>2, <1>3 DEF GameIInv

LEMMA SteerFacts ==
    ASSUME NEW c \in Sectors
    PROVE  (c + 1) % NumSectors \in Sectors /\ (c + NumSectors - 1) % NumSectors \in Sectors
  BY RingAssumption DEF Sectors

LEMMA GameStep ==
    ASSUME GameIInv, SmasherNext \/ LoadGame
    PROVE  GameIInv'
<1>1. /\ gameModal \in BOOLEAN /\ manual \in BOOLEAN /\ startOverlay \in BOOLEAN
      /\ isPaused \in BOOLEAN /\ currentSector \in Sectors /\ chain \in Seq(Step)
  BY DEF GameIInv, SmasherTypeOK
<1>2. CASE LoadGame
  <2>1. chain' \in Seq(Step)
    BY <1>2, EmptySeq DEF LoadGame
  <2> QED
    BY <1>2, <2>1, ResetStep DEF LoadGame
<1>3. CASE start
  BY <1>1, <1>3, ResetStep DEF start
<1>4. CASE Steer
  <2>1. currentSector' \in Sectors
    BY <1>1, <1>4, SteerFacts DEF Steer
  <2> QED
    BY <1>1, <1>4, <2>1, OtherGameStep DEF Steer, layers
<1>5. CASE endGame
  BY <1>1, <1>5, OtherGameStep DEF endGame, layers
<1>6. CASE dropTable
  BY <1>6, DropStep
<1>7. CASE usePowerupCleanup
  BY <1>7, CleanupStep
<1>8. CASE usePowerupRepair
  BY <1>8, RepairStep
<1>9. CASE usePowerupMinorCompaction
  BY <1>9, MinorStep
<1>10. CASE openSSTableSmasher
  BY <1>1, <1>10, OtherGameStep DEF openSSTableSmasher
<1>11. CASE closeSSTableSmasher
  BY <1>1, <1>11, OtherGameStep DEF closeSSTableSmasher
<1>12. CASE toggleGameManual
  <2>1. manual' \in BOOLEAN /\ isPaused' \in BOOLEAN
    BY <1>1, <1>12 DEF toggleGameManual
  <2> QED
    BY <1>1, <1>12, <2>1, OtherGameStep DEF toggleGameManual
<1>13. CASE chainStep
  BY <1>13, ChainStep
<1> QED
  BY <1>2, <1>3, <1>4, <1>5, <1>6, <1>7, <1>8, <1>9, <1>10, <1>11, <1>12, <1>13
     DEF SmasherNext, SmasherUser

LEMMA GameStutter ==
    ASSUME GameIInv, UNCHANGED gameVars
    PROVE  GameIInv'
<1>1. /\ gameModal \in BOOLEAN /\ manual \in BOOLEAN /\ startOverlay \in BOOLEAN
      /\ isPaused \in BOOLEAN /\ currentSector \in Sectors
  BY DEF GameIInv, SmasherTypeOK
<1> QED
  BY <1>1, OtherGameStep DEF gameVars, layers

(* What the runs check follows: the ids of a stack are as many as its tiles. *)
LEMMA VictimsAreBeneath ==
    ASSUME GameIInv
    PROVE  VictimBeneath
<1> SUFFICES ASSUME NEW s \in Sectors
             PROVE  /\ Cardinality(Ids(buckets[s])) = Len(buckets[s])
                    /\ \A i \in DOMAIN buckets[s] :
                          buckets[s][i].victim \in Ids(buckets[s]) =>
                             i > 1 /\ buckets[s][i - 1].id = buckets[s][i].victim
  BY DEF VictimBeneath
<1>1. PICK b : b = buckets[s]
  OBVIOUS
<1>2. GoodStack(b)
  BY <1>1, StacksFacts DEF GameIInv
<1>3. /\ b \in Seq(GracedTile) /\ Len(b) \in Nat /\ DOMAIN b = 1..Len(b)
      /\ DistinctIds(b) /\ BeneathShadows(b)
  BY <1>2, StackFacts DEF GoodStack
<1> DEFINE n == Len(b)
           f == [i \in 1..n |-> b[i].id]
<1>4. IsFiniteSet(1..n) /\ Cardinality(1..n) = n
  BY <1>3, IntervalFacts
<1>5. f \in Bijection(1..n, Ids(b))
  <2>1. f \in Surjection(1..n, Ids(b))
    BY <1>3 DEF Surjection, Ids
  <2>2. f \in [1..n -> Ids(b)] /\ \A i, j \in 1..n : f[i] = f[j] => i = j
    BY <1>3 DEF Ids, DistinctIds
  <2> HIDE DEF f, n
  <2>3. f \in Injection(1..n, Ids(b))
    BY <2>2 DEF Injection, IsInjective
  <2> QED
    BY <2>1, <2>3 DEF Bijection
<1>6. Cardinality(Ids(b)) = n
  <2> HIDE DEF n, f
  <2> QED
    BY <1>4, <1>5, FS_Bijection DEF ExistsBijection
<1> QED
  BY <1>1, <1>3, <1>6 DEF BeneathShadows

-------------------------------------------------------------------------------
(***************************************************************************)
(* The three pages.  One of them is shown, and its steps leave the other   *)
(* two as they are.                                                        *)
(***************************************************************************)
PagesIInv ==
    /\ shown \in {"table", "keyspace", "start"}
    /\ BuilderIInv /\ KeyspaceIInv /\ GameIInv

pagesVars == <<shown, builderVars, keyspaceVars, gameVars>>

LEMMA InitPages == PagesInit => PagesIInv
  BY InitBuilder, InitKeyspace, InitGame DEF PagesInit, PagesIInv

LEMMA StepPages == PagesIInv /\ [PagesNext]_pagesVars => PagesIInv'
<1> SUFFICES ASSUME PagesIInv, [PagesNext]_pagesVars PROVE PagesIInv'
  OBVIOUS
<1>1. shown \in {"table", "keyspace", "start"} /\ BuilderIInv /\ KeyspaceIInv /\ GameIInv
  BY DEF PagesIInv
<1>2. CASE OnTable(BuilderUser \/ BuilderNext) \/ OnTable(LoadBuilder)
  <2>1. /\ BuilderUser \/ BuilderNext \/ LoadBuilder
        /\ UNCHANGED <<shown, keyspaceVars, gameVars>>
    BY <1>2 DEF OnTable
  <2>2. BuilderIInv'
    BY <1>1, <2>1, BuilderStep
  <2>3. KeyspaceIInv' /\ GameIInv'
    BY <1>1, <2>1, KeyspaceStutter, GameStutter
  <2> QED
    BY <1>1, <2>1, <2>2, <2>3 DEF PagesIInv
<1>3. CASE OnKeyspace(KeyspaceUser \/ KeyspaceNext) \/ OnKeyspace(LoadKeyspace)
  <2>1. /\ KeyspaceUser \/ KeyspaceNext \/ LoadKeyspace
        /\ UNCHANGED <<shown, builderVars, gameVars>>
    BY <1>3 DEF OnKeyspace
  <2>2. KeyspaceIInv'
    BY <1>1, <2>1, KeyspaceStep
  <2>3. BuilderIInv' /\ GameIInv'
    BY <1>1, <2>1, BuilderStutter, GameStutter
  <2> QED
    BY <1>1, <2>1, <2>2, <2>3 DEF PagesIInv
<1>4. CASE OnStart(SmasherNext) \/ OnStart(LoadGame)
  <2>1. /\ SmasherNext \/ LoadGame
        /\ UNCHANGED <<shown, builderVars, keyspaceVars>>
    BY <1>4 DEF OnStart
  <2>2. GameIInv'
    BY <1>1, <2>1, GameStep
  <2>3. BuilderIInv' /\ KeyspaceIInv'
    BY <1>1, <2>1, BuilderStutter, KeyspaceStutter
  <2> QED
    BY <1>1, <2>1, <2>2, <2>3 DEF PagesIInv
<1>5. CASE UNCHANGED pagesVars
  <2>1. BuilderIInv' /\ KeyspaceIInv' /\ GameIInv' /\ shown' = shown
    BY <1>1, <1>5, BuilderStutter, KeyspaceStutter, GameStutter DEF pagesVars
  <2> QED
    BY <1>1, <2>1 DEF PagesIInv
<1> QED
  BY <1>2, <1>3, <1>4, <1>5 DEF PagesNext

(* The invariant of the three pages, on every path through them. *)
THEOREM PagesInvariance == PagesSpec => []PagesIInv
<1>1. PagesSpec <=> PagesInit /\ [][PagesNext]_pagesVars
  BY DEF PagesSpec, pagesVars
<1> QED
  BY <1>1, InitPages, StepPages, PTL

(* The state of the two designers and of the game keeps its types: the columns, the *)
(* replication and the stacks are what the forms and the ring can hold.             *)
THEOREM PagesTypeCorrect == PagesSpec => []PagesTypeOK
<1>1. PagesIInv => PagesTypeOK
  BY BuilderInvariants DEF PagesIInv, KeyspaceIInv, GameIInv, PagesTypeOK
<1> QED
  BY <1>1, PagesInvariance, PTL

(* No column of the table designer is a partition and a clustering key, and no key is *)
(* static, in whatever order the boxes are ticked (pkCheck, ckCheck, staticCheck).    *)
THEOREM KeysExclude == PagesSpec => []FlagsAgree
<1>1. PagesIInv => FlagsAgree
  BY BuilderInvariants DEF PagesIInv
<1> QED
  BY <1>1, PagesInvariance, PTL

(* The statement a designer shows, and what it may be executed for, are those of its     *)
(* form, and the untouched form of a keyspace of a known strategy stands for no change   *)
(* of it (updatePreview, updateState).                                                   *)
THEOREM FormsAreFollowed == PagesSpec => []StatementsFollowForms
<1>1. PagesIInv => StatementsFollowForms
  BY BuilderInvariants DEF PagesIInv, KeyspaceIInv, StatementsFollowForms
<1> QED
  BY <1>1, PagesInvariance, PTL

(* What was confirmed is executed once, in its order, and success is reported for all of *)
(* it (confirmExecute).                                                                  *)
THEOREM ConfirmedIsExecuted == PagesSpec => []ExecutedAsConfirmed
<1>1. PagesIInv => ExecutedAsConfirmed
  BY BuilderInvariants DEF PagesIInv, KeyspaceIInv, ExecutedAsConfirmed
<1> QED
  BY <1>1, PagesInvariance, PTL

(* No run of the game is forgotten: a step of the chain is due for its stack, unless one *)
(* was passed over (checkCompaction, scheduleChainStep).                                 *)
THEOREM RunsAreDue == PagesSpec => []RunsAreAttended
<1>1. PagesIInv => RunsAreAttended
  BY DEF PagesIInv, GameIInv
<1> QED
  BY <1>1, PagesInvariance, PTL

(* A shadow deletes what it was placed on or nothing (processShadowTicks). *)
THEOREM ShadowsKeepVictims == PagesSpec => []VictimBeneath
<1>1. PagesIInv => VictimBeneath
  BY VictimsAreBeneath DEF PagesIInv
<1> QED
  BY <1>1, PagesInvariance, PTL

===============================================================================
