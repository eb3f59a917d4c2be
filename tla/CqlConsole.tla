----------------------------- MODULE CqlConsole -----------------------------
(***************************************************************************)
(* The CQL console (scripts/app/cqlsh.js): a script is split into          *)
(* statements, which run one after the other, each with a request of its   *)
(* own; a history of statements is kept in memory, in localStorage and in  *)
(* a list; the schema the editor completes from is kept in memory and in   *)
(* sessionStorage.                                                         *)
(*                                                                         *)
(* The button is disabled while a script runs, but Ctrl+Enter calls        *)
(* runQuery too, so that scripts may run beside each other.                *)
(***************************************************************************)
EXTENDS Naturals, FiniteSets, Sequences, SequencesExt

CONSTANTS
    Runs,          \* bound: scripts that may run at once
    Scripts,       \* scripts a user may run, as sequences of statements
    MaxHistory,    \* 30 in the code
    MaxSchema,     \* bound: versions of the schema
    MaxFetches     \* bound: schema requests in flight

Statements == UNION {Range(script) : script \in Scripts}

ASSUME ConsoleBounds ==
    /\ MaxHistory \in Nat \ {0} /\ MaxSchema \in Nat \ {0} /\ MaxFetches \in Nat \ {0}

\* Of nothing but separators there is nothing to run.
ASSUME ScriptsAssumption == Scripts \subseteq Seq(Statements) \ {<<>>}

VARIABLES
    queryHistory,
    storedHistory,          \* localStorage: cqlshHistory
    historyList,     \* the drawer
    run,             \* for each script what is left to run, and what ran since the last clearing
    disabled,        \* runBtn.disabled
    resultOf,        \* what query-result shows
    finished,        \* history: since the last clearing, what scripts ran that finished,
    failed,          \*    and, not stored yet, what scripts of this page ran that failed
    serverSchema, clusterSchema,
    cachedSchema,    \* sessionStorage; versions, 0 for none
    schemaFetches    \* schema requests in flight, with their answers

historyVars == <<queryHistory, storedHistory, historyList, finished, failed>>
runVars == <<run, disabled, resultOf>>
schemaVars == <<serverSchema, clusterSchema, cachedSchema, schemaFetches>>
consoleVars == <<historyVars, runVars, schemaVars>>

Idle == [left |-> <<>>, ran |-> {}]
Version == 0..MaxSchema

ConsoleTypeOK ==
    /\ queryHistory \in Seq(Statements) /\ storedHistory \in Seq(Statements)
    /\ historyList \in Seq(Statements)
    /\ run \in [Runs -> [left: Seq(Statements), ran: SUBSET Statements]]
    /\ disabled \in BOOLEAN
    /\ resultOf \in {"nothing", "running", "results", "error"}
    /\ finished \subseteq Statements /\ failed \subseteq Statements
    /\ serverSchema \in Version \ {0}
    /\ clusterSchema \in Version /\ cachedSchema \in Version
    /\ schemaFetches \in Seq(Version \ {0}) /\ Len(schemaFetches) <= MaxFetches

ConsoleInit ==
    /\ queryHistory = <<>> /\ storedHistory = <<>> /\ historyList = <<>>
    /\ finished = {} /\ failed = {}
    /\ run = [r \in Runs |-> Idle]
    /\ disabled = FALSE
    /\ resultOf = "nothing"
    /\ serverSchema = 1 /\ clusterSchema = 0 /\ cachedSchema = 0
    /\ schemaFetches = <<1>>

\* The page is loaded again: the history comes from localStorage, the schema from
\* sessionStorage if what it holds is young enough, and from the server anyway.
\* Statements the server has begun go on there; no answer is read.
LoadConsole ==
    /\ queryHistory' = storedHistory /\ historyList' = storedHistory
    /\ failed' = {}
    /\ run' = [r \in Runs |-> Idle]
    /\ disabled' = FALSE
    /\ resultOf' = "nothing"
    /\ clusterSchema' \in {0, cachedSchema}
    /\ schemaFetches' = <<serverSchema>>
    /\ UNCHANGED <<storedHistory, finished, serverSchema, cachedSchema>>

(***************************************************************************)
(* runQuery                                                                *)
(***************************************************************************)
Running(r) == run[r].left # <<>>

runQuery(r, script) ==
    /\ ~Running(r)
    /\ run' = [run EXCEPT ![r] = [left |-> script, ran |-> {}]]
    /\ disabled' = TRUE
    /\ resultOf' = "running"
    /\ UNCHANGED <<historyVars, schemaVars>>

\* A selection or a cursor on nothing but separators.
NothingToRun ==
    /\ resultOf' = "nothing"
    /\ UNCHANGED <<historyVars, run, disabled, schemaVars>>

Remember(stmt) ==
    LET longer == <<stmt>> \o queryHistory
    IN IF stmt \in Range(queryHistory) THEN queryHistory
       ELSE IF Len(longer) > MaxHistory THEN Front(longer) ELSE longer

Returned(r) ==
    /\ Running(r)
    /\ queryHistory' = Remember(Head(run[r].left))
    /\ run' = [run EXCEPT ![r] = [left |-> Tail(@.left), ran |-> @.ran \cup {Head(@.left)}]]
    /\ UNCHANGED schemaVars

\* A statement but the last one returns.
StatementReturns(r) ==
    /\ Returned(r)
    /\ Len(run[r].left) > 1
    /\ UNCHANGED <<storedHistory, historyList, finished, failed, disabled, resultOf>>

\* As ScriptReturns, storing what was remembered before its last statement.
ScriptReturnsStoringLate(r) ==
    /\ Returned(r)
    /\ Len(run[r].left) = 1
    /\ storedHistory' = queryHistory /\ historyList' = queryHistory
    /\ finished' = finished \cup run'[r].ran \cup failed
    /\ failed' = {}
    /\ disabled' = FALSE
    /\ resultOf' = "results"

\* The last one returns: the history is stored and listed, the results shown.
ScriptReturns(r) ==
    /\ Returned(r)
    /\ Len(run[r].left) = 1
    /\ storedHistory' = queryHistory' /\ historyList' = queryHistory'
    /\ finished' = finished \cup run'[r].ran \cup failed
    /\ failed' = {}
    /\ disabled' = FALSE
    /\ resultOf' = "results"

\* A statement fails: the rest does not run, the results of those before it are
\* not shown, and the history they are in is kept but neither stored nor listed.
ScriptFails(r) ==
    /\ Running(r)
    /\ failed' = failed \cup run[r].ran
    /\ run' = [run EXCEPT ![r] = Idle]
    /\ disabled' = FALSE
    /\ resultOf' = "error"
    /\ UNCHANGED <<queryHistory, storedHistory, historyList, finished, schemaVars>>

ClearHistory ==
    /\ storedHistory' = <<>> /\ historyList' = <<>> /\ queryHistory' = <<>>
    /\ finished' = {} /\ failed' = {}
    /\ run' = [r \in Runs |-> [run[r] EXCEPT !.ran = {}]]
    /\ UNCHANGED <<disabled, resultOf, schemaVars>>

(***************************************************************************)
(* The schema to complete from                                             *)
(***************************************************************************)
SchemaChanges ==
    /\ serverSchema < MaxSchema
    /\ serverSchema' = serverSchema + 1
    /\ UNCHANGED <<historyVars, runVars, clusterSchema, cachedSchema, schemaFetches>>

\* The answer is kept in memory, and in sessionStorage if that takes it.
fetchSchemaReturns(i) ==
    /\ clusterSchema' = schemaFetches[i]
    /\ cachedSchema' \in {cachedSchema, schemaFetches[i]}
    /\ schemaFetches' = RemoveAt(schemaFetches, i)
    /\ UNCHANGED <<historyVars, runVars, serverSchema>>

fetchSchemaFails(i) ==
    /\ schemaFetches' = RemoveAt(schemaFetches, i)
    /\ UNCHANGED <<historyVars, runVars, serverSchema, clusterSchema, cachedSchema>>

\* window.cassanovaRefresh: the server drops its copy, and if that was answered
\* the browser does too; the schema is fetched either way.
cassanovaRefresh ==
    /\ Len(schemaFetches) < MaxFetches
    /\ cachedSchema' \in {0, cachedSchema}
    /\ schemaFetches' = Append(schemaFetches, serverSchema)
    /\ UNCHANGED <<historyVars, runVars, serverSchema, clusterSchema>>

ConsoleUser ==
    \/ \E r \in Runs, script \in Scripts : runQuery(r, script)
    \/ NothingToRun \/ ClearHistory

ConsoleNext ==
    \/ \E r \in Runs : StatementReturns(r) \/ ScriptReturns(r) \/ ScriptFails(r)
    \/ SchemaChanges
    \/ \E i \in 1..MaxFetches :
          i \in DOMAIN schemaFetches /\ (fetchSchemaReturns(i) \/ fetchSchemaFails(i))

\* No statement is in the history twice, nor more of them than it holds, although
\* scripts that run beside each other put statements in between (runQuery).
HistoryIsBoundedSet ==
    /\ Len(queryHistory) <= MaxHistory
    /\ Cardinality(Range(queryHistory)) = Len(queryHistory)

\* The drawer lists what the next load of the page will find (updateHistoryUI).
DrawerIsStored == historyList = storedHistory

\* What a finished script ran since the history was last cleared, and what one that
\* failed before it ran, is in the history the next load finds, or was pushed out of
\* a full one.
FinishedScriptsStored == finished \subseteq Range(storedHistory) \/ Len(storedHistory) = MaxHistory

\* What a script ran before it failed stays in memory, to be stored with the next one.
FailedScriptsKept == failed \subseteq Range(queryHistory) \/ Len(queryHistory) = MaxHistory

\* The button never stays disabled once every script has ended, however the
\* scripts that ran beside each other did (finally).
ButtonComesBack == disabled => \E r \in Runs : Running(r)

\* The history on display, the one stored and the button agree with the scripts that
\* ran, in any interleaving of two of them with the user and a reload (runQuery).
ConsoleAgrees ==
    /\ HistoryIsBoundedSet /\ DrawerIsStored
    /\ FinishedScriptsStored /\ FailedScriptsKept /\ ButtonComesBack

=============================================================================
