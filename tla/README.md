# Cassanova in TLA+

Cassanova is a web console for Apache Cassandra: a FastAPI server that keeps
one driver connection per cluster, finds clusters in Kubernetes, runs CQL and
Cassandra's tools for its users, imports and exports tables and helps to
replace failed nodes, and a browser application in plain JavaScript. This
directory holds TLA+ modules that model its state and control, the TLC
configurations that check them, and proofs about them for every value of their
constants.

To check a configuration: `tlc -config ClusterRegistry.cfg MCClusterRegistry.tla`.
To check a proof module: `tlapm ClusterRegistryProofs.tla`.

## The system

The server, under `src/cassanova/`:

| component | source | state | operations |
|---|---|---|---|
| session manager | `core/session_manager.py` | `_sessions`, `_instances`, `_lock` (class attributes: one per process) | `get_session`, `shutdown`, `shutdown_all` |
| cluster registry | `config/cassanova_config.py`, `api/bootstrap.py` | `clusters`, `cluster_metadata` of the one configuration object | startup discovery, periodic pass, merge, eviction, publication |
| Kubernetes scan | `core/k8s_discovery.py` | none | contexts, filters, services to contact points |
| request look-up | `api/dependencies/db_session.py` | none | `get_session(cluster_name)` |
| CQL execution | `core/cql/_executor.py`, `execute_query.py` | none | permission, read-only check, audit, one retry with a quoted table name |
| import and export | `api/dependencies/csv_handler.py` | one import's batch and counts | `_bulk_insert_rows`, streams |
| node recovery | `core/node_recovery/pod_recovery.py` | none; the tasks are in the Kubernetes API | status, approve, cancel |
| schema map | `api/routes/api/cluster_routes.py` | `_schema_map_cache` | read with a 60 s expiry, invalidation by DDL |
| login | `api/dependencies/auth.py`, `core/ldap_manager.py` | tokens in cookies | local users, LDAP, roles and permissions |
| external tools | `api/routes/api/tools_routes.py`, `core/tools/` | one directory per namespace | upload, run with a timeout, clean up |

The browser, under `src/cassanova/web/static/scripts/app/`:

| component | source | state | operations |
|---|---|---|---|
| table explorer | `explorer.js` | rows shown, paging stack, filters, loading flag, editor, dialogs | page, filter, refresh, edit, delete, import, insert |
| search | `topbar.js` | an index kept for a minute, the list and its highlight | focus, type, keys |
| CQL console | `cqlsh.js` | history (memory, store, drawer), completion schema (memory, store) | run a script, clear, fetch the schema |
| automatic refresh | `auto-refresh.js` | interval (memory, store), one timer | choose, hide, show, fire |
| node recovery page | `node_recovery.js` | the dashboard, one selected job for two dialogs | poll, approve, cancel |
| table designer | `table-builder.js` | list of columns, preview, dialog | edit the form, confirm, execute |
| keyspace designer | `keyspace-builder.js` | form, preview, dialog | edit the form, confirm, deploy |
| SSTable smasher | `sstable-smasher.js` | a ring of stacks, turns, timers of compaction chains | steer, drop, power-ups, pause, new game |
| other pages | `compare.js`, `vnodes.js`, `schema-graph.js` | none that outlives an answer | drawings |

How they interact. FastAPI runs the synchronous routes on a pool of threads, so
requests run side by side. A request reads the registry, without a lock, then
asks the session manager for the cluster's session, under the manager's lock.
The discovery loop is a task of the event loop that sleeps, runs one pass on a
worker thread, and waits for it: passes never overlap, but each runs beside the
requests. A pass calls the session manager's `shutdown` for what it evicts. The
application's shutdown event calls `shutdown_all` once the requests are
answered; it cancels the loop, not the thread a pass is running on. Node
recovery keeps nothing in the server: every decision is taken from one
Kubernetes API call and acted upon by another. In a tab, one handler runs at a
time, but every `await` lets others run: answers come in any order, and between
the asking and the answering the user clicks, a timer fires, or the automatic
refresh loads the page again.

What makes it hard: the lock is held through a connect that may take as long as
its timeout, but not while connections are closed; the registry is replaced by
two assignments; the read of the registry and the use of the session table are
two steps; scans fail, partly or altogether; batches fail after they were
applied; API calls of two administrators interleave. On the pages, a handler keeps an
index, an id or an array through an `await`, a timer or a call that replaces
what it refers to; state exists twice, in memory and in a store or on the
display; and any of it is thrown away by a reload. `PROJECT.json` lists these
hazards with their lines and the properties that watch each of them.

What makes each component correct:

- session manager: at most one live connection per cluster, made once; nothing
  open that is neither stored nor about to be closed, but for the `Cluster` of a
  connect that raised late; a lock that is always released;
- registry: its two dictionaries agree, nothing is evicted before its misses
  are up, the configuration of a registered cluster stays, what is found is
  registered and what is gone evicted in the end;
- the two together: sessions are closed only for cause, match the registry,
  and are all closed at the end;
- import: counts that are exact, no row lost in silence, an end;
- node recovery: an approval never destroys work under way and always leaves
  some under way;
- explorer: an index means the row it was taken from; the page shown is the one
  named; the guard against overlapping requests is always given back;
- search, console, recovery page: what is displayed agrees with what is kept and what
  a confirmation would act on;
- designers: the statement shown is what the form says, what is confirmed is executed,
  once, and success means all of it;
- game: no compaction is forgotten, no shadow deletes another tile than its own.

## The modules: the server

**SharedConnections** is the abstract promise of the session manager: for each
cluster the live connection, for each connection how far it is in its life
(`unused`, `live`, `retired`, `closed`), for each caller what it holds.

**SessionManager** translates the manager's three methods. `sessions`, `instances` and
`lock` are its attributes; `conn` is what became of each driver connection (session
object and cluster object apart, because closing either may fail); `call` is each
thread's place in its call. `get_session` is `CallGet`, then `GetStored`, or
`StartConnect` and one of `Connected`, `ConnectFailed` and `ConnectLeaks`, the lock
being held from the second to the third. A connect that raises leaves nothing when the
driver shut its `Cluster` down itself, and an open `Cluster` in no table when it was up
already and only the session failed. `shutdown` is `CallShutdown`, `PopEntries` (under
the lock), `CloseSession`, `CloseCluster` (outside it). `shutdown_all` runs under the
lock throughout and blocks whoever would see it half done, so it is one step. The
dictionaries are total functions with `NoConn` for an absent key.
`ImplementsSharedConnections` is the refinement mapping: a connection is retired while
its cluster object is in the hands of a `shutdown`.

**ClusterRegistry** translates the writers of the registry. `clusters` and
`metadata` are the dictionaries requests see, `pass` is the discovery thread with
its copies, `recent` is history (what the last `StaleThreshold` successful scans
found). The merge and the miss accounting happen in the copies and are one step
with the scan; each `session_manager.shutdown` in the loop over the metadata is a
step, and so is each of the two assignments at the end. A scan finds any set of
the discoverable names, each with any of its configurations.

**ClusterSessions** composes the two with the threads that use them: request
threads that look up, get, use and release a session and may execute mutations
on it, the discovery thread, and the application's shutdown event. A mutation is
`CheckMutation`, where `execute_cql` looks the cluster's read-only flag up by name, and
`ExecuteMutation`, with any steps of the others between them. Statements that
`execute_cql` does not recognise as mutations are executed without the check, also when
they write; the model has none. `evicted` and `written` are history.

**BulkImport** translates `_bulk_insert_rows`. A row is good, cannot be prepared
(unknown column, a value that does not convert) or ends the file with an exception
(JSON); its shape is its list of columns, of which only the number matters to
binding. A batch that fails may have been applied (a timeout). `counted`, `applied`
and `dropped` are history.

**NodeRecovery** translates `approve_recovery` and `cancel_recovery` with the
operator that runs the tasks. The API lists tasks by name and the code takes the
first one of the pod, so a task is its pod and the second in its name (0 for the
name without one). A Kubernetes call that fails with an `ApiException` is handled as the
code does; any other exception ends the request with an error, after a deletion that may
have been done.

**RequestHandlers** puts these two beside each other, so that one run checks both: they
share no state, and a behaviour is of one of them.

## The modules: the browser

In all of them a request is in flight from the step that sends it to the step that
takes its answer, and a handler is one step from each `await` to the next. A page
module has three next-state relations where composition needs them: what its user does,
what happens by itself, and what a reload leaves (`Load...`).

**Explorer** is the grid of `explorer.js`. `currentData` is what the handlers index,
`body` what the table shows (with, as history, the request it answers), `requests`
the page requests in flight in the order they were sent, answered in any order.
`fetchData` is split at its await into `SendFetch` or `DropFetch` and
`FetchSucceeds` or `FetchFails`; `refreshAndFetch` is what filters, edits and the
automatic refresh end in. The Refresh button's own request, the cell editor and
its update, and the deletion dialog are in the same grid because they all index
it. A row is its key, a page comes from the table as it is when the answer is made. The
driver may announce a next page after one that is just full. The answer to an update
writes the saved value into the row of `currentData` that has the index by then, and
into the edited cell, which nobody sees if the rows were replaced; `misplaced` is true
while a row holds a value that was saved to another. No handler looks at `isFetching`
but `fetchData`: edits, deletions and the Refresh button go on during requests.

**RowForms** has the two dialogs of the same page that add rows, the import and the
insertion: the file the input holds, the one the label names, the two seconds that
the import dialog stays open. They end in `Explorer!RowsAdded`. A file that is dropped
is named and enables the button, and the input keeps what it holds.

**TopBar** is the search: `buildSearchIndex`, its one shared fetch and its expiry,
`filterResults` with its stable sort by rank and its cap by type (parts of the index in
their order), the drop-down opened by focus and input, the highlight moved by keys. A
query is abstracted to the items it matches and those it is a prefix of.

**CqlConsole** runs scripts, statement by statement, two at once (Ctrl+Enter does
not look at the button), and keeps the history in memory, in the store and in the
drawer. A script that fails leaves what it ran in memory only (`failed`). The completion
schema is in memory and in the session store, with answers that carry the version the
server had, come in any order, and may fail to be stored.

**RecoveryPage** is the polled dashboard and the two dialogs that share
`selectedRecoveryId`, with jobs moved by the server side.

**AutoRefresh** is the interval and its timer, which every page has. `timers` counts
those that run, by interval, `timerId` is the one the script knows of. A page that is
loaded in a hidden tab starts its timer all the same (`loadedHidden`); it does nothing
until the tab is shown.

**BrowserTab** composes the five: a tab on one of its pages, a user who acts while it
is visible, and the refresh, which calls the console's and the forms' own function or
loads the page again. The pages share nothing but the interval, so a behaviour stays on
one page, and only the search page explores the interval; on the others the refresh
comes at any time, which includes every timer.

**TableBuilder** is the table designer. `columns` is the list with its flags (partition
key, clustering key, static, indexed), `preview` the statements and the report shown,
`loops` the executions that go on, each with what is left to it. `generateCQL` is an
operator from the form to a sequence of statements; in mode "alter" one of them always
is the WITH clause, because two of the selects have no empty option. The form can be
changed under the dialog: a confirmation generates the statements again, and what the
dialog shows as text, a copy made when it was opened, is left out. The server is the table's
set of columns.

**KeyspaceBuilder** is the keyspace designer, alike: form, statement, dialog, the
request that deploys, the second and a half until the page is left. A keyspace whose
strategy the page does not know is loaded as a simple one of factor 3.

**SSTableSmasher** is the game and the dialog around it: stacks as sequences, `TurnOf`
in the order of the code (shadows, graces, the piece), a queue of chain steps for the
400 ms timers, which fire in the order they were set and outlive a pause and a game. A
step that fires in a pause, after the end or beyond `MAX_CHAIN` does nothing; `skipped`,
which is history, has its sector until the next look at it.

**Subsequences** has the two operators that Explorer, TopBar and SSTableSmasher take
parts of sequences with (filters and loops over arrays in the code): `Ascending`, the
elements of a finite set of numbers in their order, and `Subsequence`, what a sequence
has at those indexes. They count instead of recurring, so that they can be proved about.

**ReloadedPages** composes these three, under a refresh that loads the page again at
any step. `OldTable`, the table of mode "alter", never gets into the form: the page
that serves it and the script disagree about its shape (see below).

The operators named "As X, ..." in these modules are X with one plausible mistake;
no specification uses them. Each shows that a property fails when the code does.

## The runs

| run | module, configuration | asks | bounds |
|---|---|---|---|
| sessions | MCSessionManager, SessionManager | tables, orphans, double closing, refinement, release of the lock | 3 threads, 2 clusters, 2 connects |
| registry | MCClusterRegistry, ClusterRegistry | agreement, early eviction, stable configurations, what is found appears and what is gone goes | 3 names (static, both, discovered), 2 configurations, threshold 3 |
| cluster_sessions | MCClusterSessions, ClusterSessions | justified closing, sessions that match the registry, read-only, nothing open at exit | 2 clusters, 2 requests, 2 connects, threshold 1 |
| request_handlers | MCRequestHandlers, RequestHandlers | import: exact counts, no silent loss, an end; recovery: no unfinished task deleted, work under way after an approval | 5 rows, batches of 2, cap of 1 error, 3 shapes; 1 pod, 2 administrators, 3 seconds |
| explorer | MCExplorer, Explorer | grid and data, page and footer, edits and deletions by index | 3 rows, 2 to a page, 1 filter, 2 requests in flight, 3 deep |
| browser_tab | MCBrowserTab, BrowserTab | one timer; search, recovery dialogs and history that agree; the dashboard catches up | 3 intervals, 2 clusters, 2 queries, 2 jobs, 2 polls, 2 scripts, history of 2, 2 schemas, 2 files |
| reloaded_pages | MCReloadedPages, ReloadedPages | exclusive flags, statements that follow forms, executions as confirmed, runs and victims | 4 edits, 3 changes, 2 sectors of 5, runs of 3, 5 drops, 1 stray timer |
| evicted_sessions, first_approval, deleted_row, dropped_file, lost_piece | | what the README, or a page's text, says and the code does not do | as above or smaller |

Why the bounds are enough. Two callers make a race for a cluster and a third can
shut it down meanwhile; two connects let a cluster be connected to again after it
was shut down, or two clusters be connected at once. A threshold of 3 has a count
in the middle, so that flapping, early and late eviction differ; in the
composition it is 1, its least value, where the registry's own run has shown the
counting. Five rows in batches of two leave a full batch, a batch cut short by an
error and a batch left over at the end, and a cap of one error is reached in the
middle of the file, with one error and with two. One pod is enough because tasks of
different pods never meet; three seconds let two approvals take different names
and the same one. Every connection is made at most once in a behaviour: the
number of connects is the bound on the length of the session manager's life, and
a `get` that finds none left waits.

Three rows in pages of two make a full page, a last page with one row and, after a
deletion, an empty one behind a state; the filter lets through rows of both pages; two
requests are the least that can be answered in the wrong order, and the third
would be sent from a state the first two can make. Two jobs are what two dialogs
can confuse; two scripts, one a suffix of the other, repeat statements, and overflow a
history of two. Four edits reach a column added, keyed, retyped and indexed or
removed again, a name typed twice, and an edit under a dialog or an execution.
Stacks of five, where three of a kind compact, have room for
a run and a shadow beside it; five drops bring two chains under way at once. The
numbers of the code (four of a kind, eight rows, twelve sectors, thirty statements)
change how long it takes to get there, not what can happen there.

Symmetry: connections and requests (ClusterSessions) and, in first_approval,
administrators are interchangeable, and those runs check no liveness.

Fairness. In SessionManager only that a thread that is connecting goes on, because
`generate_cluster_connection` gives the driver a connect timeout; nothing is assumed
about who gets a contended lock. In ClusterRegistry, that the loop keeps running, which
its `except` clause sees to, and, strongly, that scans succeed again and again: without
it a Kubernetes API that is unreachable for ever keeps everything registered. In
RequestHandlers, that an import's thread runs and each execution returns or times out;
of the recoveries nothing. In BrowserTab, that the dashboard's interval fires (weakly: a
browser slows the timers of a hidden tab, it does not stop them) and, strongly, that a
status request sent again and again is some time answered: each single one may fail. The
others assume none; their properties say what a step may not do.

The user clicks what is to be seen. On the recovery page and in the dialogs of the
table's page no handler looks whether a dialog is open; that none is opened from under
another is assumed there, because an open dialog's overlay covers the page.
`SelectionIsTheOneNamed` rests on it. The designers' handlers and the grid's are
modelled without that assumption; in the grid one edit or deletion goes on at a time,
which is a bound.

## What the runs found

Five runs show a disagreement between the code and what the repository says of it:

- `evicted_sessions`: the eviction shuts sessions down before the registry without
  the cluster is published, and a look-up may precede both: a session of an evicted
  cluster can be opened afterwards, and stays until the process ends.
- `first_approval`: the first approval of a pod without a task ends in an
  `UnboundLocalError`.
- `deleted_row`: the deletion dialog keeps a row's index; a refresh that is answered while
  it is open puts another row there, which is then deleted.
- `dropped_file`: a file dropped on the import dialog is named by it, but what the input
  holds is imported, an earlier choice or nothing.
- `lost_piece`: in the game, a piece dropped on a stack that loses a tile in the same turn
  is pushed on the old array, and gone.

Others that were met while modelling, and are in the models as the code has them, but
have no run of their own:

- A static cluster whose name a scan finds is rewritten as discovered, and
  evicted when scans stop finding it (`api/bootstrap.py:202`), against "Static clusters
  are never evicted" (`config/k8s_config.py:51`). The action properties of the registry
  and `StaticUntouched` say what does hold.
- The read-only flag is looked up by name at execution time: a request that still
  holds the session of a read-only cluster that was evicted may write through it
  (`core/cql/_executor.py:3` and `:49`). `ReadOnlyUnlessEvicted` shows that there is no
  other way for a statement that is recognised as a mutation.
- A statement whose first word is not in the list of mutations, as `BEGIN BATCH` or one
  after a comment, is executed without the read-only check (`core/cql/_executor.py:45`).
- A connect that raises after its `Cluster` is up leaves it open, out of reach of
  `shutdown` and `shutdown_all` (`core/session_manager.py:23`).
- The value of a saved cell is written, in the page's own copy, to the row that has the
  index when the answer arrives (`explorer.js:455`); that row's editor starts with it, its
  UPDATE statement is copied with it, and the next load of rows ends it.
- A deletion that failed cannot be confirmed again in the dialog that stays open,
  because the index is forgotten (`explorer.js:746`).
- A schema that cannot be stored leaves an older one for the next load of the console
  (`cqlsh.js:35`).
- The keyspace designer turns a strategy it does not know into SimpleStrategy with a factor
  of 3 (`dashboard_routes.py:213`, `keyspace-builder.js:247`).
- The failed count of an import counts errors, not rows (`csv_handler.py:130`, shown as
  rows by `explorer.js:661`).
- A pod can have two unfinished tasks: two approvals at once, or a deletion that
  failed (`pod_recovery.py:122`, against `:131`).
- The page that edits a table gets its columns as one list
  (`dashboard_routes.py:262-301`) where the script expects an object of lists
  (`table-builder.js:641`); it throws before it shows any column.
- The chip of ALLOW FILTERING has no remove button, and the script that looks for it
  throws before the rows are asked for (`explorer.js:149`); the server tells its user to
  enable that very flag (`data_routes.py:72`).
- `list_all_clusters` of the admin API reads the two dictionaries, so in the window
  between their assignments it shows a newly discovered cluster with the default
  metadata, as a static one.

## What is proved

Each proof module proves its theorems for every value of the constants, under the
assumptions named in the module it extends, by an inductive invariant `IInv`: the
properties themselves, and what they need to be inductive.

**SessionManagerProofs** (any number of clusters, connections and threads): `IInv` adds
that calls carry the names and sessions their steps use, that a closing thread holds both
objects of one connection that was made, and that
a connecting thread's cluster has no session: the last is what makes the check inside
the lock enough, and it is inductive only with the lock discipline. A leaked `Cluster`
is one whose session never was (`Leaked`): nobody stores or closes it, so that
`OrphansOnlyFromFailedConnect` can name all there is to be lost.
`ImplementsSharedConnections` follows from the same invariant, with one lemma per
action: every step is a step of SharedConnections or leaves its variables alone.

**ClusterRegistryProofs** (any names, configurations and threshold): `IInv` ties the
miss counts to the history (a count of m says that the last m successful scans
missed the cluster) and justifies every removal in the copies before they are
published.

**ClusterSessionsProofs** takes both by INSTANCE. Every step of the composition is a
step of the registry or leaves its variables, and likewise for the manager
(`Composes`), so that all that was proved of each holds in the composition. What its own
invariant adds is what crosses between them: the cluster a pass is closing
is one its publication will remove (`EvictedAreRemoved`, with which a closing is
justified by the registry's invariant), the session a request uses is of the name it
looked up (`HandsMatch`), and until a name is evicted every request and connection
made for it has the registered configuration (`ConfigsAgree`, from which both
`SessionUsesRegisteredConfig` and `ReadOnlyUnlessEvicted` follow: a request that has
passed the check holds no session of a read-only cluster, or the cluster was evicted).

**BulkImportProofs** (any file, batch size and cap): a row dealt with was counted,
waits in the batch or was given up, never two of these, so that adding a
batch's size to the count adds as many rows as it says. That an import without
errors is complete needs that the loop ends with the file or with an
error (`EndIsJustified`). The errors noted are at most two more than the cap.

**NodeRecoveryProofs** (any pods, administrators and time): between an approval's
look at a finished task and its deletion, others create and run tasks. It cannot be one
of them that is deleted because names are seconds: a finished task is of a past
second, and no creation under way has its name (`Past`). That an approval
is answered only with work under way, also when its name was taken, is from the
same invariant.

**SubsequencesProofs** is what the three modules below share. `Ascending` takes every
element of a finite set once, in ascending order (`AscendingFacts`): the number of
elements up to an element is a place from 1 to the cardinality, growing with the
element, and an injection of finite sets of one cardinality is onto.
`SubsequenceFacts`, `WholeSubsequence` and the facts about removal, `Front` and the
like follow. `LeastExists`, that a set of numbers has a least element, comes from the
well-foundedness of finite sets under strict inclusion, because the theorems of
induction take an operator, which the provers cannot instantiate.

**ExplorerProofs** (any rows, filters, page size and requests in flight): every handler
either leaves the rows shown and those indexed alone, or empties what is shown, or
replaces both together and closes the editor (`GridKept`, `GridEmptied`, `GridFilled`);
hence an index in an editor stays true, and one in a dialog or an update that is out
until the rows are replaced, which is recorded with it. As long as requests come one at
a time (`calm`) the page is in one of three phases: nothing is in flight, one page
request is, which holds the loading flag, or the Refresh button's is (`CalmPaging`). In
each of them the stack of paging states climbs, and a request names either its top, for
a grid that was emptied, or a state beyond it; hence the rows shown, the stack and the
buttons speak of one page (`PagingStays`). A page is a part of the keys in their order,
so that the rows are typed by `AscendingFacts`.

**BrowserPagesProofs** has the two compositions, `BrowserTab` and then `ReloadedPages`.

The timer and the recovery page's dialogs (any intervals and jobs): of every interval
there run as many timers as the one `timerId` names, which is what makes stopping it
stop all; a job that is selected on the recovery page is the one an open dialog names,
whichever of the two it is and whatever answers hide the other. Of the import dialog
types are proved; that it sends the file it names is what `dropped_file` refutes.

The search (any clusters, queries, matches and caps): the list is what
`filterResults` makes of the input and the index there is, an index that comes late
included, the highlight is in the list, and the ranking does not let another cluster's
items go before one's own of the same type. What is proved of `filterResults` is what a
part of a sequence keeps, by its ranks and caps. The console (any scripts, any number of
them at once, any length of the history): a statement is added to a history without
repetition by being taken out of it first, which leaves it short enough; the
invariant relates the three copies of the history and, for each script, the statements
it has sent, and for those that failed what is still to be stored.

The table designer (any types, columns and number of edits): the preview is the
form's after each handler, so that what a confirmation generates again is what the
preview shows, and an execution's statements, with what it
has run, are the ones confirmed (`OneConfirmed`): hence success means all of them.
Default columns are assumed to agree in their flags, as the two of the code do
(`BuilderDefaults`). The keyspace designer (any finite set of datacenters, any factors):
the factors of the statement are those of the last datacenter listed under a name
(`LastOfFacts`), with which loading a keyspace's settings into the form and writing the
statement of the form gives these settings back (`UntouchedChangesNothing`), if the
strategy is one of the two the page knows.

The game (a ring of any size, any heights, runs, graces and lengths of chains): a stack
is good if its ids are told apart, its tombstones have turns left, and a victim that is
there is right beneath its shadow (`GoodStack`). Whatever takes tiles away in their
order, puts in one tile with a fresh id, or makes a shadow forget its victim, keeps a stack
good (`DerivedIsGood`): compactions, merges, purges, repairs, expiries and shadows are
instances, and the landing of a piece is the other case. That a fresh id exists is
counting (`FreshIdFacts`). For the runs, a look at a stack leaves it alone or sets a step
(`CheckedFacts`), a turn that takes no tile changes no run (`SameRunsFacts`), and a step
that fires is followed by a look or recorded in `skipped`; `TurnFacts` puts the looks of
one turn together in the order of the code.

Assumptions: the lock's free value is no thread and the absent values are no
members of their sets; threads of requests are not the discovery thread; the static and
the discoverable clusters are clusters, their configurations differ from the absent one
and the static one from what scans build; the threshold is at least 1, as `K8sConfig`
validates; sizes and bounds are natural numbers, positive where the code's are, and a
run of the game has at least two tombstones; the keys of a table are finitely many
positive numbers; the default interval of the refresh is one of the choices and not off;
a script is statements, at least one, because of separators alone there is
nothing to run; types of columns include those the form starts with, and the default
columns have flags that agree; datacenters are finitely many, and factors include those
the form starts with. Every assumption is evaluated by TLC in the run of its module.

Every invariant, every action property and the refinement that a run checks is
proved. Only model-checked is liveness: `LockReleased`, `RegistryCatchesUp`,
`ImportEnds` and `DashboardCatchesUp`; the prover has no ENABLED and no fairness.

## What is not modelled

- The driver's own reconnection and metadata, HTTP itself and TLS, logging, response
  models and metrics, Helm charts, vendored libraries and tools, and drawing.
- The Kubernetes scan, beyond that it fails or finds any set of names with any
  configuration. One of several contexts that cannot be reached makes its clusters
  count as missed (`k8s_discovery.py:73`): such a scan is one of those sets.
- The server's schema map cache. A map built before a DDL statement can be written back
  after the statement invalidated the cache, and lives there for its minute
  (`cluster_routes.py:312`); CqlConsole has the same race at the other end.
- External tools: two runs in one namespace share a directory, and the first to end
  removes it under the other (`tools_routes.py:108`); what then happens is up to
  processes and files of the operating system.
- Values. A JSON row with the same number of columns as the first but other names is
  bound by position (`csv_handler.py:98`): BulkImport has the number only. A malformed
  line in the middle of a JSON file ends the import with an exception that carries no
  counts (`csv_handler.py:181`): BulkImport has it as `aborted`, about which
  nothing is promised.
- Cancelling takes the first task listed for the pod, which can be a finished one beside
  the one that runs (`pod_recovery.py:44`): NodeRecovery does so, and no document of
  the repository promises otherwise.
- Permissions, roles, login, schema comparison and converters: decisions about one
  request, without state, each with unit tests of its own.
- In the browser: the texts of the console's editor and results, the score, the queue
  and hold slot of the game, and pages that draw the answer to one request
  (`compare.js`, `vnodes.js`, `schema-graph.js`).
