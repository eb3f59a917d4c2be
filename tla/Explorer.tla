------------------------------ MODULE Explorer ------------------------------
(***************************************************************************)
(* The table explorer page (web/static/scripts/app/explorer.js): a grid of *)
(* one page of rows, filters, paging, cell edits and deletion.             *)
(* Handlers of the page run one at a time, but each await lets others run: *)
(* a click, an answer to an earlier request, a refresh by the timer.       *)
(*                                                                         *)
(* A row is its primary key.  A paging state is the key after which the    *)
(* next page starts, NoState for none.  Filters are a set: their order     *)
(* does not matter to a query, nor does ALLOW FILTERING to what it finds.  *)
(***************************************************************************)
EXTENDS Naturals, FiniteSets, Sequences, SequencesExt, Subsequences

CONSTANTS
    Keys,         \* primary keys, in token order
    PageSize,     \* rows of a page (100 in the route)
    Filters,      \* filters a user may add
    Matching,     \* for each filter the keys whose rows it lets through
    MaxRequests,  \* bound: page requests, and POSTs of the Refresh button, in flight
    MaxStack      \* bound: depth of pagingStack a user goes to

NoState == 0
NoKey == 0

ASSUME KeysAssumption == Keys \subseteq Nat \ {0} /\ IsFiniteSet(Keys)
ASSUME SizesAssumption == PageSize \in Nat \ {0} /\ MaxRequests \in Nat \ {0} /\ MaxStack \in Nat
ASSUME MatchingAssumption == Matching \in [Filters -> SUBSET Keys]

VARIABLES
    table,          \* Cassandra: the keys that have a row
    currentData,    \* rows of the last page that had any
    body,           \* what tableBody shows, and the request it answers
    pagingStack,    \* paging states of the pages up to this one
    nextPagingState,
    isFetching,
    requests,       \* page requests in flight
    buttons,        \* which of Previous and Next are enabled
    activeFilters,
    allow,          \* explicitAllowFiltering
    refreshing,     \* POSTs of the Refresh button in flight
    editor,         \* index of the row with an open cell editor, 0 for none
    put,            \* the update in flight: its key, and the index its answer goes to
    misplaced,      \* a row of currentData was given a value saved to another row
    dialog,         \* deletion dialog: open, deletingRowIndex, the key it names
    deletion,       \* key of the deletion in flight
    calm            \* history: requests came one at a time, none failed, no exception left a handler

paging == <<currentData, body, pagingStack, nextPagingState, isFetching, requests, buttons>>
query == <<activeFilters, allow>>
rowOps == <<put, misplaced, dialog, deletion>>
vars == <<table, paging, query, refreshing, editor, rowOps, calm>>

State == Keys \cup {NoState}
Page == UNION {[1..n -> Keys] : n \in 0..PageSize}
Request == [dir: {"next", "prev"}, state: State, filters: SUBSET Filters]
Answered == [state: State, filters: SUBSET Filters]
NoAnswer == [state |-> NoState, filters |-> {}]
NoRequest == [dir |-> "next", state |-> NoState, filters |-> {}]
Body == [kind: {"rows", "none", "error", "cleared"}, keys: Seq(Keys), answers: Answered]
Cleared == [kind |-> "cleared", keys |-> <<>>, answers |-> NoAnswer]
NoPut == [key |-> NoKey, index |-> 0, reloaded |-> FALSE]
NoDialog == [open |-> FALSE, index |-> 0, key |-> NoKey, reloaded |-> FALSE]

TypeOK ==
    /\ table \subseteq Keys
    /\ currentData \in Page
    /\ body \in Body
    /\ pagingStack \in Seq(State)
    /\ nextPagingState \in State
    /\ isFetching \in BOOLEAN
    /\ requests \in Seq(Request) /\ Len(requests) <= MaxRequests
    /\ buttons \in [prev: BOOLEAN, next: BOOLEAN]
    /\ activeFilters \subseteq Filters
    /\ allow \in BOOLEAN /\ refreshing \in 0..MaxRequests
    /\ editor \in 0..PageSize
    /\ put \in [key: Keys, index: 1..PageSize, reloaded: BOOLEAN] \cup {NoPut}
    /\ misplaced \in BOOLEAN
    /\ deletion \in Keys \cup {NoKey}
    /\ dialog \in [open: BOOLEAN, index: 0..PageSize, key: Keys \cup {NoKey}, reloaded: BOOLEAN]
    /\ calm \in BOOLEAN

(***************************************************************************)
(* fetchData, up to its await, with the paging stack and the next state    *)
(* its caller leaves.                                                      *)
(***************************************************************************)
Dropped(dir, next) == isFetching /\ dir = "next" /\ next = NoState

Popped(stack) == IF stack = <<>> THEN <<>> ELSE Front(stack)

\* As StateToUse, the state being read before the stack is popped.
StateToUseUnpopped(dir, stack, next) ==
    CASE dir = "next" -> next
      [] dir = "prev" /\ Len(stack) > 1 -> Last(stack)
      [] OTHER -> NoState

StateToUse(dir, stack, next) ==
    CASE dir = "next" -> next
      [] dir = "prev" /\ Len(stack) > 1 -> Last(Popped(stack))
      [] OTHER -> NoState

SendFetch(dir, stack, next) ==
    /\ ~Dropped(dir, next)
    /\ Len(requests) + refreshing' < MaxRequests
    /\ requests' = Append(requests,
           [dir |-> dir, state |-> StateToUse(dir, stack, next), filters |-> activeFilters'])
    /\ isFetching' = TRUE
    /\ IF dir = "next" /\ next # NoState
       THEN UNCHANGED <<body, editor>>
       ELSE body' = Cleared /\ editor' = 0
    /\ pagingStack' = IF dir = "prev" THEN Popped(stack) ELSE stack

DropFetch(dir, stack, next) ==
    /\ Dropped(dir, next)
    /\ pagingStack' = stack
    /\ UNCHANGED <<requests, isFetching, body, editor>>

fetchData(dir, stack, next) ==
    /\ SendFetch(dir, stack, next) \/ DropFetch(dir, stack, next)
    /\ nextPagingState' = next
    /\ calm' = (calm /\ ~isFetching /\ refreshing' = 0)
    /\ UNCHANGED <<currentData, buttons>>

(***************************************************************************)
(* refreshAndFetch.  With ALLOW FILTERING on, renderChips looks for the    *)
(* remove button of a filter in the chip of the flag, which has none, and  *)
(* the exception leaves refreshAndFetch before anything is reset.          *)
(***************************************************************************)
renderChipsThrows == allow'

refreshAndFetch ==
    \/ /\ renderChipsThrows
       /\ calm' = FALSE
       /\ UNCHANGED <<paging, editor>>
    \/ /\ ~renderChipsThrows
       /\ fetchData("next", <<NoState>>, NoState)

Init ==
    /\ table = Keys
    /\ currentData = <<>>
    /\ body = Cleared
    /\ pagingStack = <<NoState>>
    /\ nextPagingState = NoState
    /\ isFetching = TRUE
    /\ requests = <<NoRequest>>
    /\ buttons = [prev |-> FALSE, next |-> TRUE]
    /\ activeFilters = {}
    /\ allow = FALSE
    /\ refreshing = 0
    /\ editor = 0
    /\ put = NoPut
    /\ misplaced = FALSE
    /\ dialog = NoDialog
    /\ deletion = NoKey
    /\ calm = TRUE

(***************************************************************************)
(* The answer to a page request.  The route reads the first PageSize rows  *)
(* after the state; the driver has a next state when rows are left, and    *)
(* may have one when the page is just full.                                *)
(***************************************************************************)
Found(req) ==
    {k \in table : /\ k > req.state
                   /\ \A f \in req.filters : k \in Matching[f]}

RowsOf(req) ==
    LET keys == Ascending(Found(req))
    IN SubSeq(keys, 1, IF Len(keys) < PageSize THEN Len(keys) ELSE PageSize)

NextStates(req) ==
    LET rows == RowsOf(req)
        left == Cardinality(Found(req)) - Len(rows)
    IN IF Len(rows) < PageSize THEN {NoState}
       ELSE {Last(rows)} \cup (IF left = 0 THEN {NoState} ELSE {})

updatePaginationUI ==
    buttons' = [prev |-> Len(pagingStack') > 1, next |-> nextPagingState' # NoState]

\* The rows under an open deletion dialog, or an update, may now be others;
\* they are as they were fetched.
Reloaded ==
    /\ dialog' = [dialog EXCEPT !.reloaded = dialog.open]
    /\ put' = IF put = NoPut THEN NoPut ELSE [put EXCEPT !.reloaded = TRUE]
    /\ misplaced' = FALSE

\* As ShowRows, but a cell being edited is not disturbed.
ShowRowsSparingEditor(req, rows) ==
    /\ currentData' = rows
    /\ IF editor # 0
       THEN UNCHANGED <<body, editor>>
       ELSE /\ body' = [kind |-> "rows", keys |-> rows,
                        answers |-> [state |-> req.state, filters |-> req.filters]]
            /\ editor' = 0
    /\ Reloaded

ShowRows(req, rows) ==
    /\ currentData' = rows
    /\ body' = [kind |-> "rows", keys |-> rows,
              answers |-> [state |-> req.state, filters |-> req.filters]]
    /\ editor' = 0
    /\ Reloaded

PageArrives(req, rows, next) ==
    /\ rows # <<>>
    /\ nextPagingState' = next
    /\ pagingStack' = IF req.dir = "next" /\ req.state # NoState
                      THEN Append(pagingStack, req.state) ELSE pagingStack
    /\ ShowRows(req, rows)

DeadEnd(req) == req.dir = "next" /\ Len(pagingStack) > 1 /\ req.state # NoState

\* As EmptyPageArrives, but currentData takes the page before it is looked at.
EmptyPageTaken(req, rows) ==
    /\ rows = <<>>
    /\ nextPagingState' = NoState
    /\ IF DeadEnd(req)
       THEN UNCHANGED <<body, editor>>
       ELSE body' = [Cleared EXCEPT !.kind = "none"] /\ editor' = 0
    /\ currentData' = rows
    /\ UNCHANGED <<pagingStack, put, misplaced, dialog>>

EmptyPageArrives(req, rows) ==
    /\ rows = <<>>
    /\ nextPagingState' = NoState
    /\ IF DeadEnd(req)
       THEN UNCHANGED <<body, editor>>
       ELSE body' = [Cleared EXCEPT !.kind = "none"] /\ editor' = 0
    /\ UNCHANGED <<currentData, pagingStack, put, misplaced, dialog>>

RemoveRequest(i) ==
    /\ requests' = RemoveAt(requests, i)
    /\ isFetching' = FALSE
    /\ UNCHANGED <<table, query, refreshing, deletion>>

FetchSucceeds(i) ==
    /\ \E next \in NextStates(requests[i]) :
          \/ PageArrives(requests[i], RowsOf(requests[i]), next)
          \/ EmptyPageArrives(requests[i], RowsOf(requests[i]))
    /\ updatePaginationUI
    /\ RemoveRequest(i)
    /\ UNCHANGED calm

FetchFails(i) ==
    /\ body' = [Cleared EXCEPT !.kind = "error"]
    /\ editor' = 0
    /\ RemoveRequest(i)
    /\ calm' = FALSE
    /\ UNCHANGED <<currentData, pagingStack, nextPagingState, buttons, put, misplaced, dialog>>

(***************************************************************************)
(* Paging, filters, refreshes.                                             *)
(***************************************************************************)
NextPage ==
    /\ buttons.next
    /\ Len(pagingStack) + Len(requests) < MaxStack
    /\ UNCHANGED <<table, query, refreshing, rowOps>>
    /\ fetchData("next", pagingStack, nextPagingState)

PrevPage ==
    /\ buttons.prev
    /\ UNCHANGED <<table, query, refreshing, rowOps>>
    /\ fetchData("prev", pagingStack, nextPagingState)

\* Submitting the popover: a filter added, or one put in the place of the one
\* being edited, and the box for ALLOW FILTERING as the user left it.
SubmitFilter ==
    /\ \E added \in {{}} \cup {{f} : f \in Filters}, checked \in BOOLEAN :
          /\ added # {} \/ checked # allow
          /\ allow' = checked
          /\ \E edited \in {{}} \cup (IF added = {} THEN {} ELSE {{f} : f \in activeFilters}) :
                activeFilters' = (activeFilters \ edited) \cup added
    /\ UNCHANGED <<table, refreshing, rowOps>>
    /\ refreshAndFetch

RemoveFilter(f) ==
    /\ f \in activeFilters
    /\ activeFilters' = activeFilters \ {f}
    /\ UNCHANGED <<table, allow, refreshing, rowOps>>
    /\ refreshAndFetch

RemoveFilteringFlag ==
    /\ allow
    /\ allow' = FALSE
    /\ UNCHANGED <<table, activeFilters, refreshing, rowOps>>
    /\ refreshAndFetch

\* The timer of the auto-refresh widget calls window.cassanovaRefresh, whatever
\* is open on the page.
cassanovaRefresh ==
    /\ UNCHANGED <<table, query, refreshing, rowOps>>
    /\ refreshAndFetch

\* The Refresh button resets the paging, waits for the server to drop its
\* schema cache, and only then fetches.
ClickRefresh ==
    /\ Len(requests) + refreshing < MaxRequests
    /\ refreshing' = refreshing + 1
    /\ pagingStack' = <<NoState>>
    /\ nextPagingState' = NoState
    /\ calm' = (calm /\ ~isFetching /\ refreshing = 0)
    /\ UNCHANGED <<table, currentData, body, isFetching, requests, buttons, query, editor,
                   rowOps>>

RefreshAnswered ==
    /\ refreshing > 0
    /\ refreshing' = refreshing - 1
    /\ UNCHANGED <<table, query, rowOps>>
    /\ fetchData("next", pagingStack, nextPagingState)

(***************************************************************************)
(* Cell edits.  Rendering removes an open editor with its cell; until then *)
(* Enter may be pressed in it.  An update is an upsert.  When it is        *)
(* answered the value goes to the row that has the index by then, and to   *)
(* the cell that was edited, which shows nothing once it is rendered anew. *)
(***************************************************************************)
\* As StartEditing, but the index counts the header row.
StartEditingBelow(i) ==
    /\ ~dialog.open /\ deletion = NoKey
    /\ i \in DOMAIN body.keys /\ i \in DOMAIN currentData
    /\ editor' = i + 1
    /\ UNCHANGED <<table, paging, query, refreshing, rowOps, calm>>

StartEditing(i) ==
    /\ ~dialog.open /\ deletion = NoKey    \* bound: edits and deletions take turns
    /\ i \in DOMAIN body.keys /\ i \in DOMAIN currentData
    /\ editor' = i
    /\ UNCHANGED <<table, paging, query, refreshing, rowOps, calm>>

CancelEdit ==
    /\ editor # 0
    /\ editor' = 0
    /\ UNCHANGED <<table, paging, query, refreshing, rowOps, calm>>

SaveEdit ==
    /\ editor # 0 /\ editor \in DOMAIN currentData
    /\ put = NoPut                         \* bound: one update in flight
    /\ put' = [key |-> currentData[editor], index |-> editor, reloaded |-> FALSE]
    /\ UNCHANGED <<table, paging, query, refreshing, editor, misplaced, dialog, deletion, calm>>

\* The editor that is open may be the saved cell's, or another's.
EditAnswered(ok) ==
    /\ put # NoPut
    /\ table' = IF ok THEN table \cup {put.key} ELSE table
    /\ misplaced' = \/ misplaced
                    \/ /\ ok /\ put.index \in DOMAIN currentData
                       /\ currentData[put.index] # put.key
    /\ put' = NoPut
    /\ editor' \in {0, editor}
    /\ UNCHANGED <<paging, query, refreshing, dialog, deletion, calm>>

(***************************************************************************)
(* Deletion.  The dialog is opened from a row's button, or from a context  *)
(* menu that may have been opened before the rows were replaced; it names  *)
(* the key of the row at the index, and keeps the index.                   *)
(***************************************************************************)
confirmDeletion(i) ==
    /\ put = NoPut /\ editor = 0 /\ deletion = NoKey  \* bound: as StartEditing, one at a time
    /\ i \in DOMAIN currentData
    /\ dialog' = [open |-> TRUE, index |-> i, key |-> currentData[i], reloaded |-> FALSE]
    /\ UNCHANGED <<table, paging, query, refreshing, editor, put, misplaced, deletion, calm>>

CloseDialog ==
    /\ dialog.open
    /\ dialog' = NoDialog
    /\ UNCHANGED <<table, paging, query, refreshing, editor, put, misplaced, deletion, calm>>

ConfirmDelete ==
    /\ dialog.open /\ deletion = NoKey
    /\ dialog.index \in DOMAIN currentData
    /\ deletion' = currentData[dialog.index]
    /\ UNCHANGED <<table, paging, query, refreshing, editor, put, misplaced, dialog, calm>>

DeleteSucceeds ==
    /\ deletion # NoKey
    /\ table' = table \ {deletion}
    /\ dialog' = NoDialog
    /\ deletion' = NoKey
    /\ UNCHANGED <<query, refreshing, put, misplaced>>
    /\ refreshAndFetch

DeleteFails ==
    /\ deletion # NoKey
    /\ dialog' = [NoDialog EXCEPT !.open = dialog.open]
    /\ deletion' = NoKey
    /\ UNCHANGED <<table, paging, query, refreshing, editor, put, misplaced, calm>>

\* A row inserted, or a file imported, by the dialogs of RowForms.
RowsAdded(k) ==
    /\ k \notin table
    /\ table' = table \cup {k}
    /\ UNCHANGED <<query, refreshing, rowOps>>
    /\ refreshAndFetch

Answer == \E i \in 1..MaxRequests :
    i \in DOMAIN requests /\ (FetchSucceeds(i) \/ FetchFails(i))

Next ==
    \/ Answer \/ NextPage \/ PrevPage
    \/ SubmitFilter \/ RemoveFilteringFlag \/ \E f \in Filters : RemoveFilter(f)
    \/ cassanovaRefresh \/ ClickRefresh \/ RefreshAnswered
    \/ CancelEdit \/ SaveEdit \/ \E ok \in BOOLEAN : EditAnswered(ok)
    \/ \E i \in 1..PageSize : StartEditing(i) \/ confirmDeletion(i)
    \/ CloseDialog \/ ConfirmDelete \/ DeleteSucceeds \/ DeleteFails
    \/ \E k \in Keys : RowsAdded(k)

Spec == Init /\ [][Next]_vars

(***************************************************************************)
(* Properties                                                              *)
(***************************************************************************)

\* An update goes to the row in whose cell it was typed: the rows the cells
\* show and currentData, which the handlers index, are replaced together,
\* whichever answer comes last.  The value saved is then written into another
\* row of currentData only if the grid was reloaded in the meantime: its answer
\* looks the index up again (renderTable, saveEdit).
EditHitsItsRow ==
    [][/\ put = NoPut /\ put' # NoPut => put'.key = body.keys[editor]
       /\ misplaced' => misplaced \/ put.reloaded]_vars

\* The rows that can be edited are the ones the handlers look up, and the index
\* an update keeps is the one of its row, unless the grid was reloaded meanwhile
\* (renderTable, saveEdit).
BodyMatchesData ==
    /\ body.keys = <<>> \/ body.keys = currentData
    /\ put # NoPut /\ ~put.reloaded =>
          put.index \in DOMAIN currentData /\ currentData[put.index] = put.key

\* When nothing is loading, the rows on display answer a request with the
\* filters the chips name and the state of the page the footer names, unless
\* a click or a refresh came while a request was out, a request failed (the
\* buttons are then those of another page), or ALLOW FILTERING was on
\* (fetchData, refreshAndFetch, updatePaginationUI).
PageIsTheOneNamed ==
    calm /\ requests = <<>> /\ refreshing = 0 /\ body.kind = "rows" =>
        /\ body.answers.filters = activeFilters
        /\ pagingStack # <<>>
        /\ body.answers.state = Last(pagingStack)
        /\ Head(pagingStack) = NoState
        /\ \A i \in 1..Len(pagingStack) - 1 : pagingStack[i] < pagingStack[i + 1]

\* A row is deleted only as confirmed, unless the grid was reloaded under the
\* dialog, which keeps the index of the row and not its key (confirmDeletion).
DeletesConfirmedUnlessReloaded ==
    dialog.open /\ ~dialog.reloaded /\ dialog.index # 0 =>
        dialog.index \in DOMAIN currentData /\ currentData[dialog.index] = dialog.key

\* The guard against overlapping requests is never left closed: whatever way a
\* request ends, a refresh is dropped only while one is out (fetchData).
GuardHeldByRequest == isFetching => requests # <<>>

\* Paging hangs together: pages are named right and the guard is given back.
PagingAgrees == PageIsTheOneNamed /\ GuardHeldByRequest

\* The row that is deleted is the one the dialog named: "Are you sure you want
\* to delete this row?" (explorer.html:159).
DeletesConfirmed == [][deletion' \notin {NoKey, deletion} => deletion' = dialog.key]_vars

=============================================================================
