---------------------------- MODULE ExplorerProofs ----------------------------
(***************************************************************************)
(* Theorems about Explorer, for any rows, filters and page size, and any   *)
(* number of page requests in flight: the index of a row, which is all the *)
(* handlers keep of it, still means the row it was taken from.             *)
(***************************************************************************)
EXTENDS Explorer, SubsequencesProofs

(* A cell editor stands in a row of the grid, and the grid then shows the  *)
(* rows the handlers index.                                                *)
EditorInGrid == editor # 0 => body.keys = currentData /\ editor \in DOMAIN currentData

DialogIsRecord ==
    dialog = [open |-> dialog.open, index |-> dialog.index, key |-> dialog.key,
              reloaded |-> dialog.reloaded]

PutIsRecord == put = [key |-> put.key, index |-> put.index, reloaded |-> put.reloaded]

IInv ==
    /\ BodyMatchesData /\ EditorInGrid
    /\ PutIsRecord /\ DialogIsRecord /\ DeletesConfirmedUnlessReloaded

(* What a step may do to the grid: leave it, empty it, or fill it from one *)
(* answer; only the latter replaces the rows.                              *)
GridKept == UNCHANGED <<currentData, body>> /\ editor' \in {0, editor}
GridEmptied == UNCHANGED currentData /\ body'.keys = <<>> /\ editor' = 0
GridFilled == body'.keys = currentData' /\ editor' = 0 /\ Reloaded

(* What a step that does not fill the grid may do to an update.            *)
PutKept == put' \in {put, NoPut}

-------------------------------------------------------------------------------
LEMMA InitInvariant == Init => IInv
  BY DEF Init, IInv, BodyMatchesData, EditorInGrid, PutIsRecord, DialogIsRecord,
         DeletesConfirmedUnlessReloaded, Cleared, NoPut, NoDialog

(* A fetch that is sent, or dropped, and the refresh that leads to one. *)
LEMMA FetchEffect ==
    ASSUME \/ \E dir, stack, next : fetchData(dir, stack, next)
           \/ refreshAndFetch
    PROVE  GridKept \/ GridEmptied
<1>1. ASSUME NEW dir, NEW stack, NEW next, fetchData(dir, stack, next)
      PROVE  GridKept \/ GridEmptied
  BY <1>1 DEF fetchData, SendFetch, DropFetch, GridKept, GridEmptied, Cleared
<1>2. CASE renderChipsThrows /\ UNCHANGED <<paging, editor>>
  BY <1>2 DEF paging, GridKept
<1> QED
  BY <1>1, <1>2 DEF refreshAndFetch

LEMMA AnswerEffect ==
    ASSUME NEW i, FetchSucceeds(i) \/ FetchFails(i)
    PROVE  \/ GridFilled
           \/ (GridKept \/ GridEmptied) /\ UNCHANGED <<put, misplaced, dialog>>
<1>1. CASE FetchFails(i)
  BY <1>1 DEF FetchFails, GridEmptied, Cleared
<1>2. CASE FetchSucceeds(i)
  <2>1. PICK next : \/ PageArrives(requests[i], RowsOf(requests[i]), next)
                    \/ EmptyPageArrives(requests[i], RowsOf(requests[i]))
    BY <1>2 DEF FetchSucceeds
  <2>2. CASE PageArrives(requests[i], RowsOf(requests[i]), next)
    BY <2>2 DEF PageArrives, ShowRows, GridFilled
  <2>3. CASE EmptyPageArrives(requests[i], RowsOf(requests[i]))
    BY <2>3 DEF EmptyPageArrives, GridKept, GridEmptied, Cleared
  <2> QED
    BY <2>1, <2>2, <2>3
<1> QED
  BY <1>1, <1>2

(* What asks for a page, or starts again, spares the row operations. *)
LEMMA PagingEffect ==
    ASSUME \/ NextPage \/ PrevPage \/ SubmitFilter \/ RemoveFilteringFlag
           \/ \E f \in Filters : RemoveFilter(f)
           \/ cassanovaRefresh \/ ClickRefresh \/ RefreshAnswered
           \/ \E k \in Keys : RowsAdded(k)
    PROVE  (GridKept \/ GridEmptied) /\ UNCHANGED rowOps
<1>1. CASE ClickRefresh
  BY <1>1 DEF ClickRefresh, rowOps, GridKept
<1>2. CASE \/ NextPage \/ PrevPage \/ RefreshAnswered
  BY <1>2, FetchEffect DEF NextPage, PrevPage, RefreshAnswered
<1>3. CASE \/ SubmitFilter \/ RemoveFilteringFlag \/ cassanovaRefresh
           \/ \E f \in Filters : RemoveFilter(f)
           \/ \E k \in Keys : RowsAdded(k)
  BY <1>3, FetchEffect DEF SubmitFilter, RemoveFilteringFlag, cassanovaRefresh, RemoveFilter,
                           RowsAdded
<1> QED
  BY <1>1, <1>2, <1>3

(* From the effect on the grid, on the update in flight and on the dialog, *)
(* to the invariant.                                                       *)
LEMMA GridInvariant ==
    ASSUME IInv,
           \/ GridFilled
           \/ /\ GridKept \/ GridEmptied
              /\ PutKept
              /\ \/ UNCHANGED dialog
                 \/ dialog' = NoDialog \/ dialog' = [NoDialog EXCEPT !.open = dialog.open]
    PROVE  IInv'
<1>1. EditorInGrid' /\ (body'.keys = <<>> \/ body'.keys = currentData')
  BY DEF IInv, BodyMatchesData, EditorInGrid, GridKept, GridEmptied, GridFilled
<1>2. CASE GridFilled
  <2>1. /\ dialog' = [dialog EXCEPT !.reloaded = dialog.open]
        /\ put' = IF put = NoPut THEN NoPut ELSE [put EXCEPT !.reloaded = TRUE]
    BY <1>2 DEF GridFilled, Reloaded
  <2>2. dialog' = [open |-> dialog.open, index |-> dialog.index, key |-> dialog.key,
                   reloaded |-> dialog.open]
    BY <2>1 DEF IInv, DialogIsRecord
  <2>3. put' = NoPut \/ put' = [key |-> put.key, index |-> put.index, reloaded |-> TRUE]
    BY <2>1 DEF IInv, PutIsRecord
  <2>4. PutIsRecord' /\ (put' # NoPut => put'.reloaded)
    BY <2>3 DEF PutIsRecord, NoPut
  <2> QED
    BY <1>1, <2>2, <2>4 DEF IInv, BodyMatchesData, DialogIsRecord,
                            DeletesConfirmedUnlessReloaded
<1>3. CASE UNCHANGED currentData /\ PutKept
  <2>1. BodyMatchesData' /\ PutIsRecord'
    BY <1>1, <1>3 DEF IInv, BodyMatchesData, PutIsRecord, PutKept, NoPut
  <2>2. CASE UNCHANGED dialog
    BY <1>1, <1>3, <2>1, <2>2 DEF IInv, DialogIsRecord, DeletesConfirmedUnlessReloaded
  <2>3. CASE dialog' = NoDialog \/ dialog' = [NoDialog EXCEPT !.open = dialog.open]
    <3>1. \/ dialog' = NoDialog
          \/ dialog' = [open |-> dialog.open, index |-> 0, key |-> NoKey, reloaded |-> FALSE]
      BY <2>3 DEF NoDialog
    <3> QED
      BY <1>1, <2>1, <3>1 DEF IInv, DialogIsRecord, DeletesConfirmedUnlessReloaded, NoDialog
  <2>4. CASE GridFilled
    BY <1>2, <2>4
  <2> QED
    BY <2>2, <2>3, <2>4
<1> QED
  BY <1>2, <1>3 DEF GridKept, GridEmptied

LEMMA StepInvariant == IInv /\ [Next]_vars => IInv'
<1> SUFFICES ASSUME IInv, [Next]_vars PROVE IInv'
  OBVIOUS
<1>1. CASE UNCHANGED vars
  <2>1. GridKept /\ PutKept /\ UNCHANGED dialog
    BY <1>1 DEF vars, paging, rowOps, GridKept, PutKept
  <2> QED
    BY <2>1, GridInvariant
<1>2. CASE Answer
  BY <1>2, AnswerEffect, GridInvariant DEF Answer, PutKept
<1>3. CASE \/ NextPage \/ PrevPage \/ SubmitFilter \/ RemoveFilteringFlag
           \/ \E f \in Filters : RemoveFilter(f)
           \/ cassanovaRefresh \/ ClickRefresh \/ RefreshAnswered
           \/ \E k \in Keys : RowsAdded(k)
  BY <1>3, PagingEffect, GridInvariant DEF rowOps, PutKept
<1>4. CASE CancelEdit \/ \E ok \in BOOLEAN : EditAnswered(ok)
  <2>1. GridKept /\ PutKept /\ UNCHANGED dialog
    BY <1>4 DEF CancelEdit, EditAnswered, paging, rowOps, GridKept, PutKept
  <2> QED
    BY <2>1, GridInvariant
<1>5. CASE SaveEdit
  BY <1>5 DEF SaveEdit, paging, IInv, BodyMatchesData, EditorInGrid, PutIsRecord,
              DialogIsRecord, DeletesConfirmedUnlessReloaded
<1>6. ASSUME NEW i \in 1..PageSize, StartEditing(i) PROVE IInv'
  <2>1. body.keys = currentData
    BY <1>6 DEF StartEditing, IInv, BodyMatchesData
  <2> QED
    BY <1>6, <2>1 DEF StartEditing, paging, rowOps, IInv, BodyMatchesData, EditorInGrid,
                      PutIsRecord, DialogIsRecord, DeletesConfirmedUnlessReloaded
<1>7. ASSUME NEW i \in 1..PageSize, confirmDeletion(i) PROVE IInv'
  BY <1>7 DEF confirmDeletion, paging, IInv, BodyMatchesData, EditorInGrid, PutIsRecord,
              DialogIsRecord, DeletesConfirmedUnlessReloaded
<1>8. CASE CloseDialog \/ ConfirmDelete \/ DeleteFails
  <2>1. /\ GridKept /\ PutKept
        /\ \/ UNCHANGED dialog
           \/ dialog' = NoDialog \/ dialog' = [NoDialog EXCEPT !.open = dialog.open]
    BY <1>8 DEF CloseDialog, ConfirmDelete, DeleteFails, paging, GridKept, PutKept
  <2> QED
    BY <2>1, GridInvariant
<1>9. CASE DeleteSucceeds
  BY <1>9, FetchEffect, GridInvariant DEF DeleteSucceeds, PutKept
<1> QED
  BY <1>1, <1>2, <1>3, <1>4, <1>5, <1>6, <1>7, <1>8, <1>9 DEF Next

-------------------------------------------------------------------------------
(* The invariant holds in every reachable state. *)
THEOREM Invariance == Spec => []IInv
  BY InitInvariant, StepInvariant, PTL DEF Spec

(* The cells show the rows the handlers index, or nothing; and an update   *)
(* that is out keeps the index of its own row, unless the grid was         *)
(* reloaded under it.                                                      *)
THEOREM GridIsIndexed == Spec => []BodyMatchesData
<1>1. IInv => BodyMatchesData
  BY DEF IInv
<1> QED
  BY Invariance, <1>1, PTL

(* Unless the grid was reloaded under the dialog, the index it keeps is    *)
(* the one of the row it names.                                            *)
THEOREM DeletionIsNamed == Spec => []DeletesConfirmedUnlessReloaded
<1>1. IInv => DeletesConfirmedUnlessReloaded
  BY DEF IInv
<1> QED
  BY Invariance, <1>1, PTL

(* An update goes to the row in whose cell it was typed, and its value is  *)
(* written to another only if the grid was reloaded under the update.      *)
THEOREM EditIsAimed == Spec => EditHitsItsRow
<1> DEFINE Aimed ==
        /\ put = NoPut /\ put' # NoPut => put'.key = body.keys[editor]
        /\ misplaced' => misplaced \/ put.reloaded
<1>1. IInv /\ [Next]_vars => [Aimed]_vars
  <2> SUFFICES ASSUME IInv, Next PROVE Aimed
    OBVIOUS
  <2>1. CASE SaveEdit
    BY <2>1 DEF SaveEdit, IInv, EditorInGrid
  <2>2. ASSUME NEW ok \in BOOLEAN, EditAnswered(ok) PROVE Aimed
    BY <2>2 DEF EditAnswered, IInv, BodyMatchesData
  <2>3. CASE Answer
    <3>1. PICK i \in DOMAIN requests : FetchSucceeds(i) \/ FetchFails(i)
      BY <2>3 DEF Answer
    <3>2. CASE UNCHANGED <<put, misplaced>>
      BY <3>2
    <3>3. CASE GridFilled
      <4>1. /\ put' = IF put = NoPut THEN NoPut ELSE [put EXCEPT !.reloaded = TRUE]
            /\ misplaced' = FALSE
        BY <3>3 DEF GridFilled, Reloaded
      <4>2. CASE put = NoPut
        BY <4>1, <4>2 DEF NoPut
      <4> QED
        BY <4>1, <4>2
    <3> QED
      BY <3>1, <3>2, <3>3, AnswerEffect
  <2>4. ASSUME UNCHANGED put, UNCHANGED misplaced PROVE Aimed
    BY <2>4
  <2> QED
    BY <2>1, <2>2, <2>3, <2>4, PagingEffect
       DEF Next, rowOps, CancelEdit, StartEditing, confirmDeletion, CloseDialog,
           ConfirmDelete, DeleteSucceeds, DeleteFails
<1> QED
  BY Invariance, <1>1, PTL DEF Spec, EditHitsItsRow

-------------------------------------------------------------------------------
(* The rows of an answer: from the first of those the query finds, in the  *)
(* order of their keys.                                                    *)
LEMMA RowsFacts ==
    ASSUME table \subseteq Keys, NEW req \in Request
    PROVE  /\ RowsOf(req) \in Page /\ Len(RowsOf(req)) \in 0..PageSize
           /\ RowsOf(req) \in Seq(Keys)
           /\ \A k \in 1..Len(RowsOf(req)) : RowsOf(req)[k] \in Found(req)
<1> DEFINE found == Found(req)
           keys == Ascending(found)
           n == IF Len(keys) < PageSize THEN Len(keys) ELSE PageSize
<1>1. found \in SUBSET Keys /\ found \in SUBSET Nat
  BY KeysAssumption DEF Found
<1>2. IsFiniteSet(found)
  BY <1>1, KeysAssumption, FS_Subset
<1>3. Cardinality(found) \in Nat /\ keys \in [1..Cardinality(found) -> found]
  BY <1>1, <1>2, AscendingFacts
<1>4. keys \in Seq(found) /\ Len(keys) = Cardinality(found)
  <2> HIDE DEF found, keys
  <2> QED
    BY <1>3
<1>5. n \in 0..PageSize /\ n <= Len(keys)
  BY <1>3, <1>4, SizesAssumption
<1>6. /\ SubSeq(keys, 1, n) \in Seq(found) /\ Len(SubSeq(keys, 1, n)) = n
  <2> HIDE DEF found, keys, n
  <2>1. \A k \in 1..n : keys[k] \in found
    BY <1>4, <1>5, SizesAssumption, ElementOfSeq
  <2> QED
    BY <1>5, <2>1, SizesAssumption, SubSeqProperties
<1>7. RowsOf(req) = SubSeq(keys, 1, n)
  BY DEF RowsOf
<1> HIDE DEF found, keys, n
<1>8. RowsOf(req) \in Seq(found) /\ Len(RowsOf(req)) = n
  BY <1>6, <1>7
<1>9. RowsOf(req) \in Seq(Keys)
  BY <1>1, <1>8, SeqMonotonic
<1>10. RowsOf(req) \in [1..n -> Keys] /\ \A k \in 1..n : RowsOf(req)[k] \in found
  BY <1>8, <1>9, LenProperties, ElementOfSeq
<1> QED
  BY <1>5, <1>8, <1>9, <1>10 DEF Page, found

(* The state after them, if the driver names one, is beyond the request's. *)
LEMMA NextStateFacts ==
    ASSUME table \subseteq Keys, NEW req \in Request, NEW next \in NextStates(req)
    PROVE  next \in State /\ (next # NoState => next > req.state)
<1>1. CASE next = NoState
  BY <1>1 DEF State
<1>2. CASE next # NoState
  <2> DEFINE rows == RowsOf(req)
  <2>1. Len(rows) \in 0..PageSize /\ \A k \in 1..Len(rows) : rows[k] \in Found(req)
    BY RowsFacts
  <2>2. next = Last(rows) /\ ~(Len(rows) < PageSize)
    BY <1>2 DEF NextStates
  <2>3. Len(rows) \in 1..Len(rows)
    BY <2>1, <2>2, SizesAssumption
  <2>4. next \in Found(req)
    BY <2>1, <2>2, <2>3 DEF Last
  <2> QED
    BY <2>4 DEF Found, State
<1> QED
  BY <1>1, <1>2

(* The types, apart as the steps change them. *)
GridTypes == currentData \in Page /\ body \in Body /\ editor \in 0..PageSize

PagingTypes ==
    /\ pagingStack \in Seq(State)
    /\ nextPagingState \in State
    /\ isFetching \in BOOLEAN
    /\ requests \in Seq(Request) /\ Len(requests) <= MaxRequests
    /\ buttons \in [prev: BOOLEAN, next: BOOLEAN]
    /\ calm \in BOOLEAN

QueryTypes == activeFilters \subseteq Filters /\ allow \in BOOLEAN /\ refreshing \in 0..MaxRequests

Dialogs == [open: BOOLEAN, index: 0..PageSize, key: Keys \cup {NoKey}, reloaded: BOOLEAN]
Puts == [key: Keys, index: 1..PageSize, reloaded: BOOLEAN] \cup {NoPut}

RowTypes ==
    /\ table \subseteq Keys
    /\ put \in Puts /\ misplaced \in BOOLEAN
    /\ deletion \in Keys \cup {NoKey}
    /\ dialog \in Dialogs

LEMMA TypeParts ==
    /\ TypeOK <=> GridTypes /\ PagingTypes /\ QueryTypes /\ RowTypes
    /\ TypeOK' <=> GridTypes' /\ PagingTypes' /\ QueryTypes' /\ RowTypes'
  BY DEF TypeOK, GridTypes, PagingTypes, QueryTypes, RowTypes, Dialogs, Puts

LEMMA StateIsNumber == NoState \in State /\ State \subseteq Nat /\ <<NoState>> \in Seq(State)
  BY KeysAssumption DEF State, NoState

LEMMA ClearedIsBody ==
    /\ Cleared \in Body /\ Cleared.kind = "cleared"
    /\ \A kind \in {"none", "error"} :
          [Cleared EXCEPT !.kind = kind] \in Body /\ [Cleared EXCEPT !.kind = kind].kind = kind
<1>1. NoState \in State /\ <<>> \in Seq(Keys)
  BY EmptySeq DEF State
<1> QED
  BY <1>1 DEF Cleared, Body, NoAnswer, Answered

LEMMA DialogTypes ==
    /\ NoDialog \in Dialogs
    /\ \A d \in Dialogs :
          [NoDialog EXCEPT !.open = d.open] \in Dialogs /\ [d EXCEPT !.reloaded = d.open] \in Dialogs
    /\ \A i \in 1..PageSize, k \in Keys :
          [open |-> TRUE, index |-> i, key |-> k, reloaded |-> FALSE] \in Dialogs
<1>1. 0 \in 0..PageSize /\ \A i \in 1..PageSize : i \in 0..PageSize
  BY SizesAssumption
<1> QED
  BY <1>1 DEF Dialogs, NoDialog

LEMMA PutTypes ==
    /\ NoPut \in Puts
    /\ \A p \in Puts : p # NoPut => [p EXCEPT !.reloaded = TRUE] \in Puts
    /\ \A i \in 1..PageSize, k \in Keys : [key |-> k, index |-> i, reloaded |-> FALSE] \in Puts
  BY DEF Puts

LEMMA InitTypes == Init => TypeOK
<1> SUFFICES ASSUME Init PROVE TypeOK
  OBVIOUS
<1>1. GridTypes
  <2>1. <<>> \in [1..0 -> Keys]
    OBVIOUS
  <2>2. currentData \in Page
    BY <2>1, SizesAssumption DEF Init, Page
  <2> QED
    BY <2>2, ClearedIsBody, SizesAssumption DEF Init, GridTypes
<1>2. PagingTypes
  <2>1. NoRequest \in Request
    BY DEF NoRequest, Request, State
  <2>2. <<NoRequest>> \in Seq(Request) /\ Len(<<NoRequest>>) = 1
    BY <2>1
  <2> QED
    BY <2>2, StateIsNumber, SizesAssumption DEF Init, PagingTypes
<1>3. QueryTypes /\ RowTypes
  <2>1. 0 \in 0..MaxRequests
    BY SizesAssumption
  <2> QED
    BY <2>1, DialogTypes, PutTypes DEF Init, QueryTypes, RowTypes
<1> QED
  BY <1>1, <1>2, <1>3, TypeParts

(* A fetch, sent or dropped. *)
LEMMA FetchTypes ==
    ASSUME GridTypes, PagingTypes, QueryTypes',
           NEW dir \in {"next", "prev"}, NEW stack \in Seq(State), NEW next \in State,
           fetchData(dir, stack, next)
    PROVE  GridTypes' /\ PagingTypes'
<1>1. Popped(stack) \in Seq(State)
  BY FrontFacts, EmptySeq DEF Popped
<1>2. StateToUse(dir, stack, next) \in State
  <2>1. CASE dir = "prev" /\ Len(stack) > 1
    <3>1. stack # <<>> /\ Len(Front(stack)) = Len(stack) - 1
      BY <2>1, FrontFacts, EmptySeq
    <3>2. Popped(stack) # <<>> /\ Popped(stack) = Front(stack)
      BY <2>1, <3>1, EmptySeq, LenProperties DEF Popped
    <3> QED
      BY <1>1, <2>1, <3>2, FrontFacts DEF StateToUse
  <2> QED
    BY <2>1, StateIsNumber DEF StateToUse
<1>3. calm' \in BOOLEAN
  BY DEF fetchData
<1>4. nextPagingState' = next /\ UNCHANGED <<currentData, buttons>>
  BY DEF fetchData
<1>5. CASE DropFetch(dir, stack, next)
  BY <1>3, <1>4, <1>5 DEF DropFetch, GridTypes, PagingTypes
<1>6. CASE SendFetch(dir, stack, next)
  <2> DEFINE req == [dir |-> dir, state |-> StateToUse(dir, stack, next), filters |-> activeFilters']
  <2>1. req \in Request
    BY <1>2 DEF Request, QueryTypes
  <2>2. requests' = Append(requests, req) /\ Len(requests) < MaxRequests
    <3>1. Len(requests) + refreshing' < MaxRequests /\ requests' = Append(requests, req)
      BY <1>6 DEF SendFetch
    <3>2. Len(requests) \in Nat /\ refreshing' \in Nat
      BY LenProperties DEF PagingTypes, QueryTypes
    <3> HIDE DEF req
    <3> QED
      BY <3>1, <3>2, SizesAssumption
  <2>3. requests' \in Seq(Request) /\ Len(requests') <= MaxRequests
    <3> HIDE DEF req
    <3>1. requests' \in Seq(Request) /\ Len(requests') = Len(requests) + 1 /\ Len(requests) \in Nat
      BY <2>1, <2>2, AppendProperties, LenProperties DEF PagingTypes
    <3> QED
      BY <2>2, <3>1, SizesAssumption
  <2>4. GridTypes'
    <3>1. UNCHANGED <<body, editor>> \/ (body' = Cleared /\ editor' = 0)
      BY <1>6 DEF SendFetch
    <3> QED
      BY <1>4, <3>1, ClearedIsBody, SizesAssumption DEF GridTypes
  <2>5. pagingStack' \in Seq(State) /\ isFetching' = TRUE
    BY <1>1, <1>6 DEF SendFetch
  <2> QED
    BY <1>3, <1>4, <2>3, <2>4, <2>5 DEF PagingTypes
<1> QED
  BY <1>5, <1>6 DEF fetchData

LEMMA RefreshTypes ==
    ASSUME GridTypes, PagingTypes, QueryTypes', refreshAndFetch
    PROVE  GridTypes' /\ PagingTypes'
<1>1. CASE UNCHANGED <<paging, editor>> /\ calm' = FALSE
  BY <1>1 DEF paging, GridTypes, PagingTypes
<1>2. CASE fetchData("next", <<NoState>>, NoState)
  BY <1>2, FetchTypes, StateIsNumber
<1> QED
  BY <1>1, <1>2 DEF refreshAndFetch

LEMMA AnswerTypes ==
    ASSUME TypeOK, NEW i \in DOMAIN requests, FetchSucceeds(i) \/ FetchFails(i)
    PROVE  TypeOK'
<1>0. GridTypes /\ PagingTypes /\ QueryTypes /\ RowTypes
  BY TypeParts
<1>1. i \in 1..Len(requests) /\ requests[i] \in Request
  BY <1>0, LenProperties, ElementOfSeq DEF PagingTypes
<1>2. RemoveRequest(i)
  BY DEF FetchSucceeds, FetchFails
<1>3. requests' \in Seq(Request) /\ Len(requests') <= MaxRequests /\ isFetching' = FALSE
  <2>1. requests' \in Seq(Request) /\ Len(requests') = Len(requests) - 1 /\ Len(requests) \in Nat
    BY <1>0, <1>1, <1>2, RemoveAtFacts, LenProperties DEF RemoveRequest, PagingTypes
  <2> QED
    BY <1>0, <1>2, <2>1, SizesAssumption DEF RemoveRequest, PagingTypes
<1>4. QueryTypes' /\ UNCHANGED <<table, deletion>>
  BY <1>0, <1>2 DEF RemoveRequest, query, QueryTypes
<1>5. CASE FetchFails(i)
  <2>1. GridTypes'
    BY <1>0, <1>5, ClearedIsBody, SizesAssumption DEF FetchFails, GridTypes
  <2>2. PagingTypes'
    BY <1>0, <1>3, <1>5 DEF FetchFails, PagingTypes
  <2>3. RowTypes'
    BY <1>0, <1>4, <1>5 DEF FetchFails, RowTypes
  <2> QED
    BY <1>4, <2>1, <2>2, <2>3, TypeParts
<1>6. CASE FetchSucceeds(i)
  <2> DEFINE req == requests[i]
             rows == RowsOf(req)
  <2>1. PICK next \in NextStates(req) :
           PageArrives(req, rows, next) \/ EmptyPageArrives(req, rows)
    BY <1>6 DEF FetchSucceeds
  <2>2. rows \in Page /\ rows \in Seq(Keys)
    BY <1>0, <1>1, RowsFacts DEF RowTypes
  <2>3. next \in State
    BY <1>0, <1>1, NextStateFacts DEF RowTypes
  <2>4. req.state \in State /\ req.filters \subseteq Filters
    BY <1>1 DEF Request
  <2>5. buttons' \in [prev: BOOLEAN, next: BOOLEAN] /\ UNCHANGED calm
    BY <1>6 DEF FetchSucceeds, updatePaginationUI
  <2> HIDE DEF req, rows
  <2>6. CASE PageArrives(req, rows, next)
    <3>1. nextPagingState' \in State /\ pagingStack' \in Seq(State)
      BY <1>0, <2>3, <2>4, <2>6, AppendProperties DEF PageArrives, PagingTypes
    <3>2. ShowRows(req, rows)
      BY <2>6 DEF PageArrives
    <3>3. [state |-> req.state, filters |-> req.filters] \in Answered
      BY <2>4 DEF Answered
    <3>4. GridTypes'
      BY <2>2, <3>2, <3>3, SizesAssumption DEF ShowRows, GridTypes, Body
    <3>5. /\ dialog' = [dialog EXCEPT !.reloaded = dialog.open]
          /\ put' = IF put = NoPut THEN NoPut ELSE [put EXCEPT !.reloaded = TRUE]
          /\ misplaced' = FALSE
      BY <3>2 DEF ShowRows, Reloaded
    <3>6. RowTypes'
      BY <1>0, <1>4, <3>5, DialogTypes, PutTypes DEF RowTypes
    <3>7. PagingTypes'
      BY <1>0, <1>3, <2>5, <3>1 DEF PagingTypes
    <3> QED
      BY <1>4, <3>4, <3>6, <3>7, TypeParts
  <2>7. CASE EmptyPageArrives(req, rows)
    <3>1. GridTypes'
      BY <1>0, <2>7, ClearedIsBody, SizesAssumption DEF EmptyPageArrives, GridTypes
    <3>2. PagingTypes'
      BY <1>0, <1>3, <2>5, <2>7, StateIsNumber DEF EmptyPageArrives, PagingTypes
    <3>3. RowTypes'
      BY <1>0, <1>4, <2>7 DEF EmptyPageArrives, RowTypes
    <3> QED
      BY <1>4, <3>1, <3>2, <3>3, TypeParts
  <2> QED
    BY <2>1, <2>6, <2>7
<1> QED
  BY <1>5, <1>6

LEMMA StepTypes == TypeOK /\ [Next]_vars => TypeOK'
<1> SUFFICES ASSUME TypeOK, [Next]_vars PROVE TypeOK'
  OBVIOUS
<1>0. GridTypes /\ PagingTypes /\ QueryTypes /\ RowTypes
  BY TypeParts
<1>1. CASE UNCHANGED vars
  BY <1>1 DEF vars, paging, query, rowOps, TypeOK
<1>2. CASE Answer
  BY <1>2, AnswerTypes DEF Answer
<1>3. CASE NextPage \/ PrevPage \/ RefreshAnswered
  <2>1. QueryTypes' /\ RowTypes'
    <3>1. UNCHANGED <<table, query, rowOps>> /\ refreshing' \in 0..MaxRequests
      BY <1>0, <1>3, SizesAssumption DEF NextPage, PrevPage, RefreshAnswered, QueryTypes
    <3> QED
      BY <1>0, <3>1 DEF query, rowOps, QueryTypes, RowTypes
  <2>2. \E dir \in {"next", "prev"} : fetchData(dir, pagingStack, nextPagingState)
    BY <1>3 DEF NextPage, PrevPage, RefreshAnswered
  <2> QED
    BY <1>0, <2>1, <2>2, FetchTypes, TypeParts DEF PagingTypes
<1>4. CASE \/ SubmitFilter \/ RemoveFilteringFlag \/ \E f \in Filters : RemoveFilter(f)
           \/ cassanovaRefresh \/ DeleteSucceeds \/ \E k \in Keys : RowsAdded(k)
  <2>1. QueryTypes'
    BY <1>0, <1>4 DEF SubmitFilter, RemoveFilteringFlag, RemoveFilter, cassanovaRefresh,
                      DeleteSucceeds, RowsAdded, query, QueryTypes
  <2>2. RowTypes'
    BY <1>0, <1>4, DialogTypes
       DEF SubmitFilter, RemoveFilteringFlag, RemoveFilter, cassanovaRefresh,
           DeleteSucceeds, RowsAdded, rowOps, RowTypes
  <2>3. refreshAndFetch
    BY <1>4 DEF SubmitFilter, RemoveFilteringFlag, RemoveFilter, cassanovaRefresh,
                DeleteSucceeds, RowsAdded
  <2> QED
    BY <1>0, <2>1, <2>2, <2>3, RefreshTypes, TypeParts
<1>5. CASE ClickRefresh
  <2>1. GridTypes' /\ QueryTypes' /\ RowTypes'
    <3>1. Len(requests) \in Nat /\ refreshing \in 0..MaxRequests
      BY <1>0, LenProperties DEF PagingTypes, QueryTypes
    <3>2. refreshing' \in 0..MaxRequests
      BY <1>5, <3>1, SizesAssumption DEF ClickRefresh
    <3> QED
      BY <1>0, <1>5, <3>2 DEF ClickRefresh, query, rowOps, GridTypes, QueryTypes, RowTypes
  <2>2. calm' \in BOOLEAN /\ pagingStack' = <<NoState>> /\ nextPagingState' = NoState
        /\ UNCHANGED <<isFetching, requests, buttons>>
    BY <1>5 DEF ClickRefresh
  <2>3. PagingTypes'
    BY <1>0, <2>2, StateIsNumber DEF PagingTypes
  <2> QED
    BY <2>1, <2>3, TypeParts
<1>6. CASE CancelEdit \/ SaveEdit \/ \E ok \in BOOLEAN : EditAnswered(ok)
  <2>1. GridTypes' /\ QueryTypes' /\ PagingTypes'
    <3>1. UNCHANGED <<paging, query, refreshing, calm>> /\ editor' \in {0, editor}
      BY <1>6 DEF CancelEdit, SaveEdit, EditAnswered
    <3>2. editor' \in 0..PageSize
      BY <1>0, <3>1, SizesAssumption DEF GridTypes
    <3> QED
      BY <1>0, <3>1, <3>2 DEF paging, query, GridTypes, QueryTypes, PagingTypes
  <2>2. RowTypes'
    <3>1. CASE SaveEdit
      <4>1. editor \in 1..PageSize /\ currentData[editor] \in Keys
        BY <1>0, <3>1, SizesAssumption DEF SaveEdit, GridTypes, Page
      <4>2. put' \in Puts
        BY <3>1, <4>1, PutTypes DEF SaveEdit
      <4> QED
        BY <1>0, <3>1, <4>2 DEF SaveEdit, RowTypes
    <3>2. ASSUME NEW ok \in BOOLEAN, EditAnswered(ok) PROVE RowTypes'
      <4>1. put \in Puts /\ put # NoPut /\ misplaced' \in BOOLEAN
        BY <1>0, <3>2 DEF EditAnswered, RowTypes
      <4>2. table' \subseteq Keys
        <5>1. put.key \in Keys
          BY <4>1 DEF Puts
        <5> QED
          BY <1>0, <3>2, <5>1 DEF EditAnswered, RowTypes
      <4> QED
        BY <1>0, <3>2, <4>1, <4>2, PutTypes DEF EditAnswered, RowTypes
    <3>3. CASE CancelEdit
      BY <1>0, <3>3 DEF CancelEdit, rowOps, RowTypes
    <3> QED
      BY <1>6, <3>1, <3>2, <3>3
  <2> QED
    BY <2>1, <2>2, TypeParts
<1>7. ASSUME NEW i \in 1..PageSize, StartEditing(i) \/ confirmDeletion(i) PROVE TypeOK'
  <2>1. GridTypes' /\ QueryTypes' /\ PagingTypes'
    BY <1>0, <1>7, SizesAssumption
       DEF StartEditing, confirmDeletion, paging, query, GridTypes, QueryTypes, PagingTypes
  <2>2. RowTypes'
    <3>1. ASSUME confirmDeletion(i) PROVE currentData[i] \in Keys
      BY <1>0, <3>1 DEF confirmDeletion, GridTypes, Page
    <3> QED
      BY <1>0, <1>7, <3>1, DialogTypes DEF StartEditing, confirmDeletion, rowOps, RowTypes
  <2> QED
    BY <2>1, <2>2, TypeParts
<1>8. CASE CloseDialog \/ ConfirmDelete \/ DeleteFails
  <2>1. GridTypes' /\ QueryTypes' /\ PagingTypes'
    BY <1>0, <1>8
       DEF CloseDialog, ConfirmDelete, DeleteFails, paging, query, GridTypes, QueryTypes, PagingTypes
  <2>2. RowTypes'
    <3>1. ASSUME ConfirmDelete PROVE deletion' \in Keys
      BY <1>0, <3>1 DEF ConfirmDelete, GridTypes, Page
    <3> QED
      BY <1>0, <1>8, <3>1, DialogTypes DEF CloseDialog, ConfirmDelete, DeleteFails, RowTypes, NoKey
  <2> QED
    BY <2>1, <2>2, TypeParts
<1> QED
  BY <1>1, <1>2, <1>3, <1>4, <1>5, <1>6, <1>7, <1>8 DEF Next

(* The variables of the page keep their types. *)
THEOREM TypeCorrect == Spec => []TypeOK
  BY InitTypes, StepTypes, PTL DEF Spec

-------------------------------------------------------------------------------
(* Paging.  A stack of paging states climbs from NoState. *)
Climbs(stack) ==
    /\ stack # <<>> /\ Head(stack) = NoState
    /\ \A i \in 1..Len(stack) - 1 : stack[i] < stack[i + 1]

(* A request for a further page names a state beyond the stack; any other  *)
(* names its top, and the grid has been emptied for it.                    *)
RequestNamed(req) ==
    /\ req.filters = activeFilters
    /\ IF req.dir = "next" /\ req.state # NoState
       THEN req.state > Last(pagingStack)
       ELSE req.state = Last(pagingStack) /\ body.kind # "rows"

BodyNamed ==
    body.kind = "rows" =>
        body.answers.filters = activeFilters /\ body.answers.state = Last(pagingStack)

ButtonsNamed ==
    /\ buttons = [prev |-> Len(pagingStack) > 1, next |-> nextPagingState # NoState]
    /\ nextPagingState # NoState => nextPagingState > Last(pagingStack)

(* As long as requests come one at a time, there are three phases: nothing *)
(* is out, one page request is, or the Refresh button's POST is.           *)
Idle == requests = <<>> /\ ~isFetching /\ refreshing = 0 /\ BodyNamed /\ ButtonsNamed
Loading ==
    /\ Len(requests) = 1 /\ isFetching /\ refreshing = 0
    /\ BodyNamed /\ RequestNamed(requests[1])
Resetting ==
    /\ requests = <<>> /\ ~isFetching /\ refreshing = 1
    /\ pagingStack = <<NoState>> /\ nextPagingState = NoState

CalmPaging == calm => Climbs(pagingStack) /\ (Idle \/ Loading \/ Resetting)

PagingIInv == TypeOK /\ GuardHeldByRequest /\ CalmPaging

LEMMA ClimbsFromStart == Climbs(<<NoState>>) /\ Last(<<NoState>>) = NoState
  BY DEF Climbs, Last

LEMMA ClimbsWithPop ==
    ASSUME NEW stack \in Seq(State), Climbs(stack), Len(stack) > 1
    PROVE  Climbs(Front(stack)) /\ Popped(stack) = Front(stack)
<1>1. /\ Front(stack) \in Seq(State) /\ Len(Front(stack)) = Len(stack) - 1
      /\ \A i \in 1..Len(stack) - 1 : Front(stack)[i] = stack[i]
  BY FrontFacts, EmptySeq DEF Climbs
<1>2. Front(stack) # <<>> /\ Head(Front(stack)) = Front(stack)[1] /\ Head(stack) = stack[1]
  BY <1>1, HeadTailProperties, EmptySeq DEF Climbs
<1> QED
  BY <1>1, <1>2, LenProperties DEF Climbs, Popped

LEMMA ClimbsWithPush ==
    ASSUME NEW stack \in Seq(State), Climbs(stack), NEW state \in State, state > Last(stack)
    PROVE  Climbs(Append(stack, state)) /\ Last(Append(stack, state)) = state
<1> DEFINE pushed == Append(stack, state)
<1>1. /\ pushed \in Seq(State) /\ pushed # <<>> /\ Len(pushed) = Len(stack) + 1
      /\ \A i \in 1..Len(stack) : pushed[i] = stack[i]
      /\ pushed[Len(stack) + 1] = state
  BY AppendProperties
<1>2. Len(stack) \in Nat \ {0}
  BY LenProperties, EmptySeq DEF Climbs
<1> HIDE DEF pushed
<1>3. Head(pushed) = pushed[1] /\ Head(stack) = stack[1]
  BY <1>1, HeadTailProperties DEF Climbs
<1>4. ASSUME NEW i \in 1..Len(pushed) - 1 PROVE pushed[i] < pushed[i + 1]
  <2>1. CASE i = Len(stack)
    BY <1>1, <1>2, <2>1 DEF Last
  <2>2. CASE i # Len(stack)
    <3>1. i \in 1..Len(stack) - 1 /\ i \in 1..Len(stack) /\ i + 1 \in 1..Len(stack)
      BY <1>1, <1>2, <2>2
    <3> QED
      BY <1>1, <3>1 DEF Climbs
  <2> QED
    BY <2>1, <2>2
<1> QED
  BY <1>1, <1>2, <1>3, <1>4 DEF Climbs, Last, pushed

LEMMA InitPaging == Init => PagingIInv
<1> SUFFICES ASSUME Init PROVE GuardHeldByRequest /\ CalmPaging
  BY InitTypes DEF PagingIInv
<1>1. requests[1] = NoRequest /\ Len(requests) = 1 /\ requests # <<>>
  BY DEF Init
<1>2. Loading
  BY <1>1, ClimbsFromStart, ClearedIsBody
     DEF Init, Loading, BodyNamed, RequestNamed, NoRequest
<1> QED
  BY <1>1, <1>2, ClimbsFromStart DEF Init, CalmPaging, GuardHeldByRequest

(* A fetch keeps the guard and, when nothing was out, asks for the page    *)
(* the stack will name.                                                    *)
Asks(dir, stack, next) ==
    \/ dir = "next" /\ next = NoState /\ stack = <<NoState>>
    \/ dir = "next" /\ next # NoState /\ next > Last(stack) /\ BodyNamed'
    \/ dir = "prev" /\ Len(stack) > 1

LEMMA FetchPaging ==
    ASSUME TypeOK, GuardHeldByRequest, TypeOK',
           NEW dir, NEW stack \in Seq(State), NEW next \in State,
           fetchData(dir, stack, next),
           calm' => /\ requests = <<>> /\ Climbs(stack)
                    /\ Asks(dir, stack, next)
    PROVE  PagingIInv'
<1>1. calm' = (calm /\ ~isFetching /\ refreshing' = 0)
  BY DEF fetchData
<1>2. requests \in Seq(Request)
  BY DEF TypeOK
<1>3. CASE DropFetch(dir, stack, next)
  BY <1>1, <1>3 DEF DropFetch, Dropped, PagingIInv, GuardHeldByRequest, CalmPaging
<1>4. CASE SendFetch(dir, stack, next)
  <2> DEFINE req == [dir |-> dir, state |-> StateToUse(dir, stack, next), filters |-> activeFilters']
  <2>1. requests' = Append(requests, req) /\ isFetching' = TRUE
    BY <1>4 DEF SendFetch
  <2>2. requests' # <<>>
    <3>1. requests' \in Seq(Request)
      BY DEF TypeOK
    <3> QED
      BY <1>2, <2>1, <3>1
  <2>3. GuardHeldByRequest'
    BY <2>2 DEF GuardHeldByRequest
  <2>4. ASSUME calm' PROVE Climbs(pagingStack') /\ Loading'
    <3>1. requests = <<>> /\ Climbs(stack) /\ Asks(dir, stack, next) /\ refreshing' = 0
      BY <1>1, <2>4
    <3>2. Len(requests') = 1 /\ requests'[1] = req
      BY <2>1, <3>1
    <3>3. req.dir = dir /\ req.state = StateToUse(dir, stack, next) /\ req.filters = activeFilters'
      OBVIOUS
    <3> HIDE DEF req
    <3>4. CASE dir = "next" /\ next = NoState /\ stack = <<NoState>>
      <4>1. pagingStack' = stack /\ body' = Cleared
        BY <1>4, <3>4 DEF SendFetch
      <4>2. req.state = Last(pagingStack')
        BY <3>3, <3>4, <4>1, ClimbsFromStart DEF StateToUse
      <4>3. BodyNamed' /\ body'.kind # "rows"
        BY <4>1, ClearedIsBody DEF BodyNamed
      <4>4. req.state = NoState
        BY <3>4, <4>1, <4>2, ClimbsFromStart
      <4> QED
        BY <2>1, <3>1, <3>2, <3>3, <4>1, <4>2, <4>3, <4>4 DEF Loading, RequestNamed
    <3>5. CASE dir = "next" /\ next # NoState /\ next > Last(stack) /\ BodyNamed'
      <4>1. pagingStack' = stack
        BY <1>4, <3>5 DEF SendFetch
      <4>2. req.state = next
        BY <3>3, <3>5 DEF StateToUse
      <4> QED
        BY <2>1, <3>1, <3>2, <3>3, <3>5, <4>1, <4>2 DEF Loading, RequestNamed
    <3>6. CASE dir = "prev" /\ Len(stack) > 1
      <4>1. Climbs(Front(stack)) /\ Popped(stack) = Front(stack)
        BY <3>1, <3>6, ClimbsWithPop
      <4>2. pagingStack' = Front(stack) /\ body' = Cleared
        BY <1>4, <3>6, <4>1 DEF SendFetch
      <4>3. req.state = Last(pagingStack')
        BY <3>3, <3>6, <4>1, <4>2 DEF StateToUse
      <4>4. BodyNamed' /\ body'.kind # "rows"
        BY <4>2, ClearedIsBody DEF BodyNamed
      <4> QED
        BY <2>1, <3>1, <3>2, <3>3, <3>6, <4>1, <4>2, <4>3, <4>4 DEF Loading, RequestNamed
    <3> QED
      BY <3>1, <3>4, <3>5, <3>6 DEF Asks
  <2> QED
    BY <2>3, <2>4 DEF PagingIInv, CalmPaging
<1> QED
  BY <1>3, <1>4 DEF fetchData

LEMMA RefreshPaging ==
    ASSUME PagingIInv, TypeOK', refreshAndFetch, UNCHANGED refreshing
    PROVE  PagingIInv'
<1>1. CASE calm' = FALSE /\ UNCHANGED <<paging, editor>>
  BY <1>1 DEF paging, PagingIInv, GuardHeldByRequest, CalmPaging
<1>2. CASE fetchData("next", <<NoState>>, NoState)
  <2>1. ASSUME calm' PROVE requests = <<>>
    BY <1>2, <2>1 DEF fetchData, PagingIInv, CalmPaging, Idle, Loading, Resetting
  <2> QED
    BY <1>2, <2>1, FetchPaging, ClimbsFromStart, StateIsNumber DEF PagingIInv, Asks
<1> QED
  BY <1>1, <1>2 DEF refreshAndFetch

LEMMA AnswerPaging ==
    ASSUME PagingIInv, TypeOK', NEW i \in DOMAIN requests, FetchSucceeds(i) \/ FetchFails(i)
    PROVE  PagingIInv'
<1>1. RemoveRequest(i)
  BY DEF FetchSucceeds, FetchFails
<1>2. GuardHeldByRequest'
  BY <1>1 DEF RemoveRequest, GuardHeldByRequest
<1> SUFFICES ASSUME calm' PROVE Climbs(pagingStack') /\ Idle'
  BY <1>2 DEF PagingIInv, CalmPaging
<1>3. FetchSucceeds(i) /\ calm
  BY DEF FetchSucceeds, FetchFails
<1>4. requests \in Seq(Request) /\ i \in 1..Len(requests) /\ requests # <<>>
  <2>1. requests \in Seq(Request)
    BY DEF PagingIInv, TypeOK
  <2> QED
    BY <2>1, LenProperties, EmptySeq
<1>5. Loading /\ Climbs(pagingStack)
  BY <1>3, <1>4 DEF PagingIInv, CalmPaging, Idle, Resetting
<1>6. i = 1 /\ requests' = <<>>
  <2>1. i = 1
    BY <1>4, <1>5 DEF Loading
  <2>2. requests' \in Seq(Request) /\ Len(requests') = Len(requests) - 1
    BY <1>1, <1>4, RemoveAtFacts DEF RemoveRequest
  <2> QED
    BY <1>5, <2>1, <2>2, EmptySeq DEF Loading
<1> DEFINE req == requests[1]
           rows == RowsOf(req)
<1>7. PICK next \in NextStates(req) : PageArrives(req, rows, next) \/ EmptyPageArrives(req, rows)
  BY <1>3, <1>6 DEF FetchSucceeds
<1>8. req \in Request /\ table \subseteq Keys /\ pagingStack \in Seq(State)
  <2>1. req \in Request
    BY <1>4, <1>6, ElementOfSeq
  <2> QED
    BY <2>1 DEF PagingIInv, TypeOK
<1>9. next # NoState => next > req.state
  BY <1>7, <1>8, NextStateFacts
<1>10. RequestNamed(req) /\ BodyNamed
  BY <1>5 DEF Loading
<1>11. UNCHANGED <<activeFilters, refreshing>> /\ ~isFetching' /\ refreshing' = 0
  BY <1>1, <1>5 DEF RemoveRequest, query, Loading
<1>12. buttons' = [prev |-> Len(pagingStack') > 1, next |-> nextPagingState' # NoState]
  BY <1>3 DEF FetchSucceeds, updatePaginationUI
<1>13. req.state \in State /\ req.filters \subseteq Filters
  BY <1>8 DEF Request
<1> HIDE DEF req, rows
<1>14. CASE PageArrives(req, rows, next)
  <2>1. nextPagingState' = next
    BY <1>14 DEF PageArrives
  <2>2. Climbs(pagingStack') /\ Last(pagingStack') = req.state
    <3>1. CASE req.dir = "next" /\ req.state # NoState
      <4>1. pagingStack' = Append(pagingStack, req.state) /\ req.state > Last(pagingStack)
        BY <1>10, <1>14, <3>1 DEF PageArrives, RequestNamed
      <4> QED
        BY <1>5, <1>8, <1>13, <4>1, ClimbsWithPush
    <3>2. CASE ~(req.dir = "next" /\ req.state # NoState)
      BY <1>5, <1>10, <1>14, <3>2 DEF PageArrives, RequestNamed
    <3> QED
      BY <3>1, <3>2
  <2>3. body'.answers.state = req.state /\ body'.answers.filters = req.filters
    BY <1>14 DEF PageArrives, ShowRows
  <2>4. BodyNamed'
    BY <1>10, <1>11, <2>2, <2>3 DEF BodyNamed, RequestNamed
  <2>5. ButtonsNamed'
    BY <1>9, <1>12, <2>1, <2>2 DEF ButtonsNamed
  <2> QED
    BY <1>6, <1>11, <2>2, <2>4, <2>5 DEF Idle
<1>15. CASE EmptyPageArrives(req, rows)
  <2>1. UNCHANGED pagingStack /\ nextPagingState' = NoState
    BY <1>15 DEF EmptyPageArrives
  <2>2. BodyNamed'
    <3>1. CASE UNCHANGED body
      BY <1>10, <1>11, <2>1, <3>1 DEF BodyNamed
    <3>2. CASE body' = [Cleared EXCEPT !.kind = "none"]
      BY <3>2, ClearedIsBody DEF BodyNamed
    <3> QED
      BY <1>15, <3>1, <3>2 DEF EmptyPageArrives
  <2> QED
    BY <1>5, <1>6, <1>11, <1>12, <2>1, <2>2 DEF Idle, ButtonsNamed
<1> QED
  BY <1>7, <1>14, <1>15

LEMMA StepPaging == PagingIInv /\ [Next]_vars => PagingIInv'
<1> SUFFICES ASSUME PagingIInv, [Next]_vars PROVE PagingIInv'
  OBVIOUS
<1>0. TypeOK'
  BY StepTypes DEF PagingIInv
<1>t. TypeOK /\ GuardHeldByRequest /\ pagingStack \in Seq(State) /\ nextPagingState \in State
  BY DEF PagingIInv, TypeOK
<1>s. requests = <<>> => ~isFetching
  BY <1>t DEF GuardHeldByRequest
<1>1. ASSUME UNCHANGED <<body, pagingStack, nextPagingState, isFetching, requests, buttons>>,
             UNCHANGED <<activeFilters, refreshing, calm>>
      PROVE  PagingIInv'
  BY <1>0, <1>1 DEF PagingIInv, GuardHeldByRequest, CalmPaging, Idle, Loading, Resetting,
                    BodyNamed, ButtonsNamed, RequestNamed
<1>2. CASE Answer
  BY <1>0, <1>2, AnswerPaging DEF Answer
<1>3. CASE NextPage
  <2>1. UNCHANGED <<activeFilters, refreshing>> /\ buttons.next
        /\ fetchData("next", pagingStack, nextPagingState)
    BY <1>3 DEF NextPage, query
  <2>2. ASSUME calm'
        PROVE  requests = <<>> /\ Climbs(pagingStack)
               /\ Asks("next", pagingStack, nextPagingState)
    <3>1. calm /\ ~isFetching /\ refreshing = 0
      BY <2>1, <2>2 DEF fetchData
    <3>2. Idle /\ Climbs(pagingStack)
      BY <3>1 DEF PagingIInv, CalmPaging, Loading, Resetting
    <3>3. nextPagingState # NoState /\ nextPagingState > Last(pagingStack)
      BY <2>1, <3>2 DEF Idle, ButtonsNamed
    <3>4. UNCHANGED <<body, pagingStack>>
      BY <2>1, <3>3 DEF fetchData, SendFetch, DropFetch
    <3> QED
      BY <2>1, <3>2, <3>3, <3>4 DEF Idle, Asks, BodyNamed
  <2> QED
    BY <1>0, <1>t, <2>1, <2>2, FetchPaging
<1>4. CASE PrevPage
  <2>1. UNCHANGED <<activeFilters, refreshing>> /\ buttons.prev
        /\ fetchData("prev", pagingStack, nextPagingState)
    BY <1>4 DEF PrevPage, query
  <2>2. ASSUME calm'
        PROVE  requests = <<>> /\ Climbs(pagingStack)
               /\ Asks("prev", pagingStack, nextPagingState)
    <3>1. calm /\ ~isFetching /\ refreshing = 0
      BY <2>1, <2>2 DEF fetchData
    <3>2. Idle /\ Climbs(pagingStack)
      BY <3>1 DEF PagingIInv, CalmPaging, Loading, Resetting
    <3> QED
      BY <2>1, <3>2 DEF Idle, ButtonsNamed, Asks
  <2> QED
    BY <1>0, <1>t, <2>1, <2>2, FetchPaging
<1>5. CASE RefreshAnswered
  <2>1. refreshing > 0 /\ refreshing' = refreshing - 1 /\ UNCHANGED activeFilters
        /\ fetchData("next", pagingStack, nextPagingState)
    BY <1>5 DEF RefreshAnswered, query
  <2>2. ASSUME calm'
        PROVE  requests = <<>> /\ Climbs(pagingStack)
               /\ Asks("next", pagingStack, nextPagingState)
    <3>1. calm
      BY <2>1, <2>2 DEF fetchData
    <3>2. Resetting
      BY <2>1, <3>1 DEF PagingIInv, CalmPaging, Idle, Loading
    <3> QED
      BY <3>2, ClimbsFromStart DEF Resetting, Asks
  <2> QED
    BY <1>0, <1>t, <2>1, <2>2, FetchPaging
<1>6. CASE \/ SubmitFilter \/ RemoveFilteringFlag \/ \E f \in Filters : RemoveFilter(f)
           \/ cassanovaRefresh \/ DeleteSucceeds \/ \E k \in Keys : RowsAdded(k)
  <2>1. refreshAndFetch /\ UNCHANGED refreshing
    BY <1>6 DEF SubmitFilter, RemoveFilteringFlag, RemoveFilter, cassanovaRefresh,
                DeleteSucceeds, RowsAdded
  <2> QED
    BY <1>0, <2>1, RefreshPaging
<1>7. CASE ClickRefresh
  <2>1. /\ UNCHANGED <<isFetching, requests>> /\ refreshing' = refreshing + 1
        /\ calm' = (calm /\ ~isFetching /\ refreshing = 0)
        /\ pagingStack' = <<NoState>> /\ nextPagingState' = NoState
    BY <1>7 DEF ClickRefresh
  <2>2. GuardHeldByRequest'
    BY <1>t, <2>1 DEF GuardHeldByRequest
  <2>3. ASSUME calm' PROVE Resetting'
    <3>1. calm /\ ~isFetching /\ refreshing = 0
      BY <2>1, <2>3
    <3>2. requests = <<>>
      BY <3>1 DEF PagingIInv, CalmPaging, Idle, Loading, Resetting
    <3> QED
      BY <2>1, <3>1, <3>2 DEF Resetting
  <2> QED
    BY <1>0, <2>1, <2>2, <2>3, ClimbsFromStart DEF PagingIInv, CalmPaging
<1>8. CASE \/ CancelEdit \/ SaveEdit \/ \E ok \in BOOLEAN : EditAnswered(ok)
           \/ \E i \in 1..PageSize : StartEditing(i) \/ confirmDeletion(i)
           \/ CloseDialog \/ ConfirmDelete \/ DeleteFails
  <2>1. UNCHANGED <<paging, query, refreshing, calm>>
    BY <1>8 DEF CancelEdit, SaveEdit, EditAnswered, StartEditing, confirmDeletion,
                CloseDialog, ConfirmDelete, DeleteFails
  <2> QED
    BY <1>1, <2>1 DEF paging, query
<1>9. CASE UNCHANGED vars
  BY <1>1, <1>9 DEF vars, paging, query
<1> QED
  BY <1>2, <1>3, <1>4, <1>5, <1>6, <1>7, <1>8, <1>9 DEF Next

(* As long as requests come one at a time and none fails, the rows on      *)
(* display answer the query the chips and the footer name; and, however    *)
(* they come, the guard against overlapping requests is held only by a     *)
(* request that is out.                                                    *)
THEOREM PagingStays == Spec => []PagingAgrees
<1>1. PagingIInv => PagingAgrees
  BY DEF PagingIInv, PagingAgrees, PageIsTheOneNamed, CalmPaging, Idle, Loading, Resetting,
         BodyNamed, Climbs
<1> QED
  BY InitPaging, StepPaging, <1>1, PTL DEF Spec
===============================================================================
