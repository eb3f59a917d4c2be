--------------------------- MODULE BulkImportProofs ---------------------------
(***************************************************************************)
(* Theorems about BulkImport, for files of any length and shape, batches   *)
(* of any size and any cap on the errors.  The invariant accounts for      *)
(* every row: a row dealt with was counted, waits in the batch or was      *)
(* given up, and never two of these.                                       *)
(***************************************************************************)
EXTENDS BulkImport, FiniteSetTheorems, TLAPS

(* A row in the batch has not been given up; a row that is being handled,  *)
(* or recovered from, is one of the file.                                  *)
RowsApart ==
  /\ batch \cap dropped = {}
  /\ pc \in {"flush", "recover"} => row \in Row

(* The loop goes on up to the cap; past it there is nothing left to execute.*)
ErrorsCounted ==
  /\ pc \in {"row", "flush", "recover", "aborted"} => errors <= ErrorCap
  /\ pc = "final" => batch = {} \/ errors <= ErrorCap

(* The loop ends with the file or with too many errors. *)
EndIsJustified ==
  /\ pc \in {"final", "done"} => row = RowCount + 1 \/ errors > 0
  /\ pc = "done" => batch = {}

IInv == /\ ImportTypeOK /\ SuccessIsExact /\ NoSilentLoss /\ ErrorsBounded
        /\ RowsApart /\ ErrorsCounted /\ EndIsJustified

-------------------------------------------------------------------------------
LEMMA RowsAreFinite ==
  /\ \A S \in SUBSET Row : IsFiniteSet(S) /\ Cardinality(S) \in 0..RowCount
<1>1. IsFiniteSet(Row) /\ Cardinality(Row) = RowCount
  BY SizeAssumption, FS_Interval DEF Row
<1> SUFFICES ASSUME NEW S \in SUBSET Row
             PROVE  IsFiniteSet(S) /\ Cardinality(S) \in 0..RowCount
  OBVIOUS
<1>2. IsFiniteSet(S) /\ Cardinality(S) <= RowCount
  BY <1>1, FS_Subset
<1>3. Cardinality(S) \in Nat
  BY <1>2, FS_CardinalityType
<1> QED
  BY <1>2, <1>3, SizeAssumption

(* Executing the batch keeps the count exact: its rows were not counted.   *)
LEMMA ExecutionIsExact ==
  ASSUME ImportTypeOK, SuccessIsExact, RowsApart, BatchExecuted
  PROVE  /\ SuccessIsExact'
         /\ success' \in 0..RowCount
         /\ counted' \subseteq Row /\ applied' \subseteq Row /\ batch' = {}
         /\ counted' = counted \cup batch /\ dropped' = dropped
<1>1. /\ IsFiniteSet(counted) /\ Cardinality(counted) \in 0..RowCount
      /\ IsFiniteSet(batch) /\ Cardinality(batch) \in 0..RowCount
      /\ Cardinality(counted \cup batch) \in 0..RowCount
  BY RowsAreFinite DEF ImportTypeOK
<1>2. counted \cap batch = {}
  BY DEF SuccessIsExact
<1>3. Cardinality(counted \cup batch) = Cardinality(counted) + Cardinality(batch)
  <2>1. Cardinality(counted \cup batch)
          = Cardinality(counted) + Cardinality(batch) - Cardinality({})
    BY <1>1, <1>2, FS_Union
  <2> QED
    BY <1>1, <2>1, FS_EmptySet
<1>4. success' = Cardinality(counted')
  BY <1>3 DEF SuccessIsExact, BatchExecuted
<1>5. counted' \subseteq applied' /\ counted' \cap (batch' \cup dropped') = {}
  BY DEF SuccessIsExact, RowsApart, BatchExecuted
<1> QED
  BY <1>1, <1>3, <1>4, <1>5 DEF SuccessIsExact, BatchExecuted, ImportTypeOK

(* A batch that raised leaves the count as it is. *)
LEMMA RaisedIsExact ==
  ASSUME ImportTypeOK, SuccessIsExact, BatchRaised
  PROVE  /\ success' = Cardinality(counted') /\ success' = success
         /\ counted' = counted /\ counted' \subseteq applied'
         /\ applied' \subseteq Row
  BY DEF ImportTypeOK, SuccessIsExact, BatchRaised

LEMMA InitInvariant == ImportInit => IInv
<1> SUFFICES ASSUME ImportInit PROVE IInv
  OBVIOUS
<1>1. ImportTypeOK
  BY SizeAssumption DEF ImportInit, ImportTypeOK, PC
<1>2. SuccessIsExact
  BY FS_EmptySet DEF ImportInit, SuccessIsExact
<1>3. NoSilentLoss
  BY SizeAssumption DEF ImportInit, NoSilentLoss, Handled, Row
<1>4. ErrorsBounded /\ RowsApart /\ ErrorsCounted /\ EndIsJustified
  BY SizeAssumption DEF ImportInit, ErrorsBounded, RowsApart, ErrorsCounted, EndIsJustified
<1> QED
  BY <1>1, <1>2, <1>3, <1>4 DEF IInv

-------------------------------------------------------------------------------
(* The steps of the loop that look at the next row. *)
LEMMA RowStep ==
  ASSUME IInv, Abort \/ PrepareFails \/ BindFails \/ AddRow \/ EndOfFile
  PROVE  IInv'
<1> USE SizeAssumption, ShapeAssumption DEF IInv
<1>0. pc = "row" /\ row \in 1..RowCount + 1
  BY DEF ImportTypeOK, Abort, PrepareFails, BindFails, AddRow, EndOfFile
<1>1. counted \cup batch \cup dropped = {i \in Row : i < row}
  BY <1>0 DEF NoSilentLoss, Handled
<1>2. CASE Abort
  <2>1. ImportTypeOK' /\ SuccessIsExact' /\ ErrorsBounded' /\ RowsApart' /\ ErrorsCounted'
          /\ EndIsJustified'
    BY <1>2 DEF Abort, file, ImportTypeOK, PC, SuccessIsExact, ErrorsBounded, RowsApart,
                ErrorsCounted, EndIsJustified
  <2>2. NoSilentLoss'
    BY <1>0, <1>1, <1>2 DEF Abort, NoSilentLoss, Handled
  <2> QED
    BY <2>1, <2>2
<1>3. CASE PrepareFails \/ BindFails
  <2>1. /\ row \in Row /\ pc' = "recover" /\ dropped' = dropped \cup {row}
        /\ UNCHANGED <<file, row, query, batch, success, errors, counted, applied>>
    BY <1>3 DEF PrepareFails, BindFails
  <2>2. row \notin counted \cup batch
    BY <1>0, <1>1
  <2>3. ImportTypeOK' /\ SuccessIsExact' /\ ErrorsBounded' /\ RowsApart' /\ ErrorsCounted'
          /\ EndIsJustified'
    BY <1>0, <2>1, <2>2 DEF file, ImportTypeOK, PC, SuccessIsExact, ErrorsBounded, RowsApart,
                ErrorsCounted, EndIsJustified
  <2>4. NoSilentLoss'
    BY <1>0, <1>1, <2>1 DEF NoSilentLoss, Handled, Row
  <2> QED
    BY <2>3, <2>4
<1>4. CASE AddRow
  <2>1. /\ row \in Row /\ batch' = batch \cup {row}
        /\ query' \in Shape \cup {NoQuery}
        /\ \/ pc' = "flush" /\ row' = row
           \/ pc' = "row" /\ row' = row + 1
        /\ UNCHANGED <<file, success, errors, counted, applied, dropped>>
    BY <1>4 DEF AddRow, Query, ImportTypeOK
  <2>2. row \notin counted \cup dropped
    BY <1>0, <1>1
  <2>3. ImportTypeOK' /\ RowsApart' /\ SuccessIsExact'
    BY <1>0, <2>1, <2>2 DEF file, ImportTypeOK, PC, RowsApart, SuccessIsExact, Row
  <2>4. ErrorsBounded' /\ ErrorsCounted' /\ EndIsJustified'
    BY <1>0, <2>1 DEF ErrorsBounded, ErrorsCounted, EndIsJustified
  <2>5. NoSilentLoss'
    BY <1>0, <1>1, <2>1 DEF NoSilentLoss, Handled, Row
  <2> QED
    BY <2>3, <2>4, <2>5
<1>5. CASE EndOfFile
  <2>1. /\ row = RowCount + 1 /\ pc' = "final"
        /\ UNCHANGED <<file, row, query, batch, success, errors, counted, applied, dropped>>
    BY <1>5 DEF EndOfFile
  <2>2. ImportTypeOK' /\ SuccessIsExact' /\ ErrorsBounded' /\ RowsApart' /\ ErrorsCounted'
          /\ EndIsJustified'
    BY <1>0, <2>1 DEF file, ImportTypeOK, PC, SuccessIsExact, ErrorsBounded, RowsApart,
                ErrorsCounted, EndIsJustified
  <2>3. NoSilentLoss'
    BY <1>0, <1>1, <2>1 DEF NoSilentLoss, Handled, Row
  <2> QED
    BY <2>2, <2>3
<1> QED
  BY <1>2, <1>3, <1>4, <1>5

(* A full batch is executed, or raises and is kept. *)
LEMMA FlushStep == ASSUME IInv, Flush PROVE IInv'
<1> USE SizeAssumption DEF IInv
<1>0. /\ pc = "flush" /\ row \in Row /\ errors <= ErrorCap /\ errors \in Nat
      /\ UNCHANGED <<file, query, errors>>
      /\ counted \cup batch \cup dropped = {i \in Row : i < row \/ i = row}
  BY DEF Flush, RowsApart, ErrorsCounted, NoSilentLoss, Handled, ImportTypeOK
<1>1. CASE BatchExecuted /\ pc' = "row" /\ row' = row + 1
  <2>1. SuccessIsExact' /\ success' \in 0..RowCount /\ counted' \subseteq Row
          /\ applied' \subseteq Row /\ batch' = {}
          /\ counted' = counted \cup batch /\ dropped' = dropped
    BY <1>1, ExecutionIsExact
  <2>2. ImportTypeOK' /\ ErrorsBounded' /\ RowsApart' /\ ErrorsCounted' /\ EndIsJustified'
    BY <1>0, <1>1, <2>1 DEF file, ImportTypeOK, PC, ErrorsBounded, RowsApart, ErrorsCounted,
                            EndIsJustified, Row
  <2>3. NoSilentLoss'
    BY <1>0, <1>1, <2>1 DEF NoSilentLoss, Handled, Row
  <2> QED
    BY <2>1, <2>2, <2>3
<1>2. CASE BatchRaised /\ pc' = "recover" /\ UNCHANGED <<batch, dropped, row>>
  <2>1. SuccessIsExact' /\ applied' \subseteq Row /\ counted' = counted /\ success' = success
    BY <1>2, RaisedIsExact DEF SuccessIsExact
  <2>2. ImportTypeOK' /\ ErrorsBounded' /\ RowsApart' /\ ErrorsCounted' /\ EndIsJustified'
    BY <1>0, <1>2, <2>1 DEF file, ImportTypeOK, PC, ErrorsBounded, RowsApart, ErrorsCounted,
                            EndIsJustified, Row
  <2>3. NoSilentLoss'
    BY <1>0, <1>2, <2>1 DEF NoSilentLoss, Handled, Row
  <2> QED
    BY <2>1, <2>2, <2>3
<1> QED
  BY <1>1, <1>2 DEF Flush

(* The except branch gives the batch one more try and empties it. *)
LEMMA RecoverStep == ASSUME IInv, Recover PROVE IInv'
<1> USE SizeAssumption DEF IInv
<1>0. /\ pc = "recover" /\ row \in Row /\ errors <= ErrorCap /\ errors \in Nat
      /\ UNCHANGED <<file, query>>
      /\ counted \cup batch \cup dropped = {i \in Row : i < row \/ i = row}
  BY DEF Recover, RowsApart, ErrorsCounted, NoSilentLoss, Handled, ImportTypeOK
<1>1. /\ SuccessIsExact' /\ success' \in 0..RowCount /\ counted' \subseteq Row
      /\ applied' \subseteq Row /\ batch' = {} /\ dropped' \subseteq Row
      /\ counted' \cup dropped' = counted \cup batch \cup dropped
      /\ errors' \in {errors + 1, errors + 2}
  <2>1. CASE batch = {} /\ errors' = errors + 1
               /\ UNCHANGED <<batch, success, counted, applied, dropped>>
    BY <2>1 DEF SuccessIsExact, ImportTypeOK
  <2>2. CASE BatchExecuted /\ errors' = errors + 1
    BY <2>2, ExecutionIsExact DEF ImportTypeOK
  <2>3. CASE BatchRaised /\ batch' = {} /\ dropped' = dropped \cup batch /\ errors' = errors + 2
    <3>1. /\ success' = Cardinality(counted') /\ success' = success
          /\ counted' = counted /\ counted' \subseteq applied' /\ applied' \subseteq Row
      BY <2>3, RaisedIsExact
    <3> QED
      BY <2>3, <3>1 DEF SuccessIsExact, ImportTypeOK
  <2> QED
    BY <2>1, <2>2, <2>3 DEF Recover
<1>2. \/ errors' > ErrorCap /\ pc' = "final" /\ row' = row
      \/ errors' <= ErrorCap /\ pc' = "row" /\ row' = row + 1
  BY <1>0, <1>1 DEF Recover, NextRow
<1>3. ImportTypeOK' /\ ErrorsBounded' /\ RowsApart' /\ ErrorsCounted' /\ EndIsJustified'
  BY <1>0, <1>1, <1>2 DEF file, ImportTypeOK, PC, ErrorsBounded, RowsApart, ErrorsCounted,
                          EndIsJustified, Row
<1>4. NoSilentLoss'
  BY <1>0, <1>1, <1>2 DEF NoSilentLoss, Handled, Row
<1> QED
  BY <1>1, <1>3, <1>4

(* What is left is executed, or given up and noted. *)
LEMMA FinalStep == ASSUME IInv, Final PROVE IInv'
<1> USE SizeAssumption DEF IInv
<1>0. /\ pc = "final" /\ pc' = "done" /\ errors \in Nat /\ errors <= ErrorCap + 2
      /\ UNCHANGED <<file, row, query>>
      /\ counted \cup batch \cup dropped = {i \in Row : i < row \/ i = row}
  BY DEF Final, NoSilentLoss, Handled, ImportTypeOK, ErrorsBounded
<1>1. /\ SuccessIsExact' /\ success' \in 0..RowCount /\ counted' \subseteq Row
      /\ applied' \subseteq Row /\ batch' = {} /\ dropped' \subseteq Row
      /\ counted' \cup dropped' = counted \cup batch \cup dropped
      /\ \/ errors' = errors /\ dropped' = dropped
         \/ errors' = errors + 1 /\ batch # {}
  <2>1. CASE batch = {} /\ UNCHANGED <<batch, success, errors, counted, applied, dropped>>
    BY <2>1 DEF SuccessIsExact, ImportTypeOK
  <2>2. CASE BatchExecuted /\ UNCHANGED errors
    BY <2>2, ExecutionIsExact DEF ImportTypeOK
  <2>3. CASE batch # {} /\ BatchRaised /\ batch' = {} /\ dropped' = dropped \cup batch
               /\ errors' = errors + 1
    <3>1. /\ success' = Cardinality(counted') /\ success' = success
          /\ counted' = counted /\ counted' \subseteq applied' /\ applied' \subseteq Row
      BY <2>3, RaisedIsExact
    <3> QED
      BY <2>3, <3>1 DEF SuccessIsExact, ImportTypeOK
  <2> QED
    BY <2>1, <2>2, <2>3 DEF Final
<1>2. errors' <= ErrorCap + 2 /\ errors' \in Nat /\ errors' >= errors
        /\ (dropped' # {} => errors' > 0)
  BY <1>0, <1>1 DEF ErrorsCounted, NoSilentLoss
<1>3. ImportTypeOK' /\ ErrorsBounded' /\ RowsApart' /\ ErrorsCounted' /\ EndIsJustified'
  BY <1>0, <1>1, <1>2 DEF file, ImportTypeOK, PC, ErrorsBounded, RowsApart, ErrorsCounted,
                          EndIsJustified, Row
<1>4. NoSilentLoss'
  BY <1>0, <1>1, <1>2 DEF NoSilentLoss, Handled, Row
<1> QED
  BY <1>1, <1>3, <1>4

LEMMA StepInvariant == IInv /\ [ImportNext]_importVars => IInv'
<1> SUFFICES ASSUME IInv, [ImportNext]_importVars PROVE IInv'
  OBVIOUS
<1>1. CASE UNCHANGED importVars
  BY <1>1 DEF importVars, IInv, ImportTypeOK, SuccessIsExact, NoSilentLoss, ErrorsBounded,
              RowsApart, ErrorsCounted, EndIsJustified, Handled
<1> QED
  BY <1>1, RowStep, FlushStep, RecoverStep, FinalStep DEF ImportNext

-------------------------------------------------------------------------------
(* The invariant holds in every reachable state. *)
THEOREM Invariance == ImportSpec => []IInv
  BY InitInvariant, StepInvariant, PTL DEF ImportSpec

(* The counters, the batch and the history keep their types. *)
THEOREM TypeCorrect == ImportSpec => []ImportTypeOK
<1>1. IInv => ImportTypeOK
  BY DEF IInv
<1> QED
  BY Invariance, <1>1, PTL

(* The success count is the number of rows that were executed and counted, *)
(* each once.                                                              *)
THEOREM SuccessAlwaysExact == ImportSpec => []SuccessIsExact
<1>1. IInv => SuccessIsExact
  BY DEF IInv
<1> QED
  BY Invariance, <1>1, PTL

(* Every row dealt with is counted, waiting or given up, a loss is noted,  *)
(* and an import that ends without an error has put every row in.          *)
THEOREM NothingEverLost == ImportSpec => []NothingLost
<1>1. IInv => NothingLost
  <2> SUFFICES ASSUME IInv, pc = "done", errors = 0 PROVE counted = Row
    BY DEF IInv, NothingLost, CleanImportIsComplete
  <2>1. row = RowCount + 1 /\ batch = {} /\ dropped = {}
    BY DEF IInv, EndIsJustified, NoSilentLoss
  <2>2. Handled = Row
    BY <2>1, SizeAssumption DEF Handled, Row
  <2> QED
    BY <2>1, <2>2 DEF IInv, NoSilentLoss
<1> QED
  BY Invariance, <1>1, PTL

(* The list of errors ends at most two past the cap: the loop stops with   *)
(* the row that exceeds it, which may note its batch's failure and its own.*)
THEOREM ErrorsAlwaysBounded == ImportSpec => []ErrorsBounded
<1>1. IInv => ErrorsBounded
  BY DEF IInv
<1> QED
  BY Invariance, <1>1, PTL
===============================================================================
