------------------------------ MODULE BulkImport ------------------------------
(***************************************************************************)
(* api/dependencies/csv_handler.py: the import of a CSV or JSON file into  *)
(* a table.  Rows are gathered into unlogged batches of at most BatchSize  *)
(* and executed; any exception while a row is handled makes the code       *)
(* execute what the batch holds (again, if executing it was what failed),  *)
(* note the error and go on, until more than ErrorCap errors are noted.    *)
(*                                                                         *)
(* A row is abstracted to whether it can be read and prepared, and to its  *)
(* shape, the list of its columns: the INSERT is built from the first row  *)
(* that can be prepared, and every later row's values are bound to it.     *)
(***************************************************************************)
EXTENDS Naturals, FiniteSets

CONSTANTS RowCount,   \* rows of the file
          BatchSize,  \* _BATCH_SIZE
          ErrorCap,   \* 50 in the code
          Shape,      \* lists of columns a row may have
          Arity(_),   \* how many columns a shape has
          NoQuery     \* insert_query is None

ASSUME SizeAssumption == /\ RowCount \in Nat /\ ErrorCap \in Nat
                         /\ BatchSize \in Nat /\ BatchSize >= 1
ASSUME ShapeAssumption == /\ NoQuery \notin Shape
                          /\ \A s \in Shape : Arity(s) \in Nat

Row == 1..RowCount
Kind == {"good", "unprepared", "malformed"}

VARIABLES kind, shape,  \* the file: what each row is like
          pc,           \* where the import is
          row,          \* the row being handled; RowCount + 1 after the last
          query,        \* insert_query, as the shape it was built from
          batch,        \* the rows in the batch
          success,      \* success_count
          errors,       \* len(errors)
          counted,      \* history: rows counted in success_count
          applied,      \* history: rows the database has executed
          dropped       \* history: rows given up

file == <<kind, shape>>
importVars ==
  <<kind, shape, pc, row, query, batch, success, errors, counted, applied, dropped>>

PC == {"row", "flush", "recover", "final", "done", "aborted"}

ImportTypeOK ==
  /\ kind \in [Row -> Kind] /\ shape \in [Row -> Shape]
  /\ pc \in PC
  /\ row \in 1..RowCount + 1
  /\ query \in Shape \cup {NoQuery}
  /\ batch \subseteq Row /\ counted \subseteq Row /\ applied \subseteq Row /\ dropped \subseteq Row
  /\ success \in 0..RowCount /\ errors \in Nat

ImportInit ==
  /\ kind \in [Row -> Kind] /\ shape \in [Row -> Shape]
  /\ pc = "row" /\ row = 1 /\ query = NoQuery
  /\ batch = {} /\ counted = {} /\ applied = {} /\ dropped = {}
  /\ success = 0 /\ errors = 0

-------------------------------------------------------------------------------
(* The iterator over the file raises: the exception leaves the import, the *)
(* batch is lost, and what was executed before stays.                      *)
Abort ==
  /\ pc = "row" /\ row \in Row
  /\ kind[row] = "malformed"
  /\ pc' = "aborted"
  /\ UNCHANGED <<file, row, query, batch, success, errors, counted, applied, dropped>>

(* _prepare_insert_data raises: an unknown column, a value that does not   *)
(* convert.                                                                *)
PrepareFails ==
  /\ pc = "row" /\ row \in Row
  /\ kind[row] = "unprepared"
  /\ pc' = "recover"
  /\ dropped' = dropped \cup {row}
  /\ UNCHANGED <<file, row, query, batch, success, errors, counted, applied>>

(* The INSERT in use: the first prepared row's from then on. *)
Query == IF query = NoQuery THEN shape[row] ELSE query

(* The row was prepared, but batch.add cannot bind as many values; it does *)
(* not try to bind none.                                                   *)
BindFails ==
  /\ pc = "row" /\ row \in Row
  /\ kind[row] = "good"
  /\ Arity(shape[row]) \notin {0, Arity(Query)}
  /\ pc' = "recover"
  /\ dropped' = dropped \cup {row}
  /\ UNCHANGED <<file, row, query, batch, success, errors, counted, applied>>

(* The row joins the batch; a full batch is executed next. *)
AddRow ==
  /\ pc = "row" /\ row \in Row
  /\ kind[row] = "good"
  /\ Arity(shape[row]) \in {0, Arity(Query)}
  /\ query' = Query
  /\ batch' = batch \cup {row}
  /\ IF Cardinality(batch') >= BatchSize
     THEN pc' = "flush" /\ UNCHANGED row
     ELSE pc' = "row" /\ row' = row + 1
  /\ UNCHANGED <<file, success, errors, counted, applied, dropped>>

EndOfFile ==
  /\ pc = "row" /\ row = RowCount + 1
  /\ pc' = "final"
  /\ UNCHANGED <<file, row, query, batch, success, errors, counted, applied, dropped>>

(* As BatchExecuted, the batch not being replaced. *)
BatchExecutedKept ==
  /\ success' = success + Cardinality(batch)
  /\ counted' = counted \cup batch
  /\ applied' = applied \cup batch
  /\ UNCHANGED <<batch, dropped>>

(* execute_cql returned: the batch's rows count, and a new batch begins. *)
BatchExecuted ==
  /\ success' = success + Cardinality(batch)
  /\ counted' = counted \cup batch
  /\ applied' = applied \cup batch
  /\ batch' = {}
  /\ UNCHANGED dropped

(* execute_cql raised; after a timeout the rows may have been written. *)
BatchRaised ==
  /\ applied' \in {applied, applied \cup batch}
  /\ UNCHANGED <<success, counted>>

(* A full batch is executed in the row's try. *)
Flush ==
  /\ pc = "flush"
  /\ \/ /\ BatchExecuted
        /\ pc' = "row" /\ row' = row + 1
     \/ /\ BatchRaised
        /\ pc' = "recover"
        /\ UNCHANGED <<batch, dropped, row>>
  /\ UNCHANGED <<file, query, errors>>

(* The end of the except branch: stop after too many errors, else go on. *)
NextRow == IF errors' > ErrorCap
           THEN pc' = "final" /\ UNCHANGED row
           ELSE pc' = "row" /\ row' = row + 1

(* As Recover, the batch replaced without being executed. *)
RecoverForgetting ==
  /\ pc = "recover"
  /\ batch' = {}
  /\ errors' = errors + 1
  /\ NextRow
  /\ UNCHANGED <<file, query, success, counted, applied, dropped>>

(* As Recover, going back to execute the batch until that succeeds. *)
RecoverRetrying ==
  /\ pc = "recover"
  /\ \/ BatchExecuted /\ errors' = errors + 1 /\ NextRow
     \/ /\ batch # {}
        /\ BatchRaised
        /\ pc' = "flush"
        /\ UNCHANGED <<batch, dropped, errors, row>>
  /\ UNCHANGED <<file, query>>

(* The except branch: execute what the batch holds, note that error too if *)
(* it raises, begin a new batch either way, and note the row's error.      *)
Recover ==
  /\ pc = "recover"
  /\ \/ /\ batch = {}
        /\ errors' = errors + 1
        /\ UNCHANGED <<batch, success, counted, applied, dropped>>
     \/ /\ batch # {}
        /\ BatchExecuted
        /\ errors' = errors + 1
     \/ /\ batch # {}
        /\ BatchRaised
        /\ batch' = {}
        /\ dropped' = dropped \cup batch
        /\ errors' = errors + 2
  /\ NextRow
  /\ UNCHANGED <<file, query>>

(* After the loop: execute what is left, and return the counts. *)
Final ==
  /\ pc = "final"
  /\ \/ /\ batch = {}
        /\ UNCHANGED <<batch, success, errors, counted, applied, dropped>>
     \/ /\ batch # {}
        /\ BatchExecuted
        /\ UNCHANGED errors
     \/ /\ batch # {}
        /\ BatchRaised
        /\ batch' = {}
        /\ dropped' = dropped \cup batch
        /\ errors' = errors + 1
  /\ pc' = "done"
  /\ UNCHANGED <<file, row, query>>

-------------------------------------------------------------------------------
ImportNext ==
  Abort \/ PrepareFails \/ BindFails \/ AddRow \/ EndOfFile \/ Flush \/ Recover \/ Final

ImportSpec == ImportInit /\ [][ImportNext]_importVars
-------------------------------------------------------------------------------
(* The rows the loop has dealt with. *)
Handled == {i \in Row : i < row \/ (i = row /\ pc \notin {"row", "aborted"})}

(* The success count is the number of rows it stands for: no row is        *)
(* counted twice by a retry, none before the database executed it.         *)
SuccessIsExact ==
  /\ success = Cardinality(counted)
  /\ counted \subseteq applied
  /\ counted \cap (batch \cup dropped) = {}

(* No row disappears: every row dealt with was counted, is in the batch,   *)
(* or was given up, and once a row is given up the import says so.         *)
NoSilentLoss ==
  /\ counted \cup batch \cup dropped = Handled
  /\ dropped # {} => errors > 0 \/ pc = "recover"

(* A finished import that reports no error has put every row in the table. *)
CleanImportIsComplete ==
  pc = "done" /\ errors = 0 => counted = Row

(* Every row is accounted for, while the import runs and when it reports.  *)
NothingLost == NoSilentLoss /\ CleanImportIsComplete

(* An import into a table that refuses everything stops: the last row may  *)
(* note two errors, and the loop ends with the first row past the cap.     *)
ErrorsBounded == errors <= ErrorCap + 2

(* Every import ends. *)
Terminates == <>(pc \in {"done", "aborted"})

===============================================================================
