---------------------------- MODULE TableBuilder ----------------------------
(***************************************************************************)
(* The table designer (scripts/app/table-builder.js): a list of columns    *)
(* the user edits, the statements it stands for, shown as they change, and *)
(* their execution, one request after the other, once they are confirmed.  *)
(*                                                                         *)
(* The page that edits a table (mode "alter") is served the table's        *)
(* columns as a list (dashboard_routes.py), where initAlterMode expects an *)
(* object: it throws, and the page starts without a column.  No column is  *)
(* ever known as existing, so that none is locked, and none is dropped.    *)
(*                                                                         *)
(* Of the pickers a collection's type has, the model keeps one, for the    *)
(* first subtype; of the table's options, of which compaction and          *)
(* compression always have a value, whether one was changed.  The text of  *)
(* the dialog is left out: it is the form's statements when the dialog     *)
(* opens, and is not read; the statements are generated again to be run.   *)
(***************************************************************************)
EXTENDS Naturals, Sequences, SequencesExt, FiniteSets, Subsequences

CONSTANTS
    NoName,         \* the empty name
    Typed,          \* column names a user may type
    NewName(_),     \* 'new_col_' and a number
    ColumnTypes, TextType, BooleanType,
    CollectionTypes, SubTypes,
    DefaultColumns, \* createDefaultColumns
    OldTable,       \* the table of mode "alter", a set of column names
    MaxEdits        \* bound: edits of the form

ASSUME BuilderTypes ==
    /\ {TextType, BooleanType} \subseteq ColumnTypes \ CollectionTypes
    /\ CollectionTypes \subseteq ColumnTypes /\ TextType \in SubTypes
ASSUME BuilderBounds == MaxEdits \in Nat

VARIABLES
    mode,
    named,           \* tableNameInput is not empty
    ifNotExists,
    option,          \* a table option is not what the page starts with
    columns,
    preview,         \* cqlPreview and safetyReport
    actionDisabled,  \* actionBtn.disabled
    executeModal,    \* shown or not
    loops,           \* executions going on: what was confirmed, and what is left of it
    confirmDisabled,
    executed,        \* history: what the last execution that succeeded has run
    leaving,         \* the second and a half after a success
    table,           \* the server: names of the table's columns, {} for no table
    edits

formVariables == <<named, ifNotExists, option, columns, preview, actionDisabled>>
dialogVariables == <<executeModal, loops, confirmDisabled, executed, leaving>>
builderVars == <<mode, formVariables, dialogVariables, table, edits>>

Column == [name: Typed \cup {NoName} \cup {NewName(n) : n \in 0..MaxEdits + Len(DefaultColumns)}
                   \cup {DefaultColumns[i].name : i \in DOMAIN DefaultColumns},
           type: ColumnTypes, subType1: SubTypes, isPK: BOOLEAN, isCK: BOOLEAN,
           ckOrder: {"ASC", "DESC"}, isStatic: BOOLEAN, hasSaiIndex: BOOLEAN]

KeysAgree(col) ==
    /\ ~(col.isPK /\ col.isCK)
    /\ col.isPK \/ col.isCK => ~col.isStatic

ASSUME BuilderDefaults ==
    /\ DefaultColumns \in Seq(Column)
    /\ \A i \in DOMAIN DefaultColumns : KeysAgree(DefaultColumns[i])

createColumn(name, type, isPK, isCK) ==
    [name |-> name, type |-> type, subType1 |-> TextType, isPK |-> isPK, isCK |-> isCK,
     ckOrder |-> "ASC", isStatic |-> FALSE, hasSaiIndex |-> FALSE]

(***************************************************************************)
(* generateCQL.  A comment, for an error or for no change, is no statement.*)
(***************************************************************************)
Indexes(cols) ==
    LET sai == Subsequence(cols, {i \in DOMAIN cols : cols[i].hasSaiIndex /\ ~cols[i].isPK})
    IN [i \in DOMAIN sai |-> [op |-> "index", name |-> sai[i].name]]

resolveFullType(col) ==
    IF col.type \in CollectionTypes THEN <<col.type, col.subType1>> ELSE <<col.type>>

SomePK(cols) == \E i \in DOMAIN cols : cols[i].isPK

Definitions(cols) ==
    [i \in DOMAIN cols |-> [name |-> cols[i].name, type |-> resolveFullType(cols[i]),
                            isPK |-> cols[i].isPK, isCK |-> cols[i].isCK,
                            isStatic |-> cols[i].isStatic]]

\* CLUSTERING ORDER BY, which is left out when every key is in ascending order.
Order(cols) ==
    LET keys == Subsequence(cols, {i \in DOMAIN cols : cols[i].isCK})
    IN IF \E i \in DOMAIN keys : keys[i].ckOrder = "DESC"
       THEN [i \in DOMAIN keys |-> keys[i].ckOrder] ELSE <<>>

generateCreateCQL(cols, guarded, chosen) ==
    IF SomePK(cols)
    THEN <<[op |-> "create", columns |-> Definitions(cols), order |-> Order(cols),
            options |-> chosen, ifNotExists |-> guarded]>> \o Indexes(cols)
    ELSE <<>>

generateAlterCQL(cols, chosen) ==
    [i \in DOMAIN cols |-> [op |-> "add", name |-> cols[i].name,
                            type |-> resolveFullType(cols[i]), isStatic |-> cols[i].isStatic]]
        \o <<[op |-> "with", options |-> chosen]>>
        \o Indexes(cols)

generateCQL(cols, guarded, chosen) ==
    IF mode = "alter" THEN generateAlterCQL(cols, chosen)
                      ELSE generateCreateCQL(cols, guarded, chosen)

\* analyzeSafety; BooleanType stands for what makes it warn.
Report(hasName, cols) ==
    CASE ~hasName -> "no name"
      [] hasName /\ ~SomePK(cols) -> "no key"
      [] OTHER -> IF \E i \in DOMAIN cols : cols[i].isPK /\ cols[i].type = BooleanType
                  THEN "risk" ELSE "healthy"

Valid(hasName, cols) ==
    hasName /\ SomePK(cols) /\ \A i \in DOMAIN cols : cols[i].name # NoName

\* What the form's outputs are after a change of what it holds (updatePreview).
updatePreview ==
    /\ preview' = [cql |-> generateCQL(columns', ifNotExists', option'),
                 report |-> Report(named', columns')]
    /\ actionDisabled' = ~Valid(named', columns')

(***************************************************************************)
(* The page is loaded.                                                     *)
(***************************************************************************)
Unwritten == [cql |-> <<>>, report |-> "none"]

BuilderInit ==
    /\ mode \in {"create", "alter"}
    /\ named = (mode = "alter")
    /\ ifNotExists = TRUE /\ option = FALSE
    /\ columns = IF mode = "alter" THEN <<>> ELSE DefaultColumns
    /\ preview = IF mode = "alter" THEN Unwritten
                 ELSE [cql |-> generateCQL(columns, TRUE, FALSE), report |-> "no name"]
    /\ actionDisabled = TRUE
    /\ executeModal = FALSE
    /\ loops = <<>> /\ confirmDisabled = FALSE /\ executed = <<>> /\ leaving = FALSE
    /\ table = IF mode = "alter" THEN OldTable ELSE {}
    /\ edits = 0

(***************************************************************************)
(* The user edits the form; the dialog covers it, but takes no key from it. *)
(***************************************************************************)
Edit ==
    /\ edits < MaxEdits
    /\ edits' = edits + 1
    /\ updatePreview
    /\ UNCHANGED <<mode, dialogVariables, table>>

EditColumns(cols) == columns' = cols /\ UNCHANGED <<named, ifNotExists, option>> /\ Edit

nameInput(i, name) == EditColumns([columns EXCEPT ![i].name = name])
typeSelect(i, type) == EditColumns([columns EXCEPT ![i].type = type])

\* The pickers for the subtypes are drawn for a collection.
subTypeSelect(i, type) ==
    /\ columns[i].type \in CollectionTypes
    /\ EditColumns([columns EXCEPT ![i].subType1 = type])

\* As pkCheck, a static column being made a key.
pkCheckStatic(i) ==
    LET checked == ~columns[i].isPK IN
    EditColumns([columns EXCEPT ![i] = [columns[i] EXCEPT !.isPK = checked, !.isCK = @ /\ ~checked]])

pkCheck(i) ==
    LET checked == ~columns[i].isPK IN
    EditColumns([columns EXCEPT ![i] = [columns[i] EXCEPT !.isPK = checked, !.isCK = @ /\ ~checked,
                                                          !.isStatic = @ /\ ~checked]])

ckCheck(i) ==
    LET checked == ~columns[i].isCK IN
    EditColumns([columns EXCEPT ![i] = [columns[i] EXCEPT !.isCK = checked, !.isPK = @ /\ ~checked,
                                                          !.isStatic = @ /\ ~checked]])

ckOrderBtn(i) ==
    /\ columns[i].isCK
    /\ EditColumns([columns EXCEPT ![i].ckOrder = IF @ = "ASC" THEN "DESC" ELSE "ASC"])

staticCheck(i) ==
    /\ ~columns[i].isPK /\ ~columns[i].isCK
    /\ EditColumns([columns EXCEPT ![i].isStatic = ~@])

\* As saiCheck, the column being changed and the preview left as it is.
saiCheckQuietly(i) ==
    /\ edits < MaxEdits
    /\ ~columns[i].isPK
    /\ columns' = [columns EXCEPT ![i].hasSaiIndex = ~@]
    /\ edits' = edits + 1
    /\ UNCHANGED <<mode, named, ifNotExists, option, preview, actionDisabled, dialogVariables, table>>

saiCheck(i) ==
    /\ ~columns[i].isPK
    /\ EditColumns([columns EXCEPT ![i].hasSaiIndex = ~@])

removeColumn(i) == Len(columns) > 1 /\ EditColumns(RemoveAt(columns, i))

addColumn ==
    EditColumns(Append(columns, createColumn(NewName(Len(columns)), TextType, FALSE, FALSE)))

\* The name cannot be edited in mode "alter".
tableNameInput ==
    /\ mode = "create"
    /\ named' = ~named
    /\ UNCHANGED <<ifNotExists, option, columns>>
    /\ Edit

ifNotExistsToggle ==
    /\ ifNotExists' = ~ifNotExists
    /\ UNCHANGED <<named, option, columns>>
    /\ Edit

\* Any of the inputs for an option.
optionChange ==
    /\ option' = ~option
    /\ UNCHANGED <<named, ifNotExists, columns>>
    /\ Edit

(***************************************************************************)
(* The dialog and the execution.                                           *)
(***************************************************************************)
actionBtn ==
    /\ ~actionDisabled
    /\ executeModal' = TRUE
    /\ UNCHANGED <<mode, formVariables, loops, confirmDisabled, executed, leaving, table, edits>>

\* Also while what was confirmed is being executed.
closeModal ==
    /\ executeModal
    /\ executeModal' = FALSE
    /\ UNCHANGED <<mode, formVariables, loops, confirmDisabled, executed,
                   leaving, table, edits>>

\* As confirmExecute, the button staying enabled.
confirmExecuteTwice ==
    /\ executeModal /\ ~confirmDisabled
    /\ Len(loops) < 2
    /\ LET cql == generateCQL(columns, ifNotExists, option)
       IN loops' = Append(loops, [plan |-> cql, left |-> cql])
    /\ executed' = <<>>
    /\ UNCHANGED <<mode, formVariables, executeModal, confirmDisabled, leaving,
                   table, edits>>

\* The statements are generated again.
confirmExecute ==
    /\ executeModal /\ ~confirmDisabled
    /\ LET cql == generateCQL(columns, ifNotExists, option)
       IN loops' = Append(loops, [plan |-> cql, left |-> cql])
    /\ confirmDisabled' = TRUE
    /\ executed' = <<>>
    /\ UNCHANGED <<mode, formVariables, executeModal, leaving, table, edits>>

\* What Cassandra makes of a statement it accepts.
Names(cols) == {cols[i].name : i \in DOMAIN cols}
Accepted(stmt) ==
    CASE stmt.op = "create" ->
            /\ stmt.ifNotExists \/ table = {}
            /\ Cardinality(Names(stmt.columns)) = Len(stmt.columns)
            /\ \A i \in DOMAIN stmt.columns :
                  stmt.columns[i].isStatic => \E k \in DOMAIN stmt.columns : stmt.columns[k].isCK
      [] stmt.op = "add" -> stmt.name \notin table
      [] stmt.op = "with" -> TRUE
      [] stmt.op = "index" -> stmt.name \in table

Applied(stmt) ==
    CASE stmt.op = "create" -> IF table = {} THEN Names(stmt.columns) ELSE table
      [] stmt.op = "add" -> table \cup {stmt.name}
      [] OTHER -> table

\* A statement is run and answered for, and the next one is due.
StatementRuns(l) ==
    LET left == loops[l].left IN
    /\ left # <<>> /\ Accepted(Head(left))
    /\ table' = Applied(Head(left))
    /\ loops' = [loops EXCEPT ![l].left = Tail(left)]
    /\ UNCHANGED <<mode, formVariables, executeModal, confirmDisabled, executed,
                   leaving, edits>>

\* It is refused, or its answer is lost: the rest is not run, what ran before it
\* stays, and so does the dialog.
StatementFails(l) ==
    LET left == loops[l].left IN
    /\ left # <<>>
    /\ table' \in {table} \cup {Applied(s) : s \in {t \in {Head(left)} : Accepted(t)}}
    /\ loops' = RemoveAt(loops, l)
    /\ confirmDisabled' = FALSE
    /\ UNCHANGED <<mode, formVariables, executeModal, executed, leaving, edits>>

\* All ran: the button is enabled at once, and the page left a little later.
ExecutionSucceeds(l) ==
    /\ loops[l].left = <<>>
    /\ loops' = RemoveAt(loops, l)
    /\ executed' = loops[l].plan
    /\ leaving' = TRUE
    /\ confirmDisabled' = FALSE
    /\ UNCHANGED <<mode, formVariables, executeModal, table, edits>>

\* The page is loaded again; the request it waits for may still reach the server.
InFlight == {Head(loops[l].left) : l \in {k \in DOMAIN loops : loops[k].left # <<>>}}

LoadBuilder ==
    /\ named' = (mode = "alter")
    /\ ifNotExists' = TRUE /\ option' = FALSE
    /\ columns' = IF mode = "alter" THEN <<>> ELSE DefaultColumns
    /\ preview' = IF mode = "alter" THEN Unwritten
                  ELSE [cql |-> generateCQL(columns', TRUE, FALSE), report |-> "no name"]
    /\ actionDisabled' = TRUE
    /\ executeModal' = FALSE
    /\ loops' = <<>> /\ confirmDisabled' = FALSE /\ executed' = <<>> /\ leaving' = FALSE
    /\ table' \in {table} \cup {Applied(stmt) : stmt \in {st \in InFlight : Accepted(st)}}
    /\ UNCHANGED <<mode, edits>>

\* The page is left, for the keyspace's, and whatever execution goes on with it:
\* its place is taken by the page when the user comes back.
LeaveBuilder == leaving /\ LoadBuilder

BuilderUser ==
    \/ \E i \in DOMAIN columns :
          \/ \E name \in Typed \cup {NoName} : nameInput(i, name)
          \/ \E type \in ColumnTypes : typeSelect(i, type)
          \/ \E type \in SubTypes : subTypeSelect(i, type)
          \/ pkCheck(i) \/ ckCheck(i) \/ ckOrderBtn(i) \/ staticCheck(i) \/ saiCheck(i)
          \/ removeColumn(i)
    \/ addColumn \/ tableNameInput \/ ifNotExistsToggle \/ optionChange
    \/ actionBtn \/ closeModal \/ confirmExecute

BuilderNext ==
    \/ \E l \in DOMAIN loops : StatementRuns(l) \/ StatementFails(l) \/ ExecutionSucceeds(l)
    \/ LeaveBuilder

BuilderTypeOK ==
    /\ mode \in {"create", "alter"}
    /\ named \in BOOLEAN /\ ifNotExists \in BOOLEAN /\ option \in BOOLEAN
    /\ columns \in Seq(Column)
    /\ preview.report \in {"none", "no name", "no key", "risk", "healthy"}
    /\ actionDisabled \in BOOLEAN /\ executeModal \in BOOLEAN
    /\ confirmDisabled \in BOOLEAN /\ leaving \in BOOLEAN
    /\ edits \in 0..MaxEdits

\* What is shown, and whether it may be executed, is up to date with the form, after
\* any of the handlers each of which has to see to it (updatePreview); before the
\* first one, a table that is edited shows nothing.
PreviewIsCurrent ==
    \/ mode = "alter" /\ preview = Unwritten /\ columns = <<>>
    \/ /\ preview = [cql |-> generateCQL(columns, ifNotExists, option), report |-> Report(named, columns)]
       /\ actionDisabled = ~Valid(named, columns)

\* No column is a partition and a clustering key, no key is static, in whatever
\* order the boxes are ticked: the boxes for what a column may not be are not drawn.
FlagsAgree == \A i \in DOMAIN columns : KeysAgree(columns[i])

\* One execution goes on at a time, whether the dialog is closed and opened again
\* meanwhile or confirmed again after a failure (confirmExecuteBtn.disabled).
OneExecution == Len(loops) <= 1

\* A success means that every statement ran: each column that was to be added is in
\* the table, each that was to be created too, unless the table was there before.
SuccessIsComplete ==
    \A i \in DOMAIN executed :
        executed[i].op \in {"add", "index"} => executed[i].name \in table

=============================================================================
