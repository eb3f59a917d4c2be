------------------------------ MODULE RowForms ------------------------------
(***************************************************************************)
(* The two dialogs of the explorer page that add rows                      *)
(* (scripts/app/explorer.js): the import of a file, and the insertion of a *)
(* row.  Both end by fetching the grid again (Explorer!RowsAdded).         *)
(*                                                                         *)
(* A file is its name, of which the extension is looked at.  A file can be *)
(* chosen through the input, which then holds it, or dropped on the        *)
(* dialog, which puts it nowhere.                                          *)
(***************************************************************************)
EXTENDS Naturals

CONSTANTS
    Files,
    Extension(_),   \* the format a file's name ends in
    NoFile

Formats == {"csv", "json"}

ASSUME FilesAssumption == NoFile \notin Files

VARIABLES
    importOpen,             \* the import dialog is shown
    selectedImportFormat,
    fileInput,              \* fileInput.files[0]
    label,                  \* the file the drop zone says is selected
    canImport,              \* confirmImportBtn is enabled
    importing,              \* file and format of the import in flight
    closing,                \* the two seconds after an import are running
    tableSchema,            \* null, the columns, or the answer of an error
    insertOpen, inserting

importVars == <<importOpen, selectedImportFormat, fileInput, label, canImport, importing,
                closing>>
insertVars == <<tableSchema, insertOpen, inserting>>
formVars == <<importVars, insertVars>>

NoImport == [file |-> NoFile, format |-> "csv"]

FormsTypeOK ==
    /\ importOpen \in BOOLEAN /\ canImport \in BOOLEAN /\ closing \in BOOLEAN
    /\ selectedImportFormat \in Formats
    /\ fileInput \in Files \cup {NoFile} /\ label \in Files \cup {NoFile}
    /\ importing \in [file: Files \cup {NoFile}, format: Formats]
    /\ tableSchema \in {"null", "columns", "error"}
    /\ insertOpen \in BOOLEAN /\ inserting \in BOOLEAN

FormsInit ==
    /\ importOpen = FALSE /\ canImport = FALSE /\ closing = FALSE
    /\ selectedImportFormat = "csv"
    /\ fileInput = NoFile /\ label = NoFile
    /\ importing = NoImport
    /\ tableSchema = "null" /\ insertOpen = FALSE /\ inserting = FALSE

LoadForms ==
    /\ importOpen' = FALSE /\ canImport' = FALSE /\ closing' = FALSE
    /\ selectedImportFormat' = "csv"
    /\ fileInput' = NoFile /\ label' = NoFile
    /\ importing' = NoImport
    /\ tableSchema' = "null" /\ insertOpen' = FALSE /\ inserting' = FALSE

\* The user clicks what is to be seen: an open dialog covers the page's buttons,
\* which do not look for one themselves (an assumption, see README.md).
NoDialog == ~importOpen /\ ~insertOpen

(***************************************************************************)
(* The import dialog.                                                      *)
(***************************************************************************)

resetImportUI ==
    /\ canImport' = FALSE
    /\ label' = NoFile
    /\ fileInput' = NoFile

openImportModal(format) ==
    /\ NoDialog
    /\ selectedImportFormat' = format
    /\ importOpen' = TRUE
    /\ resetImportUI
    /\ UNCHANGED <<importing, closing, insertVars>>

closeImportModal ==
    /\ importOpen
    /\ importOpen' = FALSE
    /\ UNCHANGED <<selectedImportFormat, fileInput, label, canImport, importing, closing,
                   insertVars>>

FormatAccepted(file) == Extension(file) = selectedImportFormat

\* A file with another extension is refused: the dialog stays as it was.
handleFileSelection(file) ==
    IF FormatAccepted(file)
    THEN canImport' = TRUE /\ label' = file
    ELSE UNCHANGED <<canImport, label>>

ChooseFile(file) ==
    /\ importOpen
    /\ fileInput' = file
    /\ handleFileSelection(file)
    /\ UNCHANGED <<importOpen, selectedImportFormat, importing, closing, insertVars>>

DropFile(file) ==
    /\ importOpen
    /\ handleFileSelection(file)
    /\ UNCHANGED <<importOpen, selectedImportFormat, fileInput, importing, closing, insertVars>>

\* The button sends what the input holds; with an empty input it does nothing.
\* While one import is out the dialog may be closed, and another begun.
StartImport ==
    /\ importOpen /\ canImport
    /\ importing = NoImport                  \* bound: one import in flight
    /\ fileInput # NoFile
    /\ importing' = [file |-> fileInput, format |-> selectedImportFormat]
    /\ canImport' = FALSE
    /\ UNCHANGED <<importOpen, selectedImportFormat, fileInput, label, closing, insertVars>>

ImportSucceeds ==
    /\ importing # NoImport
    /\ importing' = NoImport
    /\ closing' = TRUE
    /\ UNCHANGED <<importOpen, selectedImportFormat, fileInput, label, canImport, insertVars>>

ImportFails ==
    /\ importing # NoImport
    /\ importing' = NoImport
    /\ resetImportUI
    /\ UNCHANGED <<importOpen, selectedImportFormat, closing, insertVars>>

\* Two seconds later the dialog is closed, whichever import it is open for.
CloseAfterImport ==
    /\ closing
    /\ closing' = FALSE
    /\ importOpen' = FALSE
    /\ UNCHANGED <<selectedImportFormat, fileInput, label, canImport, importing, insertVars>>

(***************************************************************************)
(* The insertion dialog.  Its first opening asks for the columns; the      *)
(* answer is kept without a look at its status, and openInsertModal throws *)
(* on one that has no columns.                                             *)
(***************************************************************************)
SchemaAnswers == IF tableSchema = "null" THEN {"columns", "error", "null"} ELSE {tableSchema}

ClickInsert ==
    /\ NoDialog
    /\ tableSchema' \in SchemaAnswers
    /\ insertOpen' = (tableSchema' = "columns")
    /\ UNCHANGED <<importVars, inserting>>

closeInsertModal ==
    /\ insertOpen
    /\ insertOpen' = FALSE
    /\ UNCHANGED <<importVars, tableSchema, inserting>>

\* The button is disabled while an insertion is out.
SubmitInsert ==
    /\ insertOpen /\ ~inserting
    /\ inserting' = TRUE
    /\ UNCHANGED <<importVars, tableSchema, insertOpen>>

InsertSucceeds ==
    /\ inserting
    /\ inserting' = FALSE
    /\ insertOpen' = FALSE
    /\ UNCHANGED <<importVars, tableSchema>>

InsertFails ==
    /\ inserting
    /\ inserting' = FALSE
    /\ UNCHANGED <<importVars, tableSchema, insertOpen>>

FormsUser ==
    \/ \E format \in Formats : openImportModal(format)
    \/ \E file \in Files : ChooseFile(file) \/ DropFile(file)
    \/ closeImportModal \/ StartImport
    \/ ClickInsert \/ closeInsertModal \/ SubmitInsert

FormsNext ==
    \/ ImportSucceeds \/ ImportFails \/ CloseAfterImport
    \/ InsertSucceeds \/ InsertFails

\* A dialog that names a file, and lets it be imported, holds that file to be sent:
\* "Click to select or drag & drop file" (explorer.html:245).
ImportsTheFileNamed == canImport => fileInput = label

=============================================================================
