---------------------------- MODULE RequestHandlers ----------------------------
(***************************************************************************)
(* Two of the API's request handlers that do several things to a service   *)
(* before they answer: the import of a file (BulkImport) and the approval  *)
(* and cancelling of node recoveries (NodeRecovery).  They share no state, *)
(* so a behaviour is of one of them, and the other's state stays at a      *)
(* value of no consequence.                                                *)
(***************************************************************************)
EXTENDS BulkImport, NodeRecovery

VARIABLE handler  \* the handler this behaviour is of

Handler == {"import", "recovery"}

(* While the recoveries are looked at, no file is imported, and conversely. *)
NoImport ==
  /\ kind = [r \in Row |-> "good"] /\ shape = [r \in Row |-> CHOOSE s \in Shape : TRUE]
  /\ pc = "row" /\ row = 1 /\ query = NoQuery
  /\ batch = {} /\ counted = {} /\ applied = {} /\ dropped = {}
  /\ success = 0 /\ errors = 0

NoRecovery ==
  /\ tasks = [p \in Pod |-> [k \in Second |-> "absent"]]
  /\ now = 1
  /\ call = [a \in Admin |-> [op |-> "idle", pod |-> CHOOSE p \in Pod : TRUE, task |-> NoTask,
                              answer |-> "none"]]

HandlersInit ==
  \/ handler = "import" /\ ImportInit /\ NoRecovery
  \/ handler = "recovery" /\ Init /\ NoImport

(* The import runs in one thread to its end. *)
ImportStep == handler = "import" /\ ImportNext /\ UNCHANGED <<handler, vars>>

RecoveryStep == handler = "recovery" /\ Next /\ UNCHANGED <<handler, importVars>>

(* execute_cql returns or times out, so the import's thread goes on; of    *)
(* administrators, operator and Kubernetes API nothing is assumed.         *)
HandlersSpec ==
  /\ HandlersInit /\ [][ImportStep \/ RecoveryStep]_<<handler, importVars, vars>>
  /\ WF_<<handler, importVars, vars>>(ImportStep)
-------------------------------------------------------------------------------
(* Every import ends, whatever the file and however many batches fail.     *)
ImportEnds == handler = "import" => Terminates

===============================================================================
