----------------------------- MODULE NodeRecovery -----------------------------
(***************************************************************************)
(* core/node_recovery/pod_recovery.py, with the routes that call it: an    *)
(* administrator approves or cancels the replacement of a node whose pod   *)
(* is stuck, by creating or deleting a K8ssandraTask through the           *)
(* Kubernetes API.  Every API call is a step of its own; administrators    *)
(* and the operator that runs the tasks act between them.                  *)
(*                                                                         *)
(* A task's name is its pod's, followed by the second it was created in    *)
(* (0: without one).  The API lists tasks in the order of their names, and *)
(* the code takes the first one of the pod.                                *)
(***************************************************************************)
EXTENDS Naturals

CONSTANTS Pod,       \* the pods of the Cassandra nodes
          Admin,     \* concurrent approve and cancel requests
          LastSecond \* bound on the clock

ASSUME BoundAssumption == LastSecond \in Nat \ {0}

Second == 0..LastSecond
NoTask == LastSecond + 1

VARIABLES tasks,    \* the Kubernetes API: tasks[p][k], the state of pod p's task of second k
          now,      \* the clock, in seconds
          call      \* what each request is doing, and what it was last answered

vars == <<tasks, now, call>>

TaskState == {"absent", "created", "active", "succeeded", "failed"}
Op == {"idle", "find", "delete", "create", "findToCancel", "deleteToCancel"}
Answer == {"none", "approved", "cancelled", "rejected", "error"}

TypeOK ==
  /\ tasks \in [Pod -> [Second -> TaskState]]
  /\ now \in Second
  /\ call \in [Admin -> [op : Op, pod : Pod, task : Second \cup {NoTask}, answer : Answer]]
  /\ \A a \in Admin : call[a].op \in {"delete", "create", "deleteToCancel"} <=> call[a].task # NoTask

Tasks(p) == {k \in Second : tasks[p][k] # "absent"}
Finished(p, k) == tasks[p][k] \in {"succeeded", "failed"}
Unfinished(p) == {k \in Second : tasks[p][k] \in {"created", "active"}}

(* A task may be there before: from an earlier run, or made by hand. *)
Init ==
  /\ tasks \in [Pod -> {[k \in Second |-> IF k = 0 THEN s ELSE "absent"] : s \in TaskState}]
  /\ now = 1
  /\ call \in [Admin -> {[op |-> "idle", pod |-> p, task |-> NoTask, answer |-> "none"] : p \in Pod}]

At(a, op) == call[a].op = op
Goto(a, op) == call' = [call EXCEPT ![a].op = op]
Reply(a, answer) == call' = [call EXCEPT ![a] = [@ EXCEPT !.op = "idle", !.task = NoTask, !.answer = answer]]

-------------------------------------------------------------------------------
(* approve_route: the pod is read; if it is gone (None has no metadata) or *)
(* has no cluster label, the request is answered with an error.            *)
Approve(a, p) ==
  /\ At(a, "idle")
  /\ \E found \in BOOLEAN :
       call' = [call EXCEPT ![a] = [op |-> IF found THEN "find" ELSE "idle", pod |-> p,
                                    task |-> NoTask,
                                    answer |-> IF found THEN "none" ELSE "error"]]
  /\ UNCHANGED <<tasks, now>>

(* _find_task_by_pod_name: the first listed, or none; a list call that     *)
(* fails is taken for an empty list.                                       *)
FirstTask(p) == {k \in Tasks(p) : \A j \in Tasks(p) : k <= j}
FindResults(p) == IF Tasks(p) = {} THEN {NoTask} ELSE FirstTask(p) \cup {NoTask}

(* As FindForApproval, restarting whatever task there is. *)
FindIgnoringState(a) ==
  LET p == call[a].pod IN
  /\ At(a, "find")
  /\ \E k \in FindResults(p) :
       IF k = NoTask THEN Reply(a, "error")
       ELSE call' = [call EXCEPT ![a].op = "delete", ![a].task = k]
  /\ UNCHANGED <<tasks, now>>

(* _create_replacenode_task looks for a task of the pod.  A running task,  *)
(* or one without a status yet, is left alone; a finished one is to be     *)
(* deleted and replaced.  With no task at all the new one's annotations    *)
(* read datetime, a local name that only the other branch imports: the     *)
(* request ends in an UnboundLocalError.                                   *)
FindForApproval(a) ==
  LET p == call[a].pod IN
  /\ At(a, "find")
  /\ \E k \in FindResults(p) :
       \/ k = NoTask /\ Reply(a, "error")
       \/ k \in Unfinished(p) /\ Reply(a, "approved")
       \/ /\ k # NoTask /\ Finished(p, k)
          /\ call' = [call EXCEPT ![a].op = "delete", ![a].task = k]
  /\ UNCHANGED <<tasks, now>>

(* _delete_task, for a task that may be gone by now.  A failure that is an *)
(* ApiException is logged; any other (the connection broke, perhaps after  *)
(* the task was deleted) ends the request with an error, as it does in the *)
(* look-up, where only an ApiException is taken for an empty list.         *)
Delete(p, k) == tasks' \in {tasks, [tasks EXCEPT ![p][k] = "absent"]}

(* As DeleteOld, the new task's name being forgotten. *)
DeleteOldUnnamed(a) ==
  /\ At(a, "delete")
  /\ Delete(call[a].pod, call[a].task)
  /\ call' = [call EXCEPT ![a].op = "create", ![a].task = NoTask]
  /\ UNCHANGED now

(* As DeleteOld, the new task taking the bare name. *)
DeleteOldSameName(a) ==
  /\ At(a, "delete")
  /\ Delete(call[a].pod, call[a].task)
  /\ call' = [call EXCEPT ![a].op = "create", ![a].task = 0]
  /\ UNCHANGED now

(* The old task is deleted and the new one named after the current second. *)
DeleteOld(a) ==
  /\ At(a, "delete")
  /\ Delete(call[a].pod, call[a].task)
  /\ \/ call' = [call EXCEPT ![a].op = "create", ![a].task = now]
     \/ Reply(a, "error")
  /\ UNCHANGED now

(* create_namespaced_custom_object: a name that is taken answers 409,      *)
(* which counts as a success; any other failure ends the request.          *)
Create(a) ==
  LET p == call[a].pod  k == call[a].task IN
  /\ At(a, "create")
  /\ \/ /\ tasks[p][k] = "absent"
        /\ tasks' = [tasks EXCEPT ![p][k] = "created"]
        /\ Reply(a, "approved")
     \/ /\ tasks[p][k] # "absent"
        /\ Reply(a, "approved")
        /\ UNCHANGED tasks
     \/ Reply(a, "error") /\ UNCHANGED tasks
  /\ UNCHANGED now

(* cancel_route looks for a task of the pod, in whatever state ... *)
Cancel(a, p) ==
  /\ At(a, "idle")
  /\ call' = [call EXCEPT ![a] = [op |-> "findToCancel", pod |-> p, task |-> NoTask, answer |-> "none"]]
  /\ UNCHANGED <<tasks, now>>

FindToCancel(a) ==
  /\ At(a, "findToCancel")
  /\ \E k \in FindResults(call[a].pod) :
       \/ k = NoTask /\ (Reply(a, "rejected") \/ Reply(a, "error"))
       \/ /\ k # NoTask
          /\ call' = [call EXCEPT ![a].op = "deleteToCancel", ![a].task = k]
  /\ UNCHANGED <<tasks, now>>

(* ... deletes it, and says it is cancelled. *)
DeleteToCancel(a) ==
  /\ At(a, "deleteToCancel")
  /\ Delete(call[a].pod, call[a].task)
  /\ Reply(a, "cancelled") \/ Reply(a, "error")
  /\ UNCHANGED now

-------------------------------------------------------------------------------
(* The operator: it starts a created task, and a task that runs ends;      *)
(* finished tasks expire.  Replacing a node takes minutes, so it ends      *)
(* neither within the second the task is named after nor before a request  *)
(* that has taken the same name has reached the API.                       *)
Start(p, k) == /\ tasks[p][k] = "created"
               /\ tasks' = [tasks EXCEPT ![p][k] = "active"]
               /\ UNCHANGED <<now, call>>

Finish(p, k) == /\ tasks[p][k] = "active" /\ k < now
                /\ \A a \in Admin : ~(At(a, "create") /\ call[a].pod = p /\ call[a].task = k)
                /\ \E s \in {"succeeded", "failed"} : tasks' = [tasks EXCEPT ![p][k] = s]
                /\ UNCHANGED <<now, call>>

Expire(p, k) == /\ Finished(p, k)
                /\ tasks' = [tasks EXCEPT ![p][k] = "absent"]
                /\ UNCHANGED <<now, call>>

Tick == /\ now < LastSecond
        /\ now' = now + 1
        /\ UNCHANGED <<tasks, call>>

Next == \/ \E a \in Admin :
             \/ \E p \in Pod : Approve(a, p) \/ Cancel(a, p)
             \/ FindForApproval(a) \/ DeleteOld(a) \/ Create(a)
             \/ FindToCancel(a) \/ DeleteToCancel(a)
        \/ \E p \in Pod, k \in Second : Start(p, k) \/ Finish(p, k) \/ Expire(p, k)
        \/ Tick

Spec == Init /\ [][Next]_vars
-------------------------------------------------------------------------------
(* The request of a is answered by this step. *)
Answered(a) == call[a].op # "idle" /\ call'[a].op = "idle"

(* An approval never deletes a task that still has work to do, whoever     *)
(* else deletes, creates and runs tasks since it looked.                   *)
ApprovalSparesUnfinished ==
  [][\A a \in Admin : At(a, "delete") /\ ~At(a, "delete")' =>
       \A p \in Pod : Unfinished(p) \subseteq Unfinished(p)']_vars

(* An approval that is answered as such leaves the pod with a task that    *)
(* is created or running, also when the name it chose was taken.           *)
ApprovedIsUnderWay ==
  [][\A a \in Admin : Answered(a) /\ call'[a].answer = "approved" =>
       Unfinished(call[a].pod)' # {}]_vars

(* "Recover: Creates a K8ssandraTask (replacenode) to fix the pod."        *)
(* (README.md:257): an approval that finds no task of its pod makes one.   *)
RecoverCreatesTask ==
  [][\A a \in Admin : At(a, "find") /\ Tasks(call[a].pod) = {} /\ Answered(a) =>
       call'[a].answer = "approved"]_vars

===============================================================================
