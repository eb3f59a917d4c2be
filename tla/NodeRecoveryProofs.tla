-------------------------- MODULE NodeRecoveryProofs --------------------------
(***************************************************************************)
(* Theorems about NodeRecovery, for any pods, any number of requests at a  *)
(* time and any bound on the clock.  The invariant says why a finished     *)
(* task that is being replaced cannot come back to life under its name:    *)
(* the names of tasks to be created are younger.                           *)
(***************************************************************************)
EXTENDS NodeRecovery, TLAPS

Creating(a, p, k) == At(a, "create") /\ call[a].pod = p /\ call[a].task = k

(* Task k of p has run, or will never: no request is about to create it,   *)
(* and none that names its task from now on takes its second.              *)
Past(p, k) == k < now /\ \A a \in Admin : ~Creating(a, p, k)

FinishedIsPast == \A p \in Pod, k \in Second : Finished(p, k) => Past(p, k)

(* What an approval is about to delete has finished, or is gone. *)
DeletingIsPast ==
  \A a \in Admin : At(a, "delete") =>
    LET p == call[a].pod  k == call[a].task IN k \notin Unfinished(p) /\ Past(p, k)

CreatingIsNamed == \A a \in Admin : At(a, "create") => call[a].task <= now

IInv == TypeOK /\ FinishedIsPast /\ DeletingIsPast /\ CreatingIsNamed

-------------------------------------------------------------------------------
LEMMA InitInvariant == Init => IInv
<1> SUFFICES ASSUME Init PROVE IInv
  OBVIOUS
<1>1. TypeOK
  BY BoundAssumption DEF Init, TypeOK, TaskState, Second, NoTask, Op, Answer
<1>2. \A a \in Admin : call[a].op = "idle"
  BY DEF Init
<1>3. FinishedIsPast
  BY <1>2, BoundAssumption DEF Init, FinishedIsPast, Finished, Past, Creating, At, Second
<1> QED
  BY <1>1, <1>2, <1>3 DEF IInv, DeletingIsPast, CreatingIsNamed, At

(* What a look-up answers is a task of the pod, or none. *)
LEMMA FoundIsThere ==
  ASSUME TypeOK, NEW p \in Pod, NEW k \in FindResults(p), k # NoTask
  PROVE  k \in Second /\ tasks[p][k] # "absent"
  BY DEF FindResults, FirstTask, Tasks

(* A step that changes one request's record, keeps its pod, and creates    *)
(* nothing new.                                                            *)
LEMMA CallStep ==
  ASSUME IInv, NEW a \in Admin, NEW c, UNCHANGED <<tasks, now>>,
         c \in [op : Op, pod : Pod, task : Second \cup {NoTask}, answer : Answer],
         c.op \in {"delete", "create", "deleteToCancel"} <=> c.task # NoTask,
         c.op # "create",
         c.op = "delete" => Finished(c.pod, c.task),
         call' = [call EXCEPT ![a] = c]
  PROVE  IInv'
<1>1. \A b \in Admin : call'[b] = IF b = a THEN c ELSE call[b]
  BY DEF IInv, TypeOK
<1>2. TypeOK'
  BY <1>1 DEF IInv, TypeOK
<1>3. \A b \in Admin : \A p, k : Creating(b, p, k)' => Creating(b, p, k)
  BY <1>1 DEF Creating, At
<1>4. \A p, k : Past(p, k) => Past(p, k)'
  BY <1>3 DEF Past
<1>5. FinishedIsPast'
  BY <1>4 DEF IInv, FinishedIsPast, Finished
<1>6. DeletingIsPast'
  <2> SUFFICES ASSUME NEW b \in Admin, At(b, "delete")'
               PROVE  /\ (call[b].task \notin Unfinished(call[b].pod))'
                      /\ Past(call[b].pod, call[b].task)'
    BY DEF DeletingIsPast
  <2>1. CASE b = a
    <3>1. c.task \in Second /\ c.pod \in Pod /\ Finished(c.pod, c.task)
      BY <1>1, <2>1 DEF At
    <3>2. Past(c.pod, c.task) /\ c.task \notin Unfinished(c.pod)
      BY <3>1 DEF IInv, FinishedIsPast, Finished, Unfinished
    <3> QED
      BY <1>1, <1>4, <2>1, <3>2 DEF Unfinished
  <2>2. CASE b # a
    BY <1>1, <1>4, <2>2 DEF IInv, DeletingIsPast, At, Unfinished
  <2> QED
    BY <2>1, <2>2
<1>7. CreatingIsNamed'
  BY <1>1 DEF IInv, CreatingIsNamed, At
<1> QED
  BY <1>2, <1>5, <1>6, <1>7 DEF IInv

(* A task that goes away, or that ends when nobody creates it. *)
LEMMA TaskStep ==
  ASSUME IInv, NEW p \in Pod, NEW k \in Second, NEW s \in TaskState,
         UNCHANGED <<now, call>>,
         tasks' = [tasks EXCEPT ![p][k] = s],
         s \in {"succeeded", "failed"} => Past(p, k),
         s \in {"created", "active"} => k \in Unfinished(p)
  PROVE  IInv'
<1>1. \A q \in Pod, j \in Second :
        tasks'[q][j] = IF q = p /\ j = k THEN s ELSE tasks[q][j]
  BY DEF IInv, TypeOK
<1>2. TypeOK'
  BY DEF IInv, TypeOK
<1>3. \A q, j : Past(q, j)' <=> Past(q, j)
  BY DEF Past, Creating, At
<1>4. FinishedIsPast'
  BY <1>1, <1>3 DEF IInv, FinishedIsPast, Finished
<1>5. \A q \in Pod : Unfinished(q)' \subseteq Unfinished(q)
  BY <1>1 DEF Unfinished
<1>6. DeletingIsPast'
  <2> SUFFICES ASSUME NEW b \in Admin, At(b, "delete")
               PROVE  /\ call[b].task \notin Unfinished(call[b].pod)'
                      /\ Past(call[b].pod, call[b].task)'
    BY DEF DeletingIsPast, At
  <2>1. call[b].pod \in Pod
    BY DEF IInv, TypeOK
  <2> QED
    BY <1>3, <1>5, <2>1 DEF IInv, DeletingIsPast, At
<1> QED
  BY <1>2, <1>4, <1>6 DEF IInv, CreatingIsNamed, At

LEMMA ApproveStep == ASSUME IInv, NEW a \in Admin, NEW p \in Pod, Approve(a, p) PROVE IInv'
<1> PICK found \in BOOLEAN :
      call' = [call EXCEPT ![a] = [op |-> IF found THEN "find" ELSE "idle", pod |-> p,
                                   task |-> NoTask,
                                   answer |-> IF found THEN "none" ELSE "error"]]
  BY DEF Approve
<1> DEFINE c == [op |-> IF found THEN "find" ELSE "idle", pod |-> p, task |-> NoTask,
                 answer |-> IF found THEN "none" ELSE "error"]
<1>1. /\ c \in [op : Op, pod : Pod, task : Second \cup {NoTask}, answer : Answer]
      /\ c.op \notin {"delete", "create", "deleteToCancel"} /\ c.task = NoTask
  BY DEF Op, Answer
<1>2. UNCHANGED <<tasks, now>> /\ call' = [call EXCEPT ![a] = c]
  BY DEF Approve
<1> HIDE DEF c
<1> QED
  BY <1>1, <1>2, CallStep

LEMMA CancelStep == ASSUME IInv, NEW a \in Admin, NEW p \in Pod, Cancel(a, p) PROVE IInv'
<1> DEFINE c == [op |-> "findToCancel", pod |-> p, task |-> NoTask, answer |-> "none"]
<1>1. /\ c \in [op : Op, pod : Pod, task : Second \cup {NoTask}, answer : Answer]
      /\ c.op \notin {"delete", "create", "deleteToCancel"} /\ c.task = NoTask
  BY DEF Op, Answer
<1>2. UNCHANGED <<tasks, now>> /\ call' = [call EXCEPT ![a] = c]
  BY DEF Cancel
<1> HIDE DEF c
<1> QED
  BY <1>1, <1>2, CallStep

(* A request is answered and changes nothing else. *)
LEMMA ReplyStep ==
  ASSUME IInv, NEW a \in Admin, NEW answer \in Answer, Reply(a, answer), UNCHANGED <<tasks, now>>
  PROVE  IInv'
<1> DEFINE c == [call[a] EXCEPT !.op = "idle", !.task = NoTask, !.answer = answer]
<1>1. /\ c \in [op : Op, pod : Pod, task : Second \cup {NoTask}, answer : Answer]
      /\ c.op \notin {"delete", "create", "deleteToCancel"} /\ c.task = NoTask
  BY DEF IInv, TypeOK, Op
<1>2. call' = [call EXCEPT ![a] = c]
  BY DEF Reply
<1> HIDE DEF c
<1> QED
  BY <1>1, <1>2, CallStep

(* A request goes on with the task it has found. *)
LEMMA FoundStep ==
  ASSUME IInv, NEW a \in Admin, NEW k \in Second, NEW op \in {"delete", "deleteToCancel"},
         op = "delete" => Finished(call[a].pod, k),
         call' = [call EXCEPT ![a].op = op, ![a].task = k], UNCHANGED <<tasks, now>>
  PROVE  IInv'
<1> DEFINE c == [call[a] EXCEPT !.op = op, !.task = k]
<1>1. /\ c \in [op : Op, pod : Pod, task : Second \cup {NoTask}, answer : Answer]
      /\ c.op = op /\ c.task = k /\ c.pod = call[a].pod
  BY DEF IInv, TypeOK, Op
<1>2. call' = [call EXCEPT ![a] = c]
  BY DEF IInv, TypeOK
<1>3. k # NoTask
  BY BoundAssumption DEF Second, NoTask
<1> HIDE DEF c
<1> QED
  BY <1>1, <1>2, <1>3, CallStep

LEMMA FindForApprovalStep == ASSUME IInv, NEW a \in Admin, FindForApproval(a) PROVE IInv'
<1> DEFINE p == call[a].pod
<1>1. p \in Pod
  BY DEF IInv, TypeOK
<1> PICK k \in FindResults(p) :
      \/ k = NoTask /\ Reply(a, "error")
      \/ k \in Unfinished(p) /\ Reply(a, "approved")
      \/ k # NoTask /\ Finished(p, k) /\ call' = [call EXCEPT ![a].op = "delete", ![a].task = k]
  BY DEF FindForApproval
<1>2. UNCHANGED <<tasks, now>>
  BY DEF FindForApproval
<1>3. CASE Reply(a, "error") \/ Reply(a, "approved")
  BY <1>2, <1>3, ReplyStep DEF Answer
<1>4. CASE k # NoTask /\ Finished(p, k)
             /\ call' = [call EXCEPT ![a].op = "delete", ![a].task = k]
  <2>1. k \in Second
    BY <1>1, <1>4, FoundIsThere DEF IInv
  <2> QED
    BY <1>2, <1>4, <2>1, FoundStep
<1> QED
  BY <1>3, <1>4

LEMMA FindToCancelStep == ASSUME IInv, NEW a \in Admin, FindToCancel(a) PROVE IInv'
<1>1. call[a].pod \in Pod
  BY DEF IInv, TypeOK
<1> PICK k \in FindResults(call[a].pod) :
      \/ k = NoTask /\ (Reply(a, "rejected") \/ Reply(a, "error"))
      \/ k # NoTask /\ call' = [call EXCEPT ![a].op = "deleteToCancel", ![a].task = k]
  BY DEF FindToCancel
<1>2. UNCHANGED <<tasks, now>>
  BY DEF FindToCancel
<1>3. CASE k = NoTask
  BY <1>2, <1>3, ReplyStep DEF Answer
<1>4. CASE k # NoTask
  <2>1. k \in Second
    BY <1>1, <1>4, FoundIsThere DEF IInv
  <2> QED
    BY <1>2, <1>4, <2>1, FoundStep
<1> QED
  BY <1>3, <1>4

(* A deletion alone keeps the invariant: nothing is unfinished by it. *)
LEMMA DeletionStep ==
  ASSUME IInv, NEW p \in Pod, NEW k \in Second, Delete(p, k)
  PROVE  /\ tasks' \in [Pod -> [Second -> TaskState]]
         /\ \A q \in Pod, j \in Second :
              tasks'[q][j] = tasks[q][j] \/ (q = p /\ j = k /\ tasks'[q][j] = "absent")
<1>1. CASE tasks' = tasks
  BY <1>1 DEF IInv, TypeOK
<1>2. CASE tasks' = [tasks EXCEPT ![p][k] = "absent"]
  BY <1>2 DEF IInv, TypeOK, TaskState
<1> QED
  BY <1>1, <1>2 DEF Delete

(* A request is answered in the step of a deletion. *)
LEMMA DeleteReplyStep ==
  ASSUME IInv, NEW a \in Admin, NEW p \in Pod, NEW k \in Second, NEW answer \in Answer,
         Delete(p, k), now' = now, Reply(a, answer)
  PROVE  IInv'
<1>0. now' = now /\ Reply(a, answer)
  OBVIOUS
<1>1. \A b \in Admin : /\ call'[b].pod = call[b].pod
                       /\ call'[b].op = IF b = a THEN "idle" ELSE call[b].op
                       /\ call'[b].task = IF b = a THEN NoTask ELSE call[b].task
  BY <1>0 DEF IInv, TypeOK, Reply
<1>2. /\ tasks' \in [Pod -> [Second -> TaskState]]
      /\ \A q \in Pod, j \in Second :
           tasks'[q][j] = tasks[q][j] \/ (q = p /\ j = k /\ tasks'[q][j] = "absent")
  BY DeletionStep
<1>3. TypeOK'
  <2>1. call' \in [Admin -> [op : Op, pod : Pod, task : Second \cup {NoTask}, answer : Answer]]
    BY <1>0 DEF IInv, TypeOK, Op, Reply
  <2> QED
    BY <1>0, <1>1, <1>2, <2>1 DEF IInv, TypeOK
<1>4. \A q \in Pod, j \in Second : Past(q, j) => Past(q, j)'
  BY <1>0, <1>1 DEF Past, Creating, At
<1>5. FinishedIsPast'
  BY <1>2, <1>4 DEF IInv, FinishedIsPast, Finished
<1>6. DeletingIsPast'
  <2> SUFFICES ASSUME NEW b \in Admin, At(b, "delete")'
               PROVE  /\ (call[b].task \notin Unfinished(call[b].pod))'
                      /\ Past(call[b].pod, call[b].task)'
    BY DEF DeletingIsPast
  <2>1. b # a /\ At(b, "delete") /\ call'[b].task = call[b].task /\ call'[b].pod = call[b].pod
    BY <1>1 DEF At
  <2>2. call[b].pod \in Pod /\ call[b].task \in Second
    BY <2>1 DEF IInv, TypeOK, At
  <2> QED
    BY <1>2, <1>4, <2>1, <2>2 DEF IInv, DeletingIsPast, Unfinished
<1>7. CreatingIsNamed'
  BY <1>0, <1>1 DEF IInv, CreatingIsNamed, At
<1> QED
  BY <1>3, <1>5, <1>6, <1>7 DEF IInv

(* The old task is deleted and a new one named. *)
LEMMA RenamedStep ==
  ASSUME IInv, NEW a \in Admin, DeleteOld(a),
         call' = [call EXCEPT ![a].op = "create", ![a].task = now]
  PROVE  IInv'
<1> DEFINE p == call[a].pod
           k == call[a].task
<1>0. /\ At(a, "delete") /\ Delete(p, k) /\ now' = now /\ p \in Pod /\ k \in Second
      /\ call' = [call EXCEPT ![a].op = "create", ![a].task = now]
  BY DEF IInv, TypeOK, DeleteOld, At
<1>1. \A b \in Admin : /\ call'[b].pod = call[b].pod
                       /\ call'[b].op = IF b = a THEN "create" ELSE call[b].op
                       /\ call'[b].task = IF b = a THEN now ELSE call[b].task
  BY <1>0 DEF IInv, TypeOK
<1>2. /\ tasks' \in [Pod -> [Second -> TaskState]]
      /\ \A q \in Pod, j \in Second :
           tasks'[q][j] = tasks[q][j] \/ (q = p /\ j = k /\ tasks'[q][j] = "absent")
  BY <1>0, DeletionStep
<1>3. TypeOK'
  <2>1. now # NoTask /\ now \in Second
    BY BoundAssumption DEF IInv, TypeOK, Second, NoTask
  <2>2. call' \in [Admin -> [op : Op, pod : Pod, task : Second \cup {NoTask}, answer : Answer]]
    BY <1>0, <2>1 DEF IInv, TypeOK, Op
  <2> QED
    BY <1>0, <1>1, <1>2, <2>1, <2>2 DEF IInv, TypeOK
<1>4. \A q \in Pod, j \in Second : Past(q, j) => Past(q, j)'
  BY <1>0, <1>1 DEF Past, Creating, At, Second, IInv, TypeOK
<1>5. FinishedIsPast'
  BY <1>2, <1>4 DEF IInv, FinishedIsPast, Finished
<1>6. DeletingIsPast'
  <2> SUFFICES ASSUME NEW b \in Admin, At(b, "delete")'
               PROVE  /\ (call[b].task \notin Unfinished(call[b].pod))'
                      /\ Past(call[b].pod, call[b].task)'
    BY DEF DeletingIsPast
  <2>0. call'[b].op = "delete"
    BY DEF At
  <2>1. b # a /\ At(b, "delete") /\ call'[b].task = call[b].task /\ call'[b].pod = call[b].pod
    BY ONLY <1>1, <2>0, b \in Admin DEF At
  <2>2. call[b].pod \in Pod /\ call[b].task \in Second
    BY <2>1 DEF IInv, TypeOK, At
  <2> QED
    BY <1>2, <1>4, <2>1, <2>2 DEF IInv, DeletingIsPast, Unfinished
<1>7. CreatingIsNamed'
  BY <1>0, <1>1 DEF IInv, TypeOK, CreatingIsNamed, At, Second
<1> QED
  BY <1>3, <1>5, <1>6, <1>7 DEF IInv

LEMMA DeleteOldStep == ASSUME IInv, NEW a \in Admin, DeleteOld(a) PROVE IInv'
<1>1. call[a].pod \in Pod /\ call[a].task \in Second
  BY DEF IInv, TypeOK, DeleteOld, At
<1> QED
  BY <1>1, RenamedStep, DeleteReplyStep DEF DeleteOld, Answer

LEMMA DeleteToCancelStep == ASSUME IInv, NEW a \in Admin, DeleteToCancel(a) PROVE IInv'
<1>1. call[a].pod \in Pod /\ call[a].task \in Second
  BY DEF IInv, TypeOK, DeleteToCancel, At
<1> QED
  BY <1>1, DeleteReplyStep DEF DeleteToCancel, Answer

(* The new task is one that nobody is about to delete. *)
LEMMA CreateStep == ASSUME IInv, NEW a \in Admin, Create(a) PROVE IInv'
<1> DEFINE p == call[a].pod
           k == call[a].task
<1>0. At(a, "create") /\ p \in Pod /\ k \in Second /\ now' = now /\ Creating(a, p, k)
  BY DEF IInv, TypeOK, Create, At, Creating
<1>1. CASE UNCHANGED tasks /\ (Reply(a, "approved") \/ Reply(a, "error"))
  BY <1>0, <1>1, ReplyStep DEF Answer
<1>2. CASE tasks' = [tasks EXCEPT ![p][k] = "created"] /\ Reply(a, "approved")
  <2>1. \A b \in Admin : /\ call'[b].pod = call[b].pod
                         /\ call'[b].op = IF b = a THEN "idle" ELSE call[b].op
                         /\ call'[b].task = IF b = a THEN NoTask ELSE call[b].task
    BY <1>2 DEF IInv, TypeOK, Reply
  <2>2. \A q \in Pod, j \in Second :
          tasks'[q][j] = IF q = p /\ j = k THEN "created" ELSE tasks[q][j]
    BY <1>0, <1>2 DEF IInv, TypeOK
  <2>3. TypeOK'
    <3>1. call' \in [Admin -> [op : Op, pod : Pod, task : Second \cup {NoTask}, answer : Answer]]
      BY <1>2 DEF IInv, TypeOK, Op, Answer, Reply
    <3>2. tasks' \in [Pod -> [Second -> TaskState]]
      BY <1>0, <1>2 DEF IInv, TypeOK, TaskState
    <3> QED
      BY <1>0, <2>1, <3>1, <3>2 DEF IInv, TypeOK
  <2>4. \A q \in Pod, j \in Second : Past(q, j) => Past(q, j)'
    BY <1>0, <2>1 DEF Past, Creating, At
  <2>5. FinishedIsPast'
    BY <2>2, <2>4 DEF IInv, FinishedIsPast, Finished
  <2>6. DeletingIsPast'
    <3> SUFFICES ASSUME NEW b \in Admin, At(b, "delete")'
                 PROVE  /\ (call[b].task \notin Unfinished(call[b].pod))'
                        /\ Past(call[b].pod, call[b].task)'
      BY DEF DeletingIsPast
    <3>1. At(b, "delete") /\ call'[b].task = call[b].task /\ call'[b].pod = call[b].pod
      BY <2>1 DEF At
    <3>2. call[b].pod \in Pod /\ call[b].task \in Second
      BY <3>1 DEF IInv, TypeOK, At
    <3>3. call[b].task \notin Unfinished(call[b].pod) /\ Past(call[b].pod, call[b].task)
      BY <3>1 DEF IInv, DeletingIsPast
    <3>4. ~(call[b].pod = p /\ call[b].task = k)
      BY <1>0, <3>3 DEF Past
    <3> QED
      BY <2>2, <2>4, <3>1, <3>2, <3>3, <3>4 DEF Unfinished
  <2>7. CreatingIsNamed'
    BY <1>0, <2>1 DEF IInv, CreatingIsNamed, At
  <2> QED
    BY <2>3, <2>5, <2>6, <2>7 DEF IInv
<1> QED
  BY <1>1, <1>2 DEF Create

(* The operator and the clock. *)
LEMMA OperatorStep ==
  ASSUME IInv, NEW p \in Pod, NEW k \in Second, Start(p, k) \/ Finish(p, k) \/ Expire(p, k)
  PROVE  IInv'
<1>1. CASE Start(p, k)
  BY <1>1, TaskStep DEF Start, TaskState, Unfinished
<1>2. CASE Finish(p, k)
  <2>1. Past(p, k)
    BY <1>2 DEF Finish, Past, Creating
  <2> QED
    BY <1>2, <2>1, TaskStep DEF Finish, TaskState
<1>3. CASE Expire(p, k)
  BY <1>3, TaskStep DEF Expire, TaskState
<1> QED
  BY <1>1, <1>2, <1>3

LEMMA TickStep == ASSUME IInv, Tick PROVE IInv'
<1>1. now' \in Second /\ now < now' /\ UNCHANGED <<tasks, call>> /\ now \in Second
  BY BoundAssumption DEF IInv, TypeOK, Tick, Second
<1>2. TypeOK'
  BY <1>1 DEF IInv, TypeOK
<1>3. \A p \in Pod, k \in Second : Past(p, k) => Past(p, k)'
  BY <1>1 DEF Past, Creating, At, Second
<1>4. FinishedIsPast'
  BY <1>1, <1>3 DEF IInv, FinishedIsPast, Finished
<1>5. \A a \in Admin : At(a, "delete") => call[a].pod \in Pod /\ call[a].task \in Second
  BY DEF IInv, TypeOK, At
<1>6. DeletingIsPast'
  BY <1>1, <1>3, <1>5 DEF IInv, DeletingIsPast, Unfinished, At
<1>7. CreatingIsNamed'
  <2>1. \A a \in Admin : At(a, "create") => call[a].task \in Second
    BY DEF IInv, TypeOK, At
  <2> QED
    BY <1>1, <2>1 DEF IInv, CreatingIsNamed, At, Second
<1> QED
  BY <1>2, <1>4, <1>6, <1>7 DEF IInv

LEMMA StepInvariant == IInv /\ [Next]_vars => IInv'
<1> SUFFICES ASSUME IInv, [Next]_vars PROVE IInv'
  OBVIOUS
<1>1. CASE UNCHANGED vars
  BY <1>1 DEF vars, IInv, TypeOK, FinishedIsPast, DeletingIsPast, CreatingIsNamed, Finished,
              Past, Creating, At, Unfinished
<1> QED
  BY <1>1, ApproveStep, CancelStep, FindForApprovalStep, FindToCancelStep, DeleteOldStep,
     DeleteToCancelStep, CreateStep, OperatorStep, TickStep DEF Next

-------------------------------------------------------------------------------
(* The invariant holds in every reachable state. *)
THEOREM Invariance == Spec => []IInv
  BY InitInvariant, StepInvariant, PTL DEF Spec

(* Tasks, clock and requests keep their types, and a request has a task in *)
(* hand exactly while it deletes or creates one.                           *)
THEOREM TypeCorrect == Spec => []TypeOK
<1>1. IInv => TypeOK
  BY DEF IInv
<1> QED
  BY Invariance, <1>1, PTL

(* An approval never deletes a task that still has work to do. *)
THEOREM ApprovalSpares == Spec => ApprovalSparesUnfinished
<1> DEFINE Spared == \A a \in Admin : At(a, "delete") /\ ~At(a, "delete")' =>
                       \A p \in Pod : Unfinished(p) \subseteq Unfinished(p)'
<1>1. IInv /\ [Next]_vars => [Spared]_vars
  <2> SUFFICES ASSUME IInv, Next, NEW a \in Admin, At(a, "delete"), ~At(a, "delete")',
                      NEW p \in Pod
               PROVE  Unfinished(p) \subseteq Unfinished(p)'
    BY DEF vars, At
  <2>0. call[a].pod \in Pod /\ call[a].task \in Second
          /\ call[a].task \notin Unfinished(call[a].pod)
    BY DEF IInv, TypeOK, DeletingIsPast, At
  <2>1. DeleteOld(a)
    <3>1. ASSUME NEW b \in Admin, b # a,
                 \/ \E q \in Pod : Approve(b, q) \/ Cancel(b, q)
                 \/ FindForApproval(b) \/ DeleteOld(b) \/ Create(b)
                 \/ FindToCancel(b) \/ DeleteToCancel(b)
          PROVE  FALSE
      BY <3>1 DEF Approve, Cancel, FindForApproval, DeleteOld, Create, FindToCancel,
                  DeleteToCancel, Reply, At, IInv, TypeOK
    <3>2. call' # call
      BY DEF At
    <3> QED
      BY <3>1, <3>2 DEF Next, Approve, Cancel, FindForApproval, Create, FindToCancel,
                  DeleteToCancel, Start, Finish, Expire, Tick, At
  <2> QED
    BY <2>0, <2>1, DeletionStep DEF DeleteOld, Unfinished
<1> QED
  BY Invariance, <1>1, PTL DEF Spec, ApprovalSparesUnfinished

(* An approval answered as such leaves its pod with a task that will work. *)
THEOREM ApprovalIsUnderWay == Spec => ApprovedIsUnderWay
<1> DEFINE UnderWay == \A a \in Admin : Answered(a) /\ call'[a].answer = "approved" =>
                         Unfinished(call[a].pod)' # {}
<1>1. IInv /\ [Next]_vars => [UnderWay]_vars
  <2> SUFFICES ASSUME IInv, Next, NEW a \in Admin, Answered(a), call'[a].answer = "approved"
               PROVE  Unfinished(call[a].pod)' # {}
    OBVIOUS
  <2>0. call[a].pod \in Pod
    BY DEF IInv, TypeOK
  <2>1. FindForApproval(a) \/ Create(a)
    <3>1. ASSUME NEW b \in Admin, b # a,
                 \/ \E q \in Pod : Approve(b, q) \/ Cancel(b, q)
                 \/ FindForApproval(b) \/ DeleteOld(b) \/ Create(b)
                 \/ FindToCancel(b) \/ DeleteToCancel(b)
          PROVE  FALSE
      BY <3>1 DEF Answered, Approve, Cancel, FindForApproval, DeleteOld, Create, FindToCancel,
                  DeleteToCancel, Reply, At, IInv, TypeOK
    <3>2. ASSUME \/ \E q \in Pod : Approve(a, q) \/ Cancel(a, q)
                 \/ DeleteOld(a) \/ FindToCancel(a) \/ DeleteToCancel(a)
          PROVE  FALSE
      BY <3>2 DEF Answered, Approve, Cancel, DeleteOld, FindToCancel,
                  DeleteToCancel, Reply, At, IInv, TypeOK
    <3>3. call' # call
      BY DEF Answered
    <3> QED
      BY <3>1, <3>2, <3>3 DEF Next, Start, Finish, Expire, Tick
  <2>2. CASE FindForApproval(a)
    <3> DEFINE p == call[a].pod
    <3>0. call'[a].pod = p /\ UNCHANGED tasks
      BY <2>2 DEF FindForApproval, Reply, IInv, TypeOK
    <3>1. PICK k \in FindResults(p) :
            \/ k = NoTask /\ Reply(a, "error")
            \/ k \in Unfinished(p) /\ Reply(a, "approved")
            \/ /\ k # NoTask /\ Finished(p, k)
               /\ call' = [call EXCEPT ![a].op = "delete", ![a].task = k]
      BY <2>2 DEF FindForApproval
    <3>2. k \in Unfinished(p)
      BY <3>1 DEF Answered, Reply, IInv, TypeOK
    <3> QED
      BY <3>0, <3>2 DEF Unfinished
  <2>3. CASE Create(a)
    <3> DEFINE p == call[a].pod
               k == call[a].task
    <3>0. call'[a].pod = p
      BY <2>3 DEF Create, Reply, IInv, TypeOK
    <3>1. k \in Second /\ Creating(a, p, k)
      BY <2>3 DEF IInv, TypeOK, Create, At, Creating
    <3>2. CASE tasks' = [tasks EXCEPT ![p][k] = "created"]
      BY <2>0, <3>0, <3>1, <3>2 DEF Unfinished, IInv, TypeOK
    <3>3. CASE tasks[p][k] # "absent" /\ UNCHANGED tasks
      <4>1. ~Finished(p, k)
        BY <2>0, <3>1 DEF IInv, FinishedIsPast, Past
      <4>2. tasks[p][k] \in TaskState
        BY <2>0, <3>1 DEF IInv, TypeOK
      <4> QED
        BY <3>0, <3>1, <3>3, <4>1, <4>2 DEF Finished, TaskState, Unfinished
    <3>4. ~Reply(a, "error")
      BY DEF Reply, IInv, TypeOK
    <3> QED
      BY <2>3, <3>2, <3>3, <3>4 DEF Create
  <2> QED
    BY <2>1, <2>2, <2>3
<1> QED
  BY Invariance, <1>1, PTL DEF Spec, ApprovedIsUnderWay
===============================================================================
