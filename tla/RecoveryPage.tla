---------------------------- MODULE RecoveryPage ----------------------------
(***************************************************************************)
(* The node recovery page (scripts/app/node_recovery.js): a dashboard read *)
(* from the server every five seconds and after each action, and two       *)
(* dialogs that share the variable selectedRecoveryId.                     *)
(*                                                                         *)
(* The server is what the page can see of it: the state of each job.  A    *)
(* status request carries what the server had when it answered; answers    *)
(* arrive in any order, so that the requests in flight are a set.          *)
(***************************************************************************)
EXTENDS Naturals, FiniteSets, Sequences, SequencesExt

CONSTANTS
    Jobs,
    NoJob,        \* null
    MaxPolls,     \* bound: status requests in flight
    MaxActions    \* bound: approvals and cancellations in flight

\* "ended" is either of HISTORY_STATES.
JobState == {"absent", "pending-approval", "active", "ended"}
ACTIVE_STATES == {"active"}

ASSUME JobsAssumption == NoJob \notin Jobs
ASSUME PageBounds == MaxPolls \in Nat \ {0} /\ MaxActions \in Nat

VARIABLES
    jobs,                \* the server: the state of each job
    cards,               \* the dashboard: the state each job is shown in
    polls,               \* status requests in flight, with their answers
    selectedRecoveryId,
    approveModal,        \* the job the approval dialog names, NoJob when hidden
    cancelModal,         \* the job the cancellation dialog was opened for
    actions              \* approvals and cancellations, until they are answered

recoveryVars == <<jobs, cards, polls, selectedRecoveryId, approveModal, cancelModal, actions>>
dialogs == <<selectedRecoveryId, approveModal, cancelModal>>

Dashboard == [Jobs -> JobState]
Empty == [j \in Jobs |-> "absent"]

\* A request, the job it is about, and whether the server has granted it.
Action == [kind: {"approve", "cancel"}, job: Jobs, granted: BOOLEAN]

RecoveryTypeOK ==
    /\ jobs \in Dashboard /\ cards \in Dashboard
    /\ polls \subseteq Dashboard /\ Cardinality(polls) <= MaxPolls
    /\ selectedRecoveryId \in Jobs \cup {NoJob}
    /\ approveModal \in Jobs \cup {NoJob} /\ cancelModal \in Jobs \cup {NoJob}
    /\ actions \in Seq(Action) /\ Len(actions) <= MaxActions

RecoveryInit ==
    /\ jobs \in [Jobs -> {"pending-approval", "absent"}]
    /\ cards = Empty
    /\ polls = {jobs}
    /\ selectedRecoveryId = NoJob /\ approveModal = NoJob /\ cancelModal = NoJob
    /\ actions = <<>>

(***************************************************************************)
(* The server's side: jobs appear, run and end.                            *)
(***************************************************************************)
Successors(state) ==
    IF state = "absent" THEN {"pending-approval"}
    ELSE IF state = "active" THEN {"ended"} ELSE {}

JobMoves(j) ==
    /\ \E next \in Successors(jobs[j]) : jobs' = [jobs EXCEPT ![j] = next]
    /\ UNCHANGED <<cards, polls, dialogs, actions>>

(***************************************************************************)
(* refreshDashboard.  A request that fails is taken for a server without   *)
(* jobs (the catch of fetchRecoveryStatus).                                *)
(***************************************************************************)
\* As Poll, but not while a dialog is open.
PollBetweenDialogs ==
    /\ approveModal = NoJob /\ cancelModal = NoJob
    /\ Cardinality(polls) + 1 < MaxPolls     \* bound: room is left for an action's
    /\ polls' = polls \cup {jobs}
    /\ UNCHANGED <<jobs, cards, dialogs, actions>>

Poll ==
    /\ Cardinality(polls) + 1 < MaxPolls     \* bound: room is left for an action's
    /\ polls' = polls \cup {jobs}
    /\ UNCHANGED <<jobs, cards, dialogs, actions>>

updateDashboard(answer) ==
    /\ cards' = answer
    /\ polls' = polls \ {answer}
    /\ UNCHANGED <<jobs, dialogs, actions>>

PollFails(answer) ==
    /\ cards' = Empty
    /\ polls' = polls \ {answer}
    /\ UNCHANGED <<jobs, dialogs, actions>>

(***************************************************************************)
(* The dialogs.  No handler looks whether one is open; the guard stands    *)
(* for the user, who clicks what is to be seen: an open dialog's overlay   *)
(* covers the cards (an assumption, see README.md).                        *)
(***************************************************************************)
NoDialogOpen == approveModal = NoJob /\ cancelModal = NoJob

openApproveModal(j) ==
    /\ NoDialogOpen
    /\ cards[j] = "pending-approval"
    /\ selectedRecoveryId' = j
    /\ approveModal' = j
    /\ UNCHANGED <<jobs, cards, polls, cancelModal, actions>>

openCancelModal(j) ==
    /\ NoDialogOpen
    /\ cards[j] \in {"pending-approval"} \cup ACTIVE_STATES
    /\ selectedRecoveryId' = j
    /\ cancelModal' = j
    /\ UNCHANGED <<jobs, cards, polls, approveModal, actions>>

HideApproveModal ==
    /\ selectedRecoveryId' = NoJob
    /\ approveModal' = NoJob
    /\ UNCHANGED cancelModal

\* As HideCancelModal, the selection being kept.
HideCancelModalOnly ==
    /\ cancelModal' = NoJob
    /\ UNCHANGED <<selectedRecoveryId, approveModal>>

HideCancelModal ==
    /\ selectedRecoveryId' = NoJob
    /\ cancelModal' = NoJob
    /\ UNCHANGED approveModal

closeApproveModal ==
    /\ approveModal # NoJob
    /\ HideApproveModal
    /\ UNCHANGED <<jobs, cards, polls, actions>>

closeCancelModal ==
    /\ cancelModal # NoJob
    /\ HideCancelModal
    /\ UNCHANGED <<jobs, cards, polls, actions>>

\* Confirming sends the selection and leaves the dialog as it is: it can be
\* confirmed again, or closed and another opened, before the answer.
Confirm(kind, modal) ==
    /\ modal # NoJob /\ selectedRecoveryId # NoJob
    /\ Len(actions) < MaxActions
    /\ actions' = Append(actions, [kind |-> kind, job |-> selectedRecoveryId,
                                     granted |-> FALSE])
    /\ UNCHANGED <<jobs, cards, polls, dialogs>>

confirmApprove == Confirm("approve", approveModal)
confirmCancel == Confirm("cancel", cancelModal)

\* What the server makes of a request: an approved job runs, unless its task is
\* slow to show; a cancelled one is gone, or still waits for an approval.
Outcomes(action) ==
    {[jobs EXCEPT ![action.job] = state] :
        state \in IF action.kind = "approve" THEN {jobs[action.job], "active"}
                                            ELSE {"absent", "pending-approval"}}

\* A reload: the page starts again; what it asked of the server is granted by then,
\* or never.
LoadRecovery ==
    /\ jobs' \in {jobs} \cup UNION {Outcomes(actions[i]) :
                                     i \in {n \in DOMAIN actions : ~actions[n].granted}}
    /\ cards' = Empty
    /\ polls' = {jobs'}
    /\ selectedRecoveryId' = NoJob /\ approveModal' = NoJob /\ cancelModal' = NoJob
    /\ actions' = <<>>

ServerGrants(i) ==
    /\ ~actions[i].granted
    /\ actions' = [actions EXCEPT ![i].granted = TRUE]
    /\ jobs' \in Outcomes(actions[i])
    /\ UNCHANGED <<cards, polls, dialogs>>

\* A good answer closes the dialog of its kind, whatever it has come to name,
\* and drops the selection; then the dashboard is read.
ActionSucceeds(i) ==
    /\ actions[i].granted
    /\ Cardinality(polls) < MaxPolls
    /\ polls' = polls \cup {jobs}
    /\ IF actions[i].kind = "approve" THEN HideApproveModal ELSE HideCancelModal
    /\ actions' = RemoveAt(actions, i)
    /\ UNCHANGED <<jobs, cards>>

\* A refusal, or a request or answer that is lost, is only shown.
ActionFails(i) ==
    /\ actions' = RemoveAt(actions, i)
    /\ UNCHANGED <<jobs, cards, polls, dialogs>>

RecoveryUser ==
    \/ \E j \in Jobs : openApproveModal(j) \/ openCancelModal(j)
    \/ closeApproveModal \/ closeCancelModal
    \/ confirmApprove \/ confirmCancel

RecoveryNext ==
    \/ \E j \in Jobs : JobMoves(j)
    \/ Poll \/ \E answer \in polls : updateDashboard(answer) \/ PollFails(answer)
    \/ \E i \in 1..MaxActions : i \in DOMAIN actions /\
          (ServerGrants(i) \/ ActionSucceeds(i) \/ ActionFails(i))

\* What a confirmation sends is the job its dialog names, although the two
\* dialogs share the selection and answers to earlier confirmations drop it
\* (openApproveModal, openCancelModal, closeApproveModal, closeCancelModal).
SelectionIsTheOneNamed ==
    selectedRecoveryId # NoJob =>
        /\ approveModal \in {NoJob, selectedRecoveryId}
        /\ cancelModal \in {NoJob, selectedRecoveryId}
        /\ ~NoDialogOpen

=============================================================================
