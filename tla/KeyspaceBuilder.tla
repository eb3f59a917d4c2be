--------------------------- MODULE KeyspaceBuilder ---------------------------
(***************************************************************************)
(* The keyspace builder (scripts/app/keyspace-builder.js): a form, the     *)
(* statement it stands for, shown as it changes, and its execution once it *)
(* is confirmed.  In mode "alter" the form is filled in from the keyspace. *)
(*                                                                         *)
(* A name is good, bad (what validateKsName refuses) or empty; a           *)
(* replication factor is a number, 0 for an empty input.  The text of the  *)
(* dialog is left out: it is the preview's when the dialog opens, and what *)
(* is sent is read from the preview.                                       *)
(***************************************************************************)
EXTENDS Naturals, Sequences, SequencesExt, FiniteSets

CONSTANTS
    DCs,           \* datacenter names
    NoDC,          \* the empty name
    DefaultDC,     \* 'datacenter1'
    Factors,       \* replication factors
    MaxChanges     \* bound: changes of the form

ASSUME KeyspaceBounds ==
    /\ IsFiniteSet(DCs) /\ DefaultDC \in DCs /\ NoDC \notin DCs
    /\ Factors \subseteq Nat /\ {0, 1, 3} \subseteq Factors
    /\ MaxChanges \in Nat

Strategies == {"SimpleStrategy", "NetworkTopologyStrategy"}

VARIABLES
    ksMode,
    ksName, strategy, rf, durable,
    datacenters,     \* names and factors, in the order they were added
    ksPreview,       \* cqlPreview
    createDisabled,
    ksModal,         \* shown or not
    deploying,       \* the statement in flight, or Nothing
    deployDisabled,
    deployed,        \* the second and a half after a success
    keyspace,        \* the server: the keyspace's settings, or Nothing
    changes

ksForm == <<ksName, strategy, rf, durable, datacenters>>
ksOutput == <<ksPreview, createDisabled>>
ksDialog == <<ksModal, deploying, deployDisabled, deployed>>
keyspaceVars == <<ksMode, ksForm, ksOutput, ksDialog, keyspace, changes>>

Nothing == [class |-> "none"]

\* What a form says of the replication: a datacenter without a name or a factor is
\* left out, and of two with a name the later one counts.
Replication(class, factor, dcs) ==
    IF class = "SimpleStrategy"
    THEN [class |-> class, rf |-> IF factor = 0 THEN 1 ELSE factor, dcs |-> <<>>]
    ELSE LET listed == {i \in DOMAIN dcs : dcs[i].name # NoDC /\ dcs[i].rf # 0}
             Latest(name) == CHOOSE i \in listed :
                 dcs[i].name = name /\ \A k \in listed : dcs[k].name = name => k <= i
         IN [class |-> class, rf |-> 0,
             dcs |-> [name \in {dcs[i].name : i \in listed} |-> dcs[Latest(name)].rf]]

\* The statement of updateState: durable writes are mentioned to turn them off.
Statement(name, class, factor, writes, dcs) ==
    [named |-> name # "empty", replication |-> Replication(class, factor, dcs),
     durable |-> IF writes THEN "default" ELSE "false"]

FormStatement == Statement(ksName, strategy, rf, durable, datacenters)

updateState ==
    /\ ksPreview' = FormStatement'
    /\ createDisabled' = (ksName' # "good")

\* loadExistingKeyspace: the form an existing keyspace is loaded into.  A strategy
\* the page does not know becomes a simple one of factor 3.
Filled(ks) ==
    [strategy |-> IF ks.replication.class \in Strategies THEN ks.replication.class
                  ELSE "SimpleStrategy",
     rf |-> IF ks.replication.class = "SimpleStrategy" THEN ks.replication.rf ELSE 3,
     durable |-> ks.durable,
     dcs |-> IF ks.replication.class # "NetworkTopologyStrategy" THEN <<>>
             ELSE LET names == SetToSeq(DOMAIN ks.replication.dcs)
                  IN [i \in DOMAIN names |-> [name |-> names[i],
                                              rf |-> ks.replication.dcs[names[i]]]]]

Blank == [strategy |-> "SimpleStrategy", rf |-> 3, durable |-> TRUE, dcs |-> <<>>]

ExistingKeyspaces ==
    {[replication |-> r, durable |-> d] :
        d \in BOOLEAN,
        r \in {[class |-> "LocalStrategy", rf |-> 0, dcs |-> <<>>],
               [class |-> "SimpleStrategy", rf |-> 1, dcs |-> <<>>],
               [class |-> "NetworkTopologyStrategy", rf |-> 0, dcs |-> [dc \in DCs |-> 3]]}}

KeyspaceInit ==
    /\ keyspace \in ExistingKeyspaces \cup {Nothing}
    /\ ksMode = IF keyspace = Nothing THEN "create" ELSE "alter"
    /\ ksName = IF keyspace = Nothing THEN "empty" ELSE "good"
    /\ LET start == IF keyspace = Nothing THEN Blank ELSE Filled(keyspace)
       IN /\ strategy = start.strategy /\ rf = start.rf
          /\ durable = start.durable /\ datacenters = start.dcs
    /\ ksPreview = FormStatement
    /\ createDisabled = (ksName # "good")
    /\ ksModal = FALSE
    /\ deploying = Nothing /\ deployDisabled = FALSE /\ deployed = FALSE
    /\ changes = 0

\* What Cassandra makes of the statement: CREATE ... IF NOT EXISTS leaves a keyspace
\* that is there; ALTER keeps the durable writes it does not mention.
Executed(stmt) ==
    IF ksMode = "create"
    THEN IF keyspace # Nothing THEN keyspace
         ELSE [replication |-> stmt.replication, durable |-> stmt.durable = "default"]
    ELSE [replication |-> stmt.replication,
          durable |-> keyspace.durable /\ stmt.durable = "default"]

\* The page is loaded, to create or to alter; what is in flight may still reach the
\* server.
LoadAs(m) ==
    /\ keyspace' \in {keyspace} \cup {Executed(stmt) : stmt \in {deploying} \ {Nothing}}
    /\ ksMode' = m
    /\ LET start == IF m = "create" THEN Blank ELSE Filled(keyspace')
       IN /\ ksName' = IF m = "create" THEN "empty" ELSE "good"
          /\ strategy' = start.strategy /\ rf' = start.rf
          /\ durable' = start.durable /\ datacenters' = start.dcs
    /\ updateState
    /\ ksModal' = FALSE
    /\ deploying' = Nothing /\ deployDisabled' = FALSE /\ deployed' = FALSE
    /\ changes' = 0

LoadKeyspace == LoadAs(ksMode)

(***************************************************************************)
(* The user changes the form; the dialog covers it, but takes no key from  *)
(* it.                                                                     *)
(***************************************************************************)
Change ==
    /\ changes < MaxChanges
    /\ changes' = changes + 1
    /\ updateState
    /\ UNCHANGED <<ksMode, ksDialog, keyspace>>

nameEdited(name) ==
    /\ ksMode = "create"                  \* readonly in mode "alter"
    /\ ksName' = name /\ UNCHANGED <<strategy, rf, durable, datacenters>>
    /\ Change

durableEdited == durable' = ~durable /\ UNCHANGED <<ksName, strategy, rf, datacenters>> /\ Change
rfEdited(n) == rf' = n /\ UNCHANGED <<ksName, strategy, durable, datacenters>> /\ Change

\* The first choice of the topology strategy adds a datacenter.
strategyEdited ==
    /\ strategy' = IF strategy = "SimpleStrategy" THEN "NetworkTopologyStrategy" ELSE "SimpleStrategy"
    /\ datacenters' = IF strategy' = "NetworkTopologyStrategy" /\ datacenters = <<>>
                      THEN <<[name |-> DefaultDC, rf |-> 3]>> ELSE datacenters
    /\ UNCHANGED <<ksName, rf, durable>>
    /\ Change

EditDCs(dcs) ==
    /\ strategy = "NetworkTopologyStrategy"
    /\ datacenters' = dcs
    /\ UNCHANGED <<ksName, strategy, rf, durable>>
    /\ Change

addDatacenter == EditDCs(Append(datacenters, [name |-> NoDC, rf |-> 3]))

removeDatacenter(i) == EditDCs(RemoveAt(datacenters, i))
nameDatacenter(i, name) == EditDCs([datacenters EXCEPT ![i].name = name])
setFactor(i, n) == EditDCs([datacenters EXCEPT ![i].rf = n])

(***************************************************************************)
(* The dialog and the deployment.                                          *)
(***************************************************************************)
openKsModal ==
    /\ ~createDisabled
    /\ ksModal' = TRUE
    /\ UNCHANGED <<ksMode, ksForm, ksOutput, deploying, deployDisabled, deployed, keyspace, changes>>

\* Also while the statement is out.
closeKsModal ==
    /\ ksModal
    /\ ksModal' = FALSE
    /\ UNCHANGED <<ksMode, ksForm, ksOutput, deploying, deployDisabled, deployed,
                   keyspace, changes>>

\* The text of the preview is sent.
deploy ==
    /\ ksModal /\ ~deployDisabled
    /\ deploying' = ksPreview
    /\ deployDisabled' = TRUE
    /\ UNCHANGED <<ksMode, ksForm, ksOutput, ksModal, deployed, keyspace, changes>>

\* The button stays disabled until the page is left.
DeploySucceeds ==
    /\ deploying # Nothing
    /\ keyspace' = Executed(deploying)
    /\ deploying' = Nothing
    /\ deployed' = TRUE
    /\ UNCHANGED <<ksMode, ksForm, ksOutput, ksModal, deployDisabled, changes>>

\* A refusal, or an answer that is lost after the statement took effect or before.
DeployFails ==
    /\ deploying # Nothing
    /\ keyspace' \in {keyspace, Executed(deploying)}
    /\ deploying' = Nothing
    /\ deployDisabled' = FALSE
    /\ UNCHANGED <<ksMode, ksForm, ksOutput, ksModal, deployed, changes>>

\* The page is left for the keyspace's own, from where it is opened to alter it.
LeaveKeyspace == deployed /\ LoadAs("alter")

KeyspaceUser ==
    \/ \E name \in {"empty", "bad", "good"} : nameEdited(name)
    \/ durableEdited \/ strategyEdited \/ addDatacenter
    \/ \E n \in Factors : rfEdited(n)
    \/ \E i \in DOMAIN datacenters :
          \/ removeDatacenter(i)
          \/ \E name \in DCs \cup {NoDC} : nameDatacenter(i, name)
          \/ \E n \in Factors : setFactor(i, n)
    \/ openKsModal \/ closeKsModal \/ deploy

KeyspaceNext == DeploySucceeds \/ DeployFails \/ LeaveKeyspace

KeyspaceTypeOK ==
    /\ ksMode \in {"create", "alter"}
    /\ ksName \in {"empty", "bad", "good"} /\ strategy \in Strategies /\ rf \in Factors
    /\ durable \in BOOLEAN /\ datacenters \in Seq([name: DCs \cup {NoDC}, rf: Factors])
    /\ createDisabled \in BOOLEAN /\ ksModal \in BOOLEAN
    /\ deployDisabled \in BOOLEAN /\ deployed \in BOOLEAN
    /\ changes \in 0..MaxChanges

\* The statement on display, which is the one that is sent, is the form's, and the
\* button is enabled for a good name, after any of the handlers (updateState).
KsPreviewIsCurrent ==
    /\ ksPreview = FormStatement
    /\ createDisabled = (ksName # "good")

\* Once a deployment has succeeded nothing is sent until the page is left, although
\* the dialog can be closed, the form edited and the dialog opened again.
DeployedOnce == deployed => deploying = Nothing

\* A form that was loaded from a keyspace and not changed stands for a statement that
\* changes nothing, if the page knows the keyspace's strategy (loadExistingKeyspace,
\* then updateState).
UntouchedChangesNothing ==
    changes = 0 /\ ksMode = "alter" /\ keyspace.replication.class \in Strategies =>
        Executed(ksPreview) = keyspace

=============================================================================
