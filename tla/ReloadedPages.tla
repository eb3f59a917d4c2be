--------------------------- MODULE ReloadedPages ---------------------------
(***************************************************************************)
(* Three pages with long dialogs and no window.cassanovaRefresh, in a tab: *)
(* the automatic refresh loads them again at any time, as the user can, in *)
(* the middle of what they are doing.  They share nothing; a behaviour     *)
(* stays on one of them.                                                   *)
(***************************************************************************)
EXTENDS TableBuilder, KeyspaceBuilder, SSTableSmasher

VARIABLE shown

PagesInit ==
    /\ shown \in {"table", "keyspace", "start"}
    /\ BuilderInit /\ (shown # "table" => mode = "create")
    /\ KeyspaceInit /\ (shown # "keyspace" => ksMode = "create")
    /\ SmasherInit

OnTable(A) == shown = "table" /\ A /\ UNCHANGED <<shown, keyspaceVars, gameVars>>
OnKeyspace(A) == shown = "keyspace" /\ A /\ UNCHANGED <<shown, builderVars, gameVars>>
OnStart(A) == shown = "start" /\ A /\ UNCHANGED <<shown, builderVars, keyspaceVars>>

PagesNext ==
    \/ OnTable(BuilderUser \/ BuilderNext) \/ OnTable(LoadBuilder)
    \/ OnKeyspace(KeyspaceUser \/ KeyspaceNext) \/ OnKeyspace(LoadKeyspace)
    \/ OnStart(SmasherNext) \/ OnStart(LoadGame)

PagesSpec == PagesInit /\ [][PagesNext]_<<shown, builderVars, keyspaceVars, gameVars>>

PagesTypeOK ==
    /\ shown \in {"table", "keyspace", "start"}
    /\ BuilderTypeOK /\ KeyspaceTypeOK /\ SmasherTypeOK

\* On both designers the statement shown, and whether it may be executed, follows the
\* form, and the form of a keyspace nobody changed stands for no change of it
\* (updatePreview, updateState).
StatementsFollowForms ==
    PreviewIsCurrent /\ KsPreviewIsCurrent /\ UntouchedChangesNothing

\* What was confirmed is executed by one run at a time, and success is reported for all
\* of it or not at all, with dialogs closed, reopened and confirmed again (confirmExecute).
ExecutedAsConfirmed == OneExecution /\ SuccessIsComplete /\ DeployedOnce

=============================================================================
