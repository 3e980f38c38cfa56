------------------------------- MODULE MCUpkeep -------------------------------
(***************************************************************************)
(* The jobs and commands around the store, and the preference resolver,    *)
(* checked side by side like the components of MCServing: they share no    *)
(* state, and a behaviour belongs to the one that part names.              *)
(***************************************************************************)
EXTENDS BoxBackup, BridgeHealth, CalibrationFit, ReceiptActivation, Resolver,
        SelfHostInstall, SourceSync, TLC

CONSTANTS
    s1, s2,             \* files
    x1, x2, x3, x4      \* texts of atoms

VARIABLE part

-----------------------------------------------------------------------------
(* Values of the components' constants *)

\* One file is edited and one stays; together they hold more than a batch takes.
MCVersions == s1 :> {<<x1, x2>>, <<x2, x3>>} @@ s2 :> {<<x4>>}

\* The deprecated name of the Discord setting alone names no sink, and Telegram
\* has no credentials: both end in the log.
MCSinkSettings == {{"bridge_discord"}, {"discord_alerts"}, {"telegram"}}

Probe(absent, owned, overlay) ==
    [absent |-> absent, active |-> ~absent, owned |-> owned, overlay |-> overlay, acked |-> FALSE]

\* A store of the owner, a lost one, and one of somebody else without overlay
MCProbes == {Probe(FALSE, TRUE, TRUE), Probe(TRUE, FALSE, TRUE), Probe(FALSE, FALSE, FALSE)}

Slice(valid, tau) == [valid |-> valid, tau |-> tau]
Config(bound, benign, hr) == [llm |-> TRUE, bound |-> bound, benign |-> benign, hr |-> hr]

\* Either threshold the higher one, hashes that do not bind, and an invalid slice
MCManifests ==
    {Config(TRUE, Slice(TRUE, 2), Slice(TRUE, 1)), Config(TRUE, Slice(TRUE, 1), Slice(TRUE, 2)),
     Config(FALSE, Slice(TRUE, 1), Slice(TRUE, 2)), Config(TRUE, Slice(FALSE, 0), Slice(TRUE, 1)),
     Config(TRUE, Slice(TRUE, 1), Slice(FALSE, 0))}

-----------------------------------------------------------------------------
Init ==
    /\ part \in {"activation", "backup", "bridge", "fit", "install", "resolver", "sync"}
    /\ ActivationInit /\ BackupInit /\ BridgeInit /\ FitInit /\ InstallInit /\ ResolverInit
    /\ SyncInit

Next ==
    /\ UNCHANGED part
    /\ IF part = "activation" THEN ActivationNext ELSE UNCHANGED activationVars
    /\ IF part = "backup" THEN BackupNext ELSE UNCHANGED backupVars
    /\ IF part = "bridge" THEN BridgeNext ELSE UNCHANGED bridgeVars
    /\ IF part = "fit" THEN FitNext ELSE UNCHANGED fitVars
    /\ IF part = "install" THEN InstallNext ELSE UNCHANGED installVars
    /\ IF part = "resolver" THEN ResolverNext ELSE UNCHANGED resolverVars
    /\ IF part = "sync" THEN SyncNext ELSE UNCHANGED syncVars

vars == <<part, activationVars, backupVars, bridgeVars, fitVars, installVars, resolverVars,
          syncVars>>

\* The fairness of the components' own specifications
Fairness ==
    /\ \A b \in Bridges :
         /\ WF_bridgeVars(part = "bridge" /\ HealthyRun(b))
         /\ WF_bridgeVars(part = "bridge" /\ Recording(b))
    /\ \A c \in Syncers :
         /\ WF_syncVars(part = "sync" /\ SyncStep(c))
         /\ \A s \in Sources : WF_syncVars(part = "sync" /\ BeginSync(c, s))
         /\ WF_syncVars(part = "sync" /\ NextBatch(c))

Spec == Init /\ [][Next]_vars /\ Fairness

=============================================================================
