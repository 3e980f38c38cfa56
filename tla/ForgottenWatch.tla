--------------------------- MODULE ForgottenWatch ---------------------------
(***************************************************************************)
(* The reconciler (reconcile.py): it reads the store for drawers that      *)
(* upstream forgetting deleted softly while their tags still say active,   *)
(* leaves out the events memory_history already has, and appends one row   *)
(* for each of the others.  Runs are started by hand or by a timer, and    *)
(* nothing keeps two of them apart.                                        *)
(*                                                                         *)
(*   kept     - the store's drawers: their deleted_at and whether the tag  *)
(*              still says active                                          *)
(*   history  - how many `forgotten` rows each event has                   *)
(*   patrols  - the runs of the reconciler                                 *)
(*   stamps   - the clock of deleted_at, one tick per forgetting           *)
(*   misses   - reads of the history and appends that failed               *)
(*   overlaps - runs begun while another was under way                     *)
(***************************************************************************)
EXTENDS Integers, FiniteSets

CONSTANTS
    KeptDrawers, Patrols,
    NotDeleted,   \* deleted_at IS NULL
    MaxStamps,    \* bound: forgettings
    MaxMisses,    \* bound: failed reads and appends
    MaxPatrols    \* bound: runs that overlap another or only look

ASSUME WatchAssumption ==
    /\ NotDeleted \notin Nat
    /\ MaxStamps \in Nat /\ MaxMisses \in Nat /\ MaxPatrols \in Nat

VARIABLES kept, history, patrols, stamps, misses, overlaps

watchVars == <<kept, history, patrols, stamps, misses, overlaps>>

Events == KeptDrawers \X (1..MaxStamps)

IdlePatrol == [at |-> "idle", emit |-> FALSE, found |-> {}, fresh |-> {}]

WatchTypeOK ==
    /\ kept \in [KeptDrawers -> [deleted : (1..MaxStamps) \cup {NotDeleted},
                                 active : BOOLEAN]]
    /\ history \in [Events -> Nat]
    /\ patrols \in [Patrols -> [at : {"idle", "detected", "emitting"}, emit : BOOLEAN,
                                found : SUBSET Events, fresh : SUBSET Events]]
    /\ stamps \in 0..MaxStamps /\ misses \in 0..MaxMisses /\ overlaps \in 0..MaxPatrols

WatchInit ==
    /\ kept = [d \in KeptDrawers |-> [deleted |-> NotDeleted, active |-> TRUE]]
    /\ history = [v \in Events |-> 0]
    /\ patrols = [p \in Patrols |-> IdlePatrol]
    /\ stamps = 0 /\ misses = 0 /\ overlaps = 0

-----------------------------------------------------------------------------
(* The store, which the reconciler only reads *)

UpstreamForgets(d) ==
    /\ stamps < MaxStamps
    /\ kept[d].deleted = NotDeleted
    /\ stamps' = stamps + 1
    /\ kept' = [kept EXCEPT ![d].deleted = stamps + 1]
    /\ UNCHANGED <<history, patrols, misses, overlaps>>

\* The recovery that the records feed, or a supersede in Panella's own tags
RecoverDrawer(d) ==
    /\ kept[d].deleted # NotDeleted
    /\ kept' = [kept EXCEPT ![d].deleted = NotDeleted]
    /\ UNCHANGED <<history, patrols, stamps, misses, overlaps>>

RetireDrawer(d) ==
    /\ kept[d].active
    /\ kept' = [kept EXCEPT ![d].active = FALSE]
    /\ UNCHANGED <<history, patrols, stamps, misses, overlaps>>

-----------------------------------------------------------------------------
(* A run *)

Divergent == {v \in Events : kept[v[1]].deleted = v[2] /\ kept[v[1]].active}

\* forgotten_events
Already == {v \in Events : history[v] > 0}

\* detect_forgotten: one read of the store
DetectForgotten(p, emit) ==
    /\ patrols[p].at = "idle"
    /\ LET beside == \E q \in Patrols : patrols[q].at # "idle"
       IN /\ beside => overlaps < MaxPatrols
          /\ overlaps' = IF beside THEN overlaps + 1 ELSE overlaps
    /\ patrols' = [patrols EXCEPT ![p] = [at |-> "detected", emit |-> emit,
                                          found |-> Divergent, fresh |-> {}]]
    /\ UNCHANGED <<kept, history, stamps, misses>>

\* A dry run stops at the summary.
Proceeds(p, known) ==
    LET run == patrols[p]
    IN patrols' = [patrols EXCEPT ![p] =
                     IF run.emit
                     THEN [run EXCEPT !.at = "emitting", !.fresh = run.found \ known]
                     ELSE IdlePatrol]

\* Mutant: the idempotency key is the drawer, not the event.
DropsKnownDrawers(p) ==
    /\ patrols[p].at = "detected"
    /\ Proceeds(p, {v \in Events : \E w \in Already : w[1] = v[1]})
    /\ UNCHANGED <<kept, history, stamps, misses, overlaps>>

DropRecorded(p) ==
    /\ patrols[p].at = "detected"
    /\ Proceeds(p, Already)
    /\ UNCHANGED <<kept, history, stamps, misses, overlaps>>

\* The history cannot be read: every event counts as new.
HistoryUnread(p) ==
    /\ patrols[p].at = "detected"
    /\ misses < MaxMisses
    /\ misses' = misses + 1
    /\ Proceeds(p, {})
    /\ UNCHANGED <<kept, history, stamps, overlaps>>

\* append_history, one row at a time in the order of the store's answer
AppendForgotten(p, v) ==
    /\ patrols[p].at = "emitting"
    /\ v \in patrols[p].fresh
    /\ history' = [history EXCEPT ![v] = @ + 1]
    /\ patrols' = [patrols EXCEPT ![p].fresh = @ \ {v}]
    /\ UNCHANGED <<kept, stamps, misses, overlaps>>

\* The append fails and is swallowed; the run counts it as emitted.
AppendSwallowed(p, v) ==
    /\ patrols[p].at = "emitting"
    /\ v \in patrols[p].fresh
    /\ misses < MaxMisses
    /\ misses' = misses + 1
    /\ patrols' = [patrols EXCEPT ![p].fresh = @ \ {v}]
    /\ UNCHANGED <<kept, history, stamps, overlaps>>

ReportPatrol(p) ==
    /\ patrols[p].at = "emitting"
    /\ patrols[p].fresh = {}
    /\ patrols' = [patrols EXCEPT ![p] = IdlePatrol]
    /\ UNCHANGED <<kept, history, stamps, misses, overlaps>>

\* The store cannot be read, or the process ends.
PatrolDies(p) ==
    /\ patrols[p].at # "idle"
    /\ misses < MaxMisses
    /\ misses' = misses + 1
    /\ patrols' = [patrols EXCEPT ![p] = IdlePatrol]
    /\ UNCHANGED <<kept, history, stamps, overlaps>>

PatrolStep(p) ==
    \/ DropRecorded(p) \/ HistoryUnread(p) \/ ReportPatrol(p)
    \/ \E v \in Events : AppendForgotten(p, v) \/ AppendSwallowed(p, v)

WatchNext ==
    \/ \E d \in KeptDrawers : UpstreamForgets(d) \/ RecoverDrawer(d) \/ RetireDrawer(d)
    \/ \E p \in Patrols : \E emit \in BOOLEAN : DetectForgotten(p, emit)
    \/ \E p \in Patrols : PatrolStep(p) \/ PatrolDies(p)

WatchSpec ==
    /\ WatchInit /\ [][WatchNext]_watchVars
    /\ \A p \in Patrols : WF_watchVars(PatrolStep(p)) /\ SF_watchVars(DetectForgotten(p, TRUE))

-----------------------------------------------------------------------------
(* Properties *)

\* The never-lose watch: a forgetting that persists is on record some day,
\* the second forgetting of a recovered drawer too, as long as the timer
\* keeps starting runs with --emit.
EveryForgettingIsRecorded ==
    \A v \in Events : v \in Divergent ~> (history[v] > 0 \/ v \notin Divergent)

=============================================================================
