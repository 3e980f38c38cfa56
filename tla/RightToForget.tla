---------------------------- MODULE RightToForget ----------------------------
(***************************************************************************)
(* MemoryClient.hard_delete of client.py (the right to be forgotten), as a *)
(* process that runs beside the approve, reject and redrive calls.         *)
(*                                                                         *)
(*   idle -> claimed -> resolving -> mapped -> purging -> recording -> idle *)
(*                                    |  ^                                 *)
(*                                    v  |                                 *)
(*                                    found                                *)
(*                                                                         *)
(* A step that raises ends the forget where it is: the rows it claimed     *)
(* stay 'rtbf_deleting' and somebody has to ask again.                     *)
(***************************************************************************)
EXTENDS ApprovalCalls

CONSTANTS
    Forgetters,     \* concurrent forgets
    ForgetBy        \* the names a caller forgets by: "drawer" and/or "hash"

ASSUME ForgetAssumption == ForgetBy \subseteq {"drawer", "hash"}

VARIABLES
    forget,         \* the progress of each forget
    erased,         \* history variable: the hashes forgets removed from the store
    overrun         \* history variable: the approvals a forget purged unclaimed

forgetVars == <<forget, erased, overrun>>

ForgetStages == {"idle", "claimed", "resolving", "mapped", "found", "recording"}

ForgetStates ==
    [pc     : ForgetStages,
     by     : {"drawer", "hash"},
     target : Contents \cup {None},
     claimed : SUBSET Ids,              \* claimed_approval_ids
     todo   : SUBSET Contents,          \* divergent ids still to delete
     sweep  : SUBSET Ids,               \* claimed approvals still to look up
     found  : Contents \cup {None},     \* the answer of the last lookup
     named  : SUBSET Contents,          \* hashes the tombstone will name
     ok     : BOOLEAN]

IdleForget == [pc |-> "idle", by |-> "drawer", target |-> None, claimed |-> {},
               todo |-> {}, sweep |-> {}, found |-> None, named |-> {}, ok |-> FALSE]

ForgetTypeOK ==
    /\ forget \in [Forgetters -> ForgetStates]
    /\ erased \subseteq Contents
    /\ overrun \subseteq Ids

ForgetInit ==
    /\ forget = [f \in Forgetters |-> IdleForget]
    /\ erased = {}
    /\ overrun = {}

ForgetAt(f, stage) == forget[f].pc = stage
EndForget(f) == forget' = [forget EXCEPT ![f] = IdleForget]

-----------------------------------------------------------------------------

\* _scan_sidecar: the rows of a drawer, by the id the proposer was given
\* (D_write, never a hash of the store) or by the hash the write got (D_event).
Matches(r, by, c) ==
    /\ Exists(r)
    /\ IF by = "drawer" THEN r.drawer = c ELSE r.durable = c

Matched(by, c) == {i \in Ids : Matches(queue[i], by, c)}

\* The other hashes the matched rows were recorded under.
Divergent(by, c) ==
    {queue[i].durable : i \in Matched(by, c)}
        \ ({None} \cup IF by = "hash" THEN {c} ELSE {})

\* Mutant: a forget does not wait for a live finalize.
NeverDeferred(rows) == FALSE

\* _claim_sidecar_for_rtbf: deferred while a live finalize holds one of the
\* rows; RtbfFinalizeInFlight changes nothing.
Deferred(rows) == \E i \in rows : LiveClaim(queue[i])

ForgetRow(r) == [r EXCEPT !.fin = "rtbf_deleting", !.worker = Rtbf]

ForgetClaim(f, by, c) ==
    LET rows == Matched(by, c) IN
    /\ ForgetAt(f, "idle")
    /\ ~Deferred(rows)
    /\ queue' = [i \in Ids |-> IF i \in rows THEN ForgetRow(queue[i]) ELSE queue[i]]
    /\ forget' = [forget EXCEPT ![f] = [IdleForget EXCEPT
                    !.pc = "claimed", !.by = by, !.target = c,
                    !.claimed = rows, !.sweep = rows]]
    /\ UNCHANGED <<audit, store, history, edits, erased, overrun>>

\* What a DELETE of h did, for the forget: what is gone, and how it goes on.
Erases(h) == erased' = IF store' = store THEN erased ELSE erased \cup {h}

ForgetDeletes(f, h, removed, kept) ==
    \E says \in {"true", "false", "raised"} :
        /\ StoreDelete(h, says)
        /\ Erases(h)
        /\ CASE says = "true"   -> forget' = [forget EXCEPT ![f] = removed]
             [] says = "false"  -> forget' = [forget EXCEPT ![f] = kept]
             [] says = "raised" -> EndForget(f)

\* The DELETE of the drawer id itself: D_write is no hash of the store (404).
ForgetTarget(f) ==
    LET next == [forget[f] EXCEPT !.pc = "resolving"] IN
    /\ ForgetAt(f, "claimed")
    /\ \/ /\ forget[f].by = "hash"
          /\ ForgetDeletes(f, forget[f].target, [next EXCEPT !.ok = TRUE], next)
       \/ /\ forget[f].by = "drawer"
          /\ forget' = [forget EXCEPT ![f] = next]
          /\ UNCHANGED <<store, erased>>
    /\ UNCHANGED <<queue, audit, history, edits, overrun>>

\* _resolve_divergent_upstream_ids, a scan of its own.
ForgetResolve(f) ==
    /\ ForgetAt(f, "resolving")
    /\ LET ids == Divergent(forget[f].by, forget[f].target) IN
       forget' = [forget EXCEPT ![f].pc = "mapped", ![f].todo = ids, ![f].named = ids]
    /\ UNCHANGED <<queueVars, erased, overrun>>

ForgetMapped(f, h) ==
    /\ ForgetAt(f, "mapped")
    /\ h \in forget[f].todo
    /\ LET next == [forget[f] EXCEPT !.todo = @ \ {h}] IN
       ForgetDeletes(f, h, [next EXCEPT !.ok = TRUE], next)
    /\ UNCHANGED <<queue, audit, history, edits, overrun>>

\* _rtbf_marker_sweep: look up the marker of a claimed approval, then delete
\* the row that carries it.
ForgetLooksUp(f, i) ==
    /\ ForgetAt(f, "mapped")
    /\ forget[f].todo = {}
    /\ i \in forget[f].sweep
    /\ LET rest == [forget[f] EXCEPT !.sweep = @ \ {i}] IN
       forget' = [forget EXCEPT ![f] =
                    IF MarkedBy(i) = {} THEN rest
                    ELSE [rest EXCEPT !.pc = "found",
                                      !.found = CHOOSE h \in MarkedBy(i) : TRUE]]
    /\ UNCHANGED <<queueVars, erased, overrun>>

ForgetFound(f) ==
    /\ ForgetAt(f, "found")
    /\ LET h == forget[f].found
           next == [forget[f] EXCEPT !.pc = "mapped", !.found = None] IN
       ForgetDeletes(f, h, [next EXCEPT !.ok = TRUE, !.named = @ \cup {h}], next)
    /\ UNCHANGED <<queue, audit, history, edits, overrun>>

\* A marker lookup raises, as every step that asks the store may.
ForgetRaises(f) ==
    /\ "raise" \in StoreMay
    /\ ForgetAt(f, "claimed") \/ ForgetAt(f, "mapped")
    /\ EndForget(f)
    /\ UNCHANGED <<queueVars, erased, overrun>>

\* Mutants: approved rows survive the purge; a purged id is handed out again.
PurgedIfWaiting(by, c) ==
    [i \in Ids |-> IF i \in Matched(by, c) /\ Awaiting(queue[i])
                  THEN BlankRow("purged") ELSE queue[i]]
PurgedForReuse(by, c) ==
    [i \in Ids |-> IF i \in Matched(by, c) THEN BlankRow("unused") ELSE queue[i]]

\* _hard_delete_sidecar scans again and drops the rows it matches now.
Purged(by, c) ==
    [i \in Ids |-> IF i \in Matched(by, c) THEN BlankRow("purged") ELSE queue[i]]

ForgetPurge(f) ==
    /\ ForgetAt(f, "mapped")
    /\ forget[f].todo = {}
    /\ forget[f].sweep = {}
    /\ queue' = Purged(forget[f].by, forget[f].target)
    /\ overrun' = overrun \cup (Matched(forget[f].by, forget[f].target) \ forget[f].claimed)
    /\ forget' = [forget EXCEPT ![f].pc = "recording"]
    /\ UNCHANGED <<audit, store, history, edits, erased>>

\* Mutant: the tombstone names the target of the forget and nothing else.
TombstoneOfTarget(g) ==
    IF g.ok /\ g.by = "hash" THEN {<<"hard_delete", g.target>>} ELSE {}

\* The tombstone, when some DELETE said that it removed a row.  The id of
\* the drawer is left out of it: it names nothing in the store.  The access
\* record of a cross-tenant forget (_audit_if_cross_tenant) is left out too.
Tombstones(g) ==
    IF g.ok
    THEN {<<"hard_delete", h>> :
            h \in g.named \cup IF g.by = "hash" THEN {g.target} ELSE {}}
    ELSE {}

ForgetTombstone(f) ==
    /\ ForgetAt(f, "recording")
    /\ history' = history \cup Tombstones(forget[f])
    /\ EndForget(f)
    /\ UNCHANGED <<queue, audit, store, edits, erased, overrun>>

\* The process dies between two steps; the claim stays.
ForgetCrashes(f) ==
    /\ crashes < MaxCrashes
    /\ ~ForgetAt(f, "idle")
    /\ crashes' = crashes + 1
    /\ EndForget(f)
    /\ UNCHANGED <<queueVars, erased, overrun>>

Forget(f) ==
    \/ \E by \in ForgetBy, c \in Contents : ForgetClaim(f, by, c)
    \/ ForgetTarget(f) \/ ForgetResolve(f)
    \/ \E h \in Contents : ForgetMapped(f, h)
    \/ \E i \in Ids : ForgetLooksUp(f, i)
    \/ ForgetFound(f) \/ ForgetRaises(f) \/ ForgetPurge(f) \/ ForgetTombstone(f)

=============================================================================
