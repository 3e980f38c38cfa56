---------------------------- MODULE ApprovalCalls ----------------------------
(***************************************************************************)
(* One approve, reject or redrive call, as a process with a program        *)
(* counter: approval_service.py up to the decision, approval_finalizer.py  *)
(* from there on.  A call is cut where the code leaves a transaction or    *)
(* talks to the store, so calls interleave there and can die there.        *)
(*                                                                         *)
(*   idle -> read -> appended -> gate -> claimed -> writing -> recording   *)
(*            |         |         |         |          |  \       |   \    *)
(*            |         |         |         |          | lookup outcome    *)
(*            v         v         v         v          v          |        *)
(*          idle      idle      idle      failing   failing    cleanup     *)
(*                                                                         *)
(*   idle -> rejecting -> idle                                             *)
(*                                                                         *)
(* A call takes its worker id at random, so an id of an earlier call never *)
(* owns a claim of a later one; here the id is the name of the process,    *)
(* which owns a claim only between its own claim and its end.              *)
(***************************************************************************)
EXTENDS ApprovalQueue

CONSTANTS
    SlowCalls,          \* a call may outlive the lease of its claim
    MaxCrashes,         \* bound: calls and forgets that die half-way
    StoreMay            \* the faults of the store's DELETE and of its lookup

\* "raise": the request fails and raises; "lose": the DELETE lands but its
\* answer is lost, and the adapter's retry meets a 404 or raises; "refuse":
\* the answer is {"success": false} and the row stays.
StoreFaults == {"raise", "lose", "refuse"}

ASSUME CallsAssumption ==
    /\ SlowCalls \in BOOLEAN
    /\ MaxCrashes \in Nat
    /\ StoreMay \subseteq StoreFaults

VARIABLES call, crashes

callVars == <<call, crashes>>

Stages == {"idle", "read", "appended", "gate", "claimed", "writing", "lookup",
           "failing", "recording", "outcome", "cleanup", "rejecting"}

CallStates == [pc   : Stages,
               id   : Ids \cup {None},
               sha  : Contents \cup {None},   \* bytes read, then bytes claimed
               seq  : Nat,                    \* receipt of this call's append
               hash : Contents \cup {None}]   \* content hash the store named

IdleCall == [pc |-> "idle", id |-> None, sha |-> None, seq |-> 0, hash |-> None]

CallTypeOK ==
    /\ call \in [Calls -> CallStates]
    /\ crashes \in Nat

CallInit ==
    /\ call = [w \in Calls |-> IdleCall]
    /\ crashes = 0

At(w, stage) == call[w].pc = stage
Row(w) == queue[call[w].id]
Goto(w, stage) == call' = [call EXCEPT ![w].pc = stage]
Return(w) == call' = [call EXCEPT ![w] = IdleCall]

-----------------------------------------------------------------------------
(* Decide: approval_service.py *)

\* approve: verify the approver, then read the bytes to be fingerprinted in
\* a read of its own.
ReadCandidate(w, i) ==
    /\ At(w, "idle")
    /\ Exists(queue[i])
    /\ call' = [call EXCEPT ![w] = [IdleCall EXCEPT !.pc = "read", !.id = i,
                                      !.sha = queue[i].bytes]]
    /\ UNCHANGED <<queueVars, crashes>>

\* _append_decision: the committed record is the receipt of the decision.
AppendApprove(w) ==
    /\ At(w, "read")
    /\ AuditAppend(DecisionRecord(call[w].id, "approve", call[w].sha))
    /\ call' = [call EXCEPT ![w].pc = "appended", ![w].seq = Len(audit) + 1]
    /\ UNCHANGED <<queue, store, history, edits, crashes>>

AppendReject(w, i) ==
    /\ At(w, "idle")
    /\ queue[i].status # "unused"
    /\ AuditAppend(DecisionRecord(i, "reject", None))
    /\ call' = [call EXCEPT ![w] = [IdleCall EXCEPT !.pc = "rejecting", !.id = i]]
    /\ UNCHANGED <<queue, store, history, edits, crashes>>

\* The audit database cannot be written: the call ends with nothing changed.
AppendFails(w) ==
    /\ At(w, "read")
    /\ Return(w)
    /\ UNCHANGED <<queueVars, crashes>>

\* mcp_approve_or_redrive, one BEGIN IMMEDIATE transaction.
RedrivableRow(r) == r.status = "approved" /\ r.via = Via /\ Unclaimed(r)
FreshRow(r) == Awaiting(r) /\ Unclaimed(r)

\* The row is approved and only its finalize must run again: the receipt of
\* the first approval stays.
AuthorizeRedrive(w) ==
    /\ At(w, "appended")
    /\ RedrivableRow(Row(w))
    /\ Goto(w, "gate")
    /\ UNCHANGED <<queueVars, crashes>>

StampFresh(w) ==
    /\ At(w, "appended")
    /\ FreshRow(Row(w))
    /\ ApprovableInConn(Row(w), call[w].sha)
    /\ queue' = [queue EXCEPT ![call[w].id] =
                   ApproveInConn(@, Via, call[w].seq, call[w].sha)]
    /\ Goto(w, "gate")
    /\ UNCHANGED <<audit, store, history, edits, crashes>>

\* Decided, claimed, purged, or other bytes than the fingerprinted ones.
RefuseStamp(w) ==
    /\ At(w, "appended")
    /\ ~RedrivableRow(Row(w))
    /\ ~(FreshRow(Row(w)) /\ ApprovableInConn(Row(w), call[w].sha))
    /\ Return(w)
    /\ UNCHANGED <<queueVars, crashes>>

\* Mutant: reject does not ask whether the row still waits.
RejectAnyRow(r) == Unclaimed(r)

\* update_approval_status(..., "rejected"): one guarded UPDATE.
RejectableRow(r) == Awaiting(r) /\ Unclaimed(r)

ApplyReject(w) ==
    /\ At(w, "rejecting")
    /\ queue' = IF RejectableRow(Row(w))
                THEN [queue EXCEPT ![call[w].id].status = "rejected"]
                ELSE queue
    /\ Return(w)
    /\ UNCHANGED <<audit, store, history, edits, crashes>>

\* Mutant: the sweep leaves stale claims alone.
SweepUnclaimed(r) == r.status = "approved" /\ r.via = Via /\ Unclaimed(r)

\* redrive_pending_finalizations: an id of the sweep's snapshot.  Whatever
\* happens to the row before its turn is the gate's business.
SweepRow(r) == r.status = "approved" /\ r.via = Via /\ Claimable(r)

Sweep(w, i) ==
    /\ At(w, "idle")
    /\ SweepRow(queue[i])
    /\ call' = [call EXCEPT ![w] = [IdleCall EXCEPT !.pc = "gate", !.id = i]]
    /\ UNCHANGED <<queueVars, crashes>>

-----------------------------------------------------------------------------
(* Gate and claim: the first transaction of finalize_approved_candidate *)

\* _receipt_gate_refusal: the receipt is on the row, it is in the log, and
\* it approves this row's bytes.  The log only grows and AuditAppend is its
\* only writer, so the walk of the hash chain cannot fail here.
Attests(rec, i, r) ==
    /\ rec.op = "approval_decision"
    /\ rec.target = i
    /\ rec.decision = "approve"
    /\ rec.via = r.via
    /\ rec.sha = r.sha

\* Mutant: the bytes to be written are not compared with the approved ones.
BytesUnchecked(r) == r.sha # None

BytesAsApproved(r) == r.bytes = r.sha

\* Mutant: a receipt on the row and in the log is enough.
ReceiptPresent(i) == queue[i].receipt \in 1 .. Len(audit)

ReceiptVerifies(i) ==
    LET r == queue[i] IN
    /\ r.receipt \in 1 .. Len(audit)
    /\ r.sha # None
    /\ Attests(audit[r.receipt], i, r)
    /\ BytesAsApproved(r)

Finalizable(r) == r.status = "approved" /\ r.via = Via

\* Missing or unapproved row, already finalized, owned by a live call, or
\* (receipt verified) held by a forget: the call ends and writes nothing.
GatePasses(w) ==
    /\ At(w, "gate")
    /\ \/ Row(w).status # "approved"
       \/ /\ Finalizable(Row(w))
          /\ \/ Row(w).fin = "finalized"
             \/ LiveClaim(Row(w))
             \/ ReceiptVerifies(call[w].id) /\ ~Claimable(Row(w))
    /\ Return(w)
    /\ UNCHANGED <<queueVars, crashes>>

MarkFailed(r) == IF r.fin # "finalized" THEN [r EXCEPT !.fin = "failed"] ELSE r

\* No provenance of the configured transport, or no valid receipt.
GateRefuses(w) ==
    /\ At(w, "gate")
    /\ Row(w).status = "approved"
    /\ \/ Row(w).via # Via
       \/ /\ Row(w).fin # "finalized"
          /\ ~LiveClaim(Row(w))
          /\ ~ReceiptVerifies(call[w].id)
    /\ queue' = [queue EXCEPT ![call[w].id] = MarkFailed(@)]
    /\ Return(w)
    /\ UNCHANGED <<audit, store, history, edits, crashes>>

\* Mutant: a reclaim does not renew the lease.
ClaimKeepsLease(r, w) == [r EXCEPT !.fin = "finalizing", !.worker = w]

ClaimRow(r, w) == [r EXCEPT !.fin = "finalizing", !.worker = w, !.stale = FALSE]

GateClaims(w) ==
    /\ At(w, "gate")
    /\ Finalizable(Row(w))
    /\ Claimable(Row(w))
    /\ ReceiptVerifies(call[w].id)
    /\ queue' = [queue EXCEPT ![call[w].id] = ClaimRow(@, w)]
    /\ call' = [call EXCEPT ![w].pc = "claimed", ![w].sha = Row(w).bytes]
    /\ UNCHANGED <<audit, store, history, edits, crashes>>

-----------------------------------------------------------------------------
(* The durable write: no transaction is held from here to the record *)

\* The payload cannot be built, or the store adapter cannot be made.
BuildFails(w) ==
    /\ At(w, "claimed")
    /\ Goto(w, "failing")
    /\ UNCHANGED <<queueVars, crashes>>

\* _still_owns_claim, read before the write.
StillOwnsClaim(r, w) == r.fin = "finalizing" /\ r.worker = w

CheckClaim(w) ==
    /\ At(w, "claimed")
    /\ IF StillOwnsClaim(Row(w), w) THEN Goto(w, "writing") ELSE Return(w)
    /\ UNCHANGED <<queueVars, crashes>>

\* The store keeps one active row per content hash.
Stored(i, c) == [store EXCEPT ![c] = i]

\* adapter.add_memory lands and answers the content hash.
WriteLands(w) ==
    /\ At(w, "writing")
    /\ store[call[w].sha] = None
    /\ store' = Stored(call[w].id, call[w].sha)
    /\ call' = [call EXCEPT ![w].pc = "recording", ![w].hash = call[w].sha]
    /\ UNCHANGED <<queue, audit, history, edits, crashes>>

\* The write lands, its answer is lost: the adapter's retry is an exact
\* duplicate of it, or the retries run out and the call fails.
WriteAnswerLost(w) ==
    /\ At(w, "writing")
    /\ store[call[w].sha] = None
    /\ store' = Stored(call[w].id, call[w].sha)
    /\ \E stage \in {"lookup", "failing"} : Goto(w, stage)
    /\ UNCHANGED <<queue, audit, history, edits, crashes>>

\* PanellaDedupSkipped of an exact duplicate, which discloses no hash.
WriteIsDuplicate(w) ==
    /\ At(w, "writing")
    /\ store[call[w].sha] # None
    /\ Goto(w, "lookup")
    /\ UNCHANGED <<queueVars, crashes>>

WriteFails(w) ==
    /\ At(w, "writing")
    /\ Goto(w, "failing")
    /\ UNCHANGED <<queueVars, crashes>>

\* Mutant: the lookup returns an active row without matching the marker.
MarkedByAnybody(i) == {c \in Contents : store[c] # None}

\* find_active_hash_by_marker
MarkedBy(i) == {c \in Contents : store[c] = i}

LookupFinds(w) ==
    /\ At(w, "lookup")
    /\ \E c \in MarkedBy(call[w].id) :
          call' = [call EXCEPT ![w].pc = "recording", ![w].hash = c]
    /\ UNCHANGED <<queueVars, crashes>>

\* No active row carries the marker, or the store cannot be asked.
LookupFails(w) ==
    /\ At(w, "lookup")
    /\ Goto(w, "failing")
    /\ UNCHANGED <<queueVars, crashes>>

\* _fail: compare-and-set on the worker id, never over a finalized row.
OwnsRow(r, w) == r.worker = w
NotFinalized(r) == r.fin # "finalized"

Fail(w) ==
    /\ At(w, "failing")
    /\ queue' = IF OwnsRow(Row(w), w) /\ NotFinalized(Row(w))
                THEN [queue EXCEPT ![call[w].id].fin = "failed"]
                ELSE queue
    /\ Return(w)
    /\ UNCHANGED <<audit, store, history, edits, crashes>>

-----------------------------------------------------------------------------
(* _record: one transaction *)

\* Mutant: the state is misspelt.
RecordDone(r, w, h) == [r EXCEPT !.fin = "done", !.worker = w, !.durable = h]

RecordRow(r, w, h) == [r EXCEPT !.fin = "finalized", !.worker = w, !.durable = h]

\* Mutant: a claim that was lost, to whomever, counts as a forgotten row.
LostClaimIsForget(r) == ~Exists(r) \/ r.fin # "finalizing"

\* The approval was purged or a forget holds it: the forget wins.
ForgetWins(r) == ~Exists(r) \/ r.fin = "rtbf_deleting"

\* The claim is still this call's, or it was lost to a call that did not
\* finalize: the verified hash is recorded either way.
Record(w) ==
    /\ At(w, "recording")
    /\ NotFinalized(Row(w))
    /\ ~ForgetWins(Row(w))
    /\ queue' = [queue EXCEPT ![call[w].id] = RecordRow(@, w, call[w].hash)]
    /\ Goto(w, "outcome")
    /\ UNCHANGED <<audit, store, history, edits, crashes>>

RecordOfOther(w) ==
    /\ At(w, "recording")
    /\ ~NotFinalized(Row(w))
    /\ Return(w)
    /\ UNCHANGED <<queueVars, crashes>>

RecordOrphan(w) ==
    /\ At(w, "recording")
    /\ ForgetWins(Row(w))
    /\ Goto(w, "cleanup")
    /\ UNCHANGED <<queueVars, crashes>>

\* History row and best-effort outcome record of a finalize.
Outcome(w) ==
    /\ At(w, "outcome")
    /\ history' = history \cup {<<"finalized_active", call[w].hash>>}
    /\ \/ AuditAppend(FinalizedRecord(call[w].id, call[w].hash))
       \/ UNCHANGED audit
    /\ Return(w)
    /\ UNCHANGED <<queue, store, edits, crashes>>

-----------------------------------------------------------------------------
(* The store's DELETE, and _cleanup_orphaned_durable *)

Removed(c) == [store EXCEPT ![c] = None]

\* What PanellaAdapter.hard_delete does to the store and tells its caller:
\* True, False or an exception.
StoreDelete(c, says) ==
    \/ says = "true" /\ store[c] # None /\ store' = Removed(c)
    \/ says = "false" /\ store[c] = None /\ UNCHANGED store
    \/ says = "false" /\ "refuse" \in StoreMay /\ UNCHANGED store
    \/ says = "raised" /\ "raise" \in StoreMay /\ UNCHANGED store
    \/ says \in {"false", "raised"} /\ "lose" \in StoreMay /\ store' = Removed(c)

\* A DELETE that does not raise is taken for a removal.
CleanupDeletes(w) ==
    /\ At(w, "cleanup")
    /\ \E says \in {"true", "false"} : StoreDelete(call[w].hash, says)
    /\ Return(w)
    /\ UNCHANGED <<queue, audit, history, edits, crashes>>

CleanupFails(w) ==
    /\ At(w, "cleanup")
    /\ StoreDelete(call[w].hash, "raised")
    /\ history' = history \cup {<<"orphan_cleanup_pending", call[w].hash>>}
    /\ Return(w)
    /\ UNCHANGED <<queue, audit, edits, crashes>>

-----------------------------------------------------------------------------

\* Five minutes pass since finalizer_claimed_at: the call that claimed the
\* row is dead, or stalls.
HoldsClaim(w, i) ==
    /\ call[w].id = i
    /\ call[w].pc \in {"claimed", "writing", "lookup", "failing", "recording"}

LeaseExpires(i) ==
    /\ LiveClaim(queue[i])
    /\ SlowCalls \/ ~HoldsClaim(queue[i].worker, i)
    /\ queue' = [queue EXCEPT ![i].stale = TRUE]
    /\ UNCHANGED <<audit, store, history, edits, callVars>>

\* The process dies between two steps; only the databases remember.
CallCrashes(w) ==
    /\ crashes < MaxCrashes
    /\ ~At(w, "idle")
    /\ crashes' = crashes + 1
    /\ Return(w)
    /\ UNCHANGED queueVars

Decide(w) ==
    \/ \E i \in Ids : ReadCandidate(w, i) \/ AppendReject(w, i) \/ Sweep(w, i)
    \/ AppendApprove(w) \/ AppendFails(w)
    \/ AuthorizeRedrive(w) \/ StampFresh(w) \/ RefuseStamp(w)
    \/ ApplyReject(w)

Finalize(w) ==
    \/ GatePasses(w) \/ GateRefuses(w) \/ GateClaims(w)
    \/ BuildFails(w) \/ CheckClaim(w)
    \/ WriteLands(w) \/ WriteAnswerLost(w) \/ WriteIsDuplicate(w) \/ WriteFails(w)
    \/ LookupFinds(w) \/ LookupFails(w) \/ Fail(w)
    \/ Record(w) \/ RecordOfOther(w) \/ RecordOrphan(w) \/ Outcome(w)
    \/ CleanupDeletes(w) \/ CleanupFails(w)

=============================================================================
