---------------------------- MODULE ApprovalQueue ----------------------------
(***************************************************************************)
(* The state every part of the governed write path shares, and the queue   *)
(* transactions of client_raw.py and client.py.                            *)
(*                                                                         *)
(*   queue   - table approval_queue of the outbox database, one row per    *)
(*             approval id.  The linked memory_events row lives and dies   *)
(*             with the approval: it is inserted by the transaction that   *)
(*             approves, completed by the one that sets durable_memory_id  *)
(*             and deleted by the one that purges the row, so it needs no  *)
(*             variable of its own (event pending = approved, event        *)
(*             completed = durable # None).                                *)
(*   audit   - the hash-chained log of the audit database: a sequence of   *)
(*             committed records; a receipt is a position in it.  Only the *)
(*             records about approvals are kept: nothing here reads those  *)
(*             of cross-tenant access and of break-glass.                  *)
(*   store   - the external memory store: the active row of each content   *)
(*             hash, named by the approval whose marker tag it carries.    *)
(*   history - the append-only memory_history table, as the set of         *)
(*             <<op, content hash>> pairs it holds.  append_history is     *)
(*             best-effort (it logs and swallows what goes wrong); here    *)
(*             the local database never fails it.                          *)
(*   edits   - how often somebody changed candidate bytes by hand.         *)
(*                                                                         *)
(* A content stands for a candidate text, its sha256 fingerprint and the   *)
(* content hash the store gives it: all three are functions of the bytes.  *)
(***************************************************************************)
EXTENDS Naturals, Sequences

CONSTANTS
    Ids,          \* approval ids the queue can hand out (AUTOINCREMENT)
    Contents,     \* candidate bytes
    Calls,        \* concurrent approve / reject / redrive calls
    Via,          \* provenance stamped by the configured transport
    Rtbf,         \* the finalizer_worker_id a forget writes
    None,         \* SQL NULL
    Legacy,       \* the ids a caller may approve without a receipt
    MaxAudit,     \* bound: audit records of a behaviour
    MaxEdits      \* bound: hand edits of stored candidate bytes

ASSUME QueueAssumption ==
    /\ None \notin Ids \cup Contents \cup Calls \cup {Via, Rtbf}
    /\ Rtbf \notin Calls
    /\ Legacy \subseteq Ids
    /\ MaxAudit \in Nat
    /\ MaxEdits \in Nat

VARIABLES queue, audit, store, history, edits

queueVars == <<queue, audit, store, history, edits>>

-----------------------------------------------------------------------------
(* Types *)

\* "unused" is an id not handed out yet, "purged" a row deleted by a forget:
\* AUTOINCREMENT never hands the id out again.
Statuses == {"unused", "pending_approval", "approved", "rejected", "purged"}

\* finalizer_state; NULL and 'none' are the same state to every reader.
FinalizerStates == {"none", "finalizing", "failed", "finalized", "rtbf_deleting"}

Rows == [status  : Statuses,
         bytes   : Contents \cup {None},          \* candidate_json (text)
         drawer  : Contents \cup {None},          \* candidate_json memory_id
         via     : {None, Via},                   \* approved_via, approved_by
         receipt : Nat,                           \* audit_receipt_seq, 0 = NULL
         sha     : Contents \cup {None},          \* candidate_sha256
         fin     : FinalizerStates,
         worker  : Calls \cup {None, Rtbf},       \* finalizer_worker_id
         stale   : BOOLEAN,                       \* claimed_at < stale cutoff
         durable : Contents \cup {None}]          \* durable_memory_id

BlankRow(status) ==
    [status |-> status, bytes |-> None, drawer |-> None, via |-> None,
     receipt |-> 0, sha |-> None, fin |-> "none", worker |-> None,
     stale |-> FALSE, durable |-> None]

AuditOps == {"approval_decision", "approval_finalized"}
Decisions == {"approve", "reject", "none"}

AuditRecords == [op       : AuditOps,
                 target   : Ids,
                 decision : Decisions,
                 via      : {None, Via},
                 sha      : Contents \cup {None}]

HistoryOps == {"finalized_active", "orphan_cleanup_pending", "hard_delete"}

QueueTypeOK ==
    /\ queue \in [Ids -> Rows]
    /\ audit \in Seq(AuditRecords)
    /\ store \in [Contents -> Ids \cup {None}]
    /\ history \in SUBSET (HistoryOps \X Contents)
    /\ edits \in Nat

QueueInit ==
    /\ queue = [i \in Ids |-> BlankRow("unused")]
    /\ audit = <<>>
    /\ store = [c \in Contents |-> None]
    /\ history = {}
    /\ edits = 0

-----------------------------------------------------------------------------
(* Predicates on a row *)

Exists(r) == r.status \notin {"unused", "purged"}

\* Neither a live finalize nor a forget holds the row (_finalizer_unclaimed,
\* and the same set in the guards of reject and defer).
Unclaimed(r) == r.fin \in {"none", "failed"}

\* A finalize claimed the row and its lease has not run out.
LiveClaim(r) == r.fin = "finalizing" /\ ~r.stale

\* Mutant: a claim that asks only for an unfinished row.
ClaimableUnfinished(r) == r.fin # "finalized" /\ ~LiveClaim(r)

\* The states a finalizer may take a row from.
Claimable(r) == Unclaimed(r) \/ (r.fin = "finalizing" /\ r.stale)

Awaiting(r) == r.status = "pending_approval"

-----------------------------------------------------------------------------
(* Records of the audit log *)

DecisionRecord(i, decision, sha) ==
    [op |-> "approval_decision", target |-> i, decision |-> decision,
     via |-> Via, sha |-> sha]

FinalizedRecord(i, h) ==
    [op |-> "approval_finalized", target |-> i, decision |-> "none",
     via |-> Via, sha |-> h]

\* audit_write: one transaction of the audit database appends one record.
AuditAppend(rec) ==
    /\ Len(audit) < MaxAudit
    /\ audit' = Append(audit, rec)

-----------------------------------------------------------------------------
(* Transactions on the queue *)

\* _approve_in_conn refuses changed bytes and rows that are not approvable.
FingerprintHolds(r, sha) == sha # None => r.bytes = sha

ApprovableInConn(r, sha) ==
    /\ FingerprintHolds(r, sha)
    /\ r.status \in {"pending_approval", "approved"}

\* _approve_in_conn: an approved row only gains what it lacks; any other is
\* assigned the caller's provenance and receipt, absent ones included.
ApproveInConn(r, via, seq, sha) ==
    IF r.status = "approved"
    THEN [r EXCEPT !.via     = IF @ = None THEN via ELSE @,
                   !.receipt = IF @ = 0 THEN seq ELSE @,
                   !.sha     = IF r.receipt = 0 /\ seq # 0 THEN sha ELSE @]
    ELSE [r EXCEPT !.status = "approved", !.via = via,
                   !.receipt = seq, !.sha = sha]

\* MemoryClient._enqueue_approval
Propose(i, c) ==
    /\ queue[i].status = "unused"
    /\ queue' = [queue EXCEPT ![i] = [BlankRow("pending_approval") EXCEPT
                                        !.bytes = c, !.drawer = c]]
    /\ UNCHANGED <<audit, store, history, edits>>

\* approve_queued_candidate: approves without provenance and receipt.
RawApprove(i) ==
    /\ i \in Legacy
    /\ ApprovableInConn(queue[i], None)
    /\ queue' = [queue EXCEPT ![i] = ApproveInConn(@, None, 0, None)]
    /\ UNCHANGED <<audit, store, history, edits>>

\* Somebody edits candidate_json by hand (the case the fingerprint guards).
EditBytes(i, c) ==
    /\ edits < MaxEdits
    /\ Exists(queue[i])
    /\ queue[i].bytes # c
    /\ queue' = [queue EXCEPT ![i].bytes = c]
    /\ edits' = edits + 1
    /\ UNCHANGED <<audit, store, history>>

=============================================================================
