----------------------------- MODULE AuditChain -----------------------------
(***************************************************************************)
(* The hash-chained audit log (audit.py): audit_write under BEGIN          *)
(* IMMEDIATE, the receipt a caller keeps of its row (audit_row_hash, read  *)
(* in a transaction of its own), audit_verify_chain over the whole log and *)
(* audit_verify_through up to a receipt's row.  ApprovalQueue takes the    *)
(* log's soundness for granted; here are the rows and the hashes.          *)
(*                                                                         *)
(*   log      - the rows, ordered by seq                                   *)
(*   writers  - each writer's append: idle, begun, committed               *)
(*   receipts - the (seq, this_hash) pairs kept elsewhere, with the rows   *)
(*              that stood up to seq when the hash was read                *)
(*   verdicts - receipts the finalizer's gate has just accepted            *)
(*   damages  - how often the file was damaged or put back to an older one *)
(*                                                                         *)
(* _row_hash is the sequence of all bodies hashed so far: SHA-256 without  *)
(* a collision, over the canonical row and the previous hash.              *)
(***************************************************************************)
EXTENDS Integers, Sequences, FiniteSets, SequencesExt

CONSTANTS
    Writers,    \* threads and processes that append
    Bodies,     \* what a row says: principal, op, target, details
    NoWriter,   \* nobody holds the write lock
    MaxChainRows,    \* bound: rows appended
    MaxDamages  \* bound: damage to the file

ASSUME ChainAssumption ==
    /\ NoWriter \notin Writers
    /\ MaxChainRows \in Nat /\ MaxDamages \in Nat

VARIABLES log, writers, writeLock, receipts, verdicts, damages

chainVars == <<log, writers, writeLock, receipts, verdicts, damages>>

ZeroHash == <<>>

RowHash(prev, seq, body) == Append(prev, <<seq, body>>)

Row(seq, prev, body) ==
    [seq |-> seq, body |-> body, prev |-> prev, this |-> RowHash(prev, seq, body)]

TailHash(rows) == IF rows = <<>> THEN ZeroHash ELSE Last(rows).this
TailSeq(rows) == IF rows = <<>> THEN 0 ELSE Last(rows).seq

IdleWriter == [at |-> "idle", seq |-> 0, prev |-> ZeroHash]

ChainTypeOK ==
    /\ \A i \in DOMAIN log : log[i].seq \in 1..MaxChainRows /\ log[i].body \in Bodies
    /\ \A i \in 1..(Len(log) - 1) : log[i].seq < log[i + 1].seq
    /\ \A w \in Writers : writers[w].at \in {"idle", "begun", "committed"}
    /\ writeLock \in Writers \cup {NoWriter}
    /\ \A r \in receipts : r.seq \in 1..MaxChainRows
    /\ verdicts \subseteq receipts
    /\ damages \in 0..MaxDamages

ChainInit ==
    /\ log = <<>>
    /\ writers = [w \in Writers |-> IdleWriter]
    /\ writeLock = NoWriter
    /\ receipts = {}
    /\ verdicts = {}
    /\ damages = 0

-----------------------------------------------------------------------------
(* Appending *)

\* BEGIN IMMEDIATE, and the tail read inside it
BeginAppend(w) ==
    /\ writers[w].at = "idle"
    /\ writeLock = NoWriter
    /\ TailSeq(log) < MaxChainRows
    /\ writeLock' = w
    /\ writers' = [writers EXCEPT ![w] = [at |-> "begun", seq |-> TailSeq(log) + 1,
                                          prev |-> TailHash(log)]]
    /\ UNCHANGED <<log, receipts, verdicts, damages>>

\* seq is the primary key: a row that is there already refuses the insert.
CommitAppend(w, body) ==
    /\ writers[w].at = "begun"
    /\ \A i \in DOMAIN log : log[i].seq # writers[w].seq
    /\ log' = Append(log, Row(writers[w].seq, writers[w].prev, body))
    /\ writers' = [writers EXCEPT ![w].at = "committed"]
    /\ writeLock' = NoWriter
    /\ UNCHANGED <<receipts, verdicts, damages>>

\* The insert or the process fails: the transaction leaves no row.
RollBackAppend(w) ==
    /\ writers[w].at = "begun"
    /\ writers' = [writers EXCEPT ![w] = IdleWriter]
    /\ writeLock' = NoWriter
    /\ UNCHANGED <<log, receipts, verdicts, damages>>

\* The log is ordered by seq: these are its first rows.
RowsThrough(seq) == SubSeq(log, 1, Cardinality({i \in DOMAIN log : log[i].seq =< seq}))

Said(rows) == [i \in DOMAIN rows |-> <<rows[i].seq, rows[i].body>>]

\* audit_row_hash, in a transaction of its own; a row that is gone by then
\* makes no receipt.
TakeReceipt(w) ==
    /\ writers[w].at = "committed"
    /\ receipts' = receipts \cup
         {[seq |-> row.seq, this |-> row.this, told |-> Said(RowsThrough(row.seq)),
           sound |-> damages = 0] :
            row \in {x \in ToSet(log) : x.seq = writers[w].seq}}
    /\ writers' = [writers EXCEPT ![w] = IdleWriter]
    /\ UNCHANGED <<log, writeLock, verdicts, damages>>

-----------------------------------------------------------------------------
(* Verifying *)

\* audit_verify_chain, over all rows or those up to a receipt: contiguous from
\* 1, each linked to the one before and hashed right.
VerifyRows(rows) ==
    \A i \in DOMAIN rows :
       /\ rows[i].seq = i
       /\ rows[i].prev = TailHash(SubSeq(rows, 1, i - 1))
       /\ rows[i].this = RowHash(rows[i].prev, rows[i].seq, rows[i].body)

\* audit_verify_through: the row at seq is reached over an intact prefix.
VerifyThrough(seq) ==
    LET rows == RowsThrough(seq)
    IN rows # <<>> /\ Last(rows).seq = seq /\ VerifyRows(rows)

\* Mutant: the chain verifies, and the stored hash is not looked at.
ChainAccepts(r) == VerifyThrough(r.seq)

\* The receipt gate of the finalizer: chain, then the stored hash.
Accepts(r) == VerifyThrough(r.seq) /\ TailHash(RowsThrough(r.seq)) = r.this

CheckReceipt(r) ==
    /\ r \in receipts
    /\ verdicts' = IF Accepts(r) THEN {r} ELSE {}
    /\ UNCHANGED <<log, writers, writeLock, receipts, damages>>

-----------------------------------------------------------------------------
(* What befalls the file: nothing here goes through audit_write. *)

Damage(rows) ==
    /\ damages < MaxDamages
    /\ writeLock = NoWriter
    /\ rows # log
    /\ log' = rows
    /\ damages' = damages + 1
    /\ verdicts' = {}
    /\ UNCHANGED <<writers, writeLock, receipts>>

\* A row is lost, or says something else, with the hashes left as they were.
LoseRow(i) == i \in DOMAIN log /\ Damage(RemoveAt(log, i))
AlterRow(i, body) == i \in DOMAIN log /\ Damage([log EXCEPT ![i].body = body])

\* An older copy is put back, or an export imported anew with other contents:
\* every row numbered and hashed afresh.
Relinked(bodies) ==
    [i \in DOMAIN bodies |->
       Row(i, [j \in 1..(i - 1) |-> <<j, bodies[j]>>], bodies[i])]

PutBack(bodies) == Damage(Relinked(bodies))

ChainNext ==
    \/ \E w \in Writers :
         \/ BeginAppend(w) \/ RollBackAppend(w) \/ TakeReceipt(w)
         \/ \E body \in Bodies : CommitAppend(w, body)
    \/ \E r \in receipts : CheckReceipt(r)
    \/ \E i \in 1..MaxChainRows : LoseRow(i) \/ \E body \in Bodies : AlterRow(i, body)
    \/ \E n \in 0..Len(log) : \E bodies \in [1..n -> Bodies] : PutBack(bodies)

ChainSpec == ChainInit /\ [][ChainNext]_chainVars

-----------------------------------------------------------------------------
(* Properties *)

\* A receipt the gate accepts vouches for everything up to its row: the rows
\* say what they said when the receipt was made, whatever was lost, altered
\* or put back since (audit_verify_through with the stored hash).
AcceptedReceiptPinsHistory ==
    \A r \in verdicts : r.sound => Said(RowsThrough(r.seq)) = r.told

=============================================================================
