-------------------------- MODULE ReceiptActivation --------------------------
(***************************************************************************)
(* The start of a box whose queue was filled by code that wrote no audit   *)
(* receipts (http/app.py's lifespan, store_probe.py and                    *)
(* client_raw.migrate_audit_receipts).  Before it serves, the box checks   *)
(* that store and configuration belong together, and gives every approved  *)
(* row a receipt, one row at a time under the write lock of the outbox,    *)
(* while a finalizer of the old code may still be running.  A start that   *)
(* leaves a row without receipt does not serve.                            *)
(***************************************************************************)
EXTENDS Naturals, FiniteSets

CONSTANTS
    Approvals,          \* approved rows without a receipt
    Probes,             \* what the self-check may find, the last one served
    MaxLegacyClaims,    \* bound: claims of the old finalizer
    MaxBreaks           \* bound: crashes, failed lookups, lost answers

VARIABLES
    approval,   \* [Approvals -> [state, receipt]]: finalizer_state and receipt
    durable,    \* approvals whose memory is in the store
    early,      \* those that were there when their receipt was appended
    legacy,     \* what the old finalizer does: [pc, row]
    boot,       \* what the start does: [pc, todo, row, found]
    locked,     \* who holds the write lock of the outbox
    probe,      \* what the self-check finds
    breaks, claims

activationVars == <<approval, durable, early, legacy, boot, locked, probe, breaks, claims>>

\* A receipt says nothing of the durable write ("uninspected"), or what the lookup found.
NoReceipt == "none"
OldIdle == [pc |-> "idle", row |-> "-"]
BoxDown == [pc |-> "down", todo |-> {}, row |-> "-", found |-> NoReceipt]

ActivationInit ==
    /\ approval = [a \in Approvals |-> [state |-> "none", receipt |-> NoReceipt]]
    /\ durable = {} /\ early = {}
    /\ legacy = OldIdle /\ boot = BoxDown
    /\ locked = "nobody"
    /\ probe = [absent |-> FALSE, active |-> FALSE, owned |-> FALSE, overlay |-> FALSE,
                acked |-> FALSE]
    /\ breaks = 0 /\ claims = 0

BootHitch == breaks < MaxBreaks /\ breaks' = breaks + 1

\* _ELIGIBLE_NULL_WHERE
EligibleRow(a) ==
    /\ approval[a].state \in {"none", "failed", "finalizing"}
    /\ approval[a].receipt = NoReceipt
Unreceipted == {a \in Approvals : EligibleRow(a)}

-----------------------------------------------------------------------------
(* The finalizer of the old code: it claims under the lock, writes without *)
(* it, and records or fails under it.                                      *)

\* Mutant: nobody waits for the write lock.
LockUnasked == TRUE

OutboxLockFree == locked = "nobody"

SetFinalizerState(a, s) == approval' = [approval EXCEPT ![a].state = s]

OldClaims(a) ==
    /\ legacy.pc = "idle" /\ OutboxLockFree
    /\ claims < MaxLegacyClaims /\ claims' = claims + 1
    /\ approval[a].state \in {"none", "failed", "finalizing"}
    /\ SetFinalizerState(a, "finalizing")
    /\ legacy' = [pc |-> "write", row |-> a]
    /\ UNCHANGED <<durable, early, boot, locked, probe, breaks>>

OldWrites ==
    /\ legacy.pc = "write"
    /\ durable' = durable \cup {legacy.row}
    /\ \/ legacy' = [legacy EXCEPT !.pc = "record"] /\ UNCHANGED breaks
       \/ BootHitch /\ legacy' = [legacy EXCEPT !.pc = "fail"]  \* the answer is lost
    /\ UNCHANGED <<approval, early, boot, locked, probe, claims>>

OldEnds ==
    /\ legacy.pc \in {"record", "fail"} /\ OutboxLockFree
    /\ SetFinalizerState(legacy.row, IF legacy.pc = "record" THEN "finalized" ELSE "failed")
    /\ legacy' = OldIdle
    /\ UNCHANGED <<durable, early, boot, locked, probe, breaks, claims>>

OldDies ==
    /\ legacy.pc # "idle" /\ BootHitch
    /\ legacy' = OldIdle
    /\ UNCHANGED <<approval, durable, early, boot, locked, probe, claims>>

-----------------------------------------------------------------------------
(* The self-check: the read path would serve at least one row to the owner. *)

SelfCheck(p) ==
    \/ p.acked
    \/ p.absent /\ ~p.overlay
    \/ ~p.absent /\ (p.active => p.owned)

\* The store is mounted or lost, the overlay placed or moved, a new box acknowledged.
OperatorIntervenes ==
    /\ boot.pc \in {"down", "dark"} /\ BootHitch
    /\ probe' \in Probes \ {probe}
    /\ UNCHANGED <<approval, durable, early, legacy, boot, locked, claims>>

-----------------------------------------------------------------------------
(* The start.                                                              *)

\* The snapshot of the rows to backfill.
BeginActivation ==
    /\ boot.pc = "down"
    /\ boot' = IF SelfCheck(probe)
               THEN [BoxDown EXCEPT !.pc = "next", !.todo = Unreceipted]
               ELSE [BoxDown EXCEPT !.pc = "dark"]
    /\ UNCHANGED <<approval, durable, early, legacy, locked, probe, breaks, claims>>

\* One row, under BEGIN IMMEDIATE: it is read again, and a row that is being
\* finalized is looked up in the store.
LeaveRow(b) == boot' = b /\ locked' = "nobody"
NextRow == [boot EXCEPT !.pc = "next", !.row = "-", !.found = NoReceipt]

InspectRow(a) ==
    /\ boot.pc = "next" /\ a \in boot.todo /\ OutboxLockFree
    /\ LET rest == [NextRow EXCEPT !.todo = @ \ {a}]
           attest(found) == /\ boot' = [rest EXCEPT !.pc = "append", !.row = a, !.found = found]
                            /\ locked' = "migrator"
       IN  \/ ~EligibleRow(a) /\ LeaveRow(rest) /\ UNCHANGED breaks
           \/ /\ EligibleRow(a) /\ approval[a].state # "finalizing"
              /\ attest("uninspected") /\ UNCHANGED breaks
           \/ /\ EligibleRow(a) /\ approval[a].state = "finalizing"
              /\ attest(IF a \in durable THEN "marker_found" ELSE "marker_absent")
              /\ UNCHANGED breaks
           \/ /\ EligibleRow(a) /\ approval[a].state = "finalizing"
              /\ BootHitch /\ LeaveRow(rest)
    /\ UNCHANGED <<approval, durable, early, legacy, probe, claims>>

\* The audit log is another database: what is appended stays appended.
AppendReceipt ==
    /\ boot.pc = "append"
    /\ boot' = [boot EXCEPT !.pc = "stamp"]
    /\ early' = IF boot.row \in durable THEN early \cup {boot.row} ELSE early \ {boot.row}
    /\ UNCHANGED <<approval, durable, legacy, locked, probe, breaks, claims>>

StampReceipt ==
    /\ boot.pc = "stamp"
    /\ approval' = [approval EXCEPT ![boot.row].receipt = IF @ = NoReceipt THEN boot.found ELSE @]
    /\ LeaveRow(NextRow)
    /\ UNCHANGED <<durable, early, legacy, probe, breaks, claims>>

\* The rows that are left are counted anew, and the box serves if there are none.
CountAndServe ==
    /\ boot.pc = "next" /\ boot.todo = {}
    /\ boot' = [BoxDown EXCEPT !.pc = IF Unreceipted = {} THEN "serving" ELSE "dark"]
    /\ UNCHANGED <<approval, durable, early, legacy, locked, probe, breaks, claims>>

\* The process dies, or what it does raises: it is dark, and its lock is gone.
StartFails ==
    /\ boot.pc \in {"next", "append", "stamp", "serving"} /\ BootHitch
    /\ LeaveRow([BoxDown EXCEPT !.pc = "dark"])
    /\ UNCHANGED <<approval, durable, early, legacy, probe, claims>>

RestartBox ==
    /\ boot.pc = "dark"
    /\ boot' = BoxDown
    /\ UNCHANGED <<approval, durable, early, legacy, locked, probe, breaks, claims>>

BootStep == \/ BeginActivation \/ AppendReceipt \/ StampReceipt \/ CountAndServe
            \/ \E a \in Approvals : InspectRow(a)

ActivationNext ==
    \/ \E a \in Approvals : OldClaims(a)
    \/ OldWrites \/ OldEnds \/ OldDies
    \/ BootStep \/ StartFails \/ RestartBox \/ OperatorIntervenes

ActivationSpec == ActivationInit /\ [][ActivationNext]_activationVars

-----------------------------------------------------------------------------
(* What activation promises.                                               *)

\* The lock orders the old finalizer's claim and the stamp: a receipt that was
\* stamped without a lookup comes before the memory is written, unless an earlier
\* attempt had failed, and a receipt that reports the memory is right
\* (_backfill_one: either it claimed first, or the stamp lands first).
ReceiptPrecedesWrite ==
    [][\A a \in Approvals :
        approval[a].receipt = NoReceipt =>
            /\ approval'[a].receipt = "uninspected" =>
                   approval[a].state = "failed" \/ a \notin durable
            /\ approval'[a].receipt = "marker_found" => a \in early]_activationVars

\* While the box serves, every row that may still be finalized has a receipt,
\* whatever the old finalizer does meanwhile (lifespan: never grandfather).
ServesReceipted == boot.pc = "serving" => Unreceipted = {}

=============================================================================
