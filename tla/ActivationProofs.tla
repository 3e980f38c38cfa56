--------------------------- MODULE ActivationProofs ---------------------------
(***************************************************************************)
(* What the start of a box keeps while a finalizer of the old code still   *)
(* runs, for any number of approvals, claims and breaks; and how many      *)
(* owner bearers the installation of a box mints, for any number of calls, *)
(* failures and deaths.                                                    *)
(***************************************************************************)
EXTENDS ReceiptActivation, SelfHostInstall, FiniteSetTheorems, TLAPS

-----------------------------------------------------------------------------
(* The inductive invariant *)

FinalizerStates == {"none", "finalizing", "failed", "finalized"}
Founds == {NoReceipt, "uninspected", "marker_found", "marker_absent"}
BootRecords == [pc : {"down", "next", "append", "stamp", "serving", "dark"},
                todo : SUBSET Approvals, row : Approvals \cup {"-"}, found : Founds]
LegacyRecords == [pc : {"idle", "write", "record", "fail"}, row : Approvals \cup {"-"}]

ActivationShape ==
    /\ approval \in [Approvals -> [state : FinalizerStates, receipt : Founds]]
    /\ durable \subseteq Approvals /\ early \subseteq Approvals
    /\ legacy \in LegacyRecords /\ boot \in BootRecords

Attesting == boot.pc \in {"append", "stamp"}

\* The lock is held exactly while a row is attested.
LockIsHeld == Attesting <=> locked # "nobody"

\* The row the old finalizer works on is one it claimed, and nobody else moves it.
LegacyHasClaim ==
    legacy.pc # "idle" => legacy.row \in Approvals /\ approval[legacy.row].state = "finalizing"

\* What was never claimed is not in the store.
UnclaimedIsAbsent == \A a \in Approvals : approval[a].state = "none" => a \notin durable

\* Under the lock the row stays as it was read.
AttestedStays ==
    Attesting =>
        /\ boot.row \in Approvals /\ EligibleRow(boot.row)
        /\ boot.found = "uninspected" => approval[boot.row].state # "finalizing"
        /\ boot.found = "marker_found" => boot.row \in durable
        /\ (boot.found = "marker_found" /\ boot.pc = "stamp") => boot.row \in early

ActivationInv ==
    /\ ActivationShape /\ LockIsHeld /\ LegacyHasClaim /\ UnclaimedIsAbsent /\ AttestedStays
    /\ ServesReceipted

\* The step of ReceiptPrecedesWrite.
ReceiptStep ==
    \A a \in Approvals :
        approval[a].receipt = NoReceipt =>
            /\ approval'[a].receipt = "uninspected" =>
                   approval[a].state = "failed" \/ a \notin durable
            /\ approval'[a].receipt = "marker_found" => a \in early

LEMMA BoxDownIsRecord == BoxDown \in BootRecords /\ BoxDown.pc = "down"
  BY DEF BoxDown, BootRecords, Founds, NoReceipt

\* Nothing is claimed, written or attested.
LEMMA ActivationStarts == ActivationInit => ActivationInv
  <1> SUFFICES ASSUME ActivationInit PROVE ActivationInv
    OBVIOUS
  <1>1. ActivationShape
    BY BoxDownIsRecord
    DEF ActivationInit, ActivationShape, FinalizerStates, Founds, NoReceipt, OldIdle, LegacyRecords
  <1>2. legacy.pc = "idle" /\ boot.pc = "down"
    BY BoxDownIsRecord DEF ActivationInit, OldIdle
  <1>3. QED
    BY <1>1, <1>2
    DEF ActivationInv, ActivationInit, LockIsHeld, LegacyHasClaim, UnclaimedIsAbsent,
        AttestedStays, Attesting, ServesReceipted

-----------------------------------------------------------------------------
(* The steps of the old finalizer *)

\* A state that changes without a receipt makes no row newly eligible, and no receipt.
LEMMA StateMoves ==
  ASSUME ActivationInv, NEW a \in Approvals, NEW s \in FinalizerStates, SetFinalizerState(a, s),
         s # "none", approval[a].state \in {"none", "failed", "finalizing"}
  PROVE  /\ approval' \in [Approvals -> [state : FinalizerStates, receipt : Founds]]
         /\ approval'[a].state = s
         /\ \A b \in Approvals : /\ approval'[b].receipt = approval[b].receipt
                                 /\ b # a => approval'[b] = approval[b]
         /\ Unreceipted' \subseteq Unreceipted
         /\ ReceiptStep
  <1> DEFINE new == [approval[a] EXCEPT !.state = s]
  <1>1. approval \in [Approvals -> [state : FinalizerStates, receipt : Founds]]
    BY DEF ActivationInv, ActivationShape
  <1>2. /\ new \in [state : FinalizerStates, receipt : Founds]
        /\ new.state = s /\ new.receipt = approval[a].receipt
    BY <1>1
  <1>3. approval' = [approval EXCEPT ![a] = new]
    BY <1>1 DEF SetFinalizerState
  <1> HIDE DEF new
  <1>4. /\ approval' \in [Approvals -> [state : FinalizerStates, receipt : Founds]]
        /\ approval'[a] = new
        /\ \A b \in Approvals : b # a => approval'[b] = approval[b]
    BY <1>1, <1>2, <1>3
  <1>5. \A b \in Approvals : approval'[b].receipt = approval[b].receipt
    BY <1>2, <1>4
  <1>6. Unreceipted' \subseteq Unreceipted
    BY <1>4, <1>5 DEF Unreceipted, EligibleRow
  <1>7. ReceiptStep
    BY <1>5 DEF ReceiptStep, NoReceipt
  <1>8. QED
    BY <1>2, <1>4, <1>5, <1>6, <1>7

LEMMA ClaimKeeps ==
  ASSUME ActivationInv, NEW a \in Approvals, OldClaims(a)
  PROVE  ActivationInv' /\ ReceiptStep
  <1>1. /\ legacy.pc = "idle" /\ locked = "nobody" /\ SetFinalizerState(a, "finalizing")
        /\ approval[a].state \in {"none", "failed", "finalizing"}
        /\ legacy' = [pc |-> "write", row |-> a]
        /\ UNCHANGED <<durable, early, boot, locked>>
    BY DEF OldClaims, OutboxLockFree
  <1>2. "finalizing" \in FinalizerStates
    BY DEF FinalizerStates
  <1>3. /\ approval' \in [Approvals -> [state : FinalizerStates, receipt : Founds]]
        /\ approval'[a].state = "finalizing"
        /\ \A b \in Approvals : b # a => approval'[b] = approval[b]
        /\ Unreceipted' \subseteq Unreceipted /\ ReceiptStep
    BY <1>1, <1>2, StateMoves
  <1>4. ActivationShape' /\ LegacyHasClaim'
    BY <1>1, <1>3 DEF ActivationInv, ActivationShape, LegacyRecords, LegacyHasClaim
  <1>5. LockIsHeld' /\ AttestedStays' /\ ~Attesting
    BY <1>1 DEF ActivationInv, LockIsHeld, AttestedStays, Attesting
  <1>6. UnclaimedIsAbsent'
    BY <1>1, <1>3 DEF ActivationInv, UnclaimedIsAbsent
  <1>7. ServesReceipted'
    BY <1>1, <1>3 DEF ActivationInv, ServesReceipted
  <1>8. QED
    BY <1>3, <1>4, <1>5, <1>6, <1>7 DEF ActivationInv

LEMMA OldWriteKeeps ==
  ASSUME ActivationInv, OldWrites
  PROVE  ActivationInv' /\ ReceiptStep
  <1>1. /\ legacy.pc = "write" /\ durable' = durable \cup {legacy.row}
        /\ UNCHANGED <<approval, early, boot, locked>>
        /\ legacy' = [legacy EXCEPT !.pc = "record"] \/ legacy' = [legacy EXCEPT !.pc = "fail"]
    BY DEF OldWrites
  <1>2. legacy.row \in Approvals /\ approval[legacy.row].state = "finalizing"
    BY <1>1 DEF ActivationInv, LegacyHasClaim
  <1>3. legacy' \in LegacyRecords /\ legacy'.row = legacy.row
    BY <1>1 DEF ActivationInv, ActivationShape, LegacyRecords
  <1>4. ActivationShape' /\ LegacyHasClaim' /\ UnclaimedIsAbsent'
    BY <1>1, <1>2, <1>3
    DEF ActivationInv, ActivationShape, LegacyHasClaim, UnclaimedIsAbsent
  <1>5. LockIsHeld' /\ AttestedStays' /\ ServesReceipted'
    BY <1>1
    DEF ActivationInv, LockIsHeld, AttestedStays, Attesting, EligibleRow, ServesReceipted,
        Unreceipted
  <1>6. ReceiptStep
    BY <1>1 DEF ReceiptStep, NoReceipt
  <1>7. QED
    BY <1>4, <1>5, <1>6 DEF ActivationInv

LEMMA OldEndKeeps ==
  ASSUME ActivationInv, OldEnds
  PROVE  ActivationInv' /\ ReceiptStep
  <1>1. /\ legacy.pc \in {"record", "fail"} /\ locked = "nobody" /\ legacy' = OldIdle
        /\ UNCHANGED <<durable, early, boot, locked>>
    BY DEF OldEnds, OutboxLockFree
  <1>2. PICK s \in {"finalized", "failed"} : SetFinalizerState(legacy.row, s)
    BY DEF OldEnds
  <1>3. legacy.row \in Approvals /\ approval[legacy.row].state = "finalizing"
    BY <1>1 DEF ActivationInv, LegacyHasClaim
  <1>4. s \in FinalizerStates /\ s # "none"
    BY DEF FinalizerStates
  <1>5. /\ approval' \in [Approvals -> [state : FinalizerStates, receipt : Founds]]
        /\ approval'[legacy.row].state = s
        /\ \A b \in Approvals : b # legacy.row => approval'[b] = approval[b]
        /\ Unreceipted' \subseteq Unreceipted /\ ReceiptStep
    BY <1>2, <1>3, <1>4, StateMoves
  <1>6. legacy'.pc = "idle" /\ legacy' \in LegacyRecords
    BY <1>1 DEF OldIdle, LegacyRecords
  <1>7. ActivationShape' /\ LegacyHasClaim'
    BY <1>1, <1>5, <1>6 DEF ActivationInv, ActivationShape, LegacyHasClaim
  <1>8. LockIsHeld' /\ AttestedStays'
    BY <1>1 DEF ActivationInv, LockIsHeld, AttestedStays, Attesting
  <1>9. UnclaimedIsAbsent' /\ ServesReceipted'
    BY <1>1, <1>4, <1>5 DEF ActivationInv, UnclaimedIsAbsent, ServesReceipted
  <1>10. QED
    BY <1>5, <1>7, <1>8, <1>9 DEF ActivationInv

\* A finalizer that dies leaves its row as it is.
LEMMA OldDeathKeeps ==
  ASSUME ActivationInv, OldDies
  PROVE  ActivationInv' /\ ReceiptStep
  <1>1. legacy' = OldIdle /\ UNCHANGED <<approval, durable, early, boot, locked>>
    BY DEF OldDies
  <1>2. legacy'.pc = "idle" /\ legacy' \in LegacyRecords
    BY <1>1 DEF OldIdle, LegacyRecords
  <1>3. QED
    BY <1>1, <1>2
    DEF ActivationInv, ActivationShape, LockIsHeld, LegacyHasClaim, UnclaimedIsAbsent,
        AttestedStays, Attesting, EligibleRow, ServesReceipted, Unreceipted, ReceiptStep, NoReceipt

-----------------------------------------------------------------------------
(* The steps of the start *)

\* A step that only moves the start, and attests nothing afterwards.
LEMMA BootMoves ==
  ASSUME ActivationInv, UNCHANGED <<approval, durable, early, legacy>>,
         boot' \in BootRecords, ~Attesting', locked' = "nobody",
         boot'.pc = "serving" => Unreceipted = {}
  PROVE  ActivationInv' /\ ReceiptStep
  BY DEF ActivationInv, ActivationShape, LockIsHeld, LegacyHasClaim, UnclaimedIsAbsent,
         AttestedStays, EligibleRow, ServesReceipted, Unreceipted, ReceiptStep, NoReceipt

LEMMA BeginKeeps ==
  ASSUME ActivationInv, BeginActivation
  PROVE  ActivationInv' /\ ReceiptStep
  <1>1. boot.pc = "down" /\ UNCHANGED <<approval, durable, early, legacy, locked>>
    BY DEF BeginActivation
  <1>2. \/ boot' = [BoxDown EXCEPT !.pc = "next", !.todo = Unreceipted]
        \/ boot' = [BoxDown EXCEPT !.pc = "dark"]
    BY DEF BeginActivation
  <1>3. boot' \in BootRecords /\ boot'.pc \in {"next", "dark"}
    BY <1>2 DEF BoxDown, BootRecords, Unreceipted, Founds, NoReceipt
  <1>4. locked = "nobody"
    BY <1>1 DEF ActivationInv, LockIsHeld, Attesting
  <1>5. QED
    BY <1>1, <1>3, <1>4, BootMoves DEF Attesting

LEMMA InspectKeeps ==
  ASSUME ActivationInv, NEW a \in Approvals, InspectRow(a)
  PROVE  ActivationInv' /\ ReceiptStep
  <1> DEFINE rest == [NextRow EXCEPT !.todo = @ \ {a}]
             attests(found) == /\ boot' = [rest EXCEPT !.pc = "append", !.row = a, !.found = found]
                               /\ locked' = "migrator"
  <1>1. boot.pc = "next" /\ UNCHANGED <<approval, durable, early, legacy>> /\ locked = "nobody"
    BY DEF InspectRow, OutboxLockFree
  <1>2. boot \in BootRecords
    BY DEF ActivationInv, ActivationShape
  <1>3. rest \in BootRecords /\ rest.pc = "next"
    BY <1>2 DEF NextRow, BootRecords, Founds, NoReceipt
  <1>4. CASE LeaveRow(rest)
    BY <1>1, <1>3, <1>4, BootMoves DEF LeaveRow, Attesting
  <1>5. ASSUME NEW found \in Founds, attests(found), EligibleRow(a),
               found = "uninspected" => approval[a].state # "finalizing",
               found = "marker_found" => a \in durable
        PROVE  ActivationInv' /\ ReceiptStep
    <2>1. /\ boot' \in BootRecords /\ boot'.pc = "append" /\ boot'.row = a
          /\ boot'.found = found
      BY <1>3, <1>5 DEF BootRecords
    <2> HIDE DEF rest
    <2>2. ActivationShape' /\ LegacyHasClaim' /\ UnclaimedIsAbsent' /\ ServesReceipted'
      BY <1>1, <2>1
      DEF ActivationInv, ActivationShape, LegacyHasClaim, UnclaimedIsAbsent, ServesReceipted
    <2>3. LockIsHeld'
      BY <1>5, <2>1 DEF LockIsHeld, Attesting
    <2>4. AttestedStays'
      BY <1>1, <1>5, <2>1 DEF AttestedStays, EligibleRow
    <2>5. ReceiptStep
      BY <1>1 DEF ReceiptStep, NoReceipt
    <2>6. QED
      BY <2>2, <2>3, <2>4, <2>5 DEF ActivationInv
  <1>6. \/ LeaveRow(rest)
        \/ /\ EligibleRow(a) /\ approval[a].state # "finalizing" /\ attests("uninspected")
        \/ /\ EligibleRow(a) /\ a \in durable /\ attests("marker_found")
        \/ /\ EligibleRow(a) /\ attests("marker_absent")
    BY DEF InspectRow
  <1>7. {"uninspected", "marker_found", "marker_absent"} \subseteq Founds
    BY DEF Founds
  <1>8. QED
    BY <1>4, <1>5, <1>6, <1>7

LEMMA AppendKeeps ==
  ASSUME ActivationInv, AppendReceipt
  PROVE  ActivationInv' /\ ReceiptStep
  <1>1. /\ boot.pc = "append" /\ boot' = [boot EXCEPT !.pc = "stamp"]
        /\ early' = IF boot.row \in durable THEN early \cup {boot.row} ELSE early \ {boot.row}
        /\ UNCHANGED <<approval, durable, legacy, locked>>
    BY DEF AppendReceipt
  <1>2. /\ boot' \in BootRecords /\ boot'.pc = "stamp" /\ boot'.row = boot.row
        /\ boot'.found = boot.found
    BY <1>1 DEF ActivationInv, ActivationShape, BootRecords
  <1>3. boot.row \in Approvals
    BY <1>1 DEF ActivationInv, AttestedStays, Attesting
  <1>4. ActivationShape' /\ LegacyHasClaim' /\ UnclaimedIsAbsent' /\ ServesReceipted'
    BY <1>1, <1>2, <1>3
    DEF ActivationInv, ActivationShape, LegacyHasClaim, UnclaimedIsAbsent, ServesReceipted
  <1>5. LockIsHeld'
    BY <1>1, <1>2 DEF ActivationInv, LockIsHeld, Attesting
  <1>6. AttestedStays'
    BY <1>1, <1>2 DEF ActivationInv, AttestedStays, Attesting, EligibleRow
  <1>7. ReceiptStep
    BY <1>1 DEF ReceiptStep, NoReceipt
  <1>8. QED
    BY <1>4, <1>5, <1>6, <1>7 DEF ActivationInv

\* The stamp: the row is as it was read, so what was found is still true of it.
LEMMA StampKeeps ==
  ASSUME ActivationInv, StampReceipt
  PROVE  ActivationInv' /\ ReceiptStep
  <1> DEFINE row == boot.row
             new == [approval[row] EXCEPT !.receipt = boot.found]
  <1>1. /\ boot.pc = "stamp" /\ boot' = NextRow /\ locked' = "nobody"
        /\ UNCHANGED <<durable, early, legacy>>
    BY DEF StampReceipt, LeaveRow
  <1>2. row \in Approvals /\ EligibleRow(row)
    BY <1>1 DEF ActivationInv, AttestedStays, Attesting
  <1>3. /\ approval \in [Approvals -> [state : FinalizerStates, receipt : Founds]]
        /\ boot \in BootRecords /\ boot.found \in Founds
    BY DEF ActivationInv, ActivationShape, BootRecords
  <1>4. /\ new \in [state : FinalizerStates, receipt : Founds]
        /\ new.state = approval[row].state /\ new.receipt = boot.found
    BY <1>2, <1>3
  <1>5. approval' = [approval EXCEPT ![row] = new]
    BY <1>2, <1>3 DEF StampReceipt, EligibleRow
  <1> HIDE DEF new
  <1>6. /\ approval' \in [Approvals -> [state : FinalizerStates, receipt : Founds]]
        /\ approval'[row].receipt = boot.found
        /\ \A b \in Approvals : /\ approval'[b].state = approval[b].state
                                /\ b # row => approval'[b] = approval[b]
    BY <1>2, <1>3, <1>4, <1>5
  <1>7. boot' \in BootRecords /\ boot'.pc = "next"
    BY <1>1, <1>3 DEF NextRow, BootRecords, Founds, NoReceipt
  <1>8. ActivationShape' /\ LegacyHasClaim' /\ UnclaimedIsAbsent'
    BY <1>1, <1>6, <1>7
    DEF ActivationInv, ActivationShape, LegacyHasClaim, UnclaimedIsAbsent
  <1>9. LockIsHeld' /\ AttestedStays' /\ ServesReceipted'
    BY <1>1, <1>7 DEF LockIsHeld, AttestedStays, Attesting, ServesReceipted
  <1>10. ReceiptStep
    <2>1. ASSUME NEW b \in Approvals, b # row PROVE approval'[b].receipt = approval[b].receipt
      BY <1>6, <2>1
    <2>2. /\ boot.found = "uninspected" => approval[row].state = "failed" \/ row \notin durable
          /\ boot.found = "marker_found" => row \in early
      BY <1>1, <1>2
      DEF ActivationInv, AttestedStays, Attesting, EligibleRow, UnclaimedIsAbsent
    <2>3. QED
      BY <1>6, <2>1, <2>2 DEF ReceiptStep, NoReceipt
  <1>11. QED
    BY <1>8, <1>9, <1>10 DEF ActivationInv

LEMMA CountKeeps ==
  ASSUME ActivationInv, CountAndServe
  PROVE  ActivationInv' /\ ReceiptStep
  <1>1. boot.pc = "next" /\ UNCHANGED <<approval, durable, early, legacy, locked>>
    BY DEF CountAndServe
  <1>2. PICK stage \in {"serving", "dark"} :
            boot' = [BoxDown EXCEPT !.pc = stage] /\ (stage = "serving" => Unreceipted = {})
    BY DEF CountAndServe
  <1>3. boot' \in BootRecords /\ boot'.pc = stage
    BY <1>2 DEF BoxDown, BootRecords, Founds, NoReceipt
  <1>4. locked = "nobody"
    BY <1>1 DEF ActivationInv, LockIsHeld, Attesting
  <1>5. QED
    BY <1>1, <1>2, <1>3, <1>4, BootMoves DEF Attesting

LEMMA FailKeeps ==
  ASSUME ActivationInv, StartFails
  PROVE  ActivationInv' /\ ReceiptStep
  <1>1. /\ boot' = [BoxDown EXCEPT !.pc = "dark"] /\ locked' = "nobody"
        /\ UNCHANGED <<approval, durable, early, legacy>>
    BY DEF StartFails, LeaveRow
  <1>2. boot' \in BootRecords /\ boot'.pc = "dark"
    BY <1>1 DEF BoxDown, BootRecords, Founds, NoReceipt
  <1>3. QED
    BY <1>1, <1>2, BootMoves DEF Attesting

LEMMA RestartKeeps ==
  ASSUME ActivationInv, RestartBox
  PROVE  ActivationInv' /\ ReceiptStep
  <1>1. boot.pc = "dark" /\ boot' = BoxDown /\ UNCHANGED <<approval, durable, early, legacy, locked>>
    BY DEF RestartBox
  <1>2. locked = "nobody"
    BY <1>1 DEF ActivationInv, LockIsHeld, Attesting
  <1>3. QED
    BY <1>1, <1>2, BoxDownIsRecord, BootMoves DEF Attesting

LEMMA StandingKeeps ==
  ASSUME ActivationInv, UNCHANGED <<approval, durable, early, legacy, boot, locked>>
  PROVE  ActivationInv' /\ ReceiptStep
  BY DEF ActivationInv, ActivationShape, LockIsHeld, LegacyHasClaim, UnclaimedIsAbsent,
         AttestedStays, Attesting, EligibleRow, ServesReceipted, Unreceipted, ReceiptStep, NoReceipt

-----------------------------------------------------------------------------
(* The theorems *)

LEMMA ActivationMoves ==
  ActivationInv /\ [ActivationNext]_activationVars => ActivationInv' /\ ReceiptStep
  <1> SUFFICES ASSUME ActivationInv, [ActivationNext]_activationVars
               PROVE  ActivationInv' /\ ReceiptStep
    OBVIOUS
  <1>1. CASE UNCHANGED activationVars
    BY <1>1, StandingKeeps DEF activationVars
  <1>2. CASE OperatorIntervenes
    BY <1>2, StandingKeeps DEF OperatorIntervenes
  <1>3. CASE BootStep
    BY <1>3, BeginKeeps, AppendKeeps, StampKeeps, CountKeeps, InspectKeeps DEF BootStep
  <1>4. QED
    BY <1>1, <1>2, <1>3, ClaimKeeps, OldWriteKeeps, OldEndKeeps, OldDeathKeeps, FailKeeps,
       RestartKeeps
    DEF ActivationNext

\* While the box serves, every row that may still be finalized has a receipt, for any
\* number of approvals and however often the old finalizer claims, writes and fails.
THEOREM ServingBoxIsReceipted == ActivationSpec => []ServesReceipted
  <1>1. ActivationInv => ServesReceipted
    BY DEF ActivationInv
  <1>2. QED
    BY <1>1, ActivationStarts, ActivationMoves, PTL DEF ActivationSpec

\* A receipt stamped without a lookup comes before the memory, unless an attempt had
\* failed, and one that reports the memory was appended while it was there.
THEOREM StampPrecedesWrite == ActivationSpec => ReceiptPrecedesWrite
  <1>1. ReceiptStep =>
          \A a \in Approvals :
              approval[a].receipt = NoReceipt =>
                  /\ approval'[a].receipt = "uninspected" =>
                         approval[a].state = "failed" \/ a \notin durable
                  /\ approval'[a].receipt = "marker_found" => a \in early
    BY DEF ReceiptStep
  <1>2. QED
    BY <1>1, ActivationStarts, ActivationMoves, PTL DEF ActivationSpec, ReceiptPrecedesWrite

-----------------------------------------------------------------------------
(* SelfHostInstall: one owner bearer *)

UpStages == {"idle", "check", "compose", "start", "init"}
InitStages == {"none", "state", "mint", "approval", "overlay", "fill", "bearer", "env", "verify",
               "ok", "failed"}
HomeFiles == [approval : BOOLEAN, overlay : {"absent", "cut", "whole"}, bearer : Nat,
              compose : {"absent", "asset", "edited"}]
Answers == {"-", "0", "2 locked", "2 partial", "2 recovery", "2 drift", "3", "4", "4 no bearer"}
UpRecords == [pc : UpStages, state : {"-", "fresh", "provisioned", "forced"}, said : Answers]
Tallies == [calls : Nat, hitches : Nat, forces : Nat, minted : Nat]
Children == [pc : InitStages, token : Nat]

InstallShape ==
    /\ files \in HomeFiles
    /\ box \in [exists : BOOLEAN, running : BOOLEAN, mode : {"mcp-read", "mcp-write"}]
    /\ up \in [Ups -> UpRecords]
    /\ child \in [Ups -> Children]
    /\ tally \in Tallies

\* A call that is under way holds the lock.
CallHoldsLock == \A u \in Ups : up[u].pc # "idle" => homeLock = u

\* Without containers there is no token and no init, and what runs exists.
NoBoxIsBare ==
    /\ ~box.exists => tokens = {} /\ \A u \in Ups : child[u] = NoChild
    /\ box.running => box.exists

\* What a call found when it checked the home still holds when it starts the box.
CheckStillHoldsOf(u) ==
    up[u].pc \in {"compose", "start"} =>
        \/ up[u].state = "fresh" /\ ~box.exists
        \/ up[u].state = "provisioned" /\ files.approval
CheckStillHolds == \A u \in Ups : CheckStillHoldsOf(u)

\* The bearer is the last file, so that a home never becomes fresh again by it.
BearerIsLast == \A u \in Ups : child[u].pc = "bearer" => files.overlay # "absent"

\* The init processes that mint, or will once they see a fresh home.
Minters == {u \in Ups : \/ child[u].pc = "mint"
                        \/ child[u].pc = "state" /\ StateOf(files) = "fresh"}

BearersAreCounted ==
    /\ IsFiniteSet(tokens)
    /\ Cardinality(tokens) + Cardinality(Minters) <= 1 + tally.forces

InstallInv ==
    /\ InstallShape /\ CallHoldsLock /\ NoBoxIsBare /\ CheckStillHolds /\ BearerIsLast
    /\ BearersAreCounted

LEMMA NothingInstalled ==
  /\ NoFiles \in HomeFiles /\ StateOf(NoFiles) = "fresh"
  /\ NoBox \in [exists : BOOLEAN, running : BOOLEAN, mode : {"mcp-read", "mcp-write"}]
  /\ ~NoBox.exists /\ ~NoBox.running
  /\ NoChild \in Children /\ NoChild.pc = "none"
  BY DEF NoFiles, HomeFiles, StateOf, NoBox, NoChild, Children, InitStages

LEMMA CallOver == ASSUME NEW said \in Answers
                  PROVE  NoCall(said) \in UpRecords /\ NoCall(said).pc = "idle"
  BY DEF NoCall, UpRecords, UpStages, Answers

\* What the names in the home say.
LEMMA StatesOfHome ==
  ASSUME NEW f \in HomeFiles
  PROVE  /\ StateOf(f) \in {"fresh", "partial", "provisioned"}
         /\ StateOf(f) = "fresh" <=> ~f.approval /\ f.overlay = "absent" /\ f.bearer = 0
         /\ StateOf(f) = "provisioned" => f.approval
  BY DEF StateOf, HomeFiles

\* The empty home.
LEMMA InstallStarts == InstallInit => InstallInv
  <1> SUFFICES ASSUME InstallInit PROVE InstallInv
    OBVIOUS
  <1> DEFINE none == NoCall("-")
  <1>0. none \in UpRecords /\ none.pc = "idle"
    BY DEF NoCall, UpRecords, UpStages, Answers
  <1>a. up = [u \in Ups |-> none]
    BY DEF InstallInit
  <1> HIDE DEF none
  <1>1. InstallShape
    <2>1. up \in [Ups -> UpRecords]
      BY <1>0, <1>a
    <2>2. child \in [Ups -> Children]
      BY NothingInstalled DEF InstallInit
    <2>3. QED
      BY <2>1, <2>2, NothingInstalled DEF InstallInit, InstallShape, Tallies
  <1>2. \A u \in Ups : up[u].pc = "idle" /\ child[u] = NoChild /\ child[u].pc = "none"
    BY <1>0, <1>a, NothingInstalled DEF InstallInit
  <1>3. Minters = {}
    BY <1>2 DEF Minters
  <1>4. BearersAreCounted
    BY <1>3, FS_EmptySet DEF BearersAreCounted, InstallInit
  <1>5. QED
    BY <1>1, <1>2, <1>4, NothingInstalled
    DEF InstallInit, InstallInv, CallHoldsLock, NoBoxIsBare, CheckStillHolds, CheckStillHoldsOf,
        BearerIsLast

LEMMA MintersAreFew ==
  /\ IsFiniteSet(Minters) /\ Cardinality(Minters) \in Nat
  /\ IsFiniteSet(Minters') /\ Cardinality(Minters') \in Nat
  <1>1. Minters \subseteq Ups /\ Minters' \subseteq Ups
    BY DEF Minters
  <1>2. QED
    BY <1>1, FS_Subset, FS_CardinalityType, InstallAssumption

\* No process that mints is added.
LEMMA CountKept ==
  ASSUME InstallInv, tokens' = tokens, tally'.forces = tally.forces, Minters' \subseteq Minters
  PROVE  BearersAreCounted'
  <1>1. Cardinality(Minters') <= Cardinality(Minters)
    BY MintersAreFew, FS_Subset
  <1>2. Cardinality(tokens) \in Nat /\ tally.forces \in Nat
    BY FS_CardinalityType DEF InstallInv, InstallShape, BearersAreCounted, Tallies
  <1>3. QED
    BY <1>1, <1>2, MintersAreFew DEF InstallInv, BearersAreCounted

\* A call that moves is the only one, before and after.
LEMMA CallMoves ==
  ASSUME InstallInv, NEW u \in Ups, NEW r \in UpRecords, up' = [up EXCEPT ![u] = r],
         homeLock \in {u, "nobody"}, r.pc # "idle" => homeLock' = u
  PROVE  /\ up' \in [Ups -> UpRecords] /\ up'[u] = r
         /\ \A v \in Ups \ {u} : up'[v] = up[v] /\ up[v].pc = "idle"
         /\ CallHoldsLock'
  <1>1. up \in [Ups -> UpRecords]
    BY DEF InstallInv, InstallShape
  <1>2. /\ up' \in [Ups -> UpRecords] /\ up'[u] = r
        /\ \A v \in Ups \ {u} : up'[v] = up[v]
    BY <1>1
  <1>3. \A v \in Ups \ {u} : up[v].pc = "idle"
    BY InstallAssumption DEF InstallInv, CallHoldsLock
  <1>4. QED
    BY <1>2, <1>3 DEF CallHoldsLock

\* The steps of a call that leave the box, the tokens and the init processes alone.
LEMMA CallKeeps ==
  ASSUME InstallInv, NEW u \in Ups, NEW r \in UpRecords, up' = [up EXCEPT ![u] = r],
         homeLock \in {u, "nobody"}, r.pc # "idle" => homeLock' = u,
         files' \in HomeFiles, files'.approval = files.approval,
         files'.overlay = files.overlay, files'.bearer = files.bearer,
         tally' \in Tallies,
         tally'.forces = tally.forces, UNCHANGED <<box, tokens, child>>,
         r.pc \in {"compose", "start"} =>
             \/ r.state = "fresh" /\ ~box.exists
             \/ r.state = "provisioned" /\ files.approval
  PROVE  InstallInv'
  <1>1. /\ up' \in [Ups -> UpRecords] /\ up'[u] = r
        /\ \A v \in Ups \ {u} : up'[v] = up[v] /\ up[v].pc = "idle"
        /\ CallHoldsLock'
    BY CallMoves
  <1>2. InstallShape'
    BY <1>1 DEF InstallInv, InstallShape
  <1>3. NoBoxIsBare' /\ BearerIsLast'
    BY DEF InstallInv, NoBoxIsBare, BearerIsLast
  <1>4. CheckStillHolds'
    BY <1>1 DEF CheckStillHolds, CheckStillHoldsOf
  <1>5. StateOf(files') = "fresh" <=> StateOf(files) = "fresh"
    BY StatesOfHome DEF InstallInv, InstallShape
  <1>6. Minters' = Minters
    BY <1>5 DEF Minters
  <1>7. BearersAreCounted'
    BY <1>6, CountKept
  <1>8. QED
    BY <1>1, <1>2, <1>3, <1>4, <1>7 DEF InstallInv

\* A call that ends, with no change but to itself.
LEMMA CallEnds ==
  ASSUME InstallInv, NEW u \in Ups, NEW said \in Answers, UpSays(u, said),
         homeLock \in {u, "nobody"}, UNCHANGED <<files, box, tokens, child>>,
         tally' \in Tallies,
         tally'.forces = tally.forces
  PROVE  InstallInv'
  <1> DEFINE over == NoCall(said)
  <1>1. over \in UpRecords /\ over.pc = "idle"
    BY CallOver
  <1>2. up' = [up EXCEPT ![u] = over]
    BY DEF UpSays
  <1>3. files' \in HomeFiles
    BY DEF InstallInv, InstallShape
  <1> HIDE DEF over
  <1>4. QED
    BY <1>1, <1>2, <1>3, CallKeeps

\* A hitch counts nothing but itself.
LEMMA HitchCounts ==
  ASSUME InstallShape, CountHitch
  PROVE  /\ tally' \in Tallies
         /\ tally'.forces = tally.forces
  BY DEF InstallShape, CountHitch, Tallies

LEMMA CallUpKeeps ==
  ASSUME InstallInv, NEW u \in Ups, CallUp(u)
  PROVE  InstallInv'
  <1>0. tally \in Tallies /\ tally' = [tally EXCEPT !.calls = @ + 1]
    BY DEF CallUp, InstallInv, InstallShape
  <1>1. tally' \in Tallies /\ tally'.forces = tally.forces /\ files' \in HomeFiles
    <2>1. tally' \in Tallies /\ tally'.forces = tally.forces
      BY <1>0 DEF Tallies
    <2>2. QED
      BY <2>1 DEF CallUp, InstallInv, InstallShape
  <1>2. CASE homeLock = "nobody"
    <2> DEFINE begun == [pc |-> "check", state |-> "-", said |-> "-"]
    <2>1. begun \in UpRecords /\ begun.pc = "check"
      BY DEF UpRecords, UpStages, Answers
    <2>2. homeLock' = u /\ up' = [up EXCEPT ![u] = begun]
      BY <1>2 DEF CallUp
    <2> HIDE DEF begun
    <2>3. UNCHANGED <<files, box, tokens, child>>
      BY DEF CallUp
    <2>4. QED
      BY <1>1, <1>2, <2>1, <2>2, <2>3, CallKeeps
  <1>3. CASE homeLock # "nobody"
    <2> DEFINE over == NoCall("2 locked")
    <2>1. over \in UpRecords /\ over.pc = "idle"
      BY DEF UpRecords, UpStages, NoCall, Answers
    <2>2. homeLock' = homeLock /\ up' = [up EXCEPT ![u] = over]
      BY <1>3 DEF CallUp
    <2> HIDE DEF over
    <2>3. UNCHANGED <<files, box, tokens, child>>
      BY DEF CallUp
    <2>4. /\ up' \in [Ups -> UpRecords] /\ up'[u].pc = "idle"
          /\ \A v \in Ups : v # u => up'[v] = up[v]
      BY <2>1, <2>2 DEF InstallInv, InstallShape
    <2>5. InstallShape' /\ CallHoldsLock' /\ NoBoxIsBare' /\ BearerIsLast'
      BY <1>1, <2>2, <2>3, <2>4
      DEF InstallInv, InstallShape, CallHoldsLock, NoBoxIsBare, BearerIsLast
    <2>6. CheckStillHolds'
      BY <2>3, <2>4 DEF InstallInv, CheckStillHolds, CheckStillHoldsOf
    <2>7. Minters' = Minters
      BY <2>3 DEF Minters
    <2>8. QED
      BY <1>1, <2>3, <2>5, <2>6, <2>7, CountKept DEF InstallInv
  <1>4. QED
    BY <1>2, <1>3

LEMMA CheckKeeps ==
  ASSUME InstallInv, NEW u \in Ups, CheckHome(u)
  PROVE  InstallInv'
  <1>1. /\ up[u].pc = "check" /\ homeLock = u /\ up \in [Ups -> UpRecords] /\ files \in HomeFiles
        /\ tally' = tally /\ tally' \in Tallies
        /\ UNCHANGED <<files, box, tokens, child>>
    BY DEF CheckHome, InstallInv, InstallShape, UpAt, CallHoldsLock
  <1>2. ASSUME NEW said \in Answers, UpSays(u, said) PROVE InstallInv'
    BY <1>1, <1>2, CallEnds
  <1>3. ASSUME up' = [up EXCEPT ![u].pc = "compose", ![u].state = StateOf(files)],
               StateOf(files) # "partial", ~(StateOf(files) = "fresh" /\ box.exists),
               homeLock' = homeLock
        PROVE  InstallInv'
    <2> DEFINE r == [up[u] EXCEPT !.pc = "compose", !.state = StateOf(files)]
    <2>1. StateOf(files) \in {"fresh", "provisioned"}
          /\ (StateOf(files) = "provisioned" => files.approval)
      BY <1>1, <1>3, StatesOfHome
    <2>2. r \in UpRecords /\ r.pc = "compose" /\ r.state = StateOf(files)
      BY <1>1, <2>1 DEF UpRecords, UpStages
    <2>3. up' = [up EXCEPT ![u] = r]
      BY <1>1, <1>3
    <2> HIDE DEF r
    <2>4. QED
      BY <1>1, <1>3, <2>1, <2>2, <2>3, CallKeeps
  <1>4. "2 partial" \in Answers /\ "2 recovery" \in Answers
    BY DEF Answers
  <1>5. QED
    BY <1>1, <1>2, <1>3, <1>4, StatesOfHome DEF CheckHome

LEMMA MaterializeKeeps ==
  ASSUME InstallInv, NEW u \in Ups, Materialize(u)
  PROVE  InstallInv'
  <1>1. /\ up[u].pc = "compose" /\ homeLock = u /\ up \in [Ups -> UpRecords] /\ files \in HomeFiles
        /\ tally' = tally /\ tally' \in Tallies
        /\ UNCHANGED <<box, tokens, child>> /\ CheckStillHoldsOf(u)
    BY DEF Materialize, InstallInv, InstallShape, UpAt, CallHoldsLock, CheckStillHolds
  <1>2. CASE files.compose = "edited"
    <2>1. "2 drift" \in Answers /\ UpSays(u, "2 drift") /\ UNCHANGED files
      BY <1>2 DEF Materialize, Answers
    <2>2. QED
      BY <1>1, <2>1, CallEnds
  <1>3. CASE files.compose # "edited"
    <2> DEFINE r == [up[u] EXCEPT !.pc = "start"]
    <2>1. r \in UpRecords /\ r.pc = "start" /\ r.state = up[u].state
      BY <1>1 DEF UpRecords, UpStages
    <2>2. up' = [up EXCEPT ![u] = r] /\ homeLock' = u
      BY <1>1, <1>3 DEF Materialize, UpGoes
    <2>3. /\ files' \in HomeFiles /\ files'.approval = files.approval
          /\ files'.overlay = files.overlay /\ files'.bearer = files.bearer
      BY <1>1, <1>3 DEF Materialize, HomeFiles
    <2> HIDE DEF r
    <2>4. QED
      BY <1>1, <2>1, <2>2, <2>3, CallKeeps DEF CheckStillHoldsOf
  <1>4. QED
    BY <1>2, <1>3

LEMMA KillUpKeeps ==
  ASSUME InstallInv, NEW u \in Ups, KillUp(u)
  PROVE  InstallInv'
  <1>1. homeLock = u
    BY DEF KillUp, UpAt, InstallInv, CallHoldsLock
  <1>2. /\ "-" \in Answers /\ UpSays(u, "-") /\ UNCHANGED <<files, box, tokens, child>>
        /\ tally' \in Tallies /\ tally'.forces = tally.forces
    BY HitchCounts DEF KillUp, InstallInv, Answers
  <1>3. QED
    BY <1>1, <1>2, CallEnds

\* A call that ends together with its init.
LEMMA BothEnd ==
  ASSUME InstallInv, NEW u \in Ups, up[u].pc # "idle", NEW said \in Answers, UpSays(u, said),
         child' = [child EXCEPT ![u] = NoChild], UNCHANGED <<files, box, tokens>>,
         tally' \in Tallies, tally'.forces = tally.forces
  PROVE  InstallInv'
  <1> DEFINE over == NoCall(said)
  <1>1. over \in UpRecords /\ over.pc = "idle" /\ up' = [up EXCEPT ![u] = over] /\ homeLock = u
    BY CallOver DEF UpSays, InstallInv, CallHoldsLock
  <1> HIDE DEF over
  <1>2. /\ up' \in [Ups -> UpRecords] /\ up'[u] = over
        /\ \A v \in Ups \ {u} : up'[v] = up[v] /\ up[v].pc = "idle"
        /\ CallHoldsLock'
    BY <1>1, CallMoves
  <1>3. /\ child' \in [Ups -> Children] /\ child'[u] = NoChild
        /\ \A v \in Ups \ {u} : child'[v] = child[v]
    BY NothingInstalled DEF InstallInv, InstallShape
  <1>4. InstallShape'
    BY <1>2, <1>3 DEF InstallInv, InstallShape
  <1>5. NoBoxIsBare' /\ BearerIsLast'
    BY <1>3, NothingInstalled DEF InstallInv, NoBoxIsBare, BearerIsLast
  <1>6. CheckStillHolds'
    BY <1>1, <1>2 DEF CheckStillHolds, CheckStillHoldsOf
  <1>7. Minters' \subseteq Minters
    BY <1>3, NothingInstalled DEF Minters
  <1>8. QED
    BY <1>2, <1>4, <1>5, <1>6, <1>7, CountKept DEF InstallInv

LEMMA UpEndKeeps ==
  ASSUME InstallInv, NEW u \in Ups, UpEnds(u)
  PROVE  InstallInv'
  <1>1. \E said \in Answers : UpSays(u, said)
    BY DEF UpEnds, Answers
  <1>2. /\ up[u].pc # "idle" /\ child' = [child EXCEPT ![u] = NoChild]
        /\ UNCHANGED <<files, box, tokens, tally>>
    BY DEF UpEnds, UpAt
  <1>3. tally' \in Tallies /\ tally'.forces = tally.forces
    BY <1>2 DEF InstallInv, InstallShape
  <1>4. QED
    BY <1>1, <1>2, <1>3, BothEnd

LEMMA TimeoutKeeps ==
  ASSUME InstallInv, NEW u \in Ups, InitTimesOut(u)
  PROVE  InstallInv'
  <1>1. "4" \in Answers /\ UpSays(u, "4")
    BY DEF InitTimesOut, Answers
  <1>2. /\ up[u].pc # "idle" /\ child' = [child EXCEPT ![u] = NoChild]
        /\ UNCHANGED <<files, box, tokens>>
    BY DEF InitTimesOut, UpAt
  <1>3. tally' \in Tallies /\ tally'.forces = tally.forces
    BY HitchCounts DEF InitTimesOut, InstallInv
  <1>4. QED
    BY <1>1, <1>2, <1>3, BothEnd

\* Starting the box begins an init that mints only if there was no box, so no token.
LEMMA ComposeKeeps ==
  ASSUME InstallInv, NEW u \in Ups, ComposeUp(u)
  PROVE  InstallInv'
  <1> DEFINE Boxes == [exists : BOOLEAN, running : BOOLEAN, mode : {"mcp-read", "mcp-write"}]
             started == [exists |-> TRUE, running |-> TRUE,
                         mode |-> IF up[u].state = "provisioned" THEN "mcp-write" ELSE "mcp-read"]
             stopped == [started EXCEPT !.running = FALSE]
             begun == [NoChild EXCEPT !.pc = "state"]
  <1>1. /\ up[u].pc = "start" /\ homeLock = u /\ up \in [Ups -> UpRecords] /\ box \in Boxes
        /\ CheckStillHoldsOf(u) /\ UNCHANGED <<files, tokens>>
    BY DEF ComposeUp, InstallInv, InstallShape, UpAt, CallHoldsLock, CheckStillHolds
  <1>2. /\ started \in Boxes /\ started.exists
        /\ stopped \in Boxes /\ stopped.exists
    OBVIOUS
  <1>3. begun \in Children /\ begun.pc = "state"
    BY DEF NoChild, Children, InitStages
  <1>4. ASSUME box' = started, up' = [up EXCEPT ![u].pc = "init"],
               child' = [child EXCEPT ![u] = begun], UNCHANGED <<homeLock, tally>>
        PROVE  InstallInv'
    <2> DEFINE r == [up[u] EXCEPT !.pc = "init"]
    <2>1. r \in UpRecords /\ r.pc = "init" /\ up' = [up EXCEPT ![u] = r]
      BY <1>1, <1>4 DEF UpRecords, UpStages
    <2> HIDE DEF r, started, stopped, begun
    <2>2. /\ up' \in [Ups -> UpRecords] /\ up'[u] = r
          /\ \A v \in Ups \ {u} : up'[v] = up[v] /\ up[v].pc = "idle"
          /\ CallHoldsLock'
      BY <1>1, <1>4, <2>1, CallMoves
    <2>3. /\ child' \in [Ups -> Children] /\ child'[u] = begun
          /\ \A v \in Ups \ {u} : child'[v] = child[v]
      BY <1>3, <1>4 DEF InstallInv, InstallShape
    <2>4. InstallShape'
      BY <1>1, <1>2, <1>4, <2>2, <2>3 DEF InstallInv, InstallShape
    <2>5. NoBoxIsBare' /\ BearerIsLast'
      BY <1>1, <1>2, <1>3, <1>4, <2>3 DEF InstallInv, NoBoxIsBare, BearerIsLast
    <2>6. CheckStillHolds'
      BY <2>1, <2>2 DEF CheckStillHolds, CheckStillHoldsOf
    <2>7. tally'.forces = tally.forces /\ tokens' = tokens /\ files' = files
      BY <1>1, <1>4
    <2>8. CASE files.approval
      <3>1. StateOf(files') # "fresh"
        BY <2>7, <2>8, StatesOfHome DEF InstallInv, InstallShape
      <3>2. Minters' \subseteq Minters
        BY <1>3, <2>3, <3>1 DEF Minters
      <3>3. QED
        BY <2>2, <2>4, <2>5, <2>6, <2>7, <3>2, CountKept DEF InstallInv
    <2>9. CASE ~files.approval
      <3>1. tokens = {} /\ \A v \in Ups : child[v].pc = "none"
        BY <1>1, <2>9, NothingInstalled DEF CheckStillHoldsOf, InstallInv, NoBoxIsBare
      <3>2. Minters' \subseteq {u}
        BY <2>3, <3>1 DEF Minters
      <3>3. Cardinality(Minters') <= 1
        <4>1. IsFiniteSet({u}) /\ Cardinality({u}) = 1
          BY FS_Singleton
        <4>2. QED
          BY <3>2, <4>1, FS_Subset
      <3>4. BearersAreCounted'
        BY <2>7, <3>1, <3>3, FS_EmptySet, MintersAreFew
        DEF BearersAreCounted, InstallInv, InstallShape, Tallies
      <3>5. QED
        BY <2>2, <2>4, <2>5, <2>6, <3>4 DEF InstallInv
    <2>10. QED
      BY <2>8, <2>9
  <1>5. ASSUME CountHitch, box' \in {box, started, stopped}, UpSays(u, "3"), UNCHANGED child
        PROVE  InstallInv'
    <2> DEFINE over == NoCall("3")
    <2>1. over \in UpRecords /\ over.pc = "idle" /\ up' = [up EXCEPT ![u] = over]
      BY <1>5 DEF NoCall, UpRecords, UpStages, Answers, UpSays
    <2> HIDE DEF over, started, stopped, begun
    <2>2. /\ up' \in [Ups -> UpRecords] /\ up'[u] = over
          /\ \A v \in Ups \ {u} : up'[v] = up[v] /\ up[v].pc = "idle"
          /\ CallHoldsLock'
      BY <1>1, <2>1, CallMoves
    <2>3. tally' \in Tallies /\ tally'.forces = tally.forces
      BY <1>5, HitchCounts DEF InstallInv
    <2>4. InstallShape'
      BY <1>1, <1>2, <1>5, <2>2, <2>3 DEF InstallInv, InstallShape
    <2>5. NoBoxIsBare' /\ BearerIsLast'
      BY <1>1, <1>2, <1>5 DEF InstallInv, NoBoxIsBare, BearerIsLast
    <2>6. CheckStillHolds'
      BY <2>1, <2>2 DEF CheckStillHolds, CheckStillHoldsOf
    <2>7. Minters' = Minters
      BY <1>1, <1>5 DEF Minters
    <2>8. QED
      BY <1>1, <2>2, <2>3, <2>4, <2>5, <2>6, <2>7, CountKept DEF InstallInv
  <1>6. QED
    BY <1>4, <1>5 DEF ComposeUp

-----------------------------------------------------------------------------
(* The init processes *)

\* A step of an init process: files only come, and the box stays.
LEMMA InitMoves ==
  ASSUME InstallInv, NEW u \in Ups, child[u].pc # "none",
         NEW c \in Children, child' = [child EXCEPT ![u] = c], UNCHANGED <<up, homeLock>>,
         files' \in HomeFiles, files.approval => files'.approval,
         files.overlay # "absent" => files'.overlay # "absent",
         StateOf(files') = "fresh" => StateOf(files) = "fresh",
         c.pc = "bearer" => files'.overlay # "absent",
         box' \in [exists : BOOLEAN, running : BOOLEAN, mode : {"mcp-read", "mcp-write"}],
         box.exists => box'.exists, tally' \in Tallies
  PROVE  /\ InstallShape' /\ CallHoldsLock' /\ NoBoxIsBare' /\ CheckStillHolds' /\ BearerIsLast'
         /\ Minters' \ {u} \subseteq Minters /\ child'[u] = c
  <1>1. box.exists /\ box'.exists
    BY NothingInstalled DEF InstallInv, NoBoxIsBare
  <1>2. /\ child' \in [Ups -> Children] /\ child'[u] = c
        /\ \A v \in Ups \ {u} : child'[v] = child[v]
    BY DEF InstallInv, InstallShape
  <1>3. InstallShape' /\ CallHoldsLock' /\ NoBoxIsBare'
    BY <1>1, <1>2 DEF InstallInv, InstallShape, CallHoldsLock, NoBoxIsBare
  <1>4. CheckStillHolds'
    BY <1>1 DEF InstallInv, CheckStillHolds, CheckStillHoldsOf
  <1>5. BearerIsLast'
    BY <1>2 DEF InstallInv, BearerIsLast
  <1>6. Minters' \ {u} \subseteq Minters
    BY <1>2 DEF Minters
  <1>7. QED
    BY <1>2, <1>3, <1>4, <1>5, <1>6

\* A step that mints nothing, of a process that will not mint after it.
LEMMA InitKeeps ==
  ASSUME InstallInv, NEW u \in Ups, child[u].pc # "none",
         NEW c \in Children, child' = [child EXCEPT ![u] = c], UNCHANGED <<up, homeLock, tokens>>,
         files' \in HomeFiles, files.approval => files'.approval,
         files.overlay # "absent" => files'.overlay # "absent",
         StateOf(files') = "fresh" => StateOf(files) = "fresh",
         c.pc = "bearer" => files'.overlay # "absent",
         box' \in [exists : BOOLEAN, running : BOOLEAN, mode : {"mcp-read", "mcp-write"}],
         box.exists => box'.exists, tally' \in Tallies, tally'.forces = tally.forces,
         c.pc \in {"mint", "state"} => u \in Minters
  PROVE  InstallInv'
  <1>1. /\ InstallShape' /\ CallHoldsLock' /\ NoBoxIsBare' /\ CheckStillHolds' /\ BearerIsLast'
        /\ Minters' \ {u} \subseteq Minters /\ child'[u] = c
    BY InitMoves
  <1>2. Minters' \subseteq Minters
    BY <1>1 DEF Minters
  <1>3. QED
    BY <1>1, <1>2, CountKept DEF InstallInv

\* What an init leaves when it is over, and when it goes on.
LEMMA InitLeaves ==
  ASSUME InstallInv, NEW u \in Ups
  PROVE  /\ \A how \in {"ok", "failed"} : InitExits(u, how) =>
              \E c \in Children : /\ child' = [child EXCEPT ![u] = c]
                                  /\ c.pc \notin {"mint", "state", "bearer"}
         /\ \A pc \in InitStages : InitGoes(u, pc) =>
              \E c \in Children : child' = [child EXCEPT ![u] = c] /\ c.pc = pc
  <1>1. ASSUME NEW how \in {"ok", "failed"}, InitExits(u, how)
        PROVE  \E c \in Children : /\ child' = [child EXCEPT ![u] = c]
                                   /\ c.pc \notin {"mint", "state", "bearer"}
    <2> DEFINE c == IF UpAt(u, "init") THEN [NoChild EXCEPT !.pc = how] ELSE NoChild
    <2>1. c \in Children /\ c.pc \notin {"mint", "state", "bearer"}
      BY DEF NoChild, Children, InitStages
    <2>2. child' = [child EXCEPT ![u] = c]
      BY <1>1 DEF InitExits
    <2> HIDE DEF c
    <2>3. QED
      BY <2>1, <2>2
  <1>2. ASSUME NEW pc \in InitStages, InitGoes(u, pc)
        PROVE  \E c \in Children : child' = [child EXCEPT ![u] = c] /\ c.pc = pc
    <2> DEFINE c == [child[u] EXCEPT !.pc = pc]
    <2>1. child[u] \in Children
      BY DEF InstallInv, InstallShape
    <2>2. c \in Children /\ c.pc = pc
      BY <2>1 DEF Children
    <2>3. child' = [child EXCEPT ![u] = c]
      BY <1>2, <2>1 DEF InitGoes, InstallInv, InstallShape
    <2> HIDE DEF c
    <2>4. QED
      BY <2>2, <2>3
  <1>3. QED
    BY <1>1, <1>2

\* The steps of an init that mint nothing.
LEMMA InitStateKeeps ==
  ASSUME InstallInv, NEW u \in Ups, InitState(u)
  PROVE  InstallInv'
  <1>1. /\ child[u].pc = "state" /\ UNCHANGED <<files, box, tokens, up, homeLock, tally>>
        /\ files' \in HomeFiles /\ tally' \in Tallies
        /\ box' \in [exists : BOOLEAN, running : BOOLEAN, mode : {"mcp-read", "mcp-write"}]
    BY DEF InitState, InitAt, InstallInv, InstallShape
  <1>2. \/ InitExits(u, "failed") \/ InitGoes(u, "env")
        \/ StateOf(files) = "fresh" /\ InitGoes(u, "mint")
    BY <1>1, StatesOfHome DEF InitState, InstallInv, InstallShape
  <1>3. \E c \in Children : /\ child' = [child EXCEPT ![u] = c]
                            /\ c.pc \notin {"state", "bearer"}
                            /\ c.pc = "mint" => StateOf(files) = "fresh"
    <2>1. "env" \in InitStages /\ "mint" \in InitStages /\ "failed" \in {"ok", "failed"}
      BY DEF InitStages
    <2>2. CASE InitExits(u, "failed")
      BY <2>1, <2>2, InitLeaves
    <2>3. CASE InitGoes(u, "env")
      BY <2>1, <2>3, InitLeaves
    <2>4. CASE StateOf(files) = "fresh" /\ InitGoes(u, "mint")
      BY <2>1, <2>4, InitLeaves
    <2>5. QED
      BY <1>2, <2>2, <2>3, <2>4
  <1>4. StateOf(files) = "fresh" => u \in Minters
    BY <1>1 DEF Minters
  <1>5. QED
    BY <1>1, <1>3, <1>4, InitKeeps

LEMMA WriteKeeps ==
  ASSUME InstallInv, NEW u \in Ups, WriteOperatorFile(u)
  PROVE  InstallInv'
  <1>1. /\ files \in HomeFiles /\ child[u] \in Children /\ UNCHANGED <<box, tokens, up, homeLock, tally>>
        /\ tally' \in Tallies
        /\ box' \in [exists : BOOLEAN, running : BOOLEAN, mode : {"mcp-read", "mcp-write"}]
    BY DEF WriteOperatorFile, InstallInv, InstallShape
  <1>2. ASSUME NEW pc \in InitStages, InitGoes(u, pc), pc \notin {"mint", "state"},
               child[u].pc # "none", files' \in HomeFiles, files.approval => files'.approval,
               files.overlay # "absent" => files'.overlay # "absent",
               StateOf(files') # "fresh", pc = "bearer" => files'.overlay # "absent"
        PROVE  InstallInv'
    <2>1. PICK c \in Children : child' = [child EXCEPT ![u] = c] /\ c.pc = pc
      BY <1>2, InitLeaves
    <2>2. QED
      BY <1>1, <1>2, <2>1, InitKeeps
  <1>3. CASE InitAt(u, "approval")
    <2>1. files' = [files EXCEPT !.approval = TRUE] /\ InitGoes(u, "overlay") /\ child[u].pc # "none"
      BY <1>3 DEF WriteOperatorFile, InitAt
    <2>2. /\ files' \in HomeFiles /\ files'.approval /\ files'.overlay = files.overlay
      BY <1>1, <2>1 DEF HomeFiles
    <2>3. StateOf(files') # "fresh"
      BY <2>2, StatesOfHome
    <2>4. "overlay" \in InitStages
      BY DEF InitStages
    <2>5. QED
      BY <1>2, <2>1, <2>2, <2>3, <2>4
  <1>4. ASSUME NEW what \in {"cut", "whole"}, files' = [files EXCEPT !.overlay = what],
               NEW pc \in {"fill", "bearer"}, InitGoes(u, pc), child[u].pc # "none"
        PROVE  InstallInv'
    <2>1. /\ files' \in HomeFiles /\ files'.approval = files.approval
          /\ files'.overlay # "absent"
      BY <1>1, <1>4 DEF HomeFiles
    <2>2. StateOf(files') # "fresh"
      BY <2>1, StatesOfHome
    <2>3. pc \in InitStages
      BY DEF InitStages
    <2>4. QED
      BY <1>2, <1>4, <2>1, <2>2, <2>3
  <1>5. CASE InitAt(u, "bearer")
    <2>1. /\ files' = [files EXCEPT !.bearer = child[u].token] /\ InitGoes(u, "env")
          /\ child[u].pc # "none" /\ files.overlay # "absent"
      BY <1>5 DEF WriteOperatorFile, InitAt, InstallInv, BearerIsLast
    <2>2. /\ files' \in HomeFiles /\ files'.approval = files.approval
          /\ files'.overlay = files.overlay
      BY <1>1, <2>1 DEF HomeFiles, Children
    <2>3. StateOf(files') # "fresh"
      BY <2>1, <2>2, StatesOfHome
    <2>4. "env" \in InitStages
      BY DEF InitStages
    <2>5. QED
      BY <1>2, <2>1, <2>2, <2>3, <2>4
  <1>6. QED
    BY <1>3, <1>4, <1>5 DEF WriteOperatorFile, InitAt

\* An init that ends, with no change to the home.
LEMMA ExitKeeps ==
  ASSUME InstallInv, NEW u \in Ups, child[u].pc # "none", NEW how \in {"ok", "failed"},
         InitExits(u, how), UNCHANGED <<files, tokens, up, homeLock>>,
         box' \in [exists : BOOLEAN, running : BOOLEAN, mode : {"mcp-read", "mcp-write"}],
         box.exists => box'.exists, tally' \in Tallies, tally'.forces = tally.forces
  PROVE  InstallInv'
  <1>1. PICK c \in Children : /\ child' = [child EXCEPT ![u] = c]
                             /\ c.pc \notin {"mint", "state", "bearer"}
    BY InitLeaves
  <1>2. files' \in HomeFiles
    BY DEF InstallInv, InstallShape
  <1>3. QED
    BY <1>1, <1>2, InitKeeps

LEMMA VerifyKeeps ==
  ASSUME InstallInv, NEW u \in Ups, VerifyActivation(u) \/ KillInit(u)
  PROVE  InstallInv'
  <1>1. /\ child[u].pc # "none" /\ (InitExits(u, "ok") \/ InitExits(u, "failed"))
        /\ UNCHANGED <<files, box, tokens, up, homeLock>>
    BY DEF VerifyActivation, KillInit, InitAt
  <1>2. tally' \in Tallies /\ tally'.forces = tally.forces
    BY HitchCounts DEF VerifyActivation, KillInit, InstallInv, InstallShape
  <1>3. box' \in [exists : BOOLEAN, running : BOOLEAN, mode : {"mcp-read", "mcp-write"}]
    BY <1>1 DEF InstallInv, InstallShape
  <1>4. "ok" \in {"ok", "failed"} /\ "failed" \in {"ok", "failed"}
    OBVIOUS
  <1>5. QED
    BY <1>1, <1>2, <1>3, <1>4, ExitKeeps

LEMMA ActivateKeeps ==
  ASSUME InstallInv, NEW u \in Ups, Activation(u)
  PROVE  InstallInv'
  <1> DEFINE Boxes == [exists : BOOLEAN, running : BOOLEAN, mode : {"mcp-read", "mcp-write"}]
  <1>1. /\ child[u].pc = "env" /\ UNCHANGED <<files, tokens, up, homeLock>> /\ box \in Boxes
        /\ files' \in HomeFiles
    BY DEF Activation, InitAt, InstallInv, InstallShape
  <1>2. box.exists
    BY <1>1, NothingInstalled DEF InstallInv, NoBoxIsBare
  <1>3. CASE /\ box' = [box EXCEPT !.exists = TRUE, !.running = TRUE, !.mode = "mcp-write"]
             /\ InitGoes(u, "verify") /\ UNCHANGED tally
    <2>1. PICK c \in Children : child' = [child EXCEPT ![u] = c] /\ c.pc = "verify"
      BY <1>3, InitLeaves DEF InitStages
    <2>2. box' \in Boxes /\ box'.exists
      BY <1>1, <1>3
    <2>3. tally' \in Tallies /\ tally'.forces = tally.forces
      BY <1>3 DEF InstallInv, InstallShape
    <2>4. QED
      BY <1>1, <2>1, <2>2, <2>3, InitKeeps
  <1>4. CASE CountHitch /\ InitExits(u, "failed") /\ box' = [box EXCEPT !.running = FALSE]
    <2>1. box' \in Boxes /\ box'.exists
      BY <1>1, <1>2, <1>4
    <2>2. tally' \in Tallies /\ tally'.forces = tally.forces
      BY <1>4, HitchCounts DEF InstallInv
    <2>3. "failed" \in {"ok", "failed"}
      OBVIOUS
    <2>4. QED
      BY <1>1, <1>4, <2>1, <2>2, <2>3, ExitKeeps
  <1>5. QED
    BY <1>3, <1>4 DEF Activation

\* A bearer comes, and one process less will mint.
LEMMA MintKeeps ==
  ASSUME InstallInv, NEW u \in Ups, MintOwnerBearer(u)
  PROVE  InstallInv'
  <1>1. /\ child[u].pc = "mint" /\ UNCHANGED <<files, box, up, homeLock>>
        /\ files' \in HomeFiles /\ tally \in Tallies
        /\ box' \in [exists : BOOLEAN, running : BOOLEAN, mode : {"mcp-read", "mcp-write"}]
    BY DEF MintOwnerBearer, InitAt, InstallInv, InstallShape
  <1>2. ASSUME tokens' = tokens \cup {tally.minted + 1}, tally' \in Tallies,
               tally'.forces = tally.forces,
               NEW c \in Children, child' = [child EXCEPT ![u] = c],
               c.pc \notin {"mint", "state", "bearer"}
        PROVE  InstallInv'
    <2>1. /\ InstallShape' /\ CallHoldsLock' /\ NoBoxIsBare' /\ CheckStillHolds' /\ BearerIsLast'
          /\ Minters' \ {u} \subseteq Minters /\ child'[u] = c
      BY <1>1, <1>2, InitMoves
    <2>2. u \in Minters /\ u \notin Minters'
      BY <1>1, <1>2, <2>1 DEF Minters
    <2>3. Cardinality(Minters') <= Cardinality(Minters) - 1
      <3>1. Minters' \subseteq Minters \ {u}
        BY <2>1, <2>2
      <3>2. IsFiniteSet(Minters \ {u}) /\ Cardinality(Minters \ {u}) = Cardinality(Minters) - 1
        BY <2>2, MintersAreFew, FS_RemoveElement
      <3>3. QED
        BY <3>1, <3>2, FS_Subset
    <2>4. /\ IsFiniteSet(tokens') /\ Cardinality(tokens') <= Cardinality(tokens) + 1
          /\ Cardinality(tokens) \in Nat /\ Cardinality(tokens') \in Nat
      <3>1. IsFiniteSet(tokens)
        BY DEF InstallInv, BearersAreCounted
      <3>2. /\ IsFiniteSet(tokens \cup {tally.minted + 1})
            /\ \/ Cardinality(tokens \cup {tally.minted + 1}) = Cardinality(tokens)
               \/ Cardinality(tokens \cup {tally.minted + 1}) = Cardinality(tokens) + 1
        BY <3>1, FS_AddElement
      <3>3. Cardinality(tokens) \in Nat /\ Cardinality(tokens \cup {tally.minted + 1}) \in Nat
        BY <3>1, <3>2, FS_CardinalityType
      <3>4. QED
        BY <1>2, <3>2, <3>3
    <2>5. BearersAreCounted'
      BY <1>1, <1>2, <2>3, <2>4, MintersAreFew DEF InstallInv, BearersAreCounted, Tallies
    <2>6. QED
      BY <2>1, <2>5 DEF InstallInv
  <1>3. CASE /\ tokens' = tokens \cup {tally.minted + 1}
             /\ child' = [child EXCEPT ![u] = [pc |-> "approval", token |-> tally.minted + 1]]
             /\ tally' = [tally EXCEPT !.minted = @ + 1]
    <2> DEFINE c == [pc |-> "approval", token |-> tally.minted + 1]
    <2>1. c \in Children /\ c.pc = "approval"
      BY <1>1 DEF Children, InitStages, Tallies
    <2> HIDE DEF c
    <2>2. child' = [child EXCEPT ![u] = c]
      BY <1>3 DEF c
    <2>3. tally' \in Tallies /\ tally'.forces = tally.forces
      BY <1>1, <1>3 DEF Tallies
    <2>4. QED
      BY <1>2, <1>3, <2>1, <2>2, <2>3
  <1>4. CASE /\ tokens' = tokens \cup {tally.minted + 1}
             /\ tally' = [tally EXCEPT !.minted = @ + 1, !.hitches = @ + 1]
             /\ InitExits(u, "failed")
    <2>1. PICK c \in Children : /\ child' = [child EXCEPT ![u] = c]
                               /\ c.pc \notin {"mint", "state", "bearer"}
      BY <1>4, InitLeaves
    <2>2. tally' \in Tallies /\ tally'.forces = tally.forces
      <3> DEFINE counted == [tally EXCEPT !.minted = @ + 1]
      <3>1. counted \in Tallies /\ counted.forces = tally.forces
            /\ counted.hitches = tally.hitches
        BY <1>1 DEF Tallies
      <3>2. tally' = [counted EXCEPT !.hitches = @ + 1]
        BY <1>1, <1>4 DEF Tallies
      <3> HIDE DEF counted
      <3>3. QED
        BY <3>1, <3>2 DEF Tallies
    <2>3. QED
      BY <1>2, <1>4, <2>1, <2>2
  <1>5. CASE InitExits(u, "failed") /\ UNCHANGED <<tokens, tally>>
    <2>1. "failed" \in {"ok", "failed"}
      OBVIOUS
    <2>2. QED
      BY <1>1, <1>5, <2>1, ExitKeeps
  <1>6. QED
    BY <1>3, <1>4, <1>5 DEF MintOwnerBearer

-----------------------------------------------------------------------------
(* The operator and the machine *)

\* With nobody at work no call is under way and no process will mint.
LEMMA QuietIsIdle ==
  ASSUME InstallInv, Quiet
  PROVE  /\ \A u \in Ups : up[u].pc = "idle" /\ child[u] = NoChild /\ child[u].pc = "none"
         /\ Minters = {}
  <1>1. \A u \in Ups : up[u].pc = "idle" /\ child[u] = NoChild /\ child[u].pc = "none"
    BY InstallAssumption, NothingInstalled DEF Quiet, InstallInv, CallHoldsLock
  <1>2. QED
    BY <1>1 DEF Minters

LEMMA ForceKeeps ==
  ASSUME InstallInv, NEW u \in Ups, ForceInit(u)
  PROVE  InstallInv'
  <1> DEFINE r == [pc |-> "init", state |-> "forced", said |-> "-"]
             c == [NoChild EXCEPT !.pc = "mint"]
  <1>1. /\ \A v \in Ups : up[v].pc = "idle" /\ child[v] = NoChild /\ child[v].pc = "none"
        /\ Minters = {}
    BY QuietIsIdle DEF ForceInit
  <1>2. r \in UpRecords /\ r.pc = "init"
    BY DEF UpRecords, UpStages, Answers
  <1>3. c \in Children /\ c.pc = "mint"
    BY DEF NoChild, Children, InitStages
  <1>4. /\ homeLock = "nobody" /\ homeLock' = u /\ up' = [up EXCEPT ![u] = r]
        /\ child' = [child EXCEPT ![u] = c] /\ UNCHANGED <<files, box, tokens>>
        /\ box.running
    BY DEF ForceInit, Quiet
  <1> HIDE DEF r, c
  <1>5. /\ up' \in [Ups -> UpRecords] /\ up'[u] = r
        /\ \A v \in Ups \ {u} : up'[v] = up[v] /\ up[v].pc = "idle"
        /\ CallHoldsLock'
    BY <1>2, <1>4, CallMoves
  <1>6. /\ child' \in [Ups -> Children] /\ child'[u] = c
        /\ \A v \in Ups \ {u} : child'[v] = child[v]
    BY <1>3, <1>4 DEF InstallInv, InstallShape
  <1>7. tally \in Tallies /\ tally' \in Tallies /\ tally'.forces = tally.forces + 1
    BY DEF ForceInit, InstallInv, InstallShape, Tallies
  <1>8. InstallShape'
    BY <1>4, <1>5, <1>6, <1>7 DEF InstallInv, InstallShape
  <1>9. NoBoxIsBare' /\ BearerIsLast'
    BY <1>1, <1>3, <1>4, <1>6 DEF InstallInv, NoBoxIsBare, BearerIsLast
  <1>10. CheckStillHolds'
    BY <1>2, <1>5 DEF CheckStillHolds, CheckStillHoldsOf
  <1>11. BearersAreCounted'
    <2>1. Minters' \subseteq {u}
      BY <1>1, <1>6 DEF Minters
    <2>2. Cardinality(Minters') <= 1
      <3>1. IsFiniteSet({u}) /\ Cardinality({u}) = 1
        BY FS_Singleton
      <3>2. QED
        BY <2>1, <3>1, FS_Subset
    <2>3. IsFiniteSet(tokens) /\ Cardinality(tokens) \in Nat
          /\ Cardinality(tokens) + Cardinality(Minters) <= 1 + tally.forces
      BY FS_CardinalityType DEF InstallInv, BearersAreCounted
    <2>4. QED
      BY <1>4, <1>7, <2>2, <2>3, MintersAreFew DEF BearersAreCounted, Tallies
  <1>12. QED
    BY <1>5, <1>8, <1>9, <1>10, <1>11 DEF InstallInv

LEMMA ResetKeeps ==
  ASSUME InstallInv, ResetBox
  PROVE  InstallInv'
  <1>1. /\ \A u \in Ups : up'[u].pc = "idle" /\ child'[u] = NoChild /\ child'[u].pc = "none"
        /\ Minters' = {}
    BY QuietIsIdle DEF ResetBox, Minters
  <1>2. tally' \in Tallies /\ tally'.forces = tally.forces /\ tally.forces \in Nat
    BY HitchCounts DEF ResetBox, InstallInv, InstallShape, Tallies
  <1>3. InstallShape'
    BY <1>2, NothingInstalled DEF ResetBox, InstallInv, InstallShape
  <1>4. BearersAreCounted'
    BY <1>1, <1>2, FS_EmptySet DEF ResetBox, BearersAreCounted
  <1>5. QED
    BY <1>1, <1>3, <1>4, NothingInstalled
    DEF ResetBox, InstallInv, CallHoldsLock, NoBoxIsBare, CheckStillHolds, CheckStillHoldsOf,
        BearerIsLast

LEMMA MisfortuneKeeps ==
  ASSUME InstallInv, Misfortune
  PROVE  InstallInv'
  <1>1. /\ tally' \in Tallies /\ tally'.forces = tally.forces
        /\ UNCHANGED <<tokens, up, child, homeLock>> /\ files \in HomeFiles
        /\ box \in [exists : BOOLEAN, running : BOOLEAN, mode : {"mcp-read", "mcp-write"}]
    BY HitchCounts DEF Misfortune, InstallInv, InstallShape
  <1>2. CASE Quiet /\ files' = [NoFiles EXCEPT !.compose = files.compose] /\ UNCHANGED box
    <2>1. /\ \A u \in Ups : up[u].pc = "idle" /\ child[u].pc = "none"
          /\ Minters = {}
      BY <1>2, QuietIsIdle
    <2>2. Minters' = {}
      BY <1>1, <2>1 DEF Minters
    <2>3. files' \in HomeFiles
      BY <1>1, <1>2 DEF HomeFiles, NoFiles
    <2>4. /\ InstallShape' /\ CallHoldsLock' /\ NoBoxIsBare' /\ CheckStillHolds'
          /\ BearerIsLast'
      BY <1>1, <1>2, <2>1, <2>3
      DEF InstallInv, InstallShape, CallHoldsLock, NoBoxIsBare, CheckStillHolds, CheckStillHoldsOf,
          BearerIsLast
    <2>5. QED
      BY <1>1, <2>1, <2>2, <2>4, CountKept DEF InstallInv
  <1>3. CASE files' = [files EXCEPT !.compose = "edited"] /\ UNCHANGED box
    <2>1. /\ files' \in HomeFiles /\ files'.approval = files.approval
          /\ files'.overlay = files.overlay /\ files'.bearer = files.bearer
      BY <1>1, <1>3 DEF HomeFiles
    <2>2. Minters' = Minters
      BY <1>1, <2>1, StatesOfHome DEF Minters
    <2>3. /\ InstallShape' /\ CallHoldsLock' /\ NoBoxIsBare' /\ CheckStillHolds'
          /\ BearerIsLast'
      BY <1>1, <1>3, <2>1
      DEF InstallInv, InstallShape, CallHoldsLock, NoBoxIsBare, CheckStillHolds, CheckStillHoldsOf,
          BearerIsLast
    <2>4. QED
      BY <1>1, <2>2, <2>3, CountKept DEF InstallInv
  <1>4. CASE box' = [box EXCEPT !.running = FALSE] /\ UNCHANGED files
    <2>1. /\ box' \in [exists : BOOLEAN, running : BOOLEAN, mode : {"mcp-read", "mcp-write"}]
          /\ box'.exists = box.exists /\ ~box'.running
      BY <1>1, <1>4
    <2>2. Minters' = Minters
      BY <1>1, <1>4 DEF Minters
    <2>3. /\ InstallShape' /\ CallHoldsLock' /\ NoBoxIsBare' /\ CheckStillHolds'
          /\ BearerIsLast'
      BY <1>1, <1>4, <2>1
      DEF InstallInv, InstallShape, CallHoldsLock, NoBoxIsBare, CheckStillHolds, CheckStillHoldsOf,
          BearerIsLast
    <2>4. QED
      BY <1>1, <2>2, <2>3, CountKept DEF InstallInv
  <1>5. QED
    BY <1>2, <1>3, <1>4 DEF Misfortune

LEMMA InstallSteps == InstallInv /\ [InstallNext]_installVars => InstallInv'
  <1> SUFFICES ASSUME InstallInv, [InstallNext]_installVars PROVE InstallInv'
    OBVIOUS
  <1>1. CASE UNCHANGED installVars
    BY <1>1
    DEF installVars, InstallInv, InstallShape, CallHoldsLock, NoBoxIsBare, CheckStillHolds,
        CheckStillHoldsOf, BearerIsLast, BearersAreCounted, Minters
  <1>2. ASSUME NEW u \in Ups, UpStep(u) PROVE InstallInv'
    BY <1>2, CheckKeeps, MaterializeKeeps, ComposeKeeps, UpEndKeeps DEF UpStep
  <1>3. ASSUME NEW u \in Ups, InitStep(u) PROVE InstallInv'
    BY <1>3, InitStateKeeps, MintKeeps, WriteKeeps, ActivateKeeps, VerifyKeeps DEF InitStep
  <1>4. QED
    BY <1>1, <1>2, <1>3, CallUpKeeps, TimeoutKeeps, KillUpKeeps, VerifyKeeps, ForceKeeps,
       ResetKeeps, MisfortuneKeeps
    DEF InstallNext

\* A box has one owner bearer and one more for each forced init (cli/up.py, cli/init.py),
\* for any number of calls, and wherever docker fails, a call or an init dies or is
\* left behind, files are lost or the box is reset.
THEOREM BearersStayFew == InstallSpec => []OneOwnerBearer
  <1>1. InstallInv => OneOwnerBearer
    BY MintersAreFew, FS_CardinalityType
    DEF InstallInv, InstallShape, BearersAreCounted, OneOwnerBearer, Tallies
  <1>2. QED
    BY <1>1, InstallStarts, InstallSteps, PTL DEF InstallSpec

=============================================================================
