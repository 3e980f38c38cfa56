-------------------------- MODULE GovernedBoxProofs --------------------------
(***************************************************************************)
(* Proofs about GovernedBox, for every set of approvals, contents, calls   *)
(* and forgets, every fault of the store and every bound: type correctness *)
(* first, then what the log of decisions says about the rows of the queue  *)
(* and of the store, and from it that the box implements GovernedMemory.   *)
(***************************************************************************)
EXTENDS GovernedBox, FiniteSetTheorems, SequenceTheorems, TLAPS

-----------------------------------------------------------------------------
(* Type correctness *)

\* A call that has begun works on an approval; past the claim it knows the
\* bytes, and past the write the hash of the durable row.
Shaped(s) ==
    /\ s.pc # "idle" => s.id \in Ids
    /\ s.pc \in {"claimed", "writing", "lookup"} => s.sha \in Contents
    /\ s.pc \in {"recording", "outcome", "cleanup"} => s.hash \in Contents

CallShape == \A w \in Calls : Shaped(call[w])

\* A forget that has begun has a target, and one that found a row knows it.
Sighted(g) ==
    /\ g.pc # "idle" => g.target \in Contents
    /\ g.pc = "found" => g.found \in Contents

ForgetShape == \A f \in Forgetters : Sighted(forget[f])

TypeInv == TypeOK /\ CallShape /\ ForgetShape

\* An empty box has its type.
LEMMA TypeInit == Init => TypeInv
  <1>1. ASSUME Init PROVE QueueTypeOK
    BY <1>1 DEF Init, QueueInit, QueueTypeOK, BlankRow, Rows, Statuses, FinalizerStates
  <1>2. ASSUME Init PROVE CallTypeOK /\ CallShape
    BY <1>2 DEF Init, CallInit, CallTypeOK, CallShape, IdleCall, CallStates, Stages,
       Shaped
  <1>3. ASSUME Init PROVE ForgetTypeOK /\ ForgetShape
    BY <1>3 DEF Init, ForgetInit, ForgetTypeOK, ForgetShape, Sighted, IdleForget,
       ForgetStates, ForgetStages
  <1> QED BY <1>1, <1>2, <1>3 DEF TypeInv, TypeOK

\* Every transaction leaves rows.
LEMMA BlankRowType == \A s \in Statuses : BlankRow(s) \in Rows
  BY DEF Rows, BlankRow, FinalizerStates

\* The updates of the finalizer, of a reject, of a hand edit and of a forget make rows.
LEMMA FinalizerRowTypes ==
  ASSUME NEW r \in Rows
  PROVE  /\ ForgetRow(r) \in Rows
         /\ MarkFailed(r) \in Rows
         /\ [r EXCEPT !.fin = "failed"] \in Rows
         /\ [r EXCEPT !.status = "rejected"] \in Rows
         /\ [r EXCEPT !.stale = TRUE] \in Rows
         /\ \A c \in Contents : [r EXCEPT !.bytes = c] \in Rows
         /\ \A w \in Calls : ClaimRow(r, w) \in Rows
         /\ \A w \in Calls, h \in Contents : RecordRow(r, w, h) \in Rows
  <1>1. ForgetRow(r) \in Rows
    BY DEF Rows, ForgetRow, FinalizerStates
  <1>2. MarkFailed(r) \in Rows /\ [r EXCEPT !.fin = "failed"] \in Rows
    BY DEF Rows, MarkFailed, FinalizerStates
  <1>3. [r EXCEPT !.status = "rejected"] \in Rows /\ [r EXCEPT !.stale = TRUE] \in Rows
    BY DEF Rows, Statuses
  <1>4. \A c \in Contents : [r EXCEPT !.bytes = c] \in Rows
    BY DEF Rows
  <1>5. \A w \in Calls : ClaimRow(r, w) \in Rows
    BY DEF Rows, ClaimRow, FinalizerStates
  <1>6. \A w \in Calls, h \in Contents : RecordRow(r, w, h) \in Rows
    BY DEF Rows, RecordRow, FinalizerStates
  <1> QED BY <1>1, <1>2, <1>3, <1>4, <1>5, <1>6

\* So does an approval, with or without provenance and receipt.
LEMMA ApproveRowType ==
  ASSUME NEW r \in Rows, NEW v \in {None, Via}, NEW n \in Nat,
         NEW c \in Contents \cup {None}
  PROVE  ApproveInConn(r, v, n, c) \in Rows
  <1>1. CASE r.status = "approved"
    <2>1. PICK v1 \in {None, Via} : v1 = IF r.via = None THEN v ELSE r.via
      BY DEF Rows
    <2>2. PICK n1 \in Nat : n1 = IF r.receipt = 0 THEN n ELSE r.receipt
      BY DEF Rows
    <2>3. PICK c1 \in Contents \cup {None} :
             c1 = IF r.receipt = 0 /\ n # 0 THEN c ELSE r.sha
      BY DEF Rows
    <2>4. ApproveInConn(r, v, n, c) = [r EXCEPT !.via = v1, !.receipt = n1, !.sha = c1]
      BY <1>1, <2>1, <2>2, <2>3 DEF ApproveInConn
    <2> QED BY <2>4 DEF Rows
  <1>2. CASE r.status # "approved"
    BY <1>2 DEF Rows, ApproveInConn, Statuses
  <1> QED BY <1>1, <1>2

\* Appending a record leaves a log of records.
LEMMA AuditType ==
  ASSUME audit \in Seq(AuditRecords), NEW rec \in AuditRecords, AuditAppend(rec)
  PROVE  audit' \in Seq(AuditRecords)
  BY AppendProperties DEF AuditAppend

-----------------------------------------------------------------------------
(* How a call moves *)

CallInv == CallTypeOK /\ CallShape

\* A call that moves to a well-shaped state leaves all calls well-shaped.
LEMMA CallMoves ==
  ASSUME CallInv, NEW w \in Calls, NEW s \in CallStates, Shaped(s),
         call' = [call EXCEPT ![w] = s], crashes' \in Nat
  PROVE  CallInv'
  <1>1. call' \in [Calls -> CallStates]
    BY DEF CallInv, CallTypeOK
  <1>2. ASSUME NEW v \in Calls PROVE Shaped(call'[v])
    BY DEF CallInv, CallTypeOK, CallShape
  <1> QED BY <1>1, <1>2 DEF CallInv, CallTypeOK, CallShape

\* A call that returns or dies is idle, and idle is well-shaped.
LEMMA CallReturns ==
  ASSUME CallInv, NEW w \in Calls, Return(w), crashes' \in Nat
  PROVE  CallInv'
  <1>1. IdleCall \in CallStates /\ Shaped(IdleCall)
    BY DEF IdleCall, CallStates, Stages, Shaped
  <1> QED BY <1>1, CallMoves DEF Return

\* A call that only goes on to another stage keeps its data.
LEMMA CallGoes ==
  ASSUME CallInv, NEW w \in Calls, NEW stage \in Stages, Goto(w, stage),
         Shaped([call[w] EXCEPT !.pc = stage]), crashes' \in Nat
  PROVE  CallInv'
  <1>1. [call[w] EXCEPT !.pc = stage] \in CallStates
    BY DEF CallInv, CallTypeOK, CallStates
  <1>2. call' = [call EXCEPT ![w] = [call[w] EXCEPT !.pc = stage]]
    BY DEF Goto
  <1> QED BY <1>1, <1>2, CallMoves

\* Steps of others leave the calls as they are.
LEMMA CallStays == ASSUME CallInv, UNCHANGED callVars PROVE CallInv'
  BY DEF CallInv, CallTypeOK, CallShape, callVars

\* Every step of approve, reject and of the sweep keeps the types.
LEMMA DecideType ==
  ASSUME QueueAssumption, QueueTypeOK, CallInv, NEW w \in Calls, Decide(w)
  PROVE  QueueTypeOK' /\ CallInv'
  <1> crashes' \in Nat
    BY DEF CallInv, CallTypeOK, Decide, ReadCandidate, AppendReject, Sweep, AppendApprove,
       AppendFails, AuthorizeRedrive, StampFresh, RefuseStamp, ApplyReject
  <1>1. CASE \E i \in Ids : ReadCandidate(w, i)
    <2> PICK i \in Ids : ReadCandidate(w, i)
      BY <1>1
    <2> DEFINE s == [IdleCall EXCEPT !.pc = "read", !.id = i, !.sha = queue[i].bytes]
    <2>1. s \in CallStates /\ Shaped(s)
      BY DEF QueueTypeOK, Rows, IdleCall, CallStates, Stages, Shaped
    <2>2. call' = [call EXCEPT ![w] = s]
      BY DEF ReadCandidate
    <2>3. CallInv'
      BY <2>1, <2>2, CallMoves
    <2> QED BY <2>3 DEF ReadCandidate, queueVars, QueueTypeOK
  <1>2. CASE AppendApprove(w)
    <2> DEFINE s == [call[w] EXCEPT !.pc = "appended", !.seq = Len(audit) + 1]
    <2>1. Len(audit) + 1 \in Nat
      BY LenProperties DEF QueueTypeOK
    <2>2. s \in CallStates /\ Shaped(s)
      BY <1>2, <2>1 DEF CallInv, CallTypeOK, CallShape, AppendApprove, At, CallStates, Stages,
         Shaped
    <2>3. call' = [call EXCEPT ![w] = s]
      BY <1>2 DEF AppendApprove
    <2>4. CallInv'
      BY <2>2, <2>3, CallMoves
    <2>5. DecisionRecord(call[w].id, "approve", call[w].sha) \in AuditRecords
      BY <1>2 DEF CallInv, CallTypeOK, CallShape, CallStates, Shaped, AppendApprove, At,
         DecisionRecord, AuditRecords, AuditOps, Decisions
    <2> QED BY <1>2, <2>4, <2>5, AuditType DEF AppendApprove, QueueTypeOK
  <1>3. CASE StampFresh(w)
    <2>1. CallInv'
      BY <1>3, CallGoes DEF StampFresh, At, Stages, CallInv, CallTypeOK, CallShape, CallStates, Shaped
    <2>2. queue' \in [Ids -> Rows]
      BY <1>3, ApproveRowType DEF StampFresh, QueueTypeOK, CallInv, CallTypeOK, CallStates
    <2> QED BY <1>3, <2>1, <2>2 DEF StampFresh, QueueTypeOK
  <1>4. CASE \E i \in Ids : AppendReject(w, i)
    <2> PICK i \in Ids : AppendReject(w, i)
      BY <1>4
    <2> DEFINE s == [IdleCall EXCEPT !.pc = "rejecting", !.id = i]
    <2>1. s \in CallStates /\ Shaped(s)
      BY DEF IdleCall, CallStates, Stages, Shaped
    <2>2. CallInv'
      BY <2>1, CallMoves DEF AppendReject
    <2>3. DecisionRecord(i, "reject", None) \in AuditRecords
      BY DEF DecisionRecord, AuditRecords, AuditOps, Decisions
    <2> QED BY <2>2, <2>3, AuditType DEF AppendReject, QueueTypeOK
  <1>5. CASE AppendFails(w) \/ RefuseStamp(w)
    BY <1>5, CallReturns DEF AppendFails, RefuseStamp, queueVars, QueueTypeOK
  <1>6. CASE AuthorizeRedrive(w)
    <2>1. CallInv'
      BY <1>6, CallGoes DEF AuthorizeRedrive, At, Stages, CallInv, CallTypeOK, CallShape,
         CallStates, Shaped
    <2> QED BY <1>6, <2>1 DEF AuthorizeRedrive, queueVars, QueueTypeOK
  <1>7. CASE ApplyReject(w)
    <2>1. queue' \in [Ids -> Rows]
      BY <1>7, FinalizerRowTypes DEF ApplyReject, QueueTypeOK
    <2> QED BY <1>7, <2>1, CallReturns DEF ApplyReject, QueueTypeOK
  <1>8. CASE \E i \in Ids : Sweep(w, i)
    <2> PICK i \in Ids : Sweep(w, i)
      BY <1>8
    <2> DEFINE s == [IdleCall EXCEPT !.pc = "gate", !.id = i]
    <2>1. s \in CallStates /\ Shaped(s)
      BY DEF IdleCall, CallStates, Stages, Shaped
    <2>2. CallInv'
      BY <2>1, CallMoves DEF Sweep
    <2> QED BY <2>2 DEF Sweep, queueVars, QueueTypeOK
  <1> QED BY <1>1, <1>2, <1>3, <1>4, <1>5, <1>6, <1>7, <1>8 DEF Decide

\* A DELETE leaves a store, whatever it answers.
LEMMA StoreDeleteType ==
  ASSUME store \in [Contents -> Ids \cup {None}], NEW h, NEW says, StoreDelete(h, says)
  PROVE  store' \in [Contents -> Ids \cup {None}]
  BY DEF StoreDelete, Removed

\* Every step of finalize_approved_candidate keeps the types.
LEMMA FinalizeType ==
  ASSUME QueueAssumption, QueueTypeOK, CallInv, NEW w \in Calls, Finalize(w)
  PROVE  QueueTypeOK' /\ CallInv'
  <1> crashes' \in Nat
    BY DEF CallInv, CallTypeOK, Finalize, GatePasses, GateRefuses, GateClaims, BuildFails,
       CheckClaim, WriteLands, WriteAnswerLost, WriteIsDuplicate, WriteFails, LookupFinds,
       LookupFails, Fail, Record, RecordOfOther, RecordOrphan, Outcome, CleanupDeletes,
       CleanupFails
  <1> USE DEF CallTypeOK, CallShape, CallStates, Stages, Shaped, At
  <1>1. CASE GatePasses(w) \/ RecordOfOther(w)
    BY <1>1, CallReturns DEF GatePasses, RecordOfOther, queueVars, QueueTypeOK
  <1>2. CASE GateRefuses(w)
    <2>1. queue' \in [Ids -> Rows]
      BY <1>2, FinalizerRowTypes DEF GateRefuses, QueueTypeOK
    <2> QED BY <1>2, <2>1, CallReturns DEF GateRefuses, QueueTypeOK
  <1>3. CASE GateClaims(w)
    <2> DEFINE s == [call[w] EXCEPT !.pc = "claimed", !.sha = Row(w).bytes]
    <2>1. call[w].id \in Ids /\ Row(w) \in Rows
      BY <1>3 DEF GateClaims, CallInv, QueueTypeOK, Row
    <2>2. Row(w).bytes \in Contents
      BY <1>3, <2>1 DEF GateClaims, ReceiptVerifies, BytesAsApproved, Row, Rows
    <2>3. s \in CallStates /\ Shaped(s)
      BY <2>1, <2>2 DEF CallInv
    <2> HIDE DEF CallTypeOK, CallShape, CallStates, Shaped
    <2>4. call' = [call EXCEPT ![w] = s]
      BY <1>3 DEF GateClaims
    <2>5. CallInv'
      BY <2>3, <2>4, CallMoves
    <2>6. queue' \in [Ids -> Rows]
      BY <1>3, FinalizerRowTypes DEF GateClaims, QueueTypeOK
    <2> QED BY <1>3, <2>5, <2>6 DEF GateClaims, QueueTypeOK
  <1>4. CASE BuildFails(w) \/ WriteFails(w) \/ LookupFails(w)
    <2>1. CallInv'
      BY <1>4, CallGoes DEF BuildFails, WriteFails, LookupFails, CallInv
    <2> QED BY <1>4, <2>1 DEF BuildFails, WriteFails, LookupFails, queueVars, QueueTypeOK
  <1>5. CASE CheckClaim(w)
    <2>1. CASE Goto(w, "writing")
      BY <1>5, <2>1, CallGoes DEF CheckClaim, CallInv, queueVars, QueueTypeOK
    <2>2. CASE Return(w)
      BY <1>5, <2>2, CallReturns DEF CheckClaim, queueVars, QueueTypeOK
    <2> QED BY <1>5, <2>1, <2>2 DEF CheckClaim
  <1>6. CASE WriteLands(w)
    <2> DEFINE s == [call[w] EXCEPT !.pc = "recording", !.hash = call[w].sha]
    <2>1. s \in CallStates /\ Shaped(s)
      <3>1. call[w] \in CallStates /\ call[w].sha \in Contents /\ call[w].pc = "writing"
        BY <1>6 DEF WriteLands, CallInv
      <3>2. /\ s.pc = "recording" /\ s.hash = call[w].sha
            /\ s.id = call[w].id /\ s.sha = call[w].sha /\ s.seq = call[w].seq
        BY <3>1
      <3>3. s \in CallStates
        BY <3>1
      <3>4. call[w].id \in Ids
        BY <3>1, <1>6 DEF CallInv
      <3> QED BY <3>1, <3>2, <3>3, <3>4
    <2>2. store' \in [Contents -> Ids \cup {None}]
      BY <1>6 DEF WriteLands, Stored, QueueTypeOK, CallInv
    <2> HIDE DEF CallTypeOK, CallShape, CallStates, Shaped
    <2>3. call' = [call EXCEPT ![w] = s]
      BY <1>6 DEF WriteLands
    <2>4. CallInv'
      BY <2>1, <2>3, CallMoves
    <2> QED BY <1>6, <2>4, <2>2 DEF WriteLands, QueueTypeOK
  <1>7. CASE WriteAnswerLost(w)
    <2>1. CallInv'
      BY <1>7, CallGoes DEF WriteAnswerLost, CallInv
    <2>2. store' \in [Contents -> Ids \cup {None}]
      BY <1>7 DEF WriteAnswerLost, Stored, QueueTypeOK, CallInv
    <2> QED BY <1>7, <2>1, <2>2 DEF WriteAnswerLost, QueueTypeOK
  <1>8. CASE WriteIsDuplicate(w)
    <2>1. CallInv'
      BY <1>8, CallGoes DEF WriteIsDuplicate, CallInv
    <2> QED BY <1>8, <2>1 DEF WriteIsDuplicate, queueVars, QueueTypeOK
  <1>9. CASE LookupFinds(w)
    <2> PICK c \in MarkedBy(call[w].id) :
          call' = [call EXCEPT ![w].pc = "recording", ![w].hash = c]
      BY <1>9 DEF LookupFinds
    <2> DEFINE s == [call[w] EXCEPT !.pc = "recording", !.hash = c]
    <2>1. c \in Contents
      BY DEF MarkedBy
    <2>2. call[w] \in CallStates /\ call[w].id \in Ids
      BY <1>9 DEF LookupFinds, CallInv
    <2>3. s \in CallStates /\ Shaped(s)
      BY <2>1, <2>2
    <2> HIDE DEF CallTypeOK, CallShape, CallStates, Shaped
    <2>4. call' = [call EXCEPT ![w] = s]
      OBVIOUS
    <2>5. CallInv'
      BY <2>3, <2>4, CallMoves
    <2> QED BY <1>9, <2>5 DEF LookupFinds, queueVars, QueueTypeOK
  <1>10. CASE Fail(w)
    <2>1. queue' \in [Ids -> Rows]
      <3>1. \A i \in Ids : [queue[i] EXCEPT !.fin = "failed"] \in Rows
        BY FinalizerRowTypes DEF QueueTypeOK
      <3> QED BY <1>10, <3>1 DEF Fail, QueueTypeOK
    <2> QED BY <1>10, <2>1, CallReturns DEF Fail, QueueTypeOK
  <1>11. CASE Record(w)
    <2>1. CallInv'
      BY <1>11, CallGoes DEF Record, CallInv
    <2>2. queue' \in [Ids -> Rows]
      BY <1>11, FinalizerRowTypes DEF Record, QueueTypeOK, CallInv
    <2> QED BY <1>11, <2>1, <2>2 DEF Record, QueueTypeOK
  <1>12. CASE RecordOrphan(w)
    <2>1. CallInv'
      BY <1>12, CallGoes DEF RecordOrphan, CallInv
    <2> QED BY <1>12, <2>1 DEF RecordOrphan, queueVars, QueueTypeOK
  <1>13. CASE Outcome(w)
    <2>1. history' \in SUBSET (HistoryOps \X Contents)
      BY <1>13 DEF Outcome, QueueTypeOK, CallInv, HistoryOps
    <2>2. FinalizedRecord(call[w].id, call[w].hash) \in AuditRecords
      BY <1>13 DEF Outcome, CallInv, FinalizedRecord, AuditRecords, AuditOps, Decisions
    <2>3. audit' \in Seq(AuditRecords)
      BY <1>13, <2>2, AuditType DEF Outcome, QueueTypeOK
    <2> QED BY <1>13, <2>1, <2>3, CallReturns DEF Outcome, QueueTypeOK
  <1>14. CASE CleanupDeletes(w)
    <2>1. store' \in [Contents -> Ids \cup {None}]
      BY <1>14, StoreDeleteType DEF CleanupDeletes, QueueTypeOK
    <2> QED BY <1>14, <2>1, CallReturns DEF CleanupDeletes, QueueTypeOK
  <1>15. CASE CleanupFails(w)
    <2>1. store' \in [Contents -> Ids \cup {None}]
      BY <1>15, StoreDeleteType DEF CleanupFails, QueueTypeOK
    <2>2. history' \in SUBSET (HistoryOps \X Contents)
      BY <1>15 DEF CleanupFails, QueueTypeOK, CallInv, HistoryOps
    <2> QED BY <1>15, <2>1, <2>2, CallReturns DEF CleanupFails, QueueTypeOK
  <1> QED BY <1>1, <1>2, <1>3, <1>4, <1>5, <1>6, <1>7, <1>8, <1>9, <1>10, <1>11, <1>12,
             <1>13, <1>14, <1>15 DEF Finalize

-----------------------------------------------------------------------------
(* How a forget moves *)

ForgetInv == ForgetTypeOK /\ ForgetShape

\* A forget that moves to a well-shaped state leaves all forgets well-shaped.
LEMMA ForgetMoves ==
  ASSUME ForgetInv, NEW f \in Forgetters, NEW g \in ForgetStates, Sighted(g),
         forget' = [forget EXCEPT ![f] = g], erased' \subseteq Contents, overrun' \subseteq Ids
  PROVE  ForgetInv'
  <1>1. forget' \in [Forgetters -> ForgetStates]
    BY DEF ForgetInv, ForgetTypeOK
  <1>2. ASSUME NEW e \in Forgetters PROVE Sighted(forget'[e])
    BY DEF ForgetInv, ForgetTypeOK, ForgetShape
  <1> QED BY <1>1, <1>2 DEF ForgetInv, ForgetTypeOK, ForgetShape

\* A forget that ends or dies is idle.
LEMMA ForgetEnds ==
  ASSUME ForgetInv, NEW f \in Forgetters, EndForget(f), erased' \subseteq Contents,
         overrun' \subseteq Ids
  PROVE  ForgetInv'
  <1>1. IdleForget \in ForgetStates /\ Sighted(IdleForget)
    BY DEF IdleForget, ForgetStates, ForgetStages, Sighted
  <1> QED BY <1>1, ForgetMoves DEF EndForget

\* Only a row of the store can be erased.
LEMMA ErasesType ==
  ASSUME QueueTypeOK, ForgetTypeOK, NEW h, NEW says, StoreDelete(h, says), Erases(h)
  PROVE  erased' \subseteq Contents
  <1>1. CASE h \in Contents
    BY <1>1 DEF Erases, ForgetTypeOK
  <1>2. CASE h \notin Contents
    <2>1. Removed(h) = store
      BY <1>2 DEF Removed, QueueTypeOK
    <2>2. store' = store
      BY <2>1 DEF StoreDelete
    <2> QED BY <2>2 DEF Erases, ForgetTypeOK
  <1> QED BY <1>1, <1>2

\* A DELETE takes a forget to one of the two states it is given, or ends it.
LEMMA ForgetDeletesType ==
  ASSUME QueueTypeOK, ForgetInv, NEW f \in Forgetters, NEW h,
         NEW removed \in ForgetStates, NEW kept \in ForgetStates,
         Sighted(removed), Sighted(kept), ForgetDeletes(f, h, removed, kept),
         UNCHANGED overrun
  PROVE  ForgetInv' /\ store' \in [Contents -> Ids \cup {None}]
  <1> PICK says \in {"true", "false", "raised"} :
        /\ StoreDelete(h, says)
        /\ Erases(h)
        /\ CASE says = "true"   -> forget' = [forget EXCEPT ![f] = removed]
             [] says = "false"  -> forget' = [forget EXCEPT ![f] = kept]
             [] says = "raised" -> EndForget(f)
    BY DEF ForgetDeletes
  <1>1. store' \in [Contents -> Ids \cup {None}]
    BY StoreDeleteType DEF QueueTypeOK
  <1>2. erased' \subseteq Contents /\ overrun' \subseteq Ids
    BY ErasesType DEF ForgetInv, ForgetTypeOK
  <1>3. CASE says = "true"
    BY <1>1, <1>2, <1>3, ForgetMoves
  <1>4. CASE says = "false"
    BY <1>1, <1>2, <1>4, ForgetMoves
  <1>5. CASE says = "raised"
    BY <1>1, <1>2, <1>5, ForgetEnds
  <1> QED BY <1>3, <1>4, <1>5

\* Every step of MemoryClient.hard_delete keeps the types.
LEMMA ForgetType ==
  ASSUME QueueAssumption, ForgetAssumption, QueueTypeOK, ForgetInv,
         NEW f \in Forgetters, Forget(f)
  PROVE  QueueTypeOK' /\ ForgetInv'
  <1> USE DEF ForgetStates, ForgetStages, Sighted, ForgetAt
  <1>1. CASE \E by \in ForgetBy, c \in Contents : ForgetClaim(f, by, c)
    <2> PICK by \in ForgetBy, c \in Contents : ForgetClaim(f, by, c)
      BY <1>1
    <2> DEFINE rows == Matched(by, c)
               g == [IdleForget EXCEPT !.pc = "claimed", !.by = by, !.target = c,
                                       !.claimed = rows, !.sweep = rows]
    <2>1. rows \subseteq Ids /\ by \in {"drawer", "hash"}
      BY ForgetAssumption DEF Matched
    <2>2. forget' = [forget EXCEPT ![f] = g]
      BY DEF ForgetClaim
    <2>3. queue' = [i \in Ids |-> IF i \in rows THEN ForgetRow(queue[i]) ELSE queue[i]]
      BY DEF ForgetClaim
    <2>4. UNCHANGED <<audit, store, history, edits, erased, overrun>>
      BY DEF ForgetClaim
    <2>5. queue' \in [Ids -> Rows]
      BY <2>3, FinalizerRowTypes DEF QueueTypeOK
    <2> HIDE DEF rows
    <2>6. g \in ForgetStates /\ Sighted(g)
      BY <2>1 DEF IdleForget
    <2> HIDE DEF g, ForgetStates, Sighted
    <2>7. ForgetInv'
      BY <2>2, <2>4, <2>6, ForgetMoves DEF ForgetInv, ForgetTypeOK
    <2> QED BY <2>4, <2>5, <2>7 DEF QueueTypeOK
  <1>2. CASE ForgetTarget(f)
    <2> DEFINE next == [forget[f] EXCEPT !.pc = "resolving"]
               gone == [next EXCEPT !.ok = TRUE]
    <2>1. forget[f] \in ForgetStates /\ forget[f].target \in Contents
      BY <1>2 DEF ForgetTarget, ForgetInv, ForgetTypeOK, ForgetShape
    <2>2. next \in ForgetStates /\ Sighted(next)
      BY <2>1
    <2>3. next \in ForgetStates /\ Sighted(next) /\ gone \in ForgetStates /\ Sighted(gone)
      BY <2>1, <2>2
    <2>4. UNCHANGED <<queue, audit, history, edits, overrun>>
      BY <1>2 DEF ForgetTarget
    <2>5. \/ ForgetDeletes(f, forget[f].target, gone, next)
          \/ forget' = [forget EXCEPT ![f] = next] /\ UNCHANGED <<store, erased>>
      BY <1>2 DEF ForgetTarget
    <2> HIDE DEF gone, next, ForgetStates, Sighted
    <2>6. ForgetInv' /\ store' \in [Contents -> Ids \cup {None}]
      <3>1. CASE ForgetDeletes(f, forget[f].target, gone, next)
        BY <3>1, <2>3, <2>4, ForgetDeletesType
      <3>2. CASE forget' = [forget EXCEPT ![f] = next] /\ UNCHANGED <<store, erased>>
        BY <3>2, <2>3, <2>4, ForgetMoves DEF QueueTypeOK, ForgetInv, ForgetTypeOK
      <3> QED BY <2>5, <3>1, <3>2
    <2> QED BY <2>4, <2>6 DEF QueueTypeOK
  <1>3. CASE ForgetResolve(f)
    <2> DEFINE ids == Divergent(forget[f].by, forget[f].target)
               g == [forget[f] EXCEPT !.pc = "mapped", !.todo = ids, !.named = ids]
    <2>1. ids \subseteq Contents
      BY DEF Divergent, Matched, QueueTypeOK, Rows
    <2>2. forget' = [forget EXCEPT ![f] = g]
      BY <1>3 DEF ForgetResolve
    <2> HIDE DEF ids
    <2>3. forget[f] \in ForgetStates /\ forget[f].target \in Contents
      BY <1>3 DEF ForgetResolve, ForgetInv, ForgetTypeOK, ForgetShape
    <2>4. g \in ForgetStates /\ Sighted(g)
      BY <2>1, <2>3
    <2> HIDE DEF g, ForgetStates, Sighted
    <2>5. ForgetInv'
      BY <1>3, <2>2, <2>4, ForgetMoves DEF ForgetResolve, ForgetInv, ForgetTypeOK
    <2> QED BY <1>3, <2>5 DEF ForgetResolve, queueVars, QueueTypeOK
  <1>4. CASE \E h \in Contents : ForgetMapped(f, h)
    <2> PICK h \in Contents : ForgetMapped(f, h)
      BY <1>4
    <2> DEFINE next == [forget[f] EXCEPT !.todo = @ \ {h}]
               gone == [next EXCEPT !.ok = TRUE]
    <2>1. forget[f] \in ForgetStates /\ forget[f].target \in Contents /\ forget[f].pc = "mapped"
      BY DEF ForgetMapped, ForgetInv, ForgetTypeOK, ForgetShape
    <2>2. next \in ForgetStates /\ Sighted(next)
      BY <2>1
    <2>3. next \in ForgetStates /\ Sighted(next) /\ gone \in ForgetStates /\ Sighted(gone)
      BY <2>1, <2>2
    <2>4. ForgetDeletes(f, h, gone, next)
      BY DEF ForgetMapped
    <2>5. UNCHANGED <<queue, audit, history, edits, overrun>>
      BY DEF ForgetMapped
    <2> HIDE DEF gone, next, ForgetStates, Sighted
    <2> QED BY <2>3, <2>4, <2>5, ForgetDeletesType DEF QueueTypeOK
  <1>5. CASE \E i \in Ids : ForgetLooksUp(f, i)
    <2> PICK i \in Ids : ForgetLooksUp(f, i)
      BY <1>5
    <2> DEFINE rest == [forget[f] EXCEPT !.sweep = @ \ {i}]
               h == CHOOSE h \in MarkedBy(i) : TRUE
               found == [rest EXCEPT !.pc = "found", !.found = h]
    <2>1. rest \in ForgetStates /\ Sighted(rest)
      BY DEF ForgetLooksUp, ForgetInv, ForgetTypeOK, ForgetShape
    <2>2. MarkedBy(i) # {} => h \in Contents
      BY DEF MarkedBy
    <2>3. UNCHANGED <<queueVars, erased, overrun>>
      BY DEF ForgetLooksUp
    <2>4. forget' = [forget EXCEPT ![f] = IF MarkedBy(i) = {} THEN rest ELSE found]
      BY DEF ForgetLooksUp
    <2> HIDE DEF h
    <2>5. rest.target \in Contents
      BY DEF ForgetLooksUp, ForgetInv, ForgetTypeOK, ForgetShape
    <2>6. MarkedBy(i) # {} => found \in ForgetStates /\ Sighted(found)
      <3> HIDE DEF rest
      <3> QED BY <2>1, <2>2, <2>5
    <2> HIDE DEF rest, found, ForgetStates, Sighted
    <2>7. ForgetInv'
      BY <2>1, <2>3, <2>4, <2>6, ForgetMoves DEF ForgetInv, ForgetTypeOK
    <2> QED BY <2>3, <2>7 DEF queueVars, QueueTypeOK
  <1>6. CASE ForgetFound(f)
    <2> DEFINE h == forget[f].found
               next == [forget[f] EXCEPT !.pc = "mapped", !.found = None]
               gone == [next EXCEPT !.ok = TRUE, !.named = @ \cup {h}]
    <2>1. forget[f] \in ForgetStates /\ forget[f].target \in Contents /\ h \in Contents
      BY <1>6 DEF ForgetFound, ForgetInv, ForgetTypeOK, ForgetShape
    <2>2. next \in ForgetStates /\ Sighted(next)
      BY <2>1
    <2>3. next \in ForgetStates /\ Sighted(next) /\ gone \in ForgetStates /\ Sighted(gone)
      BY <2>1, <2>2
    <2>4. ForgetDeletes(f, h, gone, next)
      BY <1>6 DEF ForgetFound
    <2>5. UNCHANGED <<queue, audit, history, edits, overrun>>
      BY <1>6 DEF ForgetFound
    <2> HIDE DEF h, gone, next, ForgetStates, Sighted
    <2> QED BY <2>3, <2>4, <2>5, ForgetDeletesType DEF QueueTypeOK
  <1>7. CASE ForgetRaises(f)
    BY <1>7, ForgetEnds DEF ForgetRaises, ForgetInv, ForgetTypeOK, queueVars, QueueTypeOK
  <1>8. CASE ForgetPurge(f)
    <2> DEFINE g == [forget[f] EXCEPT !.pc = "recording"]
    <2>1. g \in ForgetStates /\ Sighted(g)
      BY <1>8 DEF ForgetPurge, ForgetInv, ForgetTypeOK, ForgetShape
    <2>2. queue' \in [Ids -> Rows]
      BY <1>8, BlankRowType DEF ForgetPurge, Purged, QueueTypeOK, Statuses
    <2>3. erased' \subseteq Contents /\ overrun' \subseteq Ids
      BY <1>8 DEF ForgetPurge, ForgetInv, ForgetTypeOK, Matched
    <2> HIDE DEF ForgetStates, Sighted
    <2>4. forget' = [forget EXCEPT ![f] = g]
      BY <1>8 DEF ForgetPurge
    <2>5. ForgetInv'
      BY <2>1, <2>3, <2>4, ForgetMoves
    <2> QED BY <1>8, <2>2, <2>5 DEF ForgetPurge, QueueTypeOK
  <1>9. CASE ForgetTombstone(f)
    <2>1. Tombstones(forget[f]) \subseteq HistoryOps \X Contents
      BY <1>9 DEF ForgetTombstone, Tombstones, ForgetInv, ForgetTypeOK, ForgetShape, HistoryOps
    <2>2. ForgetInv'
      BY <1>9, ForgetEnds DEF ForgetTombstone, ForgetInv, ForgetTypeOK
    <2> QED BY <1>9, <2>1, <2>2 DEF ForgetTombstone, QueueTypeOK
  <1> QED BY <1>1, <1>2, <1>3, <1>4, <1>5, <1>6, <1>7, <1>8, <1>9 DEF Forget

\* Steps of others leave the forgets as they are.
LEMMA ForgetStays == ASSUME ForgetInv, UNCHANGED forgetVars PROVE ForgetInv'
  BY DEF ForgetInv, ForgetTypeOK, ForgetShape, forgetVars

-----------------------------------------------------------------------------

\* Every step of the box keeps the types.
LEMMA TypeStep ==
  ASSUME QueueAssumption, ForgetAssumption, TypeInv, [Next]_vars
  PROVE  TypeInv'
  <1> USE DEF TypeInv, TypeOK
  <1>1. QueueTypeOK /\ CallInv /\ ForgetInv
    BY DEF CallInv, ForgetInv
  <1>2. CASE QueueStep
    <2>1. CallInv' /\ ForgetInv'
      BY <1>1, <1>2, CallStays, ForgetStays DEF QueueStep
    <2>2. CASE \E i \in Ids, c \in Contents : Propose(i, c)
      <3> PICK i \in Ids, c \in Contents : Propose(i, c)
        BY <2>2
      <3>1. [BlankRow("pending_approval") EXCEPT !.bytes = c, !.drawer = c] \in Rows
        BY DEF BlankRow, Rows, Statuses, FinalizerStates
      <3> QED BY <1>1, <2>1, <3>1 DEF Propose, QueueTypeOK, CallInv, ForgetInv
    <2>3. CASE \E i \in Ids, c \in Contents : EditBytes(i, c)
      <3> PICK i \in Ids, c \in Contents : EditBytes(i, c)
        BY <2>3
      <3>1. [queue[i] EXCEPT !.bytes = c] \in Rows
        BY <1>1, FinalizerRowTypes DEF QueueTypeOK
      <3>2. queue' = [queue EXCEPT ![i] = [queue[i] EXCEPT !.bytes = c]]
        BY DEF EditBytes
      <3>3. QueueTypeOK'
        BY <1>1, <3>1, <3>2 DEF EditBytes, QueueTypeOK
      <3> QED BY <2>1, <3>3 DEF CallInv, ForgetInv
    <2>4. CASE \E i \in Ids : RawApprove(i)
      BY <1>1, <2>1, <2>4, ApproveRowType DEF RawApprove, QueueTypeOK, CallInv, ForgetInv
    <2> QED BY <1>2, <2>2, <2>3, <2>4 DEF QueueStep
  <1>3. CASE \E i \in Ids : Expiry(i)
    <2> PICK i \in Ids : Expiry(i)
      BY <1>3
    <2>1. [queue[i] EXCEPT !.stale = TRUE] \in Rows
      BY <1>1, FinalizerRowTypes DEF QueueTypeOK
    <2>2. queue' = [queue EXCEPT ![i] = [queue[i] EXCEPT !.stale = TRUE]]
      BY DEF Expiry, LeaseExpires
    <2>3. QueueTypeOK'
      BY <1>1, <2>1, <2>2 DEF Expiry, LeaseExpires, QueueTypeOK
    <2> QED BY <1>1, <2>3, CallStays, ForgetStays DEF Expiry, LeaseExpires, CallInv, ForgetInv
  <1>4. CASE \E w \in Calls : CallStep(w)
    <2> PICK w \in Calls : CallStep(w)
      BY <1>4
    <2>1. ForgetInv'
      BY <1>1, ForgetStays DEF CallStep
    <2>2. CASE Decide(w)
      BY <1>1, <2>1, <2>2, DecideType DEF CallInv, ForgetInv
    <2>3. CASE Finalize(w)
      BY <1>1, <2>1, <2>3, FinalizeType DEF CallInv, ForgetInv
    <2>4. CASE CallCrashes(w)
      <3>1. crashes' \in Nat
        BY <1>1, <2>4 DEF CallCrashes, CallInv, CallTypeOK
      <3>2. CallInv'
        BY <1>1, <2>4, <3>1, CallReturns DEF CallCrashes
      <3> QED BY <1>1, <2>1, <2>4, <3>2 DEF CallCrashes, queueVars, QueueTypeOK, CallInv, ForgetInv
    <2> QED BY <2>2, <2>3, <2>4 DEF CallStep
  <1>5. CASE \E f \in Forgetters : ForgetStep(f)
    <2> PICK f \in Forgetters : ForgetStep(f)
      BY <1>5
    <2>1. CASE Forget(f) /\ UNCHANGED callVars
      BY <1>1, <2>1, ForgetType, CallStays DEF CallInv, ForgetInv
    <2>2. CASE ForgetCrashes(f) /\ UNCHANGED call
      <3>1. CallInv'
        BY <1>1, <2>2 DEF ForgetCrashes, CallInv, CallTypeOK, CallShape
      <3>2. ForgetInv'
        BY <1>1, <2>2, ForgetEnds DEF ForgetCrashes, ForgetInv, ForgetTypeOK
      <3> QED BY <1>1, <2>2, <3>1, <3>2
             DEF ForgetCrashes, queueVars, QueueTypeOK, CallInv, ForgetInv
    <2> QED BY <2>1, <2>2 DEF ForgetStep
  <1>6. CASE UNCHANGED vars
    BY <1>1, <1>6, CallStays, ForgetStays DEF vars, queueVars, QueueTypeOK, CallInv, ForgetInv
  <1> QED BY <1>2, <1>3, <1>4, <1>5, <1>6 DEF Next

\* The inductive type invariant holds in every state.
THEOREM TypeCorrect == Spec => []TypeInv
  <1>1. Init => TypeInv
    BY TypeInit
  <1>2. TypeInv /\ [Next]_vars => TypeInv'
    BY TypeStep, QueueAssumption, ForgetAssumption
  <1> QED BY <1>1, <1>2, PTL DEF Spec

\* Every state of the box has its type: no transaction, crash or answer of
\* the store leaves a row, a call or a forget in a state no code handles.
THEOREM TypeSafety == Spec => []TypeOK
  <1>1. TypeInv => TypeOK
    BY DEF TypeInv
  <1> QED BY <1>1, TypeCorrect, PTL

-----------------------------------------------------------------------------
(* What one step can do to the log, to the store and to a call *)

\* The actions that append to the log.
Appends(w) == AppendApprove(w) \/ Outcome(w) \/ \E i \in Ids : AppendReject(w, i)

\* Nothing else appends to it.
LEMMA AuditSteps ==
  ASSUME [Next]_vars
  PROVE  UNCHANGED audit \/ \E w \in Calls : Appends(w)
  <1>1. CASE QueueStep \/ UNCHANGED vars \/ \E i \in Ids : Expiry(i)
    BY <1>1 DEF QueueStep, Propose, EditBytes, RawApprove, vars, queueVars, Expiry, LeaseExpires
  <1>2. ASSUME NEW w \in Calls, CallStep(w)
        PROVE  UNCHANGED audit \/ Appends(w)
    <2>1. CASE Decide(w)
      BY <2>1 DEF Decide, Appends, ReadCandidate, Sweep, AppendFails, AuthorizeRedrive,
         StampFresh, RefuseStamp, ApplyReject, queueVars
    <2>2. CASE Finalize(w)
      BY <2>2 DEF Finalize, Appends, GatePasses, GateRefuses, GateClaims, BuildFails,
         CheckClaim, WriteLands, WriteAnswerLost, WriteIsDuplicate, WriteFails, LookupFinds,
         LookupFails, Fail, Record, RecordOfOther, RecordOrphan, CleanupDeletes,
         CleanupFails, queueVars
    <2>3. CASE CallCrashes(w)
      BY <2>3 DEF CallCrashes, queueVars
    <2> QED BY <1>2, <2>1, <2>2, <2>3 DEF CallStep
  <1>3. ASSUME NEW f \in Forgetters, ForgetStep(f)
        PROVE  UNCHANGED audit
    BY <1>3 DEF ForgetStep, Forget, ForgetClaim, ForgetTarget, ForgetResolve, ForgetMapped,
       ForgetLooksUp, ForgetFound, ForgetRaises, ForgetPurge, ForgetTombstone, ForgetCrashes,
       queueVars
  <1> QED BY <1>1, <1>2, <1>3 DEF Next

\* Only a call's write puts a row into the store: its own approval's, under
\* the bytes it claimed.
LEMMA StoreSteps ==
  ASSUME TypeInv, [Next]_vars, NEW c \in Contents
  PROVE  \/ store'[c] \in {None, store[c]}
         \/ \E w \in Calls :
               /\ call[w].pc = "writing"
               /\ call[w].sha = c
               /\ store[c] = None
               /\ store'[c] = call[w].id
  <1> USE DEF TypeInv, TypeOK, QueueTypeOK
  <1>1. CASE QueueStep \/ UNCHANGED vars \/ \E i \in Ids : Expiry(i)
    BY <1>1 DEF QueueStep, Propose, EditBytes, RawApprove, vars, queueVars, Expiry, LeaseExpires
  <1>2. ASSUME NEW h, NEW says, StoreDelete(h, says)
        PROVE  store'[c] \in {None, store[c]}
    BY <1>2 DEF StoreDelete, Removed
  <1>3. ASSUME NEW w \in Calls, CallStep(w)
        PROVE  \/ store'[c] \in {None, store[c]}
               \/ /\ call[w].pc = "writing"
                  /\ call[w].sha = c
                  /\ store[c] = None
                  /\ store'[c] = call[w].id
    <2>1. CASE Decide(w) \/ CallCrashes(w)
      BY <2>1 DEF Decide, ReadCandidate, Sweep, AppendFails, AppendApprove, AppendReject,
         AuthorizeRedrive, StampFresh, RefuseStamp, ApplyReject, CallCrashes, queueVars
    <2>2. CASE WriteLands(w) \/ WriteAnswerLost(w)
      BY <2>2 DEF WriteLands, WriteAnswerLost, Stored, At
    <2>3. CASE CleanupDeletes(w) \/ CleanupFails(w)
      BY <1>2, <2>3 DEF CleanupDeletes, CleanupFails
    <2>4. CASE Finalize(w) /\ UNCHANGED store
      BY <2>4
    <2> QED BY <1>3, <2>1, <2>2, <2>3, <2>4
       DEF CallStep, Finalize, GatePasses, GateRefuses, GateClaims, BuildFails, CheckClaim,
           WriteIsDuplicate, WriteFails, LookupFinds, LookupFails, Fail, Record,
           RecordOfOther, RecordOrphan, Outcome, queueVars
  <1>4. ASSUME NEW f \in Forgetters, ForgetStep(f)
        PROVE  store'[c] \in {None, store[c]}
    <2>1. CASE ForgetTarget(f) \/ ForgetFound(f) \/ \E h \in Contents : ForgetMapped(f, h)
      BY <1>2, <2>1 DEF ForgetTarget, ForgetFound, ForgetMapped, ForgetDeletes
    <2>2. CASE UNCHANGED store
      BY <2>2
    <2> QED BY <1>4, <2>1, <2>2 DEF ForgetStep, Forget, ForgetClaim, ForgetResolve,
           ForgetLooksUp, ForgetRaises, ForgetPurge, ForgetTombstone, ForgetCrashes, queueVars
  <1> QED BY <1>1, <1>3, <1>4 DEF Next

\* A step leaves a call alone, ends it, or is a step of it.
LEMMA CallSteps ==
  ASSUME TypeInv, [Next]_vars, NEW w \in Calls
  PROVE  call'[w] = call[w] \/ call'[w] = IdleCall \/ Decide(w) \/ Finalize(w)
  <1> USE DEF TypeInv, TypeOK, CallTypeOK
  <1>1. CASE QueueStep \/ UNCHANGED vars \/ \E i \in Ids : Expiry(i)
    BY <1>1 DEF QueueStep, vars, callVars, Expiry, LeaseExpires
  <1>2. CASE \E f \in Forgetters : ForgetStep(f)
    BY <1>2 DEF ForgetStep, callVars
  <1>3. ASSUME NEW v \in Calls, CallStep(v), v # w
        PROVE  call'[w] = call[w]
    <2>1. CASE Decide(v)
      BY <1>3, <2>1 DEF Decide, ReadCandidate, Sweep, AppendFails, AppendApprove, AppendReject,
         AuthorizeRedrive, StampFresh, RefuseStamp, ApplyReject, Goto, Return
    <2>2. CASE Finalize(v)
      BY <1>3, <2>2 DEF Finalize, GatePasses, GateRefuses, GateClaims, BuildFails, CheckClaim,
         WriteLands, WriteAnswerLost, WriteIsDuplicate, WriteFails, LookupFinds, LookupFails,
         Fail, Record, RecordOfOther, RecordOrphan, Outcome, CleanupDeletes, CleanupFails,
         Goto, Return
    <2>3. CASE CallCrashes(v)
      BY <1>3, <2>3 DEF CallCrashes, Return
    <2> QED BY <1>3, <2>1, <2>2, <2>3 DEF CallStep
  <1>4. CASE CallStep(w)
    BY <1>4 DEF CallStep, CallCrashes, Return
  <1> QED BY <1>1, <1>2, <1>3, <1>4 DEF Next

-----------------------------------------------------------------------------
(* What an approval is tied to *)

\* Approval i is tied to the bytes c: they are durable in its name, or a call
\* that claimed it may yet write them.
Tied(i, c) ==
    \/ store[c] = i
    \/ \E w \in Calls :
          call[w].pc \in {"claimed", "writing"} /\ call[w].id = i /\ call[w].sha = c

\* The decide steps end or stay this side of the claim.
LEMMA DecideStages ==
  ASSUME TypeInv, NEW w \in Calls, Decide(w)
  PROVE  call'[w].pc \in {"idle", "read", "appended", "rejecting", "gate"}
  <1> call \in [Calls -> CallStates] /\ call[w] \in CallStates
    BY DEF TypeInv, TypeOK, CallTypeOK
  <1>1. ASSUME NEW i \in Ids, ReadCandidate(w, i) \/ AppendReject(w, i) \/ Sweep(w, i)
        PROVE  call'[w].pc \in {"read", "rejecting", "gate"}
    BY <1>1 DEF ReadCandidate, AppendReject, Sweep, IdleCall
  <1>2. CASE AppendApprove(w)
    <2>1. call'[w] = [call[w] EXCEPT !.pc = "appended", !.seq = Len(audit) + 1]
      BY <1>2 DEF AppendApprove
    <2> QED BY <2>1 DEF CallStates
  <1>3. CASE AuthorizeRedrive(w) \/ StampFresh(w)
    BY <1>3 DEF AuthorizeRedrive, StampFresh, Goto, CallStates
  <1>4. CASE AppendFails(w) \/ RefuseStamp(w) \/ ApplyReject(w)
    BY <1>4 DEF AppendFails, RefuseStamp, ApplyReject, Return, IdleCall
  <1> QED BY <1>1, <1>2, <1>3, <1>4 DEF Decide

\* The finalize steps end or go on from the gate.
LEMMA FinalizeStages ==
  ASSUME TypeInv, NEW w \in Calls, Finalize(w)
  PROVE  \/ call'[w] = IdleCall
         \/ /\ call'[w].id = call[w].id /\ call[w].pc # "idle"
            /\ call'[w].pc \notin {"idle", "read", "appended", "rejecting", "gate"}
  <1>0. call \in [Calls -> CallStates] /\ call[w] \in CallStates
    BY DEF TypeInv, TypeOK, CallTypeOK
  <1>1. CASE GateClaims(w) \/ WriteLands(w)
    BY <1>0, <1>1 DEF GateClaims, WriteLands, At, CallStates
  <1>2. CASE LookupFinds(w)
    BY <1>0, <1>2 DEF LookupFinds, At, CallStates
  <1>3. CASE \/ GatePasses(w) \/ GateRefuses(w) \/ Fail(w) \/ RecordOfOther(w) \/ Outcome(w)
             \/ CleanupDeletes(w) \/ CleanupFails(w)
    BY <1>0, <1>3 DEF GatePasses, GateRefuses, Fail, RecordOfOther, Outcome, CleanupDeletes,
       CleanupFails, Return
  <1>4. CASE CheckClaim(w)
    BY <1>0, <1>4 DEF CheckClaim, Goto, Return, At, CallStates
  <1>5. CASE \/ BuildFails(w) \/ WriteIsDuplicate(w) \/ WriteFails(w) \/ LookupFails(w)
             \/ Record(w) \/ RecordOrphan(w) \/ WriteAnswerLost(w)
    BY <1>0, <1>5 DEF BuildFails, WriteIsDuplicate, WriteFails, LookupFails, Record,
       RecordOrphan, WriteAnswerLost, Goto, At, CallStates
  <1> QED BY <1>1, <1>2, <1>3, <1>4, <1>5 DEF Finalize

\* Of the finalize steps only the claim makes a call a writer, and the check
\* of the claim keeps it one.
LEMMA FinalizeToWriter ==
  ASSUME TypeInv, NEW w \in Calls, Finalize(w), call'[w].pc \in {"claimed", "writing"}
  PROVE  GateClaims(w) \/ CheckClaim(w)
  <1> call \in [Calls -> CallStates]
    BY DEF TypeInv, TypeOK, CallTypeOK
  <1>1. CASE WriteLands(w)
    <2>1. call' = [call EXCEPT ![w] =
                     [call[w] EXCEPT !.pc = "recording", !.hash = call[w].sha]]
      BY <1>1 DEF WriteLands
    <2>2. call'[w] = [call[w] EXCEPT !.pc = "recording", !.hash = call[w].sha]
      BY <2>1
    <2> QED BY <2>2 DEF CallStates
  <1>2. CASE WriteAnswerLost(w)
    BY <1>2 DEF WriteAnswerLost, Goto, CallStates
  <1>3. CASE LookupFinds(w)
    <2>1. PICK c \in MarkedBy(call[w].id) :
             call' = [call EXCEPT ![w].pc = "recording", ![w].hash = c]
      BY <1>3 DEF LookupFinds
    <2> QED BY <2>1 DEF CallStates
  <1>4. CASE GatePasses(w) \/ GateRefuses(w) \/ Fail(w) \/ RecordOfOther(w) \/ Outcome(w)
                \/ CleanupDeletes(w) \/ CleanupFails(w)
    BY <1>4 DEF GatePasses, GateRefuses, Fail, RecordOfOther, Outcome, CleanupDeletes,
       CleanupFails, Return, IdleCall
  <1>5. CASE BuildFails(w) \/ WriteIsDuplicate(w) \/ WriteFails(w) \/ LookupFails(w)
                \/ Record(w) \/ RecordOrphan(w)
    BY <1>5 DEF BuildFails, WriteIsDuplicate, WriteFails, LookupFails, Record, RecordOrphan,
       Goto, CallStates
  <1> QED BY <1>1, <1>2, <1>3, <1>4, <1>5 DEF Finalize

\* Only a claim ties an approval to bytes, and to those its row holds.
LEMMA TiedSteps ==
  ASSUME TypeInv, [Next]_vars, NEW i \in Ids, NEW c \in Contents, Tied(i, c)'
  PROVE  \/ Tied(i, c)
         \/ \E w \in Calls : GateClaims(w) /\ call[w].id = i /\ queue[i].bytes = c
  <1> call \in [Calls -> CallStates]
    BY DEF TypeInv, TypeOK, CallTypeOK
  <1>1. CASE store'[c] = i
    <2>1. i # None
      BY QueueAssumption
    <2> QED BY <1>1, <2>1, StoreSteps DEF Tied
  <1>2. ASSUME NEW w \in Calls, call'[w].pc \in {"claimed", "writing"},
               call'[w].id = i, call'[w].sha = c
        PROVE  \/ Tied(i, c)
               \/ GateClaims(w) /\ call[w].id = i /\ queue[i].bytes = c
    <2>1. CASE call'[w] = call[w]
      BY <1>2, <2>1 DEF Tied
    <2>2. CASE call'[w] = IdleCall
      BY <1>2, <2>2 DEF IdleCall
    <2>3. CASE Decide(w)
      BY <1>2, <2>3, DecideStages
    <2>4. CASE GateClaims(w)
      BY <1>2, <2>4 DEF GateClaims, CallStates, Row
    <2>5. CASE CheckClaim(w)
      <3>1. call[w].pc = "claimed" /\ call[w].id = i /\ call[w].sha = c
        BY <1>2, <2>5 DEF CheckClaim, At, Goto, Return, IdleCall, CallStates
      <3> QED BY <3>1 DEF Tied
    <2> QED BY <1>2, <2>1, <2>2, <2>3, <2>4, <2>5, CallSteps, FinalizeToWriter
  <1> QED BY <1>1, <1>2 DEF Tied

-----------------------------------------------------------------------------
(* Nothing is durable without a receipt *)

\* A log holds an approve decision for approval i and the bytes c.
Receipted(log, i, c) == \E k \in 1 .. Len(log) : Approves(log[k], i, c)

TiedIsReceipted == \A i \in Ids, c \in Contents : Tied(i, c) => Receipted(audit, i, c)

ReceiptInv == TypeInv /\ TiedIsReceipted

\* The log only grows, and its records stay where they are.
LEMMA LogGrows ==
  ASSUME TypeInv, [Next]_vars
  PROVE  /\ Len(audit) \in Nat /\ Len(audit') \in Nat
         /\ Len(audit) <= Len(audit')
         /\ \A k \in 1 .. Len(audit) : audit'[k] = audit[k]
  <1>1. audit \in Seq(AuditRecords)
    BY DEF TypeInv, TypeOK, QueueTypeOK
  <1>2. ASSUME NEW w \in Calls, Appends(w)
        PROVE  UNCHANGED audit \/ \E rec \in AuditRecords : audit' = Append(audit, rec)
    <2>1. CallInv
      BY DEF TypeInv, TypeOK, CallInv
    <2>2. CASE AppendApprove(w)
      <3>1. DecisionRecord(call[w].id, "approve", call[w].sha) \in AuditRecords
        BY <2>1, <2>2 DEF CallInv, CallTypeOK, CallShape, CallStates, Shaped, AppendApprove, At,
           DecisionRecord, AuditRecords, AuditOps, Decisions
      <3> QED BY <2>2, <3>1 DEF AppendApprove, AuditAppend
    <2>3. CASE Outcome(w)
      <3>1. FinalizedRecord(call[w].id, call[w].hash) \in AuditRecords
        BY <2>1, <2>3 DEF CallInv, CallTypeOK, CallShape, CallStates, Shaped, Outcome, At,
           FinalizedRecord, AuditRecords, AuditOps, Decisions
      <3> QED BY <2>3, <3>1 DEF Outcome, AuditAppend
    <2>4. ASSUME NEW i \in Ids, AppendReject(w, i)
          PROVE  \E rec \in AuditRecords : audit' = Append(audit, rec)
      <3>1. DecisionRecord(i, "reject", None) \in AuditRecords
        BY DEF DecisionRecord, AuditRecords, AuditOps, Decisions
      <3> QED BY <2>4, <3>1 DEF AppendReject, AuditAppend
    <2> QED BY <1>2, <2>2, <2>3, <2>4 DEF Appends
  <1>3. CASE UNCHANGED audit
    BY <1>1, <1>3, LenProperties
  <1>4. ASSUME NEW rec \in AuditRecords, audit' = Append(audit, rec)
        PROVE  /\ Len(audit) \in Nat /\ Len(audit') \in Nat
               /\ Len(audit) <= Len(audit')
               /\ \A k \in 1 .. Len(audit) : audit'[k] = audit[k]
    BY <1>1, <1>4, AppendProperties, LenProperties
  <1> QED BY <1>2, <1>3, <1>4, AuditSteps

\* A receipt once given is never withdrawn from the log.
LEMMA ReceiptsStay ==
  ASSUME TypeInv, [Next]_vars, NEW i, NEW c, Receipted(audit, i, c)
  PROVE  Receipted(audit', i, c)
  <1>1. PICK k \in 1 .. Len(audit) : Approves(audit[k], i, c)
    BY DEF Receipted
  <1>2. k \in 1 .. Len(audit') /\ audit'[k] = audit[k]
    BY LogGrows
  <1> QED BY <1>1, <1>2 DEF Receipted

\* In an empty box nothing is tied to anything.
LEMMA ReceiptInit == Init => ReceiptInv
  <1> SUFFICES ASSUME Init PROVE ReceiptInv
    OBVIOUS
  <1>1. ASSUME NEW i \in Ids, NEW c \in Contents PROVE ~Tied(i, c)
    BY QueueAssumption DEF Init, CallInit, QueueInit, IdleCall, Tied
  <1> QED BY <1>1, TypeInit DEF ReceiptInv, TiedIsReceipted

\* Every step keeps receipts behind what is tied.
LEMMA ReceiptStep ==
  ASSUME QueueAssumption, ForgetAssumption, ReceiptInv, [Next]_vars
  PROVE  ReceiptInv'
  <1>1. TypeInv /\ TypeInv'
    BY TypeStep DEF ReceiptInv
  <1>2. ASSUME NEW i \in Ids, NEW c \in Contents, Tied(i, c)'
        PROVE  Receipted(audit', i, c)
    <2>1. CASE Tied(i, c)
      BY <1>1, <2>1, ReceiptsStay DEF ReceiptInv, TiedIsReceipted
    <2>2. ASSUME NEW w \in Calls, GateClaims(w), call[w].id = i, queue[i].bytes = c
          PROVE  Receipted(audit', i, c)
      <3>1. Receipted(audit, i, c)
        BY <2>2 DEF GateClaims, ReceiptVerifies, Attests, BytesAsApproved, Receipted, Approves
      <3> QED BY <1>1, <3>1, ReceiptsStay
    <2> QED BY <1>1, <1>2, <2>1, <2>2, TiedSteps
  <1> QED BY <1>1, <1>2 DEF ReceiptInv, TiedIsReceipted

\* The inductive receipt invariant holds in every state.
THEOREM ReceiptsCorrect == Spec => []ReceiptInv
  <1>1. ReceiptInv /\ [Next]_vars => ReceiptInv'
    BY ReceiptStep, QueueAssumption, ForgetAssumption
  <1> QED BY <1>1, ReceiptInit, PTL DEF Spec

\* Nothing is durable without a receipt, however calls, crashes, expired
\* leases, hand edits, lost answers and forgets interleave: the finalizer's
\* gate and the order of append, stamp, claim and write suffice for it.
THEOREM ReceiptSafety == Spec => []DurableIsReceipted
  <1>1. ReceiptInv => DurableIsReceipted
    BY DEF ReceiptInv, TypeInv, TypeOK, QueueTypeOK, TiedIsReceipted, Tied, Receipted,
       DurableIsReceipted
  <1> QED BY <1>1, ReceiptsCorrect, PTL

-----------------------------------------------------------------------------
(* A decision is final *)

DecidedRow(r) == r.status \in {"approved", "rejected", "purged"}

\* Row s shows the decision of row r.
SameDecision(r, s) ==
    s.status = r.status /\ s.via = r.via /\ s.receipt = r.receipt /\ s.sha = r.sha

\* Neither the finalizer nor a claim changes the decision on a row.
LEMMA FinalizerKeepsDecision ==
  ASSUME NEW r \in Rows
  PROVE  /\ SameDecision(r, r)
         /\ SameDecision(r, ForgetRow(r))
         /\ SameDecision(r, MarkFailed(r))
         /\ SameDecision(r, [r EXCEPT !.fin = "failed"])
         /\ SameDecision(r, [r EXCEPT !.stale = TRUE])
         /\ \A c \in Contents : SameDecision(r, [r EXCEPT !.bytes = c])
         /\ \A w \in Calls : SameDecision(r, ClaimRow(r, w))
         /\ \A w \in Calls, h \in Contents : SameDecision(r, RecordRow(r, w, h))
  BY DEF Rows, SameDecision, ForgetRow, MarkFailed, ClaimRow, RecordRow

\* A raw approval of an approved row changes nothing of its decision.
LEMMA RawApproveKeepsDecision ==
  ASSUME NEW r \in Rows, r.status = "approved"
  PROVE  SameDecision(r, ApproveInConn(r, None, 0, None))
  BY DEF Rows, SameDecision, ApproveInConn

\* No step but the purge of a forget changes the decision on a row.
LEMMA RowSteps ==
  ASSUME TypeInv, [Next]_vars, NEW i \in Ids, DecidedRow(queue[i])
  PROVE  queue'[i].status = "purged" \/ SameDecision(queue[i], queue'[i])
  <1> DEFINE Kept == queue'[i].status = "purged" \/ SameDecision(queue[i], queue'[i])
  <1>1. queue \in [Ids -> Rows] /\ queue[i] \in Rows
    BY DEF TypeInv, TypeOK, QueueTypeOK
  <1>2. CASE UNCHANGED queue
    BY <1>1, <1>2, FinalizerKeepsDecision
  <1>3. CASE QueueStep
    <2>1. ASSUME NEW j \in Ids, NEW c \in Contents, Propose(j, c)
          PROVE  Kept
      BY <1>1, <2>1, FinalizerKeepsDecision DEF Propose, DecidedRow
    <2>2. ASSUME NEW j \in Ids, NEW c \in Contents, EditBytes(j, c)
          PROVE  Kept
      <3>1. queue' = [queue EXCEPT ![j] = [queue[j] EXCEPT !.bytes = c]]
        BY <2>2 DEF EditBytes
      <3> QED BY <1>1, <3>1, FinalizerKeepsDecision
    <2>3. ASSUME NEW j \in Ids, RawApprove(j)
          PROVE  Kept
      <3>1. queue' = [queue EXCEPT ![j] = ApproveInConn(queue[j], None, 0, None)]
        BY <2>3 DEF RawApprove
      <3>2. queue[j].status \in {"pending_approval", "approved"}
        BY <2>3 DEF RawApprove, ApprovableInConn
      <3> QED BY <1>1, <3>1, <3>2, FinalizerKeepsDecision, RawApproveKeepsDecision
             DEF DecidedRow
    <2> QED BY <1>3, <2>1, <2>2, <2>3 DEF QueueStep
  <1>4. CASE \E j \in Ids : Expiry(j)
    <2> PICK j \in Ids : Expiry(j)
      BY <1>4
    <2>1. queue' = [queue EXCEPT ![j] = [queue[j] EXCEPT !.stale = TRUE]]
      BY DEF Expiry, LeaseExpires
    <2> QED BY <1>1, <2>1, FinalizerKeepsDecision
  <1>5. ASSUME NEW w \in Calls, CallStep(w)
        PROVE  Kept
    <2>1. call[w] \in CallStates /\ Shaped(call[w])
      BY DEF TypeInv, TypeOK, CallTypeOK, CallShape
    <2>2. CASE StampFresh(w)
      BY <1>1, <2>2, FinalizerKeepsDecision
         DEF StampFresh, FreshRow, Awaiting, Row, DecidedRow
    <2>3. CASE ApplyReject(w)
      BY <1>1, <2>3, FinalizerKeepsDecision
         DEF ApplyReject, RejectableRow, Awaiting, Row, DecidedRow
    <2>4. CASE GateRefuses(w)
      BY <1>1, <2>4, FinalizerKeepsDecision DEF GateRefuses
    <2>5. CASE GateClaims(w)
      BY <1>1, <2>5, FinalizerKeepsDecision DEF GateClaims
    <2>6. CASE Fail(w)
      <3>1. \/ UNCHANGED queue
            \/ queue' = [queue EXCEPT ![call[w].id] = [queue[call[w].id] EXCEPT !.fin = "failed"]]
        BY <2>6 DEF Fail
      <3> QED BY <1>1, <3>1, FinalizerKeepsDecision
    <2>7. CASE Record(w)
      <3>1. call[w].hash \in Contents
        BY <2>1, <2>7 DEF Record, At, Shaped
      <3> QED BY <1>1, <2>7, <3>1, FinalizerKeepsDecision DEF Record
    <2> QED BY <1>2, <1>5, <2>2, <2>3, <2>4, <2>5, <2>6, <2>7
       DEF CallStep, CallCrashes, Decide, ReadCandidate, AppendReject, Sweep, AppendApprove,
           AppendFails, AuthorizeRedrive, RefuseStamp, Finalize, GatePasses, BuildFails,
           CheckClaim, WriteLands, WriteAnswerLost, WriteIsDuplicate, WriteFails,
           LookupFinds, LookupFails, RecordOfOther, RecordOrphan, Outcome, CleanupDeletes,
           CleanupFails, queueVars
  <1>6. ASSUME NEW f \in Forgetters, ForgetStep(f)
        PROVE  Kept
    <2>1. CASE \E by \in ForgetBy, c \in Contents : ForgetClaim(f, by, c)
      BY <1>1, <2>1, FinalizerKeepsDecision DEF ForgetClaim
    <2>2. CASE ForgetPurge(f)
      BY <1>1, <2>2, FinalizerKeepsDecision DEF ForgetPurge, Purged, BlankRow
    <2> QED BY <1>2, <1>6, <2>1, <2>2
       DEF ForgetStep, ForgetCrashes, Forget, ForgetTarget, ForgetResolve, ForgetMapped,
           ForgetLooksUp, ForgetFound, ForgetRaises, ForgetTombstone, queueVars
  <1>7. CASE UNCHANGED vars
    BY <1>2, <1>7 DEF vars, queueVars
  <1> QED BY <1>3, <1>4, <1>5, <1>6, <1>7 DEF Next

\* A decision is final: no redrive, stale claim, second approval, late reject
\* or raw approval changes the verdict on a row, or the receipt it rests on.
THEOREM DecisionFinality == Spec => DecisionIsFinal
  <1> DEFINE Final(i) ==
        queue[i].status \in {"approved", "rejected", "purged"} =>
          \/ queue'[i].status = "purged"
          \/ /\ queue'[i].status = queue[i].status
             /\ queue[i].receipt # 0 => /\ queue'[i].receipt = queue[i].receipt
                                        /\ queue'[i].sha = queue[i].sha
  <1>1. TypeInv /\ [Next]_vars => \A i \in Ids : Final(i)
    BY RowSteps DEF DecidedRow, SameDecision
  <1>2. TypeInv /\ [Next]_vars => [\A i \in Ids : Final(i)]_vars
    BY <1>1
  <1> QED BY <1>2, TypeCorrect, PTL DEF Spec, DecisionIsFinal

-----------------------------------------------------------------------------
(* Durable bytes are the bytes of one stamped approval *)

\* The approval is stamped by the transport for these bytes, or forgotten.
StampedFor(i, c) ==
    \/ queue[i].status = "purged"
    \/ queue[i].status = "approved" /\ queue[i].via = Via /\ queue[i].sha = c

TiedIsStamped == \A i \in Ids, c \in Contents : Tied(i, c) => StampedFor(i, c)

\* An approval is never tied to two contents.  For a forgotten approval its
\* row no longer says to which, so this is part of the invariant.
TiedToOne == \A i \in Ids, c, d \in Contents : Tied(i, c) /\ Tied(i, d) => c = d

StampInv == TypeInv /\ TiedIsStamped /\ TiedToOne

\* In an empty box nothing is tied to anything.
LEMMA StampInit == Init => StampInv
  <1> SUFFICES ASSUME Init PROVE StampInv
    OBVIOUS
  <1>1. ASSUME NEW i \in Ids, NEW c \in Contents PROVE ~Tied(i, c)
    BY QueueAssumption DEF Init, CallInit, QueueInit, IdleCall, Tied
  <1> QED BY <1>1, TypeInit DEF StampInv, TiedIsStamped, TiedToOne

\* The row a call claims is stamped for the bytes it holds.
LEMMA ClaimedIsStamped ==
  ASSUME NEW w \in Calls, GateClaims(w)
  PROVE  LET r == queue[call[w].id] IN
         r.status = "approved" /\ r.via = Via /\ r.sha = r.bytes
  BY DEF GateClaims, Finalizable, ReceiptVerifies, BytesAsApproved, Row

\* Every step keeps durable bytes and claimed bytes stamped.
LEMMA StampStep ==
  ASSUME QueueAssumption, ForgetAssumption, StampInv, [Next]_vars
  PROVE  StampInv'
  <1>1. TypeInv /\ TypeInv'
    BY TypeStep DEF StampInv
  <1>2. ASSUME NEW i \in Ids, NEW c \in Contents, Tied(i, c)'
        PROVE  /\ StampedFor(i, c)
               /\ Tied(i, c) \/ queue[i].status = "approved"
    <2>1. CASE Tied(i, c)
      BY <2>1 DEF StampInv, TiedIsStamped
    <2>2. ASSUME NEW w \in Calls, GateClaims(w), call[w].id = i, queue[i].bytes = c
          PROVE  queue[i].status = "approved" /\ StampedFor(i, c)
      BY <2>2, ClaimedIsStamped DEF StampedFor
    <2> QED BY <1>1, <1>2, <2>1, <2>2, TiedSteps
  <1>3. TiedIsStamped'
    <2> SUFFICES ASSUME NEW i \in Ids, NEW c \in Contents, Tied(i, c)'
                 PROVE  StampedFor(i, c)'
      BY DEF TiedIsStamped
    <2>1. StampedFor(i, c)
      BY <1>2
    <2>2. queue'[i].status = "purged" \/ SameDecision(queue[i], queue'[i])
      BY <1>1, <2>1, RowSteps DEF StampedFor, DecidedRow
    <2> QED BY <2>1, <2>2 DEF StampedFor, SameDecision
  <1>4. TiedToOne'
    <2> SUFFICES ASSUME NEW i \in Ids, NEW c \in Contents, NEW d \in Contents,
                        Tied(i, c)', Tied(i, d)'
                 PROVE  c = d
      BY DEF TiedToOne
    <2>1. CASE Tied(i, c) /\ Tied(i, d)
      BY <2>1 DEF StampInv, TiedToOne
    <2>2. CASE queue[i].status = "approved"
      <3>1. StampedFor(i, c) /\ StampedFor(i, d)
        BY <1>2
      <3> QED BY <2>2, <3>1 DEF StampedFor
    <2> QED BY <1>2, <2>1, <2>2
  <1> QED BY <1>1, <1>3, <1>4 DEF StampInv

\* The inductive stamp invariant holds in every state.
THEOREM StampsCorrect == Spec => []StampInv
  <1>1. StampInv /\ [Next]_vars => StampInv'
    BY StampStep, QueueAssumption, ForgetAssumption
  <1> QED BY <1>1, StampInit, PTL DEF Spec

\* A durable row belongs to an approval that the transport stamped for these
\* very bytes, or that was forgotten since: never to a rejected, a waiting or
\* a raw-approved candidate, and never to bytes edited after the decision.
THEOREM StampSafety == Spec => []DurableIsStamped
  <1>1. StampInv => DurableIsStamped
    BY DEF StampInv, TypeInv, TypeOK, QueueTypeOK, TiedIsStamped, Tied, StampedFor,
       DurableIsStamped
  <1> QED BY <1>1, StampsCorrect, PTL

\* However often an approval is redriven, and whoever edits its bytes in
\* between, at most one durable row carries its marker, so the lookup by
\* marker of a retried write and of a forget is never ambiguous.
THEOREM OneDurable == Spec => []OneDurablePerApproval
  <1>1. ASSUME StampInv, NEW i \in Ids
        PROVE  Cardinality(MarkedBy(i)) <= 1
    <2>1. \A c, d \in MarkedBy(i) : c = d
      BY <1>1 DEF StampInv, TiedToOne, Tied, MarkedBy
    <2>2. CASE MarkedBy(i) = {}
      BY <2>2, FS_EmptySet
    <2>3. ASSUME NEW c \in MarkedBy(i)
          PROVE  Cardinality(MarkedBy(i)) <= 1
      <3>1. MarkedBy(i) = {c}
        BY <2>1
      <3>2. Cardinality({c}) = 1
        BY FS_Singleton
      <3> QED BY <3>1, <3>2
    <2> QED BY <2>2, <2>3
  <1>2. StampInv => OneDurablePerApproval
    BY <1>1 DEF OneDurablePerApproval
  <1> QED BY <1>2, StampsCorrect, PTL

-----------------------------------------------------------------------------
(* The rows of the queue *)

\* The steps that change row i, and who takes them: somebody at the queue, ...
HandlesRow(i) ==
    \/ \E c \in Contents : Propose(i, c) \/ EditBytes(i, c)
    \/ RawApprove(i) \/ LeaseExpires(i)

\* ... a call that works on the approval, ...
WorksOnRow(w, i) ==
    /\ call[w].id = i
    /\ \/ StampFresh(w) \/ ApplyReject(w)
       \/ GateRefuses(w) \/ GateClaims(w) \/ Fail(w) \/ Record(w)

\* ... or a forget whose target the row matches.
TakesRow(f, i) ==
    \E by \in ForgetBy, c \in Contents : ForgetClaim(f, by, c) /\ i \in Matched(by, c)

DropsRow(f, i) == ForgetPurge(f) /\ i \in Matched(forget[f].by, forget[f].target)

\* Nothing else changes it.
LEMMA RowActions ==
  ASSUME TypeInv, [Next]_vars, NEW i \in Ids
  PROVE  \/ queue'[i] = queue[i]
         \/ HandlesRow(i)
         \/ \E w \in Calls : WorksOnRow(w, i)
         \/ \E f \in Forgetters : TakesRow(f, i) \/ DropsRow(f, i)
  <1> queue \in [Ids -> Rows]
    BY DEF TypeInv, TypeOK, QueueTypeOK
  <1>1. CASE QueueStep
    BY <1>1 DEF QueueStep, HandlesRow, Propose, EditBytes, RawApprove
  <1>2. CASE \E j \in Ids : Expiry(j)
    BY <1>2 DEF Expiry, HandlesRow, LeaseExpires
  <1>3. ASSUME NEW w \in Calls, CallStep(w), queue'[i] # queue[i]
        PROVE  WorksOnRow(w, i)
    <2>1. CASE StampFresh(w) \/ GateRefuses(w) \/ GateClaims(w) \/ Record(w)
      BY <1>3, <2>1 DEF WorksOnRow, StampFresh, GateRefuses, GateClaims, Record
    <2>2. CASE ApplyReject(w) \/ Fail(w)
      BY <1>3, <2>2 DEF WorksOnRow, ApplyReject, Fail
    <2> QED BY <1>3, <2>1, <2>2
       DEF CallStep, CallCrashes, Decide, ReadCandidate, AppendReject, Sweep, AppendApprove,
           AppendFails, AuthorizeRedrive, RefuseStamp, Finalize, GatePasses, BuildFails,
           CheckClaim, WriteLands, WriteAnswerLost, WriteIsDuplicate, WriteFails,
           LookupFinds, LookupFails, RecordOfOther, RecordOrphan, Outcome, CleanupDeletes,
           CleanupFails, queueVars
  <1>4. ASSUME NEW f \in Forgetters, ForgetStep(f), queue'[i] # queue[i]
        PROVE  TakesRow(f, i) \/ DropsRow(f, i)
    <2>1. CASE \E by \in ForgetBy, c \in Contents : ForgetClaim(f, by, c)
      BY <1>4, <2>1 DEF TakesRow, ForgetClaim
    <2>2. CASE ForgetPurge(f)
      BY <1>4, <2>2 DEF DropsRow, ForgetPurge, Purged
    <2> QED BY <1>4, <2>1, <2>2
       DEF ForgetStep, ForgetCrashes, Forget, ForgetTarget, ForgetResolve, ForgetMapped,
           ForgetLooksUp, ForgetFound, ForgetRaises, ForgetTombstone, queueVars
  <1>5. CASE UNCHANGED vars
    BY <1>5 DEF vars, queueVars
  <1> QED BY <1>1, <1>2, <1>3, <1>4, <1>5 DEF Next

\* The finalizer, an expired lease and the claim of a forget leave the
\* decision and the bytes of a row as they are.
SameApproval(r, s) == SameDecision(r, s) /\ s.bytes = r.bytes

UpkeepMakes(r, s) ==
    \/ s = r \/ s = ForgetRow(r) \/ s = MarkFailed(r)
    \/ s = [r EXCEPT !.fin = "failed"] \/ s = [r EXCEPT !.stale = TRUE]
    \/ \E w \in Calls : s = ClaimRow(r, w) \/ \E h \in Contents : s = RecordRow(r, w, h)

LEMMA UpkeepKeepsApproval ==
  ASSUME NEW r \in Rows, NEW s, UpkeepMakes(r, s)
  PROVE  s \in Rows /\ SameApproval(r, s)
  <1>1. s \in Rows
    BY FinalizerRowTypes DEF UpkeepMakes
  <1>2. s.bytes = r.bytes
    BY DEF Rows, UpkeepMakes, ForgetRow, MarkFailed, ClaimRow, RecordRow
  <1> QED BY <1>1, <1>2, FinalizerKeepsDecision DEF UpkeepMakes, SameApproval

\* Those steps make no other rows.
LEMMA UpkeepSteps ==
  ASSUME TypeInv, NEW i \in Ids,
         \/ LeaseExpires(i)
         \/ \E w \in Calls : /\ call[w].id = i
                             /\ GateRefuses(w) \/ GateClaims(w) \/ Fail(w) \/ Record(w)
         \/ \E f \in Forgetters : TakesRow(f, i)
  PROVE  UpkeepMakes(queue[i], queue'[i])
  <1> queue \in [Ids -> Rows]
    BY DEF TypeInv, TypeOK, QueueTypeOK
  <1>1. CASE LeaseExpires(i)
    <2>1. queue' = [queue EXCEPT ![i] = [queue[i] EXCEPT !.stale = TRUE]]
      BY <1>1 DEF LeaseExpires
    <2> QED BY <2>1 DEF UpkeepMakes
  <1>2. ASSUME NEW w \in Calls, call[w].id = i,
               GateRefuses(w) \/ GateClaims(w) \/ Fail(w) \/ Record(w)
        PROVE  UpkeepMakes(queue[i], queue'[i])
    <2>1. CASE GateRefuses(w)
      BY <1>2, <2>1 DEF GateRefuses, UpkeepMakes
    <2>2. CASE GateClaims(w)
      BY <1>2, <2>2 DEF GateClaims, UpkeepMakes
    <2>3. CASE Fail(w)
      <3>1. \/ UNCHANGED queue
            \/ queue' = [queue EXCEPT ![i] = [queue[i] EXCEPT !.fin = "failed"]]
        BY <1>2, <2>3 DEF Fail
      <3> QED BY <3>1 DEF UpkeepMakes
    <2>4. CASE Record(w)
      <3>1. call[w].hash \in Contents
        BY <2>4 DEF TypeInv, CallShape, Shaped, Record, At
      <3> QED BY <1>2, <2>4, <3>1 DEF Record, UpkeepMakes
    <2> QED BY <1>2, <2>1, <2>2, <2>3, <2>4
  <1>3. ASSUME NEW f \in Forgetters, TakesRow(f, i)
        PROVE  UpkeepMakes(queue[i], queue'[i])
    <2>1. queue'[i] = ForgetRow(queue[i])
      BY <1>3 DEF TakesRow, ForgetClaim
    <2> QED BY <2>1 DEF UpkeepMakes
  <1> QED BY <1>1, <1>2, <1>3

-----------------------------------------------------------------------------
(* The box implements GovernedMemory *)

\* A row that waits or was rejected is bound to no bytes, and one that exists
\* holds some.
SettledRow(r) ==
    /\ Exists(r) => r.bytes \in Contents
    /\ r.status # "approved" => r.sha = None

RowsSettled == \A i \in Ids : SettledRow(queue[i])

\* Every transaction on the queue leaves settled rows.
LEMMA SettledStays ==
  ASSUME TypeInv, RowsSettled, [Next]_vars, NEW i \in Ids
  PROVE  SettledRow(queue'[i])
  <1> DEFINE r == queue[i]
  <1>1. queue \in [Ids -> Rows] /\ r \in Rows /\ SettledRow(r)
    BY DEF TypeInv, TypeOK, QueueTypeOK, RowsSettled
  <1>2. \A s \in Rows : SameApproval(r, s) => SettledRow(s)
    BY <1>1 DEF SettledRow, Exists, SameApproval, SameDecision
  <1>3. CASE HandlesRow(i)
    <2>1. ASSUME NEW c \in Contents, Propose(i, c)
          PROVE  SettledRow(queue'[i])
      BY <1>1, <2>1 DEF Propose, BlankRow, SettledRow
    <2>2. ASSUME NEW c \in Contents, EditBytes(i, c)
          PROVE  SettledRow(queue'[i])
      BY <1>1, <2>2 DEF EditBytes, SettledRow, Rows
    <2>3. CASE RawApprove(i)
      BY <1>1, <2>3 DEF RawApprove, ApproveInConn, ApprovableInConn, SettledRow, Exists, Rows
    <2>4. CASE LeaseExpires(i)
      BY <1>1, <1>2, <2>4, UpkeepSteps, UpkeepKeepsApproval
    <2> QED BY <1>3, <2>1, <2>2, <2>3, <2>4 DEF HandlesRow
  <1>4. ASSUME NEW w \in Calls, WorksOnRow(w, i)
        PROVE  SettledRow(queue'[i])
    <2>1. CASE StampFresh(w)
      BY <1>1, <1>4, <2>1
         DEF WorksOnRow, StampFresh, FreshRow, Awaiting, Row, ApproveInConn, SettledRow, Exists,
             Rows
    <2>2. CASE ApplyReject(w)
      BY <1>1, <1>4, <2>2
         DEF WorksOnRow, ApplyReject, RejectableRow, Awaiting, Row, SettledRow, Exists, Rows
    <2>3. CASE GateRefuses(w) \/ GateClaims(w) \/ Fail(w) \/ Record(w)
      BY <1>1, <1>2, <1>4, <2>3, UpkeepSteps, UpkeepKeepsApproval
         DEF WorksOnRow
    <2> QED BY <1>4, <2>1, <2>2, <2>3 DEF WorksOnRow
  <1>5. ASSUME NEW f \in Forgetters, TakesRow(f, i) \/ DropsRow(f, i)
        PROVE  SettledRow(queue'[i])
    <2>1. CASE TakesRow(f, i)
      BY <1>1, <1>2, <2>1, UpkeepSteps, UpkeepKeepsApproval
    <2>2. CASE DropsRow(f, i)
      BY <1>1, <2>2 DEF DropsRow, ForgetPurge, Purged, BlankRow, SettledRow, Exists
    <2> QED BY <1>5, <2>1, <2>2
  <1> QED BY <1>1, <1>3, <1>4, <1>5, RowActions

\* A decision is in a log.
OnRecord(log, i, verdict, c) ==
    \E k \in 1 .. Len(log) :
        /\ log[k].op = "approval_decision" /\ log[k].target = i
        /\ log[k].decision = verdict /\ log[k].sha = c

\* The ledger of GovernedMemory is the set of decisions in the log.
LEMMA LedgerIsLog ==
  ASSUME NEW i, NEW verdict, NEW c
  PROVE  <<i, verdict, c>> \in DecisionsOnRecord <=> OnRecord(audit, i, verdict, c)
  BY DEF DecisionsOnRecord, OnRecord

\* A record that is appended to the log is the only new one.
LEMMA RecordIsOnLedger ==
  ASSUME TypeInv, NEW rec \in AuditRecords, AuditAppend(rec)
  PROVE  DecisionsOnRecord' =
           DecisionsOnRecord \cup
             (IF rec.op = "approval_decision" THEN {<<rec.target, rec.decision, rec.sha>>}
              ELSE {})
  <1>1. audit \in Seq(AuditRecords) /\ audit' = Append(audit, rec)
    BY DEF TypeInv, TypeOK, QueueTypeOK, AuditAppend
  <1>2. /\ Len(audit) \in Nat /\ Len(audit') = Len(audit) + 1
        /\ audit'[Len(audit) + 1] = rec
        /\ \A k \in 1 .. Len(audit) : audit'[k] = audit[k]
    BY <1>1, AppendProperties, LenProperties
  <1>3. 1 .. Len(audit') = 1 .. Len(audit) \cup {Len(audit) + 1}
    BY <1>2
  <1> QED BY <1>2, <1>3 DEF DecisionsOnRecord

\* A decision stays on record.
LEMMA RecordsStay ==
  ASSUME TypeInv, [Next]_vars, NEW i, NEW verdict, NEW c, OnRecord(audit, i, verdict, c)
  PROVE  OnRecord(audit', i, verdict, c)
  <1>1. PICK k \in 1 .. Len(audit) : /\ audit[k].op = "approval_decision"
                                     /\ audit[k].target = i /\ audit[k].decision = verdict
                                     /\ audit[k].sha = c
    BY DEF OnRecord
  <1>2. k \in 1 .. Len(audit') /\ audit'[k] = audit[k]
    BY LogGrows
  <1> QED BY <1>1, <1>2 DEF OnRecord

\* A call works on an approval that was proposed, and applies a decision only
\* after it put that decision on record.
Announced(s) ==
    /\ s.pc # "idle" => queue[s.id].status # "unused"
    /\ s.pc \in {"read", "appended"} => s.sha \in Contents
    /\ s.pc = "appended" => OnRecord(audit, s.id, "approve", s.sha)
    /\ s.pc = "rejecting" => OnRecord(audit, s.id, "reject", None)

CallsAnnounced == \A w \in Calls : Announced(call[w])

\* An approval once proposed never becomes a free id again.
LEMMA ProposedStays ==
  ASSUME TypeInv, [Next]_vars, NEW i \in Ids, queue[i].status # "unused"
  PROVE  queue'[i].status # "unused"
  <1> queue \in [Ids -> Rows] /\ queue[i] \in Rows
    BY DEF TypeInv, TypeOK, QueueTypeOK
  <1>1. CASE DecidedRow(queue[i])
    BY <1>1, RowSteps DEF DecidedRow, SameDecision
  <1>2. CASE queue[i].status = "pending_approval"
    <2>1. ASSUME NEW s, UpkeepMakes(queue[i], s)
          PROVE  s.status # "unused"
      BY <1>2, <2>1, UpkeepKeepsApproval DEF SameApproval, SameDecision
    <2>2. CASE HandlesRow(i)
      <3>1. ASSUME NEW c \in Contents, EditBytes(i, c)
            PROVE  queue'[i].status # "unused"
        <4>1. queue'[i] = [queue[i] EXCEPT !.bytes = c]
          BY <3>1 DEF EditBytes
        <4> QED BY <1>2, <4>1 DEF Rows
      <3>2. CASE RawApprove(i)
        <4>1. queue'[i] = ApproveInConn(queue[i], None, 0, None)
          BY <3>2 DEF RawApprove
        <4> QED BY <1>2, <4>1 DEF ApproveInConn, Rows
      <3> QED BY <1>2, <2>1, <2>2, <3>1, <3>2, UpkeepSteps DEF HandlesRow, Propose
    <2>3. ASSUME NEW w \in Calls, WorksOnRow(w, i)
          PROVE  queue'[i].status # "unused"
      <3>1. CASE StampFresh(w)
        <4>1. queue'[i] = ApproveInConn(queue[i], Via, call[w].seq, call[w].sha)
          BY <2>3, <3>1 DEF WorksOnRow, StampFresh
        <4> QED BY <1>2, <4>1 DEF ApproveInConn, Rows
      <3>2. CASE ApplyReject(w)
        BY <1>2, <2>3, <3>2 DEF WorksOnRow, ApplyReject, Rows
      <3> QED BY <2>1, <2>3, <3>1, <3>2, UpkeepSteps DEF WorksOnRow
    <2>4. ASSUME NEW f \in Forgetters, TakesRow(f, i) \/ DropsRow(f, i)
          PROVE  queue'[i].status # "unused"
      BY <2>1, <2>4, UpkeepSteps DEF DropsRow, ForgetPurge, Purged, BlankRow
    <2> QED BY <1>2, <2>2, <2>3, <2>4, RowActions
  <1> QED BY <1>1, <1>2 DEF DecidedRow, Rows, Statuses

\* Every step of a call keeps it announced.
LEMMA AnnouncedStays ==
  ASSUME QueueAssumption, TypeInv, RowsSettled, CallsAnnounced, [Next]_vars, NEW w \in Calls
  PROVE  Announced(call[w])'
  <1> call \in [Calls -> CallStates] /\ call[w] \in CallStates /\ Shaped(call[w])
    BY DEF TypeInv, TypeOK, CallTypeOK, CallShape
  <1> Announced(call[w])
    BY DEF CallsAnnounced
  <1>0. call[w].pc # "idle" => /\ call[w].id \in Ids
                               /\ queue[call[w].id].status # "unused"
                               /\ queue'[call[w].id].status # "unused"
    BY ProposedStays DEF Announced, Shaped
  <1>1. CASE call'[w] = call[w]
    BY <1>0, <1>1, RecordsStay DEF Announced
  <1>2. CASE call'[w] = IdleCall
    BY <1>2 DEF IdleCall, Announced
  <1>3. CASE Decide(w)
    <2>1. ASSUME NEW i \in Ids, ReadCandidate(w, i)
          PROVE  Announced(call[w])'
      <3>1. call'[w].pc = "read" /\ call'[w].id = i /\ call'[w].sha = queue[i].bytes
        BY <2>1 DEF ReadCandidate, IdleCall
      <3>2. Exists(queue[i]) /\ queue'[i] = queue[i]
        BY <2>1 DEF ReadCandidate, queueVars
      <3> QED BY <3>1, <3>2 DEF RowsSettled, SettledRow, Exists, Announced
    <2>2. ASSUME NEW i \in Ids, AppendReject(w, i)
          PROVE  Announced(call[w])'
      <3>1. call'[w].pc = "rejecting" /\ call'[w].id = i
        BY <2>2 DEF AppendReject, IdleCall
      <3>2. queue'[i].status # "unused" /\ AuditAppend(DecisionRecord(i, "reject", None))
        BY <2>2 DEF AppendReject
      <3>3. DecisionRecord(i, "reject", None) \in AuditRecords
        BY DEF DecisionRecord, AuditRecords, AuditOps, Decisions
      <3>4. <<i, "reject", None>> \in DecisionsOnRecord'
        BY <3>2, <3>3, RecordIsOnLedger DEF DecisionRecord
      <3>5. OnRecord(audit', i, "reject", None)
        BY <3>4 DEF DecisionsOnRecord, OnRecord
      <3> QED BY <3>1, <3>2, <3>5 DEF Announced
    <2>3. ASSUME NEW i \in Ids, Sweep(w, i)
          PROVE  Announced(call[w])'
      <3>1. call'[w].pc = "gate" /\ call'[w].id = i
        BY <2>3 DEF Sweep, IdleCall
      <3>2. queue[i].status # "unused" /\ queue'[i] = queue[i]
        BY <2>3 DEF Sweep, SweepRow, queueVars
      <3> QED BY <3>1, <3>2 DEF Announced
    <2>4. CASE AppendApprove(w)
      <3>1. /\ call'[w].pc = "appended" /\ call'[w].id = call[w].id
            /\ call'[w].sha = call[w].sha
        <4>1. call'[w] = [call[w] EXCEPT !.pc = "appended", !.seq = Len(audit) + 1]
          BY <2>4 DEF AppendApprove
        <4> QED BY <4>1 DEF CallStates
      <3>2. call[w].pc = "read" /\ call[w].sha \in Contents /\ call[w].id \in Ids
        BY <1>0, <2>4 DEF AppendApprove, At, Announced
      <3>3. DecisionRecord(call[w].id, "approve", call[w].sha) \in AuditRecords
        BY <3>2 DEF DecisionRecord, AuditRecords, AuditOps, Decisions
      <3>4. <<call[w].id, "approve", call[w].sha>> \in DecisionsOnRecord'
        BY <2>4, <3>3, RecordIsOnLedger DEF AppendApprove, DecisionRecord
      <3>5. OnRecord(audit', call[w].id, "approve", call[w].sha)
        BY <3>4 DEF DecisionsOnRecord, OnRecord
      <3> QED BY <1>0, <3>1, <3>2, <3>5 DEF Announced
    <2>5. CASE AuthorizeRedrive(w) \/ StampFresh(w)
      <3>1. call'[w].pc = "gate" /\ call'[w].id = call[w].id /\ call[w].pc # "idle"
        BY <2>5 DEF AuthorizeRedrive, StampFresh, Goto, At, CallStates
      <3> QED BY <1>0, <3>1 DEF Announced
    <2>6. CASE AppendFails(w) \/ RefuseStamp(w) \/ ApplyReject(w)
      BY <1>2, <2>6 DEF AppendFails, RefuseStamp, ApplyReject, Return
    <2> QED BY <1>3, <2>1, <2>2, <2>3, <2>4, <2>5, <2>6 DEF Decide
  <1>4. CASE Finalize(w)
    <2>1. \/ call'[w] = IdleCall
          \/ /\ call'[w].id = call[w].id /\ call[w].pc # "idle"
             /\ call'[w].pc \notin {"read", "appended", "rejecting"}
      BY <1>4, FinalizeStages
    <2> QED BY <1>0, <1>2, <2>1 DEF Announced
  <1> QED BY <1>1, <1>2, <1>3, <1>4, CallSteps

\* The invariant of the refinement: receipts and stamps, as above, and calls
\* whose decisions are on record.
MemoryInv == ReceiptInv /\ StampInv /\ RowsSettled /\ CallsAnnounced

LEMMA MemoryStarts == Init => MemoryInv
  <1> SUFFICES ASSUME Init PROVE RowsSettled /\ CallsAnnounced
    BY ReceiptInit, StampInit DEF MemoryInv
  <1>1. RowsSettled
    BY DEF Init, QueueInit, BlankRow, RowsSettled, SettledRow, Exists
  <1>2. CallsAnnounced
    BY DEF Init, CallInit, IdleCall, CallsAnnounced, Announced
  <1> QED BY <1>1, <1>2

LEMMA MemoryStays ==
  ASSUME QueueAssumption, ForgetAssumption, MemoryInv, [Next]_vars
  PROVE  MemoryInv'
  <1>1. ReceiptInv' /\ StampInv'
    BY ReceiptStep, StampStep DEF MemoryInv
  <1>2. RowsSettled'
    BY SettledStays DEF MemoryInv, StampInv, RowsSettled
  <1>3. CallsAnnounced'
    BY AnnouncedStays DEF MemoryInv, StampInv, CallsAnnounced
  <1> QED BY <1>1, <1>2, <1>3 DEF MemoryInv

\* What GovernedMemory sees of the queue.
Phase == [i \in Ids |-> PhaseOf(queue[i])]
Bound == [i \in Ids |-> queue[i].sha]

SameView(r, s) == s.status = r.status /\ s.sha = r.sha

\* Rows that keep their status and their receipt look the same to it.
LEMMA ViewStays ==
  ASSUME \A i \in Ids : SameView(queue[i], queue'[i])
  PROVE  Phase' = Phase /\ Bound' = Bound
  <1>1. \A i \in Ids : PhaseOf(queue'[i]) = PhaseOf(queue[i]) /\ queue'[i].sha = queue[i].sha
    BY DEF PhaseOf, SameView
  <1> QED BY <1>1 DEF Phase, Bound

\* So do all rows that only one upkeep step changes.
LEMMA UpkeepKeepsView ==
  ASSUME TypeInv, \A i \in Ids : UpkeepMakes(queue[i], queue'[i])
  PROVE  Phase' = Phase /\ Bound' = Bound
  <1>1. \A i \in Ids : SameView(queue[i], queue'[i])
    BY UpkeepKeepsApproval DEF TypeInv, TypeOK, QueueTypeOK, SameApproval, SameDecision, SameView
  <1> QED BY <1>1, ViewStays

\* One row moves to another phase.
LEMMA ViewMoves ==
  ASSUME TypeInv, NEW i \in Ids, NEW s, queue' = [queue EXCEPT ![i] = s]
  PROVE  /\ Phase' = [Phase EXCEPT ![i] = PhaseOf(s)]
         /\ Bound' = [Bound EXCEPT ![i] = s.sha]
  BY DEF TypeInv, TypeOK, QueueTypeOK, Phase, Bound

\* The abstract variables.
View == <<Phase, Bound, DecisionsOnRecord, store>>

LEMMA ViewIsAbstract ==
  /\ View = Abstract!memoryVars
  /\ View' = Abstract!memoryVars'
  BY DEF View, Phase, Bound, Abstract!memoryVars

\* A transaction on the queue that no call runs.
LEMMA QueueRefines ==
  ASSUME QueueAssumption, MemoryInv, QueueStep
  PROVE  Abstract!MemoryNext \/ UNCHANGED View
  <1>1. TypeInv /\ queue \in [Ids -> Rows]
    BY DEF MemoryInv, StampInv, TypeInv, TypeOK, QueueTypeOK
  <1>2. DecisionsOnRecord' = DecisionsOnRecord /\ store' = store
    BY DEF QueueStep, Propose, EditBytes, RawApprove, DecisionsOnRecord
  <1>3. ASSUME NEW i \in Ids, NEW c \in Contents, Propose(i, c)
        PROVE  Abstract!Suggest(i)
    <2> DEFINE s == [BlankRow("pending_approval") EXCEPT !.bytes = c, !.drawer = c]
    <2>1. queue' = [queue EXCEPT ![i] = s] /\ queue[i].status = "unused"
      BY <1>3 DEF Propose
    <2>2. s.status = "pending_approval" /\ s.sha = None /\ queue[i].sha = None
      BY <2>1 DEF BlankRow, MemoryInv, RowsSettled, SettledRow
    <2>3. Phase' = [Phase EXCEPT ![i] = "awaiting"] /\ Bound' = Bound
      BY <1>1, <2>1, <2>2, ViewMoves DEF PhaseOf, Bound
    <2> QED BY <1>2, <2>1, <2>3 DEF Abstract!Suggest, Phase, Bound, PhaseOf
  <1>4. ASSUME NEW i \in Ids, NEW c \in Contents, EditBytes(i, c)
        PROVE  UNCHANGED View
    <2>1. queue' = [queue EXCEPT ![i] = [queue[i] EXCEPT !.bytes = c]]
      BY <1>4 DEF EditBytes
    <2>2. \A j \in Ids : SameView(queue[j], queue'[j])
      BY <1>1, <2>1 DEF SameView, Rows
    <2> QED BY <1>2, <2>2, ViewStays DEF View
  <1>5. ASSUME NEW i \in Ids, RawApprove(i)
        PROVE  Abstract!ApproveUnrecorded(i) \/ UNCHANGED View
    <2> DEFINE s == ApproveInConn(queue[i], None, 0, None)
    <2>1. queue' = [queue EXCEPT ![i] = s]
      BY <1>5 DEF RawApprove
    <2>2. CASE queue[i].status = "approved"
      <3>1. s.status = "approved" /\ s.sha = queue[i].sha
        BY <1>1, <2>2 DEF ApproveInConn, Rows
      <3>2. \A j \in Ids : SameView(queue[j], queue'[j])
        BY <1>1, <2>1, <2>2, <3>1 DEF SameView
      <3> QED BY <1>2, <3>2, ViewStays DEF View
    <2>3. CASE queue[i].status = "pending_approval"
      <3>1. s.status = "approved" /\ s.sha = None /\ queue[i].sha = None
        BY <1>1, <2>3 DEF ApproveInConn, Rows, MemoryInv, RowsSettled, SettledRow
      <3>2. Phase' = [Phase EXCEPT ![i] = "approved"] /\ Bound' = Bound
        BY <1>1, <2>1, <3>1, ViewMoves DEF PhaseOf, Bound
      <3> QED BY <1>2, <2>3, <3>2 DEF Abstract!ApproveUnrecorded, Phase, Bound, PhaseOf
    <2> QED BY <1>5, <2>2, <2>3 DEF RawApprove, ApprovableInConn
  <1> QED BY <1>3, <1>4, <1>5 DEF QueueStep, Abstract!MemoryNext

\* A DELETE erases one row of the store, or none.
LEMMA DeleteErases ==
  ASSUME TypeInv, NEW h, NEW says, StoreDelete(h, says),
         UNCHANGED <<Phase, Bound, DecisionsOnRecord>>
  PROVE  (\E c \in Contents : Abstract!Erase(c)) \/ UNCHANGED View
  <1> store \in [Contents -> Ids \cup {None}]
    BY DEF TypeInv, TypeOK, QueueTypeOK
  <1>1. store' = store \/ store' = [store EXCEPT ![h] = None]
    BY DEF StoreDelete, Removed
  <1>2. CASE store' = store
    BY <1>2 DEF View
  <1>3. CASE h \in Contents /\ store[h] # None /\ store' = [store EXCEPT ![h] = None]
    <2>1. Abstract!Erase(h)
      BY <1>3 DEF Abstract!Erase, Phase, Bound
    <2> QED BY <1>3, <2>1
  <1>4. CASE ~(h \in Contents /\ store[h] # None)
    <2>1. [store EXCEPT ![h] = None] = store
      BY <1>4
    <2> QED BY <1>1, <1>2, <2>1
  <1> QED BY <1>1, <1>2, <1>3, <1>4

\* A decision that is put on record.
LEMMA AppendRefines ==
  ASSUME MemoryInv, NEW i \in Ids, NEW verdict \in {"approve", "reject"},
         NEW c \in Contents \cup {None}, queue[i].status # "unused",
         AuditAppend(DecisionRecord(i, verdict, c)), UNCHANGED <<queue, store>>
  PROVE  Abstract!PutOnRecord(i, verdict, c)
  <1>1. DecisionRecord(i, verdict, c) \in AuditRecords
    BY DEF DecisionRecord, AuditRecords, AuditOps, Decisions
  <1>2. DecisionsOnRecord' = DecisionsOnRecord \cup {<<i, verdict, c>>}
    BY <1>1, RecordIsOnLedger DEF MemoryInv, StampInv, DecisionRecord
  <1>3. queue[i].status \in Statuses
    BY DEF MemoryInv, StampInv, TypeInv, TypeOK, QueueTypeOK, Rows
  <1>4. PhaseOf(queue[i]) # "unproposed"
    BY <1>3 DEF PhaseOf, Statuses
  <1> QED BY <1>2, <1>4 DEF Abstract!PutOnRecord

\* Approve, reject and the sweep.
LEMMA DecideRefines ==
  ASSUME QueueAssumption, MemoryInv, NEW w \in Calls, Decide(w)
  PROVE  Abstract!MemoryNext \/ UNCHANGED View
  <1> DEFINE i == call[w].id
             c == call[w].sha
  <1>1. /\ TypeInv /\ queue \in [Ids -> Rows] /\ call[w] \in CallStates
        /\ Shaped(call[w]) /\ Announced(call[w])
    BY DEF MemoryInv, CallsAnnounced, StampInv, TypeInv, TypeOK, QueueTypeOK, CallTypeOK,
       CallShape
  <1>2. CASE UNCHANGED queueVars
    BY <1>2 DEF queueVars, View, Phase, Bound, DecisionsOnRecord
  <1>3. CASE AppendApprove(w)
    <2>1. i \in Ids /\ c \in Contents /\ queue[i].status # "unused"
      BY <1>1, <1>3 DEF AppendApprove, At, Shaped, Announced
    <2>2. Abstract!PutOnRecord(i, "approve", c)
      BY <1>3, <2>1, AppendRefines DEF AppendApprove
    <2> QED BY <2>1, <2>2 DEF Abstract!MemoryNext, Abstract!Verdicts
  <1>4. ASSUME NEW j \in Ids, AppendReject(w, j)
        PROVE  Abstract!MemoryNext
    <2>1. Abstract!PutOnRecord(j, "reject", None)
      BY <1>4, AppendRefines DEF AppendReject
    <2> QED BY <2>1 DEF Abstract!MemoryNext, Abstract!Verdicts
  <1>5. CASE StampFresh(w)
    <2>1. PICK j \in Ids, d \in Contents :
             j = i /\ d = c /\ OnRecord(audit, j, "approve", d)
      BY <1>1, <1>5 DEF StampFresh, At, Shaped, Announced
    <2> DEFINE s == ApproveInConn(queue[j], Via, call[w].seq, d)
    <2>2. queue' = [queue EXCEPT ![j] = s] /\ queue[j].status = "pending_approval"
      BY <1>5, <2>1 DEF StampFresh, FreshRow, Awaiting, Row
    <2>3. s.status = "approved" /\ s.sha = d
      BY <1>1, <2>2 DEF ApproveInConn, Rows
    <2> HIDE DEF s
    <2>4. PhaseOf(s) = "approved" /\ PhaseOf(queue[j]) = "awaiting"
      BY <2>2, <2>3 DEF PhaseOf
    <2>5. /\ Phase[j] = "awaiting"
          /\ Phase' = [Phase EXCEPT ![j] = "approved"] /\ Bound' = [Bound EXCEPT ![j] = d]
      BY <1>1, <2>2, <2>3, <2>4, ViewMoves DEF Phase
    <2>6. DecisionsOnRecord' = DecisionsOnRecord /\ store' = store
      BY <1>5 DEF StampFresh, DecisionsOnRecord
    <2>7. <<j, "approve", d>> \in DecisionsOnRecord
      BY <2>1, LedgerIsLog
    <2>8. Abstract!ApproveAs(j, d)
      BY <2>5, <2>6, <2>7 DEF Abstract!ApproveAs, Abstract!Decided, Phase, Bound
    <2> QED BY <2>8 DEF Abstract!MemoryNext
  <1>6. CASE ApplyReject(w)
    <2>1. i \in Ids /\ OnRecord(audit, i, "reject", None)
      BY <1>1, <1>6 DEF ApplyReject, At, Shaped, Announced
    <2>2. DecisionsOnRecord' = DecisionsOnRecord /\ store' = store
      BY <1>6 DEF ApplyReject, DecisionsOnRecord
    <2>3. CASE UNCHANGED queue
      BY <2>2, <2>3 DEF View, Phase, Bound
    <2>4. CASE RejectableRow(queue[i])
      <3> DEFINE s == [queue[i] EXCEPT !.status = "rejected"]
      <3>1. queue' = [queue EXCEPT ![i] = s] /\ queue[i].status = "pending_approval"
        BY <1>6, <2>4 DEF ApplyReject, RejectableRow, Awaiting, Row
      <3>2. s.status = "rejected" /\ s.sha = queue[i].sha
        BY <1>1, <2>1 DEF Rows
      <3>3. Phase' = [Phase EXCEPT ![i] = "rejected"] /\ Bound' = Bound
        BY <1>1, <2>1, <3>1, <3>2, ViewMoves DEF PhaseOf, Bound
      <3>4. Phase[i] = "awaiting"
        BY <2>1, <3>1 DEF Phase, PhaseOf
      <3>5. <<i, "reject", None>> \in DecisionsOnRecord
        BY <2>1, LedgerIsLog
      <3>6. Abstract!Refuse(i)
        BY <2>2, <3>3, <3>4, <3>5 DEF Abstract!Refuse, Abstract!Decided, Phase, Bound
      <3> QED BY <2>1, <3>6 DEF Abstract!MemoryNext
    <2> QED BY <1>6, <2>3, <2>4 DEF ApplyReject, Row
  <1> QED BY <1>2, <1>3, <1>4, <1>5, <1>6
     DEF Decide, ReadCandidate, Sweep, AppendFails, AuthorizeRedrive, RefuseStamp

\* The finalizer.
LEMMA FinalizeRefines ==
  ASSUME QueueAssumption, MemoryInv, NEW w \in Calls, Finalize(w)
  PROVE  Abstract!MemoryNext \/ UNCHANGED View
  <1> DEFINE i == call[w].id
             c == call[w].sha
  <1>1. /\ TypeInv /\ queue \in [Ids -> Rows] /\ call[w] \in CallStates /\ Shaped(call[w])
        /\ store \in [Contents -> Ids \cup {None}]
    BY DEF MemoryInv, StampInv, TypeInv, TypeOK, QueueTypeOK, CallTypeOK, CallShape
  <1>2. CASE UNCHANGED queueVars
    BY <1>2 DEF queueVars, View, Phase, Bound, DecisionsOnRecord
  <1>3. CASE GateRefuses(w) \/ GateClaims(w) \/ Fail(w) \/ Record(w)
    <2>1. i \in Ids
      BY <1>1, <1>3 DEF GateRefuses, GateClaims, Fail, Record, At, Shaped
    <2>2. UpkeepMakes(queue[i], queue'[i])
      BY <1>1, <1>3, <2>1, UpkeepSteps
    <2>3. \A j \in Ids : j # i => queue'[j] = queue[j]
      BY <1>1, <1>3 DEF GateRefuses, GateClaims, Fail, Record
    <2>4. Phase' = Phase /\ Bound' = Bound
      BY <1>1, <2>2, <2>3, UpkeepKeepsView DEF UpkeepMakes
    <2>5. DecisionsOnRecord' = DecisionsOnRecord /\ store' = store
      BY <1>3 DEF GateRefuses, GateClaims, Fail, Record, DecisionsOnRecord
    <2> QED BY <2>4, <2>5 DEF View
  <1>4. CASE WriteLands(w) \/ WriteAnswerLost(w)
    <2>1. /\ call[w].pc = "writing" /\ i \in Ids /\ c \in Contents
          /\ store[c] = None /\ store' = [store EXCEPT ![c] = i]
      BY <1>1, <1>4 DEF WriteLands, WriteAnswerLost, At, Shaped, Stored
    <2>2. Tied(i, c)
      BY <2>1 DEF Tied
    <2>3. <<i, "approve", c>> \in DecisionsOnRecord
      <3>1. Receipted(audit, i, c)
        BY <2>1, <2>2 DEF MemoryInv, ReceiptInv, TiedIsReceipted
      <3> QED BY <3>1, LedgerIsLog DEF Receipted, Approves, OnRecord
    <2>4. \/ Phase[i] = "approved" /\ Bound[i] = c
          \/ Phase[i] = "forgotten"
      <3>1. StampedFor(i, c)
        BY <2>1, <2>2 DEF MemoryInv, StampInv, TiedIsStamped
      <3> QED BY <2>1, <3>1 DEF StampedFor, Phase, Bound, PhaseOf
    <2>5. UNCHANGED <<Phase, Bound, DecisionsOnRecord>>
      BY <1>4 DEF WriteLands, WriteAnswerLost, Phase, Bound, DecisionsOnRecord
    <2>6. Abstract!Remember(i, c)
      BY <2>1, <2>3, <2>4, <2>5 DEF Abstract!Remember, Abstract!Decided, Phase, Bound
    <2> QED BY <2>1, <2>6 DEF Abstract!MemoryNext
  <1>5. CASE Outcome(w)
    <2>1. DecisionsOnRecord' = DecisionsOnRecord
      <3>1. CASE UNCHANGED audit
        BY <3>1 DEF DecisionsOnRecord
      <3>2. CASE AuditAppend(FinalizedRecord(i, call[w].hash))
        <4>1. FinalizedRecord(i, call[w].hash) \in AuditRecords
          BY <1>1, <1>5 DEF Outcome, At, Shaped, CallStates, FinalizedRecord, AuditRecords,
             AuditOps, Decisions
        <4> QED BY <1>1, <3>2, <4>1, RecordIsOnLedger DEF FinalizedRecord
      <3> QED BY <1>5, <3>1, <3>2 DEF Outcome
    <2> QED BY <1>5, <2>1 DEF Outcome, View, Phase, Bound
  <1>6. CASE CleanupDeletes(w) \/ CleanupFails(w)
    <2>1. \E says : StoreDelete(call[w].hash, says)
      BY <1>6 DEF CleanupDeletes, CleanupFails
    <2>2. UNCHANGED <<Phase, Bound, DecisionsOnRecord>>
      BY <1>6 DEF CleanupDeletes, CleanupFails, Phase, Bound, DecisionsOnRecord
    <2> QED BY <1>1, <2>1, <2>2, DeleteErases DEF Abstract!MemoryNext
  <1> QED BY <1>2, <1>3, <1>4, <1>5, <1>6
     DEF Finalize, GatePasses, BuildFails, CheckClaim, WriteIsDuplicate, WriteFails,
         LookupFinds, LookupFails, RecordOfOther, RecordOrphan

\* The forget.
LEMMA ForgetRefines ==
  ASSUME QueueAssumption, MemoryInv, NEW f \in Forgetters, Forget(f)
  PROVE  Abstract!MemoryNext \/ UNCHANGED View
  <1>1. TypeInv /\ queue \in [Ids -> Rows]
    BY DEF MemoryInv, StampInv, TypeInv, TypeOK, QueueTypeOK
  <1>2. CASE UNCHANGED <<queue, audit, store>>
    BY <1>2 DEF View, Phase, Bound, DecisionsOnRecord
  <1>3. ASSUME NEW by \in ForgetBy, NEW c \in Contents, ForgetClaim(f, by, c)
        PROVE  UNCHANGED View
    <2>1. \A i \in Ids : UpkeepMakes(queue[i], queue'[i])
      BY <1>3 DEF ForgetClaim, UpkeepMakes
    <2>2. Phase' = Phase /\ Bound' = Bound
      BY <1>1, <2>1, UpkeepKeepsView
    <2>3. DecisionsOnRecord' = DecisionsOnRecord /\ store' = store
      BY <1>3 DEF ForgetClaim, DecisionsOnRecord
    <2> QED BY <2>2, <2>3 DEF View
  <1>4. CASE ForgetTarget(f) \/ ForgetFound(f) \/ \E h \in Contents : ForgetMapped(f, h)
    <2>1. UNCHANGED <<Phase, Bound, DecisionsOnRecord>>
      BY <1>4 DEF ForgetTarget, ForgetFound, ForgetMapped, Phase, Bound, DecisionsOnRecord
    <2>2. UNCHANGED store \/ \E h, says : StoreDelete(h, says)
      BY <1>4 DEF ForgetTarget, ForgetFound, ForgetMapped, ForgetDeletes
    <2>3. CASE UNCHANGED store
      BY <2>1, <2>3 DEF View
    <2> QED BY <1>1, <2>1, <2>2, <2>3, DeleteErases DEF Abstract!MemoryNext
  <1>5. CASE ForgetPurge(f)
    <2>1. PICK S \in SUBSET Ids : /\ S = Matched(forget[f].by, forget[f].target)
                                  /\ \A i \in S : Exists(queue[i])
      <3> DEFINE M == Matched(forget[f].by, forget[f].target)
      <3>1. M \in SUBSET Ids /\ \A i \in M : Exists(queue[i])
        BY DEF Matched, Matches
      <3> HIDE DEF M
      <3> QED BY <3>1 DEF M
    <2>2. \A i \in Ids : queue'[i] = IF i \in S THEN BlankRow("purged") ELSE queue[i]
      BY <1>5, <2>1 DEF ForgetPurge, Purged
    <2>3. \A i \in S : Phase[i] \notin {"unproposed", "forgotten"}
      <3>1. \A i \in S : queue[i].status \in {"pending_approval", "approved", "rejected"}
        BY <1>1, <2>1 DEF Exists, Rows, Statuses
      <3>2. \A i \in S : PhaseOf(queue[i]) \in {"awaiting", "approved", "rejected"}
        BY <3>1 DEF PhaseOf
      <3> QED BY <2>1, <3>2 DEF Phase
    <2>4. PhaseOf(BlankRow("purged")) = "forgotten" /\ BlankRow("purged").sha = None
      BY DEF PhaseOf, BlankRow
    <2>5. /\ Phase' = [i \in Ids |-> IF i \in S THEN "forgotten" ELSE Phase[i]]
          /\ Bound' = [i \in Ids |-> IF i \in S THEN None ELSE Bound[i]]
      BY <2>2, <2>4 DEF Phase, Bound
    <2>6. DecisionsOnRecord' = DecisionsOnRecord /\ store' = store
      BY <1>5 DEF ForgetPurge, DecisionsOnRecord
    <2>7. Abstract!ForgetAll(S)
      BY <2>3, <2>5, <2>6 DEF Abstract!ForgetAll, Phase, Bound
    <2> QED BY <2>7 DEF Abstract!MemoryNext
  <1> QED BY <1>2, <1>3, <1>4, <1>5
     DEF Forget, ForgetResolve, ForgetLooksUp, ForgetRaises, ForgetTombstone, queueVars

\* Every step of the box is a step of GovernedMemory, or none.
LEMMA StepRefines ==
  ASSUME QueueAssumption, MemoryInv, [Next]_vars
  PROVE  Abstract!MemoryNext \/ UNCHANGED View
  <1>1. CASE UNCHANGED <<queue, audit, store>>
    BY <1>1 DEF View, Phase, Bound, DecisionsOnRecord
  <1>2. ASSUME NEW i \in Ids, Expiry(i)
        PROVE  UNCHANGED View
    <2>1. TypeInv /\ UpkeepMakes(queue[i], queue'[i])
      BY <1>2, UpkeepSteps DEF Expiry, MemoryInv, StampInv
    <2>2. \A j \in Ids : j # i => queue'[j] = queue[j]
      BY <1>2, <2>1 DEF Expiry, LeaseExpires, TypeInv, TypeOK, QueueTypeOK
    <2>3. Phase' = Phase /\ Bound' = Bound
      BY <2>1, <2>2, UpkeepKeepsView DEF UpkeepMakes
    <2> QED BY <1>2, <2>3 DEF Expiry, LeaseExpires, View, DecisionsOnRecord
  <1>3. ASSUME NEW w \in Calls, CallStep(w)
        PROVE  Abstract!MemoryNext \/ UNCHANGED View
    BY <1>1, <1>3, DecideRefines, FinalizeRefines DEF CallStep, CallCrashes, queueVars
  <1>4. ASSUME NEW f \in Forgetters, ForgetStep(f)
        PROVE  Abstract!MemoryNext \/ UNCHANGED View
    BY <1>1, <1>4, ForgetRefines DEF ForgetStep, ForgetCrashes, queueVars
  <1> QED BY <1>1, <1>2, <1>3, <1>4, QueueRefines DEF Next, vars, queueVars

\* The box implements GovernedMemory, for every number of approvals, calls
\* and forgets: however claims, leases, retries, crashes and lost answers
\* interleave, decisions, bindings and the store change only in the ways the
\* abstract specification allows.
THEOREM GovernedMemoryImplemented == Spec => ImplementsGovernedMemory
  <1>1. Init => Abstract!MemoryInit
    BY DEF Init, QueueInit, BlankRow, PhaseOf, DecisionsOnRecord, Abstract!MemoryInit
  <1>2. Init => MemoryInv
    BY MemoryStarts
  <1>3. MemoryInv /\ [Next]_vars => MemoryInv'
    BY MemoryStays, QueueAssumption, ForgetAssumption
  <1>4. MemoryInv /\ [Next]_vars => [Abstract!MemoryNext]_(Abstract!memoryVars)
    BY StepRefines, ViewIsAbstract, QueueAssumption
  <1> QED BY <1>1, <1>2, <1>3, <1>4, PTL DEF Spec, ImplementsGovernedMemory, Abstract!MemorySpec

=============================================================================
