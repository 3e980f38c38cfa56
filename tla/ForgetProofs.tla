----------------------------- MODULE ForgetProofs -----------------------------
(***************************************************************************)
(* Proofs about claims and forgets: who holds an approval, what a durable  *)
(* row can be found by, and what is left after a forget.  Some of these    *)
(* facts hold only while nobody forgets, while calls keep their lease or   *)
(* while the store answers truly; each theorem names the limit it needs.   *)
(***************************************************************************)
EXTENDS GovernedBoxProofs

-----------------------------------------------------------------------------
(* What removes a row from the store, and what finalizes one of the queue *)

\* Only the cleanup of a call and a forget remove a durable row.
LEMMA Removals ==
  ASSUME TypeInv, [Next]_vars, NEW c \in Contents, store'[c] # store[c], store[c] # None
  PROVE  \/ \E w \in Calls : call[w].pc = "cleanup" /\ call[w].hash = c
         \/ \E f \in Forgetters : ForgetStep(f)
  <1> store \in [Contents -> Ids \cup {None}]
    BY DEF TypeInv, TypeOK, QueueTypeOK
  <1>1. CASE QueueStep \/ UNCHANGED vars \/ \E i \in Ids : Expiry(i)
    BY <1>1 DEF QueueStep, Propose, EditBytes, RawApprove, vars, queueVars, Expiry, LeaseExpires
  <1>2. ASSUME NEW w \in Calls, CallStep(w)
        PROVE  call[w].pc = "cleanup" /\ call[w].hash = c
    <2>1. CASE Decide(w) \/ CallCrashes(w)
      BY <2>1 DEF Decide, ReadCandidate, Sweep, AppendFails, AppendApprove, AppendReject,
         AuthorizeRedrive, StampFresh, RefuseStamp, ApplyReject, CallCrashes, queueVars
    <2>2. CASE WriteLands(w) \/ WriteAnswerLost(w)
      BY <2>2 DEF WriteLands, WriteAnswerLost, Stored, At
    <2>3. CASE CleanupDeletes(w) \/ CleanupFails(w)
      BY <2>3 DEF CleanupDeletes, CleanupFails, At, StoreDelete, Removed
    <2> QED BY <1>2, <2>1, <2>2, <2>3
       DEF CallStep, Finalize, GatePasses, GateRefuses, GateClaims, BuildFails, CheckClaim,
           WriteIsDuplicate, WriteFails, LookupFinds, LookupFails, Fail, Record,
           RecordOfOther, RecordOrphan, Outcome, queueVars
  <1> QED BY <1>1, <1>2 DEF Next

\* Only a record finalizes a row, under the hash its call verified.
LEMMA FinalizedSteps ==
  ASSUME TypeInv, [Next]_vars, NEW i \in Ids, queue'[i].fin = "finalized"
  PROVE  \/ queue[i].fin = "finalized" /\ queue'[i].durable = queue[i].durable
         \/ \E w \in Calls : /\ call[w].pc = "recording" /\ call[w].id = i
                             /\ queue'[i].durable = call[w].hash
  <1> queue \in [Ids -> Rows] /\ queue[i] \in Rows
    BY DEF TypeInv, TypeOK, QueueTypeOK
  <1> DEFINE r == queue[i]
             Kept == r.fin = "finalized" /\ queue'[i].durable = r.durable
  <1>1. CASE HandlesRow(i)
    <2>1. ASSUME NEW c \in Contents, Propose(i, c)
          PROVE  FALSE
      BY <2>1 DEF Propose, BlankRow
    <2>2. ASSUME NEW c \in Contents, EditBytes(i, c)
          PROVE  Kept
      <3>1. queue'[i] = [r EXCEPT !.bytes = c]
        BY <2>2 DEF EditBytes
      <3> QED BY <3>1 DEF Rows
    <2>3. CASE RawApprove(i)
      <3>1. queue'[i] = ApproveInConn(r, None, 0, None)
        BY <2>3 DEF RawApprove
      <3> QED BY <3>1 DEF ApproveInConn, Rows
    <2>4. CASE LeaseExpires(i)
      <3>1. queue'[i] = [r EXCEPT !.stale = TRUE]
        BY <2>4 DEF LeaseExpires
      <3> QED BY <3>1 DEF Rows
    <2> QED BY <1>1, <2>1, <2>2, <2>3, <2>4 DEF HandlesRow
  <1>2. ASSUME NEW w \in Calls, WorksOnRow(w, i)
        PROVE  \/ Kept
               \/ /\ call[w].pc = "recording" /\ call[w].id = i
                  /\ queue'[i].durable = call[w].hash
    <2>1. CASE StampFresh(w)
      <3>1. queue'[i] = ApproveInConn(r, Via, call[w].seq, call[w].sha)
        BY <1>2, <2>1 DEF WorksOnRow, StampFresh
      <3> QED BY <3>1 DEF ApproveInConn, Rows
    <2>2. CASE ApplyReject(w)
      <3>1. queue'[i] = r \/ queue'[i] = [r EXCEPT !.status = "rejected"]
        BY <1>2, <2>2 DEF WorksOnRow, ApplyReject
      <3> QED BY <3>1 DEF Rows
    <2>3. CASE GateRefuses(w)
      <3>1. queue'[i] = MarkFailed(r)
        BY <1>2, <2>3 DEF WorksOnRow, GateRefuses
      <3> QED BY <3>1 DEF MarkFailed, Rows
    <2>4. CASE GateClaims(w)
      <3>1. queue'[i] = ClaimRow(r, w)
        BY <1>2, <2>4 DEF WorksOnRow, GateClaims
      <3> QED BY <3>1 DEF ClaimRow, Rows
    <2>5. CASE Fail(w)
      <3>1. queue'[i] = r \/ queue'[i] = [r EXCEPT !.fin = "failed"]
        BY <1>2, <2>5 DEF WorksOnRow, Fail
      <3> QED BY <3>1 DEF Rows
    <2>6. CASE Record(w)
      <3>1. queue'[i] = RecordRow(r, w, call[w].hash)
        BY <1>2, <2>6 DEF WorksOnRow, Record
      <3> QED BY <1>2, <2>6, <3>1 DEF WorksOnRow, Record, At, RecordRow, Rows
    <2> QED BY <1>2, <2>1, <2>2, <2>3, <2>4, <2>5, <2>6 DEF WorksOnRow
  <1>3. ASSUME NEW f \in Forgetters, TakesRow(f, i) \/ DropsRow(f, i)
        PROVE  FALSE
    <2>1. queue'[i] = ForgetRow(r) \/ queue'[i] = BlankRow("purged")
      BY <1>3 DEF TakesRow, ForgetClaim, DropsRow, ForgetPurge, Purged
    <2>2. ForgetRow(r).fin = "rtbf_deleting" /\ BlankRow("purged").fin = "none"
      BY DEF ForgetRow, BlankRow, Rows
    <2> QED BY <2>1, <2>2
  <1>4. CASE queue'[i] = queue[i]
    BY <1>4
  <1> QED BY <1>1, <1>2, <1>3, <1>4, RowActions

-----------------------------------------------------------------------------
(* Durable stays durable, while nobody forgets *)

\* Nobody took the row, and where it says it is finalized it is.
RowIsDurable(i) ==
    LET r == queue[i] IN
    /\ r.status # "purged" /\ r.fin # "rtbf_deleting"
    /\ r.fin = "finalized" => r.durable \in Contents /\ store[r.durable] = i

\* A call records only what is in the store in the name of its approval, and
\* has nothing to clean up.
CallIsDurable(s) ==
    /\ s.pc # "cleanup"
    /\ s.pc = "recording" => store[s.hash] = s.id

DurableInv ==
    /\ MemoryInv
    /\ \A i \in Ids : RowIsDurable(i)
    /\ \A w \in Calls : CallIsDurable(call[w])

\* In an empty box nothing is finalized.
LEMMA DurableStarts == Init => DurableInv
  <1> SUFFICES ASSUME Init PROVE DurableInv
    OBVIOUS
  <1>1. \A i \in Ids : RowIsDurable(i)
    BY DEF Init, QueueInit, BlankRow, RowIsDurable
  <1>2. \A w \in Calls : CallIsDurable(call[w])
    BY DEF Init, CallInit, IdleCall, CallIsDurable
  <1> QED BY <1>1, <1>2, MemoryStarts DEF DurableInv

\* Without a forget nothing removes a durable row.
LEMMA StoreIsKept ==
  ASSUME Forgetters = {}, DurableInv, [Next]_vars, NEW c \in Contents, store[c] # None
  PROVE  store'[c] = store[c]
  <1>1. TypeInv
    BY DEF DurableInv, MemoryInv, StampInv
  <1> QED BY <1>1, Removals DEF DurableInv, CallIsDurable

\* Without a forget no row is taken.
LEMMA NoRowIsTaken ==
  ASSUME Forgetters = {}, DurableInv, [Next]_vars, NEW i \in Ids
  PROVE  queue'[i].status # "purged" /\ queue'[i].fin # "rtbf_deleting"
  <1>1. TypeInv /\ queue \in [Ids -> Rows] /\ queue[i] \in Rows
    BY DEF DurableInv, MemoryInv, StampInv, TypeInv, TypeOK, QueueTypeOK
  <1>2. queue[i].status # "purged" /\ queue[i].fin # "rtbf_deleting"
    BY DEF DurableInv, RowIsDurable
  <1> DEFINE r == queue[i]
  <1>3. CASE HandlesRow(i)
    <2>1. ASSUME NEW c \in Contents, Propose(i, c)
          PROVE  queue'[i].status # "purged" /\ queue'[i].fin # "rtbf_deleting"
      BY <1>1, <2>1 DEF Propose, BlankRow
    <2>2. ASSUME NEW c \in Contents, EditBytes(i, c)
          PROVE  queue'[i].status # "purged" /\ queue'[i].fin # "rtbf_deleting"
      <3>1. queue'[i] = [r EXCEPT !.bytes = c]
        BY <1>1, <2>2 DEF EditBytes
      <3> QED BY <1>1, <1>2, <3>1 DEF Rows
    <2>3. CASE RawApprove(i)
      <3>1. queue'[i] = ApproveInConn(r, None, 0, None)
        BY <1>1, <2>3 DEF RawApprove
      <3> QED BY <1>1, <1>2, <3>1 DEF ApproveInConn, Rows
    <2>4. CASE LeaseExpires(i)
      <3>1. queue'[i] = [r EXCEPT !.stale = TRUE]
        BY <1>1, <2>4 DEF LeaseExpires
      <3> QED BY <1>1, <1>2, <3>1 DEF Rows
    <2> QED BY <1>3, <2>1, <2>2, <2>3, <2>4 DEF HandlesRow
  <1>4. ASSUME NEW w \in Calls, WorksOnRow(w, i)
        PROVE  queue'[i].status # "purged" /\ queue'[i].fin # "rtbf_deleting"
    <2>1. \/ queue'[i] = ApproveInConn(r, Via, call[w].seq, call[w].sha)
          \/ queue'[i] = r
          \/ queue'[i] = [r EXCEPT !.status = "rejected"]
          \/ queue'[i] = [r EXCEPT !.fin = "failed"]
          \/ queue'[i] = MarkFailed(r)
          \/ queue'[i] = ClaimRow(r, w)
          \/ queue'[i] = RecordRow(r, w, call[w].hash)
      BY <1>1, <1>4 DEF WorksOnRow, StampFresh, ApplyReject, GateRefuses, GateClaims, Fail, Record
    <2> QED BY <1>1, <1>2, <2>1 DEF ApproveInConn, MarkFailed, ClaimRow, RecordRow, Rows
  <1> QED BY <1>1, <1>2, <1>3, <1>4, RowActions

\* Every step keeps finalized rows durable.
LEMMA DurableStays ==
  ASSUME QueueAssumption, ForgetAssumption, Forgetters = {}, DurableInv, [Next]_vars
  PROVE  DurableInv'
  <1>1. MemoryInv /\ MemoryInv' /\ TypeInv /\ TypeInv'
    BY MemoryStays DEF DurableInv, MemoryInv, StampInv
  <1>2. None \notin Ids
    BY DEF QueueAssumption
  <1>3. ASSUME NEW i \in Ids
        PROVE  RowIsDurable(i)'
    <2>1. ASSUME queue'[i].fin = "finalized"
          PROVE  queue'[i].durable \in Contents /\ store'[queue'[i].durable] = i
      <3>1. CASE queue[i].fin = "finalized" /\ queue'[i].durable = queue[i].durable
        BY <1>2, <3>1, StoreIsKept DEF DurableInv, RowIsDurable
      <3>2. ASSUME NEW w \in Calls, call[w].pc = "recording", call[w].id = i,
                   queue'[i].durable = call[w].hash
            PROVE  queue'[i].durable \in Contents /\ store'[queue'[i].durable] = i
        <4>1. call[w].hash \in Contents /\ store[call[w].hash] = i
          BY <1>1, <3>2 DEF DurableInv, CallIsDurable, TypeInv, CallShape, Shaped
        <4> QED BY <1>2, <3>2, <4>1, StoreIsKept
      <3> QED BY <1>1, <2>1, <3>1, <3>2, FinalizedSteps
    <2> QED BY <2>1, NoRowIsTaken DEF RowIsDurable
  <1>4. ASSUME NEW w \in Calls
        PROVE  CallIsDurable(call[w])'
    <2>1. call[w] \in CallStates /\ Shaped(call[w]) /\ CallIsDurable(call[w])
      BY <1>1 DEF TypeInv, TypeOK, CallTypeOK, CallShape, DurableInv
    <2>2. CASE call'[w] = call[w]
      BY <1>2, <2>1, <2>2, StoreIsKept DEF CallIsDurable, Shaped
    <2>3. CASE call'[w] = IdleCall
      BY <2>3 DEF IdleCall, CallIsDurable
    <2>4. CASE Decide(w)
      <3>1. call'[w].pc \in {"idle", "read", "appended", "rejecting", "gate"}
        BY <1>1, <2>1, <2>4, DecideStages
      <3> QED BY <3>1 DEF CallIsDurable
    <2>5. CASE Finalize(w)
      <3>1. CASE WriteLands(w)
        <4>1. /\ call'[w].pc = "recording" /\ call'[w].hash = call[w].sha
              /\ call'[w].id = call[w].id
          <5>1. call' = [call EXCEPT ![w] =
                           [call[w] EXCEPT !.pc = "recording", !.hash = call[w].sha]]
            BY <3>1 DEF WriteLands
          <5>2. call'[w] = [call[w] EXCEPT !.pc = "recording", !.hash = call[w].sha]
            BY <1>1, <5>1 DEF TypeInv, TypeOK, CallTypeOK
          <5> QED BY <2>1, <5>2 DEF CallStates
        <4>2. store'[call[w].sha] = call[w].id
          BY <1>1, <2>1, <3>1 DEF WriteLands, Stored, At, Shaped, TypeInv, TypeOK, QueueTypeOK
        <4> QED BY <4>1, <4>2 DEF CallIsDurable
      <3>2. CASE LookupFinds(w)
        <4>1. PICK c \in MarkedBy(call[w].id) :
                 call' = [call EXCEPT ![w] = [call[w] EXCEPT !.pc = "recording", !.hash = c]]
          BY <3>2 DEF LookupFinds
        <4>2. call'[w] = [call[w] EXCEPT !.pc = "recording", !.hash = c]
          BY <1>1, <4>1 DEF TypeInv, TypeOK, CallTypeOK
        <4>3. /\ call'[w].pc = "recording" /\ call'[w].hash = c /\ call'[w].id = call[w].id
              /\ c \in Contents /\ store[c] = call[w].id /\ UNCHANGED store
          BY <2>1, <3>2, <4>2 DEF CallStates, MarkedBy, LookupFinds, queueVars
        <4> QED BY <4>3 DEF CallIsDurable
      <3>3. CASE RecordOrphan(w)
        <4>1. Announced(call[w]) /\ call[w].id \in Ids /\ ForgetWins(Row(w)) /\ At(w, "recording")
          BY <1>1, <2>1, <3>3 DEF RecordOrphan, MemoryInv, CallsAnnounced, At, Shaped
        <4>2. FALSE
          BY <4>1 DEF Announced, ForgetWins, Row, Exists, At, DurableInv, RowIsDurable
        <4> QED BY <4>2
      <3>4. CASE \/ GatePasses(w) \/ GateRefuses(w) \/ Fail(w) \/ RecordOfOther(w) \/ Outcome(w)
                 \/ CleanupDeletes(w) \/ CleanupFails(w)
        <4>1. call'[w] = IdleCall
          BY <1>1, <3>4 DEF GatePasses, GateRefuses, Fail, RecordOfOther, Outcome,
             CleanupDeletes, CleanupFails, Return, TypeInv, TypeOK, CallTypeOK
        <4> QED BY <2>3, <4>1
      <3>5. CASE \/ GateClaims(w) \/ BuildFails(w) \/ CheckClaim(w) \/ WriteIsDuplicate(w)
                 \/ WriteFails(w) \/ LookupFails(w) \/ Record(w) \/ WriteAnswerLost(w)
        <4>1. call'[w].pc \in {"idle", "claimed", "failing", "writing", "lookup", "outcome"}
          BY <1>1, <2>1, <3>5
             DEF GateClaims, BuildFails, CheckClaim, WriteIsDuplicate, WriteFails, LookupFails,
                 Record, WriteAnswerLost, Goto, Return, IdleCall, CallStates, TypeInv, TypeOK,
                 CallTypeOK
        <4> QED BY <4>1 DEF CallIsDurable
      <3> QED BY <2>5, <3>1, <3>2, <3>3, <3>4, <3>5 DEF Finalize
    <2> QED BY <1>1, <2>2, <2>3, <2>4, <2>5, CallSteps
  <1> QED BY <1>1, <1>3, <1>4 DEF DurableInv

LEMMA DurableCorrect ==
  ASSUME Forgetters = {}
  PROVE  Spec => []DurableInv
  <1>1. DurableInv /\ [Next]_vars => DurableInv'
    BY DurableStays, QueueAssumption, ForgetAssumption
  <1> QED BY <1>1, DurableStarts, PTL DEF Spec

\* While nobody forgets, an approval that says it is finalized is in the
\* store, whatever crashes, lost answers, expired leases and redrives came
\* before: Record never runs ahead of the write it verified.
THEOREM FinalizedStaysDurable ==
  ASSUME Forgetters = {}
  PROVE  Spec => []FinalizedIsDurable
  <1>1. DurableInv => FinalizedIsDurable
    BY QueueAssumption DEF DurableInv, RowIsDurable, FinalizedIsDurable
  <1> QED BY <1>1, DurableCorrect, PTL

\* And two approvals of the same bytes never claim the same durable row,
\* although the store answers the second write only with "duplicate".
THEOREM DurableOwnership ==
  ASSUME Forgetters = {}
  PROVE  Spec => []DurableHasOneOwner
  <1>1. DurableInv => DurableHasOneOwner
    BY DEF DurableInv, RowIsDurable, DurableHasOneOwner
  <1> QED BY <1>1, DurableCorrect, PTL

-----------------------------------------------------------------------------
(* What a forget erased stays named, while the store answers truly *)

HardDelete(c) == <<"hard_delete", c>>

\* What is erased is in the history, or in the tombstone that a running
\* forget is going to write.
ErasedIsNamed ==
    \A c \in erased :
        \/ HardDelete(c) \in history
        \/ \E f \in Forgetters : HardDelete(c) \in Tombstones(forget[f])

\* A forget names nothing before it began and resolved what to delete, and
\* then all of it.
NamesFirst(g) ==
    /\ g.pc = "idle" => ~g.ok
    /\ g.pc \in {"claimed", "resolving"} => g.named = {}
    /\ g.todo \subseteq g.named

NameInv ==
    /\ TypeInv
    /\ \A f \in Forgetters : NamesFirst(forget[f])
    /\ crashes = 0 => ErasedIsNamed

\* Nothing is erased in an empty box.
LEMMA NameStarts == Init => NameInv
  <1> SUFFICES ASSUME Init PROVE NameInv
    OBVIOUS
  <1>1. \A f \in Forgetters : NamesFirst(forget[f])
    BY DEF Init, ForgetInit, IdleForget, NamesFirst
  <1>2. ErasedIsNamed
    BY DEF Init, ForgetInit, ErasedIsNamed
  <1> QED BY <1>1, <1>2, TypeInit DEF NameInv

\* What a forget's move keeps named.
NamesKept(f, g) ==
    /\ forget' = [forget EXCEPT ![f] = g]
    /\ history \subseteq history'
    /\ \A c \in Contents : HardDelete(c) \in Tombstones(forget[f]) =>
          HardDelete(c) \in Tombstones(g) \/ HardDelete(c) \in history'
    /\ \A c \in erased' : c \in erased \/ HardDelete(c) \in Tombstones(g)

\* A move that keeps names and first names what it deletes is safe.
LEMMA NamedMoves ==
  ASSUME TypeInv, NEW f \in Forgetters, NEW g, \A e \in Forgetters : NamesFirst(forget[e]),
         NamesKept(f, g), NamesFirst(g)
  PROVE  /\ \A e \in Forgetters : NamesFirst(forget'[e])
         /\ ErasedIsNamed => ErasedIsNamed'
  <1>1. forget \in [Forgetters -> ForgetStates] /\ erased \subseteq Contents
    BY DEF TypeInv, TypeOK, ForgetTypeOK
  <1>2. /\ forget'[f] = g
        /\ \A e \in Forgetters : e # f => forget'[e] = forget[e]
    BY <1>1 DEF NamesKept
  <1>3. \A e \in Forgetters : NamesFirst(forget'[e])
    BY <1>2
  <1>4. ASSUME ErasedIsNamed, NEW c \in erased'
        PROVE  \/ HardDelete(c) \in history'
               \/ \E e \in Forgetters : HardDelete(c) \in Tombstones(forget'[e])
    <2>1. CASE c \in erased
      <3>1. CASE HardDelete(c) \in history
        BY <3>1 DEF NamesKept
      <3>2. ASSUME NEW e \in Forgetters, HardDelete(c) \in Tombstones(forget[e])
            PROVE  \/ HardDelete(c) \in history'
                   \/ \E d \in Forgetters : HardDelete(c) \in Tombstones(forget'[d])
        <4>1. CASE e = f
          BY <1>1, <1>2, <2>1, <3>2, <4>1 DEF NamesKept
        <4>2. CASE e # f
          <5>1. HardDelete(c) \in Tombstones(forget'[e])
            BY <1>2, <3>2, <4>2
          <5> QED BY <5>1
        <4> QED BY <4>1, <4>2
      <3> QED BY <1>4, <2>1, <3>1, <3>2 DEF ErasedIsNamed
    <2>2. CASE c \notin erased
      BY <1>2, <1>4, <2>2 DEF NamesKept
    <2> QED BY <2>1, <2>2
  <1> QED BY <1>3, <1>4 DEF ErasedIsNamed

\* A store that never raises and never loses an answer says "true" if and
\* only if it removed something: what it removed is named then.
LEMMA DeleteIsNamed ==
  ASSUME StoreMay \subseteq {"refuse"}, TypeInv, NEW f \in Forgetters, NEW h,
         NEW removed, NEW kept, ForgetDeletes(f, h, removed, kept), UNCHANGED history,
         Tombstones(forget[f]) \subseteq Tombstones(removed),
         Tombstones(forget[f]) \subseteq Tombstones(kept),
         HardDelete(h) \in Tombstones(removed)
  PROVE  NamesKept(f, removed) \/ NamesKept(f, kept)
  <1>1. PICK says \in {"true", "false", "raised"} :
          /\ StoreDelete(h, says)
          /\ Erases(h)
          /\ CASE says = "true"   -> forget' = [forget EXCEPT ![f] = removed]
               [] says = "false"  -> forget' = [forget EXCEPT ![f] = kept]
               [] says = "raised" -> EndForget(f)
    BY DEF ForgetDeletes
  <1>2. "raise" \notin StoreMay /\ "lose" \notin StoreMay
    OBVIOUS
  <1>3. CASE says = "true"
    <2>1. \A c \in erased' : c \in erased \/ c = h
      BY <1>1 DEF Erases
    <2> QED BY <1>1, <1>3, <2>1 DEF NamesKept
  <1>4. CASE says = "false"
    <2>1. store' = store
      BY <1>1, <1>2, <1>4 DEF StoreDelete
    <2> QED BY <1>1, <1>4, <2>1 DEF NamesKept, Erases
  <1>5. CASE says = "raised"
    BY <1>1, <1>2, <1>5 DEF StoreDelete
  <1> QED BY <1>3, <1>4, <1>5

\* Every step of a forget keeps what is erased named.
LEMMA ForgetNames ==
  ASSUME StoreMay \subseteq {"refuse"}, NameInv, TypeInv', NEW f \in Forgetters, Forget(f)
  PROVE  /\ \A e \in Forgetters : NamesFirst(forget'[e])
         /\ ErasedIsNamed => ErasedIsNamed'
  <1> DEFINE old == forget[f]
  <1>1. /\ TypeInv /\ old \in ForgetStates /\ NamesFirst(old)
        /\ erased \subseteq Contents /\ \A e \in Forgetters : NamesFirst(forget[e])
    BY DEF NameInv, TypeInv, TypeOK, ForgetTypeOK
  <1> SUFFICES \E g : NamesFirst(g) /\ NamesKept(f, g)
    BY <1>1, NamedMoves
  <1>2. CASE \E by \in ForgetBy, c \in Contents : ForgetClaim(f, by, c)
    <2>1. PICK by \in ForgetBy, c \in Contents : ForgetClaim(f, by, c)
      BY <1>2
    <2>2. PICK g : g = [IdleForget EXCEPT !.pc = "claimed", !.by = by, !.target = c,
                          !.claimed = Matched(by, c), !.sweep = Matched(by, c)]
      OBVIOUS
    <2>3. NamesFirst(g)
      BY <2>2 DEF IdleForget, NamesFirst
    <2>4. Tombstones(old) = {}
      BY <1>1, <2>1 DEF NamesFirst, ForgetClaim, ForgetAt, Tombstones
    <2>5. NamesKept(f, g)
      BY <2>1, <2>2, <2>4 DEF ForgetClaim, NamesKept
    <2> QED BY <2>3, <2>5
  <1>3. CASE ForgetTarget(f)
    <2>1. PICK next : next = [old EXCEPT !.pc = "resolving"]
      OBVIOUS
    <2>2. PICK gone : gone = [next EXCEPT !.ok = TRUE]
      OBVIOUS
    <2>3. /\ NamesFirst(next) /\ NamesFirst(gone)
          /\ Tombstones(next) = Tombstones(old) /\ Tombstones(old) \subseteq Tombstones(gone)
      BY <1>1, <1>3, <2>1, <2>2 DEF ForgetTarget, ForgetAt, NamesFirst, ForgetStates, Tombstones
    <2>4. CASE old.by = "hash" /\ ForgetDeletes(f, old.target, gone, next)
      <3>1. HardDelete(old.target) \in Tombstones(gone)
        BY <1>1, <2>1, <2>2, <2>4 DEF ForgetStates, Tombstones, HardDelete
      <3>2. UNCHANGED history
        BY <1>3 DEF ForgetTarget
      <3>3. NamesKept(f, gone) \/ NamesKept(f, next)
        BY <1>1, <2>3, <2>4, <3>1, <3>2, DeleteIsNamed
      <3> QED BY <2>3, <3>3
    <2>5. CASE forget' = [forget EXCEPT ![f] = next] /\ UNCHANGED <<store, erased>>
      <3>1. NamesKept(f, next)
        BY <1>3, <2>3, <2>5 DEF ForgetTarget, NamesKept
      <3> QED BY <2>3, <3>1
    <2> QED BY <1>3, <2>1, <2>2, <2>4, <2>5 DEF ForgetTarget
  <1>4. CASE ForgetResolve(f)
    <2>1. PICK ids : ids = Divergent(old.by, old.target)
      OBVIOUS
    <2>2. PICK g : g = [old EXCEPT !.pc = "mapped", !.todo = ids, !.named = ids]
      OBVIOUS
    <2>3. NamesFirst(g) /\ Tombstones(old) \subseteq Tombstones(g)
      BY <1>1, <1>4, <2>2 DEF ForgetResolve, ForgetAt, NamesFirst, ForgetStates, Tombstones
    <2>4. NamesKept(f, g)
      BY <1>4, <2>1, <2>2, <2>3 DEF ForgetResolve, NamesKept, queueVars
    <2> QED BY <2>3, <2>4
  <1>5. ASSUME NEW h \in Contents, ForgetMapped(f, h)
        PROVE  \E g : NamesFirst(g) /\ NamesKept(f, g)
    <2>1. PICK next : next = [old EXCEPT !.todo = @ \ {h}]
      OBVIOUS
    <2>2. PICK gone : gone = [next EXCEPT !.ok = TRUE]
      OBVIOUS
    <2>3. /\ NamesFirst(next) /\ NamesFirst(gone)
          /\ Tombstones(next) = Tombstones(old) /\ Tombstones(old) \subseteq Tombstones(gone)
      BY <1>1, <1>5, <2>1, <2>2 DEF ForgetMapped, ForgetAt, NamesFirst, ForgetStates, Tombstones
    <2>4. HardDelete(h) \in Tombstones(gone)
      BY <1>1, <1>5, <2>1, <2>2 DEF ForgetMapped, NamesFirst, ForgetStates, Tombstones, HardDelete
    <2>5. ForgetDeletes(f, h, gone, next) /\ UNCHANGED history
      BY <1>5, <2>1, <2>2 DEF ForgetMapped
    <2>6. NamesKept(f, gone) \/ NamesKept(f, next)
      BY <1>1, <2>3, <2>4, <2>5, DeleteIsNamed
    <2> QED BY <2>3, <2>6
  <1>6. ASSUME NEW i \in Ids, ForgetLooksUp(f, i)
        PROVE  \E g : NamesFirst(g) /\ NamesKept(f, g)
    <2>1. PICK rest : rest = [old EXCEPT !.sweep = @ \ {i}]
      OBVIOUS
    <2>2. PICK g : g = IF MarkedBy(i) = {} THEN rest
                       ELSE [rest EXCEPT !.pc = "found",
                                         !.found = CHOOSE h \in MarkedBy(i) : TRUE]
      OBVIOUS
    <2>3. g.named = old.named /\ g.by = old.by /\ g.target = old.target /\ g.ok = old.ok
             /\ g.todo = old.todo /\ g.pc \in {"mapped", "found"}
      BY <1>1, <1>6, <2>1, <2>2 DEF ForgetLooksUp, ForgetAt, ForgetStates
    <2>4. NamesFirst(g) /\ Tombstones(g) = Tombstones(old)
      BY <1>1, <2>3 DEF NamesFirst, Tombstones
    <2>5. NamesKept(f, g)
      BY <1>6, <2>1, <2>2, <2>4 DEF ForgetLooksUp, NamesKept, queueVars
    <2> QED BY <2>4, <2>5
  <1>7. CASE ForgetFound(f)
    <2>1. PICK h : h = old.found
      OBVIOUS
    <2>2. PICK next : next = [old EXCEPT !.pc = "mapped", !.found = None]
      OBVIOUS
    <2>3. PICK gone : gone = [next EXCEPT !.ok = TRUE, !.named = @ \cup {h}]
      OBVIOUS
    <2>4. /\ NamesFirst(next) /\ NamesFirst(gone)
          /\ Tombstones(next) = Tombstones(old) /\ Tombstones(old) \subseteq Tombstones(gone)
          /\ HardDelete(h) \in Tombstones(gone)
      BY <1>1, <2>2, <2>3 DEF NamesFirst, ForgetStates, Tombstones, HardDelete
    <2>5. ForgetDeletes(f, h, gone, next) /\ UNCHANGED history
      BY <1>7, <2>1, <2>2, <2>3 DEF ForgetFound
    <2>6. NamesKept(f, gone) \/ NamesKept(f, next)
      BY <1>1, <2>4, <2>5, DeleteIsNamed
    <2> QED BY <2>4, <2>6
  <1>8. CASE ForgetRaises(f)
    BY <1>8 DEF ForgetRaises
  <1>9. CASE ForgetPurge(f)
    <2>1. PICK g : g = [old EXCEPT !.pc = "recording"]
      OBVIOUS
    <2>2. NamesFirst(g) /\ Tombstones(g) = Tombstones(old)
      BY <1>1, <2>1 DEF NamesFirst, ForgetStates, Tombstones
    <2>3. NamesKept(f, g)
      BY <1>9, <2>1, <2>2 DEF ForgetPurge, NamesKept
    <2> QED BY <2>2, <2>3
  <1>10. CASE ForgetTombstone(f)
    <2>1. NamesFirst(IdleForget)
      BY DEF IdleForget, NamesFirst
    <2>2. NamesKept(f, IdleForget)
      BY <1>10 DEF ForgetTombstone, EndForget, NamesKept
    <2> QED BY <2>1, <2>2
  <1> QED BY <1>2, <1>3, <1>4, <1>5, <1>6, <1>7, <1>8, <1>9, <1>10 DEF Forget

\* Calls and the queue erase nothing that a forget has to name.
LEMMA NameStays ==
  ASSUME QueueAssumption, ForgetAssumption, StoreMay \subseteq {"refuse"}, NameInv, [Next]_vars
  PROVE  NameInv'
  <1>1. TypeInv /\ TypeInv' /\ crashes \in Nat /\ forget \in [Forgetters -> ForgetStates]
    BY TypeStep DEF NameInv, TypeInv, TypeOK, CallTypeOK, ForgetTypeOK
  <1>2. CASE UNCHANGED forgetVars /\ history \subseteq history' /\ crashes' # 0
    BY <1>1, <1>2 DEF NameInv, forgetVars
  <1>3. CASE UNCHANGED <<forgetVars, crashes>> /\ history \subseteq history'
    BY <1>1, <1>3 DEF NameInv, forgetVars, ErasedIsNamed
  <1>4. CASE QueueStep \/ UNCHANGED vars \/ \E i \in Ids : Expiry(i)
    BY <1>3, <1>4 DEF QueueStep, Propose, EditBytes, RawApprove, vars, queueVars, callVars,
       Expiry, LeaseExpires
  <1>5. ASSUME NEW w \in Calls, CallStep(w)
        PROVE  NameInv'
    <2>1. CASE CallCrashes(w)
      BY <1>1, <1>2, <1>5, <2>1 DEF CallStep, CallCrashes, queueVars
    <2>2. CASE Decide(w)
      BY <1>3, <1>5, <2>2 DEF CallStep, Decide, ReadCandidate, AppendReject, Sweep,
         AppendApprove, AppendFails, AuthorizeRedrive, StampFresh, RefuseStamp, ApplyReject,
         queueVars
    <2>3. CASE Finalize(w)
      BY <1>3, <1>5, <2>3 DEF CallStep, Finalize, GatePasses, GateRefuses, GateClaims,
         BuildFails, CheckClaim, WriteLands, WriteAnswerLost, WriteIsDuplicate, WriteFails,
         LookupFinds, LookupFails, Fail, Record, RecordOfOther, RecordOrphan, Outcome,
         CleanupDeletes, CleanupFails, queueVars
    <2> QED BY <1>5, <2>1, <2>2, <2>3 DEF CallStep
  <1>6. ASSUME NEW f \in Forgetters, ForgetStep(f)
        PROVE  NameInv'
    <2>1. CASE Forget(f) /\ UNCHANGED callVars
      BY <1>1, <2>1, ForgetNames DEF NameInv, callVars
    <2>2. CASE ForgetCrashes(f)
      <3>1. crashes' # 0
        BY <1>1, <2>2 DEF ForgetCrashes
      <3>2. NamesFirst(IdleForget) /\ forget' = [forget EXCEPT ![f] = IdleForget]
        BY <2>2 DEF ForgetCrashes, EndForget, IdleForget, NamesFirst
      <3>3. \A e \in Forgetters : NamesFirst(forget'[e])
        BY <1>1, <3>2 DEF NameInv
      <3> QED BY <1>1, <3>1, <3>3 DEF NameInv
    <2> QED BY <1>6, <2>1, <2>2 DEF ForgetStep
  <1> QED BY <1>4, <1>5, <1>6 DEF Next

\* A store that answers truly lets no erasure go unnamed: what some forget
\* removed is in the history when no forget runs any more, or a process died.
THEOREM ErasureIsRecorded ==
  ASSUME StoreMay \subseteq {"refuse"}
  PROVE  Spec => []ErasureIsNamed
  <1>1. NameInv /\ [Next]_vars => NameInv'
    BY NameStays, QueueAssumption, ForgetAssumption
  <1>2. ASSUME NameInv, NobodyForgets, crashes = 0, NEW c \in erased
        PROVE  HardDelete(c) \in history
    <2>1. \A f \in Forgetters : Tombstones(forget[f]) = {}
      BY <1>2 DEF NameInv, NamesFirst, NobodyForgets, Tombstones
    <2> QED BY <1>2, <2>1 DEF NameInv, ErasedIsNamed
  <1>3. NameInv => ErasureIsNamed
    BY <1>2 DEF ErasureIsNamed, HardDelete
  <1> QED BY <1>1, <1>3, NameStarts, PTL DEF Spec

-----------------------------------------------------------------------------
(* Approved rows and their receipts *)

\* What the log, the edits and the callers say about a row: a forget marks
\* the rows it holds, an approval by the transport has its receipt in the log,
\* any other was made without one, and only a hand edit changes bytes.
RowIsSound(i) ==
    LET r == queue[i] IN
    /\ r.status = "unused" => r.fin = "none"
    /\ r.fin = "rtbf_deleting" => r.worker = Rtbf
    /\ r.status = "approved" /\ r.via = Via =>
          /\ r.receipt \in 1 .. Len(audit) /\ r.sha \in Contents
          /\ Attests(audit[r.receipt], i, r)
    /\ r.status = "approved" /\ r.via # Via => i \in Legacy /\ r.sha = None
    /\ r.status = "approved" /\ r.sha \notin {None, r.bytes} => edits > 0

\* The receipt a call is about to stamp is the record of its own decision.
CallIsSound(s) ==
    s.pc = "appended" =>
        s.seq \in 1 .. Len(audit) /\ audit[s.seq] = DecisionRecord(s.id, "approve", s.sha)

SoundInv ==
    /\ MemoryInv
    /\ edits <= MaxEdits
    /\ \A i \in Ids : RowIsSound(i)
    /\ \A w \in Calls : CallIsSound(call[w])

\* Nothing is approved in an empty box.
LEMMA SoundStarts == Init => SoundInv
  <1> SUFFICES ASSUME Init PROVE SoundInv
    OBVIOUS
  <1>1. \A i \in Ids : RowIsSound(i)
    BY DEF Init, QueueInit, BlankRow, RowIsSound
  <1>2. \A w \in Calls : CallIsSound(call[w])
    BY DEF Init, CallInit, IdleCall, CallIsSound
  <1>3. edits <= MaxEdits
    BY QueueAssumption DEF Init, QueueInit
  <1> QED BY <1>1, <1>2, <1>3, MemoryStarts DEF SoundInv

\* Hand edits are counted up to their bound.
LEMMA EditsAreCounted ==
  ASSUME QueueAssumption, SoundInv, [Next]_vars
  PROVE  edits' \in Nat /\ edits <= edits' /\ edits' <= MaxEdits
  <1>1. TypeInv /\ edits \in Nat /\ MaxEdits \in Nat /\ edits <= MaxEdits
    BY DEF SoundInv, MemoryInv, StampInv, TypeInv, TypeOK, QueueTypeOK, QueueAssumption
  <1>2. CASE UNCHANGED edits
    BY <1>1, <1>2
  <1>3. CASE \E i \in Ids, c \in Contents : EditBytes(i, c)
    BY <1>1, <1>3 DEF EditBytes
  <1>4. ASSUME NEW w \in Calls, CallStep(w)
        PROVE  UNCHANGED edits
    <2>1. CASE Decide(w) \/ CallCrashes(w)
      BY <2>1 DEF CallCrashes, Decide, ReadCandidate, AppendReject, Sweep, AppendApprove,
         AppendFails, AuthorizeRedrive, StampFresh, RefuseStamp, ApplyReject, queueVars
    <2>2. CASE Finalize(w)
      BY <2>2 DEF Finalize, GatePasses, GateRefuses, GateClaims, BuildFails, CheckClaim,
         WriteLands, WriteAnswerLost, WriteIsDuplicate, WriteFails, LookupFinds, LookupFails,
         Fail, Record, RecordOfOther, RecordOrphan, Outcome, CleanupDeletes, CleanupFails,
         queueVars
    <2> QED BY <1>4, <2>1, <2>2 DEF CallStep
  <1>5. ASSUME NEW f \in Forgetters, ForgetStep(f)
        PROVE  UNCHANGED edits
    BY <1>5 DEF ForgetStep, ForgetCrashes, Forget, ForgetClaim, ForgetTarget, ForgetResolve,
       ForgetMapped, ForgetLooksUp, ForgetFound, ForgetRaises, ForgetPurge, ForgetTombstone,
       queueVars
  <1> QED BY <1>2, <1>3, <1>4, <1>5 DEF Next, QueueStep, Propose, RawApprove, Expiry,
             LeaseExpires, vars, queueVars

\* A row whose decision, bytes and finalizer fields keep what soundness is
\* about stays sound.
LEMMA SoundRowStays ==
  ASSUME QueueAssumption, SoundInv, [Next]_vars, NEW i \in Ids,
         SameApproval(queue[i], queue'[i]),
         queue'[i].fin = queue[i].fin \/ queue[i].status # "unused",
         queue'[i].fin = "rtbf_deleting" => queue'[i].worker = Rtbf
  PROVE  RowIsSound(i)'
  <1>1. TypeInv /\ RowIsSound(i) /\ edits \in Nat
    BY DEF SoundInv, MemoryInv, StampInv, TypeInv, TypeOK, QueueTypeOK
  <1>2. \A k \in 1 .. Len(audit) : k \in 1 .. Len(audit') /\ audit'[k] = audit[k]
    BY <1>1, LogGrows
  <1>3. edits > 0 => edits' > 0
    BY <1>1, EditsAreCounted
  <1> QED BY <1>1, <1>2, <1>3 DEF RowIsSound, SameApproval, SameDecision, Attests

\* Every step keeps every row sound.
LEMMA RowSoundness ==
  ASSUME QueueAssumption, SoundInv, [Next]_vars, NEW i \in Ids
  PROVE  RowIsSound(i)'
  <1> DEFINE r == queue[i]
             s == queue'[i]
  <1>1. /\ TypeInv /\ queue \in [Ids -> Rows] /\ r \in Rows /\ edits \in Nat
        /\ RowIsSound(i) /\ SettledRow(r)
    BY DEF SoundInv, MemoryInv, RowsSettled, StampInv, TypeInv, TypeOK, QueueTypeOK
  <1>2. \A k \in 1 .. Len(audit) : k \in 1 .. Len(audit') /\ audit'[k] = audit[k]
    BY <1>1, LogGrows
  <1>3. edits' \in Nat /\ edits <= edits'
    BY EditsAreCounted
  <1>4. None \notin Contents /\ Via # None /\ Rtbf \notin Calls
    BY DEF QueueAssumption
  <1>5. CASE s = r
    BY <1>1, <1>5, SoundRowStays, FinalizerKeepsDecision DEF RowIsSound, SameApproval
  <1>6. CASE HandlesRow(i)
    <2>1. ASSUME NEW c \in Contents, Propose(i, c)
          PROVE  RowIsSound(i)'
      <3>1. s.status = "pending_approval" /\ s.fin = "none"
        BY <1>1, <2>1 DEF Propose, BlankRow
      <3> QED BY <3>1 DEF RowIsSound
    <2>2. ASSUME NEW c \in Contents, EditBytes(i, c)
          PROVE  RowIsSound(i)'
      <3>1. s = [r EXCEPT !.bytes = c] /\ edits' = edits + 1
        BY <1>1, <2>2 DEF EditBytes
      <3>2. /\ s.status = r.status /\ s.via = r.via /\ s.receipt = r.receipt
            /\ s.sha = r.sha /\ s.fin = r.fin /\ s.worker = r.worker
        BY <1>1, <3>1 DEF Rows
      <3>3. edits' > 0
        BY <1>1, <3>1
      <3>4. r.receipt \in 1 .. Len(audit) /\ Attests(audit[r.receipt], i, r) =>
               s.receipt \in 1 .. Len(audit') /\ Attests(audit'[s.receipt], i, s)
        BY <1>2, <3>2 DEF Attests
      <3> QED BY <1>1, <3>2, <3>3, <3>4 DEF RowIsSound
    <2>3. CASE RawApprove(i)
      <3>1. s = ApproveInConn(r, None, 0, None) /\ i \in Legacy
        BY <1>1, <2>3 DEF RawApprove
      <3>2. s.fin = r.fin /\ s.worker = r.worker /\ s.bytes = r.bytes
        BY <1>1, <3>1 DEF ApproveInConn, Rows
      <3>3. CASE r.status = "approved"
        BY <1>1, <3>1, <3>2, <3>3, SoundRowStays, RawApproveKeepsDecision
           DEF RowIsSound, SameApproval
      <3>4. CASE r.status # "approved"
        <4>1. s.status = "approved" /\ s.via = None /\ s.sha = None
          BY <1>1, <3>1, <3>4 DEF ApproveInConn, Rows
        <4> QED BY <1>1, <1>4, <3>1, <3>2, <4>1 DEF RowIsSound
      <3> QED BY <3>3, <3>4
    <2>4. CASE LeaseExpires(i)
      <3>1. s = [r EXCEPT !.stale = TRUE]
        BY <1>1, <2>4 DEF LeaseExpires
      <3>2. s.fin = r.fin /\ s.worker = r.worker
        BY <1>1, <3>1 DEF Rows
      <3>3. SameApproval(r, s)
        BY <1>1, <2>4, UpkeepSteps, UpkeepKeepsApproval
      <3> QED BY <1>1, <3>2, <3>3, SoundRowStays DEF RowIsSound
    <2> QED BY <1>6, <2>1, <2>2, <2>3, <2>4 DEF HandlesRow
  <1>7. ASSUME NEW w \in Calls, WorksOnRow(w, i)
        PROVE  RowIsSound(i)'
    <2>1. /\ call[w] \in CallStates /\ Announced(call[w]) /\ CallIsSound(call[w])
          /\ call[w].id = i
      BY <1>7 DEF WorksOnRow, SoundInv, MemoryInv, CallsAnnounced, StampInv, TypeInv, TypeOK,
         CallTypeOK
    <2>2. CASE StampFresh(w)
      <3>1. /\ s = ApproveInConn(r, Via, call[w].seq, call[w].sha)
            /\ r.status = "pending_approval" /\ Unclaimed(r)
            /\ FingerprintHolds(r, call[w].sha) /\ call[w].pc = "appended"
        BY <1>1, <2>1, <2>2 DEF StampFresh, FreshRow, Awaiting, ApprovableInConn, At, Row
      <3>2. /\ s.status = "approved" /\ s.via = Via /\ s.receipt = call[w].seq
            /\ s.sha = call[w].sha /\ s.bytes = r.bytes /\ s.fin = r.fin
        BY <1>1, <3>1 DEF ApproveInConn, Rows
      <3>3. call[w].sha \in Contents /\ r.bytes = call[w].sha
        BY <1>4, <2>1, <3>1 DEF Announced, FingerprintHolds
      <3>4. /\ call[w].seq \in 1 .. Len(audit)
            /\ audit[call[w].seq] = DecisionRecord(i, "approve", call[w].sha)
        BY <2>1, <3>1 DEF CallIsSound
      <3>5. s.receipt \in 1 .. Len(audit') /\ Attests(audit'[s.receipt], i, s)
        BY <1>2, <3>2, <3>4 DEF Attests, DecisionRecord
      <3>6. s.fin \in {"none", "failed"}
        BY <3>1, <3>2 DEF Unclaimed
      <3> QED BY <3>2, <3>3, <3>5, <3>6 DEF RowIsSound
    <2>3. CASE ApplyReject(w)
      <3>1. s = r \/ (s = [r EXCEPT !.status = "rejected"] /\ RejectableRow(r))
        BY <1>1, <2>1, <2>3 DEF ApplyReject, Row
      <3>2. CASE s = [r EXCEPT !.status = "rejected"] /\ RejectableRow(r)
        <4>1. s.status = "rejected" /\ s.fin = r.fin /\ r.fin \in {"none", "failed"}
          BY <1>1, <3>2 DEF RejectableRow, Unclaimed, Rows
        <4> QED BY <4>1 DEF RowIsSound
      <3> QED BY <1>5, <3>1, <3>2
    <2>4. CASE GateRefuses(w) \/ GateClaims(w) \/ Fail(w) \/ Record(w)
      <3>1. SameApproval(r, s)
        BY <1>1, <1>7, <2>1, <2>4, UpkeepSteps, UpkeepKeepsApproval
      <3>2. r.status # "unused"
        BY <2>1, <2>4 DEF Announced, GateRefuses, GateClaims, Fail, Record, At
      <3>3. s = r \/ s.fin # "rtbf_deleting"
        <4>1. \/ s = MarkFailed(r) \/ s = ClaimRow(r, w) \/ s = RecordRow(r, w, call[w].hash)
              \/ s = r \/ s = [r EXCEPT !.fin = "failed"]
          BY <1>1, <2>1, <2>4 DEF GateRefuses, GateClaims, Fail, Record
        <4> QED BY <1>1, <4>1 DEF MarkFailed, ClaimRow, RecordRow, Rows
      <3> QED BY <1>5, <3>1, <3>2, <3>3, SoundRowStays
    <2> QED BY <1>7, <2>2, <2>3, <2>4 DEF WorksOnRow
  <1>8. ASSUME NEW f \in Forgetters, TakesRow(f, i)
        PROVE  RowIsSound(i)'
    <2>1. s = ForgetRow(r) /\ r.status # "unused"
      BY <1>1, <1>8 DEF TakesRow, ForgetClaim, Matched, Matches, Exists
    <2>2. s.worker = Rtbf
      BY <1>1, <2>1 DEF ForgetRow, Rows
    <2>3. SameApproval(r, s)
      BY <1>1, <1>8, UpkeepSteps, UpkeepKeepsApproval
    <2> QED BY <2>1, <2>2, <2>3, SoundRowStays
  <1>9. ASSUME NEW f \in Forgetters, DropsRow(f, i)
        PROVE  RowIsSound(i)'
    <2>1. s.status = "purged" /\ s.fin = "none"
      BY <1>1, <1>9 DEF DropsRow, ForgetPurge, Purged, BlankRow
    <2> QED BY <2>1 DEF RowIsSound
  <1> QED BY <1>1, <1>5, <1>6, <1>7, <1>8, <1>9, RowActions

\* Every step keeps every receipt a call holds.
LEMMA CallSoundness ==
  ASSUME QueueAssumption, SoundInv, [Next]_vars, NEW w \in Calls
  PROVE  CallIsSound(call[w])'
  <1>1. /\ TypeInv /\ call \in [Calls -> CallStates] /\ call[w] \in CallStates
        /\ CallIsSound(call[w]) /\ audit \in Seq(AuditRecords)
    BY DEF SoundInv, MemoryInv, StampInv, TypeInv, TypeOK, CallTypeOK, QueueTypeOK
  <1>2. \A k \in 1 .. Len(audit) : k \in 1 .. Len(audit') /\ audit'[k] = audit[k]
    BY <1>1, LogGrows
  <1>3. CASE call'[w] = call[w]
    BY <1>1, <1>2, <1>3 DEF CallIsSound
  <1>4. CASE call'[w] = IdleCall
    BY <1>4 DEF IdleCall, CallIsSound
  <1>5. CASE AppendApprove(w)
    <2>1. call'[w] = [call[w] EXCEPT !.pc = "appended", !.seq = Len(audit) + 1]
      BY <1>1, <1>5 DEF AppendApprove
    <2>2. /\ call'[w].seq = Len(audit) + 1 /\ call'[w].id = call[w].id
          /\ call'[w].sha = call[w].sha
      BY <1>1, <2>1 DEF CallStates
    <2>3. audit' = Append(audit, DecisionRecord(call[w].id, "approve", call[w].sha))
      BY <1>5 DEF AppendApprove, AuditAppend
    <2>4. Len(audit) \in Nat /\ Len(audit') = Len(audit) + 1
             /\ audit'[Len(audit) + 1] = DecisionRecord(call[w].id, "approve", call[w].sha)
      BY <1>1, <2>3, LenProperties
    <2>5. Len(audit) + 1 \in 1 .. Len(audit')
      BY <2>4
    <2> QED BY <2>2, <2>4, <2>5 DEF CallIsSound
  <1>6. CASE Decide(w) /\ ~AppendApprove(w)
    <2>1. call'[w].pc # "appended"
      <3>1. ASSUME NEW i \in Ids, ReadCandidate(w, i) \/ AppendReject(w, i) \/ Sweep(w, i)
            PROVE  call'[w].pc \in {"read", "rejecting", "gate"}
        BY <1>1, <3>1 DEF ReadCandidate, AppendReject, Sweep, IdleCall
      <3>2. CASE AuthorizeRedrive(w) \/ StampFresh(w)
        BY <1>1, <3>2 DEF AuthorizeRedrive, StampFresh, Goto, CallStates
      <3>3. CASE AppendFails(w) \/ RefuseStamp(w) \/ ApplyReject(w)
        BY <1>1, <3>3 DEF AppendFails, RefuseStamp, ApplyReject, Return, IdleCall
      <3> QED BY <1>6, <3>1, <3>2, <3>3 DEF Decide
    <2> QED BY <2>1 DEF CallIsSound
  <1>7. CASE Finalize(w)
    <2>1. call'[w].pc # "appended"
      BY <1>1, <1>7, FinalizeStages DEF IdleCall
    <2> QED BY <2>1 DEF CallIsSound
  <1> QED BY <1>1, <1>3, <1>4, <1>5, <1>6, <1>7, CallSteps

LEMMA SoundStays ==
  ASSUME QueueAssumption, ForgetAssumption, SoundInv, [Next]_vars
  PROVE  SoundInv'
  <1>1. MemoryInv'
    BY MemoryStays DEF SoundInv
  <1> QED BY <1>1, EditsAreCounted, RowSoundness, CallSoundness DEF SoundInv

\* In every state an approval that the transport stamped has its receipt in
\* the log, and an approval without a receipt was made by a legacy caller.
THEOREM ApprovalsAreSound == Spec => []SoundInv
  <1>1. SoundInv /\ [Next]_vars => SoundInv'
    BY SoundStays, QueueAssumption, ForgetAssumption
  <1> QED BY <1>1, SoundStarts, PTL DEF Spec

-----------------------------------------------------------------------------
(* A forget keeps the rows it holds *)

\* A row that a forget holds leaves it only by the purge, unless the gate
\* finds its receipt broken or a legacy caller approves it.
LEMMA ForgetHolds ==
  ASSUME QueueAssumption, SoundInv, [Next]_vars, NEW i \in Ids,
         queue[i].fin = "rtbf_deleting"
  PROVE  \/ queue'[i].status = "purged"
         \/ queue'[i].fin = "rtbf_deleting" /\ queue'[i].status = queue[i].status
         \/ i \in Legacy /\ RawApprove(i)
         \/ /\ queue[i].status = "approved" /\ queue[i].bytes # queue[i].sha
            /\ queue'[i] = [queue[i] EXCEPT !.fin = "failed"]
  <1> DEFINE r == queue[i]
             s == queue'[i]
  <1>1. /\ TypeInv /\ queue \in [Ids -> Rows] /\ r \in Rows
        /\ RowIsSound(i) /\ SettledRow(r)
    BY DEF SoundInv, MemoryInv, RowsSettled, StampInv, TypeInv, TypeOK, QueueTypeOK
  <1>2. None \notin Contents /\ Rtbf \notin Calls
    BY DEF QueueAssumption
  <1>3. CASE HandlesRow(i)
    <2>1. ASSUME NEW c \in Contents
          PROVE  ~Propose(i, c)
      BY <1>1 DEF Propose, RowIsSound
    <2>2. ASSUME NEW c \in Contents, EditBytes(i, c)
          PROVE  s.fin = "rtbf_deleting" /\ s.status = r.status
      <3>1. s = [r EXCEPT !.bytes = c]
        BY <1>1, <2>2 DEF EditBytes
      <3> QED BY <1>1, <3>1 DEF Rows
    <2>3. ~LeaseExpires(i)
      BY DEF LeaseExpires, LiveClaim
    <2> QED BY <1>3, <2>1, <2>2, <2>3 DEF HandlesRow, RawApprove
  <1>4. ASSUME NEW w \in Calls, WorksOnRow(w, i)
        PROVE  s = r \/ (/\ r.status = "approved" /\ r.bytes # r.sha
                         /\ s = [r EXCEPT !.fin = "failed"])
    <2>1. ~StampFresh(w) /\ ~GateClaims(w) /\ ~Record(w)
      BY <1>4 DEF WorksOnRow, StampFresh, FreshRow, GateClaims, Claimable, Unclaimed, Record,
         ForgetWins, Row
    <2>2. CASE ApplyReject(w) \/ Fail(w)
      BY <1>1, <1>2, <1>4, <2>2 DEF WorksOnRow, ApplyReject, RejectableRow, Unclaimed, Fail,
         OwnsRow, Row, RowIsSound
    <2>3. CASE GateRefuses(w)
      <3>1. r.status = "approved" /\ s = [r EXCEPT !.fin = "failed"]
        BY <1>1, <1>4, <2>3 DEF WorksOnRow, GateRefuses, MarkFailed, Row
      <3>2. r.via # Via \/ ~ReceiptVerifies(i)
        BY <1>4, <2>3 DEF WorksOnRow, GateRefuses, Row
      <3>3. r.bytes \in Contents
        BY <1>1, <3>1 DEF SettledRow, Exists
      <3>4. r.bytes # r.sha
        BY <1>1, <1>2, <3>1, <3>2, <3>3 DEF RowIsSound, ReceiptVerifies, BytesAsApproved
      <3> QED BY <3>1, <3>4
    <2> QED BY <1>4, <2>1, <2>2, <2>3 DEF WorksOnRow
  <1>5. ASSUME NEW f \in Forgetters, TakesRow(f, i) \/ DropsRow(f, i)
        PROVE  \/ s.status = "purged"
               \/ s.fin = "rtbf_deleting" /\ s.status = r.status
    <2>1. s = ForgetRow(r) \/ s = BlankRow("purged")
      BY <1>1, <1>5 DEF TakesRow, ForgetClaim, DropsRow, ForgetPurge, Purged
    <2>2. /\ ForgetRow(r).fin = "rtbf_deleting" /\ ForgetRow(r).status = r.status
          /\ BlankRow("purged").status = "purged"
      BY <1>1 DEF ForgetRow, BlankRow, Rows
    <2> QED BY <2>1, <2>2
  <1> QED BY <1>1, <1>3, <1>4, <1>5, RowActions

\* While no caller approves without a receipt and nobody edits bytes, a row
\* that a forget holds is decided, claimed and finalized by nobody: no redrive
\* and no failing call takes it back before the forget, or the next one that
\* is asked for, has purged it.
THEOREM ForgetKeepsWhatItHolds ==
  ASSUME Legacy = {}, MaxEdits = 0
  PROVE  Spec => ForgetKeepsItsClaim
  <1> DEFINE Keeps(i) ==
        queue[i].fin = "rtbf_deleting" =>
          \/ queue'[i].status = "purged"
          \/ /\ queue'[i].fin = "rtbf_deleting"
             /\ queue'[i].status = queue[i].status
  <1>1. ASSUME SoundInv, [Next]_vars, NEW i \in Ids, queue[i].fin = "rtbf_deleting"
        PROVE  \/ queue'[i].status = "purged"
               \/ /\ queue'[i].fin = "rtbf_deleting"
                  /\ queue'[i].status = queue[i].status
    <2>1. edits \in Nat /\ edits = 0 /\ RowIsSound(i) /\ SettledRow(queue[i])
      BY <1>1 DEF SoundInv, MemoryInv, RowsSettled, StampInv, TypeInv, TypeOK, QueueTypeOK
    <2>2. queue[i].status = "approved" => queue[i].bytes = queue[i].sha
      BY <2>1, QueueAssumption DEF RowIsSound
    <2> QED BY <1>1, <2>2, ForgetHolds, QueueAssumption
  <1>2. SoundInv /\ [Next]_vars => [\A i \in Ids : Keeps(i)]_vars
    BY <1>1
  <1> QED BY <1>2, ApprovalsAreSound, PTL DEF Spec, ForgetKeepsItsClaim

-----------------------------------------------------------------------------
(* Claims of calls and of forgets *)

\* The stages in which a call counts on its claim.
Holders == {"claimed", "writing", "lookup", "failing", "recording"}

Owns(i, w) ==
    LET r == queue[i] IN
    Finalizable(r) /\ r.fin = "finalizing" /\ r.worker = w /\ ~r.stale

\* A row that a forget has in hand: purged, held, or given up for good by a
\* gate that found other bytes than the approved ones.
Taken(r) ==
    \/ r.status = "purged"
    \/ r.fin = "rtbf_deleting"
    \/ r.status = "approved" /\ r.fin = "failed" /\ r.bytes # r.sha

\* A call owns the row it works on until a forget purged it unasked, and has
\* an orphan to clean up only then.
CallHolds(w) ==
    /\ call[w].pc \in Holders => Owns(call[w].id, w) \/ call[w].id \in overrun
    /\ call[w].pc = "cleanup" => call[w].id \in overrun

ForgetHas(f) ==
    forget[f].pc # "idle" => \A i \in forget[f].claimed : Taken(queue[i])

ClaimInv ==
    /\ SoundInv
    /\ \A i \in overrun : queue[i].status = "purged"
    /\ \A w \in Calls : CallHolds(w)
    /\ \A f \in Forgetters : ForgetHas(f)

\* In an empty box nobody holds anything.
LEMMA ClaimStarts == Init => ClaimInv
  <1> SUFFICES ASSUME Init PROVE ClaimInv
    OBVIOUS
  <1>1. \A w \in Calls : CallHolds(w)
    BY DEF Init, CallInit, IdleCall, CallHolds, Holders
  <1>2. \A f \in Forgetters : ForgetHas(f)
    BY DEF Init, ForgetInit, IdleForget, ForgetHas
  <1>3. overrun = {}
    BY DEF Init, ForgetInit
  <1> QED BY <1>1, <1>2, <1>3, SoundStarts DEF ClaimInv

\* Nobody owns a row that a forget has in hand, nor one that was purged.
LEMMA TakenIsNotOwned ==
  ASSUME ClaimInv, NEW i \in Ids, NEW w, Taken(queue[i]) \/ i \in overrun
  PROVE  ~Owns(i, w)
  BY DEF ClaimInv, Taken, Owns, Finalizable

\* A purged row stays purged.
LEMMA PurgedStays ==
  ASSUME TypeInv, [Next]_vars, NEW i \in Ids, queue[i].status = "purged"
  PROVE  queue'[i].status = "purged"
  BY RowSteps DEF DecidedRow, SameDecision

\* Of the finalize steps only the claim lets a call count on a claim, and only
\* the record finds an orphan.
LEMMA HolderSteps ==
  ASSUME TypeInv, NEW w \in Calls, Finalize(w)
  PROVE  /\ call'[w].pc \in Holders =>
               GateClaims(w) \/ (call[w].pc \in Holders /\ ~Fail(w) /\ ~Record(w))
         /\ call'[w].pc = "cleanup" => RecordOrphan(w)
  <1> call \in [Calls -> CallStates] /\ call[w] \in CallStates
    BY DEF TypeInv, TypeOK, CallTypeOK
  <1>1. CASE \/ GatePasses(w) \/ GateRefuses(w) \/ Fail(w) \/ RecordOfOther(w) \/ Outcome(w)
             \/ CleanupDeletes(w) \/ CleanupFails(w)
    <2>1. call'[w] = IdleCall
      BY <1>1 DEF GatePasses, GateRefuses, Fail, RecordOfOther, Outcome, CleanupDeletes,
         CleanupFails, Return
    <2> QED BY <2>1 DEF IdleCall, Holders
  <1>2. CASE Record(w)
    <2>1. call'[w].pc = "outcome"
      BY <1>2 DEF Record, Goto, CallStates
    <2> QED BY <2>1 DEF Holders
  <1>3. CASE RecordOrphan(w)
    <2>1. call'[w].pc = "cleanup"
      BY <1>3 DEF RecordOrphan, Goto, CallStates
    <2> QED BY <1>3, <2>1 DEF Holders
  <1>4. CASE GateClaims(w)
    <2>1. call'[w].pc = "claimed"
      BY <1>4 DEF GateClaims, CallStates
    <2> QED BY <1>4, <2>1
  <1>5. CASE WriteLands(w)
    <2>1. call'[w].pc = "recording" /\ call[w].pc = "writing"
      BY <1>5 DEF WriteLands, At, CallStates
    <2> QED BY <1>5, <2>1 DEF Fail, Record, At, Holders
  <1>6. CASE LookupFinds(w)
    <2>1. call'[w].pc = "recording" /\ call[w].pc = "lookup"
      BY <1>6 DEF LookupFinds, At, CallStates
    <2> QED BY <1>6, <2>1 DEF Fail, Record, At, Holders
  <1>7. CASE \/ BuildFails(w) \/ CheckClaim(w) \/ WriteIsDuplicate(w) \/ WriteFails(w)
             \/ LookupFails(w) \/ WriteAnswerLost(w)
    <2>1. /\ call[w].pc \in {"claimed", "writing", "lookup"}
          /\ call'[w].pc \in {"idle", "writing", "lookup", "failing"}
      BY <1>7 DEF BuildFails, CheckClaim, WriteIsDuplicate, WriteFails, LookupFails,
         WriteAnswerLost, Goto, Return, IdleCall, At, CallStates
    <2> QED BY <2>1 DEF Fail, Record, At, Holders
  <1> QED BY <1>1, <1>2, <1>3, <1>4, <1>5, <1>6, <1>7 DEF Finalize

\* What a forget claimed stays the same until it ends.
LEMMA ForgetClaims ==
  ASSUME TypeInv, [Next]_vars, NEW f \in Forgetters
  PROVE  \/ forget'[f].pc = "idle"
         \/ forget[f].pc # "idle" /\ forget'[f].claimed = forget[f].claimed
         \/ \E by \in ForgetBy, c \in Contents :
               ForgetClaim(f, by, c) /\ forget'[f].claimed = Matched(by, c)
  <1>1. forget \in [Forgetters -> ForgetStates] /\ forget[f] \in ForgetStates
    BY DEF TypeInv, TypeOK, ForgetTypeOK
  <1>2. CASE forget'[f] = forget[f]
    BY <1>2
  <1>3. CASE UNCHANGED forgetVars
    BY <1>2, <1>3 DEF forgetVars
  <1>4. ASSUME NEW e \in Forgetters, ForgetStep(e), e # f
        PROVE  forget'[f] = forget[f]
    BY <1>1, <1>4 DEF ForgetStep, ForgetCrashes, Forget, ForgetClaim, ForgetTarget,
       ForgetDeletes, ForgetResolve, ForgetMapped, ForgetLooksUp, ForgetFound, ForgetRaises,
       ForgetPurge, ForgetTombstone, EndForget
  <1>5. CASE ForgetStep(f)
    <2>1. EndForget(f) => forget'[f].pc = "idle"
      BY <1>1 DEF EndForget, IdleForget
    <2>2. ASSUME NEW g, forget' = [forget EXCEPT ![f] = g],
                 g.pc = "idle" \/ g.claimed = forget[f].claimed
          PROVE  forget'[f].pc = "idle" \/ forget'[f].claimed = forget[f].claimed
      BY <1>1, <2>2
    <2>3. ASSUME NEW h, NEW removed, NEW kept, ForgetDeletes(f, h, removed, kept),
                 removed.claimed = forget[f].claimed, kept.claimed = forget[f].claimed
          PROVE  forget'[f].pc = "idle" \/ forget'[f].claimed = forget[f].claimed
      <3>1. \/ forget' = [forget EXCEPT ![f] = removed]
            \/ forget' = [forget EXCEPT ![f] = kept]
            \/ EndForget(f)
        <4>1. PICK says \in {"true", "false", "raised"} :
                CASE says = "true"   -> forget' = [forget EXCEPT ![f] = removed]
                  [] says = "false"  -> forget' = [forget EXCEPT ![f] = kept]
                  [] says = "raised" -> EndForget(f)
          BY <2>3 DEF ForgetDeletes
        <4>2. CASE says = "true"
          BY <4>1, <4>2
        <4>3. CASE says = "false"
          BY <4>1, <4>3
        <4>4. CASE says = "raised"
          BY <4>1, <4>4
        <4> QED BY <4>2, <4>3, <4>4
      <3> QED BY <2>1, <2>2, <2>3, <3>1
    <2>4. CASE ForgetCrashes(f) \/ ForgetRaises(f) \/ ForgetTombstone(f)
      BY <2>1, <2>4 DEF ForgetCrashes, ForgetRaises, ForgetTombstone
    <2>5. ASSUME NEW by \in ForgetBy, NEW c \in Contents, ForgetClaim(f, by, c)
          PROVE  forget'[f].claimed = Matched(by, c)
      BY <1>1, <2>5 DEF ForgetClaim, IdleForget
    <2>6. CASE ForgetTarget(f)
      <3> DEFINE next == [forget[f] EXCEPT !.pc = "resolving"]
      <3>1. /\ next.claimed = forget[f].claimed
            /\ [next EXCEPT !.ok = TRUE].claimed = forget[f].claimed
        BY <1>1 DEF ForgetStates
      <3>2. forget[f].pc # "idle"
        BY <2>6 DEF ForgetTarget, ForgetAt
      <3>3. \/ ForgetDeletes(f, forget[f].target, [next EXCEPT !.ok = TRUE], next)
            \/ forget' = [forget EXCEPT ![f] = next]
        BY <2>6 DEF ForgetTarget
      <3> HIDE DEF next
      <3> QED BY <2>2, <2>3, <3>1, <3>2, <3>3
    <2>7. CASE ForgetResolve(f) \/ ForgetPurge(f)
      <3>1. forget'[f].claimed = forget[f].claimed /\ forget[f].pc # "idle"
        BY <1>1, <2>7 DEF ForgetResolve, ForgetPurge, ForgetAt, ForgetStates
      <3> QED BY <3>1
    <2>8. ASSUME NEW h \in Contents, ForgetMapped(f, h)
          PROVE  \/ forget'[f].pc = "idle"
                 \/ forget[f].pc # "idle" /\ forget'[f].claimed = forget[f].claimed
      <3> DEFINE next == [forget[f] EXCEPT !.todo = @ \ {h}]
      <3>1. /\ next.claimed = forget[f].claimed
            /\ [next EXCEPT !.ok = TRUE].claimed = forget[f].claimed
        BY <1>1 DEF ForgetStates
      <3>2. /\ forget[f].pc # "idle"
            /\ ForgetDeletes(f, h, [next EXCEPT !.ok = TRUE], next)
        BY <2>8 DEF ForgetMapped, ForgetAt
      <3> HIDE DEF next
      <3> QED BY <2>3, <3>1, <3>2
    <2>9. ASSUME NEW i \in Ids, ForgetLooksUp(f, i)
          PROVE  forget[f].pc # "idle" /\ forget'[f].claimed = forget[f].claimed
      <3> DEFINE rest == [forget[f] EXCEPT !.sweep = @ \ {i}]
      <3>1. /\ rest.claimed = forget[f].claimed
            /\ \A h : [rest EXCEPT !.pc = "found", !.found = h].claimed = forget[f].claimed
        BY <1>1 DEF ForgetStates
      <3>2. \/ forget'[f] = rest
            \/ \E h : forget'[f] = [rest EXCEPT !.pc = "found", !.found = h]
        BY <1>1, <2>9 DEF ForgetLooksUp
      <3>3. forget[f].pc # "idle"
        BY <2>9 DEF ForgetLooksUp, ForgetAt
      <3> HIDE DEF rest
      <3> QED BY <3>1, <3>2, <3>3
    <2>10. CASE ForgetFound(f)
      <3> DEFINE next == [forget[f] EXCEPT !.pc = "mapped", !.found = None]
                 gone == [next EXCEPT !.ok = TRUE, !.named = @ \cup {forget[f].found}]
      <3>1. /\ next.claimed = forget[f].claimed /\ gone.claimed = forget[f].claimed
        BY <1>1 DEF ForgetStates
      <3>2. /\ forget[f].pc # "idle" /\ ForgetDeletes(f, forget[f].found, gone, next)
        BY <2>10 DEF ForgetFound, ForgetAt
      <3> HIDE DEF next, gone
      <3> QED BY <2>3, <3>1, <3>2
    <2> QED BY <1>5, <2>4, <2>5, <2>6, <2>7, <2>8, <2>9, <2>10 DEF ForgetStep, Forget
  <1> QED BY <1>2, <1>3, <1>4, <1>5
     DEF Next, QueueStep, Expiry, CallStep, vars

\* A row that a forget has in hand stays so, while nobody can edit spoiled
\* bytes back.
LEMMA TakenStays ==
  ASSUME QueueAssumption, MaxEdits <= 1, ClaimInv, [Next]_vars, NEW i \in Ids,
         Taken(queue[i])
  PROVE  Taken(queue'[i])
  <1> DEFINE r == queue[i]
             s == queue'[i]
  <1>1. /\ SoundInv /\ TypeInv /\ queue \in [Ids -> Rows] /\ r \in Rows
        /\ RowIsSound(i) /\ SettledRow(r) /\ edits \in Nat /\ MaxEdits \in Nat
    BY DEF ClaimInv, SoundInv, MemoryInv, RowsSettled, StampInv, TypeInv, TypeOK, QueueTypeOK,
       QueueAssumption
  <1>2. CASE r.status = "purged"
    BY <1>1, <1>2, PurgedStays DEF Taken
  <1>3. CASE r.fin = "rtbf_deleting"
    <2>1. CASE i \in Legacy /\ RawApprove(i)
      <3>1. s = ApproveInConn(r, None, 0, None)
        BY <1>1, <2>1 DEF RawApprove
      <3>2. s.fin = r.fin
        BY <1>1, <3>1 DEF ApproveInConn, Rows
      <3> QED BY <1>3, <3>2 DEF Taken
    <2>2. CASE /\ r.status = "approved" /\ r.bytes # r.sha
               /\ s = [r EXCEPT !.fin = "failed"]
      BY <1>1, <2>2 DEF Taken, Rows
    <2> QED BY <1>1, <1>3, <2>1, <2>2, ForgetHolds DEF Taken
  <1>4. CASE r.status = "approved" /\ r.fin = "failed" /\ r.bytes # r.sha
    <2>1. r.bytes \in Contents /\ None \notin Contents /\ Via # None
      BY <1>1, <1>4 DEF SettledRow, Exists, QueueAssumption
    <2>2. CASE HandlesRow(i)
      <3>1. ASSUME NEW c \in Contents
            PROVE  ~Propose(i, c)
        BY <1>4 DEF Propose
      <3>2. ASSUME NEW c \in Contents, EditBytes(i, c)
            PROVE  Taken(s)
        <4>1. s = [r EXCEPT !.bytes = c] /\ edits < MaxEdits
          BY <1>1, <3>2 DEF EditBytes
        <4>2. r.sha = None
          BY <1>1, <1>4, <4>1 DEF RowIsSound
        <4>3. s.status = "approved" /\ s.fin = "failed" /\ s.bytes = c /\ s.sha = None
          BY <1>1, <1>4, <4>1, <4>2 DEF Rows
        <4> QED BY <2>1, <4>3 DEF Taken
      <3>3. CASE RawApprove(i)
        <4>1. s = ApproveInConn(r, None, 0, None)
          BY <1>1, <3>3 DEF RawApprove
        <4>2. s.status = r.status /\ s.fin = r.fin /\ s.bytes = r.bytes /\ s.sha = r.sha
          BY <1>1, <1>4, <4>1 DEF ApproveInConn, Rows
        <4> QED BY <1>4, <4>2 DEF Taken
      <3>4. ~LeaseExpires(i)
        BY <1>4 DEF LeaseExpires, LiveClaim
      <3> QED BY <2>2, <3>1, <3>2, <3>3, <3>4 DEF HandlesRow
    <2>3. ASSUME NEW w \in Calls, WorksOnRow(w, i)
          PROVE  Taken(s)
      <3>1. ~StampFresh(w) /\ ~GateClaims(w)
        BY <1>4, <2>3 DEF WorksOnRow, StampFresh, FreshRow, Awaiting, GateClaims,
           ReceiptVerifies, BytesAsApproved, Row
      <3>2. ~Record(w)
        <4>1. ~Owns(i, w) /\ i \notin overrun
          BY <1>4 DEF Owns, ClaimInv
        <4> QED BY <2>3, <4>1 DEF WorksOnRow, Record, At, ClaimInv, CallHolds, Holders
      <3>3. CASE ApplyReject(w)
        BY <1>1, <1>4, <2>3, <3>3
           DEF WorksOnRow, ApplyReject, RejectableRow, Awaiting, Row, Taken
      <3>4. CASE GateRefuses(w) \/ Fail(w)
        <4>1. s = r \/ s = [r EXCEPT !.fin = "failed"]
          BY <1>1, <1>4, <2>3, <3>4 DEF WorksOnRow, GateRefuses, MarkFailed, Fail
        <4>2. s.status = r.status /\ s.fin = r.fin /\ s.bytes = r.bytes /\ s.sha = r.sha
          BY <1>1, <1>4, <4>1 DEF Rows
        <4> QED BY <1>4, <4>2 DEF Taken
      <3> QED BY <2>3, <3>1, <3>2, <3>3, <3>4 DEF WorksOnRow
    <2>4. ASSUME NEW f \in Forgetters, TakesRow(f, i) \/ DropsRow(f, i)
          PROVE  Taken(s)
      <3>1. s = ForgetRow(r) \/ s = BlankRow("purged")
        BY <1>1, <2>4 DEF TakesRow, ForgetClaim, DropsRow, ForgetPurge, Purged
      <3>2. ForgetRow(r).fin = "rtbf_deleting" /\ BlankRow("purged").status = "purged"
        BY <1>1 DEF ForgetRow, BlankRow, Rows
      <3> QED BY <3>1, <3>2 DEF Taken
    <2>5. CASE s = r
      BY <1>4, <2>5 DEF Taken
    <2> QED BY <1>1, <2>2, <2>3, <2>4, <2>5, RowActions
  <1> QED BY <1>2, <1>3, <1>4 DEF Taken

\* A call that goes on keeps its claim, unless a forget that did not have the
\* row in hand purges it.
LEMMA OwnedStays ==
  ASSUME QueueAssumption, ~SlowCalls, ClaimInv, [Next]_vars, NEW i \in Ids, NEW w \in Calls,
         call[w].pc \in Holders, call[w].id = i, Owns(i, w), ~Fail(w), ~Record(w)
  PROVE  Owns(i, w)' \/ i \in overrun'
  <1> DEFINE r == queue[i]
             s == queue'[i]
  <1>1. /\ TypeInv /\ queue \in [Ids -> Rows] /\ r \in Rows
        /\ r.status = "approved" /\ r.via = Via /\ r.fin = "finalizing" /\ r.worker = w
        /\ ~r.stale /\ LiveClaim(r)
    BY DEF ClaimInv, SoundInv, MemoryInv, StampInv, TypeInv, TypeOK, QueueTypeOK, Owns,
       Finalizable, LiveClaim
  <1>2. ASSUME s.status = r.status, s.via = r.via, s.fin = r.fin, s.worker = r.worker,
               s.stale = r.stale
        PROVE  Owns(i, w)'
    BY <1>1, <1>2 DEF Owns, Finalizable
  <1>3. CASE HandlesRow(i)
    <2>1. ASSUME NEW c \in Contents
          PROVE  ~Propose(i, c)
      BY <1>1 DEF Propose
    <2>2. ASSUME NEW c \in Contents, EditBytes(i, c)
          PROVE  Owns(i, w)'
      <3>1. s = [r EXCEPT !.bytes = c]
        BY <1>1, <2>2 DEF EditBytes
      <3> QED BY <1>1, <1>2, <3>1 DEF Rows
    <2>3. CASE RawApprove(i)
      <3>1. s = ApproveInConn(r, None, 0, None)
        BY <1>1, <2>3 DEF RawApprove
      <3>2. Via # None
        BY DEF QueueAssumption
      <3> QED BY <1>1, <1>2, <3>1, <3>2 DEF ApproveInConn, Rows
    <2>4. ~LeaseExpires(i)
      BY <1>1 DEF LeaseExpires, HoldsClaim, Holders
    <2> QED BY <1>3, <2>1, <2>2, <2>3, <2>4 DEF HandlesRow
  <1>4. ASSUME NEW v \in Calls, WorksOnRow(v, i)
        PROVE  s = r
    <2>1. /\ ~StampFresh(v) /\ ~GateRefuses(v) /\ ~GateClaims(v)
          /\ ApplyReject(v) => s = r
      BY <1>1, <1>4 DEF WorksOnRow, StampFresh, FreshRow, Awaiting, GateRefuses, GateClaims,
         Claimable, Unclaimed, LiveClaim, ApplyReject, RejectableRow, Row
    <2>2. Fail(v) => s = r
      <3>1. v # w => ~OwnsRow(r, v)
        BY <1>1 DEF OwnsRow
      <3>2. Fail(v) => v # w
        OBVIOUS
      <3> QED BY <1>1, <1>4, <3>1, <3>2 DEF WorksOnRow, Fail, Row
    <2>3. ~Record(v)
      <3>1. Record(v) => Owns(i, v)
        BY <1>1, <1>4 DEF WorksOnRow, Record, At, ClaimInv, CallHolds, Holders
      <3>2. Owns(i, v) => v = w
        BY <1>1 DEF Owns
      <3> QED BY <3>1, <3>2
    <2> QED BY <1>4, <2>1, <2>2, <2>3 DEF WorksOnRow
  <1>5. ASSUME NEW f \in Forgetters
        PROVE  ~TakesRow(f, i)
    BY <1>1 DEF TakesRow, ForgetClaim, Deferred
  <1>6. ASSUME NEW f \in Forgetters, DropsRow(f, i)
        PROVE  i \in overrun'
    <2>1. i \notin forget[f].claimed
      BY <1>1, <1>6, TakenIsNotOwned DEF DropsRow, ForgetPurge, ForgetAt, ClaimInv, ForgetHas
    <2> QED BY <1>6, <2>1 DEF DropsRow, ForgetPurge
  <1>7. CASE s = r
    BY <1>2, <1>7
  <1> QED BY <1>1, <1>3, <1>4, <1>5, <1>6, <1>7, RowActions

\* What a forget overran stays overrun, and is purged.
LEMMA OverrunStays ==
  ASSUME ClaimInv, [Next]_vars
  PROVE  overrun \subseteq overrun' /\ \A i \in overrun' : queue'[i].status = "purged"
  <1>1. /\ TypeInv /\ overrun \subseteq Ids /\ queue \in [Ids -> Rows]
        /\ \A i \in overrun : queue[i].status = "purged"
    BY DEF ClaimInv, SoundInv, MemoryInv, StampInv, TypeInv, TypeOK, QueueTypeOK, ForgetTypeOK
  <1>2. \A i \in overrun : queue'[i].status = "purged"
    BY <1>1, PurgedStays
  <1>3. CASE UNCHANGED overrun
    BY <1>2, <1>3
  <1>4. ASSUME NEW f \in Forgetters, ForgetPurge(f)
        PROVE  overrun \subseteq overrun' /\ \A i \in overrun' : queue'[i].status = "purged"
    <2>1. overrun' = overrun \cup (Matched(forget[f].by, forget[f].target) \ forget[f].claimed)
      BY <1>4 DEF ForgetPurge
    <2>2. ASSUME NEW i \in Matched(forget[f].by, forget[f].target)
          PROVE  queue'[i].status = "purged"
      BY <1>4, <2>2 DEF ForgetPurge, Purged, Matched, BlankRow
    <2> QED BY <1>2, <2>1, <2>2
  <1> QED BY <1>3, <1>4
     DEF Next, QueueStep, Expiry, CallStep, ForgetStep, Forget, ForgetCrashes, ForgetClaim,
         ForgetTarget, ForgetResolve, ForgetMapped, ForgetLooksUp, ForgetFound, ForgetRaises,
         ForgetTombstone, vars, forgetVars

\* Every step keeps the claims of calls and forgets.
LEMMA ClaimStays ==
  ASSUME QueueAssumption, ForgetAssumption, ~SlowCalls, MaxEdits <= 1, ClaimInv, [Next]_vars
  PROVE  ClaimInv'
  <1>1. /\ SoundInv /\ SoundInv' /\ TypeInv /\ call \in [Calls -> CallStates]
        /\ queue \in [Ids -> Rows] /\ CallShape
    BY SoundStays DEF ClaimInv, SoundInv, MemoryInv, StampInv, TypeInv, TypeOK, CallTypeOK,
       QueueTypeOK
  <1>2. ASSUME NEW w \in Calls
        PROVE  CallHolds(w)'
    <2>1. CallHolds(w) /\ Shaped(call[w]) /\ call[w] \in CallStates
      BY <1>1 DEF ClaimInv, CallShape
    <2>2. ASSUME call[w].pc \in Holders, ~Fail(w), ~Record(w)
          PROVE  \E i \in Ids : i = call[w].id /\ (Owns(i, w)' \/ i \in overrun')
      <3>1. call[w].id \in Ids
        BY <2>1, <2>2 DEF Shaped, Holders
      <3>2. PICK i \in Ids : i = call[w].id
        BY <3>1
      <3>3. CASE i \in overrun
        BY <3>2, <3>3, OverrunStays
      <3>4. CASE Owns(i, w)
        BY <2>2, <3>2, <3>4, OwnedStays
      <3> QED BY <2>1, <2>2, <3>2, <3>3, <3>4 DEF CallHolds
    <2>3. CASE call'[w] = call[w]
      <3>1. call[w].pc \in Holders => ~Fail(w) /\ ~Record(w)
        <4>1. Fail(w) \/ Record(w) => call'[w].pc \in {"idle", "outcome"}
          BY <1>1, <2>1 DEF Fail, Record, Goto, Return, IdleCall, CallStates
        <4> QED BY <2>3, <4>1 DEF Holders
      <3> QED BY <2>1, <2>2, <2>3, <3>1, OverrunStays DEF CallHolds
    <2>4. CASE call'[w] = IdleCall
      BY <2>4 DEF IdleCall, CallHolds, Holders
    <2>5. CASE Decide(w)
      BY <1>1, <2>5, DecideStages DEF CallHolds, Holders
    <2>6. CASE Finalize(w)
      <3>1. CASE GateClaims(w)
        <4>1. /\ call'[w].pc = "claimed" /\ call'[w].id = call[w].id /\ call[w].id \in Ids
              /\ queue' = [queue EXCEPT ![call[w].id] = ClaimRow(queue[call[w].id], w)]
              /\ Finalizable(queue[call[w].id]) /\ queue[call[w].id] \in Rows
          BY <1>1, <2>1, <3>1 DEF GateClaims, At, Row, Shaped, CallStates
        <4>2. Owns(call[w].id, w)'
          BY <1>1, <4>1 DEF ClaimRow, Owns, Finalizable, Rows
        <4> QED BY <4>1, <4>2 DEF CallHolds
      <3>2. CASE RecordOrphan(w)
        <4>1. /\ call'[w].pc = "cleanup" /\ call'[w].id = call[w].id
              /\ call[w].pc = "recording" /\ ForgetWins(queue[call[w].id])
          BY <1>1, <2>1, <3>2 DEF RecordOrphan, At, Row, Goto, CallStates
        <4>2. call[w].id \in overrun
          BY <2>1, <4>1 DEF CallHolds, Holders, Owns, Finalizable, ForgetWins, Exists
        <4> QED BY <4>1, <4>2, OverrunStays DEF CallHolds, Holders
      <3>3. CASE ~GateClaims(w) /\ ~RecordOrphan(w)
        <4>1. /\ call'[w].pc # "cleanup"
              /\ call'[w].pc \in Holders => /\ call[w].pc \in Holders /\ ~Fail(w)
                                            /\ ~Record(w) /\ call'[w].id = call[w].id
          BY <1>1, <2>6, <3>3, HolderSteps, FinalizeStages DEF IdleCall, Holders
        <4> QED BY <2>2, <4>1 DEF CallHolds
      <3> QED BY <3>1, <3>2, <3>3
    <2> QED BY <1>1, <2>3, <2>4, <2>5, <2>6, CallSteps
  <1>3. ASSUME NEW f \in Forgetters
        PROVE  ForgetHas(f)'
    <2>1. ForgetHas(f) /\ forget[f] \in ForgetStates
      BY <1>1 DEF ClaimInv, TypeInv, TypeOK, ForgetTypeOK
    <2>2. CASE forget[f].pc # "idle" /\ forget'[f].claimed = forget[f].claimed
      <3>1. \A i \in forget[f].claimed : i \in Ids /\ Taken(queue[i])
        BY <2>1, <2>2 DEF ForgetHas, ForgetStates
      <3> QED BY <2>2, <3>1, TakenStays DEF ForgetHas
    <2>3. ASSUME NEW by \in ForgetBy, NEW c \in Contents, ForgetClaim(f, by, c),
                 forget'[f].claimed = Matched(by, c)
          PROVE  ForgetHas(f)'
      <3>1. ASSUME NEW i \in Matched(by, c)
            PROVE  Taken(queue'[i])
        <4>1. i \in Ids /\ queue[i] \in Rows /\ queue'[i] = ForgetRow(queue[i])
          BY <1>1, <2>3 DEF ForgetClaim, Matched
        <4> QED BY <4>1 DEF ForgetRow, Rows, Taken
      <3> QED BY <2>3, <3>1 DEF ForgetHas
    <2>4. CASE forget'[f].pc = "idle"
      BY <2>4 DEF ForgetHas
    <2> QED BY <1>1, <2>2, <2>3, <2>4, ForgetClaims
  <1> QED BY <1>1, <1>2, <1>3, OverrunStays DEF ClaimInv

LEMMA ClaimsCorrect ==
  ASSUME ~SlowCalls, MaxEdits <= 1
  PROVE  Spec => []ClaimInv
  <1>1. ClaimInv /\ [Next]_vars => ClaimInv'
    BY ClaimStays, QueueAssumption, ForgetAssumption
  <1> QED BY <1>1, ClaimStarts, PTL DEF Spec

\* While calls end within their lease, nothing becomes durable without a
\* claim: a call that reaches the write after a stop of any length still owns
\* the row, or a forget that did not know of the row has purged it meanwhile.
THEOREM WritesAreClaimed ==
  ASSUME ~SlowCalls, MaxEdits <= 1
  PROVE  Spec => WriteNeedsClaim
  <1> DEFINE Claimed(c) ==
        store'[c] \notin {None, store[c]} =>
           queue[store'[c]].fin = "finalizing" \/ store'[c] \in overrun
  <1>1. ASSUME ClaimInv, [Next]_vars, NEW c \in Contents
        PROVE  store'[c] \notin {None, store[c]} =>
                  queue[store'[c]].fin = "finalizing" \/ store'[c] \in overrun
    <2>1. TypeInv
      BY <1>1 DEF ClaimInv, SoundInv, MemoryInv, StampInv
    <2>2. \A w \in Calls : CallHolds(w)
      BY <1>1 DEF ClaimInv
    <2> QED BY <1>1, <2>1, <2>2, StoreSteps DEF CallHolds, Holders, Owns
  <1>2. ClaimInv /\ [Next]_vars => [\A c \in Contents : Claimed(c)]_vars
    BY <1>1
  <1> QED BY <1>2, ClaimsCorrect, PTL DEF Spec, WriteNeedsClaim

-----------------------------------------------------------------------------
(* What a forget looked up is gone *)

\* A forget looks up every row it claimed; those it has looked up carry no
\* durable row any more, but the one it is about to delete.
Swept(f) ==
    LET g == forget[f] IN
    /\ g.pc \in {"claimed", "resolving"} => g.claimed \subseteq g.sweep
    /\ g.pc \in {"mapped", "found"} => \A i \in g.claimed \ g.sweep :
          i \in overrun \/ MarkedBy(i) \subseteq IF g.pc = "found" THEN {g.found} ELSE {}

\* A durable row belongs to an approval of the queue, or to an overrun one.
DurableIsMapped ==
    \A c \in Contents : store[c] # None => Exists(queue[store[c]]) \/ store[c] \in overrun

SweepInv ==
    /\ ClaimInv
    /\ \A f \in Forgetters : Swept(f)
    /\ DurableIsMapped

LEMMA SweepStarts == Init => SweepInv
  <1> SUFFICES ASSUME Init PROVE SweepInv
    OBVIOUS
  <1>1. \A f \in Forgetters : Swept(f)
    BY DEF Init, ForgetInit, IdleForget, Swept
  <1>2. DurableIsMapped
    BY DEF Init, QueueInit, DurableIsMapped
  <1> QED BY <1>1, <1>2, ClaimStarts DEF SweepInv

\* A row that a forget has in hand gets no new durable row.
LEMMA MarksShrink ==
  ASSUME ClaimInv, [Next]_vars, NEW i \in Ids, Taken(queue[i])
  PROVE  i \in overrun \/ MarkedBy(i)' \subseteq MarkedBy(i)
  <1>1. TypeInv /\ \A w \in Calls : CallHolds(w)
    BY DEF ClaimInv, SoundInv, MemoryInv, StampInv
  <1>2. ASSUME i \notin overrun, NEW c \in Contents, store'[c] = i
        PROVE  store[c] = i
    <2>1. ~\E w \in Calls : call[w].pc = "writing" /\ call[w].id = i
      BY <1>1, <1>2, TakenIsNotOwned DEF CallHolds, Holders
    <2> QED BY <1>1, <1>2, <2>1, StoreSteps, QueueAssumption
  <1> QED BY <1>2 DEF MarkedBy

\* An approval has at most one durable row: what a lookup finds is all.
LEMMA LookupFindsAll ==
  ASSUME ClaimInv, NEW i \in Ids, NEW h \in MarkedBy(i)
  PROVE  MarkedBy(i) = {h}
  <1>1. TiedToOne
    BY DEF ClaimInv, SoundInv, MemoryInv, StampInv
  <1> QED BY <1>1 DEF TiedToOne, Tied, MarkedBy

\* A store that never refuses removes what it is asked to delete, unless it
\* raises.
LEMMA DeleteRemoves ==
  ASSUME TypeInv, "refuse" \notin StoreMay, NEW f \in Forgetters, NEW h \in Contents,
         NEW removed, NEW kept, ForgetDeletes(f, h, removed, kept)
  PROVE  \/ EndForget(f)
         \/ /\ store'[h] = None
            /\ \/ forget' = [forget EXCEPT ![f] = removed]
               \/ forget' = [forget EXCEPT ![f] = kept]
  <1>1. PICK says \in {"true", "false", "raised"} :
          /\ StoreDelete(h, says)
          /\ CASE says = "true"   -> forget' = [forget EXCEPT ![f] = removed]
               [] says = "false"  -> forget' = [forget EXCEPT ![f] = kept]
               [] says = "raised" -> EndForget(f)
    BY DEF ForgetDeletes
  <1>2. store \in [Contents -> Ids \cup {None}]
    BY DEF TypeInv, TypeOK, QueueTypeOK
  <1>3. CASE says = "true"
    <2>1. store'[h] = None
      BY <1>1, <1>2, <1>3 DEF StoreDelete, Removed
    <2> QED BY <1>1, <1>3, <2>1
  <1>4. CASE says = "false"
    <2>1. store'[h] = None
      BY <1>1, <1>2, <1>4 DEF StoreDelete, Removed
    <2> QED BY <1>1, <1>4, <2>1
  <1>5. CASE says = "raised"
    BY <1>1, <1>5
  <1> QED BY <1>3, <1>4, <1>5

\* Steps that leave a forget where it is leave it swept.
LEMMA SweptStays ==
  ASSUME QueueAssumption, SweepInv, [Next]_vars, NEW f \in Forgetters,
         UNCHANGED forget[f]
  PROVE  Swept(f)'
  <1>1. Swept(f) /\ ClaimInv /\ ForgetHas(f) /\ forget[f] \in ForgetStates
    BY DEF SweepInv, ClaimInv, SoundInv, MemoryInv, StampInv, TypeInv, TypeOK, ForgetTypeOK
  <1>2. ASSUME forget[f].pc \in {"mapped", "found"},
               NEW i \in forget[f].claimed \ forget[f].sweep
        PROVE  i \in overrun' \/ MarkedBy(i)' \subseteq MarkedBy(i)
    <2>1. i \in Ids /\ Taken(queue[i])
      BY <1>1, <1>2 DEF ForgetHas, ForgetStates
    <2> QED BY <1>1, <2>1, MarksShrink, OverrunStays
  <1>3. overrun \subseteq overrun'
    BY <1>1, OverrunStays
  <1> QED BY <1>1, <1>2, <1>3 DEF Swept

\* Every step of a forget keeps the rows it looked up swept.
LEMMA ForgetSweeps ==
  ASSUME QueueAssumption, "refuse" \notin StoreMay, SweepInv, [Next]_vars,
         NEW f \in Forgetters, Forget(f)
  PROVE  Swept(f)'
  <1> DEFINE old == forget[f]
             new == forget'[f]
  <1>1. /\ TypeInv /\ ClaimInv /\ Swept(f) /\ ForgetHas(f)
        /\ forget \in [Forgetters -> ForgetStates] /\ old \in ForgetStates /\ Sighted(old)
    BY DEF SweepInv, ClaimInv, SoundInv, MemoryInv, StampInv, TypeInv, TypeOK, ForgetTypeOK,
       ForgetShape
  <1>2. ASSUME new.pc \notin {"claimed", "resolving", "mapped", "found"}
        PROVE  Swept(f)'
    BY <1>2 DEF Swept
  <1>3. ASSUME new.pc \in {"claimed", "resolving"}, new.claimed \subseteq new.sweep
        PROVE  Swept(f)'
    BY <1>3 DEF Swept
  <1>4. EndForget(f) => Swept(f)'
    BY <1>1, <1>2 DEF EndForget, IdleForget
  <1>5. ASSUME NEW i \in old.claimed, old.pc # "idle"
        PROVE  i \in Ids /\ (i \in overrun' \/ MarkedBy(i)' \subseteq MarkedBy(i))
    <2>1. i \in Ids /\ Taken(queue[i])
      BY <1>1, <1>5 DEF ForgetHas, ForgetStates
    <2> QED BY <1>1, <2>1, MarksShrink, OverrunStays
  <1>6. overrun \subseteq overrun'
    BY <1>1, OverrunStays
  <1>7. CASE \E by \in ForgetBy, c \in Contents : ForgetClaim(f, by, c)
    <2>1. new.pc = "claimed" /\ new.claimed = new.sweep
      BY <1>1, <1>7 DEF ForgetClaim, IdleForget
    <2> QED BY <1>3, <2>1
  <1>8. CASE ForgetTarget(f)
    <2> DEFINE next == [old EXCEPT !.pc = "resolving"]
               gone == [next EXCEPT !.ok = TRUE]
    <2>1. /\ next.pc = "resolving" /\ next.claimed = old.claimed /\ next.sweep = old.sweep
          /\ gone.pc = "resolving" /\ gone.claimed = old.claimed /\ gone.sweep = old.sweep
      BY <1>1 DEF ForgetStates
    <2>2. /\ old.pc = "claimed" /\ old.target \in Contents
          /\ \/ ForgetDeletes(f, old.target, gone, next)
             \/ forget' = [forget EXCEPT ![f] = next]
      BY <1>1, <1>8 DEF ForgetTarget, ForgetAt, Sighted
    <2> HIDE DEF next, gone
    <2>3. EndForget(f) \/ new = next \/ new = gone
      BY <1>1, <2>2, DeleteRemoves
    <2> QED BY <1>1, <1>3, <1>4, <2>1, <2>2, <2>3 DEF Swept
  <1>9. CASE ForgetResolve(f)
    <2>1. /\ old.pc = "resolving" /\ new.pc = "mapped" /\ new.claimed = old.claimed
          /\ new.sweep = old.sweep
      BY <1>1, <1>9 DEF ForgetResolve, ForgetAt, ForgetStates
    <2> QED BY <1>1, <2>1 DEF Swept
  <1>10. ASSUME new.pc = "mapped", old.pc = "mapped", new.claimed = old.claimed,
                new.sweep = old.sweep
         PROVE  Swept(f)'
    BY <1>1, <1>5, <1>6, <1>10 DEF Swept
  <1>11. ASSUME NEW h \in Contents, ForgetMapped(f, h)
         PROVE  Swept(f)'
    <2> DEFINE next == [old EXCEPT !.todo = @ \ {h}]
               gone == [next EXCEPT !.ok = TRUE]
    <2>1. /\ next.pc = old.pc /\ next.claimed = old.claimed /\ next.sweep = old.sweep
          /\ gone.pc = old.pc /\ gone.claimed = old.claimed /\ gone.sweep = old.sweep
      BY <1>1 DEF ForgetStates
    <2>2. old.pc = "mapped" /\ ForgetDeletes(f, h, gone, next)
      BY <1>11 DEF ForgetMapped, ForgetAt
    <2> HIDE DEF next, gone
    <2>3. EndForget(f) \/ new = next \/ new = gone
      BY <1>1, <2>2, DeleteRemoves
    <2> QED BY <1>4, <1>10, <2>1, <2>2, <2>3
  <1>12. ASSUME NEW i \in Ids, ForgetLooksUp(f, i)
         PROVE  Swept(f)'
    <2> DEFINE rest == [old EXCEPT !.sweep = @ \ {i}]
    <2>1. /\ old.pc = "mapped" /\ i \in old.sweep /\ UNCHANGED <<store, overrun>>
      BY <1>12 DEF ForgetLooksUp, ForgetAt, queueVars
    <2>2. \A j : MarkedBy(j)' = MarkedBy(j)
      BY <2>1 DEF MarkedBy
    <2>3. \A j \in old.claimed \ old.sweep : j \in overrun \/ MarkedBy(j) = {}
      BY <1>1, <2>1 DEF Swept
    <2>4. CASE MarkedBy(i) = {}
      <3>1. new = rest
        BY <1>1, <1>12, <2>4 DEF ForgetLooksUp
      <3>2. new.pc = "mapped" /\ new.claimed = old.claimed /\ new.sweep = old.sweep \ {i}
        BY <1>1, <2>1, <3>1 DEF ForgetStates
      <3> QED BY <2>1, <2>2, <2>3, <2>4, <3>2 DEF Swept
    <2>5. CASE MarkedBy(i) # {}
      <3>1. PICK h : h = CHOOSE x \in MarkedBy(i) : TRUE
        OBVIOUS
      <3>2. h \in MarkedBy(i)
        BY <2>5, <3>1
      <3>3. MarkedBy(i) = {h}
        BY <1>1, <3>2, LookupFindsAll
      <3>4. new = [rest EXCEPT !.pc = "found", !.found = h]
        BY <1>1, <1>12, <2>5, <3>1 DEF ForgetLooksUp
      <3>5. /\ new.pc = "found" /\ new.claimed = old.claimed /\ new.found = h
            /\ new.sweep = old.sweep \ {i}
        BY <1>1, <2>1, <3>4 DEF ForgetStates
      <3> QED BY <2>1, <2>2, <2>3, <3>3, <3>5 DEF Swept
    <2> QED BY <2>4, <2>5
  <1>13. CASE ForgetFound(f)
    <2> DEFINE h == old.found
               next == [old EXCEPT !.pc = "mapped", !.found = None]
               gone == [next EXCEPT !.ok = TRUE, !.named = @ \cup {h}]
    <2>1. /\ next.pc = "mapped" /\ next.claimed = old.claimed /\ next.sweep = old.sweep
          /\ gone.pc = "mapped" /\ gone.claimed = old.claimed /\ gone.sweep = old.sweep
      BY <1>1 DEF ForgetStates
    <2>2. old.pc = "found" /\ h \in Contents /\ ForgetDeletes(f, h, gone, next)
      BY <1>1, <1>13 DEF ForgetFound, ForgetAt, Sighted
    <2> HIDE DEF next, gone
    <2>3. \/ EndForget(f)
          \/ store'[h] = None /\ (new = next \/ new = gone)
      BY <1>1, <2>2, DeleteRemoves
    <2>4. ASSUME store'[h] = None, NEW j \in old.claimed \ old.sweep
          PROVE  j \in overrun' \/ MarkedBy(j)' = {}
      <3>1. j \in overrun' \/ MarkedBy(j)' \subseteq MarkedBy(j)
        BY <1>5, <2>2
      <3>2. j \in overrun \/ MarkedBy(j) \subseteq {h}
        BY <1>1, <2>2 DEF Swept
      <3>3. j \in Ids /\ j # None
        BY <1>5, <2>2, QueueAssumption
      <3>4. h \notin MarkedBy(j)'
        BY <2>4, <3>3 DEF MarkedBy
      <3> QED BY <1>6, <3>1, <3>2, <3>4
    <2> QED BY <1>4, <2>1, <2>3, <2>4 DEF Swept
  <1>14. CASE ForgetRaises(f) \/ ForgetTombstone(f)
    BY <1>4, <1>14 DEF ForgetRaises, ForgetTombstone
  <1>15. CASE ForgetPurge(f)
    <2>1. new.pc = "recording"
      BY <1>1, <1>15 DEF ForgetPurge, ForgetStates
    <2> QED BY <1>2, <2>1
  <1> QED BY <1>7, <1>8, <1>9, <1>11, <1>12, <1>13, <1>14, <1>15 DEF Forget

\* An approval that exists goes on existing until a forget purges it.
LEMMA ExistsUntilPurge ==
  ASSUME TypeInv, [Next]_vars, NEW i \in Ids, Exists(queue[i])
  PROVE  Exists(queue'[i]) \/ \E f \in Forgetters : DropsRow(f, i)
  <1>1. queue \in [Ids -> Rows] /\ queue[i] \in Rows
    BY DEF TypeInv, TypeOK, QueueTypeOK
  <1>2. queue'[i].status # "unused"
    BY ProposedStays DEF Exists
  <1>3. ASSUME queue'[i].status = "purged"
        PROVE  \E f \in Forgetters : DropsRow(f, i)
    <2>1. CASE HandlesRow(i)
      <3>1. \/ queue'[i] = ApproveInConn(queue[i], None, 0, None)
            \/ \E c \in Contents : queue'[i] = [queue[i] EXCEPT !.bytes = c]
            \/ queue'[i] = [queue[i] EXCEPT !.stale = TRUE]
        BY <1>1, <2>1 DEF HandlesRow, Propose, EditBytes, RawApprove, LeaseExpires, Exists
      <3> QED BY <1>1, <1>3, <3>1 DEF ApproveInConn, Exists, Rows
    <2>2. ASSUME NEW w \in Calls, WorksOnRow(w, i)
          PROVE  FALSE
      <3>1. CASE StampFresh(w) \/ ApplyReject(w)
        <4>1. \/ queue'[i] = ApproveInConn(queue[i], Via, call[w].seq, call[w].sha)
              \/ queue'[i] = [queue[i] EXCEPT !.status = "rejected"]
              \/ queue'[i] = queue[i]
          BY <1>1, <2>2, <3>1 DEF WorksOnRow, StampFresh, ApplyReject
        <4> QED BY <1>1, <1>3, <4>1 DEF ApproveInConn, Exists, Rows
      <3>2. CASE GateRefuses(w) \/ GateClaims(w) \/ Fail(w) \/ Record(w)
        BY <1>1, <1>3, <2>2, <3>2, UpkeepSteps, UpkeepKeepsApproval
           DEF WorksOnRow, SameApproval, SameDecision, Exists
      <3> QED BY <2>2, <3>1, <3>2 DEF WorksOnRow
    <2>3. ASSUME NEW f \in Forgetters, TakesRow(f, i)
          PROVE  FALSE
      BY <1>1, <1>3, <2>3, UpkeepSteps, UpkeepKeepsApproval
         DEF SameApproval, SameDecision, Exists
    <2>4. queue'[i] # queue[i]
      BY <1>3 DEF Exists
    <2> QED BY <1>1, <2>1, <2>2, <2>3, <2>4, RowActions
  <1> QED BY <1>2, <1>3 DEF Exists

\* Every step keeps durable rows mapped: a call writes only under its claim,
\* and a forget purges a row it claimed only after it swept it.
LEMMA MappedStays ==
  ASSUME QueueAssumption, SweepInv, [Next]_vars
  PROVE  DurableIsMapped'
  <1>1. TypeInv /\ ClaimInv /\ store \in [Contents -> Ids \cup {None}] /\ CallShape
    BY DEF SweepInv, ClaimInv, SoundInv, MemoryInv, StampInv, TypeInv, TypeOK, QueueTypeOK
  <1>2. overrun \subseteq overrun'
    BY <1>1, OverrunStays
  <1>3. ASSUME NEW c \in Contents, store'[c] # None
        PROVE  Exists(queue'[store'[c]]) \/ store'[c] \in overrun'
    <2>1. CASE store'[c] = store[c]
      <3>1. PICK i \in Ids : i = store[c] /\ i = store'[c]
        BY <1>1, <1>3, <2>1
      <3>2. CASE i \in overrun
        BY <1>2, <3>1, <3>2
      <3>3. ASSUME Exists(queue[i]), i \notin overrun, NEW f \in Forgetters, DropsRow(f, i)
            PROVE  i \in overrun'
        <4>1. /\ forget[f].pc = "mapped" /\ forget[f].sweep = {}
              /\ overrun' = overrun \cup (Matched(forget[f].by, forget[f].target)
                                            \ forget[f].claimed)
              /\ i \in Matched(forget[f].by, forget[f].target)
          BY <3>3 DEF DropsRow, ForgetPurge, ForgetAt
        <4>2. i \in forget[f].claimed => MarkedBy(i) = {}
          BY <3>3, <4>1 DEF SweepInv, Swept
        <4>3. c \in MarkedBy(i)
          BY <3>1 DEF MarkedBy
        <4> QED BY <4>1, <4>2, <4>3
      <3>4. Exists(queue[i]) \/ i \in overrun
        BY <1>3, <2>1, <3>1 DEF SweepInv, DurableIsMapped
      <3> QED BY <1>1, <3>1, <3>2, <3>3, <3>4, ExistsUntilPurge
    <2>2. ASSUME NEW w \in Calls, call[w].pc = "writing", store'[c] = call[w].id,
                 store[c] = None
          PROVE  Exists(queue'[store'[c]]) \/ store'[c] \in overrun'
      <3>1. PICK i \in Ids : i = call[w].id
        BY <1>1, <2>2 DEF CallShape, Shaped
      <3>2. CASE i \in overrun
        BY <1>2, <2>2, <3>1, <3>2
      <3>3. CASE Owns(i, w)
        <4>1. Exists(queue[i]) /\ queue[i] \in Rows
          BY <1>1, <3>3 DEF Owns, Finalizable, Exists, TypeInv, TypeOK, QueueTypeOK
        <4>2. ASSUME NEW f \in Forgetters, DropsRow(f, i)
              PROVE  FALSE
          <5>1. UNCHANGED store
            BY <4>2 DEF DropsRow, ForgetPurge
          <5> QED BY <1>3, <2>2, <5>1
        <4> QED BY <1>1, <2>2, <3>1, <4>1, <4>2, ExistsUntilPurge
      <3> QED BY <1>1, <2>2, <3>1, <3>2, <3>3 DEF ClaimInv, CallHolds, Holders
    <2> QED BY <1>1, <1>3, <2>1, <2>2, StoreSteps
  <1> QED BY <1>3 DEF DurableIsMapped

LEMMA SweepStays ==
  ASSUME QueueAssumption, ForgetAssumption, ~SlowCalls, MaxEdits <= 1,
         "refuse" \notin StoreMay, SweepInv, [Next]_vars
  PROVE  SweepInv'
  <1>1. ClaimInv' /\ forget \in [Forgetters -> ForgetStates]
    BY ClaimStays DEF SweepInv, ClaimInv, SoundInv, MemoryInv, StampInv, TypeInv, TypeOK,
       ForgetTypeOK
  <1>2. ASSUME NEW f \in Forgetters
        PROVE  Swept(f)'
    <2>1. CASE UNCHANGED forget[f]
      BY <2>1, SweptStays
    <2>2. CASE Forget(f)
      BY <2>2, ForgetSweeps
    <2>3. CASE ForgetCrashes(f)
      BY <1>1, <2>3 DEF ForgetCrashes, EndForget, IdleForget, Swept
    <2>4. ASSUME NEW e \in Forgetters, ForgetStep(e), e # f
          PROVE  UNCHANGED forget[f]
      BY <1>1, <2>4 DEF ForgetStep, ForgetCrashes, Forget, ForgetClaim, ForgetTarget,
         ForgetDeletes, ForgetResolve, ForgetMapped, ForgetLooksUp, ForgetFound, ForgetRaises,
         ForgetPurge, ForgetTombstone, EndForget
    <2>5. CASE UNCHANGED forgetVars
      BY <2>1, <2>5 DEF forgetVars
    <2> QED BY <2>1, <2>2, <2>3, <2>4, <2>5
       DEF Next, QueueStep, Expiry, CallStep, ForgetStep, vars
  <1> QED BY <1>1, <1>2, MappedStays DEF SweepInv

\* Never unmapped: while calls end within their lease and the store never
\* refuses a delete, every durable row can be found from its approval in the
\* queue, at every moment of every forget, crash, lost answer and retry; the
\* approvals that a forget purged without having claimed them are left aside.
THEOREM NothingIsUnmapped ==
  ASSUME ~SlowCalls, MaxEdits <= 1, "refuse" \notin StoreMay
  PROVE  Spec => []ClaimedIsNeverUnmapped
  <1>1. SweepInv /\ [Next]_vars => SweepInv'
    BY SweepStays, QueueAssumption, ForgetAssumption
  <1>2. SweepInv => ClaimedIsNeverUnmapped
    BY DEF SweepInv, DurableIsMapped, ClaimedIsNeverUnmapped
  <1> QED BY <1>1, <1>2, SweepStarts, PTL DEF Spec

-----------------------------------------------------------------------------
(* A tombstone leaves no copy in the queue *)

\* The forget g has dropped row i, or its purge will: the row has its drawer.
Drops(g, i) ==
    \/ queue[i].status = "purged"
    \/ g.pc # "recording" /\ Exists(queue[i]) /\ queue[i].drawer = g.target

\* Some approval of the bytes h, with its receipt, is dropped by the forget g.
Accounted(g, h) == \E i \in Ids : Receipted(audit, i, h) /\ Drops(g, i)

\* A row is recorded only under bytes that were approved for it, and a purged
\* one under none.
RowIsKnown(i) ==
    /\ queue[i].durable # None => Receipted(audit, i, queue[i].durable)
    /\ queue[i].status = "purged" => queue[i].durable = None

CallIsKnown(s) == s.pc = "recording" => Receipted(audit, s.id, s.hash)

\* What a forget names, or has found, was approved for a row it drops.
ForgetIsKnown(g) ==
    g.pc # "idle" =>
        /\ g.by = "drawer"
        /\ \A h \in g.named : Accounted(g, h)
        /\ g.pc = "found" => Accounted(g, g.found)
        /\ \A i \in g.sweep : Drops(g, i)

HistoryIsKnown ==
    \A h : HardDelete(h) \in history =>
        \E i \in Ids : Receipted(audit, i, h) /\ queue[i].status = "purged"

KnownInv ==
    /\ ReceiptInv
    /\ \A i \in Ids : RowIsKnown(i)
    /\ \A w \in Calls : CallIsKnown(call[w])
    /\ \A f \in Forgetters : ForgetIsKnown(forget[f])
    /\ HistoryIsKnown

\* Nothing is recorded, named or deleted at the start.
LEMMA KnownStarts == Init => KnownInv
  <1> SUFFICES ASSUME Init PROVE KnownInv
    OBVIOUS
  <1>1. \A i \in Ids : RowIsKnown(i)
    BY DEF Init, QueueInit, BlankRow, RowIsKnown
  <1>2. \A w \in Calls : CallIsKnown(call[w])
    BY DEF Init, CallInit, IdleCall, CallIsKnown
  <1>3. \A f \in Forgetters : ForgetIsKnown(forget[f])
    BY DEF Init, ForgetInit, IdleForget, ForgetIsKnown
  <1>4. HistoryIsKnown
    BY DEF Init, QueueInit, HistoryIsKnown
  <1> QED BY <1>1, <1>2, <1>3, <1>4, ReceiptInit DEF KnownInv

\* What a step leaves of the names a row goes by: a forget takes both, and only
\* a record writes a content hash.
NamesKeptBy(i) ==
    /\ queue'[i].durable \in {None, queue[i].durable}
          \/ /\ Exists(queue[i])
             /\ \E w \in Calls : /\ call[w].pc = "recording" /\ call[w].id = i
                                 /\ queue'[i].durable = call[w].hash
    /\ queue'[i].status = "purged" => queue[i].status = "purged" \/ queue'[i].durable = None
    /\ Exists(queue[i]) => \/ queue'[i].status = "purged"
                           \/ Exists(queue'[i]) /\ queue'[i].drawer = queue[i].drawer

\* Each step keeps a row's names so.
LEMMA NamesOfRows ==
  ASSUME TypeInv, [Next]_vars, NEW i \in Ids
  PROVE  NamesKeptBy(i)
  <1> DEFINE r == queue[i]
             s == queue'[i]
  <1>1. queue \in [Ids -> Rows] /\ r \in Rows
    BY DEF TypeInv, TypeOK, QueueTypeOK
  <1>2. ASSUME s.durable = r.durable, s.drawer = r.drawer,
               s.status = r.status \/ (Exists(r) /\ s.status \in {"approved", "rejected"})
        PROVE  NamesKeptBy(i)
    BY <1>2 DEF NamesKeptBy, Exists
  <1>3. CASE HandlesRow(i)
    <2>1. ASSUME NEW c \in Contents, Propose(i, c)
          PROVE  NamesKeptBy(i)
      <3>1. s.durable = None /\ s.status = "pending_approval" /\ ~Exists(r)
        BY <1>1, <2>1 DEF Propose, BlankRow, Exists
      <3> QED BY <3>1 DEF NamesKeptBy
    <2>2. ASSUME NEW c \in Contents, EditBytes(i, c)
          PROVE  NamesKeptBy(i)
      <3>1. s = [r EXCEPT !.bytes = c]
        BY <1>1, <2>2 DEF EditBytes
      <3>2. s.durable = r.durable /\ s.drawer = r.drawer /\ s.status = r.status
        BY <1>1, <3>1 DEF Rows
      <3> QED BY <1>2, <3>2
    <2>3. CASE RawApprove(i)
      <3>1. s = ApproveInConn(r, None, 0, None) /\ r.status \in {"pending_approval", "approved"}
        BY <1>1, <2>3 DEF RawApprove, ApprovableInConn
      <3>2. s.durable = r.durable /\ s.drawer = r.drawer /\ s.status = "approved" /\ Exists(r)
        BY <1>1, <3>1 DEF ApproveInConn, Rows, Exists
      <3> QED BY <1>2, <3>2
    <2>4. CASE LeaseExpires(i)
      <3>1. s = [r EXCEPT !.stale = TRUE]
        BY <1>1, <2>4 DEF LeaseExpires
      <3>2. s.durable = r.durable /\ s.drawer = r.drawer /\ s.status = r.status
        BY <1>1, <3>1 DEF Rows
      <3> QED BY <1>2, <3>2
    <2> QED BY <1>3, <2>1, <2>2, <2>3, <2>4 DEF HandlesRow
  <1>4. ASSUME NEW w \in Calls, WorksOnRow(w, i)
        PROVE  NamesKeptBy(i)
    <2>1. CASE StampFresh(w)
      <3>1. s = ApproveInConn(r, Via, call[w].seq, call[w].sha) /\ r.status = "pending_approval"
        BY <1>1, <1>4, <2>1 DEF WorksOnRow, StampFresh, FreshRow, Awaiting, Row
      <3>2. s.durable = r.durable /\ s.drawer = r.drawer /\ s.status = "approved" /\ Exists(r)
        BY <1>1, <3>1 DEF ApproveInConn, Rows, Exists
      <3> QED BY <1>2, <3>2
    <2>2. CASE ApplyReject(w)
      <3>1. s = r \/ (s = [r EXCEPT !.status = "rejected"] /\ r.status = "pending_approval")
        BY <1>1, <1>4, <2>2 DEF WorksOnRow, ApplyReject, RejectableRow, Awaiting, Row
      <3>2. /\ s.durable = r.durable /\ s.drawer = r.drawer
            /\ s.status = r.status \/ (s.status = "rejected" /\ Exists(r))
        BY <1>1, <3>1 DEF Rows, Exists
      <3> QED BY <1>2, <3>2
    <2>3. CASE GateRefuses(w) \/ GateClaims(w) \/ Fail(w)
      <3>1. s = MarkFailed(r) \/ s = ClaimRow(r, w) \/ s = r \/ s = [r EXCEPT !.fin = "failed"]
        BY <1>1, <1>4, <2>3 DEF WorksOnRow, GateRefuses, GateClaims, Fail
      <3>2. s.durable = r.durable /\ s.drawer = r.drawer /\ s.status = r.status
        BY <1>1, <3>1 DEF MarkFailed, ClaimRow, Rows
      <3> QED BY <1>2, <3>2
    <2>4. CASE Record(w)
      <3>1. /\ s = RecordRow(r, w, call[w].hash) /\ Exists(r)
            /\ call[w].pc = "recording" /\ call[w].id = i
        BY <1>1, <1>4, <2>4 DEF WorksOnRow, Record, At, Row, ForgetWins
      <3>2. /\ s.durable = call[w].hash /\ s.drawer = r.drawer /\ s.status = r.status
        BY <1>1, <3>1 DEF RecordRow, Rows
      <3> QED BY <3>1, <3>2 DEF NamesKeptBy, Exists
    <2> QED BY <1>4, <2>1, <2>2, <2>3, <2>4 DEF WorksOnRow
  <1>5. ASSUME NEW f \in Forgetters, TakesRow(f, i)
        PROVE  NamesKeptBy(i)
    <2>1. s = ForgetRow(r)
      BY <1>1, <1>5 DEF TakesRow, ForgetClaim
    <2>2. s.durable = r.durable /\ s.drawer = r.drawer /\ s.status = r.status
      BY <1>1, <2>1 DEF ForgetRow, Rows
    <2> QED BY <1>2, <2>2
  <1>6. ASSUME NEW f \in Forgetters, DropsRow(f, i)
        PROVE  NamesKeptBy(i)
    <2>1. s = BlankRow("purged")
      BY <1>1, <1>6 DEF DropsRow, ForgetPurge, Purged
    <2>2. s.durable = None /\ s.status = "purged"
      BY <2>1 DEF BlankRow
    <2> QED BY <2>2 DEF NamesKeptBy
  <1>7. CASE s = r
    BY <1>2, <1>7
  <1> QED BY <1>3, <1>4, <1>5, <1>6, <1>7, RowActions

\* A row goes on being recorded only under bytes that were approved for it.
LEMMA KnownRowStays ==
  ASSUME KnownInv, [Next]_vars, NEW i \in Ids
  PROVE  RowIsKnown(i)'
  <1>1. TypeInv /\ RowIsKnown(i) /\ NamesKeptBy(i)
    BY NamesOfRows DEF KnownInv, ReceiptInv
  <1>2. \A h : Receipted(audit, i, h) => Receipted(audit', i, h)
    BY <1>1, ReceiptsStay
  <1>3. \A w \in Calls : CallIsKnown(call[w])
    BY DEF KnownInv
  <1>4. queue'[i].durable # None => Receipted(audit', i, queue'[i].durable)
    BY <1>1, <1>2, <1>3 DEF RowIsKnown, CallIsKnown, NamesKeptBy
  <1>5. ASSUME queue[i].status = "purged" PROVE queue'[i].durable = None
    BY <1>1, <1>5 DEF RowIsKnown, NamesKeptBy, Exists
  <1> QED BY <1>1, <1>4, <1>5 DEF RowIsKnown, NamesKeptBy

\* A call comes to record a hash by its own write, of bytes it is tied to, or by
\* finding a row of its approval.
LEMMA KnownCallStays ==
  ASSUME KnownInv, [Next]_vars, NEW w \in Calls
  PROVE  CallIsKnown(call[w])'
  <1>1. /\ TypeInv /\ call \in [Calls -> CallStates] /\ call[w] \in CallStates
        /\ Shaped(call[w]) /\ CallIsKnown(call[w])
    BY DEF KnownInv, ReceiptInv, TypeInv, TypeOK, CallTypeOK, CallShape
  <1>2. \A i, h : Receipted(audit, i, h) => Receipted(audit', i, h)
    BY <1>1, ReceiptsStay
  <1>3. \A i \in Ids, h \in Contents : Tied(i, h) => Receipted(audit, i, h)
    BY DEF KnownInv, ReceiptInv, TiedIsReceipted
  <1>4. CASE call'[w] = call[w]
    BY <1>1, <1>2, <1>4 DEF CallIsKnown
  <1>5. CASE call'[w] = IdleCall
    BY <1>5 DEF IdleCall, CallIsKnown
  <1>6. CASE Decide(w)
    BY <1>1, <1>6, DecideStages DEF CallIsKnown
  <1>7. CASE WriteLands(w)
    <2>1. /\ call'[w] = [call[w] EXCEPT !.pc = "recording", !.hash = call[w].sha]
          /\ call[w].pc = "writing"
      BY <1>1, <1>7 DEF WriteLands, At
    <2>2. call'[w].id = call[w].id /\ call'[w].hash = call[w].sha
      BY <1>1, <2>1 DEF CallStates
    <2>3. call[w].id \in Ids /\ call[w].sha \in Contents
      BY <1>1, <2>1 DEF Shaped
    <2>4. Tied(call[w].id, call[w].sha)
      BY <2>1 DEF Tied
    <2> QED BY <1>2, <1>3, <2>2, <2>3, <2>4 DEF CallIsKnown
  <1>8. CASE LookupFinds(w)
    <2>1. PICK h \in MarkedBy(call[w].id) :
             call' = [call EXCEPT ![w].pc = "recording", ![w].hash = h]
      BY <1>8 DEF LookupFinds
    <2>2. call'[w].id = call[w].id /\ call'[w].hash = h
      BY <1>1, <2>1 DEF CallStates
    <2>3. call[w].id \in Ids
      BY <1>1, <1>8 DEF LookupFinds, At, Shaped
    <2>4. Tied(call[w].id, h) /\ h \in Contents
      BY <2>1 DEF Tied, MarkedBy
    <2> QED BY <1>2, <1>3, <2>2, <2>3, <2>4 DEF CallIsKnown
  <1>9. ASSUME Finalize(w), ~WriteLands(w), ~LookupFinds(w)
        PROVE  call'[w].pc # "recording"
    <2>1. CASE \/ GatePasses(w) \/ GateRefuses(w) \/ Fail(w) \/ RecordOfOther(w) \/ Outcome(w)
               \/ CleanupDeletes(w) \/ CleanupFails(w)
      <3>1. call'[w] = IdleCall
        BY <1>1, <2>1 DEF GatePasses, GateRefuses, Fail, RecordOfOther, Outcome, CleanupDeletes,
           CleanupFails, Return
      <3> QED BY <3>1 DEF IdleCall
    <2>2. CASE GateClaims(w)
      BY <1>1, <2>2 DEF GateClaims, CallStates
    <2>3. CASE \/ BuildFails(w) \/ CheckClaim(w) \/ WriteIsDuplicate(w) \/ WriteFails(w)
               \/ LookupFails(w) \/ WriteAnswerLost(w) \/ Record(w) \/ RecordOrphan(w)
      BY <1>1, <2>3 DEF BuildFails, CheckClaim, WriteIsDuplicate, WriteFails, LookupFails,
         WriteAnswerLost, Record, RecordOrphan, Goto, Return, IdleCall, CallStates
    <2> QED BY <1>9, <2>1, <2>2, <2>3 DEF Finalize
  <1>10. CASE Finalize(w)
    BY <1>7, <1>8, <1>9, <1>10 DEF CallIsKnown
  <1> QED BY <1>1, <1>4, <1>5, <1>6, <1>10, CallSteps

\* What a forget drops now it has dropped, or still drops, later.
LEMMA DropsStay ==
  ASSUME TypeInv, [Next]_vars, NEW g, NEW i \in Ids, Drops(g, i)
  PROVE  Drops(g, i)'
  <1>1. NamesKeptBy(i)
    BY NamesOfRows
  <1>2. queue[i].status = "purged" => queue'[i].status = "purged"
    BY PurgedStays
  <1> QED BY <1>1, <1>2 DEF Drops, NamesKeptBy

\* A forget that keeps its target, is not done purging, and names, finds and
\* looks up nothing but rows it drops goes on knowing what it does.
LEMMA KnownMoves ==
  ASSUME TypeInv, [Next]_vars, NEW g, NEW n, g.pc # "recording",
         n.target = g.target, n.by = "drawer", n.pc # "recording",
         \A h \in n.named : Accounted(g, h),
         n.pc = "found" => Accounted(g, n.found),
         \A i \in n.sweep : i \in Ids /\ Drops(g, i)
  PROVE  ForgetIsKnown(n)'
  <1>1. \A i \in Ids : Drops(g, i) => Drops(n, i)'
    BY DropsStay DEF Drops
  <1>2. \A i, h : Receipted(audit, i, h) => Receipted(audit', i, h)
    BY ReceiptsStay
  <1>3. \A h : Accounted(g, h) => Accounted(n, h)'
    BY <1>1, <1>2 DEF Accounted
  <1> QED BY <1>1, <1>3 DEF ForgetIsKnown

\* Every step of a forget by drawer leaves it knowing what it drops.
LEMMA KnownForgetMoves ==
  ASSUME KnownInv, ForgetBy \subseteq {"drawer"}, [Next]_vars, NEW f \in Forgetters, Forget(f)
  PROVE  ForgetIsKnown(forget[f])'
  <1>1. PICK g : g = forget[f]
    OBVIOUS
  <1>2. PICK n : n = forget'[f]
    OBVIOUS
  <1>3. /\ TypeInv /\ forget \in [Forgetters -> ForgetStates] /\ g \in ForgetStates
        /\ ForgetIsKnown(g)
    BY <1>1 DEF KnownInv, ReceiptInv, TypeInv, TypeOK, ForgetTypeOK
  <1> SUFFICES ForgetIsKnown(n)'
    BY <1>2 DEF ForgetIsKnown, Accounted, Drops
  <1>4. CASE n = IdleForget
    BY <1>4 DEF ForgetIsKnown, IdleForget
  <1>5. ASSUME n.target = g.target, n.by = g.by, n.named = g.named, n.sweep \subseteq g.sweep,
               g.pc \notin {"idle", "recording"}, n.pc \notin {"found", "recording"}
        PROVE  ForgetIsKnown(n)'
    <2>1. g.by = "drawer" /\ (\A h \in n.named : Accounted(g, h)) /\ g.sweep \subseteq Ids
      BY <1>3, <1>5 DEF ForgetIsKnown, ForgetStates
    <2>2. \A i \in n.sweep : i \in Ids /\ Drops(g, i)
      BY <1>3, <1>5, <2>1 DEF ForgetIsKnown
    <2> QED BY <1>3, <1>5, <2>1, <2>2, KnownMoves
  <1>6. CASE \E by \in ForgetBy, c \in Contents : ForgetClaim(f, by, c)
    <2>1. PICK c \in Contents : ForgetClaim(f, "drawer", c)
      BY <1>6
    <2>2. PICK m : m = [IdleForget EXCEPT !.pc = "mapped", !.target = c]
      OBVIOUS
    <2>3. n = [IdleForget EXCEPT !.pc = "claimed", !.by = "drawer", !.target = c,
                 !.claimed = Matched("drawer", c), !.sweep = Matched("drawer", c)]
      BY <1>2, <1>3, <2>1 DEF ForgetClaim
    <2>4. /\ n.target = c /\ n.by = "drawer" /\ n.pc = "claimed" /\ n.named = {}
          /\ n.sweep = Matched("drawer", c) /\ m.pc = "mapped" /\ m.target = c
      BY <2>2, <2>3 DEF IdleForget
    <2>5. \A i \in n.sweep : i \in Ids /\ Drops(m, i)
      BY <2>4 DEF Matched, Matches, Drops
    <2> QED BY <1>3, <2>4, <2>5, KnownMoves
  <1>7. CASE ForgetTarget(f)
    <2>1. PICK next : next = [g EXCEPT !.pc = "resolving"]
      OBVIOUS
    <2>2. g.pc = "claimed" /\ g.by = "drawer"
      BY <1>1, <1>3, <1>7 DEF ForgetTarget, ForgetAt, ForgetIsKnown
    <2>3. n = next
      BY <1>1, <1>2, <1>3, <1>7, <2>1, <2>2 DEF ForgetTarget
    <2>4. /\ n.target = g.target /\ n.by = g.by /\ n.named = g.named /\ n.sweep = g.sweep
          /\ n.pc = "resolving"
      BY <1>3, <2>1, <2>3 DEF ForgetStates
    <2> QED BY <1>5, <2>2, <2>4
  <1>8. CASE ForgetResolve(f)
    <2>1. PICK ids : ids = Divergent(g.by, g.target)
      OBVIOUS
    <2>2. n = [g EXCEPT !.pc = "mapped", !.todo = ids, !.named = ids] /\ g.pc = "resolving"
      BY <1>1, <1>2, <1>3, <1>8, <2>1 DEF ForgetResolve, ForgetAt
    <2>3. /\ n.target = g.target /\ n.by = g.by /\ n.named = ids /\ n.sweep = g.sweep
          /\ n.pc = "mapped"
      BY <1>3, <2>2 DEF ForgetStates
    <2>4. g.by = "drawer" /\ \A i \in n.sweep : i \in Ids /\ Drops(g, i)
      BY <1>3, <2>2, <2>3 DEF ForgetIsKnown, ForgetStates
    <2>5. ASSUME NEW h \in ids PROVE Accounted(g, h)
      <3>1. PICK i \in Matched("drawer", g.target) : h = queue[i].durable
        BY <2>1, <2>4, <2>5 DEF Divergent
      <3>2. h # None
        BY <2>1, <2>5 DEF Divergent
      <3>3. i \in Ids /\ Exists(queue[i]) /\ queue[i].drawer = g.target
        BY <3>1 DEF Matched, Matches
      <3>4. Receipted(audit, i, h)
        BY <3>1, <3>2, <3>3 DEF KnownInv, RowIsKnown
      <3> QED BY <2>2, <3>3, <3>4 DEF Accounted, Drops
    <2> QED BY <1>3, <2>2, <2>3, <2>4, <2>5, KnownMoves
  <1>9. ASSUME NEW h \in Contents, ForgetMapped(f, h)
        PROVE  ForgetIsKnown(n)'
    <2>1. PICK next : next = [g EXCEPT !.todo = @ \ {h}]
      OBVIOUS
    <2>2. PICK gone : gone = [next EXCEPT !.ok = TRUE]
      OBVIOUS
    <2>3. g.pc = "mapped" /\ (n = next \/ n = gone \/ n = IdleForget)
      BY <1>1, <1>2, <1>3, <1>9, <2>1, <2>2 DEF ForgetMapped, ForgetAt, ForgetDeletes, EndForget
    <2>4. CASE n # IdleForget
      <3>1. /\ n.target = g.target /\ n.by = g.by /\ n.named = g.named /\ n.sweep = g.sweep
            /\ n.pc = "mapped"
        BY <1>3, <2>1, <2>2, <2>3, <2>4 DEF ForgetStates
      <3> QED BY <1>5, <2>3, <3>1
    <2> QED BY <1>4, <2>4
  <1>10. ASSUME NEW i \in Ids, ForgetLooksUp(f, i)
         PROVE  ForgetIsKnown(n)'
    <2>1. PICK rest : rest = [g EXCEPT !.sweep = @ \ {i}]
      OBVIOUS
    <2>2. /\ g.pc = "mapped" /\ i \in g.sweep
          /\ n = IF MarkedBy(i) = {} THEN rest
                 ELSE [rest EXCEPT !.pc = "found", !.found = CHOOSE h \in MarkedBy(i) : TRUE]
      BY <1>1, <1>2, <1>3, <1>10, <2>1 DEF ForgetLooksUp, ForgetAt
    <2>3. g.by = "drawer" /\ Drops(g, i)
      BY <1>3, <2>2 DEF ForgetIsKnown
    <2>4. CASE MarkedBy(i) = {}
      <3>1. /\ n.target = g.target /\ n.by = g.by /\ n.named = g.named
            /\ n.sweep \subseteq g.sweep /\ n.pc = "mapped"
        BY <1>3, <2>1, <2>2, <2>4 DEF ForgetStates
      <3> QED BY <1>5, <2>2, <3>1
    <2>5. ASSUME NEW h \in MarkedBy(i), h = CHOOSE d \in MarkedBy(i) : TRUE
          PROVE  ForgetIsKnown(n)'
      <3>1. /\ n.target = g.target /\ n.by = g.by /\ n.named = g.named
            /\ n.sweep \subseteq g.sweep /\ n.pc = "found" /\ n.found = h
        BY <1>3, <2>1, <2>2, <2>5 DEF ForgetStates
      <3>2. Tied(i, h) /\ h \in Contents
        BY <2>5 DEF MarkedBy, Tied
      <3>3. Receipted(audit, i, h)
        BY <3>2 DEF KnownInv, ReceiptInv, TiedIsReceipted
      <3>4. Accounted(g, h)
        BY <2>3, <3>3 DEF Accounted
      <3>5. \A d \in n.named : Accounted(g, d)
        BY <1>3, <2>2, <3>1 DEF ForgetIsKnown
      <3>6. \A j \in n.sweep : j \in Ids /\ Drops(g, j)
        BY <1>3, <2>2, <3>1 DEF ForgetIsKnown, ForgetStates
      <3> QED BY <1>3, <2>2, <2>3, <3>1, <3>4, <3>5, <3>6, KnownMoves
    <2> QED BY <2>4, <2>5
  <1>11. CASE ForgetFound(f)
    <2>1. PICK h : h = g.found
      OBVIOUS
    <2>2. PICK next : next = [g EXCEPT !.pc = "mapped", !.found = None]
      OBVIOUS
    <2>3. PICK gone : gone = [next EXCEPT !.ok = TRUE, !.named = @ \cup {h}]
      OBVIOUS
    <2>4. g.pc = "found" /\ (n = next \/ n = gone \/ n = IdleForget)
      BY <1>1, <1>2, <1>3, <1>11, <2>1, <2>2, <2>3
         DEF ForgetFound, ForgetAt, ForgetDeletes, EndForget
    <2>5. CASE n # IdleForget
      <3>1. /\ n.target = g.target /\ n.by = g.by /\ n.named \subseteq g.named \cup {h}
            /\ n.sweep = g.sweep /\ n.pc = "mapped"
        BY <1>3, <2>2, <2>3, <2>4, <2>5 DEF ForgetStates
      <3>2. /\ g.by = "drawer" /\ \A d \in n.named : Accounted(g, d)
        BY <1>3, <2>1, <2>4, <3>1 DEF ForgetIsKnown
      <3>3. \A j \in n.sweep : j \in Ids /\ Drops(g, j)
        BY <1>3, <2>4, <3>1 DEF ForgetIsKnown, ForgetStates
      <3> QED BY <1>3, <2>4, <3>1, <3>2, <3>3, KnownMoves
    <2> QED BY <1>4, <2>5
  <1>12. CASE ForgetRaises(f) \/ ForgetTombstone(f)
    BY <1>2, <1>3, <1>4, <1>12 DEF ForgetRaises, ForgetTombstone, EndForget
  <1>13. CASE ForgetPurge(f)
    <2>1. n = [g EXCEPT !.pc = "recording"] /\ g.pc = "mapped" /\ g.sweep = {}
      BY <1>1, <1>2, <1>3, <1>13 DEF ForgetPurge, ForgetAt
    <2>2. n.by = g.by /\ n.named = g.named /\ n.sweep = {} /\ n.pc = "recording"
      BY <1>3, <2>1 DEF ForgetStates
    <2>3. g.by = "drawer" /\ \A h \in n.named : Accounted(g, h)
      BY <1>3, <2>1, <2>2 DEF ForgetIsKnown
    <2>4. ASSUME NEW i \in Ids, Drops(g, i) PROVE queue'[i].status = "purged"
      <3>1. CASE queue[i].status = "purged"
        BY <1>3, <3>1, PurgedStays
      <3>2. CASE Exists(queue[i]) /\ queue[i].drawer = g.target
        <4>1. i \in Matched(forget[f].by, forget[f].target)
          BY <1>1, <2>3, <3>2 DEF Matched, Matches
        <4> QED BY <1>13, <4>1 DEF ForgetPurge, Purged, BlankRow
      <3> QED BY <2>4, <3>1, <3>2 DEF Drops
    <2>5. \A i, h : Receipted(audit, i, h) => Receipted(audit', i, h)
      BY <1>3, ReceiptsStay
    <2>6. \A h \in n.named : Accounted(n, h)'
      BY <2>3, <2>4, <2>5 DEF Accounted, Drops
    <2> QED BY <2>2, <2>3, <2>6 DEF ForgetIsKnown
  <1> QED BY <1>6, <1>7, <1>8, <1>9, <1>10, <1>11, <1>12, <1>13 DEF Forget

\* What is said to be forgotten was said before, or is in a tombstone just
\* written.
LEMMA HistorySteps ==
  ASSUME [Next]_vars, NEW h, HardDelete(h) \in history'
  PROVE  \/ HardDelete(h) \in history
         \/ \E f \in Forgetters : ForgetTombstone(f) /\ HardDelete(h) \in Tombstones(forget[f])
  <1>1. CASE QueueStep \/ UNCHANGED vars \/ \E i \in Ids : Expiry(i)
    BY <1>1 DEF QueueStep, Propose, EditBytes, RawApprove, vars, queueVars, Expiry, LeaseExpires
  <1>2. ASSUME NEW w \in Calls, CallStep(w)
        PROVE  HardDelete(h) \in history
    <2>1. CASE Decide(w) \/ CallCrashes(w)
      BY <2>1 DEF CallCrashes, Decide, ReadCandidate, AppendReject, Sweep, AppendApprove,
         AppendFails, AuthorizeRedrive, StampFresh, RefuseStamp, ApplyReject, queueVars
    <2>2. CASE Outcome(w)
      BY <2>2 DEF Outcome, HardDelete
    <2>3. CASE CleanupFails(w)
      BY <2>3 DEF CleanupFails, HardDelete
    <2>4. CASE Finalize(w) /\ ~Outcome(w) /\ ~CleanupFails(w)
      BY <2>4 DEF Finalize, GatePasses, GateRefuses, GateClaims, BuildFails, CheckClaim,
         WriteLands, WriteAnswerLost, WriteIsDuplicate, WriteFails, LookupFinds, LookupFails,
         Fail, Record, RecordOfOther, RecordOrphan, CleanupDeletes, queueVars
    <2> QED BY <1>2, <2>1, <2>2, <2>3, <2>4 DEF CallStep
  <1>3. ASSUME NEW f \in Forgetters, ForgetStep(f)
        PROVE  \/ HardDelete(h) \in history
               \/ ForgetTombstone(f) /\ HardDelete(h) \in Tombstones(forget[f])
    BY <1>3 DEF ForgetStep, ForgetCrashes, Forget, ForgetClaim, ForgetTarget, ForgetResolve,
       ForgetMapped, ForgetLooksUp, ForgetFound, ForgetRaises, ForgetPurge, ForgetTombstone,
       queueVars
  <1> QED BY <1>1, <1>2, <1>3 DEF Next

\* Each deletion the history names stays that of a purged row.
LEMMA KnownHistoryStays ==
  ASSUME KnownInv, ForgetBy \subseteq {"drawer"}, [Next]_vars
  PROVE  HistoryIsKnown'
  <1>1. TypeInv
    BY DEF KnownInv, ReceiptInv
  <1>2. \A i, h : Receipted(audit, i, h) => Receipted(audit', i, h)
    BY <1>1, ReceiptsStay
  <1>3. \A i \in Ids : queue[i].status = "purged" => queue'[i].status = "purged"
    BY <1>1, PurgedStays
  <1>4. ASSUME NEW h, HardDelete(h) \in history'
        PROVE  \E i \in Ids : Receipted(audit, i, h) /\ queue[i].status = "purged"
    <2>1. CASE HardDelete(h) \in history
      BY <2>1 DEF KnownInv, HistoryIsKnown
    <2>2. ASSUME NEW f \in Forgetters, ForgetTombstone(f),
                 HardDelete(h) \in Tombstones(forget[f])
          PROVE  \E i \in Ids : Receipted(audit, i, h) /\ queue[i].status = "purged"
      <3>1. forget[f].pc = "recording" /\ ForgetIsKnown(forget[f])
        BY <2>2 DEF ForgetTombstone, ForgetAt, KnownInv
      <3>2. h \in forget[f].named
        BY <2>2, <3>1 DEF ForgetIsKnown, Tombstones, HardDelete
      <3> QED BY <3>1, <3>2 DEF ForgetIsKnown, Accounted, Drops
    <2> QED BY <1>4, <2>1, <2>2, HistorySteps
  <1> QED BY <1>2, <1>3, <1>4 DEF HistoryIsKnown

\* Every step keeps what is known.
LEMMA KnownStays ==
  ASSUME QueueAssumption, ForgetAssumption, ForgetBy \subseteq {"drawer"}, KnownInv, [Next]_vars
  PROVE  KnownInv'
  <1>1. ReceiptInv /\ TypeInv /\ ReceiptInv' /\ forget \in [Forgetters -> ForgetStates]
    BY ReceiptStep DEF KnownInv, ReceiptInv, TypeInv, TypeOK, ForgetTypeOK
  <1>2. ASSUME NEW f \in Forgetters
        PROVE  ForgetIsKnown(forget[f])'
    <2>1. CASE UNCHANGED forget[f]
      <3>1. PICK g : g = forget[f] /\ g = forget'[f]
        BY <2>1
      <3>2. \A i \in Ids : Drops(g, i) => Drops(g, i)'
        BY <1>1, DropsStay
      <3>3. \A i, h : Receipted(audit, i, h) => Receipted(audit', i, h)
        BY <1>1, ReceiptsStay
      <3>4. ForgetIsKnown(g) /\ g.sweep \subseteq Ids
        BY <1>1, <3>1 DEF KnownInv, ForgetStates
      <3>5. ForgetIsKnown(g)'
        BY <3>2, <3>3, <3>4 DEF ForgetIsKnown, Accounted
      <3> QED BY <3>1, <3>5 DEF ForgetIsKnown, Accounted, Drops
    <2>2. CASE Forget(f)
      BY <2>2, KnownForgetMoves
    <2>3. CASE ForgetCrashes(f)
      BY <1>1, <2>3 DEF ForgetCrashes, EndForget, IdleForget, ForgetIsKnown
    <2>4. ASSUME NEW e \in Forgetters, ForgetStep(e), e # f
          PROVE  UNCHANGED forget[f]
      BY <1>1, <2>4 DEF ForgetStep, ForgetCrashes, Forget, ForgetClaim, ForgetTarget,
         ForgetDeletes, ForgetResolve, ForgetMapped, ForgetLooksUp, ForgetFound, ForgetRaises,
         ForgetPurge, ForgetTombstone, EndForget
    <2>5. CASE UNCHANGED forgetVars
      BY <2>1, <2>5 DEF forgetVars
    <2> QED BY <2>1, <2>2, <2>3, <2>4, <2>5
       DEF Next, QueueStep, Expiry, CallStep, ForgetStep, vars
  <1>3. (\A i \in Ids : RowIsKnown(i)') /\ (\A w \in Calls : CallIsKnown(call[w])')
    BY KnownRowStays, KnownCallStays
  <1> QED BY <1>1, <1>2, <1>3, KnownHistoryStays DEF KnownInv

\* No two approvals were approved for the same bytes.
BytesAreOwn ==
    \A i, j \in Ids, c \in Contents :
        Receipted(audit, i, c) /\ Receipted(audit, j, c) => i = j

\* A tombstone leaves no copy in the queue: with forgets by drawer id, a hash
\* that the history names as deleted is the recorded hash of no approval, unless
\* another approval was approved for the same bytes - however many forgets
\* run at once, whatever of them and of the calls dies, is slow, raises, is refused
\* or loses its answer, and whoever edits the candidates.
THEOREM TombstonesLeaveNoCopy ==
  ASSUME ForgetBy \subseteq {"drawer"}
  PROVE  Spec => [](BytesAreOwn => ForgottenLeavesNoCopy)
  <1>1. KnownInv /\ [Next]_vars => KnownInv'
    BY KnownStays, QueueAssumption, ForgetAssumption
  <1>2. ASSUME KnownInv, BytesAreOwn, NEW i \in Ids, HardDelete(queue[i].durable) \in history
        PROVE  FALSE
    <2>1. /\ queue[i].durable \in Contents /\ RowIsKnown(i) /\ None \notin Contents
      BY <1>2, QueueAssumption DEF KnownInv, ReceiptInv, TypeInv, TypeOK, QueueTypeOK, HardDelete
    <2>2. PICK j \in Ids : Receipted(audit, j, queue[i].durable) /\ queue[j].status = "purged"
      BY <1>2 DEF KnownInv, HistoryIsKnown
    <2>3. Receipted(audit, i, queue[i].durable)
      BY <2>1 DEF RowIsKnown
    <2>4. i = j
      BY <1>2, <2>1, <2>2, <2>3 DEF BytesAreOwn
    <2> QED BY <2>1, <2>2, <2>4 DEF RowIsKnown
  <1>3. KnownInv => (BytesAreOwn => ForgottenLeavesNoCopy)
    BY <1>2 DEF ForgottenLeavesNoCopy, HardDelete
  <1> QED BY <1>1, <1>3, KnownStarts, PTL DEF Spec

=============================================================================
