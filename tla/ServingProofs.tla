---------------------------- MODULE ServingProofs ----------------------------
(***************************************************************************)
(* The components that answer callers: the events an approval puts into    *)
(* the stream, the writes that go past the daily quota, revoked bearers,   *)
(* what an elevated principal does across tenants, and last the types of   *)
(* everything that MCServing runs side by side.                            *)
(***************************************************************************)
EXTENDS MCServing, OrderProofs, SequenceProofs

-----------------------------------------------------------------------------
(* ApprovalReview: one event for each approval *)

\* Nothing is known of a candidate but that it is a record with these fields.
CaseRecords == [status : CaseStatuses, wait : Int, latest : Messages \cup {NoMessage},
                sent : SUBSET Messages, via : BOOLEAN, events : Nat, claimed : BOOLEAN]

ReviewInv == cases \in [Cases -> CaseRecords] /\ OneEventPerApproval

LEMMA NewCaseIsCase == NewCase \in CaseRecords
  BY DEF NewCase, CaseRecords, CaseStatuses, Open, Awaiting

\* No candidate has been enqueued.
LEMMA ReviewStarts == ReviewInit => ReviewInv
  <1> SUFFICES ASSUME ReviewInit PROVE ReviewInv
    OBVIOUS
  <1> DEFINE r == [NewCase EXCEPT !.status = "absent"]
  <1>1. r \in CaseRecords
    BY NewCaseIsCase DEF CaseRecords, CaseStatuses
  <1>2. r.events = 0 /\ r.status = "absent"
    BY DEF NewCase
  <1>3. cases = [i \in Cases |-> r]
    BY DEF ReviewInit
  <1> HIDE DEF r
  <1>4. QED
    BY <1>1, <1>2, <1>3 DEF ReviewInv, OneEventPerApproval

\* A step of one candidate may look at its own events only.
LEMMA OneCaseMoves ==
  ASSUME ReviewInv, NEW i \in Cases, NEW r \in CaseRecords,
         cases' = [cases EXCEPT ![i] = r],
         r.events = IF r.status = "approved" THEN 1 ELSE 0
  PROVE  ReviewInv'
  BY DEF ReviewInv, OneEventPerApproval

\* A first approve adds the event and a further one does not.
LEMMA ApproveAddsOne ==
  ASSUME ReviewInv, NEW i \in Cases, NEW via \in BOOLEAN, ApproveInConn(i, via)
  PROVE  ReviewInv'
  <1>1. cases[i] \in CaseRecords
    BY DEF ReviewInv
  <1>2. CASE cases[i].status = "approved" /\ cases' = [cases EXCEPT ![i].via = @ \/ via]
    <2> DEFINE r == [cases[i] EXCEPT !.via = @ \/ via]
    <2>1. r \in CaseRecords /\ r.events = cases[i].events /\ r.status = "approved"
      BY <1>1, <1>2 DEF CaseRecords
    <2>2. cases' = [cases EXCEPT ![i] = r]
      BY <1>2
    <2>3. cases[i].events = 1
      BY <1>2 DEF ReviewInv, OneEventPerApproval
    <2> HIDE DEF r
    <2>4. QED
      BY <2>1, <2>2, <2>3, OneCaseMoves
  <1>3. CASE /\ cases[i].status \in Open
             /\ cases' = [cases EXCEPT ![i].status = "approved", ![i].via = via,
                                       ![i].events = @ + 1]
    <2> DEFINE r == [cases[i] EXCEPT !.status = "approved", !.via = via, !.events = @ + 1]
    <2>1. cases[i].events = 0
      BY <1>3 DEF ReviewInv, OneEventPerApproval, Open, Awaiting
    <2>2. r.events = 1 /\ r.status = "approved"
      BY <1>1, <2>1 DEF CaseRecords
    <2>3. r \in CaseRecords
      <3> DEFINE s == [cases[i] EXCEPT !.status = "approved"]
      <3>1. s \in CaseRecords
        BY <1>1 DEF CaseRecords, CaseStatuses
      <3> DEFINE v == [s EXCEPT !.via = via]
      <3>2. v \in CaseRecords
        BY <3>1 DEF CaseRecords
      <3>3. r = [v EXCEPT !.events = 1]
        BY <1>1, <2>1 DEF CaseRecords
      <3> HIDE DEF s, v, r
      <3>4. QED
        BY <3>2, <3>3 DEF CaseRecords
    <2>4. cases' = [cases EXCEPT ![i] = r]
      BY <1>3
    <2> HIDE DEF r
    <2>5. QED
      BY <2>2, <2>3, <2>4, OneCaseMoves
  <1>4. QED
    BY <1>2, <1>3 DEF ApproveInConn

\* Any other step keeps the events, or leaves the open statuses alone.
LEMMA ReviewSteps == ReviewInv /\ [ReviewNext]_reviewVars => ReviewInv'
  <1> SUFFICES ASSUME ReviewInv, [ReviewNext]_reviewVars PROVE ReviewInv'
    OBVIOUS
  <1> USE ReviewAssumption
  <1>0. \A i \in Cases : cases[i] \in CaseRecords
    BY DEF ReviewInv
  <1>1. ASSUME NEW i \in Cases, Enqueue(i) PROVE ReviewInv'
    <2>1. NewCase.events = 0 /\ NewCase.status = "pending_approval"
      BY DEF NewCase
    <2>2. QED
      BY <1>1, <2>1, NewCaseIsCase, OneCaseMoves DEF Enqueue
  <1>2. ASSUME NEW i \in Cases, RawApprove(i) PROVE ReviewInv'
    BY <1>2, ApproveAddsOne DEF RawApprove
  <1>3. ASSUME NEW i \in Cases, NEW m \in Messages, PressApprove(i, m) PROVE ReviewInv'
    BY <1>3, ApproveAddsOne DEF PressApprove
  <1>4. ASSUME NEW i \in Cases, DeferCandidate(i) PROVE ReviewInv'
    <2> DEFINE r == [cases[i] EXCEPT !.status = "deferred", !.wait = DeferHours]
    <2>1. r.events = cases[i].events /\ r.status = "deferred"
      BY <1>0 DEF CaseRecords
    <2>2. r \in CaseRecords
      <3>1. [cases[i] EXCEPT !.status = "deferred"] \in CaseRecords
        BY <1>0 DEF CaseRecords, CaseStatuses, Open, Awaiting
      <3>2. r = [[cases[i] EXCEPT !.status = "deferred"] EXCEPT !.wait = DeferHours]
        BY <1>0 DEF CaseRecords
      <3>3. DeferHours \in Int
        OBVIOUS
      <3>4. QED
        BY <3>1, <3>2, <3>3 DEF CaseRecords
    <2>3. cases' = [cases EXCEPT ![i] = r] /\ cases[i].events = 0
      BY <1>4 DEF DeferCandidate, Undecided, Open, Awaiting, ReviewInv, OneEventPerApproval
    <2> HIDE DEF r
    <2>4. QED
      BY <2>1, <2>2, <2>3, OneCaseMoves
  <1>5. ASSUME NEW i \in Cases, NEW status \in {"rejected", "pending"}, UpdateStatus(i, status)
        PROVE  ReviewInv'
    <2> DEFINE r == [cases[i] EXCEPT !.status = status]
    <2>1. r \in CaseRecords /\ r.events = cases[i].events /\ r.status = status
      BY <1>0 DEF CaseRecords, CaseStatuses, Open, Awaiting
    <2>2. cases' = [cases EXCEPT ![i] = r] /\ cases[i].events = 0
      BY <1>5 DEF UpdateStatus, Undecided, Open, Awaiting, ReviewInv, OneEventPerApproval
    <2> HIDE DEF r
    <2>3. QED
      BY <2>1, <2>2, OneCaseMoves
  <1>6. ASSUME NEW i \in Cases, NEW m \in Messages, NEW acc \in BOOLEAN, SendMessage(i, m, acc)
        PROVE  ReviewInv'
    <2> DEFINE r == [cases[i] EXCEPT !.latest = m, !.sent = IF acc THEN @ \cup {m} ELSE @]
    <2>1. r \in CaseRecords /\ r.events = cases[i].events /\ r.status = cases[i].status
      BY <1>0 DEF CaseRecords
    <2>2. cases' = [cases EXCEPT ![i] = r]
      BY <1>6 DEF SendMessage
    <2> HIDE DEF r
    <2>3. QED
      BY <2>1, <2>2, OneCaseMoves DEF ReviewInv, OneEventPerApproval
  <1>7. ASSUME NEW i \in Cases, ForgetClaims(i) PROVE ReviewInv'
    <2> DEFINE r == [cases[i] EXCEPT !.claimed = TRUE]
    <2>1. r \in CaseRecords /\ r.events = cases[i].events /\ r.status = cases[i].status
      BY <1>0 DEF CaseRecords
    <2>2. cases' = [cases EXCEPT ![i] = r]
      BY <1>7 DEF ForgetClaims
    <2> HIDE DEF r
    <2>3. QED
      BY <2>1, <2>2, OneCaseMoves DEF ReviewInv, OneEventPerApproval
  <1>8. ASSUME NEW i \in Cases, ForgetPurges(i) PROVE ReviewInv'
    <2> DEFINE r == [NewCase EXCEPT !.status = "purged", !.sent = cases[i].sent]
    <2>1. r.events = 0 /\ r.status = "purged"
      BY DEF NewCase
    <2>2. r \in CaseRecords
      BY <1>0, NewCaseIsCase DEF CaseRecords, CaseStatuses
    <2>3. cases' = [cases EXCEPT ![i] = r]
      BY <1>8 DEF ForgetPurges
    <2> HIDE DEF r
    <2>4. QED
      BY <2>1, <2>2, <2>3, OneCaseMoves
  <1>9. ASSUME WaitPasses PROVE ReviewInv'
    <2>1. ASSUME NEW i \in Cases
          PROVE  /\ cases'[i] \in CaseRecords
                 /\ cases'[i].events = cases[i].events /\ cases'[i].status = cases[i].status
      BY <1>0, <1>9 DEF WaitPasses, CaseRecords
    <2>2. cases' \in [Cases -> CaseRecords]
      BY <1>9, <2>1 DEF WaitPasses
    <2>3. QED
      BY <2>1, <2>2 DEF ReviewInv, OneEventPerApproval
  <1>10. ASSUME Resurface PROVE ReviewInv'
    <2>1. \A i \in Cases :
            /\ cases'[i] \in CaseRecords
            /\ cases'[i].events = cases[i].events
            /\ cases'[i].status \in {cases[i].status} \cup
                  (IF cases[i].status = "deferred" THEN {"pending"} ELSE {})
      BY <1>0, <1>10 DEF Resurface, Due, CaseRecords, CaseStatuses, Open, Awaiting
    <2>2. cases' \in [Cases -> CaseRecords]
      BY <1>10, <2>1 DEF Resurface
    <2>3. QED
      BY <2>1, <2>2 DEF ReviewInv, OneEventPerApproval
  <1>11. CASE UNCHANGED reviewVars
    BY <1>11 DEF reviewVars, ReviewInv, OneEventPerApproval
  <1>12. QED
    BY <1>1, <1>2, <1>3, <1>4, <1>5, <1>6, <1>7, <1>8, <1>9, <1>10, <1>11 DEF ReviewNext

\* A candidate puts one event in the stream when it is approved and none otherwise
\* (client_raw._approve_in_conn), for every number of candidates, messages and
\* button presses.
THEOREM OneEventForEachApproval == ReviewSpec => []OneEventPerApproval
  <1>1. ReviewInv => OneEventPerApproval
    BY DEF ReviewInv
  <1>2. QED
    BY <1>1, ReviewStarts, ReviewSteps, PTL DEF ReviewSpec

-----------------------------------------------------------------------------
(* WriteGate: fewer writes go past the quota than there are threads *)

WriteInv ==
    /\ writing \in [Requests -> WriteRecords]
    /\ writes \in Nat
    /\ OverrunIsBounded

\* The threads past the gate are some of all threads.
LEMMA GateIsFinite ==
  /\ IsFiniteSet(Requests) /\ Cardinality(Requests) \in Nat
  /\ \A S \in SUBSET Requests :
        IsFiniteSet(S) /\ Cardinality(S) \in Nat /\ Cardinality(S) <= Cardinality(Requests)
  BY WriteGateAssumption, FS_Subset, FS_CardinalityType

\* A step that leaves the count, and lets nobody past the gate, is harmless.
LEMMA GateNarrows ==
  ASSUME WriteInv, writing' \in [Requests -> WriteRecords], writes' = writes,
         PastGate' \subseteq PastGate
  PROVE  WriteInv'
  <1>1. PastGate \subseteq Requests /\ PastGate' \subseteq Requests
    BY DEF PastGate
  <1>2. IsFiniteSet(PastGate)
    BY <1>1, GateIsFinite
  <1>3. Cardinality(PastGate') <= Cardinality(PastGate)
    BY <1>2, FS_Subset
  <1>4. /\ Cardinality(PastGate') \in Nat /\ Cardinality(PastGate) \in Nat
        /\ Cardinality(Requests) \in Nat
    BY <1>1, GateIsFinite
  <1>5. writes + Cardinality(PastGate') < QuotaPerDay + Cardinality(Requests)
    BY <1>3, <1>4, WriteGateAssumption DEF WriteInv, OverrunIsBounded
  <1>6. QED
    BY <1>5 DEF WriteInv, OverrunIsBounded

\* A request goes to a stage, with or without an outcome.
LEMMA ThreadMoves ==
  ASSUME WriteInv, NEW r \in Requests, NEW stage \in WriteStages, NEW outcome \in WriteOutcomes,
         \/ writing' = [writing EXCEPT ![r].pc = stage]
         \/ writing' = [writing EXCEPT ![r].pc = stage, ![r].outcome = outcome]
  PROVE  /\ writing' \in [Requests -> WriteRecords]
         /\ stage \in {"route", "store", "charge"} => PastGate' = PastGate \cup {r}
         /\ stage \notin {"route", "store", "charge"} => PastGate' = PastGate \ {r}
  <1>1. writing[r] \in WriteRecords
    BY DEF WriteInv
  <1>2. [writing[r] EXCEPT !.pc = stage] \in WriteRecords
    BY <1>1 DEF WriteRecords
  <1>3. [writing[r] EXCEPT !.pc = stage, !.outcome = outcome] \in WriteRecords
    <2> DEFINE w == [writing[r] EXCEPT !.pc = stage]
    <2>1. [w EXCEPT !.outcome = outcome] \in WriteRecords
      BY <1>2 DEF WriteRecords
    <2>2. QED
      BY <2>1
  <1>4. /\ writing'[r] \in WriteRecords /\ writing'[r].pc = stage
        /\ \A q \in Requests \ {r} : writing'[q] = writing[q]
        /\ DOMAIN writing' = Requests
    BY <1>1, <1>2, <1>3 DEF WriteInv, WriteRecords
  <1>5. writing' \in [Requests -> WriteRecords]
    BY <1>4 DEF WriteInv
  <1>6. QED
    BY <1>4, <1>5 DEF PastGate

LEMMA GateStarts == WriteInit => WriteInv
  <1> SUFFICES ASSUME WriteInit PROVE WriteInv
    OBVIOUS
  <1>1. writing \in [Requests -> WriteRecords] /\ writes = 0
    BY DEF WriteInit, NotWriting, WriteRecords, WriteStages, WriteOutcomes
  <1>2. PastGate = {}
    BY DEF WriteInit, NotWriting, PastGate
  <1>3. OverrunIsBounded
    BY <1>1, <1>2, FS_EmptySet, GateIsFinite, WriteGateAssumption DEF OverrunIsBounded
  <1>4. QED
    BY <1>1, <1>3 DEF WriteInv

\* Whoever is let in was let in on a count below the quota, and there is room for
\* every thread; a thread that is charged leaves as the count grows.
LEMMA WriteSteps == WriteInv /\ [WriteNext]_writeVars => WriteInv'
  <1> SUFFICES ASSUME WriteInv, [WriteNext]_writeVars PROVE WriteInv'
    OBVIOUS
  <1> USE WriteGateAssumption
  <1>0. \A r \in Requests : writing[r] \in WriteRecords
    BY DEF WriteInv
  <1>1. ASSUME NEW r \in Requests, NEW place \in AllRooms, NEW text \in Texts,
               ReceiveWrite(r, place, text)
        PROVE  WriteInv'
    <2>1. writing' \in [Requests -> WriteRecords]
      BY <1>1 DEF ReceiveWrite, WriteInv, WriteRecords, WriteStages, WriteOutcomes
    <2>2. PastGate' \subseteq PastGate
      BY <1>0, <1>1, <2>1 DEF ReceiveWrite, PastGate, WriteInv, WriteRecords
    <2>3. QED
      BY <1>1, <2>1, <2>2, GateNarrows DEF ReceiveWrite
  <1>2. ASSUME NEW r \in Requests, EnforceWriteQuota(r) PROVE WriteInv'
    <2>1. CASE QuotaLeft
      <3>1. writes < QuotaPerDay /\ writes' = writes
        BY <1>2, <2>1 DEF EnforceWriteQuota, QuotaLeft
      <3>2. PastGate' \in SUBSET Requests
        BY DEF PastGate
      <3>3. OverrunIsBounded'
        BY <3>1, <3>2, GateIsFinite DEF OverrunIsBounded, WriteInv
      <3>4. writing' \in [Requests -> WriteRecords]
        BY <1>2, <2>1, ThreadMoves
        DEF EnforceWriteQuota, WriteGoes, WriteStages, WriteOutcomes
      <3>5. QED
        BY <3>1, <3>3, <3>4 DEF WriteInv
    <2>2. CASE ~QuotaLeft
      <3>1. /\ "record" \in WriteStages /\ "quota_exceeded" \in WriteOutcomes
            /\ writing' = [writing EXCEPT ![r].pc = "record", ![r].outcome = "quota_exceeded"]
        BY <1>2, <2>2 DEF EnforceWriteQuota, Conclude, WriteStages, WriteOutcomes
      <3>2. writing' \in [Requests -> WriteRecords] /\ PastGate' \subseteq PastGate
        BY <3>1, ThreadMoves
      <3>3. QED
        BY <1>2, <3>2, GateNarrows DEF EnforceWriteQuota
    <2>3. QED
      BY <2>1, <2>2
  <1>3. ASSUME NEW r \in Requests, RouteWrite(r) PROVE WriteInv'
    <2>1. r \in PastGate
      BY <1>3 DEF RouteWrite, WriteAt, PastGate
    <2>2. PICK stage \in WriteStages, outcome \in WriteOutcomes :
             \/ writing' = [writing EXCEPT ![r].pc = stage]
             \/ writing' = [writing EXCEPT ![r].pc = stage, ![r].outcome = outcome]
      BY <1>3 DEF RouteWrite, WriteGoes, Conclude, WriteStages, WriteOutcomes
    <2>3. writing' \in [Requests -> WriteRecords] /\ PastGate' \subseteq PastGate
      BY <2>1, <2>2, ThreadMoves
    <2>4. QED
      BY <1>3, <2>3, GateNarrows DEF RouteWrite
  <1>4. ASSUME NEW r \in Requests, AddMemory(r) PROVE WriteInv'
    <2>1. r \in PastGate
      BY <1>4 DEF AddMemory, WriteAt, PastGate
    <2>2. PICK stage \in WriteStages, outcome \in WriteOutcomes :
             writing' = [writing EXCEPT ![r].pc = stage, ![r].outcome = outcome]
      BY <1>4 DEF AddMemory, Conclude, WriteStages, WriteOutcomes
    <2>3. writing' \in [Requests -> WriteRecords] /\ PastGate' \subseteq PastGate
      BY <2>1, <2>2, ThreadMoves
    <2>4. QED
      BY <1>4, <2>3, GateNarrows DEF AddMemory
  <1>5. ASSUME NEW r \in Requests, ChargeQuota(r) PROVE WriteInv'
    <2>1. r \in PastGate /\ PastGate \in SUBSET Requests
      BY <1>5 DEF ChargeQuota, WriteAt, PastGate
    <2>2. writing' \in [Requests -> WriteRecords] /\ PastGate' = PastGate \ {r}
      BY <1>5, ThreadMoves DEF ChargeQuota, WriteGoes, WriteStages, WriteOutcomes
    <2>3. Cardinality(PastGate') = Cardinality(PastGate) - 1
      BY <2>1, <2>2, GateIsFinite, FS_RemoveElement
    <2>4. writes' \in Nat /\ writes' <= writes + 1
      BY <1>5 DEF ChargeQuota, WriteInv
    <2>5. OverrunIsBounded'
      BY <2>1, <2>3, <2>4, GateIsFinite DEF OverrunIsBounded, WriteInv
    <2>6. QED
      BY <2>2, <2>4, <2>5 DEF WriteInv
  <1>6. ASSUME NEW r \in Requests, RecordAndAnswer(r) PROVE WriteInv'
    <2>1. writing' \in [Requests -> WriteRecords]
      BY <1>6
      DEF RecordAndAnswer, WriteInv, WriteRecords, NotWriting, WriteStages, WriteOutcomes
    <2>2. PastGate' \subseteq PastGate
      BY <1>0, <1>6, <2>1 DEF RecordAndAnswer, PastGate, WriteInv, NotWriting
    <2>3. QED
      BY <1>6, <2>1, <2>2, GateNarrows DEF RecordAndAnswer
  <1>7. ASSUME BoxStarts PROVE WriteInv'
    <2>1. writing' \in [Requests -> WriteRecords] /\ writes' = 0
      BY <1>7 DEF BoxStarts, NotWriting, WriteRecords, WriteStages, WriteOutcomes
    <2>2. PastGate' = {}
      BY <1>7 DEF BoxStarts, NotWriting, PastGate
    <2>3. OverrunIsBounded'
      BY <2>1, <2>2, FS_EmptySet, GateIsFinite DEF OverrunIsBounded
    <2>4. QED
      BY <2>1, <2>3 DEF WriteInv
  <1>8. CASE UNCHANGED writeVars
    <2>1. writing' = writing /\ writes' = writes
      BY <1>8 DEF writeVars
    <2>2. PastGate' = PastGate
      BY <2>1 DEF PastGate
    <2>3. QED
      BY <2>1, <2>2 DEF WriteInv, OverrunIsBounded
  <1>9. QED
    BY <1>1, <1>2, <1>3, <1>4, <1>5, <1>6, <1>7, <1>8 DEF WriteNext

\* The daily quota is overrun by less than the number of threads
\* (client._enforce_write_quota, _record_write), for every quota, every number of
\* threads and however often the box is restarted.
THEOREM QuotaOverrunIsBounded == WriteSpec => []OverrunIsBounded
  <1>1. WriteInv => OverrunIsBounded
    BY DEF WriteInv
  <1>2. QED
    BY <1>1, GateStarts, WriteSteps, PTL DEF WriteSpec

-----------------------------------------------------------------------------
(* BearerAccess: tokens, elevations and what is on record of them *)

AccessShape ==
    /\ token \in [Labels -> [revoked : Nat, expires : Nat]]
    /\ hour \in Nat /\ 0 < hour /\ hour <= MaxHours + 1
    /\ elevated \in [Elevations -> Nat]
    /\ thread \in [Threads -> [pc : ThreadStages, label : Labels \cup {"nobody"}, until : Nat]]
    /\ rotation \in [pc : {"none", "stamp", "mint"}, label : Labels \cup {"nobody"}]
    /\ cut \subseteq Labels /\ overtaken \subseteq cut

\* An idle thread serves nobody, and a rotation has found its row.
IdleIsEmpty == \A t \in Threads : ThreadAt(t, "idle") => thread[t] = IdleThread
RotatesMinted == rotation.pc = "stamp" => rotation.label \in Bearers /\ Minted(rotation.label)

\* The label of a token that is about to be minted is known to its thread alone.
MintIsAlone ==
    \A t \in Threads : ThreadAt(t, "mint") =>
        /\ thread[t].label \in Elevations /\ ~Minted(thread[t].label)
        /\ \A u \in Threads \ {t} : thread[u].label # thread[t].label

\* A token whose revocation was reported is past it, and no rotation will stamp it,
\* unless one had read it before; that one leaves it a grace.
CutIsOver ==
    \A l \in cut : /\ Minted(l) /\ token[l].revoked <= hour + Grace
                   /\ l \notin overtaken => token[l].revoked <= hour /\ ~Overtakes(l)

\* An elevation, of the process or of a request, began with a recorded opening.
Opened(e, until, book) ==
    \E o \in book : o.op = "open" /\ o.of = e /\ o.at \in Nat /\ o.at <= hour /\ until = o.at + Ttl

ElevationIsOpened ==
    /\ \A e \in Elevations : elevated[e] # 0 => Opened(e, elevated[e], audited)
    /\ \A t \in Threads : thread[t].until # 0 => Opened(thread[t].label, thread[t].until, audited)

\* A crossing that is not on record yet is in the hands of an elevated request.
InHand(l) == \E t \in Threads : /\ thread[t].label = l /\ thread[t].until # 0
                                /\ thread[t].pc \in {"client_audit", "route_audit"}

CrossingIsHandled ==
    \A c \in crossed :
        /\ \E o \in audited : o.op = "open" /\ o.of = c.of /\ o.at <= c.at /\ c.at < o.at + Ttl
        /\ OperationRecord(c.of) \in audited \/ InHand(c.of)

AccessInv ==
    /\ AccessShape /\ IdleIsEmpty /\ RotatesMinted /\ MintIsAlone /\ CutIsOver
    /\ ElevationIsOpened /\ CrossingIsHandled

\* No tokens, no elevation, no request.
LEMMA AccessStarts == AccessInit => AccessInv
  <1> SUFFICES ASSUME AccessInit PROVE AccessInv
    OBVIOUS
  <1> USE AccessAssumption DEF AccessInit, NoToken, IdleThread, NoRotation
  <1>1. AccessShape
    <2>1. [pc |-> "idle", label |-> "nobody", until |-> 0]
             \in [pc : ThreadStages, label : Labels \cup {"nobody"}, until : Nat]
      BY DEF ThreadStages
    <2>2. QED
      BY <2>1 DEF AccessShape
  <1>2. IdleIsEmpty /\ RotatesMinted /\ MintIsAlone /\ CutIsOver
    BY DEF IdleIsEmpty, RotatesMinted, MintIsAlone, CutIsOver, ThreadAt
  <1>3. ElevationIsOpened /\ CrossingIsHandled
    BY DEF ElevationIsOpened, CrossingIsHandled
  <1>4. QED
    BY <1>1, <1>2, <1>3 DEF AccessInv

-----------------------------------------------------------------------------
(* The tokens *)

TokenInv == AccessShape /\ IdleIsEmpty /\ RotatesMinted /\ MintIsAlone /\ CutIsOver

\* A row with a time in it is the row of a token.
LEMMA RowIsMinted ==
  ASSUME NEW r \in [revoked : Nat, expires : Nat], r.revoked > 0 \/ r.expires > 0
  PROVE  r # NoToken
  <1>1. NoToken.revoked = 0 /\ NoToken.expires = 0
    BY DEF NoToken
  <1>2. QED
    BY <1>1

\* What a mint does to the table.
LEMMA MintsOne ==
  ASSUME AccessShape, NEW l \in Labels, NEW x \in Nat, x > 0,
         token' = [token EXCEPT ![l] = [revoked |-> Never, expires |-> x]]
  PROVE  /\ token' \in [Labels -> [revoked : Nat, expires : Nat]]
         /\ \A k \in Labels \ {l} : token'[k] = token[k]
         /\ \A k \in Labels : Minted(k)' <=> (Minted(k) \/ k = l)
  <1>1. [revoked |-> Never, expires |-> x] \in [revoked : Nat, expires : Nat]
    BY AccessAssumption
  <1>2. [revoked |-> Never, expires |-> x] # NoToken
    BY <1>1, RowIsMinted
  <1>3. token' \in [Labels -> [revoked : Nat, expires : Nat]]
    BY <1>1 DEF AccessShape
  <1>4. token'[l] = [revoked |-> Never, expires |-> x] /\ \A k \in Labels \ {l} : token'[k] = token[k]
    BY DEF AccessShape
  <1>5. QED
    BY <1>2, <1>3, <1>4 DEF Minted

\* What a stamp does to the table.
LEMMA StampsOne ==
  ASSUME AccessShape, NEW l \in Labels, Minted(l), NEW n \in Nat, n > 0,
         token' = [token EXCEPT ![l].revoked = n]
  PROVE  /\ token' \in [Labels -> [revoked : Nat, expires : Nat]]
         /\ token'[l].revoked = n
         /\ \A k \in Labels \ {l} : token'[k] = token[k]
         /\ \A k \in Labels : Minted(k)' <=> Minted(k)
  <1>1. token[l] \in [revoked : Nat, expires : Nat]
    BY DEF AccessShape
  <1>2. /\ token' \in [Labels -> [revoked : Nat, expires : Nat]] /\ token'[l].revoked = n
        /\ \A k \in Labels \ {l} : token'[k] = token[k]
    BY <1>1 DEF AccessShape
  <1>3. token'[l] # NoToken
    BY <1>2, RowIsMinted
  <1>4. QED
    BY <1>2, <1>3 DEF Minted

\* Steps of the token table: a label is minted once, a cut one is not touched.
LEMMA TokenSteps ==
  ASSUME TokenInv,
         \/ \E l \in Bearers : MintBearer(l) \/ RotateRead(l)
         \/ \E l \in Labels : Revoke(l)
         \/ RotateStamp \/ RotateMint \/ RotateDies
  PROVE  TokenInv'
  <1> USE AccessAssumption DEF TokenInv
  <1>0. Bearers \subseteq Labels /\ SuccessorLabels \subseteq Labels /\ Elevations \subseteq Labels
    BY DEF Labels
  <1>1. ASSUME NEW l \in Bearers, MintBearer(l) PROVE TokenInv'
    <2>1. /\ token' \in [Labels -> [revoked : Nat, expires : Nat]]
          /\ \A k \in Labels \ {l} : token'[k] = token[k]
          /\ \A k \in Labels : Minted(k)' <=> (Minted(k) \/ k = l)
      BY <1>0, <1>1, Never > 0, MintsOne DEF MintBearer
    <2>2. AccessShape' /\ IdleIsEmpty'
      BY <1>1, <2>1 DEF MintBearer, AccessShape, IdleIsEmpty, ThreadAt
    <2>3. RotatesMinted' /\ MintIsAlone'
      BY <1>0, <1>1, <2>1 DEF MintBearer, MintIsAlone, RotatesMinted, ThreadAt
    <2>4. CutIsOver'
      BY <1>0, <1>1, <2>1 DEF MintBearer, CutIsOver, AccessShape, Overtakes
    <2>5. QED
      BY <2>2, <2>3, <2>4
  <1>2. ASSUME NEW l \in Bearers, RotateRead(l) PROVE TokenInv'
    <2>1. AccessShape' /\ IdleIsEmpty'
      BY <1>0, <1>2 DEF RotateRead, AccessShape, IdleIsEmpty, ThreadAt
    <2>2. RotatesMinted' /\ MintIsAlone'
      BY <1>2 DEF RotateRead, RotatesMinted, MintIsAlone, Minted, ThreadAt
    <2>3. l \notin cut
      BY <1>2 DEF RotateRead, CutIsOver, AccessShape
    <2>4. CutIsOver'
      BY <1>2, <2>3 DEF RotateRead, CutIsOver, Minted, Overtakes
    <2>5. QED
      BY <2>1, <2>2, <2>4
  <1>3. ASSUME NEW l \in Labels, Revoke(l) PROVE TokenInv'
    <2> DEFINE n == IF token[l].revoked > hour THEN hour ELSE token[l].revoked
    <2>0. token[l] \in [revoked : Nat, expires : Nat] /\ n \in Nat /\ n <= hour
      BY DEF AccessShape
    <2>1. /\ token' \in [Labels -> [revoked : Nat, expires : Nat]]
          /\ token'[l].revoked = n
          /\ \A k \in Labels \ {l} : token'[k] = token[k]
          /\ \A k \in Labels : Minted(k)' <=> Minted(k)
      <3>1. CASE n > 0
        BY <1>3, <2>0, <3>1, StampsOne DEF Revoke
      <3>2. CASE n = 0
        <4>1. token[l].revoked = 0 /\ ~(token[l].revoked > hour)
          BY <2>0, <3>2 DEF AccessShape
        <4>2. token' = token
          BY <1>3, <2>0, <4>1 DEF Revoke, AccessShape
        <4>3. QED
          BY <3>2, <4>1, <4>2 DEF AccessShape, Minted
      <3>3. QED
        BY <2>0, <3>1, <3>2
    <2> HIDE DEF n
    <2>2. AccessShape' /\ IdleIsEmpty'
      BY <1>3, <2>1 DEF Revoke, AccessShape, IdleIsEmpty, ThreadAt
    <2>3. RotatesMinted' /\ MintIsAlone'
      BY <1>0, <1>3, <2>1 DEF Revoke, RotatesMinted, MintIsAlone, ThreadAt
    <2>4. CutIsOver'
      <3>1. /\ cut' = cut \cup {l} /\ Minted(l) /\ UNCHANGED <<hour, rotation>>
            /\ overtaken' = IF Overtakes(l) THEN overtaken \cup {l} ELSE overtaken \ {l}
        BY <1>3 DEF Revoke
      <3>2. \A k \in Labels : Overtakes(k)' <=> Overtakes(k)
        BY <3>1 DEF Overtakes
      <3>3. n <= hour + Grace /\ cut \subseteq Labels
        BY <2>0 DEF AccessShape
      <3>4. QED
        BY <2>0, <2>1, <3>1, <3>2, <3>3 DEF CutIsOver
    <2>5. QED
      BY <2>2, <2>3, <2>4
  <1>4. ASSUME RotateStamp PROVE TokenInv'
    <2> DEFINE l == rotation.label
    <2>0. l \in Bearers /\ l \in Labels /\ Minted(l) /\ (l \in cut => l \in overtaken)
      BY <1>0, <1>4 DEF RotateStamp, RotatesMinted, CutIsOver, Overtakes
    <2>1. /\ token' \in [Labels -> [revoked : Nat, expires : Nat]]
          /\ token'[l].revoked = hour + Grace
          /\ \A k \in Labels \ {l} : token'[k] = token[k]
          /\ \A k \in Labels : Minted(k)' <=> Minted(k)
      <3>1. hour + Grace \in Nat /\ hour + Grace > 0
        BY DEF AccessShape
      <3>2. QED
        BY <1>4, <2>0, <3>1, StampsOne DEF RotateStamp
    <2>2. rotation'.pc = "mint" /\ rotation' \in [pc : {"none", "stamp", "mint"}, label : Labels \cup {"nobody"}]
      BY <1>4 DEF RotateStamp, AccessShape
    <2>3. AccessShape' /\ IdleIsEmpty'
      BY <1>4, <2>1, <2>2 DEF RotateStamp, AccessShape, IdleIsEmpty, ThreadAt
    <2>4. RotatesMinted' /\ MintIsAlone'
      BY <1>0, <1>4, <2>1, <2>2 DEF RotateStamp, RotatesMinted, MintIsAlone, ThreadAt
    <2>5. CutIsOver'
      BY <1>4, <2>0, <2>1, <2>2 DEF RotateStamp, CutIsOver, AccessShape, Overtakes
    <2>6. QED
      BY <2>3, <2>4, <2>5
  <1>5. ASSUME RotateMint PROVE TokenInv'
    <2>0. PICK s \in SuccessorLabels :
             /\ ~Minted(s)
             /\ token' = [token EXCEPT ![s] = [revoked |-> Never, expires |-> Never]]
      BY <1>5 DEF RotateMint
    <2>1. /\ token' \in [Labels -> [revoked : Nat, expires : Nat]]
          /\ \A k \in Labels \ {s} : token'[k] = token[k]
          /\ \A k \in Labels : Minted(k)' <=> (Minted(k) \/ k = s)
      BY <1>0, <2>0, Never > 0, MintsOne
    <2>2. rotation'.pc = "none" /\ rotation' \in [pc : {"none", "stamp", "mint"}, label : Labels \cup {"nobody"}]
      BY <1>5 DEF RotateMint, NoRotation
    <2>3. AccessShape' /\ IdleIsEmpty'
      BY <1>5, <2>1, <2>2 DEF RotateMint, AccessShape, IdleIsEmpty, ThreadAt
    <2>4. RotatesMinted' /\ MintIsAlone'
      BY <1>0, <1>5, <2>0, <2>1, <2>2 DEF RotateMint, RotatesMinted, MintIsAlone, ThreadAt
    <2>5. CutIsOver'
      BY <1>5, <2>0, <2>1, <2>2 DEF RotateMint, CutIsOver, AccessShape, Overtakes
    <2>6. QED
      BY <2>3, <2>4, <2>5
  <1>6. ASSUME RotateDies PROVE TokenInv'
    <2>1. rotation'.pc = "none" /\ rotation' \in [pc : {"none", "stamp", "mint"}, label : Labels \cup {"nobody"}]
      BY <1>6 DEF RotateDies, NoRotation
    <2>2. QED
      BY <1>6, <2>1 DEF RotateDies, AccessShape, IdleIsEmpty, RotatesMinted, MintIsAlone,
                        CutIsOver, Minted, Overtakes, ThreadAt
  <1>7. QED
    BY <1>1, <1>2, <1>3, <1>4, <1>5, <1>6

\* A request that goes on keeps its label, or is over; no request touches the table
\* before it mints, and then the label is its own.
LEMMA RequestSteps ==
  ASSUME TokenInv, NEW t \in Threads,
         \/ \E l \in Labels : Authenticate(t, l)
         \/ \E e \in Elevations : OpenElevation(t, e)
         \/ Operate(t) \/ ClientAudit(t) \/ RouteAudit(t) \/ MintElevation(t)
  PROVE  TokenInv'
  <1> USE AccessAssumption DEF TokenInv
  <1>0. /\ Elevations \subseteq Labels /\ "nobody" \notin Labels
        /\ thread[t] \in [pc : ThreadStages, label : Labels \cup {"nobody"}, until : Nat]
        /\ DOMAIN thread = Threads
    BY DEF Labels, AccessShape
  <1>1. ASSUME NEW l \in Labels, Authenticate(t, l) PROVE TokenInv'
    <2> DEFINE row == [pc |-> "routed", label |-> l, until |-> Principal(l)]
    <2>1. row \in [pc : ThreadStages, label : Labels \cup {"nobody"}, until : Nat]
      BY DEF Principal, AccessShape, ThreadStages
    <2>2. /\ thread' = [thread EXCEPT ![t] = row] /\ row.pc = "routed" /\ row.label = l
          /\ Minted(l)
      BY <1>1 DEF Authenticate, Authenticates, ResolvesBearer
    <2> HIDE DEF row
    <2>3. AccessShape' /\ IdleIsEmpty' /\ RotatesMinted' /\ CutIsOver'
      BY <1>1, <2>1, <2>2
      DEF Authenticate, AccessShape, IdleIsEmpty, RotatesMinted, CutIsOver, Minted, Overtakes, ThreadAt
    <2>4. token' = token
      BY <1>1 DEF Authenticate
    <2>5. MintIsAlone'
      BY <1>0, <2>2, <2>4 DEF MintIsAlone, Minted, ThreadAt
    <2>6. QED
      BY <2>3, <2>5
  <1>2. ASSUME NEW e \in Elevations, OpenElevation(t, e) PROVE TokenInv'
    <2>1. CASE thread' = [thread EXCEPT ![t] = [pc |-> "mint", label |-> e, until |-> hour + Ttl]]
      <3> DEFINE row == [pc |-> "mint", label |-> e, until |-> hour + Ttl]
      <3>1. row \in [pc : ThreadStages, label : Labels \cup {"nobody"}, until : Nat]
        BY <1>0 DEF AccessShape, ThreadStages
      <3>2. /\ thread' = [thread EXCEPT ![t] = row] /\ row.pc = "mint" /\ row.label = e
            /\ ~Minted(e) /\ \A u \in Threads \ {t} : thread[u].label # e
        BY <1>2, <2>1 DEF OpenElevation
      <3> HIDE DEF row
      <3>3. AccessShape' /\ IdleIsEmpty' /\ RotatesMinted' /\ CutIsOver'
        BY <1>2, <3>1, <3>2
        DEF OpenElevation, AccessShape, IdleIsEmpty, RotatesMinted, CutIsOver, Minted, Overtakes, ThreadAt
      <3>4. token' = token
        BY <1>2 DEF OpenElevation
      <3>5. MintIsAlone'
        BY <1>0, <3>2, <3>4 DEF MintIsAlone, Minted, ThreadAt
      <3>6. QED
        BY <3>3, <3>5
    <2>2. CASE thread' = [thread EXCEPT ![t] = IdleThread]
      <3>1. IdleThread \in [pc : ThreadStages, label : Labels \cup {"nobody"}, until : Nat]
            /\ IdleThread.label = "nobody" /\ IdleThread.pc = "idle"
        BY DEF IdleThread, ThreadStages
      <3>2. AccessShape' /\ IdleIsEmpty' /\ RotatesMinted' /\ CutIsOver'
        BY <1>2, <2>2, <3>1
        DEF OpenElevation, AccessShape, IdleIsEmpty, RotatesMinted, CutIsOver, Minted, Overtakes, ThreadAt
      <3>3. token' = token
        BY <1>2 DEF OpenElevation
      <3>4. MintIsAlone'
        BY <1>0, <2>2, <3>1, <3>3 DEF MintIsAlone, Minted, ThreadAt
      <3>5. QED
        BY <3>2, <3>4
    <2>3. QED
      BY <1>2, <2>1, <2>2 DEF OpenElevation
  <1>3. ASSUME UNCHANGED <<token, hour, elevated, rotation, cut, overtaken>>,
               \/ thread' = [thread EXCEPT ![t] = IdleThread]
               \/ \E stage \in ThreadStages \ {"idle", "mint"} :
                    thread' = [thread EXCEPT ![t].pc = stage]
        PROVE  TokenInv'
    <2>1. CASE thread' = [thread EXCEPT ![t] = IdleThread]
      <3>1. IdleThread \in [pc : ThreadStages, label : Labels \cup {"nobody"}, until : Nat]
            /\ IdleThread.label = "nobody" /\ IdleThread.pc = "idle"
        BY DEF IdleThread, ThreadStages
      <3>2. AccessShape' /\ IdleIsEmpty' /\ RotatesMinted' /\ CutIsOver'
        BY <1>3, <2>1, <3>1
        DEF AccessShape, IdleIsEmpty, RotatesMinted, CutIsOver, Minted, Overtakes, ThreadAt
      <3>3. MintIsAlone'
        BY <1>0, <1>3, <2>1, <3>1 DEF MintIsAlone, Minted, ThreadAt
      <3>4. QED
        BY <3>2, <3>3
    <2>2. ASSUME NEW stage \in ThreadStages \ {"idle", "mint"},
                 thread' = [thread EXCEPT ![t].pc = stage]
          PROVE  TokenInv'
      <3>1. /\ thread'[t] \in [pc : ThreadStages, label : Labels \cup {"nobody"}, until : Nat]
            /\ thread'[t].pc = stage /\ thread'[t].label = thread[t].label
            /\ \A u \in Threads \ {t} : thread'[u] = thread[u]
            /\ DOMAIN thread' = Threads
        BY <1>0, <2>2
      <3>2. thread' \in [Threads -> [pc : ThreadStages, label : Labels \cup {"nobody"}, until : Nat]]
        BY <2>2, <3>1 DEF AccessShape
      <3>3. AccessShape' /\ IdleIsEmpty' /\ RotatesMinted' /\ CutIsOver'
        BY <1>3, <3>1, <3>2
        DEF AccessShape, IdleIsEmpty, RotatesMinted, CutIsOver, Minted, Overtakes, ThreadAt
      <3>4. MintIsAlone'
        BY <1>3, <3>1 DEF MintIsAlone, Minted, ThreadAt
      <3>5. QED
        BY <3>3, <3>4
    <2>3. QED
      BY <1>3, <2>1, <2>2
  <1>4. CASE Operate(t) \/ ClientAudit(t) \/ RouteAudit(t)
    BY <1>3, <1>4 DEF Operate, ClientAudit, RouteAudit, ThreadGoes, ThreadStages
  <1>5. CASE MintElevation(t)
    <2> DEFINE e == thread[t].label
    <2>0. /\ e \in Elevations /\ e \in Labels /\ ~Minted(e)
          /\ \A u \in Threads \ {t} : thread[u].label # e
      BY <1>0, <1>5 DEF MintElevation, MintIsAlone
    <2>1. CASE UNCHANGED <<token, elevated>>
      BY <1>3, <1>5, <2>1 DEF MintElevation
    <2>2. CASE /\ token' = [token EXCEPT ![e] = [revoked |-> Never, expires |-> hour + Ttl]]
               /\ elevated' = [elevated EXCEPT ![e] = thread[t].until]
      <3>1. /\ token' \in [Labels -> [revoked : Nat, expires : Nat]]
            /\ \A k \in Labels \ {e} : token'[k] = token[k]
            /\ \A k \in Labels : Minted(k)' <=> (Minted(k) \/ k = e)
        <4>1. hour + Ttl \in Nat /\ hour + Ttl > 0
          BY DEF AccessShape
        <4>2. QED
          BY <2>0, <2>2, <4>1, MintsOne
      <3>2. IdleThread \in [pc : ThreadStages, label : Labels \cup {"nobody"}, until : Nat]
            /\ IdleThread.label = "nobody" /\ IdleThread.pc = "idle"
        BY DEF IdleThread, ThreadStages
      <3>3. /\ thread' = [thread EXCEPT ![t] = IdleThread] /\ UNCHANGED <<hour, rotation, cut, overtaken>>
            /\ elevated' \in [Elevations -> Nat]
        BY <1>0, <1>5, <2>2 DEF MintElevation, AccessShape
      <3>4. AccessShape' /\ IdleIsEmpty'
        BY <3>1, <3>2, <3>3 DEF AccessShape, IdleIsEmpty, ThreadAt
      <3>5. RotatesMinted' /\ MintIsAlone'
        BY <1>0, <2>0, <3>1, <3>2, <3>3 DEF RotatesMinted, MintIsAlone, ThreadAt, Labels
      <3>6. CutIsOver'
        BY <2>0, <3>1, <3>3 DEF CutIsOver, AccessShape, Overtakes
      <3>7. QED
        BY <3>4, <3>5, <3>6
    <2>3. QED
      BY <1>5, <2>1, <2>2 DEF MintElevation
  <1>6. QED
    BY <1>1, <1>2, <1>4, <1>5

LEMMA TokenKept == TokenInv /\ [AccessNext]_accessVars => TokenInv'
  <1> SUFFICES ASSUME TokenInv, [AccessNext]_accessVars PROVE TokenInv'
    OBVIOUS
  <1> USE AccessAssumption DEF TokenInv
  <1>1. ASSUME ShutDown PROVE TokenInv'
    BY <1>1 DEF ShutDown, AccessShape, IdleIsEmpty, RotatesMinted, MintIsAlone, CutIsOver,
                Minted, Overtakes, ThreadAt
  <1>2. ASSUME ProcessDies PROVE TokenInv'
    <2>1. IdleThread \in [pc : ThreadStages, label : Labels \cup {"nobody"}, until : Nat]
          /\ IdleThread.pc = "idle"
      BY DEF IdleThread, ThreadStages
    <2> HIDE DEF IdleThread
    <2>2. QED
      BY <1>2, <2>1
      DEF ProcessDies, AccessShape, IdleIsEmpty, RotatesMinted, MintIsAlone, CutIsOver, Minted,
          Overtakes, ThreadAt
  <1>3. ASSUME HourPasses PROVE TokenInv'
    BY <1>3 DEF HourPasses, AccessShape, IdleIsEmpty, RotatesMinted, MintIsAlone, CutIsOver,
                Minted, Overtakes, ThreadAt
  <1>4. CASE UNCHANGED accessVars
    BY <1>4 DEF accessVars, AccessShape, IdleIsEmpty, RotatesMinted, MintIsAlone, CutIsOver,
                Minted, Overtakes, ThreadAt
  <1>5. QED
    BY <1>1, <1>2, <1>3, <1>4, TokenSteps, RequestSteps DEF AccessNext

\* A bearer whose revocation was reported is rejected (tokens.revoke, rotate,
\* resolve_bearer) through later rotations, grace windows, restarts and elevations of
\* any number of tokens; only a rotation that had read its row before revives it, for
\* its grace at most, and revoking it again after that rotation is final.
THEOREM RevokedIsRejected == AccessSpec => []RevocationHolds
  <1>1. AccessInv => TokenInv
    BY DEF AccessInv, TokenInv
  <1>2. TokenInv => RevocationHolds
    BY DEF TokenInv, CutIsOver, RevocationHolds, ResolvesBearer, AccessShape
  <1>3. QED
    BY <1>1, <1>2, AccessStarts, TokenKept, PTL DEF AccessSpec

-----------------------------------------------------------------------------
(* The elevations *)

RecordInv == TokenInv /\ ElevationIsOpened /\ CrossingIsHandled

\* A step that adds records and elevates nobody, in which a request keeps the end of
\* its elevation or is over.
LEMMA ElevationKept ==
  ASSUME RecordInv, TokenInv', audited \subseteq audited', hour <= hour',
         \A e \in Elevations : elevated'[e] \in {0, elevated[e]},
         \A t \in Threads : \/ thread'[t].until = 0
                            \/ /\ thread'[t].until = thread[t].until
                               /\ thread'[t].label = thread[t].label
  PROVE  ElevationIsOpened'
  <1>1. AccessShape /\ hour' \in Nat
    BY DEF RecordInv, TokenInv, AccessShape
  <1>2. \A e \in Elevations : elevated'[e] # 0 => Opened(e, elevated[e], audited)
    BY DEF RecordInv, ElevationIsOpened
  <1>3. \A t \in Threads : thread'[t].until # 0 => Opened(thread[t].label, thread[t].until, audited)
    BY DEF RecordInv, ElevationIsOpened
  <1>4. \A e \in Elevations : elevated'[e] # 0 =>
           \E o \in audited' : o.op = "open" /\ o.of = e /\ o.at \in Nat /\ o.at <= hour'
                                  /\ elevated'[e] = o.at + Ttl
    BY <1>1, <1>2 DEF Opened, AccessShape
  <1>5. \A t \in Threads : thread'[t].until # 0 =>
           \E o \in audited' : o.op = "open" /\ o.of = thread'[t].label /\ o.at \in Nat
                                  /\ o.at <= hour' /\ thread'[t].until = o.at + Ttl
    BY <1>1, <1>3 DEF Opened, AccessShape
  <1>6. QED
    BY <1>4, <1>5 DEF ElevationIsOpened, Opened

\* A step that adds records and no crossing, and leaves alone who has one in hand.
LEMMA CrossingKept ==
  ASSUME RecordInv, audited \subseteq audited', crossed' \subseteq crossed,
         \A c \in crossed' : InHand(c.of) => InHand(c.of)' \/ OperationRecord(c.of) \in audited'
  PROVE  CrossingIsHandled'
  <1>1. \A c \in crossed' : OperationRecord(c.of)' = OperationRecord(c.of)
    BY DEF OperationRecord
  <1>2. QED
    BY <1>1 DEF RecordInv, CrossingIsHandled

\* Each step of a request, and the steps around it.
LEMMA RecordSteps == RecordInv /\ [AccessNext]_accessVars => RecordInv'
  <1> SUFFICES ASSUME RecordInv, [AccessNext]_accessVars PROVE RecordInv'
    OBVIOUS
  <1>0. TokenInv /\ TokenInv' /\ AccessShape
    BY TokenKept DEF RecordInv, TokenInv
  <1> USE AccessAssumption
  <1>1. CASE UNCHANGED <<elevated, thread, audited, crossed>> /\ hour <= hour'
    <2>1. ElevationIsOpened'
      BY <1>0, <1>1, ElevationKept DEF AccessShape
    <2>2. CrossingIsHandled'
      BY <1>1, CrossingKept DEF InHand
    <2>3. QED
      BY <1>0, <2>1, <2>2 DEF RecordInv
  <1>2. ASSUME NEW t \in Threads, NEW l \in Labels, Authenticate(t, l) PROVE RecordInv'
    <2>1. /\ thread'[t] = [pc |-> "routed", label |-> l, until |-> Principal(l)]
          /\ \A u \in Threads \ {t} : thread'[u] = thread[u]
      BY <1>0, <1>2 DEF Authenticate, AccessShape
    <2>2. \A c \in crossed : InHand(c.of) => InHand(c.of)'
      BY <1>2, <2>1 DEF InHand, Authenticate, ThreadAt
    <2>3. CrossingIsHandled'
      BY <1>2, <2>2, CrossingKept DEF Authenticate
    <2>4. Principal(l) # 0 => Opened(l, Principal(l), audited)
      BY DEF Principal, RecordInv, ElevationIsOpened
    <2>5. ElevationIsOpened'
      BY <1>2, <2>1, <2>4 DEF Authenticate, RecordInv, ElevationIsOpened, Opened
    <2>6. QED
      BY <1>0, <2>3, <2>5 DEF RecordInv
  <1>3. ASSUME NEW t \in Threads, Operate(t) PROVE RecordInv'
    <2>0. PICK stage \in {"client_audit", "route_audit"} : thread' = [thread EXCEPT ![t].pc = stage]
      BY <1>3 DEF Operate, ThreadGoes
    <2>1. /\ thread'[t].pc = stage
          /\ thread'[t].label = thread[t].label /\ thread'[t].until = thread[t].until
          /\ \A u \in Threads \ {t} : thread'[u] = thread[u]
      BY <1>0, <2>0 DEF AccessShape
    <2>2. UNCHANGED <<hour, elevated, audited>>
      BY <1>3 DEF Operate
    <2>3. ElevationIsOpened'
      BY <1>0, <2>1, <2>2, ElevationKept DEF AccessShape
    <2>4. \A c \in crossed : InHand(c.of) => InHand(c.of)'
      BY <1>3, <2>1 DEF InHand, Operate, ThreadAt
    <2>5. CASE IsElevated(t) /\ StillElevated(t)
      <3>1. /\ thread[t].until # 0 /\ thread[t].until > hour
            /\ crossed' = CrossedByOthers(thread[t].label)
                            \cup {[of |-> thread[t].label, at |-> hour]}
        BY <1>3, <2>5 DEF Operate, IsElevated, StillElevated
      <3>2. PICK o \in audited : /\ o.op = "open" /\ o.of = thread[t].label /\ o.at \in Nat
                                 /\ o.at <= hour /\ thread[t].until = o.at + Ttl
        BY <3>1 DEF RecordInv, ElevationIsOpened, Opened
      <3>3. \A l : l = thread[t].label => InHand(l)'
        BY <2>1, <3>1 DEF InHand
      <3>4. ASSUME NEW c \in crossed'
            PROVE  /\ \E q \in audited' : q.op = "open" /\ q.of = c.of /\ q.at <= c.at
                                             /\ c.at < q.at + Ttl
                   /\ OperationRecord(c.of) \in audited' \/ InHand(c.of)'
        <4>1. CASE c \in crossed
          <5>1. /\ \E q \in audited : q.op = "open" /\ q.of = c.of /\ q.at <= c.at
                                           /\ c.at < q.at + Ttl
                /\ OperationRecord(c.of) \in audited \/ InHand(c.of)
            BY <4>1 DEF RecordInv, CrossingIsHandled
          <5>2. audited' = audited
            BY <2>2
          <5>3. InHand(c.of) => InHand(c.of)'
            BY <2>4, <4>1
          <5>4. QED
            BY <5>1, <5>2, <5>3
        <4>2. CASE c = [of |-> thread[t].label, at |-> hour]
          <5>1. c.of = thread[t].label /\ c.at = hour
            BY <4>2
          <5>2. o \in audited' /\ o.at <= c.at /\ c.at < o.at + Ttl
            BY <2>2, <3>1, <3>2, <5>1
          <5>3. QED
            BY <3>2, <3>3, <5>1, <5>2
        <4>3. QED
          BY <3>1, <4>1, <4>2 DEF CrossedByOthers
      <3>5. CrossingIsHandled'
        BY <3>4 DEF CrossingIsHandled, OperationRecord
      <3>6. QED
        BY <1>0, <2>3, <3>5 DEF RecordInv
    <2>6. CASE ~(IsElevated(t) /\ StillElevated(t))
      <3>1. CrossingIsHandled'
        BY <1>3, <2>2, <2>4, <2>6, CrossingKept DEF Operate
      <3>2. QED
        BY <1>0, <2>3, <3>1 DEF RecordInv
    <2>7. QED
      BY <2>5, <2>6
  <1>4. ASSUME NEW t \in Threads, ClientAudit(t) PROVE RecordInv'
    <2>1. /\ thread'[t].pc = "route_audit"
          /\ thread'[t].label = thread[t].label /\ thread'[t].until = thread[t].until
          /\ \A u \in Threads \ {t} : thread'[u] = thread[u]
      BY <1>0, <1>4 DEF ClientAudit, ThreadGoes, AccessShape
    <2>2. UNCHANGED <<hour, elevated, crossed>> /\ audited \subseteq audited'
      BY <1>4 DEF ClientAudit
    <2>3. ElevationIsOpened'
      BY <1>0, <2>1, <2>2, ElevationKept DEF AccessShape
    <2>4. \A c \in crossed : InHand(c.of) => InHand(c.of)'
      BY <2>1 DEF InHand
    <2>5. CrossingIsHandled'
      BY <2>2, <2>4, CrossingKept
    <2>6. QED
      BY <1>0, <2>3, <2>5 DEF RecordInv
  <1>5. ASSUME NEW t \in Threads, RouteAudit(t) PROVE RecordInv'
    <2>1. thread'[t] = IdleThread /\ \A u \in Threads \ {t} : thread'[u] = thread[u]
      BY <1>0, <1>5 DEF RouteAudit, AccessShape
    <2>2. UNCHANGED <<hour, elevated>> /\ audited \subseteq audited' /\ crossed' \subseteq crossed
      BY <1>5 DEF RouteAudit, CrossedByOthers
    <2>3. ElevationIsOpened'
      BY <1>0, <2>1, <2>2, ElevationKept DEF AccessShape, IdleThread
    <2>4. ASSUME NEW c \in crossed', InHand(c.of)
          PROVE  InHand(c.of)' \/ OperationRecord(c.of) \in audited'
      <3>1. PICK u \in Threads : /\ thread[u].label = c.of /\ thread[u].until # 0
                                 /\ thread[u].pc \in {"client_audit", "route_audit"}
        BY <2>4 DEF InHand
      <3>2. CASE u # t
        BY <2>1, <3>1, <3>2 DEF InHand
      <3>3. CASE u = t
        BY <1>5, <3>1, <3>3 DEF RouteAudit, IsElevated, CrossedByOthers
      <3>4. QED
        BY <3>2, <3>3
    <2>5. CrossingIsHandled'
      BY <2>2, <2>4, CrossingKept
    <2>6. QED
      BY <1>0, <2>3, <2>5 DEF RecordInv
  <1>6. ASSUME NEW t \in Threads, NEW e \in Elevations, OpenElevation(t, e) PROVE RecordInv'
    <2>1. \A u \in Threads \ {t} : thread'[u] = thread[u]
      BY <1>0, <1>6 DEF OpenElevation, AccessShape
    <2>2. UNCHANGED <<hour, elevated, crossed>> /\ audited \subseteq audited'
      BY <1>6 DEF OpenElevation
    <2>3. \A c \in crossed : InHand(c.of) => InHand(c.of)'
      BY <1>6, <2>1 DEF InHand, OpenElevation, ThreadAt
    <2>4. CrossingIsHandled'
      BY <2>2, <2>3, CrossingKept
    <2>5. CASE thread' = [thread EXCEPT ![t] = IdleThread]
      <3>1. thread'[t].until = 0
        BY <1>0, <2>5 DEF AccessShape, IdleThread
      <3>2. ElevationIsOpened'
        BY <1>0, <2>1, <2>2, <3>1, ElevationKept DEF AccessShape
      <3>3. QED
        BY <1>0, <2>4, <3>2 DEF RecordInv
    <2>6. CASE /\ thread' = [thread EXCEPT ![t] = [pc |-> "mint", label |-> e, until |-> hour + Ttl]]
               /\ audited' = audited \cup {OpeningRecord(e)}
      <3>1. thread'[t] = [pc |-> "mint", label |-> e, until |-> hour + Ttl]
        BY <1>0, <2>6 DEF AccessShape
      <3>2. \E o \in audited' : /\ o.op = "open" /\ o.of = e /\ o.at \in Nat
                                /\ o.at <= hour /\ hour + Ttl = o.at + Ttl
        <4>1. OpeningRecord(e) \in audited'
          BY <2>6
        <4>2. QED
          BY <1>0, <4>1 DEF OpeningRecord, AccessShape
      <3>3. \A u \in Threads \ {t} : thread'[u].until # 0 =>
              \E o \in audited' : o.op = "open" /\ o.of = thread'[u].label /\ o.at \in Nat
                                     /\ o.at <= hour /\ thread'[u].until = o.at + Ttl
        BY <2>1, <2>2 DEF RecordInv, ElevationIsOpened, Opened
      <3>4. \A d \in Elevations : elevated'[d] # 0 =>
              \E o \in audited' : o.op = "open" /\ o.of = d /\ o.at \in Nat
                                     /\ o.at <= hour /\ elevated'[d] = o.at + Ttl
        BY <2>2 DEF RecordInv, ElevationIsOpened, Opened
      <3>5. ElevationIsOpened'
        BY <2>2, <3>1, <3>2, <3>3, <3>4 DEF ElevationIsOpened, Opened
      <3>6. QED
        BY <1>0, <2>4, <3>5 DEF RecordInv
    <2>7. QED
      BY <1>6, <2>5, <2>6 DEF OpenElevation
  <1>7. ASSUME NEW t \in Threads, MintElevation(t) PROVE RecordInv'
    <2>1. thread'[t] = IdleThread /\ \A u \in Threads \ {t} : thread'[u] = thread[u]
      BY <1>0, <1>7 DEF MintElevation, AccessShape
    <2>2. UNCHANGED <<hour, crossed>> /\ audited \subseteq audited'
      BY <1>7 DEF MintElevation
    <2>3. \A c \in crossed : InHand(c.of) => InHand(c.of)'
      BY <1>7, <2>1 DEF InHand, MintElevation, ThreadAt
    <2>4. CrossingIsHandled'
      BY <2>2, <2>3, CrossingKept
    <2>5. ASSUME NEW d \in Elevations
          PROVE  \/ elevated'[d] = elevated[d]
                 \/ d = thread[t].label /\ elevated'[d] = thread[t].until
      BY <1>0, <1>7 DEF MintElevation, AccessShape
    <2>6. \A d \in Elevations : elevated'[d] # 0 => Opened(d, elevated'[d], audited)
      BY <2>5 DEF RecordInv, ElevationIsOpened
    <2>7. \A u \in Threads : thread'[u].until # 0 => Opened(thread'[u].label, thread'[u].until, audited)
      BY <2>1 DEF RecordInv, ElevationIsOpened, IdleThread
    <2>8. ElevationIsOpened'
      BY <2>2, <2>6, <2>7 DEF ElevationIsOpened, Opened
    <2>9. QED
      BY <1>0, <2>4, <2>8 DEF RecordInv
  <1>8. ASSUME ShutDown PROVE RecordInv'
    <2>1. /\ UNCHANGED <<hour, thread, crossed>> /\ audited \subseteq audited'
          /\ \A e \in Elevations : elevated'[e] = 0
      BY <1>8 DEF ShutDown
    <2>2. ElevationIsOpened'
      BY <1>0, <2>1, ElevationKept DEF AccessShape
    <2>3. CrossingIsHandled'
      BY <2>1, CrossingKept DEF InHand
    <2>4. QED
      BY <1>0, <2>2, <2>3 DEF RecordInv
  <1>9. ASSUME ProcessDies PROVE RecordInv'
    <2>1. /\ UNCHANGED <<hour, audited>> /\ crossed' \subseteq crossed
          /\ \A e \in Elevations : elevated'[e] = 0
          /\ \A t \in Threads : thread'[t].until = 0
          /\ \A c \in crossed' : ~InHand(c.of)
      BY <1>9 DEF ProcessDies, IdleThread, InHand
    <2>2. ElevationIsOpened'
      BY <1>0, <2>1, ElevationKept DEF AccessShape
    <2>3. CrossingIsHandled'
      BY <2>1, CrossingKept
    <2>4. QED
      BY <1>0, <2>2, <2>3 DEF RecordInv
  <1>10. QED
    <2>1. ASSUME \/ \E l \in Bearers : MintBearer(l) \/ RotateRead(l)
                 \/ \E l \in Labels : Revoke(l)
                 \/ RotateStamp \/ RotateMint \/ RotateDies \/ HourPasses
                 \/ UNCHANGED accessVars
          PROVE  RecordInv'
      BY <1>0, <1>1, <2>1
      DEF MintBearer, RotateRead, Revoke, RotateStamp, RotateMint, RotateDies, HourPasses,
          accessVars, AccessShape
    <2>2. QED
      BY <1>2, <1>3, <1>4, <1>5, <1>6, <1>7, <1>8, <1>9, <2>1 DEF AccessNext

\* A cross-tenant operation falls between the recorded opening of its elevation and
\* its expiry, and is on record itself (break_glass.py, _audit_if_cross_tenant,
\* audit_http), for every number of requests, elevations, restarts and failures.
THEOREM CrossTenantIsRecorded == AccessSpec => []CrossTenantIsOnRecord
  <1>1. AccessInv => RecordInv
    BY DEF AccessInv, RecordInv, TokenInv
  <1>2. RecordInv => CrossTenantIsOnRecord
    BY DEF RecordInv, CrossingIsHandled, CrossTenantIsOnRecord, InHand
  <1>3. QED
    BY <1>1, <1>2, AccessStarts, RecordSteps, PTL DEF AccessSpec

-----------------------------------------------------------------------------
(* The types of what the components keep *)

\* A request that is served has a text, and what is stored or queued came with one.
WriteFits ==
    /\ WriteInv
    /\ \A r \in Requests : writing[r].pc # "idle" => writing[r].text \in Texts
    /\ stored \subseteq Texts /\ queued \subseteq Texts
    /\ trouble \in [faults : 0..MaxGateFaults, starts : 0..MaxBoxStarts]

\* A step of a request that has begun keeps its text, or ends it.
LEMMA TextIsKept ==
  ASSUME WriteFits, NEW r \in Requests, writing[r].pc # "idle",
         \/ writing' = [writing EXCEPT ![r] = NotWriting]
         \/ \E stage \in WriteStages : writing' = [writing EXCEPT ![r].pc = stage]
         \/ \E stage \in WriteStages, outcome \in WriteOutcomes :
              writing' = [writing EXCEPT ![r].pc = stage, ![r].outcome = outcome]
  PROVE  \A q \in Requests : writing'[q].pc # "idle" => writing'[q].text \in Texts
  <1>1. writing \in [Requests -> WriteRecords] /\ writing[r].text \in Texts
    BY DEF WriteFits, WriteInv
  <1>2. \A q \in Requests \ {r} : writing'[q] = writing[q]
    BY <1>1
  <1>3. writing[r] \in WriteRecords /\ DOMAIN writing = Requests
    BY <1>1
  <1>4. CASE writing' = [writing EXCEPT ![r] = NotWriting]
    BY <1>2, <1>3, <1>4 DEF NotWriting, WriteFits
  <1>5. ASSUME NEW stage, NEW outcome,
               \/ writing' = [writing EXCEPT ![r].pc = stage]
               \/ writing' = [writing EXCEPT ![r].pc = stage, ![r].outcome = outcome]
        PROVE  writing'[r].text = writing[r].text
    <2>1. CASE writing' = [writing EXCEPT ![r].pc = stage]
      BY <1>3, <2>1 DEF WriteRecords
    <2>2. CASE writing' = [writing EXCEPT ![r].pc = stage, ![r].outcome = outcome]
      BY <1>3, <2>2 DEF WriteRecords
    <2> QED BY <1>5, <2>1, <2>2
  <1>6. CASE writing'[r].text = writing[r].text
    BY <1>1, <1>2, <1>6 DEF WriteFits
  <1> QED BY <1>4, <1>5, <1>6

LEMMA WriteFitsOn == WriteFits /\ [WriteNext]_writeVars => WriteFits'
  <1> SUFFICES ASSUME WriteFits, [WriteNext]_writeVars PROVE WriteFits'
    OBVIOUS
  <1>1. WriteInv /\ WriteInv' /\ writing \in [Requests -> WriteRecords]
    BY WriteSteps DEF WriteFits, WriteInv
  <1>2. ASSUME NEW r \in Requests, NEW place \in AllRooms, NEW text \in Texts,
               ReceiveWrite(r, place, text)
        PROVE  WriteFits'
    <2> DEFINE w == [pc |-> "quota", room |-> place, text |-> text, outcome |-> ""]
    <2>0. w.text \in Texts /\ writing' = [writing EXCEPT ![r] = w]
      BY <1>2 DEF ReceiveWrite
    <2> HIDE DEF w
    <2>1. \A q \in Requests : writing'[q].pc # "idle" => writing'[q].text \in Texts
      BY <1>1, <2>0 DEF WriteFits
    <2> QED BY <1>1, <1>2, <2>1 DEF ReceiveWrite, WriteFits
  <1>3. ASSUME NEW r \in Requests,
               EnforceWriteQuota(r) \/ RouteWrite(r) \/ AddMemory(r) \/ ChargeQuota(r)
                 \/ RecordAndAnswer(r)
        PROVE  WriteFits'
    <2>1. writing[r].pc # "idle" /\ writing[r].text \in Texts
      BY <1>3
      DEF EnforceWriteQuota, RouteWrite, AddMemory, ChargeQuota, RecordAndAnswer, WriteAt, WriteFits
    <2>2. \/ writing' = [writing EXCEPT ![r] = NotWriting]
          \/ \E stage \in WriteStages : writing' = [writing EXCEPT ![r].pc = stage]
          \/ \E stage \in WriteStages, outcome \in WriteOutcomes :
               writing' = [writing EXCEPT ![r].pc = stage, ![r].outcome = outcome]
      <3>1. CASE EnforceWriteQuota(r) \/ ChargeQuota(r)
        BY <3>1 DEF EnforceWriteQuota, ChargeQuota, WriteGoes, Conclude, WriteStages, WriteOutcomes
      <3>2. CASE RouteWrite(r)
        BY <3>2 DEF RouteWrite, WriteGoes, Conclude, WriteStages, WriteOutcomes
      <3>3. CASE AddMemory(r)
        <4>1. PICK outcome \in WriteOutcomes, stage \in WriteStages :
                writing' = [writing EXCEPT ![r].pc = stage, ![r].outcome = outcome]
          BY <3>3 DEF AddMemory, Conclude, WriteStages, WriteOutcomes
        <4> QED BY <4>1
      <3>4. CASE RecordAndAnswer(r)
        BY <3>4 DEF RecordAndAnswer
      <3> QED BY <1>3, <3>1, <3>2, <3>3, <3>4
    <2>3. \A q \in Requests : writing'[q].pc # "idle" => writing'[q].text \in Texts
      BY <2>1, <2>2, TextIsKept
    <2>4. /\ stored' \subseteq stored \cup {writing[r].text}
          /\ queued' \subseteq queued \cup {writing[r].text}
      BY <1>3 DEF EnforceWriteQuota, RouteWrite, AddMemory, ChargeQuota, RecordAndAnswer
    <2>5. trouble' = trouble \/ GateFault
      BY <1>3 DEF EnforceWriteQuota, RouteWrite, AddMemory, ChargeQuota, RecordAndAnswer
    <2>6. trouble' \in [faults : 0..MaxGateFaults, starts : 0..MaxBoxStarts]
      <3>1. trouble \in [faults : 0..MaxGateFaults, starts : 0..MaxBoxStarts]
        BY DEF WriteFits
      <3>2. CASE GateFault
        BY <3>1, <3>2, WriteGateAssumption DEF GateFault
      <3> QED BY <2>5, <3>1, <3>2
    <2> QED BY <1>1, <2>1, <2>3, <2>4, <2>6 DEF WriteFits
  <1>4. ASSUME BoxStarts PROVE WriteFits'
    <2>1. trouble \in [faults : 0..MaxGateFaults, starts : 0..MaxBoxStarts]
      BY DEF WriteFits
    <2>2. trouble' \in [faults : 0..MaxGateFaults, starts : 0..MaxBoxStarts]
      BY <1>4, <2>1, WriteGateAssumption DEF BoxStarts
    <2>3. \A q \in Requests : writing'[q].pc = "idle"
      BY <1>4 DEF BoxStarts, NotWriting
    <2>4. stored' \subseteq Texts /\ queued' \subseteq Texts
      BY <1>4 DEF BoxStarts, WriteFits
    <2> QED BY <1>1, <2>2, <2>3, <2>4 DEF WriteFits
  <1>5. CASE UNCHANGED writeVars
    BY <1>1, <1>5 DEF writeVars, WriteFits
  <1> QED BY <1>2, <1>3, <1>4, <1>5 DEF WriteNext

LEMMA WriteTypes ==
  /\ WriteInit => WriteFits
  /\ WriteFits => WriteTypeOK
  <1>1. WriteInit => WriteFits
    <2> SUFFICES ASSUME WriteInit PROVE WriteFits
      OBVIOUS
    <2>1. \A q \in Requests : writing[q].pc = "idle"
      BY DEF WriteInit, NotWriting
    <2>2. trouble \in [faults : 0..MaxGateFaults, starts : 0..MaxBoxStarts]
      BY WriteGateAssumption DEF WriteInit
    <2> QED BY <2>1, <2>2, GateStarts DEF WriteInit, WriteFits
  <1>2. WriteFits => WriteTypeOK
    BY DEF WriteFits, WriteInv, WriteTypeOK
  <1> QED BY <1>1, <1>2

\* Elevations alone are on record, and the outages are counted.
AccessFits ==
    /\ RecordInv
    /\ audited \subseteq [op : {"open", "close", "operation"}, of : Elevations, at : Nat]
    /\ crossed \subseteq [of : Elevations, at : Nat]
    /\ outages \in 0..MaxOutages

LEMMA RecordsAreRecords ==
  ASSUME AccessShape, NEW e \in Elevations
  PROVE  {OpeningRecord(e), ClosingRecord(e), OperationRecord(e)}
           \subseteq [op : {"open", "close", "operation"}, of : Elevations, at : Nat]
  BY DEF OpeningRecord, ClosingRecord, OperationRecord, AccessShape

\* Whoever is elevated is so under the label of an elevation.
LEMMA ElevatedIsElevation ==
  ASSUME AccessFits, NEW t \in Threads, thread[t].until # 0
  PROVE  thread[t].label \in Elevations
  <1>1. PICK o \in audited : o.of = thread[t].label
    BY DEF AccessFits, RecordInv, ElevationIsOpened, Opened
  <1> QED BY <1>1 DEF AccessFits

LEMMA AccessFitsOn == AccessFits /\ [AccessNext]_accessVars => AccessFits'
  <1> SUFFICES ASSUME AccessFits, [AccessNext]_accessVars PROVE AccessFits'
    OBVIOUS
  <1> DEFINE Books == [op : {"open", "close", "operation"}, of : Elevations, at : Nat]
  <1>1. RecordInv' /\ AccessShape /\ audited \subseteq Books
    BY RecordSteps DEF AccessFits, RecordInv, TokenInv
  <1>2. outages' = outages \/ AccessOutage => outages' \in 0..MaxOutages
    BY AccessAssumption DEF AccessFits, AccessOutage
  <1> HIDE DEF Books
  <1>3. CASE /\ UNCHANGED audited /\ crossed' \subseteq crossed
             /\ outages' = outages \/ AccessOutage
    BY <1>1, <1>2, <1>3 DEF AccessFits, Books
  <1>4. CASE \/ \E l \in Bearers : MintBearer(l) \/ RotateRead(l)
             \/ \E l \in Labels : Revoke(l)
             \/ RotateStamp \/ RotateMint \/ RotateDies \/ ProcessDies \/ HourPasses
             \/ \E t \in Threads, l \in Labels : Authenticate(t, l)
             \/ UNCHANGED accessVars
    BY <1>3, <1>4
    DEF MintBearer, RotateRead, Revoke, RotateStamp, RotateMint, RotateDies, ProcessDies,
        HourPasses, Authenticate, accessVars
  <1>5. ASSUME NEW t \in Threads, Operate(t) PROVE AccessFits'
    <2>1. CASE IsElevated(t) /\ StillElevated(t)
      <3>1. thread[t].label \in Elevations
        BY <2>1, ElevatedIsElevation DEF IsElevated
      <3>2. [of |-> thread[t].label, at |-> hour] \in [of : Elevations, at : Nat]
        BY <1>1, <3>1 DEF AccessShape
      <3>3. crossed' \subseteq crossed \cup {[of |-> thread[t].label, at |-> hour]}
        BY <1>5, <2>1 DEF Operate, CrossedByOthers
      <3> QED BY <1>1, <1>5, <3>2, <3>3 DEF Operate, AccessFits
    <2>2. CASE ~(IsElevated(t) /\ StillElevated(t))
      BY <1>3, <1>5, <2>2 DEF Operate
    <2> QED BY <2>1, <2>2
  <1>6. ASSUME NEW t \in Threads, ClientAudit(t) \/ RouteAudit(t) PROVE AccessFits'
    <2>1. thread[t].until # 0 => OperationRecord(thread[t].label) \in Books
      BY <1>1, ElevatedIsElevation, RecordsAreRecords DEF Books
    <2>2. /\ crossed' \subseteq crossed
          /\ outages' = outages \/ AccessOutage
          /\ \/ audited' = audited
             \/ /\ IsElevated(t) \/ StillElevated(t)
                /\ audited' = audited \cup {OperationRecord(thread[t].label)}
      BY <1>6 DEF ClientAudit, RouteAudit, CrossedByOthers
    <2>3. IsElevated(t) \/ StillElevated(t) => thread[t].until # 0
      BY <1>1 DEF IsElevated, StillElevated, AccessShape
    <2>4. audited' \subseteq Books
      BY <1>1, <2>1, <2>2, <2>3
    <2> QED BY <1>1, <1>2, <2>2, <2>4 DEF AccessFits, Books
  <1>7. ASSUME NEW t \in Threads, NEW e \in Elevations, OpenElevation(t, e) PROVE AccessFits'
    <2>1. OpeningRecord(e) \in Books
      BY <1>1, RecordsAreRecords DEF Books
    <2>2. /\ crossed' = crossed
          /\ outages' = outages \/ AccessOutage
          /\ audited' \in {audited, audited \cup {OpeningRecord(e)}}
      BY <1>7 DEF OpenElevation
    <2>3. audited' \subseteq Books
      BY <1>1, <2>1, <2>2
    <2> QED BY <1>1, <1>2, <2>2, <2>3 DEF AccessFits, Books
  <1>8. ASSUME NEW t \in Threads, MintElevation(t) PROVE AccessFits'
    <2>1. thread[t].label \in Elevations
      BY <1>8 DEF MintElevation, AccessFits, RecordInv, TokenInv, MintIsAlone
    <2>2. ClosingRecord(thread[t].label) \in Books
      BY <1>1, <2>1, RecordsAreRecords DEF Books
    <2>3. /\ crossed' = crossed
          /\ outages' = outages \/ AccessOutage
          /\ audited' \in {audited, audited \cup {ClosingRecord(thread[t].label)}}
      BY <1>8 DEF MintElevation
    <2>4. audited' \subseteq Books
      BY <1>1, <2>2, <2>3
    <2> QED BY <1>1, <1>2, <2>3, <2>4 DEF AccessFits, Books
  <1>9. ASSUME ShutDown PROVE AccessFits'
    <2>1. \A e \in Elevations : ClosingRecord(e) \in Books
      BY <1>1, RecordsAreRecords DEF Books
    <2>2. /\ crossed' = crossed /\ outages' = outages
          /\ audited' \subseteq audited \cup {ClosingRecord(e) : e \in Elevations}
      BY <1>9 DEF ShutDown
    <2> QED BY <1>1, <1>2, <2>1, <2>2 DEF AccessFits, Books
  <1> QED BY <1>4, <1>5, <1>6, <1>7, <1>8, <1>9 DEF AccessNext

LEMMA AccessTypes ==
  /\ AccessInit => AccessFits
  /\ AccessFits => AccessTypeOK
  <1>1. AccessInit => AccessFits
    BY AccessStarts, AccessAssumption DEF AccessInit, AccessInv, AccessFits, RecordInv, TokenInv
  <1>2. AccessFits => AccessTypeOK
    BY AccessAssumption DEF AccessFits, RecordInv, TokenInv, AccessShape, AccessTypeOK
  <1> QED BY <1>1, <1>2

\* A deferral runs its hours and no more, and the buttons are counted.
ReviewFits ==
    /\ ReviewInv /\ pressed \in 0..MaxPresses
    /\ \A i \in Cases : cases[i].wait \in 0..DeferHours

\* A candidate that changes keeps a wait in its bounds.
LEMMA OneWaitMoves ==
  ASSUME ReviewFits, NEW i \in Cases, NEW r, cases' = [cases EXCEPT ![i] = r],
         r.wait \in 0..DeferHours
  PROVE  \A j \in Cases : cases'[j].wait \in 0..DeferHours
  <1>1. ASSUME NEW j \in Cases PROVE cases'[j] = IF j = i THEN r ELSE cases[j]
    BY DEF ReviewFits, ReviewInv
  <1> QED BY <1>1 DEF ReviewFits

\* Every step of the review.
LEMMA ReviewFitsOn == ReviewFits /\ [ReviewNext]_reviewVars => ReviewFits'
  <1> SUFFICES ASSUME ReviewFits, [ReviewNext]_reviewVars PROVE ReviewFits'
    OBVIOUS
  <1>1. ReviewInv'
    BY ReviewSteps DEF ReviewFits
  <1>2. DeferHours \in Nat /\ MaxPresses \in Nat /\ pressed \in 0..MaxPresses
    BY ReviewAssumption DEF ReviewFits
  <1>3. ASSUME NEW i \in Cases
        PROVE  cases[i] \in CaseRecords /\ cases[i].wait \in 0..DeferHours
    BY DEF ReviewFits, ReviewInv
  <1>4. pressed' \in 0..MaxPresses
    <2>1. CASE Press
      BY <1>2, <2>1 DEF Press
    <2>2. CASE UNCHANGED pressed
      BY <1>2, <2>2
    <2> QED BY <2>1, <2>2 DEF ReviewNext, Enqueue, RawApprove, DeferCandidate, ForgetClaims,
        ForgetPurges, PressApprove, SendMessage, UpdateStatus, WaitPasses, Resurface, reviewVars
  <1>5. \A i \in Cases : cases'[i].wait \in 0..DeferHours
    <2>1. ASSUME NEW i \in Cases, Enqueue(i) \/ ForgetPurges(i)
          PROVE  \A j \in Cases : cases'[j].wait \in 0..DeferHours
      <3> DEFINE fresh == NewCase
                 purged == [NewCase EXCEPT !.status = "purged", !.sent = cases[i].sent]
      <3>1. fresh.wait \in 0..DeferHours /\ purged.wait \in 0..DeferHours
        BY <1>2 DEF NewCase
      <3>2. cases' = [cases EXCEPT ![i] = fresh] \/ cases' = [cases EXCEPT ![i] = purged]
        BY <2>1 DEF Enqueue, ForgetPurges
      <3> HIDE DEF fresh, purged
      <3> QED BY <3>1, <3>2, OneWaitMoves
    <2>2. ASSUME NEW i \in Cases, DeferCandidate(i)
          PROVE  \A j \in Cases : cases'[j].wait \in 0..DeferHours
      <3> DEFINE r == [cases[i] EXCEPT !.status = "deferred", !.wait = DeferHours]
      <3>1. r.wait \in 0..DeferHours
        BY <1>2, <1>3 DEF CaseRecords
      <3>2. cases' = [cases EXCEPT ![i] = r]
        BY <2>2 DEF DeferCandidate
      <3> HIDE DEF r
      <3> QED BY <3>1, <3>2, OneWaitMoves
    <2>3. ASSUME NEW i \in Cases,
                 \/ \E via \in BOOLEAN : ApproveInConn(i, via)
                 \/ \E status \in {"rejected", "pending"} : UpdateStatus(i, status)
                 \/ \E m \in Messages, acc \in BOOLEAN : SendMessage(i, m, acc)
                 \/ ForgetClaims(i)
          PROVE  \A j \in Cases : cases'[j].wait \in 0..DeferHours
      <3>1. ASSUME NEW j \in Cases PROVE cases'[j].wait = cases[j].wait
        <4>1. CASE \E via \in BOOLEAN : ApproveInConn(i, via)
          BY <1>3, <3>1, <4>1 DEF ApproveInConn, CaseRecords, ReviewFits, ReviewInv
        <4>2. CASE \E status \in {"rejected", "pending"} : UpdateStatus(i, status)
          BY <1>3, <3>1, <4>2 DEF UpdateStatus, CaseRecords, ReviewFits, ReviewInv
        <4>3. CASE \E m \in Messages, acc \in BOOLEAN : SendMessage(i, m, acc)
          BY <1>3, <3>1, <4>3 DEF SendMessage, CaseRecords, ReviewFits, ReviewInv
        <4>4. CASE ForgetClaims(i)
          BY <1>3, <3>1, <4>4 DEF ForgetClaims, CaseRecords, ReviewFits, ReviewInv
        <4> QED BY <2>3, <4>1, <4>2, <4>3, <4>4
      <3> QED BY <1>3, <3>1
    <2>4. ASSUME WaitPasses PROVE \A j \in Cases : cases'[j].wait \in 0..DeferHours
      <3> SUFFICES ASSUME NEW j \in Cases PROVE cases'[j].wait \in 0..DeferHours
        OBVIOUS
      <3>1. cases'[j].wait = IF cases[j].wait > 0 THEN cases[j].wait - 1 ELSE 0
        BY <1>3, <2>4 DEF WaitPasses, CaseRecords
      <3> QED BY <1>2, <1>3, <3>1
    <2>5. ASSUME Resurface PROVE \A j \in Cases : cases'[j].wait \in 0..DeferHours
      <3> SUFFICES ASSUME NEW j \in Cases PROVE cases'[j].wait \in 0..DeferHours
        OBVIOUS
      <3>1. cases'[j].wait = cases[j].wait
        BY <1>3, <2>5 DEF Resurface, CaseRecords
      <3> QED BY <1>3, <3>1
    <2>6. CASE UNCHANGED reviewVars
      BY <2>6 DEF reviewVars, ReviewFits
    <2> QED BY <2>1, <2>2, <2>3, <2>4, <2>5, <2>6 DEF ReviewNext, RawApprove, PressApprove
  <1> QED BY <1>1, <1>4, <1>5 DEF ReviewFits

\* The rows of the queue are of their type.
LEMMA ReviewTypes ==
  /\ ReviewInit => ReviewFits
  /\ ReviewFits => ReviewTypeOK
  <1>1. ASSUME ReviewInit PROVE ReviewFits
    <2>1. ReviewInv /\ pressed = 0
      BY <1>1, ReviewStarts DEF ReviewInit
    <2>2. \A i \in Cases : cases[i].wait = 0
      BY <1>1 DEF ReviewInit, NewCase
    <2> QED BY <2>1, <2>2, ReviewAssumption DEF ReviewFits
  <1>2. ASSUME ReviewFits PROVE ReviewTypeOK
    <2> DEFINE Rows0 == [status : CaseStatuses, wait : 0..DeferHours,
                         latest : Messages \cup {NoMessage}, sent : SUBSET Messages,
                         via : BOOLEAN, events : Nat, claimed : BOOLEAN]
    <2>1. \A i \in Cases : cases[i] \in Rows0
      BY <1>2 DEF ReviewFits, ReviewInv, CaseRecords
    <2>2. cases \in [Cases -> Rows0]
      <3> HIDE DEF Rows0
      <3> QED BY <1>2, <2>1 DEF ReviewFits, ReviewInv
    <2> QED BY <1>2, <2>2 DEF ReviewFits, ReviewTypeOK
  <1> QED BY <1>1, <1>2

-----------------------------------------------------------------------------
(* ForgottenWatch: a run carries events *)

PatrolRecords == [at : {"idle", "detected", "emitting"}, emit : BOOLEAN,
                  found : SUBSET Events, fresh : SUBSET Events]

\* A step of one run.
LEMMA OnePatrolMoves ==
  ASSUME WatchTypeOK, NEW p \in Patrols, NEW r \in PatrolRecords,
         patrols' = [patrols EXCEPT ![p] = r]
  PROVE  patrols' \in [Patrols -> PatrolRecords]
  BY DEF WatchTypeOK, PatrolRecords

\* Every step of the store and of the reconciler.
LEMMA WatchMoves == WatchTypeOK /\ [WatchNext]_watchVars => WatchTypeOK'
  <1> SUFFICES ASSUME WatchTypeOK, [WatchNext]_watchVars PROVE WatchTypeOK'
    OBVIOUS
  <1> USE WatchAssumption
  <1>1. /\ kept \in [KeptDrawers -> [deleted : (1..MaxStamps) \cup {NotDeleted}, active : BOOLEAN]]
        /\ history \in [Events -> Nat] /\ patrols \in [Patrols -> PatrolRecords]
        /\ stamps \in 0..MaxStamps /\ misses \in 0..MaxMisses /\ overlaps \in 0..MaxPatrols
    BY DEF WatchTypeOK, PatrolRecords
  <1>2. IdlePatrol \in PatrolRecords /\ Divergent \in SUBSET Events
    BY DEF IdlePatrol, PatrolRecords, Divergent
  <1>3. ASSUME NEW d \in KeptDrawers, UpstreamForgets(d) \/ RecoverDrawer(d) \/ RetireDrawer(d)
        PROVE  WatchTypeOK'
    <2>1. kept' \in [KeptDrawers -> [deleted : (1..MaxStamps) \cup {NotDeleted}, active : BOOLEAN]]
          /\ stamps' \in 0..MaxStamps
      <3>1. CASE UpstreamForgets(d)
        <4>1. stamps + 1 \in 1..MaxStamps
          BY <1>1, <3>1 DEF UpstreamForgets
        <4> QED BY <1>1, <3>1, <4>1 DEF UpstreamForgets
      <3>2. CASE RecoverDrawer(d)
        BY <1>1, <3>2 DEF RecoverDrawer
      <3>3. CASE RetireDrawer(d)
        BY <1>1, <3>3 DEF RetireDrawer
      <3> QED BY <1>3, <3>1, <3>2, <3>3
    <2>2. UNCHANGED <<history, patrols, misses, overlaps>>
      BY <1>3 DEF UpstreamForgets, RecoverDrawer, RetireDrawer
    <2> QED BY <1>1, <2>1, <2>2 DEF WatchTypeOK, PatrolRecords, Events
  <1>4. ASSUME NEW p \in Patrols, NEW emit \in BOOLEAN, DetectForgotten(p, emit)
        PROVE  WatchTypeOK'
    <2> DEFINE r == [at |-> "detected", emit |-> emit, found |-> Divergent, fresh |-> {}]
    <2>1. r \in PatrolRecords
      BY <1>2 DEF PatrolRecords
    <2>2. patrols' = [patrols EXCEPT ![p] = r]
      BY <1>4 DEF DetectForgotten
    <2> HIDE DEF r
    <2>3. patrols' \in [Patrols -> PatrolRecords]
      BY <2>1, <2>2, OnePatrolMoves
    <2>4. overlaps' \in 0..MaxPatrols
      BY <1>1, <1>4 DEF DetectForgotten
    <2>5. UNCHANGED <<kept, history, stamps, misses>>
      BY <1>4 DEF DetectForgotten
    <2> QED BY <1>1, <2>3, <2>4, <2>5 DEF WatchTypeOK, PatrolRecords, Events
  <1>5. ASSUME NEW p \in Patrols, NEW known \in SUBSET Events, Proceeds(p, known),
               UNCHANGED <<kept, history, stamps, overlaps>>, misses' \in 0..MaxMisses
        PROVE  WatchTypeOK'
    <2> DEFINE r == IF patrols[p].emit
                    THEN [patrols[p] EXCEPT !.at = "emitting", !.fresh = patrols[p].found \ known]
                    ELSE IdlePatrol
    <2>1. r \in PatrolRecords
      BY <1>1, <1>2 DEF PatrolRecords
    <2>2. patrols' = [patrols EXCEPT ![p] = r]
      BY <1>5 DEF Proceeds
    <2> HIDE DEF r
    <2>3. patrols' \in [Patrols -> PatrolRecords]
      BY <2>1, <2>2, OnePatrolMoves
    <2> QED BY <1>1, <1>5, <2>3 DEF WatchTypeOK, PatrolRecords, Events
  <1>6. ASSUME NEW p \in Patrols, DropRecorded(p) \/ HistoryUnread(p) PROVE WatchTypeOK'
    <2>1. Already \in SUBSET Events
      BY DEF Already
    <2>2. misses' \in 0..MaxMisses /\ UNCHANGED <<kept, history, stamps, overlaps>>
      BY <1>1, <1>6 DEF DropRecorded, HistoryUnread
    <2>3. Proceeds(p, Already) \/ Proceeds(p, {})
      BY <1>6 DEF DropRecorded, HistoryUnread
    <2> QED BY <1>5, <2>1, <2>2, <2>3
  <1>7. ASSUME NEW p \in Patrols, NEW v \in Events, AppendForgotten(p, v) \/ AppendSwallowed(p, v)
        PROVE  WatchTypeOK'
    <2> DEFINE r == [patrols[p] EXCEPT !.fresh = @ \ {v}]
    <2>1. r \in PatrolRecords
      BY <1>1 DEF PatrolRecords
    <2>2. patrols' = [patrols EXCEPT ![p] = r]
      BY <1>7 DEF AppendForgotten, AppendSwallowed
    <2> HIDE DEF r
    <2>3. patrols' \in [Patrols -> PatrolRecords]
      BY <2>1, <2>2, OnePatrolMoves
    <2>4. history' \in [Events -> Nat]
      BY <1>1, <1>7 DEF AppendForgotten, AppendSwallowed
    <2>5. misses' \in 0..MaxMisses /\ UNCHANGED <<kept, stamps, overlaps>>
      BY <1>1, <1>7 DEF AppendForgotten, AppendSwallowed
    <2> QED BY <1>1, <2>3, <2>4, <2>5 DEF WatchTypeOK, PatrolRecords, Events
  <1>8. ASSUME NEW p \in Patrols, ReportPatrol(p) \/ PatrolDies(p) PROVE WatchTypeOK'
    <2>1. patrols' = [patrols EXCEPT ![p] = IdlePatrol]
      BY <1>8 DEF ReportPatrol, PatrolDies
    <2>2. patrols' \in [Patrols -> PatrolRecords]
      BY <1>2, <2>1, OnePatrolMoves
    <2>3. misses' \in 0..MaxMisses /\ UNCHANGED <<kept, history, stamps, overlaps>>
      BY <1>1, <1>8 DEF ReportPatrol, PatrolDies
    <2> QED BY <1>1, <2>2, <2>3 DEF WatchTypeOK, PatrolRecords, Events
  <1>9. CASE UNCHANGED watchVars
    BY <1>1, <1>9 DEF watchVars, WatchTypeOK, PatrolRecords, Events
  <1> QED BY <1>3, <1>4, <1>6, <1>7, <1>8, <1>9 DEF WatchNext, PatrolStep

\* Initially nothing is forgotten and nobody runs.
LEMMA WatchStarts == WatchInit => WatchTypeOK
  <1> SUFFICES ASSUME WatchInit PROVE WatchTypeOK
    OBVIOUS
  <1>1. IdlePatrol \in PatrolRecords
    BY DEF IdlePatrol, PatrolRecords
  <1>2. patrols \in [Patrols -> PatrolRecords]
    BY <1>1 DEF WatchInit
  <1> QED BY <1>2, WatchAssumption DEF WatchInit, WatchTypeOK, PatrolRecords

-----------------------------------------------------------------------------
(* StatsWalk: the listing and the walks *)

StatsFits == StatsInv /\ changes \in 0..MaxChanges /\ statClock \in 0..MaxStatClock

\* There are n numbers from 1 to n.
LEMMA FromOneToN ==
  ASSUME NEW n \in Nat
  PROVE  IsFiniteSet(1..n) /\ Cardinality(1..n) = n
  <1>1. /\ IsFiniteSet(1..n)
        /\ Cardinality(1..n) = IF 1 > n THEN 0 ELSE n - 1 + 1
    BY FS_Interval
  <1> QED BY <1>1

\* A listing without repetitions has as many rows as drawers.
LEMMA ListingIsStanding ==
  ASSUME StatsInv
  PROVE  Cardinality(Standing) = Len(listing)
  <1> DEFINE n == Len(listing)
             at == [i \in 1..n |-> listing[i]]
  <1>1. n \in Nat /\ DOMAIN listing = 1..n /\ Distinct(listing)
    BY DEF StatsInv, StatsShape
  <1>2. Standing = {listing[i] : i \in 1..n}
    BY <1>1 DEF Standing, ToSet
  <1>3. at \in Injection(1..n, Standing) /\ at \in Surjection(1..n, Standing)
    BY <1>1, <1>2 DEF Injection, IsInjective, Surjection, Distinct
  <1> HIDE DEF n, at
  <1>4. IsFiniteSet(1..n) /\ Cardinality(1..n) = n
    BY <1>1, FromOneToN
  <1>5. IsFiniteSet(Standing)
    BY <1>3, <1>4, FS_Surjection
  <1>6. Cardinality(1..n) = Cardinality(Standing)
    BY <1>3, <1>5, FS_Injection
  <1> QED BY <1>4, <1>6 DEF n

\* The walks and their counts are of their type.
LEMMA StatsTypes ==
  /\ StatsInit => StatsFits
  /\ StatsFits /\ [StatsNext]_statVars => StatsFits'
  /\ StatsFits => StatsTypeOK
  <1> USE WalkAssumption DEF WalkAssumption
  <1>1. ASSUME StatsInit PROVE StatsFits
    <2>1. StatsInv
      BY <1>1, StatsStarts
    <2> QED BY <1>1, <2>1 DEF StatsFits, StatsInit
  <1>2. ASSUME StatsFits, [StatsNext]_statVars PROVE StatsFits'
    <2>1. StatsInv'
      BY <1>2, StatsMove DEF StatsFits
    <2>2. changes \in 0..MaxChanges /\ statClock \in 0..MaxStatClock
      BY <1>2 DEF StatsFits
    <2>3. CASE changes < MaxChanges /\ changes' = changes + 1 /\ UNCHANGED statClock
      BY <2>1, <2>2, <2>3 DEF StatsFits
    <2>4. CASE statClock < MaxStatClock /\ statClock' = statClock + 1 /\ UNCHANGED changes
      BY <2>1, <2>2, <2>4 DEF StatsFits
    <2>5. CASE UNCHANGED <<changes, statClock>>
      BY <2>1, <2>2, <2>5 DEF StatsFits
    <2> QED BY <1>2, <2>3, <2>4, <2>5 DEF StatsNext, AddDrawer, DeleteDrawer, StatsTick, AskCache,
        AskWalk, Answer, WalkStep, ReadPage, ReadLastPage, PageFails, statVars
  <1>3. ASSUME StatsFits PROVE StatsTypeOK
    <2>1. Cardinality(Standing) = Len(listing)
      BY <1>3, ListingIsStanding DEF StatsFits
    <2> QED BY <1>3, <2>1 DEF StatsFits, StatsInv, StatsShape, StatsTypeOK, WalkRecords, Entries
  <1> QED BY <1>1, <1>2, <1>3

-----------------------------------------------------------------------------
(* RequestDoor: the buckets and the requests *)

Times == Seq(0..MaxSeconds)

AskRecords == [at : {"unsent", "refused", "waiting", "running", "abandoned", "answered", "lost"},
               tool : Tools]

DoorFits == DoorInv /\ DoorTypeOK

\* Popping leaves no more times than there were.
LEMMA PoppingNarrows ==
  ASSUME DoorFits, NEW d \in Doors, NEW t \in Tokens
  PROVE  /\ LiveWindow(buckets[d][t]) \in Times
         /\ Len(LiveWindow(buckets[d][t])) =< PerMinute
  <1> DEFINE times == buckets[d][t]
             n == Len(times)
  <1>1. times \in Seq(0..MaxSeconds) /\ n \in Nat /\ n =< PerMinute /\ PerMinute \in Nat
    BY DoorAssumption DEF DoorFits, DoorTypeOK
  <1>2. times \in Seq(Nat) /\ seconds \in Nat
    BY DEF DoorFits, DoorInv
  <1> HIDE DEF times
  <1>3. \A i \in 1..n : times[i] \in 0..MaxSeconds
    BY <1>1, ElementOfSeq
  <1>4. PICK k \in 0..n : LiveWindow(times) = SubSeq(times, k + 1, n)
    BY <1>2, WindowIsTail
  <1> HIDE DEF n
  <1>5. \A i \in (k + 1)..n : times[i] \in 0..MaxSeconds
    BY <1>1, <1>3, <1>4
  <1>6. k + 1 \in Int /\ n \in Int
    BY <1>1, <1>4
  <1>7. /\ SubSeq(times, k + 1, n) \in Seq(0..MaxSeconds)
        /\ Len(SubSeq(times, k + 1, n)) = IF k + 1 <= n THEN n - (k + 1) + 1 ELSE 0
    BY <1>5, <1>6, SubSeqProperties
  <1>8. Len(LiveWindow(times)) =< PerMinute
    BY <1>1, <1>4, <1>7
  <1> QED BY <1>4, <1>7, <1>8 DEF Times, times

\* A step at one door for one token.
LEMMA OneBucketMoves ==
  ASSUME DoorFits, DoorInv', UNCHANGED seconds, NEW d \in Doors, NEW t \in Tokens,
         NEW held \in Times, Len(held) =< PerMinute, NEW now \in Times,
         buckets' = [buckets EXCEPT ![d][t] = held],
         admitted' = [admitted EXCEPT ![d][t] = now],
         doorBoot' \in [count : 0..MaxBoots, serving : {"pending", "yes", "no"}],
         asks' \in [Asks -> AskRecords], backlog' \in Seq(Asks)
  PROVE  DoorFits'
  <1>1. ASSUME NEW e \in Doors, NEW u \in Tokens
        PROVE  /\ buckets'[e][u] \in Times /\ Len(buckets'[e][u]) =< PerMinute
               /\ admitted'[e][u] \in Times
    <2>1. buckets'[e][u] = IF e = d /\ u = t THEN held ELSE buckets[e][u]
      BY DEF DoorFits, DoorInv
    <2>2. admitted'[e][u] = IF e = d /\ u = t THEN now ELSE admitted[e][u]
      BY DEF DoorFits, DoorInv
    <2> QED BY <2>1, <2>2 DEF DoorFits, DoorTypeOK, Times
  <1>2. DoorTypeOK'
    BY <1>1 DEF DoorTypeOK, DoorFits, AskRecords, Times
  <1> QED BY <1>2 DEF DoorFits

\* One request changes.
LEMMA OneAskMoves ==
  ASSUME DoorFits, NEW q \in Asks, NEW r \in AskRecords, asks' = [asks EXCEPT ![q] = r]
  PROVE  asks' \in [Asks -> AskRecords]
  BY DEF DoorFits, DoorTypeOK, AskRecords

\* A request changes its place, with what waits for a thread.
LEMMA OneCallMoves ==
  ASSUME DoorFits, DoorInv', UNCHANGED <<doorBoot, buckets, admitted, seconds>>,
         asks' \in [Asks -> AskRecords], backlog' \in Seq(Asks)
  PROVE  DoorFits'
  BY DEF DoorFits, DoorTypeOK, AskRecords

\* A restart begins anew.
LEMMA RestartFits ==
  ASSUME DoorFits, DoorInv', RestartProcess
  PROVE  DoorFits'
  <1>1. doorBoot' \in [count : 0..MaxBoots, serving : {"pending", "yes", "no"}]
    <2>1. doorBoot.count \in 0..MaxBoots /\ doorBoot.count < MaxBoots /\ MaxBoots \in Nat
      BY DoorAssumption DEF DoorFits, DoorTypeOK, RestartProcess
    <2>2. doorBoot.count + 1 \in 0..MaxBoots
      BY <2>1
    <2> QED BY <2>2 DEF RestartProcess
  <1>2. \A d \in Doors, t \in Tokens :
          /\ buckets'[d][t] \in Times /\ Len(buckets'[d][t]) =< PerMinute
          /\ admitted'[d][t] \in Times
    <2>1. \A d \in Doors, t \in Tokens : buckets'[d][t] = <<>> /\ admitted'[d][t] = <<>>
      BY DEF RestartProcess, NoTimes
    <2>2. <<>> \in Times /\ Len(<<>>) =< PerMinute
      BY DoorAssumption DEF Times, DoorAssumption
    <2> QED BY <2>1, <2>2
  <1>3. asks' \in [Asks -> AskRecords]
    BY DEF DoorFits, DoorTypeOK, RestartProcess, AskRecords
  <1>4. backlog' \in Seq(Asks) /\ seconds' \in 0..MaxSeconds
    BY DEF DoorFits, DoorTypeOK, RestartProcess
  <1>5. DoorTypeOK'
    BY <1>1, <1>2, <1>3, <1>4 DEF DoorTypeOK, AskRecords, Times
  <1> QED BY <1>5 DEF DoorFits

\* A request is entered into its bucket and answered, refused or queued.
LEMMA EnteringFits ==
  ASSUME DoorFits, DoorInv', NEW q \in Asks, NEW t \in Tokens, NEW tool \in Tools,
         ServeRest(q, t, tool) \/ DispatchTool(q, t, tool)
  PROVE  DoorFits'
  <1>1. PICK d \in Doors : HasBudget(d, t) /\ SpendBudget(d, t)
    BY DEF ServeRest, DispatchTool, Doors
  <1> DEFINE left == LiveWindow(buckets[d][t])
             held == Append(left, seconds)
             now == Append(admitted[d][t], seconds)
  <1>2. left \in Seq(0..MaxSeconds) /\ seconds \in 0..MaxSeconds /\ admitted[d][t] \in Seq(0..MaxSeconds)
    BY PoppingNarrows DEF Times, DoorFits, DoorTypeOK
  <1>3. Len(left) < PerMinute
    BY <1>1 DEF HasBudget
  <1>4. buckets' = [buckets EXCEPT ![d][t] = held] /\ admitted' = [admitted EXCEPT ![d][t] = now]
    BY <1>1 DEF SpendBudget
  <1> HIDE DEF left
  <1>5. held \in Times /\ Len(held) = Len(left) + 1 /\ now \in Times
    BY <1>2, AppendProperties DEF Times
  <1>6. Len(held) =< PerMinute
    <2>1. Len(left) \in Nat /\ PerMinute \in Nat
      BY <1>2, DoorAssumption DEF DoorAssumption
    <2> HIDE DEF held
    <2> QED BY <1>3, <1>5, <2>1
  <1> HIDE DEF held, now
  <1>7. PICK at \in {"answered", "waiting", "refused"} :
          asks' = [asks EXCEPT ![q] = [at |-> at, tool |-> tool]]
    <2>1. CASE ServeRest(q, t, tool)
      BY <2>1 DEF ServeRest
    <2>2. CASE DispatchTool(q, t, tool)
      BY <2>2 DEF DispatchTool
    <2> QED BY <2>1, <2>2
  <1>8. asks' \in [Asks -> AskRecords]
    <2>1. [at |-> at, tool |-> tool] \in AskRecords
      BY DEF AskRecords
    <2> QED BY <1>7, <2>1, OneAskMoves
  <1>9. backlog \in Seq(Asks) /\ doorBoot \in [count : 0..MaxBoots, serving : {"pending", "yes", "no"}]
    BY DEF DoorFits, DoorTypeOK
  <1>10. backlog' = backlog \/ backlog' = Append(backlog, q)
    BY DEF ServeRest, DispatchTool
  <1>11. backlog' \in Seq(Asks)
    BY <1>9, <1>10, AppendProperties
  <1>12. UNCHANGED <<doorBoot, seconds>>
    BY DEF ServeRest, DispatchTool
  <1> QED BY <1>4, <1>5, <1>6, <1>8, <1>9, <1>11, <1>12, OneBucketMoves

\* Every step of the doors and the executor.
LEMMA DoorFitsOn == DoorFits /\ [DoorNext]_doorVars => DoorFits'
  <1> SUFFICES ASSUME DoorFits, [DoorNext]_doorVars PROVE DoorFits'
    OBVIOUS
  <1>1. DoorInv'
    BY DoorMoves DEF DoorFits
  <1>2. /\ doorBoot \in [count : 0..MaxBoots, serving : {"pending", "yes", "no"}]
        /\ asks \in [Asks -> AskRecords] /\ backlog \in Seq(Asks) /\ seconds \in 0..MaxSeconds
        /\ MaxSeconds \in Nat
    BY DoorAssumption DEF DoorFits, DoorTypeOK, AskRecords
  <1>3. ASSUME NEW verdict \in {"yes", "no"}, Boot(verdict) PROVE DoorFits'
    <2>1. doorBoot' \in [count : 0..MaxBoots, serving : {"pending", "yes", "no"}]
      BY <1>2, <1>3 DEF Boot
    <2>2. UNCHANGED <<buckets, admitted, asks, backlog, seconds>>
      BY <1>3 DEF Boot
    <2> QED BY <1>1, <2>1, <2>2 DEF DoorFits, DoorTypeOK
  <1>4. CASE RestartProcess
    BY <1>1, <1>4, RestartFits
  <1>5. CASE DoorTick
    <2>1. seconds' \in 0..MaxSeconds
      BY <1>2, <1>5 DEF DoorTick
    <2>2. UNCHANGED <<doorBoot, buckets, admitted, asks, backlog>>
      BY <1>5 DEF DoorTick
    <2> QED BY <1>1, <2>1, <2>2 DEF DoorFits, DoorTypeOK
  <1>6. ASSUME NEW q \in Asks, NEW d \in Doors, NEW t \in Tokens, NEW tool \in Tools,
               RefuseAtDoor(q, d, t, tool)
        PROVE  DoorFits'
    <2>1. [at |-> "refused", tool |-> tool] \in AskRecords
      BY DEF AskRecords
    <2>2. asks' \in [Asks -> AskRecords]
      BY <1>6, <2>1, OneAskMoves DEF RefuseAtDoor, TurnAway
    <2>3. UNCHANGED <<doorBoot, buckets, admitted, seconds>> /\ backlog' \in Seq(Asks)
      BY <1>2, <1>6 DEF RefuseAtDoor, TurnAway
    <2> QED BY <1>1, <2>2, <2>3, OneCallMoves
  <1>7. ASSUME NEW q \in Asks, NEW d \in Doors, NEW t \in Tokens, NEW tool \in Tools,
               RefuseOverBudget(q, d, t, tool)
        PROVE  DoorFits'
    <2> DEFINE held == LiveWindow(buckets[d][t])
               now == admitted[d][t]
    <2>1. held \in Times /\ Len(held) =< PerMinute /\ now \in Times
      BY PoppingNarrows DEF DoorFits, DoorTypeOK, Times
    <2>2. buckets' = [buckets EXCEPT ![d][t] = held] /\ admitted' = [admitted EXCEPT ![d][t] = now]
      BY <1>7 DEF RefuseOverBudget, DoorFits, DoorInv
    <2>3. [at |-> "refused", tool |-> tool] \in AskRecords
      BY DEF AskRecords
    <2>4. asks' \in [Asks -> AskRecords]
      BY <1>7, <2>3, OneAskMoves DEF RefuseOverBudget
    <2>5. UNCHANGED <<doorBoot, backlog, seconds>>
      BY <1>7 DEF RefuseOverBudget
    <2> HIDE DEF held, now
    <2> QED BY <1>1, <1>2, <2>1, <2>2, <2>4, <2>5, OneBucketMoves
  <1>8. ASSUME NEW q \in Asks, NEW t \in Tokens, NEW tool \in Tools,
               ServeRest(q, t, tool) \/ DispatchTool(q, t, tool)
        PROVE  DoorFits'
    BY <1>1, <1>8, EnteringFits
  <1>9. CASE StartThread
    <2>1. backlog # <<>> /\ Head(backlog) \in Asks /\ Tail(backlog) \in Seq(Asks)
      BY <1>2, <1>9, HeadTailProperties DEF StartThread
    <2> DEFINE q == Head(backlog)
               r == [asks[q] EXCEPT !.at = "running"]
    <2>2. r \in AskRecords
      BY <1>2, <2>1 DEF AskRecords
    <2>3. asks' = [asks EXCEPT ![q] = r] /\ backlog' = Tail(backlog)
          /\ UNCHANGED <<doorBoot, buckets, admitted, seconds>>
      BY <1>9 DEF StartThread
    <2> HIDE DEF r, q
    <2>4. q \in Asks
      BY <2>1 DEF q
    <2>5. asks' \in [Asks -> AskRecords]
      BY <2>2, <2>3, <2>4, OneAskMoves
    <2> QED BY <1>1, <2>1, <2>3, <2>5, OneCallMoves
  <1>10. ASSUME NEW q \in Asks, SearchTimesOut(q) \/ ThreadReturns(q) PROVE DoorFits'
    <2>1. PICK at \in {"refused", "abandoned", "answered"} :
            asks' = [asks EXCEPT ![q].at = at]
      <3>1. CASE SearchTimesOut(q)
        BY <3>1 DEF SearchTimesOut
      <3>2. CASE ThreadReturns(q)
        BY <3>2 DEF ThreadReturns
      <3> QED BY <1>10, <3>1, <3>2
    <2> DEFINE r == [asks[q] EXCEPT !.at = at]
    <2>2. r \in AskRecords
      BY <1>2 DEF AskRecords
    <2>3. asks' = [asks EXCEPT ![q] = r]
      BY <2>1
    <2> HIDE DEF r
    <2>4. asks' \in [Asks -> AskRecords]
      BY <2>2, <2>3, OneAskMoves
    <2>5. backlog' = backlog \/ \E i \in DOMAIN backlog : backlog' = RemoveAt(backlog, i)
      BY <1>10 DEF SearchTimesOut, ThreadReturns
    <2>6. backlog' \in Seq(Asks)
      <3>1. ASSUME NEW i \in DOMAIN backlog PROVE RemoveAt(backlog, i) \in Seq(Asks)
        <4>1. i \in 1..Len(backlog)
          BY <1>2
        <4> QED BY <1>2, <4>1, RemovalShifts
      <3> QED BY <1>2, <2>5, <3>1
    <2>7. UNCHANGED <<doorBoot, buckets, admitted, seconds>>
      BY <1>10 DEF SearchTimesOut, ThreadReturns
    <2> QED BY <1>1, <2>4, <2>6, <2>7, OneCallMoves
  <1>11. CASE UNCHANGED doorVars
    BY <1>1, <1>11 DEF doorVars, DoorFits, DoorTypeOK
  <1> QED BY <1>3, <1>4, <1>5, <1>6, <1>7, <1>8, <1>9, <1>10, <1>11 DEF DoorNext

\* Initially the buckets are empty.
LEMMA DoorFitsFirst == DoorInit => DoorFits
  <1> SUFFICES ASSUME DoorInit PROVE DoorFits
    OBVIOUS
  <1>1. \A d \in Doors, t \in Tokens : buckets[d][t] = <<>> /\ admitted[d][t] = <<>>
    BY DEF DoorInit, NoTimes
  <1>2. <<>> \in Times /\ Len(<<>>) =< PerMinute
    BY DoorAssumption DEF Times, DoorAssumption
  <1>3. asks \in [Asks -> AskRecords]
    BY DEF DoorInit, Unsent, AskRecords, Tools
  <1>4. /\ doorBoot \in [count : 0..MaxBoots, serving : {"pending", "yes", "no"}]
        /\ backlog \in Seq(Asks) /\ seconds \in 0..MaxSeconds
    BY DoorAssumption DEF DoorInit, DoorAssumption
  <1>5. \A d \in Doors, t \in Tokens :
          /\ buckets[d][t] \in Seq(0..MaxSeconds) /\ Len(buckets[d][t]) =< PerMinute
          /\ admitted[d][t] \in Seq(0..MaxSeconds)
    BY <1>1, <1>2 DEF Times
  <1>6. DoorTypeOK
    BY <1>3, <1>4, <1>5 DEF DoorTypeOK, AskRecords
  <1> QED BY <1>6, DoorStarts DEF DoorFits

-----------------------------------------------------------------------------
(* AuditChain: the rows of the log *)

ChainFits ==
    /\ ChainInv /\ damages \in 0..MaxDamages
    /\ \A i \in 1..Len(log) : log[i].seq \in 1..MaxChainRows
    /\ \A w \in Writers : writers[w].at = "begun" => writers[w].seq \in 1..MaxChainRows
    /\ writeLock \in Writers \cup {NoWriter}
    /\ \A r \in receipts : r.seq \in 1..MaxChainRows
    /\ verdicts \subseteq receipts

\* Rows in order, numbered up to the bound, are no more than the bound.
LEMMA LogIsShort ==
  ASSUME ChainFits
  PROVE  Len(log) \in 0..MaxChainRows
  <1> DEFINE n == Len(log)
             number == [i \in 1..n |-> log[i].seq]
  <1>1. n \in Nat /\ log \in Seq(ChainRows) /\ Ordered(log) /\ MaxChainRows \in Nat
    BY ChainAssumption DEF ChainFits, ChainInv, ChainShape
  <1>2. \A i \in 1..n : log[i].seq \in 1..MaxChainRows
    BY DEF ChainFits
  <1>3. ASSUME NEW i \in 1..n, NEW j \in 1..n, i # j PROVE log[i].seq # log[j].seq
    <2>1. i < j \/ j < i
      BY <1>3
    <2>2. log[i].seq < log[j].seq \/ log[j].seq < log[i].seq
      BY <1>1, <2>1 DEF Ordered
    <2>3. log[i].seq \in Nat /\ log[j].seq \in Nat
      BY <1>1, <1>2
    <2> QED BY <2>2, <2>3
  <1>4. number \in Injection(1..n, 1..MaxChainRows)
    BY <1>2, <1>3 DEF Injection, IsInjective
  <1> HIDE DEF number, n
  <1>5. /\ IsFiniteSet(1..MaxChainRows) /\ Cardinality(1..MaxChainRows) = MaxChainRows
        /\ Cardinality(1..n) = n
    BY <1>1, FromOneToN
  <1>6. Cardinality(1..n) <= Cardinality(1..MaxChainRows)
    BY <1>4, <1>5, FS_Injection
  <1>7. n <= MaxChainRows
    BY <1>5, <1>6
  <1> QED BY <1>1, <1>7 DEF n

\* A step of a writer.
LEMMA WriterFits ==
  ASSUME ChainFits, NEW w \in Writers,
         \/ BeginAppend(w) \/ RollBackAppend(w) \/ TakeReceipt(w)
         \/ \E body \in Bodies : CommitAppend(w, body)
  PROVE  ChainFits'
  <1>1. /\ writers \in [Writers -> AppendRecords] /\ log \in Seq(ChainRows) /\ Len(log) \in Nat
        /\ MaxChainRows \in Nat
    BY ChainAssumption DEF ChainFits, ChainInv, ChainShape
  <1>2. ChainInv'
    <2>1. [ChainNext]_chainVars
      BY DEF ChainNext
    <2> QED BY <2>1, ChainMoves DEF ChainFits
  <1>3. CASE BeginAppend(w)
    <2> DEFINE record == [at |-> "begun", seq |-> TailSeq(log) + 1, prev |-> TailHash(log)]
    <2>1. TailSeq(log) \in Nat /\ TailSeq(log) < MaxChainRows
      BY <1>1, <1>3, TailsFit DEF BeginAppend
    <2>2. record.seq \in 1..MaxChainRows
      BY <1>1, <2>1
    <2>3. writers' = [writers EXCEPT ![w] = record] /\ writeLock' = w
          /\ UNCHANGED <<log, receipts, verdicts, damages>>
      BY <1>3 DEF BeginAppend
    <2> HIDE DEF record
    <2>4. ASSUME NEW v \in Writers, writers'[v].at = "begun" PROVE writers'[v].seq \in 1..MaxChainRows
      <3>1. writers'[v] = IF v = w THEN record ELSE writers[v]
        BY <1>1, <2>3
      <3> QED BY <2>2, <2>4, <3>1 DEF ChainFits
    <2> QED BY <1>2, <2>3, <2>4 DEF ChainFits
  <1>4. CASE RollBackAppend(w)
    <2>1. writers' = [writers EXCEPT ![w] = IdleWriter] /\ writeLock' = NoWriter
          /\ UNCHANGED <<log, receipts, verdicts, damages>>
      BY <1>4 DEF RollBackAppend
    <2>2. ASSUME NEW v \in Writers, writers'[v].at = "begun" PROVE writers'[v].seq \in 1..MaxChainRows
      <3>1. writers'[v] = IF v = w THEN IdleWriter ELSE writers[v]
        BY <1>1, <2>1
      <3> QED BY <2>2, <3>1 DEF ChainFits, IdleWriter
    <2> QED BY <1>2, <2>1, <2>2 DEF ChainFits
  <1>5. CASE TakeReceipt(w)
    <2>1. /\ writers' = [writers EXCEPT ![w] = IdleWriter]
          /\ UNCHANGED <<log, writeLock, verdicts, damages>>
          /\ receipts' = receipts \cup
               {[seq |-> row.seq, this |-> row.this, told |-> Said(RowsThrough(row.seq)),
                 sound |-> damages = 0] :
                  row \in {x \in ToSet(log) : x.seq = writers[w].seq}}
      BY <1>5 DEF TakeReceipt
    <2>2. ASSUME NEW v \in Writers, writers'[v].at = "begun" PROVE writers'[v].seq \in 1..MaxChainRows
      <3>1. writers'[v] = IF v = w THEN IdleWriter ELSE writers[v]
        BY <1>1, <2>1
      <3> QED BY <2>2, <3>1 DEF ChainFits, IdleWriter
    <2>3. ASSUME NEW r \in receipts', r \notin receipts PROVE r.seq \in 1..MaxChainRows
      <3>1. PICK row \in ToSet(log) : r.seq = row.seq
        BY <2>1, <2>3
      <3>2. PICK i \in 1..Len(log) : row = log[i]
        BY <1>1 DEF ToSet
      <3> QED BY <3>1, <3>2 DEF ChainFits
    <2>4. receipts \subseteq receipts'
      BY <2>1
    <2> QED BY <1>2, <2>1, <2>2, <2>3, <2>4 DEF ChainFits
  <1>6. ASSUME NEW body \in Bodies, CommitAppend(w, body) PROVE ChainFits'
    <2> DEFINE row == Row(writers[w].seq, writers[w].prev, body)
               record == [writers[w] EXCEPT !.at = "committed"]
    <2>1. /\ writers' = [writers EXCEPT ![w] = record] /\ writeLock' = NoWriter
          /\ UNCHANGED <<receipts, verdicts, damages>>
          /\ log' = Append(log, row)
      BY <1>6 DEF CommitAppend
    <2>2. row.seq \in 1..MaxChainRows
      BY <1>6 DEF CommitAppend, ChainFits, Row
    <2>3. record.at = "committed"
      BY <1>1 DEF AppendRecords
    <2> HIDE DEF row, record
    <2>4. ASSUME NEW v \in Writers, writers'[v].at = "begun" PROVE writers'[v].seq \in 1..MaxChainRows
      <3>1. writers'[v] = IF v = w THEN record ELSE writers[v]
        BY <1>1, <2>1
      <3> QED BY <2>3, <2>4, <3>1 DEF ChainFits
    <2>5. ASSUME NEW i \in 1..Len(log') PROVE log'[i].seq \in 1..MaxChainRows
      <3>1. Len(log') = Len(log) + 1 /\ log'[i] = IF i = Len(log) + 1 THEN row ELSE log[i]
        BY <1>1, <2>1
      <3>2. CASE i = Len(log) + 1
        BY <2>2, <3>1, <3>2
      <3>3. CASE i # Len(log) + 1
        <4>1. i \in 1..Len(log)
          BY <1>1, <3>1, <3>3
        <4> QED BY <3>1, <3>3, <4>1 DEF ChainFits
      <3> QED BY <3>2, <3>3
    <2> QED BY <1>2, <2>1, <2>4, <2>5 DEF ChainFits
  <1> QED BY <1>3, <1>4, <1>5, <1>6

\* A damage that leaves rows with numbers in their bounds.
LEMMA DamageFits ==
  ASSUME ChainFits, ChainInv', NEW next, Damage(next),
         \A k \in 1..Len(next) : next[k].seq \in 1..MaxChainRows
  PROVE  ChainFits'
  <1>1. damages' \in 0..MaxDamages
    BY ChainAssumption DEF Damage, ChainFits, ChainAssumption
  <1>2. log' = next /\ verdicts' = {} /\ UNCHANGED <<writers, writeLock, receipts>>
    BY DEF Damage
  <1> QED BY <1>1, <1>2 DEF ChainFits

\* Every step of the chain.
LEMMA ChainFitsOn == ChainFits /\ [ChainNext]_chainVars => ChainFits'
  <1> SUFFICES ASSUME ChainFits, [ChainNext]_chainVars PROVE ChainFits'
    OBVIOUS
  <1>1. ChainInv'
    BY ChainMoves DEF ChainFits
  <1>2. log \in Seq(ChainRows) /\ Len(log) \in Nat /\ MaxChainRows \in Nat /\ DOMAIN log = 1..Len(log)
    BY ChainAssumption DEF ChainFits, ChainInv, ChainShape
  <1>3. CASE \E w \in Writers : \/ BeginAppend(w) \/ RollBackAppend(w) \/ TakeReceipt(w)
                                \/ \E body \in Bodies : CommitAppend(w, body)
    BY <1>3, WriterFits
  <1>4. ASSUME NEW r \in receipts, CheckReceipt(r) PROVE ChainFits'
    <2>1. verdicts' \subseteq receipts /\ UNCHANGED <<log, writers, writeLock, receipts, damages>>
      BY <1>4 DEF CheckReceipt
    <2> QED BY <1>1, <2>1 DEF ChainFits
  <1>5. ASSUME NEW i, LoseRow(i) PROVE ChainFits'
    <2> DEFINE next == RemoveAt(log, i)
    <2>1. i \in 1..Len(log) /\ Damage(next)
      BY <1>2, <1>5 DEF LoseRow
    <2>2. /\ Len(next) = Len(log) - 1
          /\ \A k \in 1..Len(log) - 1 : next[k] = log[IF k < i THEN k ELSE k + 1]
      BY <1>2, <2>1, RemovalShifts
    <2> HIDE DEF next
    <2>3. ASSUME NEW k \in 1..Len(next) PROVE next[k].seq \in 1..MaxChainRows
      <3>1. k \in 1..Len(log) - 1
        BY <2>2
      <3>2. (IF k < i THEN k ELSE k + 1) \in 1..Len(log)
        BY <1>2, <3>1
      <3> QED BY <2>2, <3>1, <3>2 DEF ChainFits
    <2> QED BY <1>1, <2>1, <2>3, DamageFits
  <1>6. ASSUME NEW i, NEW body \in Bodies, AlterRow(i, body) PROVE ChainFits'
    <2> DEFINE row == [log[i] EXCEPT !.body = body]
               next == [log EXCEPT ![i].body = body]
    <2>1. i \in 1..Len(log) /\ Damage(next)
      BY <1>2, <1>6 DEF AlterRow
    <2>2. log[i] \in ChainRows
      BY <1>2, <2>1
    <2>3. row \in ChainRows /\ row.seq = log[i].seq
      BY <2>2 DEF ChainRows
    <2>4. next = [log EXCEPT ![i] = row]
      OBVIOUS
    <2> HIDE DEF row, next
    <2>5. Len(next) = Len(log) /\ \A k \in 1..Len(log) : next[k] = IF k = i THEN row ELSE log[k]
      BY <1>2, <2>1, <2>3, <2>4, ExceptSeq
    <2>6. \A k \in 1..Len(next) : next[k].seq = log[k].seq
      BY <2>3, <2>5
    <2>7. \A k \in 1..Len(next) : next[k].seq \in 1..MaxChainRows
      BY <2>5, <2>6 DEF ChainFits
    <2> QED BY <1>1, <2>1, <2>7, DamageFits
  <1>7. ASSUME NEW n \in 0..Len(log), NEW bodies \in [1..n -> Bodies], PutBack(bodies)
        PROVE  ChainFits'
    <2> DEFINE next == Relinked(bodies)
               told(i) == [j \in 1..(i - 1) |-> <<j, bodies[j]>>]
    <2>1. Damage(next)
      BY <1>7 DEF PutBack
    <2>2. n \in Nat /\ n =< MaxChainRows
      BY <1>2, LogIsShort
    <2>3. next = [i \in 1..n |-> Row(i, told(i), bodies[i])]
      BY DEF Relinked
    <2>4. \A i \in 1..n : Row(i, told(i), bodies[i]).seq = i
      BY DEF Row
    <2> HIDE DEF next, told
    <2>5. Len(next) = n /\ \A i \in 1..n : next[i].seq = i
      BY <2>2, <2>3, <2>4
    <2>6. \A k \in 1..Len(next) : next[k].seq \in 1..MaxChainRows
      BY <1>2, <2>2, <2>5
    <2> QED BY <1>1, <2>1, <2>6, DamageFits
  <1>8. CASE UNCHANGED chainVars
    BY <1>1, <1>8 DEF chainVars, ChainFits
  <1> QED BY <1>3, <1>4, <1>5, <1>6, <1>7, <1>8 DEF ChainNext

\* The log is of its type.
LEMMA ChainTypes ==
  /\ ChainInit => ChainFits
  /\ ChainFits => ChainTypeOK
  <1>1. ASSUME ChainInit PROVE ChainFits
    <2>1. ChainInv
      BY <1>1, ChainStarts
    <2> QED BY <1>1, <2>1, ChainAssumption DEF ChainInit, ChainFits, IdleWriter, ChainAssumption
  <1>2. ASSUME ChainFits PROVE ChainTypeOK
    <2>1. /\ log \in Seq(ChainRows) /\ Len(log) \in Nat /\ DOMAIN log = 1..Len(log) /\ Ordered(log)
          /\ writers \in [Writers -> AppendRecords]
      BY <1>2 DEF ChainFits, ChainInv, ChainShape
    <2>2. \A i \in DOMAIN log : log[i].seq \in 1..MaxChainRows /\ log[i].body \in Bodies
      <3>1. \A i \in 1..Len(log) : log[i] \in ChainRows
        BY <2>1, ElementOfSeq
      <3>2. \A i \in 1..Len(log) : log[i].body \in Bodies
        BY <3>1 DEF ChainRows
      <3>3. \A i \in 1..Len(log) : log[i].seq \in 1..MaxChainRows
        BY <1>2 DEF ChainFits
      <3> QED BY <2>1, <3>2, <3>3
    <2>3. \A i \in 1..(Len(log) - 1) : log[i].seq < log[i + 1].seq
      <3> SUFFICES ASSUME NEW i \in 1..(Len(log) - 1) PROVE log[i].seq < log[i + 1].seq
        OBVIOUS
      <3>1. i \in 1..Len(log) /\ i + 1 \in 1..Len(log) /\ i < i + 1
        BY <2>1
      <3> QED BY <2>1, <3>1 DEF Ordered
    <2>4. \A w \in Writers : writers[w].at \in {"idle", "begun", "committed"}
      BY <2>1 DEF AppendRecords
    <2> QED BY <1>2, <2>2, <2>3, <2>4 DEF ChainFits, ChainTypeOK
  <1> QED BY <1>1, <1>2

-----------------------------------------------------------------------------
(* MCServing: all of them side by side *)

\* Every variable of the eight components that answer callers stays in its domain,
\* for any constants: tokens, elevations and records, rows of the queue, of the log,
\* of the listing and of the history, buckets and requests, writes, runs, reads and
\* walks.
THEOREM ServingTypes == Spec => []ServingTypeOK
  <1> DEFINE Fit == /\ part \in Parts
                    /\ AccessFits /\ ChainFits /\ DoorFits /\ ReadInv
                    /\ ReviewFits /\ StatsFits /\ WatchTypeOK /\ WriteFits
  <1>1. Init => Fit
    BY AccessTypes, ChainTypes, DoorFitsFirst, ReadStarts, ReadAssumption, ReviewTypes,
       StatsTypes, WatchStarts, WriteTypes DEF Init
  <1>2. ASSUME Fit, [Next]_vars PROVE Fit'
    <2>1. /\ [ChainNext]_chainVars /\ [DoorNext]_doorVars /\ [ReadNext]_readVars
          /\ [ReviewNext]_reviewVars /\ [StatsNext]_statVars /\ [WatchNext]_watchVars
          /\ [AccessNext]_accessVars /\ [WriteNext]_writeVars /\ part' = part
      BY <1>2 DEF Next, vars
    <2>2. ReadInv'
      BY <1>2, <2>1, ReadSteps, ReadAssumption
    <2> QED BY <1>2, <2>1, <2>2, AccessFitsOn, ChainFitsOn, DoorFitsOn, ReviewFitsOn, StatsTypes,
               WatchMoves, WriteFitsOn
  <1>3. Fit => ServingTypeOK
    <2>1. DoorFits => DoorTypeOK
      BY DEF DoorFits
    <2>2. ReadInv => ReadTypeOK
      BY DEF ReadInv, ReadTypeOK, ReadStates
    <2> QED BY <2>1, <2>2, AccessTypes, ChainTypes, ReviewTypes, StatsTypes, WriteTypes
            DEF ServingTypeOK
  <1> HIDE DEF Fit
  <1> QED BY <1>1, <1>2, <1>3, PTL DEF Spec

=============================================================================
