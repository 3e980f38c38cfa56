----------------------------- MODULE GovernedBox -----------------------------
(***************************************************************************)
(* The governed write path of one box: proposals wait in the queue, people *)
(* approve or reject them, the finalizer makes an approved candidate       *)
(* durable in the external store, and a forget erases it again.  Approve,  *)
(* reject, redrive and forget calls run concurrently, and any of them can  *)
(* die between two steps.                                                  *)
(***************************************************************************)
EXTENDS RightToForget, FiniteSets

vars == <<queueVars, callVars, forgetVars>>

Init == QueueInit /\ CallInit /\ ForgetInit

\* The transactions on the queue that are no step of a longer call.
QueueStep ==
    /\ \/ \E i \in Ids, c \in Contents : Propose(i, c) \/ EditBytes(i, c)
       \/ \E i \in Ids : RawApprove(i)
    /\ UNCHANGED <<callVars, forgetVars>>

Expiry(i) == LeaseExpires(i) /\ UNCHANGED forgetVars

CallStep(w) == (Decide(w) \/ Finalize(w) \/ CallCrashes(w)) /\ UNCHANGED forgetVars

ForgetStep(f) ==
    \/ Forget(f) /\ UNCHANGED callVars
    \/ ForgetCrashes(f) /\ UNCHANGED call

Next ==
    \/ QueueStep
    \/ \E i \in Ids : Expiry(i)
    \/ \E w \in Calls : CallStep(w)
    \/ \E f \in Forgetters : ForgetStep(f)

Spec == Init /\ [][Next]_vars

TypeOK == QueueTypeOK /\ CallTypeOK /\ ForgetTypeOK

-----------------------------------------------------------------------------
(* Safety *)

Approves(rec, i, c) ==
    rec.op = "approval_decision" /\ rec.target = i /\ rec.decision = "approve" /\ rec.sha = c

\* Nothing is durable without a receipt: a row of the store has an approve
\* decision in the hash-chained log, for the approval it is marked with and
\* the very bytes it holds.
DurableIsReceipted ==
    \A c \in Contents : store[c] # None =>
        \E k \in 1 .. Len(audit) : Approves(audit[k], store[c], c)

\* A durable row belongs to an approval that is stamped by the transport for
\* exactly these bytes, or was forgotten: a decision that was recorded but
\* refused, a rejected, a waiting or a raw-approved candidate never gets there.
DurableIsStamped ==
    \A c \in Contents : store[c] # None =>
        LET r == queue[store[c]] IN
        r.status = "purged" \/ (r.status = "approved" /\ r.via = Via /\ r.sha = c)

\* An approval has at most one durable row, however often it is redriven and
\* whoever edits its bytes: the marker lookup never meets two.
OneDurablePerApproval == \A i \in Ids : Cardinality(MarkedBy(i)) <= 1

\* A decision is final: only a forget takes it back, with the whole row.
DecisionIsFinal ==
    [][\A i \in Ids : queue[i].status \in {"approved", "rejected", "purged"} =>
          \/ queue'[i].status = "purged"
          \/ /\ queue'[i].status = queue[i].status
             /\ queue[i].receipt # 0 => /\ queue'[i].receipt = queue[i].receipt
                                        /\ queue'[i].sha = queue[i].sha]_vars

\* A row that a forget holds is not decided, claimed or finalized by anybody
\* until the forget has purged it.
ForgetKeepsItsClaim ==
    [][\A i \in Ids : queue[i].fin = "rtbf_deleting" =>
          \/ queue'[i].status = "purged"
          \/ /\ queue'[i].fin = "rtbf_deleting"
             /\ queue'[i].status = queue[i].status]_vars

-----------------------------------------------------------------------------
(* What holds while forgets and failures stay within limits *)

\* A call has written or found the row of c and has not ended.
Held(i, c) ==
    \E w \in Calls :
        /\ call[w].id = i
        /\ \/ call[w].pc \in {"lookup", "failing"} /\ call[w].sha = c
           \/ call[w].pc \in {"recording", "cleanup"} /\ call[w].hash = c

\* Never unmapped: a forget can find every durable row from the queue, or a
\* call still holds it, or the history asks for its removal; the approvals
\* that a forget purged without having claimed them are left aside.
ClaimedIsNeverUnmapped ==
    \A c \in Contents : store[c] # None =>
        \/ Exists(queue[store[c]])
        \/ Held(store[c], c)
        \/ <<"orphan_cleanup_pending", c>> \in history
        \/ store[c] \in overrun

\* A finalized approval is in the store until a forget erases it.
FinalizedIsDurable ==
    \A i \in Ids : queue[i].fin = "finalized" =>
        store[queue[i].durable] # None \/ queue[i].durable \in erased

\* Two approvals of the same bytes do not share a durable row.
DurableHasOneOwner ==
    \A i, j \in Ids :
        queue[i].fin = "finalized" /\ queue[j].fin = "finalized"
            /\ queue[i].durable = queue[j].durable => i = j

\* A candidate becomes durable only while its approval is claimed for it.
WriteNeedsClaim ==
    [][\A c \in Contents :
          store'[c] \notin {None, store[c]} =>
             queue[store'[c]].fin = "finalizing" \/ store'[c] \in overrun]_vars

NobodyForgets == \A f \in Forgetters : forget[f].pc = "idle"

\* What a forget erased stays named, if no process died: by the tombstone, or by
\* the row a repeated forget starts from.
ErasureIsNamed ==
    (NobodyForgets /\ crashes = 0) => \A c \in erased :
        \/ <<"hard_delete", c>> \in history
        \/ \E i \in Ids :
              /\ Exists(queue[i])
              /\ \/ queue[i].durable = c
                 \/ queue[i].fin = "rtbf_deleting" /\ queue[i].drawer = c

\* A tombstone means that the queue keeps no approval mapped to a hash that
\* is gone: the forget took the local copy of the text as well.
ForgottenLeavesNoCopy ==
    NobodyForgets => \A i \in Ids :
        <<"hard_delete", queue[i].durable>> \in history => store[queue[i].durable] # None

\* Approving again is a way out of every unfinished finalize: an approved row
\* with a valid receipt that nobody is working on can be driven again by it.
RetryIsPossible ==
    \A i \in Ids :
        /\ Finalizable(queue[i])
        /\ ReceiptVerifies(i)
        /\ Claimable(queue[i])
        => RedrivableRow(queue[i])

-----------------------------------------------------------------------------
(* Liveness *)

\* A call or a forget that has begun goes on (the operating system runs it).
CallGoesOn(w) ==
    /\ \/ AppendApprove(w) \/ AppendFails(w) \/ AuthorizeRedrive(w)
       \/ StampFresh(w) \/ RefuseStamp(w) \/ ApplyReject(w) \/ Finalize(w)
    /\ UNCHANGED forgetVars

ForgetGoesOn(f) == forget[f].pc # "idle" /\ Forget(f) /\ UNCHANGED callVars

\* A call that keeps trying is served by the store at some time.
StoreAnswers(w) ==
    /\ SF_vars(CheckClaim(w) /\ UNCHANGED forgetVars)
    /\ SF_vars((WriteLands(w) \/ WriteIsDuplicate(w)) /\ UNCHANGED forgetVars)
    /\ SF_vars(LookupFinds(w) /\ UNCHANGED forgetVars)

\* The sweep is run again and again, and time passes.
Redrive(i) == (\E w \in Calls : Sweep(w, i)) /\ UNCHANGED forgetVars

\* Whoever asked for a forget that ended early asks for it again.
ForgetAgain(i) ==
    /\ queue[i].fin = "rtbf_deleting"
    /\ \E f \in Forgetters : ForgetClaim(f, "drawer", queue[i].drawer)
    /\ UNCHANGED callVars

Fairness ==
    /\ \A w \in Calls : WF_vars(CallGoesOn(w)) /\ StoreAnswers(w)
    /\ \A f \in Forgetters : WF_vars(ForgetGoesOn(f))
    /\ \A i \in Ids :
          SF_vars(Redrive(i)) /\ WF_vars(Expiry(i)) /\ SF_vars(ForgetAgain(i))

FairSpec == Spec /\ Fairness

\* Every approval with a valid receipt is finalized, unless a forget claims
\* it first: no crash, lost answer, lost claim or stale lease strands it.
ApprovedIsFinalized ==
    \A i \in Ids :
        (Finalizable(queue[i]) /\ ReceiptVerifies(i))
            ~> (queue[i].fin \in {"finalized", "rtbf_deleting"} \/ queue[i].status = "purged")

\* A row that a forget claimed is purged in the end, if a forget that died is
\* asked for again: no call takes it back, and none keeps the next forget out.
ForgetIsCarriedOut ==
    \A i \in Ids : (queue[i].fin = "rtbf_deleting") ~> (queue[i].status = "purged")

-----------------------------------------------------------------------------
(* Refinement: the box implements GovernedMemory *)

PhaseOf(r) ==
    CASE r.status = "unused"           -> "unproposed"
      [] r.status = "pending_approval" -> "awaiting"
      [] r.status = "approved"         -> "approved"
      [] r.status = "rejected"         -> "rejected"
      [] r.status = "purged"           -> "forgotten"

DecisionsOnRecord ==
    {<<audit[k].target, audit[k].decision, audit[k].sha>> :
        k \in {n \in 1 .. Len(audit) : audit[n].op = "approval_decision"}}

Abstract == INSTANCE GovernedMemory WITH
    phase  <- [i \in Ids |-> PhaseOf(queue[i])],
    bound  <- [i \in Ids |-> queue[i].sha],
    ledger <- DecisionsOnRecord,
    memory <- store

\* The box implements GovernedMemory: no step of any call, crash or forget
\* changes decisions, bindings or the store in a way it does not allow.
ImplementsGovernedMemory == Abstract!MemorySpec

=============================================================================
