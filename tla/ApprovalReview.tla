--------------------------- MODULE ApprovalReview ---------------------------
(***************************************************************************)
(* The review of candidates through a chat bot: the queue operations of    *)
(* client_raw.py behind its buttons (approve, reject, reset, defer), the   *)
(* sweep that resurfaces deferred candidates, and the raw approve.  The    *)
(* bot itself is not part of the repository: it sends a message per        *)
(* candidate, and calls back once or many times, late, and for messages    *)
(* long superseded.  Receipts and bytes are the subject of ApprovalQueue.  *)
(*                                                                         *)
(*   cases   - the rows of approval_queue with their messages              *)
(*   pressed - how many callbacks and raw approves were handled            *)
(*                                                                         *)
(* Time is counted in the hours a deferral still has to run.               *)
(***************************************************************************)
EXTENDS Integers, FiniteSets

CONSTANTS
    Cases,        \* approval ids
    Messages,     \* message ids the bot can get from the chat
    NoMessage,    \* tg_message_id IS NULL
    DeferHours,   \* defer_hours
    MaxPresses    \* bound: callbacks and raw approves

ASSUME ReviewAssumption ==
    /\ NoMessage \notin Messages
    /\ DeferHours \in Nat \ {0} /\ MaxPresses \in Nat

VARIABLES cases, pressed

reviewVars == <<cases, pressed>>

\* The statuses of _MCP_APPROVABLE_STATUSES: listed, counted, and shown
Awaiting == {"pending", "pending_approval"}

\* What reject, reset and defer accept, and the approve transaction
Open == Awaiting \cup {"deferred"}

CaseStatuses == Open \cup {"absent", "approved", "rejected", "purged"}

NewCase == [status |-> "pending_approval", wait |-> 0, latest |-> NoMessage, sent |-> {},
            via |-> FALSE, events |-> 0, claimed |-> FALSE]

ReviewTypeOK ==
    /\ cases \in [Cases -> [status : CaseStatuses, wait : 0..DeferHours,
                            latest : Messages \cup {NoMessage}, sent : SUBSET Messages,
                            via : BOOLEAN, events : Nat, claimed : BOOLEAN]]
    /\ pressed \in 0..MaxPresses

ReviewInit ==
    /\ cases = [i \in Cases |-> [NewCase EXCEPT !.status = "absent"]]
    /\ pressed = 0

-----------------------------------------------------------------------------
(* Candidates and messages *)

Enqueue(i) ==
    /\ cases[i].status = "absent"
    /\ cases' = [cases EXCEPT ![i] = NewCase]
    /\ UNCHANGED pressed

Used == UNION {cases[i].sent \cup {cases[i].latest} : i \in Cases}

\* The bot shows a candidate that awaits a decision; older versions of it
\* kept the last message only.
SendMessage(i, m, accumulates) ==
    /\ cases[i].status \in Awaiting
    /\ m \notin Used
    /\ cases' = [cases EXCEPT ![i].latest = m,
                              ![i].sent = IF accumulates THEN @ \cup {m} ELSE @]
    /\ UNCHANGED pressed

\* _sent_message_ids: the accumulated ids, or the last one of an old row
SentMessageIds(i) ==
    IF cases[i].sent = {} THEN {cases[i].latest} \ {NoMessage} ELSE cases[i].sent

-----------------------------------------------------------------------------
(* Decisions *)

Press ==
    /\ pressed < MaxPresses
    /\ pressed' = pressed + 1

\* Mutant: an approved row is approved over again.
ApproveAgain(i, via) ==
    /\ cases[i].status \in Open \cup {"approved"}
    /\ cases' = [cases EXCEPT ![i].status = "approved", ![i].via = via, ![i].events = @ + 1]

\* _approve_in_conn: a first approve inserts the event and overwrites the
\* provenance; a further one adds the provenance that is missing.
ApproveInConn(i, via) ==
    \/ /\ cases[i].status = "approved"
       /\ cases' = [cases EXCEPT ![i].via = @ \/ via]
    \/ /\ cases[i].status \in Open
       /\ cases' = [cases EXCEPT ![i].status = "approved", ![i].via = via, ![i].events = @ + 1]

\* approve_authorized_telegram_candidate: the callback's message must be one
\* the bot sent for this candidate, the latest or an earlier one.
PressApprove(i, m) ==
    /\ Press
    /\ m \in SentMessageIds(i)
    /\ ApproveInConn(i, TRUE)

\* approve_queued_candidate: no provenance, and none that was planted stays
RawApprove(i) ==
    /\ Press
    /\ ApproveInConn(i, FALSE)

\* Nothing that is decided or claimed changes.
Undecided(i) == cases[i].status \in Open /\ ~cases[i].claimed

\* update_approval_status; a reset leaves expires_at where it was.
UpdateStatus(i, status) ==
    /\ Press
    /\ Undecided(i)
    /\ cases' = [cases EXCEPT ![i].status = status]

DeferCandidate(i) ==
    /\ Press
    /\ Undecided(i)
    /\ cases' = [cases EXCEPT ![i].status = "deferred", ![i].wait = DeferHours]

-----------------------------------------------------------------------------
(* Time *)

WaitPasses ==
    /\ \E i \in Cases : cases[i].wait > 0
    /\ cases' = [i \in Cases |-> [cases[i] EXCEPT !.wait = IF @ > 0 THEN @ - 1 ELSE 0]]
    /\ UNCHANGED pressed

Due(i) == cases[i].status = "deferred" /\ cases[i].wait = 0

\* Mutant: the sweep passes over rows whose message is gone.
ResurfaceShown ==
    /\ \E i \in Cases : Due(i) /\ cases[i].latest # NoMessage
    /\ cases' = [i \in Cases |->
                   IF Due(i) /\ cases[i].latest # NoMessage
                   THEN [cases[i] EXCEPT !.status = "pending", !.latest = NoMessage]
                   ELSE cases[i]]
    /\ UNCHANGED pressed

\* resurface_deferred_approvals: every row that is due, claimed or not; its
\* last message is forgotten, the earlier ones stay valid.
Resurface ==
    /\ \E i \in Cases : Due(i)
    /\ cases' = [i \in Cases |->
                   IF Due(i) THEN [cases[i] EXCEPT !.status = "pending", !.latest = NoMessage]
                             ELSE cases[i]]
    /\ UNCHANGED pressed

-----------------------------------------------------------------------------
(* A forget claims open rows too, and purges row and event together. *)

ForgetClaims(i) ==
    /\ cases[i].status \in CaseStatuses \ {"absent", "purged"}
    /\ ~cases[i].claimed
    /\ cases' = [cases EXCEPT ![i].claimed = TRUE]
    /\ UNCHANGED pressed

ForgetPurges(i) ==
    /\ cases[i].claimed /\ cases[i].status # "purged"
    /\ cases' = [cases EXCEPT ![i] = [NewCase EXCEPT !.status = "purged", !.sent = cases[i].sent]]
    /\ UNCHANGED pressed

ReviewNext ==
    \/ \E i \in Cases :
         \/ Enqueue(i) \/ RawApprove(i) \/ DeferCandidate(i)
         \/ ForgetClaims(i) \/ ForgetPurges(i)
         \/ \E m \in Messages : PressApprove(i, m) \/ \E acc \in BOOLEAN : SendMessage(i, m, acc)
         \/ \E status \in {"rejected", "pending"} : UpdateStatus(i, status)
    \/ WaitPasses \/ Resurface

ReviewSpec == ReviewInit /\ [][ReviewNext]_reviewVars /\ WF_reviewVars(WaitPasses)
                         /\ WF_reviewVars(Resurface)

-----------------------------------------------------------------------------
(* Properties *)

\* A candidate puts one event in the stream when it is approved and none
\* otherwise, however often and through whichever message or raw call it was
\* approved, deferred, reset and resurfaced in between (_approve_in_conn).
OneEventPerApproval ==
    \A i \in Cases : cases[i].events = IF cases[i].status = "approved" THEN 1 ELSE 0

\* A deferred candidate is decided or comes back to those awaiting a
\* decision: deferring never loses one (resurface_deferred_approvals).
DeferredComesBack ==
    \A i \in Cases : cases[i].status = "deferred" ~> cases[i].status # "deferred"

=============================================================================
