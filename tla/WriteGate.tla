------------------------------ MODULE WriteGate ------------------------------
(***************************************************************************)
(* POST /v1/memory/write: MemoryClient.write (client.py) as the threads of *)
(* one box run it.  A request is checked against the write quota, routed   *)
(* by its room to the approval queue, to the store, or refused, charged to *)
(* the quota and recorded; the records themselves are not kept here.  The  *)
(* count of writes is shared by all threads and read long before it is     *)
(* incremented.  The burst limit has no part in it: its timestamps belong  *)
(* to the client, and the route makes a client for every request.          *)
(***************************************************************************)
EXTENDS Naturals, FiniteSets

CONSTANTS
    Requests,           \* threads that serve write requests
    Texts,
    GatedRooms,         \* rooms that match approval_required_for
    OpenRooms,          \* rooms that are written directly
    DeniedRooms,        \* rooms outside an enforced write_room_allowlist
    QuotaPerDay,        \* write_quota.daily_max_drawers
    ChargesDuplicates,  \* profile.quota_counts_dedup
    MaxGateFaults, MaxBoxStarts   \* bounds

ASSUME WriteGateAssumption ==
    /\ QuotaPerDay \in Nat \ {0}
    /\ ChargesDuplicates \in BOOLEAN
    /\ IsFiniteSet(Requests)
    /\ MaxGateFaults \in Nat /\ MaxBoxStarts \in Nat

VARIABLES
    writing,    \* [Requests -> record]: what each thread serves
    writes,     \* the "writes" counter of the process
    stored,     \* texts with an active row
    queued,     \* texts proposed for approval
    trouble     \* faults and restarts so far

writeVars == <<writing, writes, stored, queued, trouble>>

NotWriting == [pc |-> "idle", room |-> "", text |-> "", outcome |-> ""]
AllRooms == GatedRooms \cup OpenRooms \cup DeniedRooms

WriteStages == {"idle", "quota", "route", "store", "charge", "record"}
WriteOutcomes == {"", "queued", "stored", "dedup_skipped", "quota_exceeded", "forbidden",
                  "memory_backend_error"}
WriteRecords == [pc : WriteStages, room : AllRooms \cup {""}, text : Texts \cup {""},
                 outcome : WriteOutcomes]

WriteTypeOK ==
    /\ writing \in [Requests -> WriteRecords]
    /\ \A r \in Requests : writing[r].pc # "idle" => writing[r].text \in Texts
    /\ writes \in Nat
    /\ stored \subseteq Texts /\ queued \subseteq Texts
    /\ trouble \in [faults : 0..MaxGateFaults, starts : 0..MaxBoxStarts]

WriteInit ==
    /\ writing = [r \in Requests |-> NotWriting]
    /\ writes = 0
    /\ stored = {} /\ queued = {}
    /\ trouble = [faults |-> 0, starts |-> 0]

WriteAt(r, stage) == writing[r].pc = stage
WriteGoes(r, stage) == writing' = [writing EXCEPT ![r].pc = stage]
Conclude(r, outcome) ==
    writing' = [writing EXCEPT ![r].pc = "record", ![r].outcome = outcome]
GateFault == /\ trouble.faults < MaxGateFaults
          /\ trouble' = [trouble EXCEPT !.faults = @ + 1]

-----------------------------------------------------------------------------
(* One request.                                                            *)

\* Scope, type and control arguments are checked first; what they refuse costs
\* nothing and is recorded.
ReceiveWrite(r, room, text) ==
    /\ WriteAt(r, "idle")
    /\ writing' = [writing EXCEPT ![r] =
                      [pc |-> "quota", room |-> room, text |-> text, outcome |-> ""]]
    /\ UNCHANGED <<writes, stored, queued, trouble>>

\* Mutant: a quota that is used up lets one more in.
QuotaReached == writes <= QuotaPerDay

QuotaLeft == writes < QuotaPerDay

EnforceWriteQuota(r) ==
    /\ WriteAt(r, "quota")
    /\ IF QuotaLeft THEN WriteGoes(r, "route") ELSE Conclude(r, "quota_exceeded")
    /\ UNCHANGED <<writes, stored, queued, trouble>>

\* The allowlist, then the approval gate: a gated text goes to the queue only.
RouteWrite(r) ==
    /\ WriteAt(r, "route")
    /\ \/ /\ writing[r].room \in DeniedRooms
          /\ Conclude(r, "forbidden")
          /\ UNCHANGED queued
       \/ /\ writing[r].room \in GatedRooms
          /\ writing' = [writing EXCEPT ![r].pc = "charge", ![r].outcome = "queued"]
          /\ queued' = queued \cup {writing[r].text}
       \/ /\ writing[r].room \in OpenRooms
          /\ WriteGoes(r, "store")
          /\ UNCHANGED queued
    /\ UNCHANGED <<writes, stored, trouble>>

\* The store keeps one row per text; an error leaves the row written or not.
AddMemory(r) ==
    /\ WriteAt(r, "store")
    /\ \/ /\ writing' = [writing EXCEPT ![r].pc = "charge",
                            ![r].outcome = IF writing[r].text \in stored
                                           THEN "dedup_skipped" ELSE "stored"]
          /\ stored' = stored \cup {writing[r].text}
          /\ UNCHANGED trouble
       \/ /\ GateFault
          /\ Conclude(r, "memory_backend_error")
          /\ stored' \in {stored, stored \cup {writing[r].text}}
    /\ UNCHANGED <<writes, queued>>

Charged(r) == writing[r].outcome # "dedup_skipped" \/ ChargesDuplicates

\* Then the history is noted, whose errors append_history swallows.
ChargeQuota(r) ==
    /\ WriteAt(r, "charge")
    /\ WriteGoes(r, "record")
    /\ writes' = IF Charged(r) THEN writes + 1 ELSE writes
    /\ UNCHANGED <<stored, queued, trouble>>

\* audit_http comes last, for refusals and errors too.
RecordAndAnswer(r) ==
    /\ WriteAt(r, "record")
    /\ writing' = [writing EXCEPT ![r] = NotWriting]
    /\ UNCHANGED <<writes, stored, queued, trouble>>

-----------------------------------------------------------------------------
(* Restarts.  Midnight changes nothing: get_today adds up what was counted  *)
(* since the process started.                                              *)

BoxStarts ==
    /\ trouble.starts < MaxBoxStarts
    /\ trouble' = [trouble EXCEPT !.starts = @ + 1]
    /\ writing' = [r \in Requests |-> NotWriting]
    /\ writes' = 0
    /\ UNCHANGED <<stored, queued>>

WriteNext ==
    \/ \E r \in Requests :
        \/ \E room \in AllRooms, text \in Texts : ReceiveWrite(r, room, text)
        \/ EnforceWriteQuota(r) \/ RouteWrite(r) \/ AddMemory(r) \/ ChargeQuota(r)
        \/ RecordAndAnswer(r)
    \/ BoxStarts

WriteSpec == WriteInit /\ [][WriteNext]_writeVars

-----------------------------------------------------------------------------
(* What the gate promises.                                                 *)

PastGate == {r \in Requests : writing[r].pc \in {"route", "store", "charge"}}

\* The quota is overrun by less than the number of threads: the count is read
\* before the write and incremented after it, and every thread between the two
\* was let in on a count below the limit (_enforce_write_quota, _record_write).
OverrunIsBounded ==
    writes + Cardinality(PastGate) < QuotaPerDay + Cardinality(Requests)

=============================================================================
