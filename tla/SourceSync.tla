----------------------------- MODULE SourceSync -----------------------------
(***************************************************************************)
(* A file too large for one memory is stored as a set of atoms, all tagged *)
(* with the file's source key, and every sync replaces the whole set:      *)
(* MemoryClient.replace_source_atom_set (client.py).  The store has no     *)
(* transaction over rows, so the set is replaced by a no-op check, a quota *)
(* preflight, a deletion of the prior set that is verified, one governed   *)
(* write per atom, and a last verification.  The process may die, and each *)
(* call to the store may fail, be refused, or lose its answer, between any *)
(* two of them.                                                            *)
(*                                                                         *)
(* The write quota lives in the process: a count of the writes recorded    *)
(* since the process started (counters.py) and the timestamps of the last  *)
(* minute, here only their number.                                         *)
(***************************************************************************)
EXTENDS Naturals, FiniteSets, Sequences, Functions

CONSTANTS
    Sources,        \* source keys of files
    Atoms,          \* texts of atoms; a text has one content hash
    Versions,       \* [Sources -> sets of nonempty sequences of atoms]
    Syncers,        \* processes that sync, each with a client of its own
    NoSource,       \* the owner of a text that has no active row
    DailyMax,       \* write_quota.daily_max_drawers
    BurstMax,       \* write_quota.burst_max_per_minute
    CountsDedup,    \* profile.quota_counts_dedup
    MaxEdits,       \* bound: how often a file changes
    MaxFaults,      \* bound: failures of the store, crashes, calls of Overlapping
    Overlapping     \* syncers run by hand, beside the scheduled batches

ASSUME QuotaAssumption ==
    /\ DailyMax \in Nat \ {0} /\ BurstMax \in Nat \ {0}
    /\ CountsDedup \in BOOLEAN
    /\ Overlapping \subseteq Syncers /\ NoSource \notin Sources
    /\ Versions \in [Sources -> SUBSET Seq(Atoms)] /\ \A s \in Sources : Versions[s] # {}
    \* The splitter puts the source into every atom, so two sources share none.
    /\ \A s, t \in Sources : s # t =>
           \A v \in Versions[s], w \in Versions[t] : Range(v) \cap Range(w) = {}

VARIABLES
    onDisk,     \* [Sources -> Versions]: the file on disk, as its atoms
    owner,      \* [Atoms -> Sources]: the source tag of the active row of a text
    sync,       \* [Syncers -> record]: the call each process is in
    today,      \* [Syncers -> Nat]: the "writes" counter of the process
    burst,      \* [Syncers -> Nat]: its timestamps younger than a minute
    batch,      \* [Syncers -> subsets of Sources]: what the process has still to sync
    budget      \* edits and faults so far

syncVars == <<onDisk, owner, sync, today, burst, batch, budget>>

SyncCall(stage, s, list, how, isAlone) ==
    [pc |-> stage, source |-> s, atoms |-> list, todo |-> {},
     deleted |-> FALSE, written |-> 0, outcome |-> how, alone |-> isAlone]
IdleSync == SyncCall("idle", NoSource, <<>>, "none", TRUE)

SyncInit ==
    /\ onDisk = [s \in Sources |-> CHOOSE v \in Versions[s] : TRUE]
    /\ owner = [a \in Atoms |-> NoSource]
    /\ sync = [c \in Syncers |-> IdleSync]
    /\ today = [c \in Syncers |-> 0]
    /\ burst = [c \in Syncers |-> 0]
    /\ batch = [c \in Syncers |-> Sources]
    /\ budget = [edits |-> 0, faults |-> 0]

-----------------------------------------------------------------------------
(* What the store holds, and the quota.                                    *)

\* find_active_hashes_by_tag: every active row with the tag of the source.
ActiveOf(s) == {a \in Atoms : owner[a] = s}
Expected(c) == Range(sync[c].atoms)

\* Mutant: the preflight looks at the day only.
FitsTheDay(c, n) == today[c] + n <= DailyMax

FitsQuota(c, n) ==
    /\ today[c] + n <= DailyMax
    /\ burst[c] + n <= BurstMax

MayWrite(c) == today[c] < DailyMax /\ burst[c] < BurstMax

SyncAt(c, stage) == sync[c].pc = stage
SyncGoes(c, stage) == sync' = [sync EXCEPT ![c].pc = stage]
SyncEnds(c, how) ==
    sync' = [sync EXCEPT ![c] = SyncCall("idle", NoSource, <<>>, how, TRUE)]
SyncFault ==
    /\ budget.faults < MaxFaults
    /\ budget' = [budget EXCEPT !.faults = @ + 1]

-----------------------------------------------------------------------------
(* The sync of one source.                                                 *)

\* The caller splits the file as it is on disk and calls for its atoms.  A call
\* that meets another one on the same source is no longer alone, nor is that one.
BeginSync(c, s) ==
    LET others == {d \in Syncers \ {c} : sync[d].pc # "idle" /\ sync[d].source = s}
    IN  /\ SyncAt(c, "idle") /\ s \in batch[c]
        /\ sync' = [d \in Syncers |->
              IF d = c THEN SyncCall("check", s, onDisk[s], "none", others = {})
              ELSE IF d \in others THEN [sync[d] EXCEPT !.alone = FALSE]
              ELSE sync[d]]
        /\ IF c \in Overlapping THEN SyncFault ELSE UNCHANGED budget
        /\ batch' = [batch EXCEPT ![c] = @ \ {s}]
        /\ UNCHANGED <<onDisk, owner, today, burst>>

\* Mutant: a set that is complete counts as unchanged, exact or not.
CheckComplete(c) ==
    /\ SyncAt(c, "check")
    /\ IF Expected(c) \subseteq ActiveOf(sync[c].source)
       THEN SyncEnds(c, "unchanged") ELSE SyncGoes(c, "preflight")
    /\ UNCHANGED <<onDisk, owner, today, burst, batch, budget>>

\* The set is complete and exact: nothing is deleted or written.  A read that
\* fails cannot confirm that, and the set is rewritten.
CheckUnchanged(c) ==
    /\ SyncAt(c, "check")
    /\ \/ /\ ActiveOf(sync[c].source) = Expected(c)
          /\ SyncEnds(c, "unchanged")
          /\ UNCHANGED budget
       \/ /\ ActiveOf(sync[c].source) # Expected(c)
          /\ SyncGoes(c, "preflight")
          /\ UNCHANGED budget
       \/ SyncFault /\ SyncGoes(c, "preflight")
    /\ UNCHANGED <<onDisk, owner, today, burst, batch>>

\* check_write_quota for the whole list, then the check of
\* delete_prior_source_versions for one write.
Preflight(c) ==
    /\ SyncAt(c, "preflight")
    /\ IF FitsQuota(c, Len(sync[c].atoms)) /\ MayWrite(c)
       THEN SyncGoes(c, "find") ELSE SyncEnds(c, "quota")
    /\ UNCHANGED <<onDisk, owner, today, burst, batch, budget>>

FindPriors(c) ==
    /\ SyncAt(c, "find")
    /\ \/ /\ sync' = [sync EXCEPT ![c].pc = "delete",
                                  ![c].todo = ActiveOf(sync[c].source)]
          /\ UNCHANGED budget
       \/ SyncFault /\ SyncEnds(c, "failed")
    /\ UNCHANGED <<onDisk, owner, today, burst, batch>>

\* One candidate: a row that is gone by now is skipped, a delete may be refused
\* without raising, and an answer may be lost once the row is deleted.
DeletePrior(c) ==
    /\ SyncAt(c, "delete")
    /\ \E a \in sync[c].todo :
        \/ /\ sync' = [sync EXCEPT ![c].todo = @ \ {a},
                                   ![c].deleted = @ \/ owner[a] # NoSource]
           /\ owner' = [owner EXCEPT ![a] = NoSource]
           /\ UNCHANGED budget
        \/ /\ SyncFault                                 \* success: false
           /\ sync' = [sync EXCEPT ![c].todo = @ \ {a}]
           /\ UNCHANGED owner
        \/ /\ SyncFault                                 \* raises, deleted or not
           /\ SyncEnds(c, "failed")
           /\ \E gone \in BOOLEAN :
                owner' = IF gone THEN [owner EXCEPT ![a] = NoSource] ELSE owner
    /\ UNCHANGED <<onDisk, today, burst, batch>>

\* The post-condition: no prior version may be left, whatever the deletes said.
RecheckPriors(c) ==
    /\ SyncAt(c, "delete") /\ sync[c].todo = {}
    /\ \/ /\ ActiveOf(sync[c].source) = {}
          /\ SyncGoes(c, "write")
          /\ UNCHANGED budget
       \/ /\ ActiveOf(sync[c].source) # {}
          /\ SyncEnds(c, "failed")
          /\ UNCHANGED budget
       \/ SyncFault /\ SyncEnds(c, "failed")
    /\ UNCHANGED <<onDisk, owner, today, burst, batch>>

RecordWrite(c, fresh) ==
    LET n == IF fresh \/ CountsDedup THEN 1 ELSE 0
    IN  /\ today' = [today EXCEPT ![c] = @ + n]
        /\ burst' = [burst EXCEPT ![c] = @ + n]

\* write() of the next atom: the quota of one write, then the store, which
\* keeps one active row per text and skips an exact duplicate.
WriteAtom(c) ==
    LET a == sync[c].atoms[sync[c].written + 1]
        fresh == owner[a] = NoSource
        stored == IF fresh THEN [owner EXCEPT ![a] = sync[c].source] ELSE owner
    IN  /\ SyncAt(c, "write")
        /\ sync[c].written < Len(sync[c].atoms)
        /\ \/ /\ ~MayWrite(c)
              /\ SyncEnds(c, "quota")
              /\ UNCHANGED <<owner, today, burst, budget>>
           \/ /\ MayWrite(c)
              /\ owner' = stored
              /\ sync' = [sync EXCEPT ![c].written = @ + 1]
              /\ RecordWrite(c, fresh)
              /\ UNCHANGED budget
           \/ /\ MayWrite(c)
              /\ SyncFault
              /\ SyncEnds(c, "failed")
              /\ owner' \in {owner, stored}
              /\ UNCHANGED <<today, burst>>
        /\ UNCHANGED <<onDisk, batch>>

VerifySet(c) ==
    /\ SyncAt(c, "write") /\ sync[c].written = Len(sync[c].atoms)
    /\ \/ /\ SyncEnds(c, IF ActiveOf(sync[c].source) = Expected(c) THEN "written" ELSE "failed")
          /\ UNCHANGED budget
       \/ SyncFault /\ SyncEnds(c, "failed")
    /\ UNCHANGED <<onDisk, owner, today, burst, batch>>

-----------------------------------------------------------------------------
(* The world around it.                                                    *)

EditFile(s) ==
    /\ budget.edits < MaxEdits
    /\ \E v \in Versions[s] \ {onDisk[s]} : onDisk' = [onDisk EXCEPT ![s] = v]
    /\ budget' = [budget EXCEPT !.edits = @ + 1]
    /\ UNCHANGED <<owner, sync, today, burst, batch>>

\* The process starts anew: its counters were in its memory.
FreshProcess(c) ==
    /\ today' = [today EXCEPT ![c] = 0]
    /\ burst' = [burst EXCEPT ![c] = 0]
    /\ batch' = [batch EXCEPT ![c] = Sources]
    /\ UNCHANGED <<onDisk, owner>>

CrashSyncer(c) ==
    /\ sync[c].pc # "idle"
    /\ SyncFault
    /\ sync' = [sync EXCEPT ![c] = IdleSync]
    /\ FreshProcess(c)

\* The batch of all sources ends and the next one is a new process.
NextBatch(c) ==
    /\ SyncAt(c, "idle") /\ batch[c] = {}
    /\ FreshProcess(c)
    /\ sync' = [sync EXCEPT ![c] = IdleSync]
    /\ UNCHANGED budget

\* Timestamps leave the window of a minute, the oldest first.
WindowSlides(c) ==
    /\ \E n \in 0..burst[c] - 1 : burst' = [burst EXCEPT ![c] = n]
    /\ UNCHANGED <<onDisk, owner, sync, today, batch, budget>>

SyncStep(c) ==
    \/ CheckUnchanged(c) \/ Preflight(c) \/ FindPriors(c) \/ DeletePrior(c)
    \/ RecheckPriors(c) \/ WriteAtom(c) \/ VerifySet(c)

SyncNext ==
    \/ \E c \in Syncers :
        \/ SyncStep(c) \/ CrashSyncer(c) \/ NextBatch(c) \/ WindowSlides(c)
        \/ \E s \in Sources : BeginSync(c, s)
    \/ \E s \in Sources : EditFile(s)

\* A call that has begun goes on, a batch syncs each of its sources and is
\* followed by another one.
SyncFairness ==
    \A c \in Syncers :
        /\ WF_syncVars(SyncStep(c))
        /\ \A s \in Sources : WF_syncVars(BeginSync(c, s))
        /\ WF_syncVars(NextBatch(c))

SyncSpec == SyncInit /\ [][SyncNext]_syncVars /\ SyncFairness

-----------------------------------------------------------------------------
(* What the sync promises.                                                 *)

\* A quota that cannot fit the set is noticed while the prior set is untouched:
\* no call is stopped by the quota after it deleted a row or wrote an atom
\* (check_write_quota: a clean preflight never desyncs from a mid-set raise).
QuotaNeverSplitsASet ==
    [][\A c \in Syncers :
        (sync[c].pc # "idle" /\ sync'[c].outcome = "quota")
            => (~sync[c].deleted /\ sync[c].written = 0)]_syncVars

\* An atom is never written beside a row of an earlier version: deletes that
\* were refused or lost are caught by the post-condition of
\* delete_prior_source_versions, as long as no other call syncs the source.
NoWriteBesideAPrior ==
    \A c \in Syncers :
        (sync[c].pc = "write" /\ sync[c].alone)
            => ActiveOf(sync[c].source) \subseteq Expected(c)

\* Once files stop changing and the store stops failing, a source that was ever
\* synced ends up stored exactly as it is on disk, whatever a crash or an
\* overlapping sync left behind: the next sync sees A # E and rewrites
\* (replace_source_atom_set).
EverySourceHeals ==
    \A s \in Sources :
        (\E c \in Syncers : sync[c].source = s) ~> [](ActiveOf(s) = Range(onDisk[s]))

=============================================================================
