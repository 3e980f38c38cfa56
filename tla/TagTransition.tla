---------------------------- MODULE TagTransition ----------------------------
(***************************************************************************)
(* Tombstone, supersede and ensure_tag of panella_adapter.py.  The store   *)
(* replaces the tags of a row as a whole, so each of them is a GET, a PUT  *)
(* of the merged tags and a GET that verifies, under a lock of this host   *)
(* (tag_lock.py).  Metadata is sent as a delta that the store merges.      *)
(* Deletes and new writes of the same content take no lock.                *)
(*                                                                         *)
(*   idle -> waiting -> get -> put -> verify -> recording -> idle          *)
(*                       ^               |                                 *)
(*                       +---------------+   at most MaxAttempts times     *)
(*                                                                         *)
(* A PUT whose sender gave up waiting may still be carried out by the      *)
(* store: it is kept in "late" until then.                                 *)
(***************************************************************************)
EXTENDS Naturals, FiniteSets

CONSTANTS
    Memories,       \* content hashes
    Writers,        \* threads and processes of this host
    Labels,         \* the tags that are no status (permanent, wing:..., ccsk:...)
    None,
    MaxAttempts,    \* max_attempts of _tag_transition
    LateMemories,   \* the memories whose PUTs the store may carry out late
    MaxLate,        \* bound: PUTs left behind at a time
    MaxLives        \* bound: how often a content is stored

ASSUME TagAssumption ==
    /\ None \notin Writers \cup {"active", "tombstoned", "superseded"}
    /\ Labels \cap {"active", "tombstoned", "superseded"} = {}
    /\ MaxAttempts \in Nat \ {0}
    /\ LateMemories \subseteq Memories
    /\ MaxLate \in Nat
    /\ MaxLives \in Nat

VARIABLES
    rows,       \* the store
    lock,       \* who holds the lock file of a memory
    writer,     \* the progress of each writer
    late,       \* PUTs nobody waits for any more
    history     \* memory_history: <<status, memory, life>>

vars == <<rows, lock, writer, late, history>>

\* The statuses a transition gives.  (Recall excludes "candidate" as well,
\* which add_memory may give and no transition.)
Retired == {"tombstoned", "superseded"}
Statuses == {"active"} \cup Retired
Tags == Statuses \cup Labels

\* A row of the store.  A content that is stored anew after a delete begins
\* another life; valid_to is named after the writer that stamped it.
MemoryRows == [live    : BOOLEAN,
               life    : 0 .. MaxLives,
               tags    : SUBSET Tags,
               status  : Statuses,                \* metadata "status"
               validTo : Writers \cup {None}]     \* metadata "valid_to"

\* The body of a PUT: all tags, and the delta of the metadata.
Puts == [mem     : Memories,
         tags    : SUBSET Tags,
         status  : Retired \cup {None},
         validTo : Writers \cup {None}]

WriterStages == {"idle", "waiting", "get", "put", "verify", "recording"}

\* A transition adds one tag: the status it moves to, or a label.
WriterStates == [pc      : WriterStages,
                 mem     : Memories \cup {None},
                 add     : Retired \cup Labels \cup {None},
                 kept    : SUBSET Tags,               \* what the GET found
                 stamp   : Writers \cup {None},       \* valid_to to send
                 life    : 0 .. MaxLives,             \* of the row last read
                 attempt : 0 .. MaxAttempts]

IdleWriter == [pc |-> "idle", mem |-> None, add |-> None, kept |-> {},
               stamp |-> None, life |-> 0, attempt |-> 0]

TagTypeOK ==
    /\ rows \in [Memories -> MemoryRows]
    /\ lock \in [Memories -> Writers \cup {None}]
    /\ writer \in [Writers -> WriterStates]
    /\ late \subseteq Puts
    /\ history \subseteq Retired \X Memories \X (0 .. MaxLives)

NoRow == [live |-> FALSE, life |-> 0, tags |-> {}, status |-> "active", validTo |-> None]

Init ==
    /\ rows = [m \in Memories |-> NoRow]
    /\ lock = [m \in Memories |-> None]
    /\ writer = [w \in Writers |-> IdleWriter]
    /\ late = {}
    /\ history = {}

-----------------------------------------------------------------------------
(* The store, and the operations that take no lock *)

\* add_memory of a content that is not stored: a row of status active.
Add(m, labels) ==
    /\ ~rows[m].live
    /\ rows[m].life < MaxLives
    /\ rows' = [rows EXCEPT ![m] = [live |-> TRUE, life |-> rows[m].life + 1,
                                    tags |-> {"active"} \cup labels,
                                    status |-> "active", validTo |-> None]]
    /\ UNCHANGED <<lock, writer, late, history>>

\* hard_delete
Delete(m) ==
    /\ rows[m].live
    /\ rows' = [rows EXCEPT ![m].live = FALSE]
    /\ UNCHANGED <<lock, writer, late, history>>

\* update_memory_metadata: tags are replaced, metadata is merged.
Replaced(r, p) ==
    [r EXCEPT !.tags    = p.tags,
              !.status  = IF p.status = None THEN @ ELSE p.status,
              !.validTo = IF p.validTo = None THEN @ ELSE p.validTo]

Stored(p) == [rows EXCEPT ![p.mem] = IF rows[p.mem].live THEN Replaced(@, p) ELSE @]

\* The store comes round to a PUT nobody waits for.
LatePut(p) ==
    /\ p \in late
    /\ rows' = Stored(p)
    /\ late' = late \ {p}
    /\ UNCHANGED <<lock, writer, history>>

-----------------------------------------------------------------------------
(* tag_lock *)

At(w, stage) == writer[w].pc = stage
Mem(w) == writer[w].mem

\* A writer at a stage, knowing of its transition what it was called with.
Called(w, stage) == [IdleWriter EXCEPT !.pc = stage, !.mem = Mem(w), !.add = writer[w].add]

\* Mutant: the lock is taken whether or not somebody holds it.
LockIgnored(m) == TRUE

LockFree(m) == lock[m] = None

\* Mutant: the lock is released when the block ends, not when it raises.
ReleasedIfDone(w) == IF writer[w].pc = "verify" THEN [lock EXCEPT ![Mem(w)] = None] ELSE lock

\* The lock file is unlocked when the block is left, however that happens;
\* the system unlocks it when the process ends.
Released(w) == [m \in Memories |-> IF lock[m] = w THEN None ELSE lock[m]]

\* tombstone, supersede or ensure_tag is called.
Begin(w, m, tag) ==
    /\ At(w, "idle")
    /\ writer' = [writer EXCEPT ![w] = [IdleWriter EXCEPT
                    !.pc = "waiting", !.mem = m, !.add = tag]]
    /\ UNCHANGED <<rows, lock, late, history>>

Acquire(w) ==
    /\ At(w, "waiting")
    /\ LockFree(Mem(w))
    /\ lock' = [lock EXCEPT ![Mem(w)] = w]
    /\ writer' = [writer EXCEPT ![w] = [Called(w, "get") EXCEPT !.attempt = 1]]
    /\ UNCHANGED <<rows, late, history>>

\* TagLockTimeout
TimesOut(w) ==
    /\ At(w, "waiting")
    /\ ~LockFree(Mem(w))
    /\ writer' = [writer EXCEPT ![w] = IdleWriter]
    /\ UNCHANGED <<rows, lock, late, history>>

-----------------------------------------------------------------------------
(* _tag_transition *)

\* A transition to another status drops status:active, ensure_tag nothing.
Drops(tag) == IF tag \in Retired THEN {"active"} ELSE {}

\* Leaving the locked block without a record: False or an exception.
Leave(w) ==
    /\ lock' = Released(w)
    /\ writer' = [writer EXCEPT ![w] = IdleWriter]

\* supersede keeps the valid_to it finds; the others send none.
Stamp(w, tag, row) ==
    CASE tag # "superseded"    -> None
      [] row.validTo # None    -> row.validTo
      [] OTHER                 -> w

Get(w) ==
    LET row == rows[Mem(w)] IN
    /\ At(w, "get")
    /\ row.live
    /\ writer' = [writer EXCEPT ![w].pc    = "put",
                                ![w].kept  = row.tags \ Drops(writer[w].add),
                                ![w].stamp = Stamp(w, writer[w].add, row),
                                ![w].life  = row.life]
    /\ UNCHANGED <<rows, lock, late, history>>

GetGone(w) ==
    /\ At(w, "get")
    /\ ~rows[Mem(w)].live
    /\ Leave(w)
    /\ UNCHANGED <<rows, late, history>>

\* Mutant: the metadata is sent as a whole.
WholeMetadata(tag) == IF tag \in Retired THEN tag ELSE "active"

\* meta_delta_fn
StatusDelta(tag) == IF tag \in Retired THEN tag ELSE None

PutOf(w) == [mem |-> Mem(w), tags |-> writer[w].kept \cup {writer[w].add},
             status |-> StatusDelta(writer[w].add), validTo |-> writer[w].stamp]

\* A request times out and stays with the store, or it does not.
LeavesBehind(w) ==
    \/ UNCHANGED late
    \/ /\ Mem(w) \in LateMemories
       /\ Cardinality(late) < MaxLate
       /\ late' = late \cup {PutOf(w)}

\* The store answers success, maybe only to a retry of the adapter.
PutLands(w) ==
    /\ At(w, "put")
    /\ rows[Mem(w)].live
    /\ rows' = Stored(PutOf(w))
    /\ LeavesBehind(w)
    /\ writer' = [writer EXCEPT ![w].pc = "verify", ![w].stamp = None, ![w].life = 0]
    /\ UNCHANGED <<lock, history>>

\* A 404, an error or a last timeout raises; the PUT may have landed.
PutRaises(w) ==
    /\ At(w, "put")
    /\ rows' \in {rows, Stored(PutOf(w))}
    /\ LeavesBehind(w)
    /\ Leave(w)
    /\ UNCHANGED history

MayRetry(w) == writer[w].attempt < MaxAttempts

\* The next attempt, or an alert and False.
Again(w) ==
    \/ /\ MayRetry(w)
       /\ writer' = [writer EXCEPT ![w] = [Called(w, "get") EXCEPT !.attempt = writer[w].attempt + 1]]
       /\ UNCHANGED lock
    \/ /\ ~MayRetry(w)
       /\ Leave(w)

\* {"success": false}
PutRefused(w) ==
    /\ At(w, "put")
    /\ Again(w)
    /\ UNCHANGED <<rows, late, history>>

\* Mutant: the row is not read again.
Unverified(w) == TRUE

\* The transition is visible: added, dropped, and everything else kept.
Visible(w) ==
    LET tags == rows[Mem(w)].tags IN
    /\ writer[w].add \in tags
    /\ Drops(writer[w].add) \cap tags = {}
    /\ writer[w].kept \subseteq tags

Verify(w) ==
    /\ At(w, "verify")
    /\ rows[Mem(w)].live
    /\ Visible(w)
    /\ lock' = Released(w)
    /\ writer' = [writer EXCEPT ![w] = [Called(w, "recording") EXCEPT !.life = rows[Mem(w)].life]]
    /\ UNCHANGED <<rows, late, history>>

VerifyMismatch(w) ==
    /\ At(w, "verify")
    /\ rows[Mem(w)].live
    /\ ~Visible(w)
    /\ Again(w)
    /\ UNCHANGED <<rows, late, history>>

\* Reading the row fails; the row is gone when it is to be verified.
ReadRaises(w) ==
    /\ At(w, "get") \/ At(w, "verify")
    /\ Leave(w)
    /\ UNCHANGED <<rows, late, history>>

\* MemoryClient.tombstone and supersede append to the history on True.
Record(w) ==
    /\ At(w, "recording")
    /\ history' = IF writer[w].add \in Retired
                  THEN history \cup {<<writer[w].add, Mem(w), writer[w].life>>}
                  ELSE history
    /\ writer' = [writer EXCEPT ![w] = IdleWriter]
    /\ UNCHANGED <<rows, lock, late>>

\* The process ends; a PUT it has sent may stay with the store.  (One that
\* has landed by then is PutRaises: nobody can tell the two apart.)
Crash(w) ==
    /\ ~At(w, "idle")
    /\ Leave(w)
    /\ IF At(w, "put") THEN LeavesBehind(w) ELSE UNCHANGED late
    /\ UNCHANGED <<rows, history>>

Locked(w) ==
    \/ Get(w) \/ GetGone(w) \/ PutLands(w) \/ PutRaises(w) \/ PutRefused(w)
    \/ Verify(w) \/ VerifyMismatch(w) \/ ReadRaises(w)

Step(w) == Acquire(w) \/ TimesOut(w) \/ Locked(w) \/ Record(w)

Next ==
    \/ \E m \in Memories, labels \in SUBSET Labels : Add(m, labels)
    \/ \E m \in Memories : Delete(m)
    \/ \E p \in late : LatePut(p)
    \/ \E w \in Writers, m \in Memories, tag \in Retired \cup Labels : Begin(w, m, tag)
    \/ \E w \in Writers : Step(w)
    \/ \E w \in Writers : Crash(w)

Spec == Init /\ [][Next]_vars

\* Threads are run, and flock is polled until the timeout.
FairSpec == Spec /\ \A w \in Writers : WF_vars(Step(w))

-----------------------------------------------------------------------------
(* Properties *)

Punctual == Memories \ LateMemories

\* The validity predicate of recall: either mark of a retired row hides it.
Excluded(row) == row.status \in Retired \/ row.tags \cap Retired # {}

\* While no PUT arrives late, what a transition does to the tags is atomic:
\* it drops and adds to the tags as they are when its PUT lands, whatever
\* other transitions did since its GET.
TransitionsAreAtomic ==
    [][\A w \in Writers :
          LET c == writer[w] IN
          /\ c.pc = "put" /\ c.mem \in Punctual
          /\ rows[c.mem].life = c.life
          /\ rows'[c.mem].tags # rows[c.mem].tags
          /\ writer'[w] # c
          => rows'[c.mem].tags = (rows[c.mem].tags \ Drops(c.add)) \cup {c.add}]_vars

\* What was hidden from recall never comes back in the same life of the row,
\* not even through a PUT that arrives late with old tags: its delta has no
\* status but a retired one.  (Where a content is stored once: PUTs of an
\* earlier life bring tags without their status.)
RetiredStaysExcluded ==
    [][\A m \in Memories :
          rows[m].live /\ rows'[m].live /\ Excluded(rows[m]) => Excluded(rows'[m])]_vars

\* A history record of a transition is true of the row it was verified on,
\* for as long as that lives.
RecordIsTrue ==
    \A rec \in history :
        LET row == rows[rec[2]] IN
        row.live /\ row.life = rec[3] =>
            /\ Excluded(row)
            /\ rec[2] \in Punctual => rec[1] \in row.tags

\* No lock outlives the block that took it: exceptions, refusals, deleted
\* rows and dead processes included.
LocksAreReleased == \A m \in Memories : (lock[m] # None) ~> (lock[m] = None)

=============================================================================
