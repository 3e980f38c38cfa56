------------------------------ MODULE TagProofs ------------------------------
(***************************************************************************)
(* While no PUT of a memory arrives late, tombstone, supersede and         *)
(* ensure_tag are atomic updates of its tags, whatever other transitions,  *)
(* deletes, new writes, timeouts and crashes do in between.  While none    *)
(* outlives the row it was meant for, what is retired stays hidden and     *)
(* what is recorded stays true.                                            *)
(***************************************************************************)
EXTENDS TagTransition, TLAPS

-----------------------------------------------------------------------------
(* The inductive invariant *)

Holding(w) == writer[w].pc \in {"get", "put", "verify"}

\* A transition that has begun knows its memory and its tag.
TagShape ==
    \A w \in Writers :
        At(w, "idle") \/ (Mem(w) \in Memories /\ writer[w].add \in Retired \cup Labels)

\* A lock is held by exactly the writer that is inside its block.
LockHeld ==
    \A w \in Writers, m \in Memories : lock[m] = w <=> Holding(w) /\ Mem(w) = m

LateIsExpected == \A p \in late : p.mem \in LateMemories

\* What the GET found is still there when the PUT is sent, or the row was
\* deleted and written anew.
GetIsFresh ==
    \A w \in Writers : At(w, "put") =>
        /\ writer[w].life <= rows[Mem(w)].life
        /\ Mem(w) \in Punctual /\ rows[Mem(w)].life = writer[w].life =>
              writer[w].kept = rows[Mem(w)].tags \ Drops(writer[w].add)

TagInv == TagTypeOK /\ TagShape /\ LockHeld /\ LateIsExpected /\ GetIsFresh

\* An empty store with idle writers.
LEMMA TagInit == Init => TagInv
  <1> SUFFICES ASSUME Init PROVE TagInv
    OBVIOUS
  <1> USE DEF Init
  <1>1. NoRow \in MemoryRows
    BY TagAssumption DEF NoRow, MemoryRows, Statuses
  <1>2. IdleWriter \in WriterStates
    BY TagAssumption DEF IdleWriter, WriterStates, WriterStages
  <1>3. TagTypeOK
    BY <1>1, <1>2 DEF TagTypeOK
  <1>4. \A w \in Writers : At(w, "idle") /\ ~Holding(w)
    BY DEF At, Holding, IdleWriter
  <1>5. LockHeld
    BY <1>4, TagAssumption DEF LockHeld
  <1>6. QED
    BY <1>3, <1>4, <1>5 DEF TagInv, TagShape, LateIsExpected, GetIsFresh, At

-----------------------------------------------------------------------------
(* What the steps are made of *)

\* A PUT leaves rows, and touches the row of its memory only, keeping its life.
LEMMA StoredRows ==
  ASSUME TagTypeOK, NEW p \in Puts
  PROVE  /\ Stored(p) \in [Memories -> MemoryRows]
         /\ \A m \in Memories : Stored(p)[m].life = rows[m].life
         /\ \A m \in Memories : m # p.mem => Stored(p)[m] = rows[m]
         /\ Stored(p)[p.mem].tags \in {rows[p.mem].tags, p.tags}
  <1>1. p.mem \in Memories
    BY DEF Puts
  <1>2. ASSUME NEW r \in MemoryRows
        PROVE  /\ Replaced(r, p) \in MemoryRows
               /\ Replaced(r, p).life = r.life
               /\ Replaced(r, p).tags = p.tags
    BY DEF Replaced, MemoryRows, Puts, Statuses
  <1>3. QED
    BY <1>1, <1>2 DEF Stored, TagTypeOK

\* The request of a transition is well-formed.
LEMMA PutOfType ==
  ASSUME TagTypeOK, TagShape, NEW w \in Writers, At(w, "put")
  PROVE  PutOf(w) \in Puts /\ PutOf(w).mem = Mem(w)
         /\ PutOf(w).tags = writer[w].kept \cup {writer[w].add}
  <1>1. writer[w] \in WriterStates /\ Mem(w) \in Memories /\ writer[w].add \in Retired \cup Labels
    BY DEF TagTypeOK, TagShape, At
  <1>2. StatusDelta(writer[w].add) \in Retired \cup {None}
    BY DEF StatusDelta
  <1>3. writer[w].kept \cup {writer[w].add} \subseteq Tags
    BY <1>1 DEF WriterStates, Tags, Statuses
  <1>4. QED
    BY <1>1, <1>2, <1>3 DEF PutOf, Puts, WriterStates

\* A writer that releases its lock, if it has one, and goes on outside of the
\* block leaves the locks in order.
LEMMA Releasing ==
  ASSUME TagInv, NEW w \in Writers, NEW s \in WriterStates,
         s.pc \in {"idle", "recording"},
         s.pc # "idle" => s.mem \in Memories /\ s.add \in Retired \cup Labels,
         lock' = Released(w), writer' = [writer EXCEPT ![w] = s]
  PROVE  /\ lock' \in [Memories -> Writers \cup {None}]
         /\ writer' \in [Writers -> WriterStates]
         /\ TagShape' /\ LockHeld'
         /\ ~At(w, "put")'
         /\ \A v \in Writers : v # w => writer'[v] = writer[v]
  <1>1. lock' = [m \in Memories |-> IF lock[m] = w THEN None ELSE lock[m]]
    BY DEF Released
  <1>2. writer' \in [Writers -> WriterStates] /\ lock' \in [Memories -> Writers \cup {None}]
    BY <1>1 DEF TagInv, TagTypeOK
  <1>3. writer'[w] = s /\ \A v \in Writers : v # w => writer'[v] = writer[v]
    BY DEF TagInv, TagTypeOK
  <1>4. ~Holding(w)' /\ ~At(w, "put")'
    BY <1>3 DEF At, Holding
  <1>5. TagShape'
    BY <1>3 DEF TagInv, TagShape, At, Mem
  <1>6. ASSUME NEW v \in Writers, NEW m \in Memories
        PROVE  lock'[m] = v <=> Holding(v)' /\ Mem(v)' = m
    <2>1. CASE v = w
      BY <1>1, <1>4, <2>1, TagAssumption
    <2>2. CASE v # w
      BY <1>1, <1>3, <2>2, TagAssumption DEF TagInv, LockHeld, Holding, Mem
    <2>3. QED
      BY <2>1, <2>2
  <1>7. QED
    BY <1>2, <1>3, <1>4, <1>5, <1>6 DEF LockHeld

\* Every writer may become idle.
LEMMA IdleType == IdleWriter \in WriterStates /\ IdleWriter.pc = "idle"
  BY TagAssumption DEF IdleWriter, WriterStates, WriterStages

\* What a writer knows of its transition is a state of a writer.
LEMMA CalledType ==
  ASSUME TagTypeOK, NEW w \in Writers, NEW stage \in WriterStages
  PROVE  /\ Called(w, stage) \in WriterStates
         /\ Called(w, stage).pc = stage
         /\ Called(w, stage).mem = Mem(w)
         /\ Called(w, stage).add = writer[w].add
  <1>1. writer[w].mem \in Memories \cup {None} /\ writer[w].add \in Retired \cup Labels \cup {None}
    BY DEF TagTypeOK, WriterStates
  <1>2. IdleWriter \in WriterStates
    BY IdleType
  <1>3. QED
    BY <1>1, <1>2 DEF Called, Mem, WriterStates

\* Leaving the block ends the transition and frees its lock, and no other.
LEMMA Leaving ==
  ASSUME TagInv, NEW w \in Writers, Leave(w)
  PROVE  /\ lock' \in [Memories -> Writers \cup {None}]
         /\ writer' \in [Writers -> WriterStates]
         /\ TagShape' /\ LockHeld'
         /\ ~At(w, "put")'
         /\ \A v \in Writers : v # w => writer'[v] = writer[v]
  <1>1. lock' = Released(w) /\ writer' = [writer EXCEPT ![w] = IdleWriter]
    BY DEF Leave
  <1>2. QED
    BY <1>1, IdleType, Releasing

\* A writer without a lock that moves outside of the block changes no lock.
LEMMA Outside ==
  ASSUME TagInv, NEW w \in Writers, ~Holding(w), NEW s \in WriterStates,
         s.pc \in {"idle", "waiting"},
         s.pc # "idle" => s.mem \in Memories /\ s.add \in Retired \cup Labels,
         UNCHANGED lock, writer' = [writer EXCEPT ![w] = s]
  PROVE  /\ lock' \in [Memories -> Writers \cup {None}]
         /\ writer' \in [Writers -> WriterStates]
         /\ TagShape' /\ LockHeld'
         /\ ~At(w, "put")'
         /\ \A v \in Writers : v # w => writer'[v] = writer[v]
  <1>1. writer' \in [Writers -> WriterStates] /\ lock' \in [Memories -> Writers \cup {None}]
    BY DEF TagInv, TagTypeOK
  <1>2. writer'[w] = s /\ \A v \in Writers : v # w => writer'[v] = writer[v]
    BY DEF TagInv, TagTypeOK
  <1>3. ~Holding(w)' /\ ~At(w, "put")'
    BY <1>2 DEF At, Holding
  <1>4. TagShape'
    BY <1>2 DEF TagInv, TagShape, At, Mem
  <1>5. LockHeld'
    BY <1>2, <1>3 DEF TagInv, LockHeld, Holding, Mem
  <1>6. QED
    BY <1>1, <1>2, <1>3, <1>4, <1>5

\* A writer that stays where the lock is concerned leaves the locks in order.
LEMMA Moving ==
  ASSUME TagInv, NEW w \in Writers, ~At(w, "idle"),
         NEW s \in WriterStates,
         s.mem = writer[w].mem, s.add = writer[w].add,
         s.pc \in {"get", "put", "verify"}, Holding(w),
         writer' = [writer EXCEPT ![w] = s], UNCHANGED lock
  PROVE  /\ lock' \in [Memories -> Writers \cup {None}]
         /\ writer' \in [Writers -> WriterStates]
         /\ TagShape' /\ LockHeld'
         /\ writer'[w] = s
         /\ \A v \in Writers : v # w => writer'[v] = writer[v]
  <1>1. writer' \in [Writers -> WriterStates] /\ lock' \in [Memories -> Writers \cup {None}]
    BY DEF TagInv, TagTypeOK
  <1>2. writer'[w] = s /\ \A v \in Writers : v # w => writer'[v] = writer[v]
    BY DEF TagInv, TagTypeOK
  <1>3. TagShape'
    BY <1>2 DEF TagInv, TagShape, At, Mem
  <1>4. \A v \in Writers : (Holding(v)' <=> Holding(v)) /\ Mem(v)' = Mem(v)
    BY <1>2 DEF Holding, Mem
  <1>5. LockHeld'
    BY <1>4 DEF TagInv, LockHeld
  <1>6. QED
    BY <1>1, <1>2, <1>3, <1>5

\* An attempt that fails begins the next one, or ends the transition.
LEMMA Retrying ==
  ASSUME TagInv, NEW w \in Writers, Holding(w), Again(w)
  PROVE  /\ lock' \in [Memories -> Writers \cup {None}]
         /\ writer' \in [Writers -> WriterStates]
         /\ TagShape' /\ LockHeld'
         /\ ~At(w, "put")'
         /\ \A v \in Writers : v # w => writer'[v] = writer[v]
  <1>1. CASE Leave(w)
    BY <1>1, Leaving
  <1>2. CASE /\ MayRetry(w)
             /\ writer' = [writer EXCEPT ![w] =
                             [Called(w, "get") EXCEPT !.attempt = writer[w].attempt + 1]]
             /\ UNCHANGED lock
    <2> DEFINE c == Called(w, "get")
               s == [c EXCEPT !.attempt = writer[w].attempt + 1]
    <2>1. /\ c \in WriterStates
          /\ c.mem = writer[w].mem /\ c.add = writer[w].add /\ c.pc = "get"
      BY CalledType DEF TagInv, WriterStages, Mem
    <2>2. writer[w].attempt \in 0 .. MaxAttempts /\ writer[w].attempt < MaxAttempts
      BY <1>2 DEF TagInv, TagTypeOK, WriterStates, MayRetry
    <2>3. writer[w].attempt + 1 \in 0 .. MaxAttempts
      BY <2>2, TagAssumption
    <2>4. writer' = [writer EXCEPT ![w] = s]
      BY <1>2
    <2> HIDE DEF c
    <2>5. /\ s \in WriterStates
          /\ s.mem = writer[w].mem /\ s.add = writer[w].add /\ s.pc = "get"
      BY <2>1, <2>3 DEF WriterStates
    <2>6. ~At(w, "idle")
      BY DEF At, Holding
    <2>7. /\ lock' \in [Memories -> Writers \cup {None}]
          /\ writer' \in [Writers -> WriterStates]
          /\ TagShape' /\ LockHeld'
          /\ writer'[w] = s
          /\ \A v \in Writers : v # w => writer'[v] = writer[v]
      <3> HIDE DEF s
      <3>1. QED
        BY <1>2, <2>4, <2>5, <2>6, Moving
    <2>8. ~At(w, "put")'
      BY <2>5, <2>7 DEF At
    <2>9. QED
      BY <2>7, <2>8
  <1>3. QED
    BY <1>1, <1>2 DEF Again

\* What the other writers read stays fresh, and so does what w read, unless
\* it is to send a PUT now.
LEMMA StaysFresh ==
  ASSUME TagInv, NEW w \in Writers, ~At(w, "put")',
         \A v \in Writers : v # w => writer'[v] = writer[v],
         \A m \in Memories : rows'[m].life = rows[m].life,
         \A m \in Memories : rows'[m].tags # rows[m].tags => lock[m] = w
  PROVE  GetIsFresh'
  <1> SUFFICES ASSUME NEW v \in Writers, At(v, "put")'
               PROVE  /\ writer'[v].life <= rows'[Mem(v)'].life
                      /\ Mem(v)' \in Punctual /\ rows'[Mem(v)'].life = writer'[v].life =>
                            writer'[v].kept = rows'[Mem(v)'].tags \ Drops(writer'[v].add)
    BY DEF GetIsFresh, Punctual
  <1>1. v # w
    OBVIOUS
  <1>2. writer'[v] = writer[v] /\ At(v, "put") /\ Mem(v)' = Mem(v)
    BY <1>1 DEF At, Mem
  <1>3. Mem(v) \in Memories /\ lock[Mem(v)] = v
    BY <1>2 DEF TagInv, TagShape, LockHeld, Holding, At
  <1>4. rows'[Mem(v)].tags = rows[Mem(v)].tags /\ rows'[Mem(v)].life = rows[Mem(v)].life
    BY <1>1, <1>3
  <1>5. QED
    BY <1>2, <1>4 DEF TagInv, GetIsFresh

-----------------------------------------------------------------------------
(* Every step keeps the invariant *)

\* The operations that take no lock.
LEMMA StoreStep ==
  ASSUME TagInv,
         \/ \E m \in Memories, labels \in SUBSET Labels : Add(m, labels)
         \/ \E m \in Memories : Delete(m)
         \/ \E p \in late : LatePut(p)
  PROVE  TagInv'
  <1> USE DEF TagInv
  <1>1. ASSUME NEW m \in Memories, NEW labels \in SUBSET Labels, Add(m, labels)
        PROVE  TagInv'
    <2>1. rows[m] \in MemoryRows /\ rows[m].life + 1 \in 0 .. MaxLives
      BY <1>1, TagAssumption DEF Add, TagTypeOK, MemoryRows
    <2>2. rows' \in [Memories -> MemoryRows]
      BY <1>1, <2>1 DEF Add, TagTypeOK, MemoryRows, Tags, Statuses
    <2>3. UNCHANGED <<lock, writer, late, history>>
      BY <1>1 DEF Add
    <2>4. rows'[m].life = rows[m].life + 1
      BY <1>1 DEF Add, TagTypeOK
    <2>5. \A n \in Memories : n # m => rows'[n] = rows[n]
      BY <1>1 DEF Add, TagTypeOK
    <2>6. ASSUME NEW w \in Writers, At(w, "put")
          PROVE  /\ writer[w].life <= rows'[Mem(w)].life
                 /\ Mem(w) \in Punctual /\ rows'[Mem(w)].life = writer[w].life =>
                       writer[w].kept = rows'[Mem(w)].tags \ Drops(writer[w].add)
      <3>1. Mem(w) \in Memories /\ writer[w].life \in Nat /\ rows[m].life \in Nat
        BY <2>1, <2>6, TagAssumption DEF TagShape, At, TagTypeOK, WriterStates, MemoryRows
      <3>2. CASE Mem(w) = m
        BY <2>4, <2>6, <3>1, <3>2 DEF GetIsFresh
      <3>3. CASE Mem(w) # m
        BY <2>5, <2>6, <3>1, <3>3 DEF GetIsFresh
      <3>4. QED
        BY <3>2, <3>3
    <2>7. GetIsFresh'
      BY <2>3, <2>6 DEF GetIsFresh, At, Mem, Punctual
    <2>8. QED
      BY <2>2, <2>3, <2>7 DEF TagTypeOK, TagShape, LockHeld, LateIsExpected, At, Mem, Holding
  <1>2. ASSUME NEW m \in Memories, Delete(m)
        PROVE  TagInv'
    <2>1. rows' \in [Memories -> MemoryRows]
      BY <1>2 DEF Delete, TagTypeOK, MemoryRows
    <2>2. \A n \in Memories : rows'[n].life = rows[n].life /\ rows'[n].tags = rows[n].tags
      BY <1>2 DEF Delete, TagTypeOK, MemoryRows
    <2>3. UNCHANGED <<lock, writer, late, history>>
      BY <1>2 DEF Delete
    <2>4. GetIsFresh'
      BY <2>2, <2>3 DEF GetIsFresh, TagShape, At, Mem, Punctual
    <2>5. QED
      BY <2>1, <2>3, <2>4 DEF TagTypeOK, TagShape, LockHeld, LateIsExpected, At, Mem, Holding
  <1>3. ASSUME NEW p \in late, LatePut(p)
        PROVE  TagInv'
    <2>1. p \in Puts /\ p.mem \in LateMemories
      BY DEF TagTypeOK, LateIsExpected
    <2>2. rows' = Stored(p) /\ late' \subseteq late /\ UNCHANGED <<lock, writer, history>>
      BY <1>3 DEF LatePut
    <2>3. /\ rows' \in [Memories -> MemoryRows]
          /\ \A m \in Memories : rows'[m].life = rows[m].life
          /\ \A m \in Punctual : rows'[m] = rows[m]
      BY <2>1, <2>2, StoredRows DEF Punctual
    <2>4. GetIsFresh'
      BY <2>2, <2>3 DEF GetIsFresh, TagShape, At, Mem, Punctual
    <2>5. QED
      BY <2>2, <2>3, <2>4 DEF TagTypeOK, TagShape, LockHeld, LateIsExpected, At, Mem, Holding
  <1>4. QED
    BY <1>1, <1>2, <1>3

\* A request that may be left behind is one of a memory where that happens.
LEMMA LeftBehind ==
  ASSUME TagInv, NEW w \in Writers, At(w, "put"), LeavesBehind(w)
  PROVE  late' \subseteq Puts /\ LateIsExpected'
  <1>1. PutOf(w) \in Puts /\ PutOf(w).mem = Mem(w)
    BY PutOfType DEF TagInv
  <1>2. QED
    BY <1>1 DEF LeavesBehind, TagInv, TagTypeOK, LateIsExpected

\* A step of w that leaves everything in order, and no PUT to be sent, keeps
\* the invariant.
LEMMA Assembled ==
  ASSUME TagInv, NEW w \in Writers,
         lock' \in [Memories -> Writers \cup {None}],
         writer' \in [Writers -> WriterStates],
         TagShape', LockHeld', ~At(w, "put")',
         \A v \in Writers : v # w => writer'[v] = writer[v],
         rows' \in [Memories -> MemoryRows],
         \A m \in Memories : rows'[m].life = rows[m].life,
         \A m \in Memories : rows'[m].tags # rows[m].tags => lock[m] = w,
         late' \subseteq Puts, LateIsExpected',
         history' \subseteq Retired \X Memories \X (0 .. MaxLives)
  PROVE  TagInv'
  <1>1. GetIsFresh'
    BY StaysFresh
  <1>2. TagTypeOK'
    BY DEF TagTypeOK
  <1>3. QED
    BY <1>1, <1>2 DEF TagInv

\* As above, when the store is left alone.
LEMMA AssembledQuietly ==
  ASSUME TagInv, NEW w \in Writers,
         lock' \in [Memories -> Writers \cup {None}],
         writer' \in [Writers -> WriterStates],
         TagShape', LockHeld', ~At(w, "put")',
         \A v \in Writers : v # w => writer'[v] = writer[v],
         UNCHANGED <<rows, late, history>>
  PROVE  TagInv'
  <1>1. /\ rows' \in [Memories -> MemoryRows]
        /\ \A m \in Memories : rows'[m].life = rows[m].life
        /\ \A m \in Memories : rows'[m].tags = rows[m].tags
        /\ late' \subseteq Puts
        /\ history' \subseteq Retired \X Memories \X (0 .. MaxLives)
    BY DEF TagInv, TagTypeOK
  <1>2. LateIsExpected'
    BY DEF TagInv, LateIsExpected
  <1>3. QED
    BY <1>1, <1>2, Assembled

\* A transition is called.
LEMMA BeginStep ==
  ASSUME TagInv, NEW w \in Writers, NEW m \in Memories, NEW tag \in Retired \cup Labels,
         Begin(w, m, tag)
  PROVE  TagInv'
  <1> DEFINE s == [IdleWriter EXCEPT !.pc = "waiting", !.mem = m, !.add = tag]
  <1>1. IdleWriter \in WriterStates
    BY IdleType
  <1>2. s \in WriterStates /\ s.pc = "waiting" /\ s.mem = m /\ s.add = tag
    BY <1>1 DEF WriterStates, WriterStages
  <1>3. writer' = [writer EXCEPT ![w] = s] /\ UNCHANGED <<rows, lock, late, history>>
    BY DEF Begin
  <1>4. ~Holding(w)
    BY DEF Begin, Holding, At
  <1> HIDE DEF s
  <1>5. QED
    BY <1>2, <1>3, <1>4, Outside, AssembledQuietly

\* A waiting writer gets the lock nobody holds.
LEMMA AcquireStep ==
  ASSUME TagInv, NEW w \in Writers, Acquire(w)
  PROVE  TagInv'
  <1> DEFINE c == Called(w, "get")
             s == [c EXCEPT !.attempt = 1]
  <1>1. /\ c \in WriterStates /\ c.pc = "get" /\ c.mem = Mem(w) /\ c.add = writer[w].add
        /\ 1 \in 0 .. MaxAttempts
    BY CalledType, TagAssumption DEF TagInv, WriterStages
  <1>2. writer' = [writer EXCEPT ![w] = s]
    BY DEF Acquire
  <1> HIDE DEF c
  <1>3. s \in WriterStates /\ s.pc = "get" /\ s.mem = Mem(w) /\ s.add = writer[w].add
    BY <1>1 DEF WriterStates
  <1> HIDE DEF s
  <1>4. writer'[w] = s /\ \A v \in Writers : v # w => writer'[v] = writer[v]
    BY <1>2 DEF TagInv, TagTypeOK
  <1>5. Mem(w) \in Memories /\ writer[w].add \in Retired \cup Labels /\ ~Holding(w)
    BY DEF Acquire, TagInv, TagShape, At, Holding
  <1>6. lock[Mem(w)] = None /\ lock' = [lock EXCEPT ![Mem(w)] = w]
    BY DEF Acquire, LockFree
  <1>7. /\ lock' \in [Memories -> Writers \cup {None}]
        /\ writer' \in [Writers -> WriterStates]
    BY <1>3, <1>2, <1>5, <1>6 DEF TagInv, TagTypeOK
  <1>8. TagShape'
    BY <1>3, <1>4, <1>5 DEF TagInv, TagShape, At, Mem
  <1>9. ASSUME NEW v \in Writers, NEW m \in Memories
        PROVE  lock'[m] = v <=> Holding(v)' /\ Mem(v)' = m
    <2>1. lock[m] = v <=> Holding(v) /\ Mem(v) = m
      BY DEF TagInv, LockHeld
    <2>2. lock'[m] = IF m = Mem(w) THEN w ELSE lock[m]
      BY <1>6 DEF TagInv, TagTypeOK
    <2>3. CASE v = w
      <3>1. Holding(v)' /\ Mem(v)' = Mem(w)
        BY <1>3, <1>4, <2>3 DEF Holding, Mem
      <3>2. lock[m] # w
        BY <1>5, <2>1, <2>3
      <3>3. QED
        BY <2>2, <2>3, <3>1, <3>2
    <2>4. CASE v # w
      <3>1. (Holding(v)' <=> Holding(v)) /\ Mem(v)' = Mem(v)
        BY <1>4, <2>4 DEF Holding, Mem
      <3>2. m = Mem(w) => lock[m] # v
        BY <1>6, TagAssumption
      <3>3. QED
        BY <2>1, <2>2, <2>4, <3>1, <3>2
    <2>5. QED
      BY <2>3, <2>4
  <1>10. LockHeld'
    BY <1>9 DEF LockHeld
  <1>11. ~At(w, "put")' /\ UNCHANGED <<rows, late, history>>
    BY <1>3, <1>4 DEF At, Acquire
  <1>12. QED
    BY <1>4, <1>7, <1>8, <1>10, <1>11, AssembledQuietly

\* The GET: from here on, what was read stays fresh under the lock.
LEMMA GetStep ==
  ASSUME TagInv, NEW w \in Writers, Get(w)
  PROVE  TagInv'
  <1> DEFINE row == rows[Mem(w)]
             kept == row.tags \ Drops(writer[w].add)
             stamp == Stamp(w, writer[w].add, row)
             s == [writer[w] EXCEPT !.pc = "put", !.kept = kept,
                                    !.stamp = stamp, !.life = row.life]
  <1>1. /\ writer[w] \in WriterStates
        /\ Mem(w) \in Memories
        /\ At(w, "get")
        /\ Holding(w)
    BY DEF Get, TagInv, TagTypeOK, TagShape, At, Holding
  <1>2. row \in MemoryRows
    BY <1>1 DEF TagInv, TagTypeOK
  <1>3. kept \in SUBSET Tags /\ stamp \in Writers \cup {None} /\ row.life \in 0 .. MaxLives
    BY <1>2 DEF MemoryRows, Stamp
  <1>4. writer' = [writer EXCEPT ![w] = s] /\ UNCHANGED <<rows, lock, late, history>>
    BY DEF Get, TagInv, TagTypeOK
  <1> HIDE DEF kept, stamp
  <1>5. /\ s \in WriterStates
        /\ s.pc = "put" /\ s.mem = writer[w].mem /\ s.add = writer[w].add
        /\ s.kept = kept /\ s.life = row.life
    BY <1>1, <1>3 DEF WriterStates, WriterStages
  <1> HIDE DEF s
  <1>6. ~At(w, "idle")
    BY <1>1 DEF At
  <1>7. /\ lock' \in [Memories -> Writers \cup {None}]
        /\ writer' \in [Writers -> WriterStates]
        /\ TagShape' /\ LockHeld'
        /\ writer'[w] = s
        /\ \A v \in Writers : v # w => writer'[v] = writer[v]
    BY <1>1, <1>4, <1>5, <1>6, Moving
  <1>8. TagTypeOK' /\ LateIsExpected'
    BY <1>4, <1>7 DEF TagInv, TagTypeOK, LateIsExpected
  <1>9. ASSUME NEW v \in Writers, At(v, "put")'
        PROVE  /\ writer'[v].life <= rows'[Mem(v)'].life
               /\ Mem(v)' \in Punctual /\ rows'[Mem(v)'].life = writer'[v].life =>
                     writer'[v].kept = rows'[Mem(v)'].tags \ Drops(writer'[v].add)
    <2>1. CASE v = w
      <3>1. Mem(v)' = Mem(w) /\ writer'[v].life = row.life /\ writer'[v].kept = kept
        BY <1>5, <1>7, <2>1 DEF Mem
      <3>2. row.life <= row.life
        BY <1>3, TagAssumption
      <3>3. writer'[v].add = writer[w].add /\ rows' = rows
        BY <1>4, <1>5, <1>7, <2>1
      <3>4. QED
        BY <3>1, <3>2, <3>3 DEF kept
    <2>2. CASE v # w
      <3>1. writer'[v] = writer[v] /\ At(v, "put") /\ Mem(v)' = Mem(v) /\ rows' = rows
        BY <1>4, <1>7, <1>9, <2>2 DEF At, Mem
      <3>2. QED
        BY <3>1 DEF TagInv, GetIsFresh
    <2>3. QED
      BY <2>1, <2>2
  <1>10. GetIsFresh'
    BY <1>9 DEF GetIsFresh, Punctual
  <1>11. QED
    BY <1>7, <1>8, <1>10 DEF TagInv

\* The PUT is carried out while its sender waits.
LEMMA PutStep ==
  ASSUME TagInv, NEW w \in Writers, PutLands(w) \/ PutRaises(w)
  PROVE  TagInv'
  <1>1. At(w, "put") /\ Holding(w) /\ Mem(w) \in Memories /\ lock[Mem(w)] = w
    BY DEF PutLands, PutRaises, TagInv, TagShape, LockHeld, At, Holding
  <1>2. PutOf(w) \in Puts /\ PutOf(w).mem = Mem(w)
    BY <1>1, PutOfType DEF TagInv
  <1>3. late' \subseteq Puts /\ LateIsExpected'
    BY <1>1, LeftBehind DEF PutLands, PutRaises
  <1>4. rows' \in {rows, Stored(PutOf(w))}
    BY DEF PutLands, PutRaises
  <1>5. /\ rows' \in [Memories -> MemoryRows]
        /\ \A m \in Memories : rows'[m].life = rows[m].life
        /\ \A m \in Memories : rows'[m].tags # rows[m].tags => lock[m] = w
    BY <1>1, <1>2, <1>4, StoredRows DEF TagInv, TagTypeOK
  <1>6. history' \subseteq Retired \X Memories \X (0 .. MaxLives)
    BY DEF PutLands, PutRaises, TagInv, TagTypeOK
  <1>7. CASE PutRaises(w)
    <2>1. Leave(w)
      BY <1>7 DEF PutRaises
    <2>2. QED
      BY <1>3, <1>5, <1>6, <2>1, Leaving, Assembled
  <1>8. CASE PutLands(w)
    <2> DEFINE s == [writer[w] EXCEPT !.pc = "verify", !.stamp = None, !.life = 0]
    <2>1. writer[w] \in WriterStates
      BY DEF TagInv, TagTypeOK
    <2>2. /\ s \in WriterStates /\ s.pc = "verify"
          /\ s.mem = writer[w].mem /\ s.add = writer[w].add
      <3>1. 0 \in 0 .. MaxLives
        BY TagAssumption
      <3>2. QED
        BY <2>1, <3>1 DEF WriterStates, WriterStages
    <2>3. writer' = [writer EXCEPT ![w] = s] /\ UNCHANGED lock
      BY <1>8 DEF PutLands, TagInv, TagTypeOK
    <2>4. ~At(w, "idle")
      BY <1>1 DEF At
    <2> HIDE DEF s
    <2>5. /\ lock' \in [Memories -> Writers \cup {None}]
          /\ writer' \in [Writers -> WriterStates]
          /\ TagShape' /\ LockHeld'
          /\ writer'[w] = s
          /\ \A v \in Writers : v # w => writer'[v] = writer[v]
      BY <1>1, <2>2, <2>3, <2>4, Moving
    <2>6. ~At(w, "put")'
      BY <2>2, <2>5 DEF At
    <2>7. QED
      BY <1>3, <1>5, <1>6, <2>5, <2>6, Assembled
  <1>9. QED
    BY <1>7, <1>8

\* The transition is verified: the lock is given back before the record.
LEMMA VerifyStep ==
  ASSUME TagInv, NEW w \in Writers, Verify(w)
  PROVE  TagInv'
  <1> DEFINE c == Called(w, "recording")
             s == [c EXCEPT !.life = rows[Mem(w)].life]
  <1>1. Mem(w) \in Memories /\ writer[w].add \in Retired \cup Labels
    BY DEF Verify, TagInv, TagShape, At
  <1>2. rows[Mem(w)].life \in 0 .. MaxLives
    BY <1>1 DEF TagInv, TagTypeOK, MemoryRows
  <1>3. /\ c \in WriterStates /\ c.pc = "recording"
        /\ c.mem \in Memories /\ c.add \in Retired \cup Labels
    BY <1>1, CalledType DEF TagInv, WriterStages
  <1>4. /\ lock' = Released(w) /\ writer' = [writer EXCEPT ![w] = s]
        /\ UNCHANGED <<rows, late, history>>
    BY DEF Verify
  <1> HIDE DEF c
  <1>5. /\ s \in WriterStates /\ s.pc = "recording"
        /\ s.mem \in Memories /\ s.add \in Retired \cup Labels
    BY <1>2, <1>3 DEF WriterStates
  <1> HIDE DEF s
  <1>6. QED
    BY <1>4, <1>5, Releasing, AssembledQuietly

\* The history record is written outside of the lock.
LEMMA RecordStep ==
  ASSUME TagInv, NEW w \in Writers, Record(w)
  PROVE  TagInv'
  <1>1. /\ writer[w] \in WriterStates /\ ~Holding(w)
        /\ Mem(w) \in Memories
    BY DEF Record, TagInv, TagTypeOK, TagShape, At, Holding
  <1>2. writer' = [writer EXCEPT ![w] = IdleWriter] /\ UNCHANGED <<rows, lock, late>>
    BY DEF Record
  <1>3. writer[w].life \in 0 .. MaxLives
    BY <1>1 DEF WriterStates
  <1>4. history' \subseteq Retired \X Memories \X (0 .. MaxLives)
    BY <1>1, <1>3 DEF Record, TagInv, TagTypeOK
  <1>5. /\ rows' \in [Memories -> MemoryRows]
        /\ \A m \in Memories : rows'[m].life = rows[m].life
        /\ \A m \in Memories : rows'[m].tags = rows[m].tags
        /\ late' \subseteq Puts /\ LateIsExpected'
    BY <1>2 DEF TagInv, TagTypeOK, LateIsExpected
  <1>6. /\ lock' \in [Memories -> Writers \cup {None}]
        /\ writer' \in [Writers -> WriterStates]
        /\ TagShape' /\ LockHeld' /\ ~At(w, "put")'
        /\ \A v \in Writers : v # w => writer'[v] = writer[v]
    BY <1>1, <1>2, IdleType, Outside
  <1>7. QED
    BY <1>4, <1>5, <1>6, Assembled

\* A writer dies, maybe with a PUT under way.
LEMMA CrashStep ==
  ASSUME TagInv, NEW w \in Writers, Crash(w)
  PROVE  TagInv'
  <1>1. Leave(w) /\ UNCHANGED <<rows, history>>
    BY DEF Crash
  <1>2. late' \subseteq Puts /\ LateIsExpected'
    <2>1. CASE At(w, "put")
      BY <2>1, LeftBehind DEF Crash
    <2>2. CASE ~At(w, "put")
      BY <2>2 DEF Crash, TagInv, TagTypeOK, LateIsExpected
    <2>3. QED
      BY <2>1, <2>2
  <1>3. /\ rows' \in [Memories -> MemoryRows]
        /\ \A m \in Memories : rows'[m].life = rows[m].life
        /\ \A m \in Memories : rows'[m].tags = rows[m].tags
        /\ history' \subseteq Retired \X Memories \X (0 .. MaxLives)
    BY <1>1 DEF TagInv, TagTypeOK
  <1>4. QED
    BY <1>1, <1>2, <1>3, Leaving, Assembled

\* Every step of a writer on its way through a transition.
LEMMA WriterStep ==
  ASSUME TagInv, NEW w \in Writers, Step(w)
  PROVE  TagInv'
  <1>1. CASE Acquire(w)
    BY <1>1, AcquireStep
  <1>2. CASE TimesOut(w)
    <2>1. /\ ~Holding(w) /\ UNCHANGED <<rows, lock, late, history>>
          /\ writer' = [writer EXCEPT ![w] = IdleWriter]
      BY <1>2 DEF TimesOut, Holding, At
    <2>2. QED
      BY <2>1, IdleType, Outside, AssembledQuietly
  <1>3. CASE Get(w)
    BY <1>3, GetStep
  <1>4. CASE GetGone(w) \/ ReadRaises(w)
    <2>1. Leave(w) /\ UNCHANGED <<rows, late, history>>
      BY <1>4 DEF GetGone, ReadRaises
    <2>2. QED
      BY <2>1, Leaving, AssembledQuietly
  <1>5. CASE PutLands(w) \/ PutRaises(w)
    BY <1>5, PutStep
  <1>6. CASE PutRefused(w) \/ VerifyMismatch(w)
    <2>1. Holding(w) /\ Again(w) /\ UNCHANGED <<rows, late, history>>
      BY <1>6 DEF PutRefused, VerifyMismatch, Holding, At
    <2>2. QED
      BY <2>1, Retrying, AssembledQuietly
  <1>7. CASE Verify(w)
    BY <1>7, VerifyStep
  <1>8. CASE Record(w)
    BY <1>8, RecordStep
  <1>9. QED
    BY <1>1, <1>2, <1>3, <1>4, <1>5, <1>6, <1>7, <1>8 DEF Step, Locked

\* Every step keeps the invariant.
LEMMA TagStep == TagInv /\ [Next]_vars => TagInv'
  <1> SUFFICES ASSUME TagInv, [Next]_vars PROVE TagInv'
    OBVIOUS
  <1>1. CASE UNCHANGED vars
    BY <1>1 DEF vars, TagInv, TagTypeOK, TagShape, LockHeld, LateIsExpected, GetIsFresh,
                At, Mem, Holding
  <1>2. CASE \/ \E m \in Memories, labels \in SUBSET Labels : Add(m, labels)
             \/ \E m \in Memories : Delete(m)
             \/ \E p \in late : LatePut(p)
    BY <1>2, StoreStep
  <1>3. CASE \E w \in Writers, m \in Memories, tag \in Retired \cup Labels : Begin(w, m, tag)
    BY <1>3, BeginStep
  <1>4. CASE \E w \in Writers : Step(w)
    BY <1>4, WriterStep
  <1>5. CASE \E w \in Writers : Crash(w)
    BY <1>5, CrashStep
  <1>6. QED
    BY <1>1, <1>2, <1>3, <1>4, <1>5 DEF Next

-----------------------------------------------------------------------------
(* Theorems *)

\* The invariant holds in every reachable state.
THEOREM TagsCorrect == Spec => []TagInv
  BY TagInit, TagStep, PTL DEF Spec

\* Rows, locks, the transitions of _tag_transition and the history keep
\* their types.
THEOREM TagTypes == Spec => []TagTypeOK
  <1>1. TagInv => TagTypeOK
    BY DEF TagInv
  <1>2. QED
    BY <1>1, TagsCorrect, PTL

\* The read-modify-write of _tag_transition under tag_lock is atomic: any
\* number of writers, of attempts, of deletes, new writes, timeouts and
\* crashes, as long as no PUT of the memory arrives after its sender gave up.
THEOREM TransitionAtomicity == Spec => TransitionsAreAtomic
  <1> DEFINE Atomic(w) ==
        LET c == writer[w] IN
          /\ c.pc = "put" /\ c.mem \in Punctual
          /\ rows[c.mem].life = c.life
          /\ rows'[c.mem].tags # rows[c.mem].tags
          /\ writer'[w] # c
          => rows'[c.mem].tags = (rows[c.mem].tags \ Drops(c.add)) \cup {c.add}
  <1>1. TagInv /\ [Next]_vars => [\A w \in Writers : Atomic(w)]_vars
    <2> SUFFICES ASSUME TagInv, Next, NEW w \in Writers,
                        writer[w].pc = "put", writer[w].mem \in Punctual,
                        rows[writer[w].mem].life = writer[w].life,
                        rows'[writer[w].mem].tags # rows[writer[w].mem].tags,
                        writer'[w] # writer[w]
                 PROVE  rows'[writer[w].mem].tags =
                          (rows[writer[w].mem].tags \ Drops(writer[w].add)) \cup {writer[w].add}
      OBVIOUS
    <2>1. At(w, "put") /\ Mem(w) = writer[w].mem /\ Mem(w) \in Memories
      BY DEF At, Mem, Punctual
    <2>2. PutOf(w) \in Puts /\ PutOf(w).mem = Mem(w)
          /\ PutOf(w).tags = writer[w].kept \cup {writer[w].add}
      BY <2>1, PutOfType DEF TagInv
    <2>3. writer[w].kept = rows[Mem(w)].tags \ Drops(writer[w].add)
      BY <2>1 DEF TagInv, GetIsFresh
    <2>4. PutLands(w) \/ PutRaises(w)
      <3>1. PICK v \in Writers : PutLands(v) \/ PutRaises(v)
        BY DEF Next, Add, Delete, LatePut, Begin, Crash, Step, Locked, Acquire, TimesOut, Get,
               GetGone, PutRefused, Verify, VerifyMismatch, ReadRaises, Record
      <3>2. \E t : writer' = [writer EXCEPT ![v] = t]
        <4>1. CASE PutRaises(v)
          BY <4>1 DEF PutRaises, Leave
        <4>2. CASE PutLands(v)
          BY <4>2 DEF PutLands
        <4>3. QED
          BY <3>1, <4>1, <4>2
      <3>3. v = w
        BY <3>2 DEF TagInv, TagTypeOK
      <3>4. QED
        BY <3>1, <3>3
    <2>5. rows' \in {rows, Stored(PutOf(w))}
      BY <2>4 DEF PutLands, PutRaises
    <2>6. rows'[Mem(w)].tags = PutOf(w).tags
      BY <2>1, <2>2, <2>5, StoredRows DEF TagInv
    <2>7. QED
      BY <2>1, <2>2, <2>3, <2>6
  <1>2. QED
    BY <1>1, TagsCorrect, PTL DEF Spec, TransitionsAreAtomic

-----------------------------------------------------------------------------
(* What is retired stays hidden, and what is recorded stays true *)

\* A PUT under way whose row was deleted and written anew: nobody else has
\* retired the new row, since its lock is held.
StaleReader ==
    \A w \in Writers :
        At(w, "put") /\ Mem(w) \in Punctual /\ rows[Mem(w)].life # writer[w].life =>
            ~Excluded(rows[Mem(w)])

\* Where PUTs arrive late it is the status that hides a row, in its one life.
HiddenByStatus ==
    \A m \in LateMemories :
        /\ rows[m].live => rows[m].life = 1
        /\ rows[m].tags \cap Retired # {} => rows[m].status \in Retired

PutKnowsStatus ==
    \A w \in Writers : At(w, "put") /\ Mem(w) \in LateMemories =>
        /\ rows[Mem(w)].life = 1
        /\ writer[w].kept \cap Retired # {} => rows[Mem(w)].status \in Retired

LateKnowsStatus ==
    \A p \in late :
        /\ rows[p.mem].life = 1
        /\ p.tags \cap Retired # {} => p.status \in Retired \/ rows[p.mem].status \in Retired

\* What the history says, or a verified transition is about to tell it.
Told ==
    history \cup
      {<<writer[w].add, Mem(w), writer[w].life>> :
          w \in {v \in Writers : At(v, "recording") /\ writer[v].add \in Retired}}

ToldIsTrue ==
    \A rec \in Told :
        LET row == rows[rec[2]] IN
        /\ rec[3] <= row.life
        /\ row.live /\ row.life = rec[3] =>
             /\ Excluded(row)
             /\ rec[2] \in Punctual => rec[1] \in row.tags

RecordInv ==
    TagInv /\ StaleReader /\ HiddenByStatus /\ PutKnowsStatus /\ LateKnowsStatus /\ ToldIsTrue

\* A request left behind stays in the life of its memory: there is none, or a
\* content is stored once.
LateInOneLife == LateMemories = {} \/ MaxLives <= 1

\* The request of p changes the row of m: it was left behind, or its sender
\* waits for it and is done with it now.
Requested(p, m) ==
    /\ p \in Puts /\ p.mem = m
    /\ \/ p \in late
       \/ \E w \in Writers : At(w, "put") /\ Mem(w) = m /\ p = PutOf(w) /\ ~At(w, "put")'

\* What a step may do to a row.
LEMMA RowMoves ==
  ASSUME TagInv, Next, NEW m \in Memories
  PROVE  \/ rows'[m] = rows[m]
         \/ /\ ~rows[m].live /\ rows[m].life < MaxLives
            /\ rows'[m].life = rows[m].life + 1
            /\ rows'[m].tags \cap Retired = {} /\ rows'[m].status = "active"
         \/ /\ ~rows'[m].live /\ rows'[m].life = rows[m].life
            /\ rows'[m].tags = rows[m].tags /\ rows'[m].status = rows[m].status
         \/ \E p : Requested(p, m) /\ rows[m].live /\ rows'[m] = Replaced(rows[m], p)
  <1> USE DEF TagInv
  <1>0. rows \in [Memories -> MemoryRows]
    BY DEF TagTypeOK
  <1>1. CASE \E n \in Memories, labels \in SUBSET Labels : Add(n, labels)
    <2>1. PICK n \in Memories, labels \in SUBSET Labels : Add(n, labels)
      BY <1>1
    <2>2. rows'[n].life = rows[n].life + 1 /\ rows'[n].tags = {"active"} \cup labels
          /\ rows'[n].status = "active" /\ ~rows[n].live /\ rows[n].life < MaxLives
      BY <1>0, <2>1 DEF Add
    <2>3. ({"active"} \cup labels) \cap Retired = {}
      BY TagAssumption DEF Retired
    <2>4. n # m => rows'[m] = rows[m]
      BY <1>0, <2>1 DEF Add
    <2>5. QED
      BY <2>2, <2>3, <2>4
  <1>2. CASE \E n \in Memories : Delete(n)
    BY <1>0, <1>2 DEF Delete, MemoryRows
  <1>3. CASE \E p \in late : LatePut(p)
    <2>1. PICK p \in late : rows' = Stored(p)
      BY <1>3 DEF LatePut
    <2>2. p \in Puts
      BY DEF TagTypeOK
    <2>3. CASE p.mem = m /\ rows[m].live
      <3>1. rows'[m] = Replaced(rows[m], p)
        BY <1>0, <2>1, <2>3 DEF Stored
      <3>2. QED
        BY <2>2, <2>3, <3>1 DEF Requested
    <2>4. CASE ~(p.mem = m /\ rows[m].live)
      BY <1>0, <2>1, <2>4 DEF Stored
    <2>5. QED
      BY <2>3, <2>4
  <1>4. CASE \E w \in Writers : PutLands(w) \/ PutRaises(w)
    <2>1. PICK w \in Writers : PutLands(w) \/ PutRaises(w)
      BY <1>4
    <2>2. At(w, "put") /\ rows' \in {rows, Stored(PutOf(w))} /\ writer \in [Writers -> WriterStates]
      BY <2>1 DEF PutLands, PutRaises, TagTypeOK
    <2>3. PutOf(w) \in Puts /\ PutOf(w).mem = Mem(w)
      BY <2>2, PutOfType
    <2>4. ~At(w, "put")'
      <3>1. CASE PutLands(w)
        <4>1. writer' = [writer EXCEPT ![w].pc = "verify", ![w].stamp = None, ![w].life = 0]
          BY <3>1 DEF PutLands
        <4>2. writer'[w].pc = "verify"
          BY <2>2, <4>1 DEF WriterStates
        <4>3. QED
          BY <4>2 DEF At
      <3>2. CASE PutRaises(w)
        BY <2>2, <3>2 DEF PutRaises, Leave, At, IdleWriter
      <3>3. QED
        BY <2>1, <3>1, <3>2
    <2>5. CASE rows' = Stored(PutOf(w)) /\ Mem(w) = m /\ rows[m].live
      <3>1. rows'[m] = Replaced(rows[m], PutOf(w))
        BY <1>0, <2>3, <2>5 DEF Stored
      <3>2. QED
        BY <2>2, <2>3, <2>4, <2>5, <3>1 DEF Requested
    <2>6. CASE ~(rows' = Stored(PutOf(w)) /\ Mem(w) = m /\ rows[m].live)
      BY <1>0, <2>2, <2>3, <2>6 DEF Stored
    <2>7. QED
      BY <2>5, <2>6
  <1>5. CASE UNCHANGED rows
    BY <1>5
  <1>6. QED
    BY <1>1, <1>2, <1>3, <1>4, <1>5 DEF Next, Begin, Crash, Step, Locked, Acquire, TimesOut,
       Get, GetGone, PutRefused, Verify, VerifyMismatch, ReadRaises, Record

\* A transition reaches its PUT through a GET, and its record through a GET
\* that verifies.
LEMMA StageBegins ==
  ASSUME TagInv, Next, NEW w \in Writers
  PROVE  /\ At(w, "put")' => Get(w) \/ (At(w, "put") /\ writer'[w] = writer[w])
         /\ At(w, "recording")' => Verify(w) \/ (At(w, "recording") /\ writer'[w] = writer[w])
  <1> USE DEF TagInv
  <1>1. writer \in [Writers -> WriterStates]
    BY DEF TagTypeOK
  <1>2. CASE writer'[w] = writer[w]
    BY <1>2 DEF At
  <1>3. CASE writer'[w].pc \notin {"put", "recording"}
    BY <1>3 DEF At
  <1>4. CASE \E v \in Writers, m \in Memories, tag \in Retired \cup Labels : Begin(v, m, tag)
    BY <1>1, <1>2, <1>3, <1>4, IdleType DEF Begin, WriterStates
  <1>5. CASE \E v \in Writers : Crash(v)
    BY <1>1, <1>2, <1>3, <1>5, IdleType DEF Crash, Leave
  <1>6. ASSUME NEW v \in Writers, Step(v), ~Get(v), ~Verify(v), v = w
        PROVE  writer'[w].pc \notin {"put", "recording"}
    <2>1. CASE Acquire(v)
      <3>1. Called(w, "get") \in WriterStates /\ Called(w, "get").pc = "get"
        BY CalledType DEF WriterStages
      <3>2. writer' = [writer EXCEPT ![w] = [Called(w, "get") EXCEPT !.attempt = 1]]
        BY <1>6, <2>1 DEF Acquire
      <3>3. QED
        BY <1>1, <3>1, <3>2 DEF WriterStates
    <2>2. CASE TimesOut(v) \/ Record(v) \/ GetGone(v) \/ PutRaises(v) \/ ReadRaises(v)
      <3>1. writer' = [writer EXCEPT ![w] = IdleWriter]
        BY <1>6, <2>2 DEF TimesOut, Record, GetGone, PutRaises, ReadRaises, Leave
      <3>2. QED
        BY <1>1, <3>1, IdleType
    <2>3. CASE PutRefused(v) \/ VerifyMismatch(v)
      <3>1. Again(w)
        BY <1>6, <2>3 DEF PutRefused, VerifyMismatch
      <3>2. Called(w, "get") \in WriterStates /\ Called(w, "get").pc = "get"
        BY CalledType DEF WriterStages
      <3>3. CASE Leave(w)
        BY <1>1, <3>3, IdleType DEF Leave
      <3>4. CASE writer' = [writer EXCEPT ![w] =
                              [Called(w, "get") EXCEPT !.attempt = writer[w].attempt + 1]]
        BY <1>1, <3>2, <3>4 DEF WriterStates
      <3>5. QED
        BY <3>1, <3>3, <3>4 DEF Again
    <2>4. CASE PutLands(v)
      <3>1. writer' = [writer EXCEPT ![w].pc = "verify", ![w].stamp = None, ![w].life = 0]
        BY <1>6, <2>4 DEF PutLands
      <3>2. QED
        BY <1>1, <3>1 DEF WriterStates
    <2>5. QED
      BY <1>6, <2>1, <2>2, <2>3, <2>4 DEF Step, Locked
  <1>7. ASSUME NEW v \in Writers, Step(v), v # w
        PROVE  writer'[w] = writer[w]
    <2>1. CASE Again(v)
      BY <1>1, <1>7, <2>1 DEF Again, Leave
    <2>2. CASE Leave(v)
      BY <1>1, <1>7, <2>2 DEF Leave
    <2>3. CASE ~Again(v) /\ ~Leave(v)
      <3>1. \E s : writer' = [writer EXCEPT ![v] = s]
        BY <1>1, <1>7, <2>3 DEF Step, Locked, Acquire, TimesOut, Get, GetGone, PutLands, PutRaises,
           PutRefused, Verify, VerifyMismatch, ReadRaises, Record
      <3>2. QED
        BY <1>1, <1>7, <3>1
    <2>4. QED
      BY <2>1, <2>2, <2>3
  <1>8. CASE \E v \in Writers : Step(v)
    <2>1. PICK v \in Writers : Step(v)
      BY <1>8
    <2>2. CASE v = w /\ (Get(v) \/ Verify(v))
      <3>1. CASE Get(w)
        <4>1. writer'[w].pc = "put"
          BY <1>1, <3>1 DEF Get, WriterStates
        <4>2. QED
          BY <3>1, <4>1 DEF At
      <3>2. CASE Verify(w)
        <4>1. Called(w, "recording") \in WriterStates /\ Called(w, "recording").pc = "recording"
          BY CalledType DEF WriterStages
        <4>2. writer' = [writer EXCEPT ![w] =
                           [Called(w, "recording") EXCEPT !.life = rows[Mem(w)].life]]
          BY <3>2 DEF Verify
        <4>3. writer'[w].pc = "recording"
          BY <1>1, <4>1, <4>2 DEF WriterStates
        <4>4. QED
          BY <3>2, <4>3 DEF At
      <3>3. QED
        BY <2>2, <3>1, <3>2
    <2>3. QED
      BY <1>2, <1>3, <1>6, <1>7, <2>1, <2>2
  <1>9. CASE UNCHANGED writer
    BY <1>2, <1>9
  <1>10. QED
    BY <1>4, <1>5, <1>8, <1>9 DEF Next, Add, Delete, LatePut

\* A request that is left behind was under way, and no row moved life.
LEMMA LateGrows ==
  ASSUME TagInv, Next, NEW p \in late', p \notin late
  PROVE  \E w \in Writers : At(w, "put") /\ Mem(w) \in LateMemories /\ p = PutOf(w)
  <1> USE DEF LeavesBehind
  <1>1. CASE \E w \in Writers : Step(w)
    <2>1. PICK w \in Writers : Step(w)
      BY <1>1
    <2>2. PutLands(w) \/ PutRaises(w)
      BY <2>1 DEF Step, Locked, Acquire, TimesOut, Get, GetGone, PutRefused, Verify,
         VerifyMismatch, ReadRaises, Record
    <2>3. QED
      BY <2>2 DEF PutLands, PutRaises
  <1>2. CASE \E w \in Writers : Crash(w)
    BY <1>2 DEF Crash
  <1>3. QED
    BY <1>1, <1>2 DEF Next, Add, Delete, LatePut, Begin

\* The history grows by what a verified transition was about to tell.
LEMMA ToldGrows ==
  ASSUME TagInv, Next, NEW rec \in Told', rec \notin Told
  PROVE  \E w \in Writers : /\ Verify(w) /\ writer[w].add \in Retired
                            /\ rec = <<writer[w].add, Mem(w), rows[Mem(w)].life>>
  <1> USE DEF TagInv
  <1>1. writer \in [Writers -> WriterStates]
    BY DEF TagTypeOK
  <1>2. CASE rec \in history'
    <2>1. PICK w \in Writers : Record(w)
      BY <1>2 DEF Told, Next, Add, Delete, LatePut, Begin, Crash, Step, Locked, Acquire, TimesOut,
         Get, GetGone, PutLands, PutRaises, PutRefused, Verify, VerifyMismatch, ReadRaises
    <2>2. rec = <<writer[w].add, Mem(w), writer[w].life>> /\ writer[w].add \in Retired
          /\ At(w, "recording")
      BY <1>2, <2>1 DEF Told, Record
    <2>3. QED
      BY <2>2 DEF Told
  <1>3. CASE rec \notin history'
    <2>1. PICK w \in Writers : /\ At(w, "recording")' /\ writer'[w].add \in Retired
                               /\ rec = <<writer'[w].add, Mem(w)', writer'[w].life>>
      BY <1>3 DEF Told, At
    <2>2. CASE At(w, "recording") /\ writer'[w] = writer[w]
      BY <2>1, <2>2 DEF Told, Mem
    <2>3. CASE Verify(w)
      <3> DEFINE c == Called(w, "recording")
      <3>1. c \in WriterStates /\ c.pc = "recording" /\ c.mem = Mem(w) /\ c.add = writer[w].add
        BY CalledType DEF WriterStages
      <3>2. writer' = [writer EXCEPT ![w] = [c EXCEPT !.life = rows[Mem(w)].life]]
        BY <2>3 DEF Verify
      <3> HIDE DEF c
      <3>3. writer'[w].add = writer[w].add /\ Mem(w)' = Mem(w)
            /\ writer'[w].life = rows[Mem(w)].life
        BY <1>1, <3>1, <3>2 DEF WriterStates, Mem
      <3>4. QED
        BY <2>1, <2>3, <3>3
    <2>4. QED
      BY <2>1, <2>2, <2>3, StageBegins
  <1>4. QED
    BY <1>2, <1>3

\* What a request does to the marks of a row: the tags become its own, and
\* the status changes to a retired one only.
LEMMA RequestMarks ==
  ASSUME TagInv, NEW m \in Memories, NEW p \in Puts
  PROVE  LET row == Replaced(rows[m], p) IN
         /\ row.tags = p.tags /\ row.life = rows[m].life /\ row.live = rows[m].live
         /\ row.status = rows[m].status \/ row.status \in Retired
         /\ p.status \in Retired => row.status \in Retired
  <1>1. rows[m] \in MemoryRows /\ p.status \in Retired \cup {None}
    BY DEF TagInv, TagTypeOK, Puts
  <1>2. None \notin Retired
    BY TagAssumption DEF Retired
  <1>3. QED
    BY <1>1, <1>2 DEF Replaced, MemoryRows

\* Under the lock a request keeps the retired tags of the row, or finds a row
\* that was written anew and that nobody has retired.
LEMMA PunctualRequest ==
  ASSUME TagInv, StaleReader, Next, NEW m \in Punctual, NEW p, Requested(p, m)
  PROVE  rows[m].tags \cap Retired \subseteq p.tags \/ ~Excluded(rows[m])
  <1>1. p.mem = m /\ p \notin late
    BY DEF Requested, TagInv, LateIsExpected, Punctual
  <1>2. PICK w \in Writers : At(w, "put") /\ Mem(w) = m /\ p = PutOf(w)
    BY <1>1 DEF Requested
  <1>3. CASE rows[m].life # writer[w].life
    BY <1>2, <1>3 DEF StaleReader
  <1>4. CASE rows[m].life = writer[w].life
    <2>1. writer[w].kept = rows[m].tags \ Drops(writer[w].add)
      BY <1>2, <1>4 DEF TagInv, GetIsFresh
    <2>2. Drops(writer[w].add) \cap Retired = {}
      BY DEF Drops, Retired
    <2>3. p.tags = writer[w].kept \cup {writer[w].add}
      BY <1>2, PutOfType DEF TagInv
    <2>4. QED
      BY <2>1, <2>2, <2>3
  <1>5. QED
    BY <1>3, <1>4

\* A request that may be late says itself that a row is retired, or its
\* status says so.
LEMMA LateRequest ==
  ASSUME TagInv, PutKnowsStatus, LateKnowsStatus, NEW m \in LateMemories, NEW p, Requested(p, m)
  PROVE  /\ rows[m].life = 1
         /\ p.tags \cap Retired # {} => p.status \in Retired \/ rows[m].status \in Retired
  <1>1. CASE p \in late
    BY <1>1 DEF Requested, LateKnowsStatus
  <1>2. CASE p \notin late
    <2>1. PICK w \in Writers : At(w, "put") /\ Mem(w) = m /\ p = PutOf(w)
      BY <1>2 DEF Requested
    <2>2. p.tags = writer[w].kept \cup {writer[w].add} /\ p.status = StatusDelta(writer[w].add)
      BY <2>1, PutOfType DEF TagInv, PutOf
    <2>3. writer[w].add \in Retired => p.status \in Retired
      BY <2>2 DEF StatusDelta
    <2>4. QED
      BY <2>1, <2>2, <2>3 DEF PutKnowsStatus
  <1>3. QED
    BY <1>1, <1>2

\* A row that is hidden stays hidden, as long as it lives.
LEMMA HiddenStays ==
  ASSUME RecordInv, Next, NEW m \in Memories,
         rows'[m].live, rows'[m].life = rows[m].life, Excluded(rows[m])
  PROVE  Excluded(rows'[m])
  <1> USE DEF RecordInv
  <1>0. rows[m].life \in Nat
    BY TagAssumption DEF TagInv, TagTypeOK, MemoryRows
  <1>1. CASE rows'[m] = rows[m]
    BY <1>1
  <1>2. ASSUME NEW p, Requested(p, m), rows'[m] = Replaced(rows[m], p)
        PROVE  Excluded(rows'[m])
    <2>1. /\ rows'[m].tags = p.tags
          /\ rows'[m].status = rows[m].status \/ rows'[m].status \in Retired
      BY <1>2, RequestMarks DEF Requested
    <2>2. CASE m \in Punctual
      BY <1>2, <2>1, <2>2, PunctualRequest DEF Excluded
    <2>3. CASE m \in LateMemories
      BY <2>1, <2>3 DEF HiddenByStatus, Excluded
    <2>4. QED
      BY <2>2, <2>3 DEF Punctual
  <1>3. QED
    BY <1>0, <1>1, <1>2, RowMoves

\* Only under the lock is a row retired that is written anew meanwhile.
LEMMA StaleStep ==
  ASSUME RecordInv, Next
  PROVE  StaleReader'
  <1> USE DEF RecordInv
  <1> SUFFICES ASSUME NEW w \in Writers, At(w, "put")', Mem(w)' \in Punctual,
                      rows'[Mem(w)'].life # writer'[w].life
               PROVE  ~Excluded(rows'[Mem(w)'])
    BY DEF StaleReader, Punctual
  <1> DEFINE m == Mem(w)
  <1>1. CASE Get(w)
    <2>1. rows' = rows /\ writer' = [writer EXCEPT
             ![w].pc    = "put",
             ![w].kept  = rows[m].tags \ Drops(writer[w].add),
             ![w].stamp = Stamp(w, writer[w].add, rows[m]),
             ![w].life  = rows[m].life]
      BY <1>1 DEF Get
    <2>2. writer'[w].life = rows[m].life /\ writer'[w].mem = m
      BY <2>1 DEF TagInv, TagTypeOK, WriterStates, Mem
    <2>3. QED
      BY <2>1, <2>2 DEF Mem
  <1>2. CASE At(w, "put") /\ writer'[w] = writer[w]
    <2>1. Mem(w)' = m /\ m \in Punctual /\ m \in Memories /\ lock[m] = w
      BY <1>2 DEF Mem, Punctual, TagInv, LockHeld, Holding, At
    <2>2. CASE rows'[m] = rows[m]
      BY <1>2, <2>1, <2>2 DEF StaleReader
    <2>3. CASE rows'[m].tags \cap Retired = {} /\ rows'[m].status = "active"
      BY <2>1, <2>3 DEF Excluded, Retired
    <2>4. CASE rows'[m].life = rows[m].life /\ rows'[m].tags = rows[m].tags
               /\ rows'[m].status = rows[m].status
      BY <1>2, <2>1, <2>4 DEF StaleReader, Excluded
    <2>5. ~\E p : Requested(p, m)
      <3>1. \A p : Requested(p, m) => \E v \in Writers : lock[m] = v /\ ~At(v, "put")'
        BY <2>1 DEF Requested, TagInv, LateIsExpected, Punctual, LockHeld, Holding, At
      <3>2. QED
        BY <2>1, <3>1
    <2>6. QED
      BY <2>1, <2>2, <2>3, <2>4, <2>5, RowMoves
  <1>3. QED
    BY <1>1, <1>2, StageBegins

\* In its one life a row of a late memory begins with status active, and a
\* retired status is never taken back.
LEMMA LateRowMoves ==
  ASSUME RecordInv, Next, LateInOneLife, NEW m \in LateMemories
  PROVE  /\ rows'[m].live => rows'[m].life = 1
         /\ rows'[m].tags \cap Retired # {} => rows'[m].status \in Retired
         /\ rows[m].life = 1 =>
              /\ rows'[m].life = 1
              /\ rows[m].status \in Retired => rows'[m].status \in Retired
  <1> USE DEF RecordInv
  <1>1. m \in Memories /\ rows[m].life \in Nat /\ MaxLives <= 1 /\ MaxLives \in Nat
    BY TagAssumption DEF TagInv, TagTypeOK, MemoryRows, LateInOneLife
  <1>2. CASE rows'[m] = rows[m]
    BY <1>2 DEF HiddenByStatus
  <1>3. CASE /\ rows[m].life < MaxLives
             /\ rows'[m].life = rows[m].life + 1
             /\ rows'[m].tags \cap Retired = {} /\ rows'[m].status = "active"
    BY <1>1, <1>3
  <1>4. CASE /\ ~rows'[m].live /\ rows'[m].life = rows[m].life
             /\ rows'[m].tags = rows[m].tags /\ rows'[m].status = rows[m].status
    BY <1>4 DEF HiddenByStatus
  <1>5. ASSUME NEW p, Requested(p, m), rows'[m] = Replaced(rows[m], p)
        PROVE  /\ rows'[m].life = 1
               /\ rows'[m].tags \cap Retired # {} => rows'[m].status \in Retired
               /\ rows[m].status \in Retired => rows'[m].status \in Retired
    <2>1. /\ rows'[m].tags = p.tags /\ rows'[m].life = rows[m].life
          /\ rows'[m].status = rows[m].status \/ rows'[m].status \in Retired
          /\ p.status \in Retired => rows'[m].status \in Retired
      BY <1>1, <1>5, RequestMarks DEF Requested
    <2>2. QED
      BY <1>5, <2>1, LateRequest
  <1>6. QED
    BY <1>1, <1>2, <1>3, <1>4, <1>5, RowMoves

\* Requests keep to what they know of the status.
LEMMA StatusStep ==
  ASSUME RecordInv, Next, LateInOneLife
  PROVE  HiddenByStatus' /\ PutKnowsStatus' /\ LateKnowsStatus'
  <1> USE DEF RecordInv
  <1>1. HiddenByStatus'
    BY LateRowMoves DEF HiddenByStatus
  <1>2. ASSUME NEW w \in Writers, At(w, "put")', Mem(w)' \in LateMemories
        PROVE  /\ rows'[Mem(w)'].life = 1
               /\ writer'[w].kept \cap Retired # {} => rows'[Mem(w)'].status \in Retired
    <2> DEFINE m == Mem(w)
    <2>1. CASE Get(w)
      <3>1. rows' = rows /\ rows[m].live /\ writer' = [writer EXCEPT
               ![w].pc    = "put",
               ![w].kept  = rows[m].tags \ Drops(writer[w].add),
               ![w].stamp = Stamp(w, writer[w].add, rows[m]),
               ![w].life  = rows[m].life]
        BY <2>1 DEF Get
      <3>2. writer'[w].kept \subseteq rows[m].tags /\ Mem(w)' = m
        BY <3>1 DEF TagInv, TagTypeOK, WriterStates, Mem
      <3>3. QED
        BY <1>2, <3>1, <3>2 DEF HiddenByStatus
    <2>2. CASE At(w, "put") /\ writer'[w] = writer[w]
      <3>1. Mem(w)' = m /\ m \in LateMemories
        BY <1>2, <2>2 DEF Mem
      <3>2. QED
        BY <2>2, <3>1, LateRowMoves DEF PutKnowsStatus
    <2>3. QED
      BY <1>2, <2>1, <2>2, StageBegins
  <1>3. ASSUME NEW p \in late'
        PROVE  /\ rows'[p.mem].life = 1
               /\ p.tags \cap Retired # {} => p.status \in Retired \/ rows'[p.mem].status \in Retired
    <2>1. CASE p \in late
      <3>1. p.mem \in LateMemories
        BY <2>1 DEF TagInv, LateIsExpected
      <3>2. QED
        BY <2>1, <3>1, LateRowMoves DEF LateKnowsStatus
    <2>2. CASE p \notin late
      <3>1. PICK w \in Writers : At(w, "put") /\ Mem(w) \in LateMemories /\ p = PutOf(w)
        BY <1>3, <2>2, LateGrows
      <3>2. /\ p.mem = Mem(w) /\ p.tags = writer[w].kept \cup {writer[w].add}
            /\ p.status = StatusDelta(writer[w].add)
        BY <3>1, PutOfType DEF TagInv, PutOf
      <3>3. writer[w].add \in Retired => p.status \in Retired
        BY <3>2 DEF StatusDelta
      <3>4. QED
        BY <3>1, <3>2, <3>3, LateRowMoves DEF PutKnowsStatus
    <2>3. QED
      BY <2>1, <2>2
  <1>4. QED
    BY <1>1, <1>2, <1>3 DEF PutKnowsStatus, LateKnowsStatus

\* What is told is of a retired status, a memory and a life.
LEMMA ToldType ==
  ASSUME TagInv, NEW rec \in Told
  PROVE  rec[1] \in Retired /\ rec[2] \in Memories /\ rec[3] \in Nat
  <1>1. CASE rec \in history
    BY <1>1, TagAssumption DEF TagInv, TagTypeOK
  <1>2. CASE rec \notin history
    <2>1. PICK w \in Writers : /\ At(w, "recording") /\ writer[w].add \in Retired
                               /\ rec = <<writer[w].add, Mem(w), writer[w].life>>
      BY <1>2 DEF Told
    <2>2. Mem(w) \in Memories /\ writer[w].life \in Nat
      BY <2>1, TagAssumption DEF TagInv, TagTypeOK, TagShape, WriterStates, At
    <2>3. QED
      BY <2>1, <2>2
  <1>3. QED
    BY <1>1, <1>2

\* What is told becomes no less true, and is true when it is first told.
LEMMA ToldStep ==
  ASSUME RecordInv, Next
  PROVE  ToldIsTrue'
  <1> USE DEF RecordInv
  <1> DEFINE True(rec) ==
        /\ rec[3] <= rows'[rec[2]].life
        /\ rows'[rec[2]].live /\ rows'[rec[2]].life = rec[3] =>
             /\ Excluded(rows'[rec[2]])
             /\ rec[2] \in Punctual => rec[1] \in rows'[rec[2]].tags
  <1>1. ASSUME NEW rec \in Told
        PROVE  True(rec)
    <2> DEFINE m == rec[2]
    <2>1. rec[1] \in Retired /\ m \in Memories /\ rec[3] \in Nat /\ rows[m].life \in Nat
      BY ToldType, TagAssumption DEF TagInv, TagTypeOK, MemoryRows
    <2>2. /\ rec[3] <= rows[m].life
          /\ rows[m].live /\ rows[m].life = rec[3] =>
               /\ Excluded(rows[m])
               /\ m \in Punctual => rec[1] \in rows[m].tags
      BY DEF ToldIsTrue
    <2>3. CASE rows'[m] = rows[m]
      BY <2>2, <2>3
    <2>4. CASE rows'[m].life = rows[m].life + 1
      BY <2>1, <2>2, <2>4
    <2>5. CASE ~rows'[m].live /\ rows'[m].life = rows[m].life
      BY <2>2, <2>5
    <2>6. ASSUME NEW p, Requested(p, m), rows[m].live, rows'[m] = Replaced(rows[m], p)
          PROVE  True(rec)
      <3>1. rows'[m].tags = p.tags /\ rows'[m].life = rows[m].life /\ rows'[m].live
        BY <2>1, <2>6, RequestMarks DEF Requested
      <3>2. rec[3] <= rows'[m].life
        BY <2>2, <3>1
      <3>3. CASE rows[m].life = rec[3]
        <4>1. Excluded(rows'[m])
          BY <2>1, <2>2, <2>6, <3>1, <3>3, HiddenStays
        <4>2. m \in Punctual => rec[1] \in rows'[m].tags
          BY <2>1, <2>2, <2>6, <3>1, <3>3, PunctualRequest
        <4>3. QED
          BY <3>2, <4>1, <4>2
      <3>4. CASE rows[m].life # rec[3]
        BY <3>1, <3>2, <3>4
      <3>5. QED
        BY <3>3, <3>4
    <2>7. QED
      BY <2>1, <2>3, <2>4, <2>5, <2>6, RowMoves
  <1>2. ASSUME NEW w \in Writers, Verify(w), writer[w].add \in Retired
        PROVE  True(<<writer[w].add, Mem(w), rows[Mem(w)].life>>)
    <2>1. rows' = rows /\ writer[w].add \in rows[Mem(w)].tags /\ Mem(w) \in Memories
      BY <1>2 DEF Verify, Visible, TagInv, TagShape, At
    <2>2. rows[Mem(w)].life \in Nat
      BY <2>1, TagAssumption DEF TagInv, TagTypeOK, MemoryRows
    <2>3. Excluded(rows[Mem(w)])
      BY <1>2, <2>1 DEF Excluded
    <2>4. QED
      BY <2>1, <2>2, <2>3
  <1>3. \A rec \in Told' : True(rec)
    BY <1>1, <1>2, ToldGrows
  <1>4. QED
    BY <1>3 DEF ToldIsTrue, Punctual

\* Nothing is retired at the start, and every step keeps what is told true.
LEMMA RecordStarts == Init => RecordInv
  <1> SUFFICES ASSUME Init PROVE RecordInv
    OBVIOUS
  <1>1. TagInv /\ \A w \in Writers : writer[w].pc = "idle"
    BY TagInit DEF Init, IdleWriter
  <1>2. Told = {}
    BY <1>1 DEF Told, At, Init
  <1>3. \A m \in Memories : ~rows[m].live /\ rows[m].tags = {}
    BY DEF Init, NoRow
  <1>4. HiddenByStatus
    BY <1>3, TagAssumption DEF HiddenByStatus
  <1>5. late = {}
    BY DEF Init
  <1>6. QED
    BY <1>1, <1>2, <1>4, <1>5 DEF RecordInv, StaleReader, PutKnowsStatus, LateKnowsStatus, ToldIsTrue, At

LEMMA RecordKept ==
  ASSUME LateInOneLife
  PROVE  RecordInv /\ [Next]_vars => RecordInv'
  <1> SUFFICES ASSUME RecordInv, [Next]_vars PROVE RecordInv'
    OBVIOUS
  <1>1. CASE Next
    BY <1>1, TagStep, StaleStep, StatusStep, ToldStep DEF RecordInv
  <1>2. CASE UNCHANGED vars
    <2>1. TagInv'
      BY <1>2, TagStep DEF RecordInv
    <2>2. Told' = Told
      BY <1>2 DEF vars, Told, At, Mem
    <2>3. QED
      BY <1>2, <2>1, <2>2 DEF RecordInv, vars, StaleReader, HiddenByStatus, PutKnowsStatus,
         LateKnowsStatus, ToldIsTrue, At, Mem, Excluded, Punctual
  <1>3. QED
    BY <1>1, <1>2

\* While no request that was left behind outlives the row it was meant for,
\* a row once hidden from recall is hidden for the rest of its life: for any
\* number of writers, memories and attempts of _tag_transition.
THEOREM HiddenStaysHidden ==
  ASSUME LateInOneLife
  PROVE  Spec => RetiredStaysExcluded
  <1>1. RecordInv /\ [Next]_vars =>
          [\A m \in Memories :
             rows[m].live /\ rows'[m].live /\ Excluded(rows[m]) => Excluded(rows'[m])]_vars
    <2> SUFFICES ASSUME RecordInv, Next, NEW m \in Memories,
                        rows[m].live, rows'[m].live, Excluded(rows[m])
                 PROVE  Excluded(rows'[m])
      OBVIOUS
    <2>1. rows'[m].life = rows[m].life
      <3>1. \A p : Requested(p, m) => Replaced(rows[m], p).life = rows[m].life
        BY RequestMarks DEF Requested, RecordInv
      <3>2. QED
        BY <3>1, RowMoves DEF RecordInv
    <2>2. QED
      BY <2>1, HiddenStays
  <1>2. QED
    BY <1>1, RecordStarts, RecordKept, PTL DEF Spec, RetiredStaysExcluded

\* Under the same condition a history record of a transition is true of the
\* row it was verified on: of its tags where no PUT arrives late, and of
\* what recall hides everywhere.
THEOREM RecordsAreTrue ==
  ASSUME LateInOneLife
  PROVE  Spec => []RecordIsTrue
  <1>1. RecordInv => RecordIsTrue
    BY DEF RecordInv, ToldIsTrue, RecordIsTrue, Told
  <1>2. QED
    BY <1>1, RecordStarts, RecordKept, PTL DEF Spec

=============================================================================
