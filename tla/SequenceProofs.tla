---------------------------- MODULE SequenceProofs ----------------------------
(***************************************************************************)
(* The components whose state is a sequence: the rate limiter of the two   *)
(* doors and the hash-chained audit log.  What is to be shown of every     *)
(* position of a sequence needs an induction, which SetInduction gives: it *)
(* rests on the finite sets' theorems, since a finite set has no injection *)
(* into itself without one of its elements.                                *)
(***************************************************************************)
EXTENDS AuditChain, RequestDoor, StatsWalk, SequenceTheorems, FiniteSetTheorems, TLAPS

-----------------------------------------------------------------------------
(* Induction *)

\* A set that has 0, and with each number the next, has them all.
LEMMA SetInduction ==
  ASSUME NEW S, 0 \in S, \A n \in Nat : n \in S => n + 1 \in S
  PROVE  Nat \subseteq S
  <1> SUFFICES ASSUME NEW n \in Nat, n \notin S PROVE FALSE
    OBVIOUS
  <1> DEFINE A == S \cap (0 .. n)
             f == [i \in A |-> i + 1]
  <1>1. IsFiniteSet(A)
    <2>1. IsFiniteSet(0 .. n)
      BY FS_Interval
    <2>2. QED
      BY <2>1, FS_Subset
  <1>2. f \in Injection(A, A \ {0})
    <2>1. \A i \in A : i + 1 \in A \ {0}
      <3> SUFFICES ASSUME NEW i \in A PROVE i + 1 \in A \ {0}
        OBVIOUS
      <3>1. i \in Nat /\ i <= n /\ i # n
        OBVIOUS
      <3>2. QED
        BY <3>1
    <2>2. \A i, j \in A : i + 1 = j + 1 => i = j
      OBVIOUS
    <2>3. QED
      BY <2>1, <2>2 DEF Injection, IsInjective
  <1>3. IsFiniteSet(A \ {0}) /\ Cardinality(A \ {0}) = Cardinality(A) - 1
    <2>1. 0 \in A
      OBVIOUS
    <2>2. QED
      BY <1>1, <2>1, FS_RemoveElement
  <1>4. Cardinality(A) <= Cardinality(A \ {0})
    <2> HIDE DEF A, f
    <2>1. QED
      BY <1>2, <1>3, FS_Injection
  <1>5. Cardinality(A) \in Nat
    BY <1>1, FS_CardinalityType
  <1>6. QED
    BY <1>3, <1>4, <1>5

\* Without its i-th element, a sequence has the later ones one place earlier.
LEMMA RemovalShifts ==
  ASSUME NEW T, NEW rows \in Seq(T), NEW i \in 1 .. Len(rows)
  PROVE  /\ RemoveAt(rows, i) \in Seq(T)
         /\ Len(RemoveAt(rows, i)) = Len(rows) - 1
         /\ \A k \in 1 .. Len(rows) - 1 :
              RemoveAt(rows, i)[k] = rows[IF k < i THEN k ELSE k + 1]
  <1> DEFINE s == SubSeq(rows, 1, i - 1)
             t == SubSeq(rows, i + 1, Len(rows))
             n == Len(rows)
             left == RemoveAt(rows, i)
  <1>1. n \in Nat /\ i \in Nat /\ 1 <= i /\ i <= n
    OBVIOUS
  <1>2. s \in Seq(T) /\ Len(s) = i - 1 /\ \A k \in 1 .. i - 1 : s[k] = rows[k]
    BY <1>1
  <1>3. t \in Seq(T) /\ Len(t) = n - i /\ \A k \in 1 .. n - i : t[k] = rows[k + i]
    BY <1>1
  <1>4. left = s \o t
    BY DEF RemoveAt
  <1> HIDE DEF s, t, n, left
  <1>5. /\ left \in Seq(T) /\ Len(left) = n - 1
        /\ \A k \in 1 .. n - 1 : left[k] = IF k <= i - 1 THEN s[k] ELSE t[k - (i - 1)]
    <2>1. (i - 1) + (n - i) = n - 1
      BY <1>1
    <2>2. /\ s \o t \in Seq(T) /\ Len(s \o t) = Len(s) + Len(t)
          /\ \A k \in 1 .. Len(s) + Len(t) :
               (s \o t)[k] = IF k <= Len(s) THEN s[k] ELSE t[k - Len(s)]
      BY <1>2, <1>3, ConcatProperties
    <2>3. QED
      BY <1>2, <1>3, <1>4, <2>1, <2>2
  <1>6. ASSUME NEW k \in 1 .. n - 1
        PROVE  left[k] = rows[IF k < i THEN k ELSE k + 1]
    <2>1. CASE k < i
      BY <1>1, <1>2, <1>5, <2>1
    <2>2. CASE ~ (k < i)
      <3>1. k - (i - 1) \in 1 .. n - i /\ (k - (i - 1)) + i = k + 1 /\ ~ (k <= i - 1)
        BY <1>1, <2>2
      <3>2. left[k] = t[k - (i - 1)]
        BY <1>5, <3>1
      <3>3. QED
        BY <1>3, <2>2, <3>1, <3>2
    <2>3. QED
      BY <2>1, <2>2
  <1>7. QED
    BY <1>5, <1>6 DEF left, n

\* A set of the first positions is an interval that starts with the first,
\* and it has as many elements as its last position says.
LEMMA FirstPositions ==
  ASSUME NEW n \in Nat, NEW S, S \subseteq 1 .. n,
         \A i \in S : \A j \in 1 .. i : j \in S
  PROVE  /\ Cardinality(S) \in 0 .. n
         /\ S = 1 .. Cardinality(S)
  <1> DEFINE Reached == {k \in Nat : k <= n => 1 .. k \subseteq S}
  <1>1. CASE 1 .. n \subseteq S
    <2>1. S = 1 .. n
      BY <1>1
    <2>2. Cardinality(1 .. n) = n
      BY FS_Interval
    <2>3. QED
      BY <2>1, <2>2
  <1>2. CASE ~(1 .. n \subseteq S)
    <2>1. \E k \in Nat : k \in Reached /\ k + 1 \notin Reached
      <3>1. 0 \in Reached
        OBVIOUS
      <3>2. n \notin Reached
        BY <1>2
      <3> HIDE DEF Reached
      <3>3. QED
        BY <3>1, <3>2, SetInduction
    <2>2. PICK k \in Nat : k + 1 <= n /\ 1 .. k \subseteq S /\ ~(1 .. (k + 1) \subseteq S)
      BY <2>1
    <2>3. k + 1 \notin S
      <3>1. 1 .. (k + 1) = (1 .. k) \cup {k + 1}
        OBVIOUS
      <3>2. QED
        BY <2>2, <3>1
    <2>4. S = 1 .. k
      <3>1. ASSUME NEW i \in S PROVE i \in 1 .. k
        <4>1. i \in Nat /\ 1 <= i
          OBVIOUS
        <4>2. ~(k + 1 <= i)
          BY <2>3, <4>1
        <4>3. QED
          BY <4>1, <4>2
      <3>2. QED
        BY <2>2, <3>1
    <2>5. Cardinality(1 .. k) = k
      BY FS_Interval
    <2>6. QED
      BY <2>2, <2>4, <2>5
  <1>3. QED
    BY <1>1, <1>2

-----------------------------------------------------------------------------
(* RequestDoor: a window without more admissions than the limit *)

\* The bucket of a token is the end of its admissions; what fell out of it is
\* a minute old.
IsTail(bucket, times) ==
    LET gone == Len(times) - Len(bucket)
    IN /\ times \in Seq(Nat) /\ bucket \in Seq(Nat) /\ gone \in Nat
       /\ \A i \in 1 .. Len(bucket) : bucket[i] = times[gone + i]
       /\ \A i \in 1 .. gone : seconds - times[i] >= Minute

Spaced(times) ==
    \A i \in 1..(Len(times) - PerMinute) : times[i + PerMinute] - times[i] >= Minute

DoorInv ==
    /\ seconds \in Nat
    /\ buckets \in [Doors -> [Tokens -> Seq(Nat)]]
    /\ admitted \in [Doors -> [Tokens -> Seq(Nat)]]
    /\ \A d \in Doors, t \in Tokens : IsTail(buckets[d][t], admitted[d][t]) /\ Spaced(admitted[d][t])

\* Popping leaves the end of the bucket, and pops what is a minute old.
LEMMA WindowIsTail ==
  ASSUME NEW times \in Seq(Nat), seconds \in Nat
  PROVE  \E k \in 0 .. Len(times) :
           /\ LiveWindow(times) = SubSeq(times, k + 1, Len(times))
           /\ LiveWindow(times) \in Seq(Nat)
           /\ Len(LiveWindow(times)) = Len(times) - k
           /\ \A i \in 1 .. Len(times) - k : LiveWindow(times)[i] = times[k + i]
           /\ \A i \in 1 .. k : seconds - times[i] >= Minute
  <1> DEFINE S == Popped(Minute, times)
             k == Cardinality(S)
  <1>1. S \subseteq 1 .. Len(times) /\ \A i \in S : \A j \in 1 .. i : j \in S
    BY DEF Popped
  <1>2. Len(times) \in Nat
    OBVIOUS
  <1>3. k \in 0 .. Len(times) /\ S = 1 .. k
    <2> HIDE DEF S
    <2>1. QED
      BY <1>1, <1>2, FirstPositions
  <1>4. \A i \in 1 .. k : seconds - times[i] >= Minute
    BY <1>3 DEF Popped
  <1>5. LiveWindow(times) = SubSeq(times, k + 1, Len(times))
    BY DEF LiveWindow, WindowOf
  <1> HIDE DEF k
  <1>6. /\ SubSeq(times, k + 1, Len(times)) \in Seq(Nat)
        /\ Len(SubSeq(times, k + 1, Len(times))) = Len(times) - k
        /\ \A i \in 1 .. Len(times) - k : SubSeq(times, k + 1, Len(times))[i] = times[k + i]
    BY <1>2, <1>3
  <1>7. QED
    BY <1>3, <1>4, <1>5, <1>6

\* A bucket that is popped is still the end of the admissions.
LEMMA PoppedIsTail ==
  ASSUME seconds \in Nat, NEW bucket, NEW times, IsTail(bucket, times)
  PROVE  IsTail(LiveWindow(bucket), times)
  <1> DEFINE gone == Len(times) - Len(bucket)
             left == LiveWindow(bucket)
             out == Len(times) - Len(left)
  <1>1. /\ times \in Seq(Nat) /\ bucket \in Seq(Nat) /\ gone \in Nat
        /\ \A i \in 1 .. Len(bucket) : bucket[i] = times[gone + i]
        /\ \A i \in 1 .. gone : seconds - times[i] >= Minute
    BY DEF IsTail
  <1>2. PICK k \in 0 .. Len(bucket) :
           /\ left \in Seq(Nat)
           /\ Len(left) = Len(bucket) - k
           /\ \A i \in 1 .. Len(bucket) - k : left[i] = bucket[k + i]
           /\ \A i \in 1 .. k : seconds - bucket[i] >= Minute
    BY <1>1, WindowIsTail
  <1> HIDE DEF left
  <1>3. Len(bucket) \in Nat /\ Len(times) \in Nat /\ Len(left) \in Nat
    BY <1>1, <1>2
  <1>4. out = gone + k /\ out \in Nat /\ k \in Nat /\ k <= Len(bucket)
    BY <1>1, <1>2, <1>3
  <1> HIDE DEF gone, out
  <1>5. ASSUME NEW i \in 1 .. Len(left)
        PROVE  left[i] = times[out + i]
    <2>1. i \in Nat /\ left[i] = bucket[k + i] /\ k + i \in 1 .. Len(bucket)
      BY <1>2, <1>3, <1>4
    <2>2. bucket[k + i] = times[gone + (k + i)]
      BY <1>1, <2>1
    <2>3. gone + (k + i) = out + i
      BY <1>1, <1>4, <2>1
    <2>4. QED
      BY <2>1, <2>2, <2>3
  <1>6. ASSUME NEW i \in 1 .. out
        PROVE  seconds - times[i] >= Minute
    <2>1. CASE i <= gone
      <3>1. i \in 1 .. gone
        BY <1>1, <2>1
      <3>2. QED
        BY <1>1, <3>1
    <2>2. CASE ~(i <= gone)
      <3>1. i - gone \in 1 .. k /\ i - gone \in 1 .. Len(bucket) /\ gone + (i - gone) = i
        BY <1>1, <1>3, <1>4, <2>2
      <3>2. bucket[i - gone] = times[i]
        BY <1>1, <3>1
      <3>3. QED
        BY <1>2, <3>1, <3>2
    <2>3. QED
      BY <2>1, <2>2
  <1>7. QED
    BY <1>1, <1>2, <1>4, <1>5, <1>6 DEF IsTail, out, left

\* An admission that finds room enters its own time: the one it follows by
\* the limit has fallen out.
LEMMA EnteringKeeps ==
  ASSUME seconds \in Nat, NEW left, NEW times,
         IsTail(left, times), Spaced(times), Len(left) < PerMinute
  PROVE  IsTail(Append(left, seconds), Append(times, seconds)) /\ Spaced(Append(times, seconds))
  <1> DEFINE out == Len(times) - Len(left)
             now == Append(times, seconds)
             held == Append(left, seconds)
  <1>1. /\ times \in Seq(Nat) /\ left \in Seq(Nat) /\ out \in Nat
        /\ \A i \in 1 .. Len(left) : left[i] = times[out + i]
        /\ \A i \in 1 .. out : seconds - times[i] >= Minute
    BY DEF IsTail
  <1>2. Len(times) \in Nat /\ Len(left) \in Nat /\ PerMinute \in Nat \ {0}
    BY <1>1, DoorAssumption
  <1>3. Len(times) = out + Len(left) /\ out \in Nat
    BY <1>1, <1>2
  <1>4. now \in Seq(Nat) /\ held \in Seq(Nat)
    BY <1>1
  <1>5. Len(now) = Len(times) + 1 /\ Len(held) = Len(left) + 1
    BY <1>1
  <1>6. now[Len(times) + 1] = seconds /\ held[Len(left) + 1] = seconds
    BY <1>1
  <1>7. (\A i \in 1 .. Len(times) : now[i] = times[i]) /\ \A i \in 1 .. Len(left) : held[i] = left[i]
    BY <1>1
  <1> HIDE DEF now, held, out
  <1>8. Len(now) - Len(held) = out
    BY <1>2, <1>3, <1>5
  <1>9. ASSUME NEW i \in 1 .. Len(held)
        PROVE  held[i] = now[out + i]
    <2>1. CASE i <= Len(left)
      <3>1. i \in 1 .. Len(left) /\ out + i \in 1 .. Len(times)
        BY <1>2, <1>3, <2>1
      <3>2. QED
        BY <1>1, <1>7, <3>1
    <2>2. CASE ~(i <= Len(left))
      <3>1. i = Len(left) + 1
        BY <1>2, <1>5, <2>2
      <3>2. out + i = Len(times) + 1
        BY <1>2, <1>3, <3>1
      <3>3. QED
        BY <1>6, <3>1, <3>2
    <2>3. QED
      BY <2>1, <2>2
  <1>10. ASSUME NEW i \in 1 .. out
         PROVE  now[i] = times[i] /\ seconds - now[i] >= Minute
    <2>1. i \in 1 .. Len(times)
      BY <1>2, <1>3
    <2>2. QED
      BY <1>1, <1>7, <2>1
  <1>11. IsTail(held, now)
    BY <1>3, <1>4, <1>8, <1>9, <1>10 DEF IsTail
  <1>12. ASSUME NEW i \in 1 .. (Len(now) - PerMinute)
         PROVE  now[i + PerMinute] - now[i] >= Minute
    <2>1. CASE i + PerMinute = Len(times) + 1
      <3>1. i \in 1 .. out
        BY <1>2, <1>3, <2>1
      <3>2. QED
        BY <1>6, <1>10, <2>1, <3>1
    <2>2. CASE i + PerMinute # Len(times) + 1
      <3>1. i \in 1 .. (Len(times) - PerMinute) /\ i \in 1 .. Len(times)
            /\ i + PerMinute \in 1 .. Len(times)
        BY <1>2, <1>5, <2>2
      <3>2. QED
        BY <1>7, <3>1 DEF Spaced
    <2>3. QED
      BY <2>1, <2>2
  <1>13. QED
    BY <1>11, <1>12 DEF Spaced, now, held

\* No request has been made.
LEMMA NoTimesFit ==
  /\ NoTimes \in [Doors -> [Tokens -> Seq(Nat)]]
  /\ seconds \in Nat => \A d \in Doors, t \in Tokens : IsTail(NoTimes[d][t], NoTimes[d][t])
                                                        /\ Spaced(NoTimes[d][t])
  <1>1. <<>> \in Seq(Nat) /\ Len(<<>>) = 0
    OBVIOUS
  <1>2. seconds \in Nat => IsTail(<<>>, <<>>) /\ Spaced(<<>>)
    <2>1. 0 - 0 = 0 /\ 1 .. 0 = {} /\ 1 .. (0 - PerMinute) = {}
      BY DoorAssumption
    <2>2. QED
      BY <1>1, <2>1 DEF IsTail, Spaced
  <1>3. \A d \in Doors, t \in Tokens : NoTimes[d][t] = <<>>
    BY DEF NoTimes
  <1>4. NoTimes \in [Doors -> [Tokens -> Seq(Nat)]]
    BY <1>1 DEF NoTimes
  <1>5. QED
    BY <1>2, <1>3, <1>4

LEMMA DoorStarts == DoorInit => DoorInv
    <1> SUFFICES ASSUME DoorInit PROVE DoorInv
    OBVIOUS
  <1>1. buckets = NoTimes /\ admitted = NoTimes /\ seconds \in Nat
    BY DEF DoorInit
  <1>2. QED
    BY <1>1, NoTimesFit DEF DoorInv

\* A step changes the times of one token at one door.
LEMMA OneTokenMoves ==
  ASSUME DoorInv, NEW d \in Doors, NEW t \in Tokens, NEW held \in Seq(Nat), NEW now \in Seq(Nat),
         UNCHANGED seconds,
         buckets' = [buckets EXCEPT ![d][t] = held],
         admitted' = [admitted EXCEPT ![d][t] = now],
         IsTail(held, now), Spaced(now)
  PROVE  DoorInv'
  <1>1. /\ buckets' \in [Doors -> [Tokens -> Seq(Nat)]]
        /\ admitted' \in [Doors -> [Tokens -> Seq(Nat)]]
    BY DEF DoorInv
  <1>2. ASSUME NEW e \in Doors, NEW u \in Tokens
        PROVE  IsTail(buckets[e][u], admitted[e][u])' /\ Spaced(admitted[e][u])'
    <2>1. IsTail(buckets'[e][u], admitted'[e][u]) /\ Spaced(admitted'[e][u])
      <3>1. CASE e = d /\ u = t
        BY <3>1 DEF DoorInv
      <3>2. CASE ~(e = d /\ u = t)
        <4>1. buckets'[e][u] = buckets[e][u] /\ admitted'[e][u] = admitted[e][u]
          BY <3>2 DEF DoorInv
        <4>2. QED
          BY <4>1 DEF DoorInv
      <3>3. QED
        BY <3>1, <3>2
    <2>2. QED
      BY <2>1 DEF IsTail, Spaced
  <1>3. seconds' \in Nat
    BY DEF DoorInv
  <1>4. QED
    BY <1>1, <1>2, <1>3 DEF DoorInv

\* A request that is over budget leaves the bucket popped.
LEMMA OverBudgetKeeps ==
  ASSUME DoorInv, NEW q \in Asks, NEW d \in Doors, NEW t \in Tokens, NEW tool \in Tools,
         RefuseOverBudget(q, d, t, tool)
  PROVE  DoorInv'
  <1> DEFINE held == LiveWindow(buckets[d][t])
             now == admitted[d][t]
  <1>1. IsTail(held, now) /\ Spaced(now)
    BY PoppedIsTail DEF DoorInv
  <1>2. held \in Seq(Nat) /\ now \in Seq(Nat)
    BY <1>1 DEF IsTail
  <1>3. /\ buckets' = [buckets EXCEPT ![d][t] = held]
        /\ admitted' = [admitted EXCEPT ![d][t] = now]
        /\ UNCHANGED seconds
    BY DEF RefuseOverBudget, DoorInv
  <1> HIDE DEF held, now
  <1>4. QED
    BY <1>1, <1>2, <1>3, OneTokenMoves

\* An admitted request is entered in its bucket.
LEMMA SpendingKeeps ==
  ASSUME DoorInv, NEW d \in Doors, NEW t \in Tokens, HasBudget(d, t), SpendBudget(d, t),
         UNCHANGED seconds
  PROVE  DoorInv'
  <1> DEFINE left == LiveWindow(buckets[d][t])
             held == Append(left, seconds)
             now == Append(admitted[d][t], seconds)
  <1>1. IsTail(left, admitted[d][t]) /\ seconds \in Nat /\ Spaced(admitted[d][t])
    BY PoppedIsTail DEF DoorInv
  <1>2. IsTail(held, now) /\ Spaced(now)
    BY <1>1, EnteringKeeps DEF HasBudget
  <1>3. held \in Seq(Nat) /\ now \in Seq(Nat)
    BY <1>2 DEF IsTail
  <1>4. /\ buckets' = [buckets EXCEPT ![d][t] = held]
        /\ admitted' = [admitted EXCEPT ![d][t] = now]
    BY DEF SpendBudget
  <1> HIDE DEF held, now
  <1>5. QED
    BY <1>2, <1>3, <1>4, OneTokenMoves

\* Every step of the doors and of the executor.
LEMMA DoorMoves == DoorInv /\ [DoorNext]_doorVars => DoorInv'
  <1> SUFFICES ASSUME DoorInv, [DoorNext]_doorVars PROVE DoorInv'
    OBVIOUS
  <1>1. CASE UNCHANGED <<buckets, admitted, seconds>>
    BY <1>1 DEF DoorInv, IsTail, Spaced
  <1>2. CASE RestartProcess
    <2>1. buckets' = NoTimes /\ admitted' = NoTimes /\ seconds' = seconds
      BY <1>2 DEF RestartProcess
    <2>2. QED
      BY <2>1, NoTimesFit DEF DoorInv, IsTail, Spaced
  <1>3. CASE DoorTick
    <2>1. seconds' = seconds + 1 /\ UNCHANGED <<buckets, admitted>> /\ seconds \in Nat
      BY <1>3 DEF DoorTick, DoorInv
    <2>2. ASSUME NEW d \in Doors, NEW t \in Tokens
          PROVE  IsTail(buckets[d][t], admitted[d][t])'
      <3> DEFINE times == admitted[d][t]
                 bucket == buckets[d][t]
                 gone == Len(times) - Len(bucket)
      <3>1. IsTail(bucket, times)
        BY DEF DoorInv
      <3> HIDE DEF times, bucket
      <3>2. /\ times \in Seq(Nat) /\ bucket \in Seq(Nat) /\ gone \in Nat
            /\ \A i \in 1 .. Len(bucket) : bucket[i] = times[gone + i]
            /\ \A i \in 1 .. gone : seconds - times[i] >= Minute
        BY <3>1 DEF IsTail
      <3>3. Len(times) \in Nat /\ Len(bucket) \in Nat
        BY <3>2
      <3>4. ASSUME NEW i \in 1 .. gone
            PROVE  seconds' - times[i] >= Minute
        <4>1. i \in 1 .. Len(times)
          BY <3>2, <3>3
        <4>2. times[i] \in Nat /\ Minute \in Nat
          BY <3>2, <4>1, DoorAssumption
        <4>3. seconds - times[i] >= Minute
          BY <3>2
        <4>4. QED
          BY <2>1, <4>2, <4>3
      <3>5. IsTail(bucket, times)'
        BY <2>1, <3>2, <3>4 DEF IsTail, times, bucket
      <3>6. QED
        BY <3>5 DEF times, bucket
    <2>3. QED
      BY <2>1, <2>2 DEF DoorInv, Spaced
  <1>4. CASE \E q \in Asks, d \in Doors, t \in Tokens, tool \in Tools :
               RefuseOverBudget(q, d, t, tool)
    BY <1>4, OverBudgetKeeps
  <1>5. CASE \E q \in Asks, t \in Tokens, tool \in Tools :
               ServeRest(q, t, tool) \/ DispatchTool(q, t, tool)
    <2>1. PICK d \in Doors, t \in Tokens : HasBudget(d, t) /\ SpendBudget(d, t) /\ UNCHANGED seconds
      BY <1>5 DEF ServeRest, DispatchTool, Doors
    <2>2. QED
      BY <2>1, SpendingKeeps
  <1>6. QED
    BY <1>1, <1>2, <1>3, <1>4, <1>5 DEF DoorNext, doorVars, Boot, RefuseAtDoor, TurnAway,
       StartThread, SearchTimesOut, ThreadReturns

\* RateLimiter.allow lets no more than requests_per_minute of a token's
\* requests through in any minute, at each door, between two starts of the
\* process: for every limit and any number of tokens.
THEOREM LimiterKeepsTheRate == DoorSpec => []RateWindowHolds
  <1>1. DoorInv => RateWindowHolds
    BY DEF DoorInv, Spaced, RateWindowHolds
  <1>2. QED
    BY <1>1, DoorStarts, DoorMoves, PTL DEF DoorSpec

-----------------------------------------------------------------------------
(* AuditChain: an accepted receipt vouches for what was said up to its row *)

Statements == Nat \X Bodies
ChainRows == [seq : Nat, body : Bodies, prev : Seq(Statements), this : Seq(Statements)]
AppendRecords == [at : {"idle", "begun", "committed"}, seq : Nat, prev : Seq(Statements)]

\* What a row says.
Saying(row) == <<row.seq, row.body>>

Ordered(rows) == \A i, j \in 1 .. Len(rows) : i < j => rows[i].seq < rows[j].seq

\* Numbered from 1, with the hash of each row over everything said so far.
Intact(rows) ==
    \A i \in 1 .. Len(rows) : rows[i].seq = i /\ rows[i].this = Said(SubSeq(rows, 1, i))

ChainShape ==
    /\ log \in Seq(ChainRows) /\ Ordered(log)
    /\ writers \in [Writers -> AppendRecords]
    /\ damages \in Nat

\* The writer in a transaction holds the lock, and continues the log.
AppendFits ==
    \A w \in Writers : writers[w].at = "begun" =>
        /\ writeLock = w
        /\ writers[w].seq = TailSeq(log) + 1 /\ writers[w].prev = TailHash(log)

ReceiptIsTold == \A r \in receipts : r.seq \in Nat /\ (r.sound => r.this = r.told)

VerdictStands ==
    \A r \in verdicts :
        /\ r.seq \in Nat /\ \E i \in 1 .. Len(log) : log[i].seq = r.seq
        /\ r.sound => Said(RowsThrough(r.seq)) = r.told

ChainInv ==
    /\ ChainShape /\ (damages = 0 => Intact(log))
    /\ AppendFits /\ ReceiptIsTold /\ VerdictStands

\* What a prefix says, and what one more row adds.
LEMMA SaidGrows ==
  ASSUME NEW rows \in Seq(ChainRows), NEW i \in 0 .. Len(rows) - 1
  PROVE  /\ Said(SubSeq(rows, 1, i)) \in Seq(Statements)
         /\ Said(SubSeq(rows, 1, i + 1)) = Append(Said(SubSeq(rows, 1, i)), Saying(rows[i + 1]))
  <1>1. Len(rows) \in Nat /\ i \in Nat /\ i + 1 <= Len(rows)
    OBVIOUS
  <1>2. ASSUME NEW k \in Nat, k <= Len(rows)
        PROVE  /\ Said(SubSeq(rows, 1, k)) = [j \in 1 .. k |-> Saying(rows[j])]
               /\ [j \in 1 .. k |-> Saying(rows[j])] \in Seq(Statements)
    <2>1. /\ SubSeq(rows, 1, k) \in Seq(ChainRows) /\ DOMAIN SubSeq(rows, 1, k) = 1 .. k
          /\ \A j \in 1 .. k : SubSeq(rows, 1, k)[j] = rows[j]
      BY <1>1, <1>2
    <2>2. Said(SubSeq(rows, 1, k)) = [j \in 1 .. k |-> Saying(rows[j])]
      BY <2>1 DEF Said, Saying
    <2>3. \A j \in 1 .. k : Saying(rows[j]) \in Statements
      <3> SUFFICES ASSUME NEW j \in 1 .. k PROVE Saying(rows[j]) \in Statements
        OBVIOUS
      <3>1. rows[j] \in ChainRows
        BY <1>1, <1>2
      <3>2. QED
        BY <3>1 DEF ChainRows, Saying, Statements
    <2>4. [j \in 1 .. k |-> Saying(rows[j])] \in Seq(Statements)
      BY <1>2, <2>3, SMTT(30)
    <2>5. QED
      BY <2>2, <2>4
  <1> DEFINE s == [j \in 1 .. i |-> Saying(rows[j])]
             t == [j \in 1 .. i + 1 |-> Saying(rows[j])]
  <1>3. /\ Said(SubSeq(rows, 1, i)) = s /\ s \in Seq(Statements)
        /\ Said(SubSeq(rows, 1, i + 1)) = t /\ t \in Seq(Statements)
    BY <1>1, <1>2
  <1>4. Len(s) = i /\ Len(t) = i + 1
    BY <1>1, <1>3
  <1>5. \A j \in 1 .. i : t[j] = s[j]
    BY <1>1
  <1>6. t[i + 1] = Saying(rows[i + 1])
    BY <1>1
  <1>7. Saying(rows[i + 1]) \in Statements
    <2>1. rows[i + 1] \in ChainRows
      BY <1>1
    <2>2. QED
      BY <2>1 DEF ChainRows, Saying, Statements
  <1> HIDE DEF s, t
  <1>8. t = Append(s, Saying(rows[i + 1]))
    BY <1>1, <1>3, <1>4, <1>5, <1>6, <1>7
  <1>9. QED
    BY <1>3, <1>8

\* RowsThrough of any sequence of rows.
Through(rows, seq) == SubSeq(rows, 1, Cardinality({i \in DOMAIN rows : rows[i].seq =< seq}))

LEMMA RowsAreRows ==
  ASSUME NEW rows \in Seq(ChainRows), NEW k \in 1 .. Len(rows)
  PROVE  /\ rows[k] \in ChainRows
         /\ rows[k].seq \in Nat /\ rows[k].body \in Bodies
         /\ rows[k].prev \in Seq(Statements) /\ rows[k].this \in Seq(Statements)
  <1>1. rows[k] \in ChainRows
    OBVIOUS
  <1>2. QED
    BY <1>1 DEF ChainRows

\* The rows up to one of the rows.
LEMMA ThroughIsPrefix ==
  ASSUME NEW rows \in Seq(ChainRows), Ordered(rows), NEW i \in 1 .. Len(rows)
  PROVE  Through(rows, rows[i].seq) = SubSeq(rows, 1, i)
  <1> DEFINE S == {k \in DOMAIN rows : rows[k].seq =< rows[i].seq}
  <1>1. \A k \in 1 .. Len(rows) : rows[k].seq \in Nat
    BY RowsAreRows
  <1>2. S = 1 .. i
    <2>1. ASSUME NEW k \in 1 .. Len(rows)
          PROVE  rows[k].seq =< rows[i].seq <=> k <= i
      BY <1>1 DEF Ordered
    <2>2. DOMAIN rows = 1 .. Len(rows) /\ Len(rows) \in Nat
      OBVIOUS
    <2>3. QED
      BY <2>1, <2>2
  <1>3. Cardinality(1 .. i) = i
    BY FS_Interval
  <1>4. QED
    BY <1>2, <1>3 DEF Through

\* The rows up to any number are a first part.
LEMMA ThroughIsPart ==
  ASSUME NEW rows \in Seq(ChainRows), Ordered(rows), NEW seq \in Nat
  PROVE  \E k \in 0 .. Len(rows) : Through(rows, seq) = SubSeq(rows, 1, k)
  <1> DEFINE S == {k \in DOMAIN rows : rows[k].seq =< seq}
  <1>1. \A k \in 1 .. Len(rows) : rows[k].seq \in Nat
    BY RowsAreRows
  <1>2. S \subseteq 1 .. Len(rows) /\ Len(rows) \in Nat
    OBVIOUS
  <1>3. \A i \in S : \A j \in 1 .. i : j \in S
    <2> SUFFICES ASSUME NEW i \in S, NEW j \in 1 .. i PROVE j \in S
      OBVIOUS
    <2>1. j \in 1 .. Len(rows) /\ i \in 1 .. Len(rows) /\ (j = i \/ j < i)
      BY <1>2
    <2>2. rows[j].seq <= rows[i].seq
      BY <1>1, <2>1 DEF Ordered
    <2>3. QED
      BY <1>1, <2>1, <2>2
  <1>4. Cardinality(S) \in 0 .. Len(rows)
    <2> HIDE DEF S
    <2>1. QED
      BY <1>2, <1>3, FirstPositions
  <1>5. QED
    BY <1>4 DEF Through

\* Rows that verify are hashed over everything they say.
LEMMA VerifiedIsSaid ==
  ASSUME NEW rows \in Seq(ChainRows), VerifyRows(rows), NEW i \in 1 .. Len(rows)
  PROVE  rows[i].this = Said(SubSeq(rows, 1, i))
  <1> DEFINE S == {n \in Nat : n + 1 <= Len(rows) => rows[n + 1].this = Said(SubSeq(rows, 1, n + 1))}
  <1>1. Len(rows) \in Nat
    OBVIOUS
  <1>2. \A k \in 1 .. Len(rows) :
           rows[k].this = Append(TailHash(SubSeq(rows, 1, k - 1)), Saying(rows[k]))
    BY DEF VerifyRows, RowHash, Saying
  <1>3. 0 \in S
    <2> SUFFICES ASSUME 0 + 1 <= Len(rows) PROVE rows[0 + 1].this = Said(SubSeq(rows, 1, 0 + 1))
      OBVIOUS
    <2>1. SubSeq(rows, 1, 0) = <<>>
      BY <1>1
    <2>2. TailHash(SubSeq(rows, 1, 0)) = <<>> /\ Said(SubSeq(rows, 1, 0)) = <<>>
      BY <2>1 DEF TailHash, ZeroHash, Said
    <2>3. rows[1].this = Append(TailHash(SubSeq(rows, 1, 1 - 1)), Saying(rows[1]))
      BY <1>1, <1>2
    <2>4. Said(SubSeq(rows, 1, 0 + 1)) = Append(Said(SubSeq(rows, 1, 0)), Saying(rows[0 + 1]))
      BY <1>1, SaidGrows
    <2>5. QED
      BY <2>2, <2>3, <2>4
  <1>4. ASSUME NEW n \in Nat, n \in S
        PROVE  n + 1 \in S
    <2> SUFFICES ASSUME (n + 1) + 1 <= Len(rows)
                 PROVE  rows[(n + 1) + 1].this = Said(SubSeq(rows, 1, (n + 1) + 1))
      OBVIOUS
    <2>1. rows[n + 1].this = Said(SubSeq(rows, 1, n + 1))
      BY <1>1, <1>4
    <2>2. /\ SubSeq(rows, 1, n + 1) # <<>> /\ Len(SubSeq(rows, 1, n + 1)) = n + 1
          /\ SubSeq(rows, 1, n + 1)[n + 1] = rows[n + 1]
      BY <1>1
    <2>3. TailHash(SubSeq(rows, 1, n + 1)) = rows[n + 1].this
      BY <2>2 DEF TailHash, Last
    <2>4. rows[(n + 1) + 1].this = Append(TailHash(SubSeq(rows, 1, n + 1)), Saying(rows[(n + 1) + 1]))
      <3>1. (n + 1) + 1 \in 1 .. Len(rows) /\ ((n + 1) + 1) - 1 = n + 1
        BY <1>1
      <3>2. QED
        BY <1>2, <3>1
    <2>5. Said(SubSeq(rows, 1, (n + 1) + 1)) =
            Append(Said(SubSeq(rows, 1, n + 1)), Saying(rows[(n + 1) + 1]))
      BY <1>1, SaidGrows
    <2>6. QED
      BY <2>1, <2>3, <2>4, <2>5
  <1>5. i - 1 \in S
    <2> HIDE DEF S
    <2>1. i - 1 \in Nat
      BY <1>1
    <2>2. QED
      BY <1>3, <1>4, <2>1, SetInduction
  <1>6. QED
    BY <1>1, <1>5

-----------------------------------------------------------------------------
LEMMA ChainStarts == ChainInit => ChainInv
  <1> SUFFICES ASSUME ChainInit PROVE ChainInv
    OBVIOUS
  <1>1. ChainShape
    <2>1. IdleWriter \in AppendRecords
      BY DEF IdleWriter, AppendRecords, ZeroHash
    <2>2. QED
      BY <2>1 DEF ChainInit, ChainShape, Ordered
  <1>2. Intact(log)
    BY DEF ChainInit, Intact
  <1>3. AppendFits /\ ReceiptIsTold /\ VerdictStands
    BY DEF ChainInit, AppendFits, ReceiptIsTold, VerdictStands, IdleWriter
  <1>4. QED
    BY <1>1, <1>2, <1>3 DEF ChainInv

\* The tail that BEGIN IMMEDIATE reads.
LEMMA TailsFit ==
  ASSUME NEW rows \in Seq(ChainRows)
  PROVE  TailSeq(rows) \in Nat /\ TailHash(rows) \in Seq(Statements)
  <1>1. CASE rows = <<>>
    BY <1>1 DEF TailSeq, TailHash, ZeroHash
  <1>2. CASE rows # <<>>
    <2>1. Len(rows) \in 1 .. Len(rows)
      BY <1>2
    <2>2. QED
      BY <1>2, <2>1, RowsAreRows DEF TailSeq, TailHash, Last
  <1>3. QED
    BY <1>1, <1>2

\* One writer moves, and the log stays.
LEMMA WriterMoves ==
  ASSUME ChainInv, NEW w \in Writers, NEW record \in AppendRecords,
         writers' = [writers EXCEPT ![w] = record],
         UNCHANGED <<log, receipts, verdicts, damages>>,
         AppendFits'
  PROVE  ChainInv'
  <1>1. ChainShape'
    BY DEF ChainInv, ChainShape
  <1>2. ReceiptIsTold'
    BY DEF ChainInv, ReceiptIsTold
  <1>3. VerdictStands'
    BY DEF ChainInv, VerdictStands, RowsThrough
  <1>4. QED
    BY <1>1, <1>2, <1>3 DEF ChainInv

LEMMA BeginKeeps ==
  ASSUME ChainInv, NEW w \in Writers, BeginAppend(w)
  PROVE  ChainInv'
  <1> DEFINE record == [at |-> "begun", seq |-> TailSeq(log) + 1, prev |-> TailHash(log)]
  <1>1. writers \in [Writers -> AppendRecords] /\ log \in Seq(ChainRows)
    BY DEF ChainInv, ChainShape
  <1>2. record \in AppendRecords
    BY <1>1, TailsFit DEF AppendRecords
  <1>3. \A v \in Writers : writers[v].at # "begun"
    BY ChainAssumption DEF ChainInv, AppendFits, BeginAppend
  <1>4. AppendFits'
    <2> SUFFICES ASSUME NEW v \in Writers, writers'[v].at = "begun"
                 PROVE  /\ writeLock' = v
                        /\ writers'[v].seq = TailSeq(log') + 1
                        /\ writers'[v].prev = TailHash(log')
      BY DEF AppendFits, TailSeq, TailHash
    <2>1. v = w
      BY <1>1, <1>3 DEF BeginAppend
    <2>2. QED
      BY <1>1, <2>1 DEF BeginAppend
  <1>5. QED
    BY <1>2, <1>4, WriterMoves DEF BeginAppend

LEMMA RollBackKeeps ==
  ASSUME ChainInv, NEW w \in Writers, RollBackAppend(w)
  PROVE  ChainInv'
  <1>1. writers \in [Writers -> AppendRecords]
    BY DEF ChainInv, ChainShape
  <1>2. IdleWriter \in AppendRecords
    BY DEF IdleWriter, AppendRecords, ZeroHash
  <1>3. writeLock = w
    BY DEF ChainInv, AppendFits, RollBackAppend
  <1>4. AppendFits'
    <2> SUFFICES ASSUME NEW v \in Writers, writers'[v].at = "begun" PROVE FALSE
      BY DEF AppendFits
    <2>1. v # w /\ writers[v].at = "begun"
      BY <1>1 DEF RollBackAppend, IdleWriter
    <2>2. QED
      BY <1>3, <2>1 DEF ChainInv, AppendFits
  <1>5. QED
    BY <1>2, <1>4, WriterMoves DEF RollBackAppend

-----------------------------------------------------------------------------
\* One more row: the rows before it are where they were.
LEMMA LogGrows ==
  ASSUME NEW rows \in Seq(ChainRows), NEW row \in ChainRows
  PROVE  /\ Append(rows, row) \in Seq(ChainRows)
         /\ Len(Append(rows, row)) = Len(rows) + 1
         /\ Append(rows, row)[Len(rows) + 1] = row
         /\ \A i \in 1 .. Len(rows) :
              Append(rows, row)[i] = rows[i] /\ SubSeq(Append(rows, row), 1, i) = SubSeq(rows, 1, i)
  <1>1. /\ Append(rows, row) \in Seq(ChainRows)
        /\ Len(Append(rows, row)) = Len(rows) + 1
        /\ Append(rows, row)[Len(rows) + 1] = row
        /\ \A i \in 1 .. Len(rows) : Append(rows, row)[i] = rows[i]
    BY AppendProperties
  <1>2. ASSUME NEW i \in 1 .. Len(rows)
        PROVE  SubSeq(Append(rows, row), 1, i) = SubSeq(rows, 1, i)
    <2>1. Len(rows) \in Nat
      OBVIOUS
    <2> DEFINE more == Append(rows, row)
    <2>2. more \in Seq(ChainRows) /\ Len(more) = Len(rows) + 1 /\ \A j \in 1 .. i : more[j] = rows[j]
      BY <1>1, <2>1
    <2> HIDE DEF more
    <2>3. QED
      BY <2>1, <2>2
  <1>3. QED
    BY <1>1, <1>2

LEMMA CommitKeeps ==
  ASSUME ChainInv, NEW w \in Writers, NEW body \in Bodies, CommitAppend(w, body)
  PROVE  ChainInv'
  <1> DEFINE row == Row(writers[w].seq, writers[w].prev, body)
             n == Len(log)
  <1>1. /\ writers \in [Writers -> AppendRecords] /\ log \in Seq(ChainRows) /\ Ordered(log)
        /\ n \in Nat
    BY DEF ChainInv, ChainShape
  <1>2. /\ writers[w].at = "begun" /\ writeLock = w
        /\ writers[w].seq = TailSeq(log) + 1 /\ writers[w].prev = TailHash(log)
    BY DEF ChainInv, AppendFits, CommitAppend
  <1>3. TailSeq(log) \in Nat /\ TailHash(log) \in Seq(Statements)
    BY <1>1, TailsFit
  <1>4. /\ row.seq = TailSeq(log) + 1
        /\ row.this = Append(TailHash(log), Saying(row))
        /\ row \in ChainRows
    <2>1. /\ row.seq = TailSeq(log) + 1 /\ row.body = body
          /\ row.this = Append(TailHash(log), <<TailSeq(log) + 1, body>>)
      BY <1>2 DEF Row, RowHash
    <2>2. <<TailSeq(log) + 1, body>> \in Statements
      BY <1>3 DEF Statements
    <2>3. Append(TailHash(log), <<TailSeq(log) + 1, body>>) \in Seq(Statements)
      BY <1>3, <2>2, AppendProperties
    <2>4. row \in ChainRows
      BY <1>2, <1>3, <2>3 DEF Row, RowHash, ChainRows
    <2>5. QED
      BY <2>1, <2>4 DEF Saying
  <1>5. log' = Append(log, row) /\ UNCHANGED <<receipts, verdicts, damages>>
    BY DEF CommitAppend
  <1> HIDE DEF row
  <1>6. /\ log' \in Seq(ChainRows) /\ Len(log') = n + 1 /\ log'[n + 1] = row
        /\ \A i \in 1 .. n : log'[i] = log[i] /\ SubSeq(log', 1, i) = SubSeq(log, 1, i)
    BY <1>1, <1>4, <1>5, LogGrows
  <1>7. \A i \in 1 .. n : log[i].seq \in Nat /\ log[i].seq <= TailSeq(log)
    <2> SUFFICES ASSUME NEW i \in 1 .. n PROVE log[i].seq \in Nat /\ log[i].seq <= TailSeq(log)
      OBVIOUS
    <2>1. log # <<>> /\ n \in 1 .. n /\ (i = n \/ i < n)
      BY <1>1
    <2>2. TailSeq(log) = log[n].seq
      BY <2>1 DEF TailSeq, Last
    <2>3. log[i].seq \in Nat /\ log[n].seq \in Nat
      BY <1>1, <2>1, RowsAreRows
    <2>4. i = n \/ log[i].seq < log[n].seq
      BY <1>1, <2>1 DEF Ordered
    <2>5. QED
      BY <2>2, <2>3, <2>4
  <1>8. Ordered(log')
    <2> SUFFICES ASSUME NEW i \in 1 .. Len(log'), NEW j \in 1 .. Len(log'), i < j
                 PROVE  log'[i].seq < log'[j].seq
      BY DEF Ordered
    <2>1. i \in 1 .. n /\ (j \in 1 .. n \/ j = n + 1)
      BY <1>1, <1>6
    <2>2. CASE j \in 1 .. n
      BY <1>1, <1>6, <2>1, <2>2 DEF Ordered
    <2>3. CASE j = n + 1
      <3>1. log'[i].seq = log[i].seq /\ log'[j].seq = TailSeq(log) + 1
        BY <1>4, <1>6, <2>1, <2>3
      <3>2. QED
        BY <1>3, <1>7, <2>1, <3>1
    <2>4. QED
      BY <2>1, <2>2, <2>3
  <1>9. damages' = 0 => Intact(log')
    <2> SUFFICES ASSUME damages = 0, NEW i \in 1 .. Len(log')
                 PROVE  log'[i].seq = i /\ log'[i].this = Said(SubSeq(log', 1, i))
      BY <1>5 DEF Intact
    <2>1. Intact(log)
      BY DEF ChainInv
    <2>2. CASE i \in 1 .. n
      BY <1>6, <2>1, <2>2 DEF Intact
    <2>3. CASE i = n + 1
      <3>1. TailSeq(log) = n /\ TailHash(log) = Said(SubSeq(log, 1, n))
        <4>1. CASE n = 0
          <5>1. log = <<>> /\ SubSeq(log, 1, n) = <<>>
            BY <1>1, <4>1
          <5>2. QED
            BY <4>1, <5>1 DEF TailSeq, TailHash, ZeroHash, Said
        <4>2. CASE n # 0
          <5>1. log # <<>> /\ n \in 1 .. n
            BY <1>1, <4>2
          <5>2. QED
            BY <2>1, <5>1 DEF Intact, TailSeq, TailHash, Last
        <4>3. QED
          BY <4>1, <4>2
      <3>2. SubSeq(log', 1, n) = SubSeq(log, 1, n)
        <4>1. CASE n = 0
          BY <1>1, <1>6, <4>1
        <4>2. CASE n # 0
          BY <1>1, <1>6, <4>2
        <4>3. QED
          BY <4>1, <4>2
      <3>3. Said(SubSeq(log', 1, n + 1)) = Append(Said(SubSeq(log', 1, n)), Saying(log'[n + 1]))
        <4>1. n \in 0 .. Len(log') - 1
          BY <1>1, <1>6
        <4>2. QED
          BY <1>6, <4>1, SaidGrows
      <3>4. QED
        BY <1>4, <1>6, <2>3, <3>1, <3>2, <3>3
    <2>4. QED
      BY <1>1, <1>6, <2>2, <2>3
  <1>10. ChainShape'
    <2>1. [writers[w] EXCEPT !.at = "committed"] \in AppendRecords
      BY <1>1 DEF AppendRecords
    <2>2. writers' \in [Writers -> AppendRecords]
      BY <1>1, <2>1 DEF CommitAppend
    <2>3. QED
      BY <1>5, <1>6, <1>8, <2>2 DEF ChainInv, ChainShape
  <1>11. AppendFits'
    <2> SUFFICES ASSUME NEW v \in Writers, writers'[v].at = "begun" PROVE FALSE
      BY DEF AppendFits
    <2>1. v # w /\ writers[v].at = "begun"
      <3>1. writers[w] \in AppendRecords
        BY <1>1
      <3>2. writers'[w].at = "committed"
        BY <1>1, <3>1 DEF CommitAppend, AppendRecords
      <3>3. QED
        BY <1>1, <3>2 DEF CommitAppend
    <2>2. QED
      BY <1>2, <2>1 DEF ChainInv, AppendFits
  <1>12. ReceiptIsTold'
    BY <1>5 DEF ChainInv, ReceiptIsTold
  <1>13. VerdictStands'
    <2> SUFFICES ASSUME NEW r \in verdicts
                 PROVE  /\ r.seq \in Nat /\ \E i \in 1 .. Len(log') : log'[i].seq = r.seq
                        /\ r.sound => Said(Through(log', r.seq)) = r.told
      BY <1>5 DEF VerdictStands, RowsThrough, Through
    <2>1. r.seq \in Nat /\ (r.sound => Said(Through(log, r.seq)) = r.told)
      BY DEF ChainInv, VerdictStands, RowsThrough, Through
    <2>2. PICK i \in 1 .. n : log[i].seq = r.seq
      BY DEF ChainInv, VerdictStands
    <2>3. i \in 1 .. Len(log') /\ log'[i].seq = r.seq
      BY <1>1, <1>6, <2>2
    <2>4. Through(log, r.seq) = SubSeq(log, 1, i)
      BY <1>1, <2>2, ThroughIsPrefix
    <2>5. Through(log', r.seq) = SubSeq(log', 1, i)
      BY <1>6, <1>8, <2>3, ThroughIsPrefix
    <2>6. Through(log', r.seq) = Through(log, r.seq)
      BY <1>6, <2>4, <2>5
    <2>7. QED
      BY <2>1, <2>3, <2>6
  <1>14. QED
    BY <1>9, <1>10, <1>11, <1>12, <1>13 DEF ChainInv

-----------------------------------------------------------------------------
\* A receipt tells what the log said up to its row.
LEMMA TakeKeeps ==
  ASSUME ChainInv, NEW w \in Writers, TakeReceipt(w)
  PROVE  ChainInv'
  <1>1. /\ writers \in [Writers -> AppendRecords] /\ log \in Seq(ChainRows) /\ Ordered(log)
        /\ damages \in Nat
    BY DEF ChainInv, ChainShape
  <1>2. UNCHANGED <<log, writeLock, verdicts, damages>>
    BY DEF TakeReceipt
  <1>3. writers' = [writers EXCEPT ![w] = IdleWriter] /\ writers[w].at # "begun"
    BY DEF TakeReceipt
  <1>4. IdleWriter \in AppendRecords
    BY DEF IdleWriter, AppendRecords, ZeroHash
  <1>5. ChainShape'
    BY <1>1, <1>2, <1>3, <1>4 DEF ChainShape
  <1>6. AppendFits'
    <2> SUFFICES ASSUME NEW v \in Writers, writers'[v].at = "begun"
                 PROVE  /\ writeLock' = v
                        /\ writers'[v].seq = TailSeq(log') + 1
                        /\ writers'[v].prev = TailHash(log')
      BY DEF AppendFits, TailSeq, TailHash
    <2>1. v # w /\ writers'[v] = writers[v]
      BY <1>1, <1>3 DEF IdleWriter
    <2>2. QED
      BY <1>2, <2>1 DEF ChainInv, AppendFits
  <1>7. ReceiptIsTold'
    <2> SUFFICES ASSUME NEW r \in receipts'
                 PROVE  r.seq \in Nat /\ (r.sound => r.this = r.told)
      BY DEF ReceiptIsTold
    <2>1. CASE r \in receipts
      BY <2>1 DEF ChainInv, ReceiptIsTold
    <2>2. CASE r \notin receipts
      <3>1. PICK row \in ToSet(log) :
               r = [seq |-> row.seq, this |-> row.this, told |-> Said(RowsThrough(row.seq)),
                    sound |-> damages = 0]
        BY <2>2 DEF TakeReceipt
      <3>2. PICK i \in 1 .. Len(log) : row = log[i]
        BY <1>1 DEF ToSet
      <3>3. r.seq = log[i].seq /\ r.this = log[i].this /\ r.told = Said(Through(log, log[i].seq))
        BY <3>1, <3>2 DEF RowsThrough, Through
      <3>4. r.sound = (damages = 0)
        BY <3>1
      <3>5. log[i].seq \in Nat
        BY <1>1, RowsAreRows
      <3>6. Through(log, log[i].seq) = SubSeq(log, 1, i)
        BY <1>1, ThroughIsPrefix
      <3>7. ASSUME damages = 0 PROVE log[i].this = Said(SubSeq(log, 1, i))
        BY <3>7 DEF ChainInv, Intact
      <3>8. QED
        BY <3>3, <3>4, <3>5, <3>6, <3>7
    <2>3. QED
      BY <2>1, <2>2
  <1>8. VerdictStands'
    BY <1>2 DEF ChainInv, VerdictStands, RowsThrough
  <1>9. (damages = 0 => Intact(log))'
    BY <1>2 DEF ChainInv, Intact
  <1>10. QED
    BY <1>5, <1>6, <1>7, <1>8, <1>9 DEF ChainInv

\* What the gate accepts is what the receipt tells: the rows verify from the
\* first to the receipt's, so the last hash is over all they say.
LEMMA CheckKeeps ==
  ASSUME ChainInv, NEW r \in receipts, CheckReceipt(r)
  PROVE  ChainInv'
  <1>1. log \in Seq(ChainRows) /\ Ordered(log) /\ r.seq \in Nat /\ (r.sound => r.this = r.told)
    BY DEF ChainInv, ChainShape, ReceiptIsTold
  <1>2. UNCHANGED <<log, writers, writeLock, receipts, damages>>
    BY DEF CheckReceipt
  <1>3. verdicts' = {} \/ (Accepts(r) /\ verdicts' = {r})
    BY DEF CheckReceipt
  <1>4. ASSUME Accepts(r)
        PROVE  /\ \E i \in 1 .. Len(log) : log[i].seq = r.seq
               /\ r.sound => Said(Through(log, r.seq)) = r.told
    <2> DEFINE rows == Through(log, r.seq)
    <2>1. /\ rows # <<>> /\ Last(rows).seq = r.seq /\ VerifyRows(rows)
          /\ TailHash(rows) = r.this
      BY <1>4 DEF Accepts, VerifyThrough, RowsThrough, Through
    <2>2. PICK k \in 0 .. Len(log) : rows = SubSeq(log, 1, k)
      BY <1>1, ThroughIsPart
    <2> HIDE DEF rows
    <2>3. k \in 1 .. Len(log) /\ rows \in Seq(ChainRows) /\ Len(rows) = k /\ rows[k] = log[k]
      <3>1. Len(log) \in Nat
        BY <1>1
      <3>2. k # 0
        BY <1>1, <2>1, <2>2
      <3>3. QED
        BY <1>1, <2>2, <3>1, <3>2
    <2>4. log[k].seq = r.seq
      BY <2>1, <2>3 DEF Last
    <2>5. rows[k].this = Said(SubSeq(rows, 1, k))
      BY <2>1, <2>3, VerifiedIsSaid
    <2>6. SubSeq(rows, 1, k) = rows
      BY <2>3
    <2>7. r.this = Said(rows)
      BY <2>1, <2>3, <2>5, <2>6 DEF TailHash, Last
    <2>8. r.sound => Said(rows) = r.told
      BY <1>1, <2>7
    <2>9. QED
      BY <2>3, <2>4, <2>8 DEF rows
  <1>5. VerdictStands'
    <2> SUFFICES ASSUME NEW v \in verdicts'
                 PROVE  /\ v.seq \in Nat /\ \E i \in 1 .. Len(log) : log[i].seq = v.seq
                        /\ v.sound => Said(Through(log, v.seq)) = v.told
      BY <1>2 DEF VerdictStands, RowsThrough, Through
    <2>1. v = r /\ Accepts(r)
      BY <1>3
    <2>2. QED
      BY <1>1, <1>4, <2>1
  <1>6. ChainShape' /\ (damages = 0 => Intact(log))' /\ ReceiptIsTold'
    BY <1>2 DEF ChainInv, ChainShape, ReceiptIsTold
  <1>7. AppendFits'
    BY <1>2 DEF ChainInv, AppendFits
  <1>8. QED
    BY <1>5, <1>6, <1>7 DEF ChainInv

\* Whatever the file is put to, no verdict stands and no writer is in it.
LEMMA DamageKeeps ==
  ASSUME ChainInv, NEW rows \in Seq(ChainRows), Ordered(rows), Damage(rows)
  PROVE  ChainInv'
  <1>1. /\ log' = rows /\ damages' = damages + 1 /\ verdicts' = {}
        /\ writeLock = NoWriter /\ UNCHANGED <<writers, writeLock, receipts>>
    BY DEF Damage
  <1>2. damages \in Nat /\ writers \in [Writers -> AppendRecords]
    BY DEF ChainInv, ChainShape
  <1>3. ChainShape'
    BY <1>1, <1>2 DEF ChainShape
  <1>4. damages' # 0
    BY <1>1, <1>2
  <1>5. AppendFits'
    <2>1. \A w \in Writers : writers[w].at # "begun"
      BY <1>1, ChainAssumption DEF ChainInv, AppendFits
    <2>2. QED
      BY <1>1, <2>1 DEF AppendFits
  <1>6. ReceiptIsTold' /\ VerdictStands'
    BY <1>1 DEF ChainInv, ReceiptIsTold, VerdictStands
  <1>7. QED
    BY <1>3, <1>4, <1>5, <1>6 DEF ChainInv

LEMMA LossKeeps ==
  ASSUME ChainInv, NEW i, LoseRow(i)
  PROVE  ChainInv'
  <1> DEFINE rows == RemoveAt(log, i)
             from == [k \in 1 .. Len(log) - 1 |-> IF k < i THEN k ELSE k + 1]
  <1>1. log \in Seq(ChainRows) /\ Ordered(log) /\ Len(log) \in Nat
    BY DEF ChainInv, ChainShape
  <1>2. i \in 1 .. Len(log)
    BY <1>1 DEF LoseRow
  <1>3. /\ rows \in Seq(ChainRows) /\ Len(rows) = Len(log) - 1
        /\ \A k \in 1 .. Len(log) - 1 : rows[k] = log[from[k]]
    BY <1>1, <1>2, RemovalShifts
  <1>4. Ordered(rows)
    <2> SUFFICES ASSUME NEW k \in 1 .. Len(log) - 1, NEW j \in 1 .. Len(log) - 1, k < j
                 PROVE  rows[k].seq < rows[j].seq
      BY <1>3 DEF Ordered
    <2>1. from[k] \in 1 .. Len(log) /\ from[j] \in 1 .. Len(log) /\ from[k] < from[j]
      BY <1>1, <1>2
    <2> HIDE DEF from, rows
    <2>2. log[from[k]].seq < log[from[j]].seq
      BY <1>1, <2>1 DEF Ordered
    <2>3. QED
      BY <1>3, <2>2
  <1> HIDE DEF rows
  <1>5. Damage(rows)
    BY DEF LoseRow, rows
  <1>6. QED
    BY <1>3, <1>4, <1>5, DamageKeeps

LEMMA AlterationKeeps ==
  ASSUME ChainInv, NEW i, NEW body \in Bodies, AlterRow(i, body)
  PROVE  ChainInv'
  <1> DEFINE rows == [log EXCEPT ![i].body = body]
             row == [log[i] EXCEPT !.body = body]
  <1>1. log \in Seq(ChainRows) /\ Ordered(log) /\ Len(log) \in Nat
    BY DEF ChainInv, ChainShape
  <1>2. i \in 1 .. Len(log)
    BY <1>1 DEF AlterRow
  <1>3. log[i] \in ChainRows
    BY <1>1, <1>2
  <1>4. row \in ChainRows /\ row.seq = log[i].seq
    BY <1>3 DEF ChainRows
  <1>5. rows = [log EXCEPT ![i] = row]
    OBVIOUS
  <1> HIDE DEF rows, row
  <1>6. /\ rows \in Seq(ChainRows) /\ Len(rows) = Len(log)
        /\ \A j \in 1 .. Len(log) : rows[j] = IF j = i THEN row ELSE log[j]
    BY <1>1, <1>2, <1>4, <1>5, ExceptSeq
  <1>7. \A j \in 1 .. Len(log) : rows[j].seq = log[j].seq
    BY <1>4, <1>6
  <1>8. Ordered(rows)
    BY <1>1, <1>6, <1>7 DEF Ordered
  <1>9. Damage(rows)
    BY DEF AlterRow, rows
  <1>10. QED
    BY <1>6, <1>8, <1>9, DamageKeeps

LEMMA PuttingBackKeeps ==
  ASSUME ChainInv, NEW n \in Nat, NEW bodies \in [1 .. n -> Bodies], PutBack(bodies)
  PROVE  ChainInv'
  <1> DEFINE rows == Relinked(bodies)
             told(i) == [j \in 1 .. (i - 1) |-> <<j, bodies[j]>>]
  <1>1. rows = [i \in 1 .. n |-> Row(i, told(i), bodies[i])]
    BY DEF Relinked
  <1>2. ASSUME NEW i \in 1 .. n
        PROVE  Row(i, told(i), bodies[i]) \in ChainRows /\ Row(i, told(i), bodies[i]).seq = i
    <2>1. i \in Nat /\ i - 1 \in Nat
      OBVIOUS
    <2>2. \A j \in 1 .. (i - 1) : <<j, bodies[j]>> \in Statements
      BY DEF Statements
    <2>3. told(i) \in Seq(Statements)
      BY <2>1, <2>2, SMTT(30)
    <2>4. <<i, bodies[i]>> \in Statements
      BY DEF Statements
    <2> HIDE DEF told
    <2>5. Append(told(i), <<i, bodies[i]>>) \in Seq(Statements)
      BY <2>3, <2>4, AppendProperties
    <2>6. QED
      BY <2>1, <2>3, <2>5 DEF Row, RowHash, ChainRows
  <1> HIDE DEF rows, told
  <1>3. rows \in Seq(ChainRows) /\ Len(rows) = n /\ \A i \in 1 .. n : rows[i].seq = i
    BY <1>1, <1>2, SMTT(30)
  <1>4. Ordered(rows)
    BY <1>3 DEF Ordered
  <1>5. Damage(rows)
    BY DEF PutBack, rows
  <1>6. QED
    BY <1>3, <1>4, <1>5, DamageKeeps

LEMMA ChainMoves == ChainInv /\ [ChainNext]_chainVars => ChainInv'
  <1> SUFFICES ASSUME ChainInv, [ChainNext]_chainVars PROVE ChainInv'
    OBVIOUS
  <1>1. CASE \E w \in Writers : BeginAppend(w)
    BY <1>1, BeginKeeps
  <1>2. CASE \E w \in Writers : RollBackAppend(w)
    BY <1>2, RollBackKeeps
  <1>3. CASE \E w \in Writers : TakeReceipt(w)
    BY <1>3, TakeKeeps
  <1>4. CASE \E w \in Writers, body \in Bodies : CommitAppend(w, body)
    BY <1>4, CommitKeeps
  <1>5. CASE \E r \in receipts : CheckReceipt(r)
    BY <1>5, CheckKeeps
  <1>6. CASE \E i \in 1 .. MaxChainRows : LoseRow(i)
    BY <1>6, LossKeeps
  <1>7. CASE \E i \in 1 .. MaxChainRows, body \in Bodies : AlterRow(i, body)
    BY <1>7, AlterationKeeps
  <1>8. CASE \E n \in 0 .. Len(log) : \E bodies \in [1 .. n -> Bodies] : PutBack(bodies)
    <2>1. 0 .. Len(log) \subseteq Nat
      BY DEF ChainInv, ChainShape
    <2>2. QED
      BY <1>8, <2>1, PuttingBackKeeps
  <1>9. CASE UNCHANGED chainVars
    <2>1. UNCHANGED <<log, writers, writeLock, receipts, verdicts, damages>>
      BY <1>9 DEF chainVars
    <2>2. ChainShape' /\ (damages = 0 => Intact(log))' /\ ReceiptIsTold'
      BY <2>1 DEF ChainInv, ChainShape, ReceiptIsTold
    <2>3. AppendFits'
      BY <2>1 DEF ChainInv, AppendFits
    <2>4. VerdictStands'
      BY <2>1 DEF ChainInv, VerdictStands, RowsThrough
    <2>5. QED
      BY <2>2, <2>3, <2>4 DEF ChainInv
  <1>10. QED
    BY <1>1, <1>2, <1>3, <1>4, <1>5, <1>6, <1>7, <1>8, <1>9 DEF ChainNext

\* A receipt the finalizer's gate accepts vouches for every row up to its own:
\* they say what they said when the receipt was made, for any number of rows,
\* writers and damages, as long as the hashes do not collide.
THEOREM ReceiptsPinHistory == ChainSpec => []AcceptedReceiptPinsHistory
  <1>1. ChainInv => AcceptedReceiptPinsHistory
    BY DEF ChainInv, VerdictStands, AcceptedReceiptPinsHistory
  <1>2. QED
    BY <1>1, ChainStarts, ChainMoves, PTL DEF ChainSpec

-----------------------------------------------------------------------------
(* StatsWalk: a count is off by no more than what changed under it *)

\* What a scope has yet to count after the first k rows.
RestOf(rows, k, S) == {rows[i] : i \in {j \in DOMAIN rows : k < j}} \cap S

Distinct(rows) == \A i, j \in DOMAIN rows : rows[i] = rows[j] => i = j

LEMMA RowsAreFinite ==
  ASSUME NEW rows \in Seq(Drawers), NEW A, A \subseteq DOMAIN rows, NEW S
  PROVE  /\ IsFiniteSet({rows[i] : i \in A} \cap S)
         /\ Cardinality({rows[i] : i \in A} \cap S) \in Nat
  <1>1. DOMAIN rows = 1 .. Len(rows) /\ Len(rows) \in Nat
    OBVIOUS
  <1>2. IsFiniteSet(DOMAIN rows)
    BY <1>1, FS_Interval
  <1>3. IsFiniteSet(A)
    BY <1>2, FS_Subset
  <1> DEFINE f == [i \in A |-> rows[i]]
             B == {f[i] : i \in A}
  <1>4. f \in Surjection(A, B)
    BY DEF Surjection
  <1>5. IsFiniteSet(B)
    <2> HIDE DEF f, B
    <2>1. QED
      BY <1>3, <1>4, FS_Surjection
  <1>6. {rows[i] : i \in A} = B
    OBVIOUS
  <1>7. IsFiniteSet({rows[i] : i \in A} \cap S)
    BY <1>5, <1>6, FS_Subset
  <1>8. QED
    BY <1>7, FS_CardinalityType

LEMMA RestIsFinite ==
  ASSUME NEW rows \in Seq(Drawers), NEW k, NEW S
  PROVE  IsFiniteSet(RestOf(rows, k, S)) /\ Cardinality(RestOf(rows, k, S)) \in Nat
  BY RowsAreFinite DEF RestOf

LEMMA OneMore ==
  ASSUME NEW A, NEW B, NEW x, IsFiniteSet(A), IsFiniteSet(B), A \subseteq B \cup {x}
  PROVE  Cardinality(A) <= Cardinality(B) + 1
  <1>1. /\ IsFiniteSet(B \cup {x})
        /\ Cardinality(B \cup {x}) = IF x \in B THEN Cardinality(B) ELSE Cardinality(B) + 1
    BY FS_AddElement
  <1>2. Cardinality(A) <= Cardinality(B \cup {x})
    BY <1>1, FS_Subset
  <1>3. Cardinality(A) \in Nat /\ Cardinality(B) \in Nat /\ Cardinality(B \cup {x}) \in Nat
    BY <1>1, FS_CardinalityType
  <1>4. QED
    BY <1>1, <1>2, <1>3

Near(m, n) == m <= n + 1 /\ n <= m + 1

\* A drawer added at the front moves one row into the rest, or is in it.
LEMMA AddingMovesOne ==
  ASSUME NEW rows \in Seq(Drawers), NEW d \in Drawers, NEW k \in Nat, NEW S
  PROVE  Near(Cardinality(RestOf(<<d>> \o rows, k, S)), Cardinality(RestOf(rows, k, S)))
  <1> DEFINE more == <<d>> \o rows
             A == RestOf(more, k, S)
             B == RestOf(rows, k, S)
             x == more[k + 1]
  <1>1. Len(rows) \in Nat /\ DOMAIN rows = 1 .. Len(rows)
    OBVIOUS
  <1>2. /\ more \in Seq(Drawers) /\ DOMAIN more = 1 .. Len(rows) + 1
        /\ \A i \in 1 .. Len(rows) : more[i + 1] = rows[i]
    OBVIOUS
  <1> HIDE DEF more
  <1>3. A \subseteq B \cup {x}
    <2> SUFFICES ASSUME NEW i \in DOMAIN more, k < i, more[i] \in S
                 PROVE  more[i] \in B \cup {x}
      BY DEF RestOf
    <2>1. CASE i = k + 1
      BY <2>1
    <2>2. CASE i # k + 1
      <3>1. i - 1 \in 1 .. Len(rows) /\ k < i - 1 /\ (i - 1) + 1 = i
        BY <1>1, <1>2, <2>2
      <3>2. more[i] = rows[i - 1]
        BY <1>2, <3>1
      <3>3. QED
        BY <1>1, <3>1, <3>2 DEF RestOf
    <2>3. QED
      BY <2>1, <2>2
  <1>4. B \subseteq A
    <2> SUFFICES ASSUME NEW i \in DOMAIN rows, k < i, rows[i] \in S
                 PROVE  rows[i] \in A
      BY DEF RestOf
    <2>1. i + 1 \in DOMAIN more /\ k < i + 1 /\ more[i + 1] = rows[i]
      BY <1>1, <1>2
    <2>2. QED
      BY <2>1 DEF RestOf
  <1>5. /\ IsFiniteSet(A) /\ Cardinality(A) \in Nat
        /\ IsFiniteSet(B) /\ Cardinality(B) \in Nat
    BY <1>2, RestIsFinite
  <1> HIDE DEF A, B, x
  <1>6. Cardinality(A) <= Cardinality(B) + 1
    BY <1>3, <1>5, OneMore
  <1>7. Cardinality(B) <= Cardinality(A)
    BY <1>4, <1>5, FS_Subset
  <1>8. QED
    BY <1>5, <1>6, <1>7 DEF Near, A, B, more

\* A deleted one leaves the rest, or moves one row out of it.
LEMMA DeletingMovesOne ==
  ASSUME NEW rows \in Seq(Drawers), NEW i \in 1 .. Len(rows), NEW k \in Nat, NEW S
  PROVE  Near(Cardinality(RestOf(RemoveAt(rows, i), k, S)), Cardinality(RestOf(rows, k, S)))
  <1> DEFINE left == RemoveAt(rows, i)
             A == RestOf(left, k, S)
             B == RestOf(rows, k, S)
             x == IF k < i THEN rows[i] ELSE rows[k + 1]
  <1>1. Len(rows) \in Nat /\ DOMAIN rows = 1 .. Len(rows)
    OBVIOUS
  <1>2. /\ left \in Seq(Drawers) /\ DOMAIN left = 1 .. Len(rows) - 1
        /\ \A j \in 1 .. Len(rows) - 1 : left[j] = rows[IF j < i THEN j ELSE j + 1]
    <2>1. /\ left \in Seq(Drawers) /\ Len(left) = Len(rows) - 1
          /\ \A j \in 1 .. Len(rows) - 1 : left[j] = rows[IF j < i THEN j ELSE j + 1]
      BY RemovalShifts
    <2> HIDE DEF left
    <2>2. QED
      BY <2>1
  <1> HIDE DEF left
  <1>3. A \subseteq B
    <2> SUFFICES ASSUME NEW j \in DOMAIN left, k < j, left[j] \in S
                 PROVE  left[j] \in B
      BY DEF RestOf
    <2> DEFINE m == IF j < i THEN j ELSE j + 1
    <2>1. m \in DOMAIN rows /\ k < m
      BY <1>1, <1>2
    <2>2. left[j] = rows[m]
      BY <1>2
    <2> HIDE DEF m
    <2>3. QED
      BY <2>1, <2>2 DEF RestOf
  <1>4. B \subseteq A \cup {x}
    <2> SUFFICES ASSUME NEW m \in DOMAIN rows, k < m, rows[m] \in S
                 PROVE  rows[m] \in A \cup {x}
      BY DEF RestOf
    <2>1. CASE m < i
      <3>1. m \in DOMAIN left /\ left[m] = rows[m]
        BY <1>1, <1>2, <2>1
      <3>2. QED
        BY <3>1 DEF RestOf
    <2>2. CASE m > i /\ k < m - 1
      <3>1. m - 1 \in 1 .. Len(rows) - 1 /\ ~ (m - 1 < i) /\ (m - 1) + 1 = m
        BY <1>1, <2>2
      <3>2. m - 1 \in DOMAIN left /\ left[m - 1] = rows[m]
        BY <1>2, <3>1
      <3>3. QED
        BY <2>2, <3>2 DEF RestOf
    <2>3. CASE m = i
      BY <2>3
    <2>4. CASE m > i /\ ~ (k < m - 1)
      <3>1. m = k + 1 /\ ~ (k < i)
        BY <1>1, <2>4
      <3>2. QED
        BY <3>1
    <2>5. QED
      BY <1>1, <2>1, <2>2, <2>3, <2>4
  <1>5. /\ IsFiniteSet(A) /\ Cardinality(A) \in Nat
        /\ IsFiniteSet(B) /\ Cardinality(B) \in Nat
    BY <1>2, RestIsFinite
  <1> HIDE DEF A, B, x
  <1>6. Cardinality(A) <= Cardinality(B)
    BY <1>3, <1>5, FS_Subset
  <1>7. Cardinality(B) <= Cardinality(A) + 1
    BY <1>4, <1>5, OneMore
  <1>8. QED
    BY <1>5, <1>6, <1>7 DEF Near, A, B, left

\* A page and what comes after it are what was to come, each row once.
LEMMA PageSplitsRest ==
  ASSUME listing \in Seq(Drawers), Distinct(listing), WalkAssumption, NEW n \in Nat \ {0}, NEW S
  PROVE  /\ IsFiniteSet(Page(n) \cap S) /\ Cardinality(Page(n) \cap S) \in Nat
         /\ Cardinality(RestOf(listing, (n - 1) * PageSize, S)) =
              Cardinality(Page(n) \cap S) + Cardinality(RestOf(listing, n * PageSize, S))
  <1> DEFINE k == (n - 1) * PageSize
             m == n * PageSize
             A == Page(n) \cap S
             B == RestOf(listing, m, S)
             C == RestOf(listing, k, S)
  <1>1. k \in Nat /\ m \in Nat /\ k <= m
    <2>1. PageSize \in Nat /\ PageSize > 0
      BY DEF WalkAssumption
    <2>2. n - 1 \in Nat /\ (n - 1) + 1 = n
      OBVIOUS
    <2>3. (n - 1) * PageSize \in Nat
      BY <2>1, <2>2
    <2>4. n * PageSize = (n - 1) * PageSize + PageSize
      BY <2>1, <2>2
    <2>5. QED
      BY <2>1, <2>3, <2>4
  <1>2. DOMAIN listing = 1 .. Len(listing) /\ Len(listing) \in Nat
    OBVIOUS
  <1>3. A = {listing[i] : i \in {j \in DOMAIN listing : k < j /\ j =< m}} \cap S
    BY DEF Page
  <1>4. /\ IsFiniteSet(A) /\ Cardinality(A) \in Nat
        /\ IsFiniteSet(B) /\ Cardinality(B) \in Nat
    BY <1>3, RowsAreFinite, RestIsFinite
  <1> HIDE DEF k, m, A
  <1>5. C = A \cup B
    <2>1. \A j \in DOMAIN listing : k < j <=> (k < j /\ j =< m) \/ m < j
      BY <1>1, <1>2
    <2>2. QED
      BY <1>3, <2>1 DEF RestOf
  <1>6. A \cap B = {}
    <2> SUFFICES ASSUME NEW i \in DOMAIN listing, i =< m, NEW j \in DOMAIN listing, m < j,
                        listing[i] = listing[j]
                 PROVE  FALSE
      BY <1>3 DEF RestOf
    <2>1. i = j
      BY DEF Distinct
    <2>2. QED
      BY <1>1, <1>2, <2>1
  <1> HIDE DEF B, C
  <1>7. Cardinality(A \cup B) = Cardinality(A) + Cardinality(B)
    <2>1. Cardinality(A \cup B) = Cardinality(A) + Cardinality(B) - Cardinality(A \cap B)
      BY <1>4, FS_Union
    <2>2. Cardinality(A \cap B) = 0
      BY <1>6, FS_EmptySet
    <2> DEFINE a == Cardinality(A)
               b == Cardinality(B)
    <2>3. a \in Nat /\ b \in Nat /\ Cardinality(A \cup B) = a + b - 0
      BY <1>4, <2>1, <2>2
    <2> HIDE DEF a, b
    <2>4. Cardinality(A \cup B) = a + b
      BY <2>3
    <2>5. QED
      BY <2>4 DEF a, b
  <1>8. Cardinality(C) = Cardinality(A) + Cardinality(B)
    BY <1>5, <1>7
  <1>9. QED
    BY <1>4, <1>8, Zenon DEF A, B, C, k, m

-----------------------------------------------------------------------------
WalkRecords ==
    [at : {"idle", "walking", "answered", "refused"},
     scope : Scopes, page : Nat, found : Findings, changed : Nat]

Entries == [until : Nat, found : Findings]

Slack(m, n) == -n <= m /\ m <= n

\* With so many rows to come, f is off by no more than what changed since.
Fits(f, rest, now) ==
    /\ f \in Findings /\ IsFiniteSet(f.began) /\ f.since <= now
    /\ Slack(f.total + rest - Cardinality(f.began), now - f.since)

ToCome(w) == Cardinality(RestOf(listing, (walks[w].page - 1) * PageSize, Sees[walks[w].scope]))

WalkFits ==
    \A w \in Walks : walks[w].at = "walking" =>
        /\ walks[w].page \in Nat \ {0} /\ walks[w].scope \in Scopes
        /\ Fits(walks[w].found, ToCome(w), changes)

CacheFits == \A s \in Scopes : statCache[s] # NoEntry => Fits(statCache[s].found, 0, changes)

StatsShape ==
    /\ listing \in Seq(Drawers) /\ Distinct(listing)
    /\ walks \in [Walks -> WalkRecords]
    /\ statCache \in [Scopes -> {NoEntry} \cup Entries]
    /\ changes \in Nat /\ statClock \in Nat

StatsInv == StatsShape /\ WalkFits /\ CacheFits /\ CountErrorIsBounded

LEMMA StatsStarts == WalkAssumption /\ StatsInit => StatsInv
  <1> SUFFICES ASSUME WalkAssumption, StatsInit PROVE StatsInv
    OBVIOUS
  <1>1. NoFindings \in Findings
    BY DEF NoFindings, Findings
  <1>2. StatsShape
    <2>1. listing \in Seq(Drawers) /\ Distinct(listing)
      BY DEF WalkAssumption, StatsInit, Distinct
    <2>2. walks \in [Walks -> WalkRecords]
      BY <1>1 DEF StatsInit, WalkRecords, WalkAssumption
    <2>3. QED
      BY <2>1, <2>2 DEF StatsInit, StatsShape
  <1>3. WalkFits /\ CacheFits /\ CountErrorIsBounded
    BY DEF StatsInit, WalkFits, CacheFits, CountErrorIsBounded
  <1>4. QED
    BY <1>2, <1>3 DEF StatsInv

\* One more change allows for one row more or less.
LEMMA FitsLater ==
  ASSUME NEW f, NEW rest \in Nat, NEW next \in Nat, NEW now \in Nat,
         Fits(f, rest, now), Near(next, rest)
  PROVE  Fits(f, next, now + 1)
  <1>1. f.total \in Nat /\ f.since \in Nat /\ Cardinality(f.began) \in Nat
    BY FS_CardinalityType DEF Fits, Findings
  <1>2. f.since <= now + 1
    BY <1>1 DEF Fits
  <1>3. Slack(f.total + next - Cardinality(f.began), (now + 1) - f.since)
    <2>1. Slack(f.total + rest - Cardinality(f.began), now - f.since)
      BY DEF Fits
    <2> DEFINE total == f.total
               since == f.since
               began == Cardinality(f.began)
    <2> HIDE DEF total, since, began
    <2>2. total \in Nat /\ since \in Nat /\ began \in Nat /\ Slack(total + rest - began, now - since)
      BY <1>1, <2>1 DEF total, since, began
    <2>3. Slack(total + next - began, (now + 1) - since)
      BY <2>2 DEF Slack, Near
    <2>4. QED
      BY <2>3 DEF total, since, began
  <1>4. f \in Findings /\ IsFiniteSet(f.began)
    BY DEF Fits
  <1>5. QED
    BY <1>2, <1>3, <1>4 DEF Fits

\* The store changes by one drawer.
LEMMA StoreMoves ==
  ASSUME WalkAssumption, StatsInv, listing' \in Seq(Drawers), Distinct(listing'),
         changes' = changes + 1, UNCHANGED <<walks, statCache, statClock>>,
         \A k \in Nat, S \in SUBSET Drawers :
            Near(Cardinality(RestOf(listing', k, S)), Cardinality(RestOf(listing, k, S)))
  PROVE  StatsInv'
  <1>1. StatsShape'
    BY DEF StatsInv, StatsShape
  <1>2. WalkFits'
    <2> SUFFICES ASSUME NEW w \in Walks, walks[w].at = "walking"
                 PROVE  /\ walks[w].page \in Nat \ {0} /\ walks[w].scope \in Scopes
                        /\ Fits(walks[w].found, ToCome(w)', changes + 1)
      BY DEF WalkFits
    <2> DEFINE k == (walks[w].page - 1) * PageSize
               S == Sees[walks[w].scope]
    <2>1. /\ walks[w].page \in Nat \ {0} /\ walks[w].scope \in Scopes
          /\ Fits(walks[w].found, ToCome(w), changes) /\ changes \in Nat
      BY DEF StatsInv, StatsShape, WalkFits
    <2>2. k \in Nat /\ S \in SUBSET Drawers
      <3>1. PageSize \in Nat /\ walks[w].page - 1 \in Nat
        BY <2>1 DEF WalkAssumption
      <3>2. \A m, n \in Nat : m * n \in Nat
        OBVIOUS
      <3>3. k \in Nat
        BY <3>1, <3>2
      <3>4. S \in SUBSET Drawers
        BY <2>1 DEF WalkAssumption
      <3>5. QED
        BY <3>3, <3>4
    <2>3. /\ ToCome(w) = Cardinality(RestOf(listing, k, S))
          /\ ToCome(w)' = Cardinality(RestOf(listing', k, S))
      BY DEF ToCome
    <2> HIDE DEF k, S
    <2>4. Near(ToCome(w)', ToCome(w))
      BY <2>2, <2>3
    <2>5. ToCome(w) \in Nat /\ ToCome(w)' \in Nat
      BY <2>3, RestIsFinite DEF StatsInv, StatsShape
    <2>6. Fits(walks[w].found, ToCome(w)', changes + 1)
      BY <2>1, <2>4, <2>5, FitsLater
    <2>7. QED
      BY <2>1, <2>6
  <1>3. CacheFits'
    <2> SUFFICES ASSUME NEW s \in Scopes, statCache[s] # NoEntry
                 PROVE  Fits(statCache[s].found, 0, changes + 1)
      BY DEF CacheFits
    <2>1. Fits(statCache[s].found, 0, changes) /\ changes \in Nat
      BY DEF StatsInv, StatsShape, CacheFits
    <2>2. Near(0, 0)
      BY DEF Near
    <2>3. QED
      BY <2>1, <2>2, FitsLater
  <1>4. CountErrorIsBounded'
    BY DEF StatsInv, CountErrorIsBounded
  <1>5. QED
    BY <1>1, <1>2, <1>3, <1>4 DEF StatsInv

LEMMA AddKeeps ==
  ASSUME WalkAssumption, StatsInv, NEW d \in Drawers, AddDrawer(d)
  PROVE  StatsInv'
  <1>1. listing \in Seq(Drawers) /\ Distinct(listing)
    BY DEF StatsInv, StatsShape
  <1>2. listing' = <<d>> \o listing /\ changes' = changes + 1 /\ UNCHANGED <<walks, statCache, statClock>>
    BY DEF AddDrawer
  <1>3. listing' \in Seq(Drawers)
    BY <1>1, <1>2
  <1>4. Distinct(listing')
    <2>1. \A i \in DOMAIN listing : listing[i] # d
      BY <1>1 DEF AddDrawer, Standing, ToSet
    <2>2. /\ DOMAIN listing' = 1 .. Len(listing) + 1 /\ DOMAIN listing = 1 .. Len(listing)
          /\ Len(listing) \in Nat
          /\ \A i \in 1 .. Len(listing) + 1 : listing'[i] = IF i = 1 THEN d ELSE listing[i - 1]
      BY <1>1, <1>2
    <2> SUFFICES ASSUME NEW i \in 1 .. Len(listing) + 1, NEW j \in 1 .. Len(listing) + 1,
                        listing'[i] = listing'[j]
                 PROVE  i = j
      <3>1. DOMAIN listing' = 1 .. Len(listing) + 1
        BY <2>2
      <3>2. QED
        BY <3>1 DEF Distinct
    <2>3. CASE i = 1 \/ j = 1
      <3>1. ASSUME NEW k \in 1 .. Len(listing) + 1, listing'[k] = d
            PROVE  k = 1
        BY <2>1, <2>2, <3>1
      <3>2. listing'[i] = d /\ listing'[j] = d
        BY <2>2, <2>3
      <3>3. QED
        BY <3>1, <3>2
    <2>4. CASE i # 1 /\ j # 1
      <3>1. i - 1 \in DOMAIN listing /\ j - 1 \in DOMAIN listing
        BY <2>2, <2>4
      <3>2. listing[i - 1] = listing[j - 1]
        BY <2>2, <2>4
      <3>3. i - 1 = j - 1
        BY <1>1, <3>1, <3>2 DEF Distinct
      <3>4. QED
        BY <2>2, <3>3
    <2>5. QED
      BY <2>3, <2>4
  <1>5. \A k \in Nat, S \in SUBSET Drawers :
           Near(Cardinality(RestOf(listing', k, S)), Cardinality(RestOf(listing, k, S)))
    BY <1>1, <1>2, AddingMovesOne
  <1>6. QED
    BY <1>2, <1>3, <1>4, <1>5, StoreMoves

LEMMA DeleteKeeps ==
  ASSUME WalkAssumption, StatsInv, NEW d \in Drawers, DeleteDrawer(d)
  PROVE  StatsInv'
  <1>1. listing \in Seq(Drawers) /\ Distinct(listing)
    BY DEF StatsInv, StatsShape
  <1>2. PICK i \in DOMAIN listing : listing' = RemoveAt(listing, i)
    BY DEF DeleteDrawer
  <1>3. DOMAIN listing = 1 .. Len(listing) /\ Len(listing) \in Nat
    BY <1>1
  <1>4. changes' = changes + 1 /\ UNCHANGED <<walks, statCache, statClock>>
    BY DEF DeleteDrawer
  <1>5. /\ listing' \in Seq(Drawers) /\ Len(listing') = Len(listing) - 1
        /\ \A k \in 1 .. Len(listing) - 1 : listing'[k] = listing[IF k < i THEN k ELSE k + 1]
    <2>1. i \in 1 .. Len(listing)
      BY <1>3
    <2> DEFINE left == RemoveAt(listing, i)
    <2>2. /\ left \in Seq(Drawers) /\ Len(left) = Len(listing) - 1
          /\ \A k \in 1 .. Len(listing) - 1 : left[k] = listing[IF k < i THEN k ELSE k + 1]
      BY <1>1, <2>1, RemovalShifts
    <2>3. listing' = left
      BY <1>2
    <2> HIDE DEF left
    <2>4. QED
      BY <2>2, <2>3
  <1>6. Distinct(listing')
    <2> DEFINE from(k) == IF k < i THEN k ELSE k + 1
    <2>1. DOMAIN listing' = 1 .. Len(listing) - 1
      BY <1>5
    <2> SUFFICES ASSUME NEW k \in 1 .. Len(listing) - 1, NEW j \in 1 .. Len(listing) - 1,
                        listing'[k] = listing'[j]
                 PROVE  k = j
      BY <2>1 DEF Distinct
    <2>2. from(k) \in DOMAIN listing /\ from(j) \in DOMAIN listing
      BY <1>3
    <2>3. listing[from(k)] = listing[from(j)]
      BY <1>5
    <2>4. from(k) = from(j)
      <3> HIDE DEF from
      <3>1. QED
        BY <1>1, <2>2, <2>3 DEF Distinct
    <2>5. QED
      BY <1>3, <2>4
  <1>7. \A k \in Nat, S \in SUBSET Drawers :
           Near(Cardinality(RestOf(listing', k, S)), Cardinality(RestOf(listing, k, S)))
    BY <1>1, <1>2, <1>3, DeletingMovesOne
  <1>8. QED
    BY <1>4, <1>5, <1>6, <1>7, StoreMoves

-----------------------------------------------------------------------------
\* One request changes its record, the store stays.
LEMMA RecordMoves ==
  ASSUME StatsInv, NEW w \in Walks, NEW record \in WalkRecords,
         walks' = [walks EXCEPT ![w] = record], UNCHANGED <<listing, changes, statClock>>,
         statCache' \in [Scopes -> {NoEntry} \cup Entries], CacheFits',
         record.at = "walking" =>
            /\ record.page \in Nat \ {0} /\ record.scope \in Scopes
            /\ Fits(record.found, Cardinality(RestOf(listing, (record.page - 1) * PageSize,
                                                     Sees[record.scope])), changes),
         record.at = "answered" =>
            record.found.total - Cardinality(record.found.began) \in
               (-record.changed) .. record.changed
  PROVE  StatsInv'
  <1>1. walks \in [Walks -> WalkRecords]
    BY DEF StatsInv, StatsShape
  <1>2. StatsShape'
    BY <1>1 DEF StatsInv, StatsShape
  <1>3. \A v \in Walks : walks'[v] = IF v = w THEN record ELSE walks[v]
    BY <1>1
  <1>4. WalkFits'
    <2> SUFFICES ASSUME NEW v \in Walks, walks'[v].at = "walking"
                 PROVE  /\ walks'[v].page \in Nat \ {0} /\ walks'[v].scope \in Scopes
                        /\ Fits(walks'[v].found,
                                Cardinality(RestOf(listing, (walks'[v].page - 1) * PageSize,
                                                   Sees[walks'[v].scope])), changes)
      BY DEF WalkFits, ToCome
    <2>1. CASE v = w
      BY <1>3, <2>1
    <2>2. CASE v # w
      <3>1. walks'[v] = walks[v]
        BY <1>3, <2>2
      <3>2. QED
        BY <3>1 DEF StatsInv, WalkFits, ToCome
    <2>3. QED
      BY <2>1, <2>2
  <1>5. CountErrorIsBounded'
    <2> SUFFICES ASSUME NEW v \in Walks, walks'[v].at = "answered"
                 PROVE  walks'[v].found.total - Cardinality(walks'[v].found.began) \in
                           (-walks'[v].changed) .. walks'[v].changed
      BY DEF CountErrorIsBounded
    <2>1. CASE v = w
      BY <1>3, <2>1
    <2>2. CASE v # w
      <3>1. walks'[v] = walks[v]
        BY <1>3, <2>2
      <3>2. QED
        BY <3>1 DEF StatsInv, CountErrorIsBounded
    <2>3. QED
      BY <2>1, <2>2
  <1>6. QED
    BY <1>2, <1>4, <1>5 DEF StatsInv

\* An answer whose findings fit.
LEMMA AnswerFits ==
  ASSUME StatsInv, NEW w \in Walks, NEW s \in Scopes, NEW found, Fits(found, 0, changes),
         Answer(w, s, found), UNCHANGED <<listing, changes, statClock>>,
         statCache' \in [Scopes -> {NoEntry} \cup Entries], CacheFits'
  PROVE  StatsInv'
  <1> DEFINE record == [walks[w] EXCEPT !.at = "answered", !.scope = s, !.found = found,
                                        !.changed = changes - found.since]
  <1>1. walks[w] \in WalkRecords /\ changes \in Nat
    BY DEF StatsInv, StatsShape
  <1>2. /\ found \in Findings /\ found.total \in Nat /\ found.since \in Nat
        /\ Cardinality(found.began) \in Nat /\ found.since <= changes
        /\ Slack(found.total + 0 - Cardinality(found.began), changes - found.since)
    BY FS_CardinalityType DEF Fits, Findings
  <1>3. changes - found.since \in Nat
    BY <1>1, <1>2
  <1>4. /\ record \in WalkRecords /\ record.at = "answered" /\ record.found = found
        /\ record.changed = changes - found.since
    BY <1>1, <1>2, <1>3 DEF WalkRecords
  <1>5. walks' = [walks EXCEPT ![w] = record]
    BY DEF Answer
  <1> HIDE DEF record
  <1>6. found.total - Cardinality(found.began) \in (-(changes - found.since)) .. (changes - found.since)
    BY <1>2, <1>3 DEF Slack
  <1>7. QED
    BY <1>4, <1>5, <1>6, RecordMoves

LEMMA CacheStays ==
  ASSUME StatsInv, UNCHANGED <<statCache, changes>>
  PROVE  statCache' \in [Scopes -> {NoEntry} \cup Entries] /\ CacheFits'
  BY DEF StatsInv, StatsShape, CacheFits

LEMMA AskKeeps ==
  ASSUME WalkAssumption, StatsInv, NEW w \in Walks, NEW s \in Scopes,
         AskCache(w, s) \/ \E fresh \in BOOLEAN : AskWalk(w, s, fresh)
  PROVE  StatsInv'
  <1>1. UNCHANGED <<listing, statCache, changes, statClock>>
    BY DEF AskCache, AskWalk
  <1>2. statCache' \in [Scopes -> {NoEntry} \cup Entries] /\ CacheFits'
    BY <1>1, CacheStays
  <1>3. CASE AskCache(w, s)
    <2>1. Fits(statCache[s].found, 0, changes) /\ Answer(w, s, statCache[s].found)
      BY <1>3 DEF AskCache, CacheHit, StatsInv, CacheFits
    <2>2. QED
      BY <1>1, <1>2, <2>1, AnswerFits
  <1>4. CASE \E fresh \in BOOLEAN : AskWalk(w, s, fresh)
    <2> DEFINE visible == Standing \cap Sees[s]
               found == [NoFindings EXCEPT !.began = visible, !.since = changes]
               record == [at |-> "walking", scope |-> s, page |-> 1, changed |-> 0, found |-> found]
    <2>1. walks' = [walks EXCEPT ![w] = record]
      BY <1>4 DEF AskWalk
    <2>2. listing \in Seq(Drawers) /\ changes \in Nat /\ PageSize \in Nat
      BY DEF StatsInv, StatsShape, WalkAssumption
    <2>3. RestOf(listing, (1 - 1) * PageSize, Sees[s]) = visible
      <3>1. (1 - 1) * PageSize = 0
        BY <2>2
      <3>2. \A i \in DOMAIN listing : 0 < i
        BY <2>2
      <3>3. QED
        BY <3>1, <3>2 DEF RestOf, Standing, ToSet
    <2>4. IsFiniteSet(visible) /\ Cardinality(visible) \in Nat
      BY <2>2, <2>3, RestIsFinite
    <2>5. visible \subseteq Drawers
      BY <2>2 DEF Standing, ToSet
    <2> HIDE DEF visible
    <2>6. found \in Findings /\ found.began = visible /\ found.since = changes /\ found.total = 0
      BY <2>2, <2>5 DEF NoFindings, Findings
    <2>7. record \in WalkRecords
      BY <2>6 DEF WalkRecords
    <2>8. record.at = "walking" /\ record.page = 1 /\ record.scope = s /\ record.found = found
      OBVIOUS
    <2> HIDE DEF found, record
    <2>9. Fits(found, Cardinality(visible), changes)
      BY <2>2, <2>4, <2>6 DEF Fits, Slack
    <2>10. Fits(record.found, Cardinality(RestOf(listing, (record.page - 1) * PageSize,
                                                 Sees[record.scope])), changes)
      BY <2>3, <2>8, <2>9
    <2>11. record.page \in Nat \ {0} /\ record.scope \in Scopes /\ record.at # "answered"
      BY <2>8
    <2>12. QED
      BY <1>1, <1>2, <2>1, <2>7, <2>10, <2>11, RecordMoves
  <1>5. QED
    BY <1>3, <1>4

\* Counting a page takes its rows from those to come.
LEMMA CountingKeeps ==
  ASSUME WalkAssumption, StatsInv, NEW w \in Walks, walks[w].at = "walking"
  PROVE  /\ walks[w].scope \in Scopes /\ walks[w].page \in Nat \ {0}
         /\ Fits(Counted(w), Cardinality(RestOf(listing, walks[w].page * PageSize,
                                                Sees[walks[w].scope])), changes)
  <1> DEFINE n == walks[w].page
             S == Sees[walks[w].scope]
             f == walks[w].found
             here == Cardinality(Page(n) \cap S)
             rest == Cardinality(RestOf(listing, n * PageSize, S))
  <1>1. /\ walks[w].scope \in Scopes /\ n \in Nat \ {0} /\ changes \in Nat
        /\ Fits(f, ToCome(w), changes)
    BY DEF StatsInv, StatsShape, WalkFits
  <1>2. listing \in Seq(Drawers) /\ Distinct(listing)
    BY DEF StatsInv, StatsShape
  <1>3. here \in Nat /\ ToCome(w) = here + rest
    BY <1>1, <1>2, PageSplitsRest DEF ToCome
  <1>4. rest \in Nat
    BY <1>2, RestIsFinite
  <1>5. Counted(w) = [f EXCEPT !.total = @ + here]
    BY DEF Counted
  <1> HIDE DEF n, S, f, here, rest
  <1>6. /\ f \in Findings /\ IsFiniteSet(f.began) /\ f.since <= changes
        /\ Slack(f.total + (here + rest) - Cardinality(f.began), changes - f.since)
    BY <1>1, <1>3 DEF Fits
  <1>7. f.total \in Nat /\ Cardinality(f.began) \in Nat
    BY <1>6, FS_CardinalityType DEF Findings
  <1>8. /\ Counted(w) \in Findings /\ Counted(w).began = f.began /\ Counted(w).since = f.since
        /\ Counted(w).total = f.total + here
    BY <1>3, <1>5, <1>6, <1>7 DEF Findings
  <1>9. (f.total + here) + rest - Cardinality(f.began) = f.total + (here + rest) - Cardinality(f.began)
    BY <1>3, <1>4, <1>7
  <1>10. Fits(Counted(w), rest, changes)
    BY <1>6, <1>8, <1>9 DEF Fits
  <1>11. QED
    BY <1>1, <1>10 DEF n, S, rest

LEMMA ReadPageKeeps ==
  ASSUME WalkAssumption, StatsInv, NEW w \in Walks, ReadPage(w)
  PROVE  StatsInv'
  <1> DEFINE n == walks[w].page
             record == [walks[w] EXCEPT !.page = n + 1, !.found = Counted(w)]
  <1>1. /\ walks[w].at = "walking" /\ walks' = [walks EXCEPT ![w] = record]
        /\ UNCHANGED <<listing, statCache, changes, statClock>>
    BY DEF ReadPage
  <1>2. /\ walks[w].scope \in Scopes /\ n \in Nat \ {0}
        /\ Fits(Counted(w), Cardinality(RestOf(listing, n * PageSize, Sees[walks[w].scope])), changes)
    BY <1>1, CountingKeeps
  <1>3. walks[w] \in WalkRecords /\ Counted(w) \in Findings
    BY <1>2 DEF StatsInv, StatsShape, Fits
  <1>4. /\ record \in WalkRecords /\ record.at = "walking" /\ record.page = n + 1
        /\ record.scope = walks[w].scope /\ record.found = Counted(w)
    <2>1. walks[w].page \in Nat /\ n + 1 \in Nat
      BY <1>2
    <2> HIDE DEF n
    <2>2. record \in WalkRecords
      BY <1>3, <2>1 DEF WalkRecords
    <2>3. /\ record.at = walks[w].at /\ record.page = n + 1 /\ record.scope = walks[w].scope
          /\ record.found = Counted(w)
      BY <1>3 DEF WalkRecords
    <2>4. QED
      BY <1>1, <2>2, <2>3
  <1>5. (n + 1) - 1 = n /\ n + 1 \in Nat \ {0}
    BY <1>2
  <1>6. statCache' \in [Scopes -> {NoEntry} \cup Entries] /\ CacheFits'
    BY <1>1, CacheStays
  <1> HIDE DEF record, n
  <1>7. /\ record.page \in Nat \ {0} /\ record.scope \in Scopes /\ record.at # "answered"
        /\ Fits(record.found, Cardinality(RestOf(listing, (record.page - 1) * PageSize,
                                                 Sees[record.scope])), changes)
    BY <1>2, <1>4, <1>5
  <1>8. QED
    BY <1>1, <1>4, <1>6, <1>7, RecordMoves

LEMMA LastPageKeeps ==
  ASSUME WalkAssumption, StatsInv, NEW w \in Walks, ReadLastPage(w)
  PROVE  StatsInv'
  <1> DEFINE n == walks[w].page
             s == walks[w].scope
  <1>1. /\ walks[w].at = "walking" /\ ~HasMore(n) /\ Answer(w, s, Counted(w))
        /\ statCache' = [statCache EXCEPT ![s] = [until |-> statClock + CacheTtl, found |-> Counted(w)]]
        /\ UNCHANGED <<listing, changes, statClock>>
    BY DEF ReadLastPage
  <1>2. /\ s \in Scopes /\ n \in Nat \ {0}
        /\ Fits(Counted(w), Cardinality(RestOf(listing, n * PageSize, Sees[s])), changes)
    BY <1>1, CountingKeeps
  <1>3. /\ listing \in Seq(Drawers) /\ PageSize \in Nat /\ CacheTtl \in Nat /\ statClock \in Nat
        /\ statCache \in [Scopes -> {NoEntry} \cup Entries]
    BY DEF StatsInv, StatsShape, WalkAssumption
  <1> HIDE DEF n, s
  <1>4. RestOf(listing, n * PageSize, Sees[s]) = {}
    <2>1. n * PageSize \in Nat /\ Len(listing) \in Nat
      BY <1>2, <1>3
    <2>2. ~ (n * PageSize < Len(listing))
      BY <1>1 DEF HasMore
    <2> DEFINE m == n * PageSize
    <2> HIDE DEF m
    <2>3. \A i \in DOMAIN listing : ~ (m < i)
      BY <1>3, <2>1, <2>2 DEF m
    <2>4. QED
      BY <2>3 DEF RestOf, m
  <1>5. Fits(Counted(w), 0, changes)
    <2>1. Cardinality({}) = 0
      BY FS_EmptySet
    <2>2. QED
      BY <1>2, <1>4, <2>1
  <1>6. statCache' \in [Scopes -> {NoEntry} \cup Entries]
    <2>1. [until |-> statClock + CacheTtl, found |-> Counted(w)] \in Entries
      BY <1>3, <1>5 DEF Fits, Entries
    <2>2. QED
      BY <1>1, <1>3, <2>1
  <1>7. CacheFits'
    <2> SUFFICES ASSUME NEW r \in Scopes, statCache'[r] # NoEntry
                 PROVE  Fits(statCache'[r].found, 0, changes)
      BY <1>1 DEF CacheFits
    <2>1. CASE r = s
      <3>1. statCache'[r].found = Counted(w)
        BY <1>1, <1>3, <2>1
      <3>2. QED
        BY <1>5, <3>1
    <2>2. CASE r # s
      BY <1>1, <1>3, <2>2 DEF StatsInv, CacheFits
    <2>3. QED
      BY <2>1, <2>2
  <1>8. QED
    BY <1>1, <1>2, <1>5, <1>6, <1>7, AnswerFits

LEMMA FailureKeeps ==
  ASSUME StatsInv, NEW w \in Walks, PageFails(w)
  PROVE  StatsInv'
  <1> DEFINE record == [walks[w] EXCEPT !.at = "refused"]
  <1>1. walks' = [walks EXCEPT ![w] = record] /\ UNCHANGED <<listing, statCache, changes, statClock>>
    BY DEF PageFails
  <1>2. walks[w] \in WalkRecords
    BY DEF StatsInv, StatsShape
  <1>3. record \in WalkRecords /\ record.at = "refused"
    BY <1>2 DEF WalkRecords
  <1>4. statCache' \in [Scopes -> {NoEntry} \cup Entries] /\ CacheFits'
    BY <1>1, CacheStays
  <1> HIDE DEF record
  <1>5. QED
    BY <1>1, <1>3, <1>4, RecordMoves

LEMMA StatsMove == WalkAssumption /\ StatsInv /\ [StatsNext]_statVars => StatsInv'
  <1> SUFFICES ASSUME WalkAssumption, StatsInv, [StatsNext]_statVars PROVE StatsInv'
    OBVIOUS
  <1>1. CASE \E d \in Drawers : AddDrawer(d) \/ DeleteDrawer(d)
    BY <1>1, AddKeeps, DeleteKeeps
  <1>2. CASE \E w \in Walks, s \in Scopes :
               AskCache(w, s) \/ \E fresh \in BOOLEAN : AskWalk(w, s, fresh)
    BY <1>2, AskKeeps
  <1>3. CASE \E w \in Walks : WalkStep(w)
    BY <1>3, ReadPageKeeps, LastPageKeeps, FailureKeeps DEF WalkStep
  <1>4. CASE StatsTick \/ UNCHANGED statVars
    <2>1. UNCHANGED <<listing, walks, statCache, changes>> /\ statClock' \in Nat
      BY <1>4 DEF StatsTick, statVars, StatsInv, StatsShape
    <2>2. StatsShape'
      BY <2>1 DEF StatsInv, StatsShape
    <2>3. WalkFits' /\ CacheFits' /\ CountErrorIsBounded'
      BY <2>1 DEF StatsInv, WalkFits, ToCome, CacheFits, CountErrorIsBounded
    <2>4. QED
      BY <2>2, <2>3 DEF StatsInv
  <1>5. QED
    BY <1>1, <1>2, <1>3, <1>4 DEF StatsNext

\* The total that aggregate_stats answers, from its walk or from the cache, is
\* off by no more than the drawers added and deleted since the walk began: for
\* any page size, number of walks and listing.
THEOREM CountsAreBounded == StatsSpec => []CountErrorIsBounded
  <1>1. StatsInv => CountErrorIsBounded
    BY DEF StatsInv
  <1>2. StatsInit => StatsInv
    BY StatsStarts, WalkAssumption
  <1>3. StatsInv /\ [StatsNext]_statVars => StatsInv'
    BY StatsMove, WalkAssumption
  <1>4. QED
    BY <1>1, <1>2, <1>3, PTL DEF StatsSpec

=============================================================================
