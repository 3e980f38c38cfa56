----------------------------- MODULE OrderProofs -----------------------------
(***************************************************************************)
(* Proofs about what is put in order: the answers of a read, which Recall  *)
(* filters, sorts and ranks, and the calibration of a slice, which takes   *)
(* maxima and minima of fractions.                                         *)
(***************************************************************************)
EXTENDS CalibrationFit, Recall, FiniteSetTheorems, SequenceTheorems, TLAPS

-----------------------------------------------------------------------------
(* Total orders on finite sets *)

StrictOrder(S, before) ==
    /\ \A x \in S : <<x, x>> \notin before
    /\ \A x, y, z \in S : <<x, y>> \in before /\ <<y, z>> \in before => <<x, z>> \in before

TotalOrder(S, before) ==
    /\ StrictOrder(S, before)
    /\ \A x, y \in S : x # y => <<x, y>> \in before \/ <<y, x>> \in before

\* How many come before x.
Earlier(S, before, x) == Cardinality({y \in S : <<y, x>> \in before})

\* Whoever comes later has more before him.
LEMMA LaterHasMore ==
  ASSUME NEW S, IsFiniteSet(S), NEW before, StrictOrder(S, before),
         NEW x \in S, NEW y \in S, <<x, y>> \in before
  PROVE  /\ Earlier(S, before, x) \in Nat /\ Earlier(S, before, y) \in Nat
         /\ Earlier(S, before, x) < Earlier(S, before, y)
  <1> DEFINE A == {z \in S : <<z, x>> \in before}
             B == {z \in S : <<z, y>> \in before}
  <1>1. IsFiniteSet(A) /\ IsFiniteSet(B)
    BY FS_Subset
  <1>2. Cardinality(A) \in Nat /\ Cardinality(B) \in Nat
    BY <1>1, FS_CardinalityType
  <1>3. A \in SUBSET B /\ A # B
    BY DEF StrictOrder
  <1>4. Cardinality(A) <= Cardinality(B) /\ Cardinality(A) # Cardinality(B)
    BY <1>1, <1>3, FS_Subset
  <1> QED BY <1>2, <1>4 DEF Earlier

\* Each place is somebody's, and everybody has one.
LEMMA PlacesAreTaken ==
  ASSUME NEW S, IsFiniteSet(S), NEW before, TotalOrder(S, before)
  PROVE  /\ Cardinality(S) \in Nat
         /\ \A n \in 1..Cardinality(S) :
               \E x \in S : Earlier(S, before, x) = n - 1
         /\ \A x \in S : Earlier(S, before, x) \in 0..(Cardinality(S) - 1)
  <1> DEFINE rank(x) == Earlier(S, before, x)
             g == [x \in S |-> rank(x) + 1]
             N == Cardinality(S)
  <1>1. N \in Nat
    BY FS_CardinalityType
  <1>2. ASSUME NEW x \in S PROVE rank(x) \in 0..(N - 1)
    <2> DEFINE A == {y \in S : <<y, x>> \in before}
    <2>1. A \in SUBSET S /\ A # S
      BY DEF TotalOrder, StrictOrder
    <2>2. IsFiniteSet(A) /\ Cardinality(A) <= N /\ Cardinality(A) # N
      BY <2>1, FS_Subset
    <2>3. Cardinality(A) \in Nat
      BY <2>2, FS_CardinalityType
    <2> QED BY <1>1, <2>2, <2>3 DEF Earlier
  <1>3. ASSUME NEW x \in S, NEW y \in S, x # y PROVE rank(x) # rank(y)
    <2>1. <<x, y>> \in before \/ <<y, x>> \in before
      BY <1>3 DEF TotalOrder, StrictOrder
    <2> HIDE DEF rank
    <2>2. rank(x) < rank(y) \/ rank(y) < rank(x)
      BY <2>1, LaterHasMore DEF rank, TotalOrder
    <2> QED BY <1>2, <2>2
  <1>4. g \in Injection(S, 1..N)
    <2> HIDE DEF rank
    <2>1. \A x \in S : rank(x) + 1 \in 1..N
      BY <1>1, <1>2
    <2>2. \A x, y \in S : rank(x) + 1 = rank(y) + 1 => x = y
      BY <1>2, <1>3
    <2> QED BY <2>1, <2>2 DEF Injection, IsInjective
  <1>5. IsFiniteSet(1..N) /\ Cardinality(1..N) = N
    BY <1>1, FS_Interval
  <1>6. g \in Surjection(S, 1..N)
    <2> HIDE DEF g
    <2> QED BY <1>4, <1>5, FS_Injection
  <1>7. ASSUME NEW n \in 1..N PROVE \E x \in S : rank(x) = n - 1
    <2> HIDE DEF rank
    <2>1. PICK x \in S : g[x] = n
      BY <1>6 DEF Surjection
    <2>2. rank(x) + 1 = n
      BY <2>1
    <2> QED BY <1>2, <2>2
  <1> QED BY <1>1, <1>2, <1>7

\* InOrder lists a finite set: each member once, and in the order given.
LEMMA OrderLists ==
  ASSUME NEW S, IsFiniteSet(S), NEW before, TotalOrder(S, before)
  PROVE  /\ InOrder(S, before) \in Seq(S) /\ Len(InOrder(S, before)) = Cardinality(S)
         /\ DOMAIN InOrder(S, before) = 1..Cardinality(S)
         /\ \A x \in S : \E n \in 1..Cardinality(S) : InOrder(S, before)[n] = x
         /\ \A m, n \in 1..Cardinality(S) :
               <<InOrder(S, before)[m], InOrder(S, before)[n]>> \in before => m < n
  <1> DEFINE rank(x) == Earlier(S, before, x)
             N == Cardinality(S)
             f == InOrder(S, before)
  <1>1. N \in Nat /\ \A x \in S : rank(x) \in 0..(N - 1)
    BY PlacesAreTaken
  <1>2. \A n \in 1..N : \E x \in S : rank(x) = n - 1
    BY PlacesAreTaken
  <1>3. \A x, y \in S : <<x, y>> \in before => rank(x) < rank(y)
    BY LaterHasMore DEF TotalOrder
  <1>4. f = [n \in 1..N |-> CHOOSE x \in S : rank(x) = n - 1]
    BY DEF InOrder, Earlier
  <1> HIDE DEF rank, f
  <1>5. \A n \in 1..N : f[n] \in S /\ rank(f[n]) = n - 1
    BY <1>2, <1>4
  <1>6. f \in [1..N -> S] /\ DOMAIN f = 1..N
    BY <1>4, <1>5
  <1>7. f \in Seq(S) /\ Len(f) = N
    BY <1>1, <1>6
  <1>8. ASSUME NEW x \in S PROVE \E n \in 1..N : f[n] = x
    <2>1. rank(x) + 1 \in 1..N
      BY <1>1
    <2>2. rank(f[rank(x) + 1]) = rank(x) /\ f[rank(x) + 1] \in S
      BY <1>1, <1>5, <2>1
    <2>3. f[rank(x) + 1] = x
      <3>1. SUFFICES ASSUME f[rank(x) + 1] # x PROVE FALSE
        OBVIOUS
      <3>2. rank(f[rank(x) + 1]) < rank(x) \/ rank(x) < rank(f[rank(x) + 1])
        BY <1>3, <2>2, <3>1 DEF TotalOrder, StrictOrder
      <3> QED BY <1>1, <2>2, <3>2
    <2> QED BY <2>1, <2>3
  <1>9. ASSUME NEW m \in 1..N, NEW n \in 1..N, <<f[m], f[n]>> \in before PROVE m < n
    <2>1. m - 1 < n - 1
      BY <1>3, <1>5, <1>9
    <2> QED BY <1>1, <2>1
  <1> QED BY <1>6, <1>7, <1>8, <1>9 DEF f

\* A nonempty finite set has a first member.
LEMMA SomeoneIsFirst ==
  ASSUME NEW S, IsFiniteSet(S), S # {}, NEW before, TotalOrder(S, before)
  PROVE  \E x \in S : \A y \in S : <<y, x>> \notin before
  <1>1. Cardinality(S) \in Nat /\ Cardinality(S) # 0
    BY FS_CardinalityType, FS_EmptySet
  <1>2. PICK x \in S : Earlier(S, before, x) = 1 - 1
    BY <1>1, PlacesAreTaken
  <1> DEFINE A == {y \in S : <<y, x>> \in before}
  <1>3. A \in SUBSET S /\ Cardinality(A) = 0
    BY <1>2 DEF Earlier
  <1>4. IsFiniteSet(A)
    BY <1>3, FS_Subset
  <1>5. A = {}
    BY <1>3, <1>4, FS_EmptySet
  <1> QED BY <1>5

-----------------------------------------------------------------------------
(* Recall: sequences of drawers *)

\* Rearranging a sequence by a listing of some of its positions gives what
\* stands there.
LEMMA RearrangedIsPart ==
  ASSUME NEW R, NEW s \in Seq(R), NEW order \in Seq(DOMAIN s)
  PROVE  /\ At(s, order) \in Seq(R)
         /\ ToSet(At(s, order)) = {s[order[n]] : n \in DOMAIN order}
  <1>1. /\ Len(order) \in Nat /\ DOMAIN order = 1..Len(order)
        /\ \A n \in 1..Len(order) : order[n] \in DOMAIN s
    BY LenProperties, ElementOfSeq
  <1>2. \A i \in DOMAIN s : s[i] \in R
    BY LenProperties, ElementOfSeq
  <1>3. At(s, order) \in [1..Len(order) -> R]
    BY <1>1, <1>2 DEF At
  <1>4. At(s, order) \in Seq(R) /\ DOMAIN At(s, order) = DOMAIN order
    BY <1>1, <1>3
  <1>5. \A n \in DOMAIN order : At(s, order)[n] = s[order[n]]
    BY DEF At
  <1> HIDE DEF At
  <1> QED BY <1>4, <1>5 DEF ToSet

\* Positions are finitely many, and so is what stands at them.
LEMMA PositionsAreFinite ==
  ASSUME NEW R, NEW s \in Seq(R)
  PROVE  IsFiniteSet(DOMAIN s) /\ DOMAIN s \subseteq Nat
  <1>1. DOMAIN s = 1..Len(s) /\ Len(s) \in Nat
    BY LenProperties
  <1>2. IsFiniteSet(1..Len(s)) /\ 1..Len(s) \subseteq Nat
    BY <1>1, FS_Interval
  <1> QED BY <1>1, <1>2

\* Sorting keeps what it sorts.
LEMMA SortingKeeps ==
  ASSUME NEW R, NEW s \in Seq(R), NEW key \in [R -> Int]
  PROVE  SortedDown(s, key) \in Seq(R) /\ ToSet(SortedDown(s, key)) = ToSet(s)
  <1> DEFINE before == {p \in (DOMAIN s) \X (DOMAIN s) :
                          \/ key[s[p[1]]] > key[s[p[2]]]
                          \/ key[s[p[1]]] = key[s[p[2]]] /\ p[1] < p[2]}
             order == InOrder(DOMAIN s, before)
  <1>1. IsFiniteSet(DOMAIN s) /\ DOMAIN s \subseteq Nat
    BY PositionsAreFinite
  <1>2. \A i \in DOMAIN s : key[s[i]] \in Int
    BY LenProperties, ElementOfSeq
  <1>3. \A i, j \in DOMAIN s :
          <<i, j>> \in before <=> key[s[i]] > key[s[j]] \/ (key[s[i]] = key[s[j]] /\ i < j)
    OBVIOUS
  <1> HIDE DEF before
  <1>4. TotalOrder(DOMAIN s, before)
    <2>1. ASSUME NEW i \in DOMAIN s, NEW j \in DOMAIN s, NEW l \in DOMAIN s,
                 <<i, j>> \in before, <<j, l>> \in before
          PROVE  <<i, l>> \in before
      <3>1. /\ i \in Nat /\ j \in Nat /\ l \in Nat
            /\ key[s[i]] \in Int /\ key[s[j]] \in Int /\ key[s[l]] \in Int
        BY <1>1, <1>2
      <3>2. /\ key[s[i]] > key[s[j]] \/ (key[s[i]] = key[s[j]] /\ i < j)
            /\ key[s[j]] > key[s[l]] \/ (key[s[j]] = key[s[l]] /\ j < l)
        BY <1>3, <2>1
      <3>3. key[s[i]] > key[s[l]] \/ (key[s[i]] = key[s[l]] /\ i < l)
        BY <3>1, <3>2
      <3> QED BY <1>3, <3>3
    <2>2. ASSUME NEW i \in DOMAIN s PROVE <<i, i>> \notin before
      BY <1>1, <1>2, <1>3
    <2>3. ASSUME NEW i \in DOMAIN s, NEW j \in DOMAIN s, i # j
          PROVE  <<i, j>> \in before \/ <<j, i>> \in before
      <3>1. i \in Nat /\ j \in Nat /\ key[s[i]] \in Int /\ key[s[j]] \in Int
        BY <1>1, <1>2
      <3>2. \/ key[s[i]] > key[s[j]] \/ (key[s[i]] = key[s[j]] /\ i < j)
            \/ key[s[j]] > key[s[i]] \/ (key[s[j]] = key[s[i]] /\ j < i)
        BY <2>3, <3>1
      <3> QED BY <1>3, <3>2
    <2> QED BY <2>1, <2>2, <2>3 DEF TotalOrder, StrictOrder
  <1>5. order \in Seq(DOMAIN s) /\ \A i \in DOMAIN s : \E n \in DOMAIN order : order[n] = i
    BY <1>1, <1>4, OrderLists
  <1>6. \A n \in DOMAIN order : order[n] \in DOMAIN s
    BY <1>5, LenProperties, ElementOfSeq
  <1>7. SortedDown(s, key) = At(s, order)
    BY DEF SortedDown, before
  <1> HIDE DEF order
  <1>8. At(s, order) \in Seq(R) /\ ToSet(At(s, order)) = {s[order[n]] : n \in DOMAIN order}
    BY <1>5, RearrangedIsPart
  <1>9. {s[order[n]] : n \in DOMAIN order} = {s[i] : i \in DOMAIN s}
    BY <1>5, <1>6
  <1> QED BY <1>7, <1>8, <1>9 DEF ToSet

\* A comprehension keeps what it asks for.
LEMMA KeepingKeeps ==
  ASSUME NEW R, NEW s \in Seq(R), NEW P
  PROVE  Keep(s, P) \in Seq(R) /\ ToSet(Keep(s, P)) = ToSet(s) \cap P
  <1> DEFINE before == {p \in (DOMAIN s) \X (DOMAIN s) : p[1] < p[2]}
             S == {i \in DOMAIN s : s[i] \in P}
             order == InOrder(S, before)
  <1>1. IsFiniteSet(DOMAIN s) /\ DOMAIN s \subseteq Nat
    BY PositionsAreFinite
  <1>2. IsFiniteSet(S) /\ S \subseteq DOMAIN s
    BY <1>1, FS_Subset
  <1>3. \A i, j \in S : <<i, j>> \in before <=> i < j
    OBVIOUS
  <1>4. TotalOrder(S, before)
    <2> HIDE DEF before
    <2> QED BY <1>1, <1>2, <1>3 DEF TotalOrder, StrictOrder
  <1>5. Keep(s, P) = At(s, order)
    BY DEF Keep
  <1>6. \A i : i \in S <=> i \in DOMAIN s /\ s[i] \in P
    OBVIOUS
  <1> HIDE DEF before, S
  <1>7. order \in Seq(S) /\ \A i \in S : \E n \in DOMAIN order : order[n] = i
    <2>1. order \in Seq(S) /\ DOMAIN order = 1..Cardinality(S)
      BY <1>2, <1>4, OrderLists
    <2>2. \A i \in S : \E n \in 1..Cardinality(S) : order[n] = i
      BY <1>2, <1>4, OrderLists
    <2> HIDE DEF order
    <2> QED BY <2>1, <2>2
  <1> HIDE DEF order
  <1>8. order \in Seq(DOMAIN s)
    BY <1>2, <1>7, SeqMonotonic
  <1>9. \A n \in DOMAIN order : order[n] \in S
    BY <1>7, LenProperties, ElementOfSeq
  <1>10. At(s, order) \in Seq(R) /\ ToSet(At(s, order)) = {s[order[n]] : n \in DOMAIN order}
    BY <1>8, RearrangedIsPart
  <1>11. {s[order[n]] : n \in DOMAIN order} = {s[i] : i \in DOMAIN s} \cap P
    BY <1>6, <1>7, <1>9
  <1> QED BY <1>5, <1>10, <1>11 DEF ToSet

\* A prefix is as long as asked, or whole.
LEMMA FirstIsPart ==
  ASSUME NEW R, NEW s \in Seq(R), NEW k \in Nat
  PROVE  /\ First(s, k) \in Seq(R) /\ Len(First(s, k)) = SmallerOf(k, Len(s))
         /\ \A i \in 1..SmallerOf(k, Len(s)) : First(s, k)[i] = s[i]
         /\ ToSet(First(s, k)) \subseteq ToSet(s)
  <1> DEFINE n == SmallerOf(k, Len(s))
  <1>1. Len(s) \in Nat /\ DOMAIN s = 1..Len(s) /\ \A i \in DOMAIN s : s[i] \in R
    BY LenProperties, ElementOfSeq
  <1>2. n \in Nat /\ n <= Len(s)
    BY <1>1 DEF SmallerOf
  <1> HIDE DEF n
  <1>3. \A i \in 1..n : s[i] \in R
    BY <1>1, <1>2
  <1>4. /\ SubSeq(s, 1, n) \in Seq(R)
        /\ Len(SubSeq(s, 1, n)) = IF 1 <= n THEN n - 1 + 1 ELSE 0
        /\ \A i \in 1..n - 1 + 1 : SubSeq(s, 1, n)[i] = s[1 + i - 1]
    BY <1>2, <1>3, SubSeqProperties
  <1>5. First(s, k) = SubSeq(s, 1, n)
    BY DEF First, n
  <1>6. /\ First(s, k) \in Seq(R) /\ Len(First(s, k)) = n
        /\ \A i \in 1..n : First(s, k)[i] = s[i]
    BY <1>2, <1>4, <1>5
  <1>7. DOMAIN First(s, k) = 1..n
    BY <1>6, LenProperties
  <1>8. ToSet(First(s, k)) \subseteq ToSet(s)
    BY <1>1, <1>2, <1>6, <1>7 DEF ToSet
  <1> QED BY <1>6, <1>8 DEF n

\* The store lists each drawer.
LEMMA AllRowsAreRows ==
  ASSUME ReadAssumption
  PROVE  AllRows \in Seq(Rows)
  <1>1. IsFiniteSet(Rows)
    BY DEF ReadAssumption
  <1>2. Cardinality(Rows) \in Nat /\ ExistsBijection(1..Cardinality(Rows), Rows)
    BY <1>1, FS_CardinalityType
  <1>3. \E f \in [1..Cardinality(Rows) -> Rows] : IsInjective(f)
    BY <1>2 DEF ExistsBijection, Bijection, Injection
  <1>4. AllRows \in [1..Cardinality(Rows) -> Rows]
    BY <1>3 DEF AllRows, SetToSeq
  <1> QED BY <1>2, <1>4

-----------------------------------------------------------------------------
(* Fractions, compared by cross-multiplication *)

\* A positive factor keeps the order.
LEMMA ProductsAreOrdered ==
  ASSUME NEW a \in Int, NEW b \in Int, NEW c \in Nat \ {0}
  PROVE  /\ a * c \in Int /\ b * c \in Int
         /\ a =< b <=> a * c =< b * c
         /\ a < b <=> a * c < b * c
  <1>1. (b - a) * c = b * c - a * c /\ a * c \in Int /\ b * c \in Int
    OBVIOUS
  <1>2. ASSUME NEW d \in Int
        PROVE  (d >= 0 <=> d * c >= 0) /\ (d > 0 <=> d * c > 0)
    OBVIOUS
  <1>3. b - a \in Int
    OBVIOUS
  <1> QED BY <1>1, <1>2, <1>3

\* p/x <= q/y <= r/z gives p/x <= r/z, strictly if one of them is strict.
LEMMA FractionsAreOrdered ==
  ASSUME NEW p \in Nat, NEW q \in Nat, NEW r \in Nat,
         NEW x \in Nat \ {0}, NEW y \in Nat \ {0}, NEW z \in Nat \ {0},
         p * y =< q * x, q * z =< r * y
  PROVE  /\ p * z =< r * x
         /\ p * y < q * x \/ q * z < r * y => p * z < r * x
  <1> DEFINE py == p * y
             qx == q * x
             qz == q * z
             ry == r * y
             pz == p * z
             rx == r * x
  <1>1. py \in Int /\ qx \in Int /\ qz \in Int /\ ry \in Int /\ pz \in Int /\ rx \in Int
    OBVIOUS
  <1>2. py * z = pz * y /\ qx * z = qz * x /\ ry * x = rx * y
    OBVIOUS
  <1>3. py =< qx /\ qz =< ry
    OBVIOUS
  <1> HIDE DEF py, qx, qz, ry, pz, rx
  <1>4. py * z =< qx * z /\ qz * x =< ry * x
    BY <1>1, <1>3, ProductsAreOrdered
  <1>5. py < qx => py * z < qx * z
    BY <1>1, ProductsAreOrdered
  <1>6. qz < ry => qz * x < ry * x
    BY <1>1, ProductsAreOrdered
  <1>7. pz * y \in Int /\ rx * y \in Int /\ qz * x \in Int
    BY <1>1
  <1>8. pz * y =< rx * y
    BY <1>2, <1>4, <1>7
  <1>9. py < qx \/ qz < ry => pz * y < rx * y
    BY <1>2, <1>4, <1>5, <1>6, <1>7
  <1>10. pz =< rx /\ (pz * y < rx * y => pz < rx)
    BY <1>1, <1>8, ProductsAreOrdered
  <1> QED BY <1>9, <1>10 DEF py, qx, qz, ry, pz, rx

\* A nonempty finite set of numbers has a least one.
LEMMA SomeIsLeast ==
  ASSUME NEW S \in SUBSET Nat, IsFiniteSet(S), S # {}
  PROVE  \E m \in S : \A k \in S : m =< k
  <1> DEFINE before == {p \in S \X S : p[1] < p[2]}
  <1>1. \A a, b \in S : <<a, b>> \in before <=> a < b
    OBVIOUS
  <1> HIDE DEF before
  <1>2. \A a \in S : a \in Nat
    OBVIOUS
  <1>3. TotalOrder(S, before)
    <2>1. \A a \in S : <<a, a>> \notin before
      BY <1>1, <1>2
    <2>2. \A a, b \in S : a # b => <<a, b>> \in before \/ <<b, a>> \in before
      BY <1>1, <1>2
    <2>3. \A a, b, c \in S : <<a, b>> \in before /\ <<b, c>> \in before => <<a, c>> \in before
      BY <1>1, <1>2
    <2> QED BY <2>1, <2>2, <2>3 DEF TotalOrder, StrictOrder
  <1>4. PICK m \in S : \A k \in S : <<k, m>> \notin before
    BY <1>3, SomeoneIsFirst
  <1>5. \A k \in S : ~(k < m)
    BY <1>1, <1>4
  <1>6. \A k \in S : m =< k
    BY <1>2, <1>5
  <1> QED BY <1>6

\* A nonempty finite set has somebody whom nobody comes before.
LEMMA SomeoneIsMinimal ==
  ASSUME NEW S, IsFiniteSet(S), S # {}, NEW before, StrictOrder(S, before)
  PROVE  \E x \in S : \A y \in S : <<y, x>> \notin before
  <1> DEFINE ranks == {Earlier(S, before, x) : x \in S}
  <1>1. \A x \in S : Earlier(S, before, x) \in Nat
    <2> SUFFICES ASSUME NEW x \in S PROVE Earlier(S, before, x) \in Nat
      OBVIOUS
    <2>1. IsFiniteSet({y \in S : <<y, x>> \in before})
      BY FS_Subset
    <2> QED BY <2>1, FS_CardinalityType DEF Earlier
  <1>2. IsFiniteSet(ranks)
    <2> DEFINE rank == [x \in S |-> Earlier(S, before, x)]
    <2>1. rank \in Surjection(S, ranks)
      BY DEF Surjection
    <2> HIDE DEF rank, ranks
    <2> QED BY <2>1, FS_Surjection
  <1>3. ranks \in SUBSET Nat /\ ranks # {}
    BY <1>1
  <1>4. PICK m \in ranks : \A k \in ranks : m =< k
    BY <1>2, <1>3, SomeIsLeast
  <1>5. PICK x \in S : m = Earlier(S, before, x)
    OBVIOUS
  <1>6. ASSUME NEW y \in S, <<y, x>> \in before PROVE FALSE
    <2>1. Earlier(S, before, y) \in Nat /\ Earlier(S, before, y) < m
      BY <1>1, <1>5, <1>6, LaterHasMore
    <2>2. m =< Earlier(S, before, y)
      BY <1>4
    <2> QED BY <1>1, <1>5, <2>1, <2>2
  <1> QED BY <1>6

Fractions == [num : Nat, den : Nat \ {0}]

\* Fractions are in a linear preorder.
LEMMA FractionLaws ==
  ASSUME NEW x \in Fractions, NEW y \in Fractions, NEW z \in Fractions
  PROVE  /\ AtMost(x, x)
         /\ AtMost(x, y) <=> ~Below(y, x)
         /\ Below(x, y) => AtMost(x, y)
         /\ AtMost(x, y) /\ AtMost(y, z) => AtMost(x, z)
         /\ AtMost(x, y) /\ Below(y, z) => Below(x, z)
         /\ Below(x, y) /\ AtMost(y, z) => Below(x, z)
  <1>1. /\ x.num \in Nat /\ y.num \in Nat /\ z.num \in Nat
        /\ x.den \in Nat \ {0} /\ y.den \in Nat \ {0} /\ z.den \in Nat \ {0}
    BY DEF Fractions
  <1>2. \A m, n \in Nat : m * n \in Nat
    OBVIOUS
  <1>3. /\ x.num * x.den \in Nat /\ x.num * y.den \in Nat /\ x.num * z.den \in Nat
        /\ y.num * x.den \in Nat /\ y.num * z.den \in Nat
        /\ z.num * x.den \in Nat /\ z.num * y.den \in Nat
    BY <1>1, <1>2
  <1>4. AtMost(x, x) /\ (AtMost(x, y) <=> ~Below(y, x)) /\ (Below(x, y) => AtMost(x, y))
    BY <1>3 DEF AtMost, Below
  <1>5. AtMost(y, z) <=> ~Below(z, y)
    BY <1>3 DEF AtMost, Below
  <1>6. ASSUME AtMost(x, y), AtMost(y, z)
        PROVE  AtMost(x, z) /\ (Below(x, y) \/ Below(y, z) => Below(x, z))
    <2>1. x.num * y.den =< y.num * x.den /\ y.num * z.den =< z.num * y.den
      BY <1>6 DEF AtMost
    <2> QED BY <1>1, <2>1, FractionsAreOrdered DEF AtMost, Below
  <1>7. Below(y, z) => AtMost(y, z)
    BY <1>3 DEF AtMost, Below
  <1> QED BY <1>4, <1>6, <1>7

\* Among finitely many fractions one is the largest, and one the smallest.
LEMMA SomeFractionIsExtreme ==
  ASSUME NEW S \in SUBSET Fractions, IsFiniteSet(S), S # {}
  PROVE  /\ \E v \in S : \A w \in S : AtMost(w, v)
         /\ \E v \in S : \A w \in S : AtMost(v, w)
  <1> DEFINE before == {p \in S \X S : Below(p[1], p[2])}
             after == {p \in S \X S : Below(p[2], p[1])}
  <1>1. \A v, w \in S : (<<v, w>> \in before <=> Below(v, w)) /\ (<<v, w>> \in after <=> Below(w, v))
    OBVIOUS
  <1> HIDE DEF before, after
  <1>2. \A v, w \in S : (AtMost(v, w) <=> ~Below(w, v)) /\ ~Below(v, v)
    BY FractionLaws
  <1>3. \A u, v, w \in S : Below(u, v) /\ Below(v, w) => Below(u, w)
    BY FractionLaws
  <1>4. StrictOrder(S, before) /\ StrictOrder(S, after)
    BY <1>1, <1>2, <1>3 DEF StrictOrder
  <1>5. PICK v \in S : \A w \in S : <<w, v>> \notin before
    BY <1>4, SomeoneIsMinimal
  <1>6. PICK u \in S : \A w \in S : <<w, u>> \notin after
    BY <1>4, SomeoneIsMinimal
  <1>7. \A w \in S : AtMost(v, w) /\ AtMost(w, u)
    BY <1>1, <1>2, <1>5, <1>6
  <1> QED BY <1>7

-----------------------------------------------------------------------------
(* Recall: the reader's order *)

\* What FusesHigher adds for a candidate, over a common denominator
Over(s, r) == RrfK + IndexIn(s, r)
Under(s, r) == RrfK + RecencyRank(s, r) + 1
FusedNum(s, r) == Over(s, r) + Under(s, r)
FusedDen(s, r) == Over(s, r) * Under(s, r)

\* A candidate has one first place.
LEMMA IndexIsAPlace ==
  ASSUME NEW R, NEW s \in Seq(R), NEW r \in ToSet(s)
  PROVE  IndexIn(s, r) \in DOMAIN s /\ IndexIn(s, r) \in Nat \ {0} /\ s[IndexIn(s, r)] = r
  <1>1. \E i \in DOMAIN s : s[i] = r
    BY DEF ToSet
  <1>2. IndexIn(s, r) \in DOMAIN s /\ s[IndexIn(s, r)] = r
    BY <1>1 DEF IndexIn
  <1>3. DOMAIN s = 1..Len(s) /\ Len(s) \in Nat
    BY LenProperties
  <1> QED BY <1>2, <1>3

\* The candidates of a search are finitely many drawers.
LEMMA CandidatesAreFinite ==
  ASSUME ReadAssumption, NEW s \in Seq(Rows)
  PROVE  ToSet(s) \subseteq Rows /\ IsFiniteSet(ToSet(s))
  <1>1. \A i \in DOMAIN s : s[i] \in Rows
    BY LenProperties, ElementOfSeq
  <1>2. ToSet(s) \in SUBSET Rows
    BY <1>1 DEF ToSet
  <1> QED BY <1>2, FS_Subset DEF ReadAssumption

\* Fused ranks are compared as fractions are, and then by retrieval.
LEMMA FusedIsCompared ==
  ASSUME ReadAssumption, NEW s \in Seq(Rows), NEW a \in ToSet(s), NEW b \in ToSet(s)
  PROVE  /\ FusedNum(s, a) \in Nat /\ FusedDen(s, a) \in Nat \ {0}
         /\ FusesHigher(s, a, b) <=>
              \/ FusedNum(s, b) * FusedDen(s, a) < FusedNum(s, a) * FusedDen(s, b)
              \/ /\ FusedNum(s, b) * FusedDen(s, a) = FusedNum(s, a) * FusedDen(s, b)
                 /\ IndexIn(s, a) < IndexIn(s, b)
  <1>1. ASSUME NEW r \in ToSet(s)
        PROVE  Over(s, r) \in Nat \ {0} /\ Under(s, r) \in Nat \ {0}
    <2>1. RrfK \in Nat
      BY DEF ReadAssumption
    <2>2. RecencyRank(s, r) \in Nat
      <3> DEFINE A == {c \in ToSet(s) :
                         \/ Dated(c) /\ ~Dated(r)
                         \/ Dated(c) /\ Dated(r) /\ Newer(s, c, r)
                         \/ ~Dated(c) /\ ~Dated(r) /\ IndexIn(s, c) < IndexIn(s, r)}
      <3>1. A \in SUBSET ToSet(s)
        OBVIOUS
      <3>2. IsFiniteSet(A)
        BY <3>1, CandidatesAreFinite, FS_Subset
      <3>3. Cardinality(A) \in Nat
        BY <3>2, FS_CardinalityType
      <3> QED BY <3>3 DEF RecencyRank
    <2> QED BY <2>1, <2>2, IndexIsAPlace DEF Over, Under
  <1>2. ASSUME NEW x \in Nat \ {0}, NEW y \in Nat \ {0}, NEW n \in Nat
        PROVE  x * y \in Nat \ {0} /\ n * x * y = n * (x * y)
    <2>1. x * y \in Int /\ x * y > 0
      <3>1. 0 * y < x * y
        BY ProductsAreOrdered
      <3> QED BY <3>1
    <2> QED BY <2>1
  <1>3. /\ FusedNum(s, a) \in Nat /\ FusedNum(s, b) \in Nat
        /\ FusedDen(s, a) \in Nat \ {0}
    BY <1>1, <1>2 DEF FusedNum, FusedDen
  <1>4. FusesHigher(s, a, b) <=>
          \/ FusedNum(s, a) * Over(s, b) * Under(s, b) > FusedNum(s, b) * Over(s, a) * Under(s, a)
          \/ /\ FusedNum(s, a) * Over(s, b) * Under(s, b)
                  = FusedNum(s, b) * Over(s, a) * Under(s, a)
             /\ IndexIn(s, a) < IndexIn(s, b)
    BY DEF FusesHigher, FusedNum, Over, Under
  <1>5. /\ FusedNum(s, a) * Over(s, b) * Under(s, b) = FusedNum(s, a) * FusedDen(s, b)
        /\ FusedNum(s, b) * Over(s, a) * Under(s, a) = FusedNum(s, b) * FusedDen(s, a)
    <2>1. ASSUME NEW n \in Nat, NEW r \in ToSet(s)
          PROVE  n * Over(s, r) * Under(s, r) = n * FusedDen(s, r)
      <3>1. PICK x \in Nat \ {0} : x = Over(s, r)
        BY <1>1
      <3>2. PICK y \in Nat \ {0} : y = Under(s, r)
        BY <1>1
      <3>3. n * x * y = n * (x * y)
        BY <1>2
      <3> QED BY <3>1, <3>2, <3>3 DEF FusedDen
    <2> QED BY <1>3, <2>1
  <1>6. FusedNum(s, a) * FusedDen(s, b) \in Int /\ FusedNum(s, b) * FusedDen(s, a) \in Int
    BY <1>1, <1>2, <1>3 DEF FusedDen
  <1> QED BY <1>3, <1>4, <1>5, <1>6

\* Of two candidates one fuses higher, and consistently so.
LEMMA FusingIsTotal ==
  ASSUME ReadAssumption, NEW s \in Seq(Rows), NEW part \in SUBSET ToSet(s)
  PROVE  TotalOrder(part, {p \in part \X part : FusesHigher(s, p[1], p[2])})
  <1> DEFINE n(r) == FusedNum(s, r)
             d(r) == FusedDen(s, r)
             i(r) == IndexIn(s, r)
             before == {p \in part \X part : FusesHigher(s, p[1], p[2])}
  <1>1. \A a \in ToSet(s) : n(a) \in Nat /\ d(a) \in Nat \ {0}
    BY FusedIsCompared
  <1>2. \A a, b \in ToSet(s) :
          FusesHigher(s, a, b) <=> \/ n(b) * d(a) < n(a) * d(b)
                                   \/ n(b) * d(a) = n(a) * d(b) /\ i(a) < i(b)
    BY FusedIsCompared
  <1>3. \A a \in ToSet(s) : i(a) \in Nat /\ s[i(a)] = a
    BY IndexIsAPlace
  <1>4. \A a, b \in part : <<a, b>> \in before <=> FusesHigher(s, a, b)
    OBVIOUS
  <1> HIDE DEF n, d, i, before
  <1>5. \A a, b \in ToSet(s) : n(a) * d(b) \in Int
    BY <1>1
  <1>6. ASSUME NEW a \in ToSet(s) PROVE ~FusesHigher(s, a, a)
    BY <1>2, <1>3, <1>5
  <1>7. ASSUME NEW a \in ToSet(s), NEW b \in ToSet(s), a # b
        PROVE  FusesHigher(s, a, b) \/ FusesHigher(s, b, a)
    <2>1. i(a) # i(b)
      BY <1>3, <1>7
    <2>2. i(a) \in Nat /\ i(b) \in Nat /\ n(a) * d(b) \in Int /\ n(b) * d(a) \in Int
      BY <1>3, <1>5
    <2> QED BY <1>2, <2>1, <2>2
  <1>8. ASSUME NEW a \in ToSet(s), NEW b \in ToSet(s), NEW c \in ToSet(s),
               FusesHigher(s, a, b), FusesHigher(s, b, c)
        PROVE  FusesHigher(s, a, c)
    <2>1. /\ n(a) * d(b) \in Int /\ n(b) * d(a) \in Int /\ n(b) * d(c) \in Int
          /\ n(c) * d(b) \in Int /\ n(a) * d(c) \in Int /\ n(c) * d(a) \in Int
          /\ i(a) \in Nat /\ i(b) \in Nat /\ i(c) \in Nat
      BY <1>3, <1>5
    <2>2. /\ n(b) * d(a) < n(a) * d(b) \/ (n(b) * d(a) = n(a) * d(b) /\ i(a) < i(b))
          /\ n(c) * d(b) < n(b) * d(c) \/ (n(c) * d(b) = n(b) * d(c) /\ i(b) < i(c))
      BY <1>2, <1>8
    <2>3. n(c) * d(b) =< n(b) * d(c) /\ n(b) * d(a) =< n(a) * d(b)
      BY <2>1, <2>2
    <2>4. /\ n(c) * d(a) =< n(a) * d(c)
          /\ n(c) * d(b) < n(b) * d(c) \/ n(b) * d(a) < n(a) * d(b) => n(c) * d(a) < n(a) * d(c)
      BY <1>1, <2>3, FractionsAreOrdered
    <2>5. n(c) * d(a) < n(a) * d(c) \/ (n(c) * d(a) = n(a) * d(c) /\ i(a) < i(c))
      BY <2>1, <2>2, <2>4
    <2> QED BY <1>2, <2>5
  <1> QED BY <1>4, <1>6, <1>7, <1>8 DEF TotalOrder, StrictOrder, before

-----------------------------------------------------------------------------
(* Recall: slots, and what the reader puts first *)

\* Slots part the candidates.
LEMMA SlotsPart ==
  ASSUME ReadAssumption, NEW s \in Seq(Rows),
         NEW a \in ToSet(s), NEW b \in ToSet(s), NEW c \in ToSet(s)
  PROVE  /\ SameSlot(s, a, a)
         /\ SameSlot(s, a, b) => SameSlot(s, b, a)
         /\ SameSlot(s, a, b) /\ SameSlot(s, b, c) => SameSlot(s, a, c)
  <1> DEFINE Linked(x, y) == \A W \in SUBSET ToSet(s) : Closed(s, W) /\ x \in W => y \in W
  <1>1. \A x, y : SameSlot(s, x, y) <=> Linked(x, y)
    BY DEF SameSlot
  <1>2. Linked(a, a) /\ (Linked(a, b) /\ Linked(b, c) => Linked(a, c))
    OBVIOUS
  <1>3. ASSUME Linked(a, b), NEW W \in SUBSET ToSet(s), Closed(s, W), b \in W
        PROVE  a \in W
    <2>1. SUFFICES ASSUME a \notin W PROVE FALSE
      OBVIOUS
    <2>2. ToSet(s) \subseteq Rows
      BY CandidatesAreFinite
    <2>3. Closed(s, ToSet(s) \ W)
      BY <1>3, <2>2 DEF Closed, ReadAssumption
    <2>4. b \in ToSet(s) \ W
      BY <1>3, <2>1, <2>3
    <2> QED BY <1>3, <2>4
  <1>4. Linked(a, b) => Linked(b, a)
    BY <1>3
  <1> HIDE DEF Linked
  <1> QED BY <1>1, <1>2, <1>4

\* The earliest of a slot's newest is not demoted, and what is older is.
LEMMA NewestIsLive ==
  ASSUME ReadAssumption, NEW s \in Seq(Rows), NEW a \in ToSet(s), Dated(a),
         \A x \in ToSet(s) : Dated(x) /\ SameSlot(s, a, x) => Epoch[x] =< Epoch[a]
  PROVE  /\ \E e \in ToSet(s) \ Demoted(s) : SameSlot(s, a, e) /\ Epoch[e] = Epoch[a]
         /\ \A x \in ToSet(s) : Dated(x) /\ SameSlot(s, a, x) /\ Epoch[x] < Epoch[a]
                                  => x \in Demoted(s)
  <1>1. ToSet(s) \subseteq Rows /\ IsFiniteSet(ToSet(s))
    BY CandidatesAreFinite
  <1>2. \A x \in ToSet(s) : Dated(x) => Epoch[x] \in Nat
    BY <1>1 DEF Dated, ReadAssumption
  <1>3. \A x \in ToSet(s) : IndexIn(s, x) \in Nat /\ s[IndexIn(s, x)] = x
    BY IndexIsAPlace
  <1> DEFINE T == {x \in ToSet(s) : Dated(x) /\ SameSlot(s, a, x) /\ Epoch[x] = Epoch[a]}
             before == {p \in T \X T : IndexIn(s, p[1]) < IndexIn(s, p[2])}
  <1>4. IsFiniteSet(T) /\ T \subseteq ToSet(s)
    BY <1>1, FS_Subset
  <1>5. a \in T
    BY SlotsPart
  <1>6. \A x, y \in T : <<x, y>> \in before <=> IndexIn(s, x) < IndexIn(s, y)
    OBVIOUS
  <1>7. TotalOrder(T, before)
    <2> HIDE DEF before, T
    <2>1. \A x \in T : IndexIn(s, x) \in Nat /\ s[IndexIn(s, x)] = x
      BY <1>3, <1>4
    <2>2. \A x, y \in T : x # y => IndexIn(s, x) # IndexIn(s, y)
      BY <2>1
    <2> QED BY <1>6, <2>1, <2>2 DEF TotalOrder, StrictOrder
  <1>8. PICK e \in T : \A y \in T : <<y, e>> \notin before
    <2> HIDE DEF before, T
    <2> QED BY <1>4, <1>5, <1>7, SomeoneIsFirst
  <1>9. ASSUME NEW b \in ToSet(s), b # e, Dated(b), SameSlot(s, b, e), Newer(s, b, e)
        PROVE  FALSE
    <2>1. SameSlot(s, a, b)
      BY <1>8, <1>9, SlotsPart
    <2>2. Epoch[b] \in Nat /\ Epoch[e] \in Nat /\ Epoch[e] = Epoch[a] /\ Epoch[b] =< Epoch[a]
      BY <1>2, <1>8, <1>9, <2>1
    <2>3. Epoch[b] = Epoch[e] /\ IndexIn(s, b) < IndexIn(s, e)
      BY <1>9, <2>2 DEF Newer
    <2>4. b \in T
      BY <1>9, <2>1, <2>2, <2>3
    <2> QED BY <1>6, <1>8, <2>3, <2>4
  <1>10. e \in ToSet(s) \ Demoted(s) /\ SameSlot(s, a, e) /\ Epoch[e] = Epoch[a]
    <2>1. e \in ToSet(s) /\ SameSlot(s, a, e) /\ Epoch[e] = Epoch[a]
      BY <1>8
    <2> HIDE DEF T, before
    <2>2. e \notin Demoted(s)
      BY <1>9 DEF Demoted
    <2> QED BY <2>1, <2>2
  <1>11. ASSUME NEW x \in ToSet(s), Dated(x), SameSlot(s, a, x), Epoch[x] < Epoch[a]
         PROVE  x \in Demoted(s)
    <2>1. a # x /\ Newer(s, a, x)
      <3>1. Epoch[a] \in Nat /\ Epoch[x] \in Nat
        BY <1>2, <1>11
      <3> QED BY <1>11, <3>1 DEF Newer
    <2> QED BY <1>11, <2>1 DEF Demoted
  <1> QED BY <1>10, <1>11

\* Everybody of a set stands in a sequence of its members.
Lists(t, S) == t \in Seq(S) /\ \A x \in S : \E n \in 1..Len(t) : t[n] = x

\* The order by fused rank lists a part of the candidates.
LEMMA FusedLists ==
  ASSUME ReadAssumption, NEW s \in Seq(Rows), NEW part \in SUBSET ToSet(s)
  PROVE  Lists(FusedOrder(s, part), part)
  <1> DEFINE before == {p \in part \X part : FusesHigher(s, p[1], p[2])}
  <1>1. TotalOrder(part, before)
    BY FusingIsTotal
  <1>2. IsFiniteSet(part)
    BY CandidatesAreFinite, FS_Subset
  <1>3. FusedOrder(s, part) = InOrder(part, before)
    BY DEF FusedOrder
  <1> HIDE DEF before
  <1> QED BY <1>1, <1>2, <1>3, OrderLists DEF Lists

\* SetToSeqs lists a finite set.
LEMMA PermutedLists ==
  ASSUME NEW S, IsFiniteSet(S), NEW t \in SetToSeqs(S)
  PROVE  Lists(t, S)
  <1> DEFINE N == Cardinality(S)
  <1>1. N \in Nat
    BY FS_CardinalityType
  <1>2. t \in Injection(1..N, S)
    BY DEF SetToSeqs, Injection, IsInjective
  <1>3. IsFiniteSet(1..N) /\ Cardinality(1..N) = N
    BY <1>1, FS_Interval
  <1>4. t \in Surjection(1..N, S)
    BY <1>2, <1>3, FS_Injection
  <1>5. t \in [1..N -> S] /\ \A x \in S : \E n \in 1..N : t[n] = x
    BY <1>4 DEF Surjection
  <1> HIDE DEF N
  <1> QED BY <1>1, <1>5 DEF Lists

Joined(live, stale) == live \o stale

\* t lists A and B, and nothing of B before anything of A.
Stratified(t, R, A, B) ==
    /\ t \in Seq(R) /\ ToSet(t) = A \cup B
    /\ \A j \in DOMAIN t : t[j] \in B => \A x \in A : \E i \in 1..(j - 1) : t[i] = x

\* With the live before the stale, whoever is live stands before whoever is not.
LEMMA LiveStandsFirst ==
  ASSUME NEW R, NEW A \in SUBSET R, NEW B \in SUBSET R, A \cap B = {},
         NEW live, NEW stale, Lists(live, A), Lists(stale, B),
         NEW t, t = Joined(live, stale)
  PROVE  Stratified(t, R, A, B)
  <1> DEFINE m == Len(live)
             n == Len(stale)
  <1>1. live \in Seq(R) /\ stale \in Seq(R)
    BY SeqMonotonic DEF Lists
  <1>2. m \in Nat /\ n \in Nat
    BY <1>1, LenProperties
  <1>3. t \in Seq(R) /\ Len(t) = m + n
    BY <1>1, ConcatProperties DEF Joined
  <1>4. \A i \in 1..m + n : t[i] = IF i =< m THEN live[i] ELSE stale[i - m]
    BY <1>1, ConcatProperties DEF Joined
  <1>5. /\ \A i \in 1..m : live[i] \in A
        /\ \A i \in 1..n : stale[i] \in B
        /\ \A x \in A : \E i \in 1..m : live[i] = x
        /\ \A x \in B : \E i \in 1..n : stale[i] = x
    BY ElementOfSeq DEF Lists
  <1>6. DOMAIN t = 1..(m + n)
    BY <1>3, LenProperties
  <1> HIDE DEF m, n
  <1>7. \A i \in 1..m : t[i] = live[i] /\ i \in DOMAIN t
    BY <1>2, <1>4, <1>6
  <1>8. \A i \in 1..n : t[m + i] = stale[i] /\ m + i \in DOMAIN t
    BY <1>2, <1>4, <1>6
  <1>9. \A j \in DOMAIN t : j \in 1..m \/ \E i \in 1..n : j = m + i
    <2> SUFFICES ASSUME NEW j \in DOMAIN t, j \notin 1..m PROVE \E i \in 1..n : j = m + i
      OBVIOUS
    <2>1. j - m \in 1..n /\ j = m + (j - m)
      BY <1>2, <1>6
    <2> QED BY <2>1
  <1>10. ToSet(t) = A \cup B
    <2>1. \A j \in DOMAIN t : t[j] \in A \cup B
      BY <1>5, <1>7, <1>8, <1>9
    <2>2. \A x \in A \cup B : \E j \in DOMAIN t : t[j] = x
      BY <1>5, <1>7, <1>8
    <2> QED BY <2>1, <2>2 DEF ToSet
  <1>11. ASSUME NEW j \in DOMAIN t, t[j] \in B, NEW x \in A
         PROVE  \E i \in 1..(j - 1) : t[i] = x
    <2>1. j \notin 1..m
      BY <1>5, <1>7, <1>11
    <2>2. PICK i \in 1..m : live[i] = x
      BY <1>5
    <2>3. i \in 1..(j - 1)
      BY <1>2, <1>6, <2>1
    <2> QED BY <1>7, <2>2, <2>3
  <1> QED BY <1>3, <1>10, <1>11 DEF Stratified

\* Whatever order the reader settles on, it lists the candidates, and nothing
\* demoted before anything live.
LEMMA SelectionsAreOrdered ==
  ASSUME ReadAssumption, NEW s \in Seq(Rows), NEW scored \in BOOLEAN,
         NEW t \in Selections(s, scored)
  PROVE  Stratified(t, Rows, ToSet(s) \ Demoted(s), Demoted(s))
  <1> DEFINE A == ToSet(s) \ Demoted(s)
             B == Demoted(s)
  <1>1. ToSet(s) \subseteq Rows /\ IsFiniteSet(ToSet(s))
    BY CandidatesAreFinite
  <1>2. A \in SUBSET ToSet(s) /\ B \in SUBSET ToSet(s) /\ A \cap B = {} /\ A \cup B = ToSet(s)
    BY DEF Demoted
  <1>3. A \in SUBSET Rows /\ B \in SUBSET Rows /\ IsFiniteSet(A) /\ IsFiniteSet(B)
    BY <1>1, <1>2, FS_Subset
  <1>4. ASSUME t = ReaderOrder(s) PROVE Stratified(t, Rows, A, B)
    <2>1. Lists(FusedOrder(s, A), A) /\ Lists(FusedOrder(s, B), B)
      BY <1>2, FusedLists
    <2>2. t = Joined(FusedOrder(s, A), FusedOrder(s, B))
      BY <1>4 DEF ReaderOrder, Joined
    <2> HIDE DEF A, B
    <2> QED BY <1>2, <1>3, <2>1, <2>2, LiveStandsFirst
  <1>5. ASSUME t \in ScoredOrders(s) PROVE Stratified(t, Rows, A, B)
    <2>1. ScoredOrders(s)
            = {Joined(live, stale) : live \in SetToSeqs(A), stale \in SetToSeqs(B)}
      BY DEF ScoredOrders, Joined
    <2> HIDE DEF A, B
    <2>2. PICK live \in SetToSeqs(A), stale \in SetToSeqs(B) : t = Joined(live, stale)
      BY <1>5, <2>1
    <2>3. Lists(live, A) /\ Lists(stale, B)
      BY <1>3, PermutedLists
    <2> QED BY <1>2, <1>3, <2>2, <2>3, LiveStandsFirst
  <1>6. Stratified(t, Rows, A, B)
    BY <1>4, <1>5 DEF Selections
  <1> QED BY <1>6

-----------------------------------------------------------------------------
(* Recall: what is read may be read *)

ReadStates == [at : {"idle", "searching", "fetched", "answered", "refused"},
               reader : BOOLEAN, limit : 0..MaxQueryK,
               pool : Seq(Rows), lawful : SUBSET Rows]

\* What a read holds between the filter and the answer is lawful already.
PoolIsLawful(r) == r.at \in {"fetched", "answered"} => ToSet(r.pool) \subseteq r.lawful

ReadInv ==
    /\ marks \in [Rows -> SUBSET Statuses]
    /\ readEnv \in [reader : BOOLEAN, reranker : BOOLEAN]
    /\ scorer \in {"none", "ok", "failed"}
    /\ reads \in [Readers -> ReadStates]
    /\ \A c \in Readers : PoolIsLawful(reads[c])

\* Initially nothing is read.
LEMMA ReadStarts ==
  ASSUME ReadAssumption, ReadInit
  PROVE  ReadInv
  <1>1. NoRead \in ReadStates
    BY DEF NoRead, ReadStates, ReadAssumption
  <1>2. PoolIsLawful(NoRead)
    BY DEF NoRead, PoolIsLawful
  <1> QED BY <1>1, <1>2 DEF ReadInit, ReadInv, ReadAssumption, Statuses

\* Scores and boosted scores are numbers.
LEMMA ScoresAreNumbers ==
  ASSUME ReadAssumption, NEW q \in Queries
  PROVE  /\ HintedScore(q) \in [Rows -> Nat] /\ Relevance[q] \in [Rows -> Int]
         /\ [r \in Rows |-> HintedScore(q)[r] * WingBoost[PathOf[r][1]]] \in [Rows -> Int]
  <1>1. \A r \in Rows : HintFactor(r) \in Nat
    BY DEF HintFactor
  <1>2. Relevance[q] \in [Rows -> Nat] /\ \A r \in Rows : WingBoost[PathOf[r][1]] \in Nat
    BY DEF ReadAssumption
  <1>3. \A m, n \in Nat : m * n \in Nat
    OBVIOUS
  <1>4. HintedScore(q) \in [Rows -> Nat]
    BY <1>1, <1>2, <1>3 DEF HintedScore
  <1> QED BY <1>2, <1>3, <1>4

\* What the adapter and the net answer with are drawers.
LEMMA SearchedAreRows ==
  ASSUME ReadAssumption, NEW q \in Queries, NEW k \in Nat
  PROVE  SearchMemories(q, k) \in Seq(Rows)
  <1> DEFINE nearest == First(SortedDown(AllRows, Relevance[q]), LargerOf(k, PanellaOverfetch))
             kept == Keep(nearest, {r \in Rows : Recallable(r) /\ TenantOf[r] \in OwnTenants})
  <1>1. LargerOf(k, PanellaOverfetch) \in Nat
    BY DEF LargerOf, ReadAssumption
  <1>2. SortedDown(AllRows, Relevance[q]) \in Seq(Rows)
    BY AllRowsAreRows, ScoresAreNumbers, SortingKeeps
  <1>3. nearest \in Seq(Rows)
    BY <1>1, <1>2, FirstIsPart
  <1> HIDE DEF nearest
  <1>4. kept \in Seq(Rows)
    BY <1>3, KeepingKeeps
  <1> HIDE DEF kept
  <1>5. HintedScore(q) \in [Rows -> Int]
    BY ScoresAreNumbers
  <1>6. First(SortedDown(kept, HintedScore(q)), k) \in Seq(Rows)
    BY <1>4, <1>5, SortingKeeps, FirstIsPart
  <1> QED BY <1>6 DEF SearchMemories, kept, nearest

\* A sample of a wing is a sequence of drawers.
LEMMA SampledAreRows ==
  ASSUME ReadAssumption, NEW wing, NEW k \in Nat
  PROVE  ListRecentByWing(wing, k) \in Seq(Rows)
  <1> DEFINE key == [r \in Rows |-> IF Epoch[r] = Undated THEN -1 ELSE Epoch[r]]
             tagged == Keep(AllRows, {r \in Rows : /\ "active" \in marks[r]
                                                   /\ PathOf[r][1] = wing
                                                   /\ TenantOf[r] \in OwnTenants})
  <1>1. key \in [Rows -> Int]
    BY DEF ReadAssumption
  <1>2. tagged \in Seq(Rows)
    BY AllRowsAreRows, KeepingKeeps
  <1>3. ListRecentByWing(wing, k) = First(SortedDown(tagged, key), k)
    BY DEF ListRecentByWing
  <1> HIDE DEF tagged, key
  <1>4. SortedDown(tagged, key) \in Seq(Rows)
    BY <1>1, <1>2, SortingKeeps
  <1> QED BY <1>3, <1>4, FirstIsPart

\* The net lets through what is neither retired nor out of bounds, and no
\* foreign hit unless it raises.
LEMMA FilteredIsLawful ==
  ASSUME NEW s \in Seq(Rows)
  PROVE  /\ FilterHits(s) \in Seq(Rows)
         /\ ~Leaks(s) => ToSet(FilterHits(s)) \subseteq Lawful
  <1>1. /\ FilterHits(s) \in Seq(Rows)
        /\ ToSet(FilterHits(s)) = ToSet(s) \cap {r \in Rows : Recallable(r) /\ Permitted(r)}
    BY KeepingKeeps DEF FilterHits
  <1>2. ASSUME ~Leaks(s), NEW r \in ToSet(s), Recallable(r) PROVE TenantOf[r] \in OwnTenants
    BY <1>2 DEF Leaks, ToSet
  <1> QED BY <1>1, <1>2 DEF Lawful

\* The boost of the profile reorders the hits.
LEMMA BoostingKeeps ==
  ASSUME ReadAssumption, NEW q \in Queries, NEW s \in Seq(Rows)
  PROVE  ProfileBoost(q, s) \in Seq(Rows) /\ ToSet(ProfileBoost(q, s)) = ToSet(s)
  <1> DEFINE key == [r \in Rows |-> HintedScore(q)[r] * WingBoost[PathOf[r][1]]]
  <1>1. key \in [Rows -> Int]
    BY ScoresAreNumbers
  <1>2. ProfileBoost(q, s) = SortedDown(s, key)
    BY DEF ProfileBoost
  <1> HIDE DEF key
  <1> QED BY <1>1, <1>2, SortingKeeps

\* A step of one reader into a lawful read keeps the invariant.
LEMMA OneReadMoves ==
  ASSUME ReadInv, NEW c \in Readers, NEW r \in ReadStates, PoolIsLawful(r),
         reads' = [reads EXCEPT ![c] = r],
         UNCHANGED <<marks, readEnv>>, scorer' \in {"none", "ok", "failed"}
  PROVE  ReadInv'
  <1>1. reads' \in [Readers -> ReadStates]
    BY DEF ReadInv
  <1>2. ASSUME NEW d \in Readers PROVE PoolIsLawful(reads'[d])
    <2>1. reads'[d] = IF d = c THEN r ELSE reads[d]
      BY DEF ReadInv
    <2> QED BY <2>1 DEF ReadInv
  <1> QED BY <1>1, <1>2 DEF ReadInv

\* What a tenant's search keeps of its hits is lawful when it is fetched.
LEMMA FetchIsLawful ==
  ASSUME ReadAssumption, ReadInv, NEW c \in Readers, NEW q \in Queries, Fetch(c, q)
  PROVE  ReadInv'
  <1> DEFINE hits == SearchMemories(q, FetchWidth(c))
             answer == ProfileBoost(q, FilterHits(hits))
             r == [reads[c] EXCEPT !.at = IF Leaks(hits) THEN "refused" ELSE "fetched",
                                   !.pool = answer, !.lawful = Lawful]
  <1>1. reads[c] \in ReadStates
    BY DEF ReadInv
  <1>2. FetchWidth(c) \in Nat
    BY <1>1 DEF FetchWidth, LargerOf, ReadStates, ReadAssumption
  <1>3. hits \in Seq(Rows)
    BY <1>2, SearchedAreRows
  <1>4. reads' = [reads EXCEPT ![c].at = IF Leaks(hits) THEN "refused" ELSE "fetched",
                               ![c].pool = answer, ![c].lawful = Lawful]
        /\ UNCHANGED <<marks, readEnv, scorer>>
    BY DEF Fetch
  <1> HIDE DEF hits
  <1>5. /\ FilterHits(hits) \in Seq(Rows)
        /\ ~Leaks(hits) => ToSet(FilterHits(hits)) \subseteq Lawful
    BY <1>3, FilteredIsLawful
  <1>6. answer \in Seq(Rows) /\ ToSet(answer) = ToSet(FilterHits(hits))
    BY <1>5, BoostingKeeps
  <1>7. Lawful \in SUBSET Rows
    BY DEF Lawful
  <1> HIDE DEF answer
  <1>8. reads' = [reads EXCEPT ![c] = r]
    BY <1>4 DEF ReadInv
  <1>9. r \in ReadStates
    BY <1>1, <1>6, <1>7 DEF ReadStates
  <1>10. /\ r.at = IF Leaks(hits) THEN "refused" ELSE "fetched"
         /\ r.pool = answer /\ r.lawful = Lawful
    BY <1>1 DEF ReadStates
  <1> HIDE DEF r
  <1>11. PoolIsLawful(r)
    BY <1>5, <1>6, <1>10 DEF PoolIsLawful
  <1>12. scorer' \in {"none", "ok", "failed"}
    BY <1>4 DEF ReadInv
  <1> QED BY <1>4, <1>8, <1>9, <1>11, <1>12, OneReadMoves

\* A read that answers or refuses at once keeps the invariant.
LEMMA ThroughIsLawful ==
  ASSUME ReadAssumption, ReadInv, NEW c \in Readers, NEW hits \in Seq(Rows),
         NEW k \in 1..MaxQueryK, ReadThrough(c, hits, k)
  PROVE  ReadInv'
  <1> DEFINE r == [NoRead EXCEPT !.at = IF Leaks(hits) THEN "refused" ELSE "answered",
                                 !.limit = k, !.lawful = Lawful,
                                 !.pool = IF Leaks(hits) THEN <<>> ELSE FilterHits(hits)]
  <1>1. /\ FilterHits(hits) \in Seq(Rows)
        /\ ~Leaks(hits) => ToSet(FilterHits(hits)) \subseteq Lawful
    BY FilteredIsLawful
  <1>2. reads' = [reads EXCEPT ![c] = r] /\ UNCHANGED <<marks, readEnv, scorer>>
    BY DEF ReadThrough
  <1>3. Lawful \in SUBSET Rows
    BY DEF Lawful
  <1>4. /\ r.at = IF Leaks(hits) THEN "refused" ELSE "answered"
        /\ r.pool = (IF Leaks(hits) THEN <<>> ELSE FilterHits(hits)) /\ r.lawful = Lawful
    BY DEF NoRead
  <1>5. r \in ReadStates
    <2>1. <<>> \in Seq(Rows)
      BY EmptySeq
    <2>2. k \in 0..MaxQueryK
      BY DEF ReadAssumption
    <2> QED BY <1>1, <1>3, <2>1, <2>2 DEF NoRead, ReadStates
  <1> HIDE DEF r
  <1>6. PoolIsLawful(r)
    BY <1>1, <1>4 DEF PoolIsLawful
  <1>7. scorer' \in {"none", "ok", "failed"}
    BY <1>2 DEF ReadInv
  <1> QED BY <1>2, <1>5, <1>6, <1>7, OneReadMoves

\* Cutting a lawful order of what was fetched answers lawfully.
LEMMA AnswerIsLawful ==
  ASSUME ReadAssumption, ReadInv, NEW c \in Readers, reads[c].at = "fetched",
         NEW s \in Seq(Rows), ToSet(s) = ToSet(reads[c].pool),
         Ends(c, "answered", First(s, reads[c].limit)),
         UNCHANGED <<marks, readEnv>>, scorer' \in {"none", "ok", "failed"}
  PROVE  ReadInv'
  <1> DEFINE answer == First(s, reads[c].limit)
             r == [reads[c] EXCEPT !.at = "answered", !.pool = answer]
  <1>1. reads[c] \in ReadStates /\ PoolIsLawful(reads[c])
    BY DEF ReadInv
  <1>2. reads[c].limit \in Nat
    BY <1>1 DEF ReadStates
  <1>3. answer \in Seq(Rows) /\ ToSet(answer) \subseteq reads[c].lawful
    <2>1. answer \in Seq(Rows) /\ ToSet(answer) \subseteq ToSet(s)
      BY <1>2, FirstIsPart
    <2> QED BY <1>1, <2>1 DEF PoolIsLawful
  <1>4. reads' = [reads EXCEPT ![c].at = "answered", ![c].pool = answer]
    BY DEF Ends
  <1> HIDE DEF answer
  <1>5. reads' = [reads EXCEPT ![c] = r]
    BY <1>4 DEF ReadInv
  <1>6. r \in ReadStates /\ r.pool = answer /\ r.lawful = reads[c].lawful
    BY <1>1, <1>3 DEF ReadStates
  <1> HIDE DEF r
  <1>7. PoolIsLawful(r)
    BY <1>3, <1>6 DEF PoolIsLawful
  <1> QED BY <1>5, <1>6, <1>7, OneReadMoves

\* Each step of the readers and of everybody else keeps reads lawful.
LEMMA ReadSteps ==
  ASSUME ReadAssumption, ReadInv, [ReadNext]_readVars
  PROVE  ReadInv'
  <1>1. ASSUME NEW c \in Readers, NEW k \in 1..MaxQueryK, BeginSearch(c, k)
        PROVE  ReadInv'
    <2> DEFINE r == [NoRead EXCEPT !.at = "searching", !.limit = k, !.reader = readEnv.reader]
    <2>1. reads' = [reads EXCEPT ![c] = r] /\ UNCHANGED <<marks, readEnv, scorer>>
      BY <1>1 DEF BeginSearch
    <2>2. <<>> \in Seq(Rows) /\ k \in 0..MaxQueryK
      BY EmptySeq DEF ReadAssumption
    <2>3. r \in ReadStates /\ r.at = "searching"
      BY <2>2 DEF NoRead, ReadStates, ReadInv
    <2> HIDE DEF r
    <2>4. PoolIsLawful(r) /\ scorer' \in {"none", "ok", "failed"}
      BY <2>1, <2>3 DEF PoolIsLawful, ReadInv
    <2> QED BY <2>1, <2>3, <2>4, OneReadMoves
  <1>2. ASSUME NEW c \in Readers, SearchFails(c)
        PROVE  ReadInv'
    <2> DEFINE r == [reads[c] EXCEPT !.at = "refused", !.pool = <<>>]
    <2>1. UNCHANGED <<marks, readEnv, scorer>> /\ reads[c] \in ReadStates
      BY <1>2 DEF SearchFails, ReadInv
    <2>2. reads' = [reads EXCEPT ![c] = r]
      BY <1>2 DEF SearchFails, Ends, ReadInv
    <2>3. <<>> \in Seq(Rows)
      BY EmptySeq
    <2>4. r \in ReadStates /\ r.at = "refused"
      BY <2>1, <2>3 DEF ReadStates
    <2> HIDE DEF r
    <2>5. PoolIsLawful(r) /\ scorer' \in {"none", "ok", "failed"}
      BY <2>1, <2>4 DEF PoolIsLawful, ReadInv
    <2> QED BY <2>1, <2>2, <2>4, <2>5, OneReadMoves
  <1>3. ASSUME NEW c \in Readers, AnswerBoosted(c)
        PROVE  ReadInv'
    <2>1. reads[c].pool \in Seq(Rows) /\ scorer' \in {"none", "ok", "failed"}
      BY <1>3 DEF AnswerBoosted, ReadInv, ReadStates
    <2> QED BY <1>3, <2>1, AnswerIsLawful DEF AnswerBoosted
  <1>4. ASSUME NEW c \in Readers, NEW state \in {"none", "ok", "failed"}, AnswerRead(c, state)
        PROVE  ReadInv'
    <2> DEFINE scored == readEnv.reranker /\ state = "ok"
    <2>1. reads[c].pool \in Seq(Rows) /\ scored \in BOOLEAN
      BY DEF ReadInv, ReadStates
    <2>2. PICK s \in Selections(reads[c].pool, scored) :
              Ends(c, "answered", First(s, reads[c].limit))
      BY <1>4 DEF AnswerRead
    <2> HIDE DEF scored
    <2>3. Stratified(s, Rows, ToSet(reads[c].pool) \ Demoted(reads[c].pool), Demoted(reads[c].pool))
      BY <2>1, SelectionsAreOrdered
    <2>4. s \in Seq(Rows) /\ ToSet(s) = ToSet(reads[c].pool)
      BY <2>3 DEF Stratified, Demoted
    <2> QED BY <1>4, <2>2, <2>4, AnswerIsLawful DEF AnswerRead
  <1>5. ASSUME NEW c \in Readers, NEW r \in Rows, GetMemory(c, r)
        PROVE  ReadInv'
    <2>1. <<r>> \in Seq(Rows) /\ 1 \in 1..MaxQueryK
      BY DEF ReadAssumption
    <2> QED BY <1>5, <2>1, ThroughIsLawful DEF GetMemory
  <1>6. ASSUME NEW c \in Readers, NEW r \in Rows, NEW k \in 1..MaxQueryK,
               SampleByWing(c, PathOf[r][1], k)
        PROVE  ReadInv'
    <2>1. ListRecentByWing(PathOf[r][1], k) \in Seq(Rows)
      BY SampledAreRows DEF ReadAssumption
    <2> QED BY <1>6, <2>1, ThroughIsLawful DEF SampleByWing
  <1>7. ASSUME NEW r \in Rows, NEW kept \in SUBSET marks[r], RetireRow(r, kept)
        PROVE  ReadInv'
    BY <1>7 DEF RetireRow, ReadInv, Statuses
  <1>8. ASSUME NEW reader \in BOOLEAN, NEW reranker \in BOOLEAN,
               FlipEnv([reader |-> reader, reranker |-> reranker])
        PROVE  ReadInv'
    BY <1>8 DEF FlipEnv, ReadInv
  <1>9. CASE UNCHANGED readVars
    BY <1>9 DEF readVars, ReadInv
  <1>10. ASSUME NEW c \in Readers, NEW q \in Queries, Fetch(c, q)
         PROVE  ReadInv'
    BY <1>10, FetchIsLawful
  <1> QED BY <1>1, <1>2, <1>3, <1>4, <1>5, <1>6, <1>7, <1>8, <1>9, <1>10 DEF ReadNext

\* Nothing hidden is read: what a search, a get or a sample answers was, when
\* the store was asked, neither retired nor foreign nor out of the profile's
\* paths - for any drawers, scores, dates, likenesses, patterns and limits, and
\* however drawers are retired and switches flipped between the steps of a read.
THEOREM ReadsAreLawful == ReadSpec => []NothingHiddenIsRead
  <1>1. ReadInit => ReadInv
    BY ReadStarts, ReadAssumption
  <1>2. ReadInv /\ [ReadNext]_readVars => ReadInv'
    BY ReadSteps, ReadAssumption
  <1>3. ReadInv => NothingHiddenIsRead
    BY DEF ReadInv, PoolIsLawful, NothingHiddenIsRead, Answered
  <1> QED BY <1>1, <1>2, <1>3, PTL DEF ReadSpec

-----------------------------------------------------------------------------
(* Recall: the canonical row wins *)

\* Only its reader ends a read that has fetched.
LEMMA ReaderAnswers ==
  ASSUME ReadInv, [ReadNext]_readVars, NEW c \in Readers,
         reads[c].at = "fetched", reads'[c].at = "answered", reads[c].reader
  PROVE  \E state \in {"none", "ok", "failed"} : AnswerRead(c, state)
  <1>1. reads \in [Readers -> ReadStates]
    BY DEF ReadInv
  <1>2. UNCHANGED reads => FALSE
    OBVIOUS
  <1>3. ASSUME NEW d \in Readers, d # c,
               \/ \E k \in 1..MaxQueryK : BeginSearch(d, k)
               \/ \E q \in Queries : Fetch(d, q)
               \/ SearchFails(d)
               \/ AnswerBoosted(d)
               \/ \E state \in {"none", "ok", "failed"} : AnswerRead(d, state)
               \/ \E r \in Rows : GetMemory(d, r)
               \/ \E r \in Rows, k \in 1..MaxQueryK : SampleByWing(d, PathOf[r][1], k)
        PROVE  FALSE
    BY <1>1, <1>3 DEF BeginSearch, Fetch, SearchFails, AnswerBoosted, AnswerRead, GetMemory,
       SampleByWing, ReadThrough, Ends
  <1>4. \A k \in 1..MaxQueryK : ~BeginSearch(c, k)
    BY DEF BeginSearch
  <1>5. \A q \in Queries : ~Fetch(c, q)
    BY DEF Fetch
  <1>6. ~SearchFails(c) /\ ~AnswerBoosted(c)
    BY DEF SearchFails, AnswerBoosted
  <1>7. /\ \A r \in Rows : ~GetMemory(c, r)
        /\ \A r \in Rows, k \in 1..MaxQueryK : ~SampleByWing(c, PathOf[r][1], k)
    BY DEF GetMemory, SampleByWing, ReadThrough
  <1>8. /\ \A r \in Rows : \A kept \in SUBSET marks[r] : ~RetireRow(r, kept)
        /\ \A env : ~FlipEnv(env)
    BY <1>2 DEF RetireRow, FlipEnv
  <1>9. ~UNCHANGED readVars
    BY <1>2 DEF readVars
  <1> QED BY <1>3, <1>4, <1>5, <1>6, <1>7, <1>8, <1>9 DEF ReadNext

\* In an order the reader settles on, cut anywhere, the newest of a slot stands
\* before what is older.
LEMMA NewestStandsFirst ==
  ASSUME ReadAssumption, NEW s \in Seq(Rows), NEW scored \in BOOLEAN,
         NEW t \in Selections(s, scored), NEW k \in Nat,
         NEW j \in DOMAIN First(t, k), NEW a \in ToSet(s),
         Dated(First(t, k)[j]), Dated(a), SameSlot(s, a, First(t, k)[j]),
         \A x \in ToSet(s) : Dated(x) /\ SameSlot(s, a, x) => Epoch[x] =< Epoch[a],
         Epoch[First(t, k)[j]] < Epoch[a]
  PROVE  \E i \in 1..(j - 1) : /\ Epoch[First(t, k)[i]] = Epoch[a]
                               /\ SameSlot(s, a, First(t, k)[i])
  <1> DEFINE now == First(t, k)
  <1>1. Stratified(t, Rows, ToSet(s) \ Demoted(s), Demoted(s))
    BY SelectionsAreOrdered
  <1>2. t \in Seq(Rows) /\ ToSet(t) = ToSet(s)
    BY <1>1 DEF Stratified, Demoted
  <1>3. /\ now \in Seq(Rows) /\ Len(now) = SmallerOf(k, Len(t))
        /\ \A i \in 1..SmallerOf(k, Len(t)) : now[i] = t[i]
    BY <1>2, FirstIsPart
  <1>4. Len(t) \in Nat /\ DOMAIN t = 1..Len(t) /\ DOMAIN now = 1..Len(now)
    BY <1>2, <1>3, LenProperties
  <1>5. SmallerOf(k, Len(t)) \in Nat /\ SmallerOf(k, Len(t)) =< Len(t)
    BY <1>4 DEF SmallerOf
  <1>6. \A i \in DOMAIN now : now[i] = t[i] /\ i \in DOMAIN t
    BY <1>3, <1>4, <1>5
  <1>7. t[j] \in ToSet(s) /\ now[j] = t[j]
    BY <1>2, <1>6 DEF ToSet
  <1>8. t[j] \in Demoted(s)
    <2>1. Dated(t[j]) /\ SameSlot(s, a, t[j]) /\ Epoch[t[j]] < Epoch[a]
      BY <1>7
    <2> HIDE DEF now
    <2> QED BY <1>7, <2>1, NewestIsLive
  <1>9. PICK e \in ToSet(s) \ Demoted(s) : SameSlot(s, a, e) /\ Epoch[e] = Epoch[a]
    BY NewestIsLive
  <1> HIDE DEF now
  <1>10. PICK i \in 1..(j - 1) : t[i] = e
    BY <1>1, <1>6, <1>8, <1>9 DEF Stratified, now
  <1>11. i \in DOMAIN now
    BY <1>3, <1>4, <1>5, <1>10 DEF now
  <1>12. Epoch[now[i]] = Epoch[a] /\ SameSlot(s, a, now[i])
    BY <1>6, <1>9, <1>10, <1>11
  <1> QED BY <1>10, <1>12 DEF now

\* The canonical row wins: in each answer of the reader the newest dated
\* candidate of a slot stands before whatever of that slot is older - whatever
\* the scorer said, whatever the limit cut off, and whichever way the switches were
\* flipped since the candidates were fetched.
THEOREM TheCanonicalRowWins == ReadSpec => CanonicalRowWins
  <1> DEFINE Wins == \A c \in Readers :
         reads[c].at = "fetched" /\ reads'[c].at = "answered" /\ reads[c].reader =>
           LET was == reads[c].pool
               now == reads'[c].pool
           IN \A j \in DOMAIN now : \A a \in ToSet(was) :
                /\ Dated(now[j]) /\ Dated(a)
                /\ SameSlot(was, a, now[j])
                /\ \A x \in ToSet(was) : Dated(x) /\ SameSlot(was, a, x) => Epoch[x] =< Epoch[a]
                /\ Epoch[now[j]] < Epoch[a]
                => \E i \in 1..(j - 1) : Epoch[now[i]] = Epoch[a] /\ SameSlot(was, a, now[i])
  <1>1. ReadInit => ReadInv
    BY ReadStarts, ReadAssumption
  <1>2. ReadInv /\ [ReadNext]_readVars => ReadInv'
    BY ReadSteps, ReadAssumption
  <1>3. ReadInv /\ [ReadNext]_readVars => [Wins]_readVars
    <2> SUFFICES ASSUME ReadInv, [ReadNext]_readVars, NEW c \in Readers,
                        reads[c].at = "fetched", reads'[c].at = "answered", reads[c].reader,
                        NEW j \in DOMAIN reads'[c].pool, NEW a \in ToSet(reads[c].pool),
                        Dated(reads'[c].pool[j]), Dated(a),
                        SameSlot(reads[c].pool, a, reads'[c].pool[j]),
                        \A x \in ToSet(reads[c].pool) :
                            Dated(x) /\ SameSlot(reads[c].pool, a, x) => Epoch[x] =< Epoch[a],
                        Epoch[reads'[c].pool[j]] < Epoch[a]
                 PROVE  \E i \in 1..(j - 1) : /\ Epoch[reads'[c].pool[i]] = Epoch[a]
                                              /\ SameSlot(reads[c].pool, a, reads'[c].pool[i])
      OBVIOUS
    <2>1. PICK state \in {"none", "ok", "failed"} : AnswerRead(c, state)
      BY ReaderAnswers
    <2>2. PICK s : s = reads[c].pool
      OBVIOUS
    <2>3. PICK scored \in BOOLEAN : scored = (readEnv.reranker /\ state = "ok")
      OBVIOUS
    <2>4. PICK t \in Selections(s, scored) : Ends(c, "answered", First(t, reads[c].limit))
      BY <2>1, <2>2, <2>3 DEF AnswerRead
    <2>5. s \in Seq(Rows) /\ reads[c].limit \in Nat /\ reads \in [Readers -> ReadStates]
      BY <2>2 DEF ReadInv, ReadStates
    <2>6. reads'[c].pool = First(t, reads[c].limit)
      BY <2>4, <2>5 DEF Ends, ReadStates
    <2>7. PICK k \in Nat : k = reads[c].limit
      BY <2>5
    <2>8. reads'[c].pool = First(t, k) /\ j \in DOMAIN First(t, k) /\ a \in ToSet(s)
      BY <2>2, <2>6, <2>7
    <2>9. /\ Dated(First(t, k)[j]) /\ SameSlot(s, a, First(t, k)[j])
          /\ Epoch[First(t, k)[j]] < Epoch[a]
          /\ \A x \in ToSet(s) : Dated(x) /\ SameSlot(s, a, x) => Epoch[x] =< Epoch[a]
      BY <2>2, <2>8
    <2>10. \E i \in 1..(j - 1) : /\ Epoch[First(t, k)[i]] = Epoch[a]
                                 /\ SameSlot(s, a, First(t, k)[i])
      BY <2>5, <2>8, <2>9, NewestStandsFirst, ReadAssumption
    <2> QED BY <2>2, <2>8, <2>10
  <1> QED BY <1>1, <1>2, <1>3, PTL DEF ReadSpec, CanonicalRowWins

-----------------------------------------------------------------------------
(* CalibrationFit: the observations of some bins *)

Tallies == [1..BinCount -> [right : Nat, wrong : Nat]]

\* Some bins have a number of observations, none exactly when no bin has any.
LEMMA AmountsCount ==
  ASSUME FitAssumption, rows \in Tallies,
         NEW kind \in {"right", "wrong"}, NEW bins \in SUBSET (1..BinCount)
  PROVE  /\ Amount(kind, bins) \in Nat
         /\ Amount(kind, bins) > 0 <=> \E b \in bins : rows[b][kind] > 0
  <1> DEFINE Of(b) == {b} \X (1..rows[b][kind])
             all == {Of(b) : b \in bins}
             of == [b \in bins |-> Of(b)]
  <1>1. \A b \in bins : rows[b][kind] \in Nat
    BY DEF Tallies
  <1>2. IsFiniteSet(bins)
    <2>1. IsFiniteSet(1..BinCount)
      BY FS_Interval DEF FitAssumption
    <2> QED BY <2>1, FS_Subset
  <1>3. \A b \in bins : IsFiniteSet(Of(b))
    <2> SUFFICES ASSUME NEW b \in bins PROVE IsFiniteSet(Of(b))
      OBVIOUS
    <2>1. IsFiniteSet(1..rows[b][kind])
      BY <1>1, FS_Interval
    <2>2. IsFiniteSet({b})
      BY FS_Singleton
    <2> QED BY <2>1, <2>2, FS_Product
  <1>4. of \in Surjection(bins, all)
    <2> HIDE DEF Of
    <2> QED BY DEF Surjection
  <1>5. Observed(kind, bins) = UNION all
    BY DEF Observed
  <1>6. (\E b \in bins : rows[b][kind] > 0) <=> UNION all # {}
    <2>1. ASSUME NEW b \in bins, rows[b][kind] > 0 PROVE UNION all # {}
      <3>1. <<b, 1>> \in Of(b)
        BY <1>1, <2>1
      <3> HIDE DEF Of
      <3> QED BY <3>1
    <2>2. ASSUME NEW o \in UNION all PROVE \E b \in bins : rows[b][kind] > 0
      <3> HIDE DEF Of
      <3>1. PICK b \in bins : o \in Of(b)
        OBVIOUS
      <3>2. o[2] \in 1..rows[b][kind]
        BY <3>1 DEF Of
      <3> QED BY <1>1, <3>2
    <2> QED BY <2>1, <2>2
  <1>7. \A t \in all : IsFiniteSet(t)
    BY <1>3
  <1> HIDE DEF Of, of, all
  <1>8. IsFiniteSet(all)
    BY <1>2, <1>4, FS_Surjection
  <1>9. IsFiniteSet(UNION all)
    BY <1>7, <1>8, FS_UNION
  <1>10. Amount(kind, bins) \in Nat /\ (Amount(kind, bins) = 0 <=> UNION all = {})
    BY <1>5, <1>9, FS_CardinalityType, FS_EmptySet DEF Amount
  <1> QED BY <1>6, <1>10

-----------------------------------------------------------------------------
(* CalibrationFit: the groups *)

Groups == [first : 1..BinCount, last : 1..BinCount]

\* The groups cover the bins from the first to the last, one after another.
Tile(gs) ==
    /\ gs \in Seq(Groups) /\ Len(gs) > 0
    /\ gs[1].first = 1 /\ gs[Len(gs)].last = BinCount
    /\ \A i \in DOMAIN gs : gs[i].first =< gs[i].last
    /\ \A i \in 1..Len(gs) - 1 : gs[i + 1].first = gs[i].last + 1
    /\ \A i, j \in DOMAIN gs : i < j => gs[i].last < gs[j].first
    /\ \A b \in 1..BinCount : \E i \in DOMAIN gs : b \in BinsOf(gs[i])

\* What MergeFirstThin makes of the groups: two neighbours become one
Both(gs, left) == [first |-> gs[left].first, last |-> gs[left + 1].last]
Merged(gs, left) ==
    SubSeq(gs, 1, left - 1) \o <<Both(gs, left)>> \o SubSeq(gs, left + 2, Len(gs))

\* Every group but the two keeps its place, or moves up by one.
LEMMA MergedPlaces ==
  ASSUME NEW gs \in Seq(Groups), NEW left \in 1..Len(gs) - 1
  PROVE  /\ Merged(gs, left) \in Seq(Groups) /\ Len(Merged(gs, left)) = Len(gs) - 1
         /\ \A k \in 1..Len(gs) - 1 :
               Merged(gs, left)[k] = IF k < left THEN gs[k]
                                     ELSE IF k = left THEN Both(gs, left) ELSE gs[k + 1]
  <1> DEFINE n == Len(gs)
             a == SubSeq(gs, 1, left - 1)
             b == <<Both(gs, left)>>
             c == SubSeq(gs, left + 2, n)
             ab == a \o b
             abc == ab \o c
  <1>1. n \in Nat /\ left \in Nat /\ left >= 1 /\ left + 1 =< n /\ DOMAIN gs = 1..n
    OBVIOUS
  <1>2. \A k \in 1..n : gs[k] \in Groups
    OBVIOUS
  <1>3. Both(gs, left) \in Groups
    <2>1. gs[left] \in Groups /\ gs[left + 1] \in Groups
      BY <1>1, <1>2
    <2> QED BY <2>1 DEF Both, Groups
  <1>4. Merged(gs, left) = abc
    BY DEF Merged
  <1>5. b \in Seq(Groups) /\ Len(b) = 1 /\ b[1] = Both(gs, left)
    BY <1>3
  <1> HIDE DEF n
  <1>6. /\ a \in Seq(Groups) /\ Len(a) = left - 1
        /\ \A k \in 1..left - 1 : a[k] = gs[k]
    <2>1. \A k \in 1..left - 1 : gs[k] \in Groups
      BY <1>1, <1>2
    <2>2. /\ a \in Seq(Groups) /\ Len(a) = IF 1 =< left - 1 THEN left - 1 - 1 + 1 ELSE 0
          /\ \A k \in 1..left - 1 - 1 + 1 : a[k] = gs[1 + k - 1]
      BY <1>1, <2>1, SubSeqProperties
    <2> HIDE DEF a
    <2> QED BY <1>1, <2>2
  <1>7. /\ c \in Seq(Groups) /\ Len(c) = n - left - 1
        /\ \A k \in 1..n - left - 1 : c[k] = gs[left + 1 + k]
    <2>1. \A k \in left + 2..n : gs[k] \in Groups
      BY <1>1, <1>2
    <2>2. /\ c \in Seq(Groups) /\ Len(c) = IF left + 2 =< n THEN n - (left + 2) + 1 ELSE 0
          /\ \A k \in 1..n - (left + 2) + 1 : c[k] = gs[left + 2 + k - 1]
      BY <1>1, <2>1, SubSeqProperties
    <2> HIDE DEF c
    <2>3. \A k \in 1..n - left - 1 : k \in 1..n - (left + 2) + 1 /\ left + 2 + k - 1 = left + 1 + k
      BY <1>1
    <2>4. Len(c) = n - left - 1
      BY <1>1, <2>2
    <2> QED BY <2>2, <2>3, <2>4
  <1> HIDE DEF a, b, c
  <1>8. /\ ab \in Seq(Groups) /\ Len(ab) = left
        /\ \A k \in 1..left : ab[k] = IF k =< left - 1 THEN a[k] ELSE b[k - (left - 1)]
    <2>1. /\ ab \in Seq(Groups) /\ Len(ab) = Len(a) + Len(b)
          /\ \A k \in 1..Len(a) + Len(b) : ab[k] = IF k =< Len(a) THEN a[k] ELSE b[k - Len(a)]
      BY <1>5, <1>6, ConcatProperties
    <2> HIDE DEF ab
    <2> QED BY <1>1, <1>5, <1>6, <2>1
  <1> HIDE DEF ab
  <1>9. /\ abc \in Seq(Groups) /\ Len(abc) = n - 1
        /\ \A k \in 1..n - 1 : abc[k] = IF k =< left THEN ab[k] ELSE c[k - left]
    <2>1. /\ abc \in Seq(Groups) /\ Len(abc) = Len(ab) + Len(c)
          /\ \A k \in 1..Len(ab) + Len(c) : abc[k] = IF k =< Len(ab) THEN ab[k] ELSE c[k - Len(ab)]
      BY <1>7, <1>8, ConcatProperties
    <2> HIDE DEF abc
    <2> QED BY <1>1, <1>7, <1>8, <2>1
  <1> HIDE DEF abc
  <1>10. ASSUME NEW k \in 1..n - 1
         PROVE  abc[k] = IF k < left THEN gs[k] ELSE IF k = left THEN Both(gs, left) ELSE gs[k + 1]
    <2>1. CASE k < left
      BY <1>1, <1>6, <1>8, <1>9, <2>1
    <2>2. CASE k = left
      BY <1>1, <1>5, <1>8, <1>9, <2>2
    <2>3. CASE k > left
      <3>1. k - left \in 1..n - left - 1 /\ left + 1 + (k - left) = k + 1
        BY <1>1, <2>3
      <3> QED BY <1>1, <1>7, <1>9, <2>3, <3>1
    <2> QED BY <1>1, <2>1, <2>2, <2>3
  <1> QED BY <1>4, <1>9, <1>10 DEF n

\* Merging two neighbours leaves the bins covered.
LEMMA MergedTile ==
  ASSUME FitAssumption, NEW gs, Tile(gs), NEW left \in 1..Len(gs) - 1
  PROVE  Tile(Merged(gs, left))
  <1> DEFINE n == Len(gs)
             h == Merged(gs, left)
             from(k) == IF k =< left THEN k ELSE k + 1
             to(k) == IF k < left THEN k ELSE k + 1
  <1>1. gs \in Seq(Groups) /\ n \in Nat /\ left \in Nat /\ left >= 1 /\ left =< n - 1 /\ DOMAIN gs = 1..n
    BY DEF Tile
  <1> HIDE DEF h
  <1>2. /\ h \in Seq(Groups) /\ Len(h) = n - 1
        /\ \A k \in 1..n - 1 :
              h[k] = IF k < left THEN gs[k] ELSE IF k = left THEN Both(gs, left) ELSE gs[k + 1]
    BY <1>1, MergedPlaces DEF h
  <1>2a. DOMAIN h = 1..n - 1
    BY <1>2
  <1>3. \A k \in 1..n - 1 : h[k].first = gs[from(k)].first /\ h[k].last = gs[to(k)].last
    <2> SUFFICES ASSUME NEW k \in 1..n - 1
                 PROVE  h[k].first = gs[from(k)].first /\ h[k].last = gs[to(k)].last
      OBVIOUS
    <2>1. CASE k < left
      BY <1>1, <1>2, <2>1
    <2>2. CASE k = left
      BY <1>1, <1>2, <2>2 DEF Both
    <2>3. CASE k > left
      BY <1>1, <1>2, <2>3
    <2> QED BY <1>1, <2>1, <2>2, <2>3
  <1>4. \A i \in 1..n : gs[i].first \in Nat /\ gs[i].last \in Nat
    <2>1. \A i \in 1..n : gs[i] \in Groups
      BY <1>1
    <2> QED BY <2>1, FitAssumption DEF Groups, FitAssumption
  <1>5. /\ gs[1].first = 1 /\ gs[n].last = BinCount
        /\ \A i \in 1..n : gs[i].first =< gs[i].last
        /\ \A i \in 1..n - 1 : gs[i + 1].first = gs[i].last + 1
        /\ \A i, j \in 1..n : i < j => gs[i].last < gs[j].first
        /\ \A b \in 1..BinCount : \E i \in 1..n : b \in BinsOf(gs[i])
    BY <1>1 DEF Tile
  <1>6. \A k \in 1..n - 1 : from(k) \in 1..n /\ to(k) \in 1..n
    BY <1>1
  <1> HIDE DEF n
  <1>7. h[1].first = 1 /\ h[n - 1].last = BinCount
    <2>1. 1 \in 1..n - 1 /\ n - 1 \in 1..n - 1 /\ from(1) = 1 /\ to(n - 1) = n
      BY <1>1
    <2> HIDE DEF from, to
    <2> QED BY <1>3, <1>5, <2>1
  <1>8. \A i \in 1..n - 1 : from(i) =< to(i) /\ to(i) =< from(i) + 1
    BY <1>1
  <1>9. \A i, j \in 1..n - 1 : i < j => to(i) < from(j)
    BY <1>1
  <1>10. \A i \in 1..n - 2 : from(i + 1) = to(i) + 1 /\ to(i) \in 1..n - 1 /\ i \in 1..n - 1 /\ i + 1 \in 1..n - 1
    BY <1>1
  <1>11. \A i \in 1..n : \E k \in 1..n - 1 : from(k) =< i /\ i =< to(k)
    <2> SUFFICES ASSUME NEW i \in 1..n PROVE \E k \in 1..n - 1 : from(k) =< i /\ i =< to(k)
      OBVIOUS
    <2>1. CASE i =< left
      <3>1. i \in 1..n - 1 /\ from(i) =< i /\ i =< to(i)
        BY <1>1, <2>1
      <3> QED BY <3>1
    <2>2. CASE i > left
      <3>1. i - 1 \in 1..n - 1 /\ from(i - 1) =< i /\ i =< to(i - 1)
        BY <1>1, <2>2
      <3> QED BY <3>1
    <2> QED BY <1>1, <2>1, <2>2
  <1> HIDE DEF from, to
  <1>12. \A i, j \in 1..n : i =< j => gs[i].first =< gs[j].first /\ gs[i].last =< gs[j].last
    <2> SUFFICES ASSUME NEW i \in 1..n, NEW j \in 1..n, i < j
                 PROVE  gs[i].first =< gs[j].first /\ gs[i].last =< gs[j].last
      BY <1>1, <1>4
    <2>1. gs[i].last < gs[j].first /\ gs[i].first =< gs[i].last /\ gs[j].first =< gs[j].last
      BY <1>5
    <2> QED BY <1>4, <2>1
  <1>13. \A i \in 1..n - 1 : h[i].first =< h[i].last
    <2> SUFFICES ASSUME NEW i \in 1..n - 1 PROVE gs[from(i)].first =< gs[to(i)].last
      BY <1>3
    <2>1. gs[from(i)].first =< gs[to(i)].first /\ gs[to(i)].first =< gs[to(i)].last
      BY <1>5, <1>6, <1>8, <1>12
    <2> QED BY <1>4, <1>6, <2>1
  <1>14. \A i \in 1..n - 2 : h[i + 1].first = h[i].last + 1
    BY <1>3, <1>5, <1>10
  <1>15. \A i, j \in 1..n - 1 : i < j => h[i].last < h[j].first
    BY <1>3, <1>5, <1>6, <1>9
  <1>16. \A b \in 1..BinCount : \E k \in 1..n - 1 : b \in BinsOf(h[k])
    <2> SUFFICES ASSUME NEW b \in 1..BinCount PROVE \E k \in 1..n - 1 : b \in BinsOf(h[k])
      OBVIOUS
    <2>1. PICK i \in 1..n : b \in gs[i].first..gs[i].last
      BY <1>5 DEF BinsOf
    <2>2. PICK k \in 1..n - 1 : from(k) =< i /\ i =< to(k)
      BY <1>11
    <2>3. gs[from(k)].first =< gs[i].first /\ gs[i].last =< gs[to(k)].last
      BY <1>6, <1>12, <2>2
    <2>4. /\ gs[from(k)].first \in Nat /\ gs[to(k)].last \in Nat
          /\ gs[i].first \in Nat /\ gs[i].last \in Nat /\ b \in Nat
      BY <1>4, <1>6, FitAssumption DEF FitAssumption
    <2> DEFINE lo == gs[from(k)].first
               hi == gs[to(k)].last
               f == gs[i].first
               l == gs[i].last
    <2>5. /\ lo \in Nat /\ hi \in Nat /\ f \in Nat /\ l \in Nat /\ b \in Nat
          /\ lo =< f /\ l =< hi /\ b \in f..l
      BY <2>1, <2>3, <2>4
    <2> HIDE DEF lo, hi, f, l
    <2>6. b \in lo..hi
      BY <2>5
    <2>7. b \in gs[from(k)].first..gs[to(k)].last
      BY <2>6 DEF lo, hi
    <2> QED BY <1>3, <2>7 DEF BinsOf
  <1>17. n - 1 > 0 /\ n - 1 - 1 = n - 2
    BY <1>1
  <1>18. Tile(h)
    BY <1>2, <1>2a, <1>7, <1>13, <1>14, <1>15, <1>16, <1>17 DEF Tile
  <1> QED BY <1>18 DEF h

-----------------------------------------------------------------------------
(* CalibrationFit: the values of the groups, and the threshold *)

\* The groups cover the bins, and each of them has an observation.
Fitted ==
    /\ rows \in Tallies /\ Tile(groups)
    /\ \A i \in DOMAIN groups : Size(groups[i]) > 0

\* A fraction for each group, and for each bin one group.
LEMMA SharesAreFractions ==
  ASSUME FitAssumption, Fitted, NEW i \in DOMAIN groups
  PROVE  /\ BinsOf(groups[i]) \in SUBSET (1..BinCount)
         /\ Amount("right", BinsOf(groups[i])) \in Nat
         /\ Amount("wrong", BinsOf(groups[i])) \in Nat
         /\ Share(groups[i]) \in Fractions
  <1>1. groups[i] \in Groups
    BY DEF Fitted, Tile
  <1>2. BinsOf(groups[i]) \in SUBSET (1..BinCount)
    BY <1>1, FitAssumption DEF BinsOf, Groups, FitAssumption
  <1>3. Amount("right", BinsOf(groups[i])) \in Nat /\ Amount("wrong", BinsOf(groups[i])) \in Nat
    BY <1>2, AmountsCount DEF Fitted
  <1>4. Size(groups[i]) \in Nat \ {0}
    BY <1>3 DEF Size, Fitted
  <1> QED BY <1>2, <1>3, <1>4 DEF Share, Fractions

\* The value of a group is the largest share up to it.
LEMMA ValuesAreMaxima ==
  ASSUME FitAssumption, Fitted, NEW i \in DOMAIN groups
  PROVE  /\ ValueOf(i) \in Fractions
         /\ \E j \in 1..i : ValueOf(i) = Share(groups[j])
         /\ \A j \in 1..i : AtMost(Share(groups[j]), ValueOf(i))
         /\ 1..i \subseteq DOMAIN groups
  <1> DEFINE shares == {Share(groups[j]) : j \in 1..i}
             share == [j \in 1..i |-> Share(groups[j])]
  <1>1. i \in Nat /\ i >= 1 /\ 1..i \subseteq DOMAIN groups
    BY DEF Fitted, Tile
  <1>2. \A j \in 1..i : Share(groups[j]) \in Fractions
    BY <1>1, SharesAreFractions
  <1>3. shares \in SUBSET Fractions /\ shares # {}
    BY <1>1, <1>2
  <1>4. IsFiniteSet(shares)
    <2>1. share \in Surjection(1..i, shares)
      BY DEF Surjection
    <2>2. IsFiniteSet(1..i)
      BY <1>1, FS_Interval
    <2> HIDE DEF share, shares
    <2> QED BY <2>1, <2>2, FS_Surjection
  <1>5. \E v \in shares : \A w \in shares : AtMost(w, v)
    <2> HIDE DEF shares
    <2> QED BY <1>3, <1>4, SomeFractionIsExtreme
  <1>6. \E v \in shares : \A j \in 1..i : AtMost(Share(groups[j]), v)
    BY <1>5
  <1>7. ValueOf(i) = CHOOSE v \in shares : \A j \in 1..i : AtMost(Share(groups[j]), v)
    BY DEF ValueOf
  <1>8. ValueOf(i) \in shares /\ \A j \in 1..i : AtMost(Share(groups[j]), ValueOf(i))
    <2> HIDE DEF shares
    <2> QED BY <1>6, <1>7
  <1> QED BY <1>1, <1>3, <1>8

\* A bin falls into one group, whose value is that of its observations.
LEMMA BinsHaveAGroup ==
  ASSUME FitAssumption, Fitted, NEW b \in 1..BinCount
  PROVE  /\ \E i \in DOMAIN groups : b \in BinsOf(groups[i])
         /\ \A i \in DOMAIN groups : b \in BinsOf(groups[i]) => Calibrated(b) = ValueOf(i)
  <1>1. \E i \in DOMAIN groups : b \in BinsOf(groups[i])
    BY DEF Fitted, Tile
  <1>2. ASSUME NEW i \in DOMAIN groups, NEW j \in DOMAIN groups, i < j,
               b \in BinsOf(groups[i]), b \in BinsOf(groups[j])
        PROVE  FALSE
    <2>1. groups[i].last < groups[j].first
      BY <1>2 DEF Fitted, Tile
    <2>2. groups[i] \in Groups /\ groups[j] \in Groups
      BY DEF Fitted, Tile
    <2>3. groups[i].first \in Nat /\ groups[i].last \in Nat /\ groups[j].first \in Nat /\ groups[j].last \in Nat
      BY <2>2, FitAssumption DEF Groups, FitAssumption
    <2>4. b =< groups[i].last /\ groups[j].first =< b /\ b \in Nat
      BY <1>2, <2>3, FitAssumption DEF BinsOf, FitAssumption
    <2> QED BY <2>1, <2>3, <2>4
  <1>3. ASSUME NEW i \in DOMAIN groups, NEW j \in DOMAIN groups,
               b \in BinsOf(groups[i]), b \in BinsOf(groups[j])
        PROVE  i = j
    <2>1. i \in Nat /\ j \in Nat
      BY DEF Fitted, Tile
    <2>2. ~(i < j) /\ ~(j < i)
      BY <1>2, <1>3
    <2> QED BY <2>1, <2>2
  <1>4. ASSUME NEW i \in DOMAIN groups, b \in BinsOf(groups[i]) PROVE Calibrated(b) = ValueOf(i)
    <2> DEFINE c == CHOOSE k \in DOMAIN groups : b \in BinsOf(groups[k])
    <2>1. c \in DOMAIN groups /\ b \in BinsOf(groups[c])
      BY <1>1
    <2>2. Calibrated(b) = ValueOf(c)
      BY DEF Calibrated
    <2> HIDE DEF c
    <2>3. c = i
      BY <1>3, <1>4, <2>1
    <2> QED BY <2>2, <2>3
  <1> QED BY <1>1, <1>4

\* The groups rise, and a fitted value keeps the wrong out and lets somebody in.
SoundAt(v) ==
    /\ groups[1].first = 1 /\ groups[Len(groups)].last = BinCount
    /\ \A i \in 1..Len(groups) - 1 :
           /\ groups[i + 1].first = groups[i].last + 1
           /\ AtMost(ValueOf(i), ValueOf(i + 1))
    /\ v # Shutdown =>
           /\ v \in Values
           /\ \A b \in 1..BinCount : rows[b].wrong > 0 => Below(Calibrated(b), v)
           /\ \E b \in 1..BinCount : rows[b].right > 0 /\ AtMost(v, Calibrated(b))

\* What FitThreshold takes for the threshold
Lowest == IF Rungs = {} THEN Shutdown
          ELSE CHOOSE v \in Rungs : \A w \in Rungs : AtMost(v, w)

\* A rung is above the wrong, and somebody right stands on it.
LEMMA RungsAreSound ==
  ASSUME FitAssumption, Fitted, NEW v \in Rungs
  PROVE  /\ \A b \in 1..BinCount : rows[b].wrong > 0 => Below(Calibrated(b), v)
         /\ \E b \in 1..BinCount : rows[b].right > 0 /\ AtMost(v, Calibrated(b))
  <1>1. v \in Values /\ \A w \in WrongValues : Below(w, v)
    BY DEF Rungs
  <1>2. ASSUME NEW i \in DOMAIN groups, Amount("wrong", BinsOf(groups[i])) > 0
        PROVE  Below(ValueOf(i), v)
    BY <1>1, <1>2 DEF WrongValues
  <1>3. ASSUME NEW b \in 1..BinCount, rows[b].wrong > 0 PROVE Below(Calibrated(b), v)
    <2>1. PICK i \in DOMAIN groups : b \in BinsOf(groups[i])
      BY BinsHaveAGroup
    <2>2. Calibrated(b) = ValueOf(i)
      BY <2>1, BinsHaveAGroup
    <2>3. BinsOf(groups[i]) \in SUBSET (1..BinCount)
      BY SharesAreFractions
    <2>4. rows[b]["wrong"] > 0
      BY <1>3
    <2>5. Amount("wrong", BinsOf(groups[i])) > 0
      BY <2>1, <2>3, <2>4, AmountsCount DEF Fitted
    <2> QED BY <1>2, <2>2, <2>5
  <1>4. PICK k \in DOMAIN groups : v = ValueOf(k)
    BY <1>1 DEF Values
  <1>5. PICK j \in 1..k : v = Share(groups[j])
    BY <1>4, ValuesAreMaxima
  <1>6. j \in DOMAIN groups
    BY <1>5, ValuesAreMaxima
  <1>7. j \in 1..j
    BY <1>6 DEF Fitted, Tile
  <1>8. AtMost(v, ValueOf(j)) /\ ValueOf(j) \in Fractions /\ v \in Fractions
    BY <1>5, <1>6, <1>7, ValuesAreMaxima, SharesAreFractions
  <1>9. ~Below(ValueOf(j), v)
    BY <1>8, FractionLaws
  <1>10. ~(Amount("wrong", BinsOf(groups[j])) > 0)
    BY <1>2, <1>6, <1>9
  <1>11. Amount("right", BinsOf(groups[j])) > 0
    <2>1. Size(groups[j]) > 0
      BY <1>6 DEF Fitted
    <2> QED BY <1>6, <1>10, <2>1, SharesAreFractions DEF Size
  <1>12. BinsOf(groups[j]) \in SUBSET (1..BinCount)
    BY <1>6, SharesAreFractions
  <1>13. PICK b \in BinsOf(groups[j]) : rows[b]["right"] > 0
    BY <1>11, <1>12, AmountsCount DEF Fitted
  <1>14. b \in 1..BinCount
    BY <1>12
  <1>15. Calibrated(b) = ValueOf(j)
    BY <1>6, <1>13, <1>14, BinsHaveAGroup
  <1> QED BY <1>3, <1>8, <1>13, <1>14, <1>15

\* The fitted threshold is sound.
LEMMA LowestIsSound ==
  ASSUME FitAssumption, Fitted
  PROVE  SoundAt(Lowest)
  <1>1. groups[1].first = 1 /\ groups[Len(groups)].last = BinCount
    BY DEF Fitted, Tile
  <1>2. ASSUME NEW i \in 1..Len(groups) - 1
        PROVE  groups[i + 1].first = groups[i].last + 1 /\ AtMost(ValueOf(i), ValueOf(i + 1))
    <2>1. groups[i + 1].first = groups[i].last + 1
      BY DEF Fitted, Tile
    <2>2. i \in DOMAIN groups /\ i + 1 \in DOMAIN groups /\ 1..i \subseteq 1..(i + 1)
      BY DEF Fitted, Tile
    <2>3. PICK j \in 1..i : ValueOf(i) = Share(groups[j])
      BY <2>2, ValuesAreMaxima
    <2>4. AtMost(Share(groups[j]), ValueOf(i + 1))
      BY <2>2, ValuesAreMaxima
    <2> QED BY <2>1, <2>3, <2>4
  <1>3. ASSUME Rungs # {} PROVE Lowest \in Rungs
    <2> DEFINE value == [i \in DOMAIN groups |-> ValueOf(i)]
    <2>1. IsFiniteSet(DOMAIN groups)
      <3>1. DOMAIN groups = 1..Len(groups) /\ Len(groups) \in Nat
        BY DEF Fitted, Tile
      <3>2. IsFiniteSet(1..Len(groups))
        BY <3>1, FS_Interval
      <3> QED BY <3>1, <3>2
    <2>2. value \in Surjection(DOMAIN groups, Values)
      BY DEF Surjection, Values
    <2> HIDE DEF value
    <2>3. IsFiniteSet(Values)
      BY <2>1, <2>2, FS_Surjection
    <2>4. Rungs \in SUBSET Values /\ Values \in SUBSET Fractions
      BY ValuesAreMaxima DEF Rungs, Values
    <2>5. IsFiniteSet(Rungs)
      BY <2>3, <2>4, FS_Subset
    <2>6. Rungs \in SUBSET Fractions
      BY <2>4
    <2>7. \E v \in Rungs : \A w \in Rungs : AtMost(v, w)
      BY <1>3, <2>5, <2>6, SomeFractionIsExtreme
    <2> QED BY <1>3, <2>7 DEF Lowest
  <1>4. Lowest # Shutdown => Lowest \in Rungs
    BY <1>3 DEF Lowest
  <1>5. Lowest \in Rungs => Lowest \in Values
    BY DEF Rungs
  <1> HIDE DEF Lowest
  <1>6. ASSUME Lowest # Shutdown
        PROVE  /\ Lowest \in Values
               /\ \A b \in 1..BinCount : rows[b].wrong > 0 => Below(Calibrated(b), Lowest)
               /\ \E b \in 1..BinCount : rows[b].right > 0 /\ AtMost(Lowest, Calibrated(b))
    BY <1>4, <1>5, <1>6, RungsAreSound
  <1> QED BY <1>1, <1>2, <1>6 DEF SoundAt

-----------------------------------------------------------------------------
(* CalibrationFit: the fit *)

FitInv ==
    /\ rows \in Tallies /\ Tile(groups)
    /\ fitting \in {"collect", "merge", "done"}
    /\ fitting = "merge" => RowCount > 0
    /\ fitting = "done" => Fitted /\ threshold = Lowest

\* The observations and the groups settle the threshold.
LEMMA FitIsSettled ==
  ASSUME UNCHANGED <<rows, groups>>
  PROVE  (Fitted => Fitted') /\ Lowest' = Lowest /\ (RowCount > 0 => (RowCount > 0)')
  <1>1. rows' = rows /\ groups' = groups
    OBVIOUS
  <1>2. \A kind, bins : Amount(kind, bins)' = Amount(kind, bins)
    BY <1>1 DEF Amount, Observed
  <1>3. \A g : Size(g)' = Size(g) /\ Share(g)' = Share(g)
    BY <1>2 DEF Size, Share, BinsOf
  <1>4. Fitted => Fitted'
    BY <1>1, <1>3 DEF Fitted, Tile
  <1>5. RowCount > 0 => (RowCount > 0)'
    BY <1>3 DEF RowCount
  <1>6. \A i : ValueOf(i)' = ValueOf(i)
    BY <1>1, <1>3 DEF ValueOf
  <1>7. Values' = Values /\ WrongValues' = WrongValues
    BY <1>1, <1>2, <1>6 DEF Values, WrongValues, BinsOf
  <1>8. Rungs' = Rungs
    BY <1>7 DEF Rungs
  <1>9. Lowest' = Lowest
    BY <1>8 DEF Lowest
  <1> QED BY <1>4, <1>5, <1>9

\* Initially each bin is a group.
LEMMA FitStarts ==
  ASSUME FitAssumption, FitInit
  PROVE  FitInv
  <1>1. rows \in Tallies
    BY DEF FitInit, Tallies
  <1>2. /\ groups = [b \in 1..BinCount |-> [first |-> b, last |-> b]]
        /\ BinCount \in Nat \ {0}
    BY DEF FitInit, FitAssumption
  <1>3. \A b \in 1..BinCount : groups[b] \in Groups /\ groups[b].first = b /\ groups[b].last = b
    BY <1>2 DEF Groups
  <1>4. groups \in Seq(Groups) /\ Len(groups) = BinCount /\ DOMAIN groups = 1..BinCount
    BY <1>2, <1>3
  <1>5. 1 \in 1..BinCount /\ BinCount \in 1..BinCount /\ \A i \in 1..BinCount - 1 : i + 1 \in 1..BinCount
    BY <1>2
  <1>6. \A b \in 1..BinCount : b \in BinsOf(groups[b])
    <2> SUFFICES ASSUME NEW b \in 1..BinCount PROVE b \in BinsOf(groups[b])
      OBVIOUS
    <2>1. BinsOf(groups[b]) = b..b
      BY <1>3 DEF BinsOf
    <2>2. b \in b..b
      BY <1>2
    <2> QED BY <2>1, <2>2
  <1>7. Tile(groups)
    BY <1>2, <1>3, <1>4, <1>5, <1>6 DEF Tile
  <1> QED BY <1>1, <1>7 DEF FitInv, FitInit

\* Before the threshold every group has an observation.
LEMMA FitIsReady ==
  ASSUME FitAssumption, FitInv, FitThreshold
  PROVE  Fitted
  <1>1. RowCount > 0 /\ rows \in Tallies /\ Tile(groups)
    BY DEF FitInv, FitThreshold
  <1>2. ASSUME NEW i \in DOMAIN groups PROVE Size(groups[i]) \in Nat
    <2>1. groups[i] \in Groups
      BY <1>1 DEF Tile
    <2>2. BinsOf(groups[i]) \in SUBSET (1..BinCount)
      BY <2>1, FitAssumption DEF BinsOf, Groups, FitAssumption
    <2>3. Amount("right", BinsOf(groups[i])) \in Nat /\ Amount("wrong", BinsOf(groups[i])) \in Nat
      BY <1>1, <2>2, AmountsCount
    <2> QED BY <2>3 DEF Size
  <1>3. CASE Len(groups) = 1
    <2>1. \A i \in DOMAIN groups : i = 1
      BY <1>1, <1>3 DEF Tile
    <2>2. groups[1].first = 1 /\ groups[1].last = BinCount
      BY <1>1, <1>3 DEF Tile
    <2>3. Size(groups[1]) = RowCount
      BY <2>2 DEF RowCount, Size, BinsOf
    <2> QED BY <1>1, <2>1, <2>3 DEF Fitted
  <1>4. CASE \A j \in DOMAIN groups : ~Thin(j)
    <2>1. \A j \in DOMAIN groups : Size(groups[j]) > 0
      BY <1>2, <1>4, FitAssumption DEF Thin, FitAssumption
    <2> QED BY <1>1, <2>1 DEF Fitted
  <1> QED BY <1>3, <1>4 DEF FitThreshold

\* The first thin group has a neighbour to join.
LEMMA ThinHasANeighbour ==
  ASSUME FitInv, MergeFirstThin
  PROVE  \E left \in 1..Len(groups) - 1 : groups' = Merged(groups, left)
  <1> DEFINE i == CHOOSE j \in DOMAIN groups : Thin(j) /\ \A k \in 1..j - 1 : ~Thin(k)
             left == IF i < Len(groups) THEN i ELSE i - 1
             thin == {j \in DOMAIN groups : Thin(j)}
  <1>1. DOMAIN groups = 1..Len(groups) /\ Len(groups) \in Nat /\ Len(groups) > 1 /\ thin # {}
    <2>1. groups \in Seq(Groups)
      BY DEF FitInv, Tile
    <2>2. Len(groups) > 1 /\ \E j \in DOMAIN groups : Thin(j)
      BY DEF MergeFirstThin
    <2> QED BY <2>1, <2>2
  <1>2. IsFiniteSet(thin)
    <2>1. IsFiniteSet(1..Len(groups))
      BY <1>1, FS_Interval
    <2> QED BY <1>1, <2>1, FS_Subset
  <1>3. PICK j \in thin : \A k \in thin : j =< k
    <2>1. thin \in SUBSET Nat
      BY <1>1
    <2> HIDE DEF thin
    <2> QED BY <1>1, <1>2, <2>1, SomeIsLeast
  <1>4. j \in DOMAIN groups /\ Thin(j) /\ \A k \in 1..j - 1 : ~Thin(k)
    <2>1. j \in DOMAIN groups /\ Thin(j)
      OBVIOUS
    <2>2. ASSUME NEW k \in 1..j - 1, Thin(k) PROVE FALSE
      <3>1. k \in DOMAIN groups /\ k < j /\ k \in Nat /\ j \in Nat
        BY <1>1, <2>1
      <3>2. k \in thin
        BY <2>2, <3>1
      <3> QED BY <1>3, <3>1, <3>2
    <2> QED BY <2>1, <2>2
  <1>5. i \in 1..Len(groups)
    <2>1. i \in DOMAIN groups
      BY <1>4
    <2> QED BY <1>1, <2>1
  <1> HIDE DEF i
  <1>6. left \in 1..Len(groups) - 1
    BY <1>1, <1>5
  <1>7. groups' = Merged(groups, left)
    BY DEF MergeFirstThin, Merged, Both, i
  <1> QED BY <1>6, <1>7

\* Each step keeps the bins covered, and the last fits the threshold.
LEMMA FitSteps ==
  ASSUME FitAssumption, FitInv, [FitNext]_fitVars
  PROVE  FitInv'
  <1>1. ASSUME NEW b \in 1..BinCount, NEW how \in {"right", "wrong"}, Observe(b, how)
        PROVE  FitInv'
    <2>1. rows' = [rows EXCEPT ![b][how] = @ + 1] /\ groups' = groups
          /\ fitting = "collect" /\ fitting' = "collect"
      BY <1>1 DEF Observe
    <2>2. rows' \in Tallies
      BY <2>1 DEF FitInv, Tallies
    <2>3. Tile(groups)'
      BY <2>1 DEF FitInv, Tile, BinsOf
    <2> QED BY <2>1, <2>2, <2>3 DEF FitInv
  <1>2. CASE CloseRows
    <2>1. UNCHANGED <<rows, groups>> /\ fitting' = "merge" /\ RowCount > 0
      BY <1>2 DEF CloseRows
    <2>2. (RowCount > 0)'
      BY <2>1, FitIsSettled
    <2>3. Tile(groups)'
      BY <2>1 DEF FitInv, Tile, BinsOf
    <2> QED BY <2>1, <2>2, <2>3 DEF FitInv
  <1>3. CASE MergeFirstThin
    <2>1. rows' = rows /\ fitting = "merge" /\ fitting' = "merge" /\ RowCount > 0
      BY <1>3 DEF MergeFirstThin, FitInv
    <2>2. PICK left \in 1..Len(groups) - 1 : groups' = Merged(groups, left)
      BY <1>3, ThinHasANeighbour
    <2>3. Tile(Merged(groups, left))
      BY MergedTile DEF FitInv
    <2>4. Tile(groups)'
      BY <2>2, <2>3 DEF Tile, BinsOf
    <2>5. (RowCount > 0)'
      BY <2>1 DEF RowCount, Size, Amount, Observed, BinsOf
    <2> QED BY <2>1, <2>4, <2>5 DEF FitInv
  <1>4. CASE FitThreshold
    <2>1. UNCHANGED <<rows, groups>> /\ fitting' = "done" /\ threshold' = Lowest
      BY <1>4 DEF FitThreshold, Lowest
    <2>2. Fitted
      BY <1>4, FitIsReady
    <2>3. Fitted' /\ threshold' = Lowest'
      BY <2>1, <2>2, FitIsSettled
    <2> QED BY <2>1, <2>3 DEF FitInv, Fitted
  <1>5. CASE UNCHANGED fitVars
    <2>1. UNCHANGED <<rows, groups>> /\ fitting' = fitting /\ threshold' = threshold
      BY <1>5 DEF fitVars
    <2>2. (Fitted => Fitted') /\ Lowest' = Lowest /\ (RowCount > 0 => (RowCount > 0)')
      BY <2>1, FitIsSettled
    <2>3. rows' \in Tallies
      BY <2>1 DEF FitInv, Tallies
    <2>4. Tile(groups)'
      BY <2>1 DEF FitInv, Tile, BinsOf
    <2> QED BY <2>1, <2>2, <2>3, <2>4 DEF FitInv
  <1> QED BY <1>1, <1>2, <1>3, <1>4, <1>5 DEF FitNext

\* A fitted slice covers the bins with rising values, keeps every wrong
\* observation out and lets a right one in, whatever was observed and however
\* thin groups were merged (fit_slice and its threshold in calibrate.py).
THEOREM TheFittedSliceIsSound == FitSpec => []FittedSliceIsSound
  <1>1. FitInit => FitInv
    BY FitStarts, FitAssumption
  <1>2. FitInv /\ [FitNext]_fitVars => FitInv'
    BY FitSteps, FitAssumption
  <1>3. FitInv => FittedSliceIsSound
    <2> SUFFICES ASSUME FitInv, fitting = "done" PROVE SoundAt(threshold)
      BY DEF FittedSliceIsSound, SoundAt
    <2>1. Fitted /\ threshold = Lowest
      BY DEF FitInv
    <2> QED BY <2>1, FitAssumption, LowestIsSound
  <1> QED BY <1>1, <1>2, <1>3, PTL DEF FitSpec
=============================================================================
