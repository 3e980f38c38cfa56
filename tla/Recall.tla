------------------------------- MODULE Recall -------------------------------
(***************************************************************************)
(* Reading the memory: MemoryClient.search, get_memory and sample_by_wing  *)
(* over PanellaAdapter.search_memories, get_drawer and                     *)
(* list_recent_by_wing, with the optional reader (reader.py) between the   *)
(* permission filter and the answer.                                       *)
(*                                                                         *)
(*   marks    - the lifecycle statuses each drawer carries, in its tags or *)
(*              in its metadata; none at all on legacy drawers             *)
(*   readEnv  - the process's PANELLA_READER and PANELLA_RERANKER          *)
(*   scorer   - the cross-encoder of this process: not loaded, loaded, or  *)
(*              failed for good                                            *)
(*   reads    - one caller's current read                                  *)
(*                                                                         *)
(* Relevance[q][r] is the store's similarity score of a drawer, Epoch[r]   *)
(* what _row_epoch makes of its dates (Undated when nothing parses) and    *)
(* Alike the pairs whose token sets reach READERPP_TAU.                    *)
(***************************************************************************)
EXTENDS Integers, Sequences, FiniteSets, SequencesExt

CONSTANTS
    Rows, Queries, Readers,  \* drawers, search texts, callers
    FirstMarks,              \* statuses carried at the start
    Relevance, Epoch, Undated,
    Alike,                   \* a symmetric relation
    PathOf, TenantOf,        \* <<wing, room>> and tenant of each drawer
    OwnTenants,              \* the principal's tenants
    ReadAllowlist, Deny,     \* the profile's path patterns; Star stands for *
    Star, DefaultWing,
    WingBoost,               \* profile boost, in tenths, by wing
    MaxQueryK, Overfetch, PanellaOverfetch, RrfK,
    MaxRetired               \* bound: drawers retired during the run

Statuses == {"active", "superseded"}

\* EXCLUDED_RECALL_STATUSES, as far as it occurs here
Excluded == {"superseded"}

ASSUME ReadAssumption ==
    /\ IsFiniteSet(Rows)
    /\ FirstMarks \in [Rows -> SUBSET Statuses]
    /\ Relevance \in [Queries -> [Rows -> Nat]]
    /\ \A r \in Rows : Epoch[r] \in Nat \cup {Undated} /\ WingBoost[PathOf[r][1]] \in Nat
    /\ \A a, b \in Rows : <<a, b>> \in Alike => <<b, a>> \in Alike
    /\ MaxQueryK \in Nat \ {0} /\ RrfK \in Nat
    /\ Overfetch \in Nat \ {0} /\ PanellaOverfetch \in Nat \ {0}

VARIABLES marks, readEnv, scorer, reads

readVars == <<marks, readEnv, scorer, reads>>

Recallable(r) == marks[r] \cap Excluded = {}

NoRead == [at |-> "idle", reader |-> FALSE, limit |-> 0, pool |-> <<>>, lawful |-> {}]

ReadTypeOK ==
    /\ marks \in [Rows -> SUBSET Statuses]
    /\ readEnv \in [reader : BOOLEAN, reranker : BOOLEAN]
    /\ scorer \in {"none", "ok", "failed"}
    /\ \A c \in Readers :
         /\ reads[c].at \in {"idle", "searching", "fetched", "answered", "refused"}
         /\ reads[c].limit \in 0..MaxQueryK
         /\ reads[c].pool \in Seq(Rows) /\ reads[c].lawful \subseteq Rows

ReadInit ==
    /\ marks = FirstMarks
    /\ readEnv = [reader |-> FALSE, reranker |-> FALSE]
    /\ scorer = "none"
    /\ reads = [c \in Readers |-> NoRead]

-----------------------------------------------------------------------------
(* Orders over sequences of drawers *)

SmallerOf(a, b) == IF a < b THEN a ELSE b
LargerOf(a, b) == IF a < b THEN b ELSE a

First(s, n) == SubSeq(s, 1, SmallerOf(n, Len(s)))

\* The members of S in the total order before, a set of pairs: the place of a
\* member is the number of those before it.
InOrder(S, before) ==
    [n \in 1..Cardinality(S) |->
        CHOOSE x \in S : Cardinality({y \in S : <<y, x>> \in before}) = n - 1]

At(s, order) == [n \in DOMAIN order |-> s[order[n]]]

\* sorted(..., reverse=True): by key, equal keys in their present order
SortedDown(s, key) ==
    LET before == {p \in (DOMAIN s) \X (DOMAIN s) :
                      \/ key[s[p[1]]] > key[s[p[2]]]
                      \/ key[s[p[1]]] = key[s[p[2]]] /\ p[1] < p[2]}
    IN At(s, InOrder(DOMAIN s, before))

\* A comprehension over s: what lies in P, in its present order
Keep(s, P) ==
    LET before == {p \in (DOMAIN s) \X (DOMAIN s) : p[1] < p[2]}
    IN At(s, InOrder({i \in DOMAIN s : s[i] \in P}, before))

\* The store's rows in some order of their own
AllRows == SetToSeq(Rows)

-----------------------------------------------------------------------------
(* The adapter *)

\* _allowlist_wings, or the wing the profile writes to
HintedWings ==
    LET named == {p[1] : p \in ReadAllowlist} \ {Star}
    IN IF named = {} THEN {DefaultWing} ELSE named

\* wing_boost with a hint: 1.5 inside it, 0.7 outside
HintFactor(r) == IF PathOf[r][1] \in HintedWings THEN 15 ELSE 7

HintedScore(q) == [r \in Rows |-> Relevance[q][r] * HintFactor(r)]

\* The store's most similar drawers first, then what search_memories keeps.
SearchMemories(q, k) ==
    LET nearest == First(SortedDown(AllRows, Relevance[q]), LargerOf(k, PanellaOverfetch))
        kept == Keep(nearest, {r \in Rows : Recallable(r) /\ TenantOf[r] \in OwnTenants})
    IN First(SortedDown(kept, HintedScore(q)), k)

\* The store returns drawers tagged active; the adapter keeps the tenant's,
\* newest first.
ListRecentByWing(wing, k) ==
    LET tagged == Keep(AllRows, {r \in Rows : /\ "active" \in marks[r] /\ PathOf[r][1] = wing
                                              /\ TenantOf[r] \in OwnTenants})
    IN First(SortedDown(tagged, [r \in Rows |-> IF Epoch[r] = Undated THEN -1 ELSE Epoch[r]]), k)

-----------------------------------------------------------------------------
(* The client's permission net *)

Matches(path, patterns) ==
    \E p \in patterns : p[1] \in {path[1], Star} /\ p[2] \in {path[2], Star}

Permitted(r) == Matches(PathOf[r], ReadAllowlist) /\ ~Matches(PathOf[r], Deny)

\* Mutant: the net trusts the adapter for the status.
FilterHitsPaths(s) == Keep(s, {r \in Rows : Permitted(r)})

FilterHits(s) == Keep(s, {r \in Rows : Recallable(r) /\ Permitted(r)})

\* A hit of a foreign tenant that is not excluded raises TenantIsolationError.
Leaks(s) == \E i \in DOMAIN s : Recallable(s[i]) /\ TenantOf[s[i]] \notin OwnTenants

\* What the tenant may read at this moment.
Lawful == {r \in Rows : Recallable(r) /\ Permitted(r) /\ TenantOf[r] \in OwnTenants}

ProfileBoost(q, s) ==
    SortedDown(s, [r \in Rows |-> HintedScore(q)[r] * WingBoost[PathOf[r][1]]])

-----------------------------------------------------------------------------
(* The reader: newest of a cluster first, older dated members demoted *)

Dated(r) == Epoch[r] # Undated

\* No drawer of W is alike to a candidate outside it.
Closed(s, W) == \A a \in W, b \in ToSet(s) : <<a, b>> \in Alike => b \in W

\* _cluster: single linkage over the candidates.  Two of them are linked when no
\* closed set parts them.
SameSlot(s, a, b) == \A W \in SUBSET ToSet(s) : Closed(s, W) /\ a \in W => b \in W

IndexIn(s, r) == CHOOSE i \in DOMAIN s : s[i] = r

\* Newer by date; of equal dates the one retrieved first.
Newer(s, a, b) == \/ Epoch[a] > Epoch[b]
                  \/ Epoch[a] = Epoch[b] /\ IndexIn(s, a) < IndexIn(s, b)

Demoted(s) ==
    {b \in ToSet(s) :
        Dated(b) /\ \E a \in ToSet(s) :
                       a # b /\ Dated(a) /\ SameSlot(s, a, b) /\ Newer(s, a, b)}

RecencyRank(s, r) ==
    Cardinality({a \in ToSet(s) : \/ Dated(a) /\ ~Dated(r)
                                  \/ Dated(a) /\ Dated(r) /\ Newer(s, a, r)
                                  \/ ~Dated(a) /\ ~Dated(r) /\ IndexIn(s, a) < IndexIn(s, r)})

\* Reciprocal rank fusion of retrieval and recency: a sum of two fractions,
\* compared by cross-multiplication.
FusesHigher(s, a, b) ==
    LET over(r) == RrfK + IndexIn(s, r)
        under(r) == RrfK + RecencyRank(s, r) + 1
        up == (over(a) + under(a)) * over(b) * under(b)
        down == (over(b) + under(b)) * over(a) * under(a)
    IN \/ up > down
       \/ up = down /\ IndexIn(s, a) < IndexIn(s, b)

\* Indexes and ranks are those among all candidates s.
FusedOrder(s, part) ==
    InOrder(part, {p \in part \X part : FusesHigher(s, p[1], p[2])})

\* _readerpp_order: every live candidate before every demoted one
ReaderOrder(s) ==
    FusedOrder(s, ToSet(s) \ Demoted(s)) \o FusedOrder(s, Demoted(s))

\* Mutant: the scores order all candidates at once.
ScoredAcross(s) == SetToSeqs(ToSet(s))

\* select with a scorer: whatever it says, each stratum is sorted by itself.
ScoredOrders(s) ==
    {live \o stale : live \in SetToSeqs(ToSet(s) \ Demoted(s)), stale \in SetToSeqs(Demoted(s))}

\* A scorer that raises or breaks its contract leaves the order alone.
Selections(s, scored) == {ReaderOrder(s)} \cup (IF scored THEN ScoredOrders(s) ELSE {})

-----------------------------------------------------------------------------
(* The client's reads *)

Ends(c, how, s) ==
    reads' = [reads EXCEPT ![c].at = how, ![c].pool = s]

\* search: scopes hold; the reader's switch is read once.
BeginSearch(c, k) ==
    /\ reads[c].at # "searching" /\ reads[c].at # "fetched"
    /\ reads' = [reads EXCEPT ![c] = [NoRead EXCEPT !.at = "searching", !.limit = k,
                                                    !.reader = readEnv.reader]]
    /\ UNCHANGED <<marks, readEnv, scorer>>

FetchWidth(c) ==
    IF reads[c].reader THEN LargerOf(reads[c].limit, Overfetch) ELSE reads[c].limit

Fetch(c, q) ==
    /\ reads[c].at = "searching"
    /\ LET hits == SearchMemories(q, FetchWidth(c))
       IN reads' = [reads EXCEPT ![c].at = IF Leaks(hits) THEN "refused" ELSE "fetched",
                                 ![c].pool = ProfileBoost(q, FilterHits(hits)),
                                 ![c].lawful = Lawful]
    /\ UNCHANGED <<marks, readEnv, scorer>>

SearchFails(c) ==
    /\ reads[c].at = "searching"
    /\ Ends(c, "refused", <<>>)
    /\ UNCHANGED <<marks, readEnv, scorer>>

\* Without the reader the boosted hits are the answer.
AnswerBoosted(c) ==
    /\ reads[c].at = "fetched"
    /\ ~reads[c].reader
    /\ Ends(c, "answered", First(reads[c].pool, reads[c].limit))
    /\ UNCHANGED <<marks, readEnv, scorer>>

\* resolve_scorer: off, loaded now or before, or failed and never tried again
ResolvesTo(state) ==
    \/ ~readEnv.reranker /\ state = scorer
    \/ readEnv.reranker /\ scorer = "none" /\ state \in {"ok", "failed"}
    \/ readEnv.reranker /\ scorer # "none" /\ state = scorer

AnswerRead(c, state) ==
    /\ reads[c].at = "fetched"
    /\ reads[c].reader
    /\ ResolvesTo(state)
    /\ scorer' = state
    /\ \E s \in Selections(reads[c].pool, readEnv.reranker /\ state = "ok") :
         Ends(c, "answered", First(s, reads[c].limit))
    /\ UNCHANGED <<marks, readEnv>>

\* get_memory and sample_by_wing: one call of the adapter, then the net.
ReadThrough(c, hits, k) ==
    /\ reads[c].at # "searching" /\ reads[c].at # "fetched"
    /\ reads' = [reads EXCEPT ![c] =
                   [NoRead EXCEPT !.at = IF Leaks(hits) THEN "refused" ELSE "answered",
                                  !.limit = k, !.lawful = Lawful,
                                  !.pool = IF Leaks(hits) THEN <<>> ELSE FilterHits(hits)]]
    /\ UNCHANGED <<marks, readEnv, scorer>>

GetMemory(c, r) == ReadThrough(c, <<r>>, 1)

SampleByWing(c, wing, k) == ReadThrough(c, ListRecentByWing(wing, k), k)

-----------------------------------------------------------------------------
(* Everybody else *)

\* A drawer is superseded: its tag is replaced, or added beside an older one
\* that still says active.
RetireRow(r, kept) ==
    /\ Cardinality({x \in Rows : marks[x] # FirstMarks[x]}) < MaxRetired
    /\ Recallable(r)
    /\ kept \subseteq marks[r]
    /\ marks' = [marks EXCEPT ![r] = kept \cup {"superseded"}]
    /\ UNCHANGED <<readEnv, scorer, reads>>

FlipEnv(env) ==
    /\ env # readEnv
    /\ readEnv' = env
    /\ UNCHANGED <<marks, scorer, reads>>

ReadNext ==
    \/ \E c \in Readers :
         \/ \E k \in 1..MaxQueryK : BeginSearch(c, k)
         \/ \E q \in Queries : Fetch(c, q)
         \/ SearchFails(c)
         \/ AnswerBoosted(c)
         \/ \E state \in {"none", "ok", "failed"} : AnswerRead(c, state)
         \/ \E r \in Rows : GetMemory(c, r)
         \/ \E r \in Rows, k \in 1..MaxQueryK : SampleByWing(c, PathOf[r][1], k)
    \/ \E r \in Rows : \E kept \in SUBSET marks[r] : RetireRow(r, kept)
    \/ \E reader, reranker \in BOOLEAN : FlipEnv([reader |-> reader, reranker |-> reranker])

ReadSpec == ReadInit /\ [][ReadNext]_readVars

-----------------------------------------------------------------------------
(* Properties *)

Answered(c) == reads[c].at = "answered"

\* Canonical row wins (reader.select): in an answer of the reader no drawer
\* stands before, or without, the newest dated candidate of its own slot,
\* whatever the scorer said and whichever way the environment flipped since
\* the candidates were fetched.  Checked over the step, where the candidates
\* are still known.
CanonicalRowWins ==
    [][\A c \in Readers :
         reads[c].at = "fetched" /\ reads'[c].at = "answered" /\ reads[c].reader =>
           LET was == reads[c].pool
               now == reads'[c].pool
           IN \A j \in DOMAIN now : \A a \in ToSet(was) :
                /\ Dated(now[j]) /\ Dated(a)
                /\ SameSlot(was, a, now[j])
                /\ \A x \in ToSet(was) : Dated(x) /\ SameSlot(was, a, x) => Epoch[x] =< Epoch[a]
                /\ Epoch[now[j]] < Epoch[a]
                => \E i \in 1..(j - 1) : Epoch[now[i]] = Epoch[a] /\ SameSlot(was, a, now[i])
      ]_readVars

\* What a read answers was, when the store was asked, neither retired in tag
\* or metadata, nor of another tenant, nor outside the profile's paths - by
\* search, by id and by sample (MemoryClient._filter_hits).
NothingHiddenIsRead ==
    \A c \in Readers : Answered(c) => ToSet(reads[c].pool) \subseteq reads[c].lawful

=============================================================================
