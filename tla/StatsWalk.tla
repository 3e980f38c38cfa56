------------------------------ MODULE StatsWalk ------------------------------
(***************************************************************************)
(* The corpus statistics: GET /v1/memory/stats (http/routes/stats.py),     *)
(* MemoryClient.aggregate_stats and PanellaAdapter.aggregate_stats, which  *)
(* walks the store's listing page by page while other callers add and      *)
(* delete drawers.  The listing is the store's: newest first, addressed by *)
(* page number.                                                            *)
(*                                                                         *)
(*   listing   - the drawers of the store in listing order                 *)
(*   walks     - one stats request each: idle, walking the pages, or       *)
(*               answered / refused                                        *)
(*   statCache - the route's cache, one entry per read scope               *)
(*   changes   - how many drawers were added or deleted so far             *)
(*   statClock - the cache's clock                                         *)
(*                                                                         *)
(* Sees[s] stands for every filter between the store and the answer of     *)
(* scope s: the tenant filter of the adapter, the wing filter and the      *)
(* profile's deny and read_allowlist.  The counts by wing and room are a   *)
(* partition of the rows counted, of which the total is kept.              *)
(***************************************************************************)
EXTENDS Integers, Sequences, FiniteSets, SequencesExt

CONSTANTS
    Walks,        \* stats requests, each asked once
    Drawers,      \* drawers the store can hold
    FirstListing, \* the listing before the first request
    Scopes,       \* keys of the route's cache: tenant scope and wing filter
    Sees,         \* the drawers each scope may count
    PageSize,     \* rows on a page
    CacheTtl,     \* _CACHE_TTL_SECONDS
    MaxChanges,   \* bound: drawers added or deleted
    MaxStatClock, \* bound: ticks of the clock
    NoEntry       \* a scope without a cache entry

ASSUME WalkAssumption ==
    /\ FirstListing \in Seq(Drawers)
    /\ \A i, j \in DOMAIN FirstListing : FirstListing[i] = FirstListing[j] => i = j
    /\ Scopes # {} /\ Sees \in [Scopes -> SUBSET Drawers]
    /\ PageSize \in Nat \ {0} /\ CacheTtl \in Nat \ {0}
    /\ MaxChanges \in Nat /\ MaxStatClock \in Nat

VARIABLES listing, walks, statCache, changes, statClock

statVars == <<listing, walks, statCache, changes, statClock>>

Standing == ToSet(listing)

\* What a walk found: the rows it counted, what the scope could see when it
\* began, and the changes before.
Findings == [total : Nat, began : SUBSET Drawers, since : Nat]

NoFindings == [total |-> 0, began |-> {}, since |-> 0]

StatsTypeOK ==
    /\ listing \in Seq(Drawers) /\ Cardinality(Standing) = Len(listing)
    /\ walks \in [Walks -> [at : {"idle", "walking", "answered", "refused"},
                            scope : Scopes, page : Nat, found : Findings,
                            changed : Nat]]
    /\ statCache \in [Scopes -> {NoEntry} \cup [until : Nat, found : Findings]]
    /\ changes \in 0..MaxChanges
    /\ statClock \in 0..MaxStatClock

StatsInit ==
    /\ listing = FirstListing
    /\ walks = [w \in Walks |-> [at |-> "idle", scope |-> CHOOSE s \in Scopes : TRUE,
                                 page |-> 0, found |-> NoFindings, changed |-> 0]]
    /\ statCache = [s \in Scopes |-> NoEntry]
    /\ changes = 0
    /\ statClock = 0

-----------------------------------------------------------------------------
(* The store, behind everybody's back *)

AddDrawer(d) ==
    /\ changes < MaxChanges
    /\ d \notin Standing
    /\ listing' = <<d>> \o listing
    /\ changes' = changes + 1
    /\ UNCHANGED <<walks, statCache, statClock>>

DeleteDrawer(d) ==
    /\ changes < MaxChanges
    /\ \E i \in DOMAIN listing : listing[i] = d /\ listing' = RemoveAt(listing, i)
    /\ changes' = changes + 1
    /\ UNCHANGED <<walks, statCache, statClock>>

StatsTick ==
    /\ statClock < MaxStatClock
    /\ statClock' = statClock + 1
    /\ UNCHANGED <<listing, walks, statCache, changes>>

-----------------------------------------------------------------------------
(* The route and the walk *)

\* _cache_get: an entry that has run out counts as none.
CacheHit(s) == statCache[s] # NoEntry /\ statClock < statCache[s].until

Answer(w, s, found) ==
    walks' = [walks EXCEPT ![w].at = "answered", ![w].scope = s, ![w].found = found,
                           ![w].changed = changes - found.since]

\* get_stats without fresh=1 while the scope's entry is valid
AskCache(w, s) ==
    /\ walks[w].at = "idle"
    /\ CacheHit(s)
    /\ Answer(w, s, statCache[s].found)
    /\ UNCHANGED <<listing, statCache, changes, statClock>>

\* get_stats with fresh=1, or with no valid entry: the walk starts at page 1.
AskWalk(w, s, fresh) ==
    /\ walks[w].at = "idle"
    /\ fresh \/ ~CacheHit(s)
    /\ LET visible == Standing \cap Sees[s]
       IN walks' = [walks EXCEPT ![w] =
                      [at |-> "walking", scope |-> s, page |-> 1, changed |-> 0,
                       found |-> [NoFindings EXCEPT !.began = visible,
                                                    !.since = changes]]]
    /\ UNCHANGED <<listing, statCache, changes, statClock>>

Page(n) == {listing[i] : i \in {j \in DOMAIN listing : (n - 1) * PageSize < j /\ j =< n * PageSize}}

HasMore(n) == n * PageSize < Len(listing)

Counted(w) ==
    LET here == Page(walks[w].page) \cap Sees[walks[w].scope]
    IN [walks[w].found EXCEPT !.total = @ + Cardinality(here)]

ReadPage(w) ==
    /\ walks[w].at = "walking"
    /\ HasMore(walks[w].page)
    /\ walks' = [walks EXCEPT ![w].page = @ + 1, ![w].found = Counted(w)]
    /\ UNCHANGED <<listing, statCache, changes, statClock>>

\* The last page: the answer is cached from now on and returned.
ReadLastPage(w) ==
    /\ walks[w].at = "walking"
    /\ ~HasMore(walks[w].page)
    /\ Answer(w, walks[w].scope, Counted(w))
    /\ statCache' = [statCache EXCEPT ![walks[w].scope] =
                       [until |-> statClock + CacheTtl, found |-> Counted(w)]]
    /\ UNCHANGED <<listing, changes, statClock>>

\* Mutant: a page that fails ends the walk with what was counted so far.
PageEndsWalk(w) ==
    /\ walks[w].at = "walking"
    /\ Answer(w, walks[w].scope, walks[w].found)
    /\ UNCHANGED <<listing, statCache, changes, statClock>>

\* A page that cannot be read fails the whole request and caches nothing.
PageFails(w) ==
    /\ walks[w].at = "walking"
    /\ walks' = [walks EXCEPT ![w].at = "refused"]
    /\ UNCHANGED <<listing, statCache, changes, statClock>>

WalkStep(w) == ReadPage(w) \/ ReadLastPage(w) \/ PageFails(w)

StatsNext ==
    \/ \E d \in Drawers : AddDrawer(d) \/ DeleteDrawer(d)
    \/ \E w \in Walks, s \in Scopes :
         AskCache(w, s) \/ \E fresh \in BOOLEAN : AskWalk(w, s, fresh)
    \/ \E w \in Walks : WalkStep(w)
    \/ StatsTick

StatsSpec == StatsInit /\ [][StatsNext]_statVars

-----------------------------------------------------------------------------
(* Properties *)

\* The answered total is off by no more than the drawers added and deleted
\* since its walk began: no page is skipped, read twice or given up silently
\* (PanellaAdapter.aggregate_stats), whatever answer the cache hands on.
CountErrorIsBounded ==
    \A w \in Walks :
       walks[w].at = "answered" =>
         LET f == walks[w].found
             off == f.total - Cardinality(f.began)
         IN off \in (-walks[w].changed)..walks[w].changed

=============================================================================
