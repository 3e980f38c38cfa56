# Panella in TLA+

A model of Panella, checked with TLC and, in part, proved with TLAPS. Panella
keeps the long-term memory of agents in an external memory store and lets
nothing in that a person has not approved: proposals wait in a queue, a decision
is written to a hash-chained log before it takes effect, a finalizer makes
approved candidates durable, and a forget erases them everywhere. The hard part
is that these steps live in three databases and an HTTP service without a common
transaction, and are taken by threads and processes that stall, die and are
asked again. That part, the governed box, is modelled as one composition; around
it stand the components that serve requests and the jobs that keep a box going,
each modelled by itself.

Paths below are relative to the repository; `panella/x.py` is
`src/panella/x.py`.

## 1. The system

### Components

| Component | State it keeps | Operations | Here |
|---|---|---|---|
| Approval queue (`client_raw.py`, `memory_outbox_schema.sql`) | tables `approval_queue`, `memory_events`: status, provenance, receipt triple, finalizer claim, durable id | propose, approve, raw approve, approve-or-redrive, reject; buttons, defer, resurface | `ApprovalQueue`, `ApprovalCalls`, `ApprovalReview` |
| Approval service (`approval_service.py`) | none | approve, reject: verify approver, append decision, stamp, finalize | `ApprovalCalls` |
| Durable finalizer (`approval_finalizer.py`) | claim on the row (state, worker, claimed_at) | gate, claim, write, look up, record, fail, clean up, sweep | `ApprovalCalls` |
| Right to forget (`client.py` 682-746, 1077-1240) | claim `rtbf_deleting` on rows | claim, delete, cascade, marker sweep, purge, tombstone | `RightToForget` |
| Audit log (`audit.py`) | hash-chained append-only table | append, verify, lookup of receipts | a sequence in `ApprovalQueue`; rows, hashes and damage in `AuditChain` |
| Memory history (`memory_history.py`), reconciler (`reconcile.py`) | append-only table | append, list forgotten; detect and record upstream forgetting | a set in `ApprovalQueue`; `ForgottenWatch` |
| Memory store and its adapter (`panella_adapter.py`) | active row per content hash, marker tags, status, `valid_to` | add, delete, look up by marker, search, list, count, tag transitions | `store` in `ApprovalQueue`; tags in `TagTransition`; reads in `Recall`; counts in `StatsWalk` |
| Client writes (`client.py`, `counters.py`) | the day's count, the minute's timestamps | quota, route by room, direct write, charge; replace a source's atoms | `WriteGate`, `SourceSync` |
| Tag lock (`tag_lock.py`), lifecycle of a memory | lock files | tombstone, supersede, ensure a tag under a lock with timeout | `TagTransition` |
| Reader and search (`reader.py`, `client.py`) | scorer of the process | search, get, sample, cluster, rank, score | `Recall` |
| Statistics (`http/routes/stats.py`) | cache per scope | walk the pages, answer from cache | `StatsWalk` |
| HTTP facade and MCP tools (`http/app.py`, `http/auth.py`, `mcp_tools.py`) | serving gate, rate windows, thread pool | admit, dispatch, time out | `RequestDoor` |
| Bearers, break-glass (`http/tokens.py`, `break_glass.py`, `principal.py`) | token table, elevations, their records | mint, revoke, rotate; elevate, operate, close | `BearerAccess` |
| Receipt migration and start (`client_raw.py` 622-757, `store_probe.py`, lifespan of `http/app.py`) | receipts of old approvals | self-check, backfill row by row, serve | `ReceiptActivation` |
| Bridge health (`bridge_health.py`) | streak and wing freshness per bridge, alert marks | record, deliver, mark, maintenance | `BridgeHealth` |
| Preference resolver (`resolver/`) | budget, threads of calls, calibrated slices | guard, choose, ask, threshold; fit a slice | `Resolver`, `CalibrationFit` |
| Command line (`cli/`) | operator files, tokens, archives | up, init; backup, restore | `SelfHostInstall`, `BoxBackup` |
| Preference decision, governance and configuration, sanitizing, model router, evaluation | - | extraction by model, parsing, text rewriting, I/O, measurement | not modelled (section 8) |

`PROJECT.json` repeats this list with the status of each part, and lists the
hazards (what a test hardly reaches) at their lines with the properties that
would catch them.

### How the parts meet

`approve` reads the candidate (outbox database), appends the decision (audit
database), stamps the row in one `BEGIN IMMEDIATE` transaction (outbox), then
finalizes: a transaction gates and claims the row, the candidate is built, the
claim is read again, the adapter POSTs to the store, and another transaction
records the hash; history and an outcome record follow. HTTP routes run in a
thread pool and MCP tools in threads, so any number of these run at a time, and
`redrive_pending_finalizations` and `hard_delete` run beside them. Between any
two of these steps another thread may act, the lease of five minutes may run
out, or the process may end.

Once a memory is durable, `tombstone`, `supersede` and `ensure_tag` change its
tags. The store replaces tags as a whole, so each of them is a GET, a PUT and a
verifying GET over HTTP, under a lock file that serializes the processes of one
host, while `hard_delete` and new writes of the same content take no lock.

A request reaches these services through one of two doors: the REST stack, which
answers in the server's pool, and `/mcp`, whose tools run on the event loop's
thread pool. Both check that the box serves, the bearer and the bearer's rate.
The box serves after its start has found the store its own and given every
approved row a receipt. Writes that need no approval pass the daily quota; reads
go through the adapter's and the client's filters and, when switched on, the
reader. Beside the box run jobs of their own: bridges that sync sources and
record how it went, the reconciler, the resolver, and the operator's commands.
They meet the box in the store and in its files and call none of the approval
code.

### What makes each part correct

* Queue and service: a decision is final, is on record before it takes effect,
  and binds the very bytes the approver saw. One approval is one event, however
  often its buttons are pressed.
* Finalizer: what is durable was approved on record, for these bytes; one
  approval has one durable row and one durable row one approval; a claim that
  ran out is taken over without undoing what its owner did; an approved
  candidate is finalized in the end.
* Forget: nobody decides, claims or finalizes a row a forget holds; no durable
  row is left that nobody can find; what was erased stays named for replay; a
  claimed row is purged in the end. What upstream forgets is recorded.
* Tags: a transition is one atomic update of the tags as they are; what was
  hidden from recall stays hidden; a history record is true of the row; no lock
  outlives its block.
* Audit chain: a receipt that is accepted pins everything that stood before it.
* Doors and bearers: no token gets more than its rate, a decision gets a thread,
  a revoked bearer is rejected but for the grace of a rotation it met, nothing crosses tenants without a record.
* Reads: nothing hidden is answered, the newest of a cluster comes first, and a
  count is wrong by no more than what changed while it was taken.
* Jobs: the quota never splits a source's set and every source is whole in the
  end; an outage is heard of unless its run died before the log it has instead of a
  sink; a receipt precedes its write; a restore changes
  all files or none unless it dies; one owner bearer; high-risk slots are
  arbitrated and fitted thresholds mean what they say.
* The box as a whole: `GovernedMemory`.

## 2. The modules

```
GovernedMemory        what the box promises (abstract)
        ^ implements
GovernedBox           Init, Next, fairness, the properties, the refinement
  RightToForget       MemoryClient.hard_delete
    ApprovalCalls     approve / reject / redrive: decide, gate, claim, write, record
      ApprovalQueue   shared state, queue transactions

TagTransition         tombstone / supersede / ensure_tag under the tag lock

ApprovalReview  AuditChain  BearerAccess  ForgottenWatch
Recall  RequestDoor  StatsWalk  WriteGate                   what a box serves

BoxBackup  BridgeHealth  CalibrationFit  ReceiptActivation
Resolver  SelfHostInstall  SourceSync                       jobs and commands

MCGovernedBox         values and symmetry for TLC
MCTagTransition
MCServing, MCUpkeep   a sum of the two groups above
```

The proofs are in `GovernedBoxProofs` and `ForgetProofs` (the box), `TagProofs`,
`SequenceProofs` and `ServingProofs` (what a box serves), `OrderProofs` (what is
ranked or fitted: `Recall` and `CalibrationFit`), `ActivationProofs` and
`UpkeepProofs` (jobs and commands); see section 5.

`TagTransition` shares no state with the governed box but the rows of the store,
and those only through `hard_delete` and new writes, which it models as `Delete`
and `Add`; the box in turn never reads tags other than the approval marker,
which no transition removes. So the two are checked apart.

The components of the last two groups share no variable with each other or with
the box. Where one of them touches what another models, it keeps the part of it
that matters to itself and lets the rest of the world change that part: drawers
retire under a read, drawers come and go under a walk, the old finalizer works
under a migration. `MCServing` and `MCUpkeep` check them side by side: `part`
is chosen in the initial state, the component it names runs and the others keep
their initial state. A run is thus the union of the components' state graphs and
not their product, and a property of a component is checked of exactly its own
behaviours.

**ApprovalQueue** holds the shared state. `queue[i]` is the row of approval id
`i`: `status` (plus `unused` and `purged` for ids without a row; AUTOINCREMENT
never hands an id out twice), `bytes` (`candidate_json`), `via` (`approved_by`
and `approved_via`, which one box stamps from one transport), `receipt`
(`audit_receipt_seq`; the stored hash adds nothing to a position in an
append-only sequence), `sha` (`candidate_sha256`), `fin`, `worker`, `stale`
(`finalizer_claimed_at` is older than the cutoff) and `durable`. The
`memory_events` row is inserted, completed and deleted by the transactions that
change these columns, so it is folded into the row. `audit` is the log as a
sequence, `store` maps a content hash to the approval whose marker the active
row carries, `history` is the set of history records. A content stands for
bytes, their fingerprint and their content hash at once: each is a function of
the bytes. The drawer id a proposer is given (`D_write`) is a function of the
content as well, and never a hash of the store.

**ApprovalCalls** is one call as a process: `pc`, the approval it works on, the
bytes it read or claimed, the receipt it got, the hash it was answered. It is
cut where the code commits a transaction or talks to the store.

| Action | Code |
|---|---|
| `ReadCandidate`, `AppendApprove`, `AppendReject`, `AppendFails` | `approval_service.approve` / `reject` |
| `AuthorizeRedrive`, `StampFresh`, `RefuseStamp`, `ApplyReject` | `mcp_approve_or_redrive`, `update_approval_status` |
| `Sweep` | `redrive_pending_finalizations` |
| `GatePasses`, `GateRefuses`, `GateClaims` | `finalize_approved_candidate` 271-336 with `_receipt_gate_refusal` |
| `BuildFails`, `CheckClaim` | 338-356, `_still_owns_claim` |
| `WriteLands`, `WriteAnswerLost`, `WriteIsDuplicate`, `WriteFails` | `_finalize_write`, the adapter's POST with its retries |
| `LookupFinds`, `LookupFails` | `find_active_hash_by_marker` |
| `Fail`, `Record`, `RecordOfOther`, `RecordOrphan`, `Outcome` | `_fail`, `_record`, 377-416 |
| `CleanupDeletes`, `CleanupFails` | `_cleanup_orphaned_durable` |
| `LeaseExpires`, `CallCrashes` | passing time, the end of a process |

**RightToForget** is one `hard_delete` as a process, by drawer id or by content
hash: `ForgetClaim` (or `RtbfFinalizeInFlight`, which changes nothing),
`ForgetTarget`, `ForgetResolve`, `ForgetMapped`, `ForgetLooksUp`,
`ForgetFound`, `ForgetPurge`, `ForgetTombstone`; `ForgetRaises` and
`ForgetCrashes` end it half-way. `erased` and `overrun` are history variables
for properties and never read by an action.

**TagTransition** is one transition as a process: `pc`, the memory and the tag it
adds, what its GET found (`kept`, `stamp`) and the attempt. `rows[m]` is the
store's row: its tags, the metadata `status` and `validTo` (`valid_to`, named
after the writer that stamped it), and `life`, a history variable that counts
how often the content was stored and tells a row from one written anew. `late`
holds PUTs whose sender gave up and which the store may still carry out.

| Action | Code |
|---|---|
| `Begin`, `Record` | `MemoryClient.tombstone` / `supersede` before and after the adapter's call |
| `Acquire`, `TimesOut`, and `Released` in `Leave` and `Verify` | `tag_lock` |
| `Get`, `GetGone`, `ReadRaises` | `_tag_transition` 539-546 |
| `PutLands`, `PutRaises`, `PutRefused` | 553-560, with the retries of `_request` |
| `Verify`, `VerifyMismatch`, `Again` | 563-580 |
| `LatePut`, `Replaced` | the store (external): tags replaced, metadata merged |

`tombstone`, `supersede` and `ensure_tag` differ by the tag they add, from which
`Drops`, `Stamp` and `StatusDelta` follow.

**GovernedMemory** knows proposals, decisions on record, bindings and durable
contents, and no claims, leases, calls or crashes. `Remember` says when a
candidate may become durable: its approval is in force for these bytes, or it
was forgotten and its decision is on record. The second alternative is what the
code really allows (the late write, section 6).

### What a box serves

| Module | State and actions | Code |
|---|---|---|
| `ApprovalReview` | a row with its messages, the hours its deferral still runs and its number of events; a button may be pressed again, late, or on an old message | buttons, defer, resurface, raw approve in `client_raw.py` |
| `AuditChain` | the rows with their hashes, appends as begin and commit, the receipts kept elsewhere; rows are lost, altered, or the file is put back to a copy that goes on differently | `audit.py`, the receipt check of `approval_finalizer.py` 440 |
| `BearerAccess` | the token table, which outlives the process, the elevations, which do not, requests between check and record; a rotation cut between its read, its stamp and the successor; every append may fail and the process may die. `overtaken`, a history variable, names the bearers revoked while a rotation was about to stamp them | `http/tokens.py`, `http/auth.py`, `break_glass.py`, `client.py` 1030 |
| `ForgottenWatch` | drawers with `deleted_at` and tag, the number of `forgotten` rows per event, patrols cut between read, filter and each append | `reconcile.py`, `memory_history.py` |
| `Recall` | the lifecycle marks of drawers, the environment switch, the scorer, one read at a time cut between width, fetch, filter and ranking | `client.py` search, get, sample; `reader.py`; the adapter's search |
| `RequestDoor` | the serving gate, the admission times of each token and door, the requests and the queue of the thread pool | `http/app.py`, `http/auth.py`, `mcp_tools.py` |
| `StatsWalk` | the store's listing, walks page by page, the cache with its clock | `http/routes/stats.py`, `aggregate_stats` |
| `WriteGate` | requests cut between quota, route, store, charge and record | `MemoryClient.write`, `counters.py` |

`Recall` keeps the real algorithms of clustering, demotion and rank fusion, for
the order of an answer is what its property is about; what a text resembles and
how a scorer orders is any relation and any order. `AuditChain` keeps a row's
hash as the sequence of all that was hashed, which is what a hash without
collisions tells.

### Jobs and commands

| Module | State and actions | Code |
|---|---|---|
| `BoxBackup` | the files of a box, an archive, the directory a restore writes; one action per file snapshotted, checked, placed | `cli/lifecycle.py` |
| `BridgeHealth` | streak and wings per bridge with the marks that mute alerts; recording, each delivery, marking and the log are actions of their own. A run keeps the environment its script was started in. `heard` and `unlogged` are history variables: what was posted or logged since the last clean run or fresh write, and what a run without a sink marked and died before it could log | `bridge_health.py` |
| `CalibrationFit` | observations in bins, groups, the threshold; merges are steps | `resolver/calibrate.py` |
| `ReceiptActivation` | old approvals, the finalizer of the old code, the start of the new one, the write lock of the outbox | `migrate_audit_receipts`, `store_probe.py`, lifespan |
| `Resolver` | candidates with match, evidence and ranking, of which more slots may be forced than a choice set holds; the budget, the threads of abandoned calls | `resolver/engine.py`, `resolver/fallback.py` |
| `SelfHostInstall` | `.panella`, the box, the tokens in its table; `up` and its child `init` as two processes that die apart | `cli/up.py`, `cli/init.py` |
| `SourceSync` | files as lists of atoms, the rows of the store, the calls of syncers, the counts of the quota | `replace_source_atom_set`, `delete_prior_source_versions`, `check_write_quota` |

## 3. The runs

Common bounds of the governed box: `MaxAudit` limits the log, `MaxEdits` the hand
edits of stored bytes, `MaxCrashes` the processes that die. Proposals are limited
by `Ids`. Deadlock is not checked in any run, for a box may rightly stop:
everything is decided and finalized, every request is answered, a command has
ended for good, or a bound is reached.

| Run | Instance | What it asks |
|---|---|---|
| `decide` | 1 id, 2 contents, 2 calls, 1 edit, 1 crash, raw approval, leases run out under live calls; 185 k states | `TypeOK`, `DurableIsReceipted`, `DurableIsStamped`, `OneDurablePerApproval`, `DecisionIsFinal` |
| `forget_faults` | 1 id, 2 calls, 1 forget by either name, all faults of the store, 1 crash, leases run out under live calls; 1.0 M states | `ForgetKeepsItsClaim`, `ImplementsGovernedMemory` |
| `forget_prompt` | 1 id, 2 contents, 2 calls that end within their lease, 1 forget by drawer, 1 edit, raw approval, no refused deletes, 1 crash; 482 k states | `ClaimedIsNeverUnmapped`, `ForgottenLeavesNoCopy`, `WriteNeedsClaim` |
| `same_bytes` | 2 ids of one content, 2 calls, 1 crash; 140 k states | `DurableHasOneOwner`, `FinalizedIsDurable` |
| `live` | 1 id, 2 calls, 1 forget by either name, 1 crash; 30 k states | `ApprovedIsFinalized`, `ForgetIsCarriedOut`, `ErasureIsNamed` |
| `tag_lock` | 1 memory with 2 lives, 2 writers, 1 label, 2 attempts, no late PUT; 180 k states | `TransitionsAreAtomic`, `RecordIsTrue`, `LocksAreReleased` |
| `tag_late` | 1 memory with 1 life, 2 writers, 1 label, 2 attempts, 1 late PUT at a time; 473 k states | `RetiredStaysExcluded` |
| `serving` | the eight components a box serves; 210 k states | 13 properties, below |
| `upkeep` | the seven jobs and commands; 189 k states | 8 properties, below |
| `forget_by_hash`, `refused_delete`, `retry_by_approve` | 1 id, 1 call, at most 1 forget | violated: section 6 |

What `serving` shows, and with which bounds:

| Part | Bounds | Property |
|---|---|---|
| door | 2 requests, 3 tokens (owner, other, unknown), limit 1 in a window of 2 ticks, 1 thread | `RateWindowHolds`: no window of a minute, wherever it begins, admits more than the limit. `DecisionGetsAThread`: a decision gets an answer though searches that timed out keep their threads |
| access | a bearer, its successor, an elevation, 1 request at a time, 3 hours, 1 outage | `CrossTenantIsOnRecord`: no crossing without an opening before it, in time, and a record of its own, also over a restart. `RevocationHolds`: a revoked bearer lives on only if a rotation had read its row before, and no longer than the grace |
| write | 2 requests, quota 1, 1 fault, 1 restart | `OverrunIsBounded`: the quota is overrun by less than the number of threads |
| read | 5 drawers of two tenants, wings and rooms, dated alike and undated, 2 queries, 1 retirement | `NothingHiddenIsRead`, `CanonicalRowWins` |
| stats | 5 drawers, pages of 2, 2 walks, 2 changes | `CountErrorIsBounded`: a total is wrong by at most the changes since its walk began, also from the cache |
| review | 2 candidates, 2 messages, 3 presses | `OneEventPerApproval`, `DeferredComesBack` |
| chain | 2 writers, 2 bodies, 3 rows, 1 damage | `AcceptedReceiptPinsHistory`: an accepted receipt vouches for every row before it |
| watch | 1 drawer forgotten twice, 2 patrols, 1 swallowed append | `EveryForgettingIsRecorded` |

And `upkeep`:

| Part | Bounds | Property |
|---|---|---|
| backup | 5 files, 1 decision meanwhile, 3 commands, 1 mishap | `RestoreIsAllOrNothing`: a restore that refuses has touched nothing, one that passes has placed every file, also into half a box |
| install | 2 calls of `up`, 3 in all, 2 mishaps, 1 forced init | `OneOwnerBearer` |
| sync | 2 files of 3 versions, 4 texts, 2 syncers of which one runs by hand, quota 3 a day and 2 a minute, 1 edit, 1 fault | `QuotaNeverSplitsASet`, `EverySourceHeals` |
| bridge | 1 bridge, 1 wing, thresholds 2 and 1, 2 slips, three environments of which two end in the log | `OutageIsHeard`: an outage is heard of or ends, unless a run without a sink marked it and died before its log |
| activation | 2 approvals, 2 claims of the old finalizer, 1 break | `ReceiptPrecedesWrite` |
| resolver | 2 high-risk slots and another, 2 candidates, 5 manifests, budget 2, choice sets of 2 of which all may be forced, and texts that force 3 | `HighRiskIsArbitrated` |
| fit | 4 bins, groups of 2, 5 observations | `FittedSliceIsSound` |

Why these bounds suffice for the interesting cases. Two calls on one approval
are what every race of the finalizer needs: an owner and the one that takes
over, or an approve and a reject; a third call of either kind would meet the
same row states. One decision is enough to finalize, a second one makes
re-approval and reject races possible, a third a reject between two approves
(`decide` has three records). Two approvals of one content are what sharing a
durable row needs; two contents of one approval what an edit needs. One crash
lets every half-done step be found by a successor. A second forget would repeat
the first one's guards: a row already claimed is claimed again, which a forget
after a crashed one does here too.

Writers on different memories share neither lock nor row, so one memory is
enough for the races of a transition; two lives let a row be deleted and written
anew between a GET and its PUT. `tag_late` keeps to one life: a PUT left behind
in an earlier life could mark the row of a later one, which nothing in the
protocol can tell. `MaxAttempts` is 2, as in the code.

Of the others: a rate window is broken, if at all, by one admission too many,
which a limit of 1 shows; a page boundary is crossed with three drawers and pages
of two; a quota of three is met by two files of which one has two atoms, in one
batch and across the slide of the minute; a thin bin is merged left or right with
four bins; 5 manifests put either threshold above the other, invalidate either
slice, or do not bind. The environment of a read may flip at every step of it.

Symmetry is used for runs of invariants and action properties only (calls,
writers, and contents where no constant distinguishes them). Runs with
`SlowCalls = FALSE` assume what the code assumes: a call ends within the lease of
its claim (an HTTP timeout of about 45 s against 300 s).

## 4. Fairness

`FairSpec` of the governed box adds to `Spec`, for liveness only:

* weak fairness of each step of a call, a forget or a transition that has begun: the operating
  system runs threads. Nothing is assumed of the caller who starts one;
* strong fairness of the claim check, of the write and of the lookup that finds
  its row: a store that is tried again and again answers at some time. Without
  it every attempt may fail, and the code rightly retries for ever;
* strong fairness of the sweep for each approval: `redrive_pending_finalizations`
  is meant to be run by a scheduler; the package itself never calls it, so a box
  without one has only the retry of `approve`, and `retry_by_approve` shows
  that this is not enough;
* strong fairness of asking again for a forget that ended early: its caller got
  an exception, or none at all, and the claim is kept for that retry;
* weak fairness of the lease running out: time passes.

`live` assumes prompt calls: with calls that stall beyond their lease
two of them can take the claim from each other for ever.

The other components, each in its own `...Spec`:

* `RequestDoor`: a free thread takes the oldest waiting call, and a call's store
  request returns, if only by its own timeout. No request need ever be sent;
* `ApprovalReview`: hours pass, and the resurfacing sweep, which the bot
  schedules, runs while something is due;
* `ForgottenWatch`: a patrol that has begun goes on, and one that records is begun
  again and again (strong: another patrol may be under way); failures of reads
  and appends are bounded;
* `SourceSync`: a call that has begun goes on, a batch syncs each of its files and
  another batch follows: the sync is a scheduled job. Edits and faults are
  bounded, since nothing heals a file that keeps changing;
* `BridgeHealth`: a bridge is run again and again, and a run that has begun goes
  on; deliveries that raise and runs that die are bounded.

The other modules have no liveness property and no fairness.

## 5. The proofs

### The governed box and the tags

For every set of ids, contents, calls and forgets, every number of crashes,
edits and records, every choice of store faults, and slow calls:

| Theorem | States |
|---|---|
| `TypeSafety` | `Spec => []TypeOK` |
| `ReceiptSafety` | `Spec => []DurableIsReceipted`: what is durable was approved on record, for these bytes |
| `DecisionFinality` | `Spec => DecisionIsFinal`: only a purge changes a verdict or its receipt |
| `StampSafety` | `Spec => []DurableIsStamped`: durable bytes belong to an approval stamped for them, or forgotten since |
| `OneDurable` | `Spec => []OneDurablePerApproval` |
| `GovernedMemoryImplemented` | `Spec => ImplementsGovernedMemory`: the box implements its abstract promise |
| `ApprovalsAreSound` | `Spec => []SoundInv`: a stamped approval has its receipt, one without is a legacy caller's |

and, each under the condition that the counterexamples of section 6 force on it:

| Theorem | States | Assumes |
|---|---|---|
| `FinalizedStaysDurable` | `Spec => []FinalizedIsDurable` | `Forgetters = {}` |
| `DurableOwnership` | `Spec => []DurableHasOneOwner` | `Forgetters = {}` |
| `ForgetKeepsWhatItHolds` | `Spec => ForgetKeepsItsClaim` | `Legacy = {}`, `MaxEdits = 0` |
| `WritesAreClaimed` | `Spec => WriteNeedsClaim` | `~SlowCalls`, `MaxEdits <= 1` |
| `NothingIsUnmapped` | `Spec => []ClaimedIsNeverUnmapped` | the same, `"refuse" \notin StoreMay` |
| `ErasureIsRecorded` | `Spec => []ErasureIsNamed` | `StoreMay \subseteq {"refuse"}` |
| `TombstonesLeaveNoCopy` | `Spec => [](BytesAreOwn => ForgottenLeavesNoCopy)` | `ForgetBy \subseteq {"drawer"}` |

None of these conditions can be dropped: the orphan cleanup of a stale call
deletes by hash what a forget made room for; a gate refusal of edited or
unreceipted bytes marks the row `failed` under a forget, and a second edit that
brings the approved bytes back lets a redrive claim it from under the forget; a
call beyond its lease writes for a row a forget holds; a refused delete passes
for one that found nothing; a DELETE whose answer is lost is answered 404 the
second time; a forget by content hash misses the call that has yet to record
(`forget_by_hash`). `BytesAreOwn` says of a state that no two approvals were
approved on record for the same bytes: with two of them, one may be proposed
again, made durable and caught by a forget that dies after its delete, under the
tombstone the other one left. `TombstonesLeaveNoCopy` needs none of what
`forget_prompt` has: calls may be slow, deletes refused, answers lost.

The other assumptions are those of the modules: `None`, `Via` and `Rtbf` are none of
the other values, and the bounds are numbers. The bounds stay in the guards, so
the theorems speak of any bound.

*Types.* `TypeOK` is not inductive: a `Record` writes `call[w].hash`, which
`TypeOK` lets be `None`, into a row of a call whose `id` might be `None`.
`TypeInv` adds the shape of calls and forgets (which fields are set at
which stage); `TypeStep` has a lemma for each component and a step for each
action.

*Receipts.* A durable row is written by a call long after the gate that allowed
it, and by then the row of its approval may have been edited, taken over or
purged. So the invariant cannot speak of the row. `Tied(i, c)` says that
approval `i` is tied to the bytes `c`: they are durable in its name, or a call
past its claim may yet write them. `TiedSteps`: only `GateClaims` ties an
approval to bytes, and to those its row holds at that moment; everything else
keeps or cuts ties. `GateClaims` checks the receipt against the log and the log
only grows, so what is tied is receipted (`ReceiptInv`).

*Stamps and one durable row.* `DecisionFinality` says what a decided row keeps.
`TiedIsStamped` follows for rows that exist; a purged row has lost its
fingerprint, so that an approval is tied to at most one content (`TiedToOne`)
must be part of the invariant: while the row exists both contents are its
fingerprint, and once it is purged no claim can add a tie. `OneDurable` is
`TiedToOne` for rows of the store.

*Refinement.* The mapping reads the phase of an approval off its row, its binding
off the fingerprint, the decisions off the log, and takes the store as it is.
Every action maps to one abstract step or to a stutter: `QueueRefines`,
`AppendRefines`, `DecideRefines`, `FinalizeRefines`, `ForgetRefines`. `Remember`
needs the invariant: a write may come long after its gate, and `MemoryInv`, with
the ties above, says that the approval is still in force for these bytes or was
forgotten with its decision on record.

*Durable rows.* `RowIsDurable`: a row that says `finalized` has its content in the
store under its own marker. `CallIsDurable`: a write that landed and a look-up
each leave a call with a hash the store maps to its approval, and that hash is
what `Record` copies. Without forgets nobody takes a row, so no call ever has an
orphan to clean up.

*Erasures.* `NamesFirst` follows a forget through its stages, and `ErasedIsNamed`
says that what is erased has its tombstone or a running forget that will write
it.

*Claims.* `ClaimInv` ties claims to calls and forgets. `CallHolds`: a call past its
gate owns its row, or a forget that did not know of the row has purged it
(`overrun`). `ForgetHas`: the rows a forget claimed are purged, held by it, or
given up by a gate that found other bytes than the approved. `SweepInv` adds
`Swept`, that a row a forget has looked up carries no durable memory any more
except the one it is about to delete, and `DurableIsMapped`, which is the
property.

*Tombstones.* That no approval records a hash the history calls deleted must be
known of everyone who carries a hash: rows, calls and forgets. `RowIsKnown` and
`CallIsKnown` say that whatever they carry was approved on record for their own
approval, `ForgetIsKnown` and `HistoryIsKnown` that what a forget deletes, and
then names, was approved for an approval whose row it has purged. A purged row is
never recorded again; so a recorded hash that is named would be the hash of two
approvals, which is what `BytesAreOwn` excludes. A forget by drawer id claims
every row of the drawer before it looks anything up, and there the forgets by
content hash fall out of the argument.

*Tags.* For any number of memories, writers, labels, attempts and lives:

| Theorem | States |
|---|---|
| `TagTypes` | `Spec => []TagTypeOK` |
| `TransitionAtomicity` | `Spec => TransitionsAreAtomic`, for the memories whose PUTs do not arrive late |
| `HiddenStaysHidden` | `Spec => RetiredStaysExcluded`, if `LateInOneLife` |
| `RecordsAreTrue` | `Spec => []RecordIsTrue`, if `LateInOneLife` |

The PUT writes what its GET found, so atomicity needs that nothing has changed
in between. `TagInv` says so in three parts: `LockHeld`, a lock names exactly the
writer inside its block; `LateIsExpected`, PUTs are left behind for
`LateMemories` only; `GetIsFresh`, what a writer about to PUT has read is what
the row holds, or the row has begun another life. `StaysFresh` is its core: a
step that changes tags is one of the lock's holder. With several memories and
some of them in `LateMemories`, the theorem also says that a late PUT of one
memory never disturbs another.

`RecordInv` is what the other two rest on. `HiddenByStatus`: a row with a retired
tag has the status as well; so what a late PUT with old tags takes away is never
all that hides the row, since metadata is merged and no delta revives
(`PutKnowsStatus`, `LateKnowsStatus`). `StaleReader`: a writer about to PUT into a
later life than it read in finds a row that nobody has hidden yet, since it holds
the lock, so it brings nothing back.
`ToldIsTrue`: what a verified transition is about to record, or has recorded, is
true of the row. `LateInOneLife` (no late PUT, or no content stored twice) is
needed for both: a PUT left behind in one life brings the next life its tags
without their status, and the following transition drops them.

### The components around the box

| Module | Theorem | States |
|---|---|---|
| `ServingProofs` | `OneEventForEachApproval` | `ReviewSpec => []OneEventPerApproval` |
| | `QuotaOverrunIsBounded` | `WriteSpec => []OverrunIsBounded` |
| | `RevokedIsRejected` | `AccessSpec => []RevocationHolds` |
| | `CrossTenantIsRecorded` | `AccessSpec => []CrossTenantIsOnRecord` |
| | `ServingTypes` | `Spec => []ServingTypeOK`, the type invariants of all eight components of `MCServing`: bearers, chain, door, reads, review, statistics, watch and write gate |
| `SequenceProofs` | `LimiterKeepsTheRate` | `DoorSpec => []RateWindowHolds` |
| | `ReceiptsPinHistory` | `ChainSpec => []AcceptedReceiptPinsHistory` |
| | `CountsAreBounded` | `StatsSpec => []CountErrorIsBounded` |
| `OrderProofs` | `ReadsAreLawful` | `ReadSpec => []NothingHiddenIsRead` |
| | `TheCanonicalRowWins` | `ReadSpec => CanonicalRowWins` |
| | `TheFittedSliceIsSound` | `FitSpec => []FittedSliceIsSound` |
| `ActivationProofs` | `ServingBoxIsReceipted` | `ActivationSpec => []ServesReceipted` |
| | `StampPrecedesWrite` | `ActivationSpec => ReceiptPrecedesWrite` |
| | `BearersStayFew` | `InstallSpec => []OneOwnerBearer` |
| `UpkeepProofs` | `MarksFollowHearing` | `BridgeSpec => []MutedIsAccountedFor` |
| | `PostedMarksWereHeard` | `BridgeSpec => []MutedWasHeard`, if every environment leads to a sink that posts |
| | `HighRiskNeedsArbitration` | `ResolverSpec => []HighRiskIsArbitrated` |
| | `RunLeavesFewThreads` | `ResolverSpec => []ThreadsAreBounded` |
| | `SetsAreReplacedWhole` | `SyncSpec => []NoWriteBesideAPrior` |
| | `QuotaKeepsSetsWhole` | `SyncSpec => QuotaNeverSplitsASet` |
| | `RestoreIsAtomic` | `BackupSpec => []RestoreIsAllOrNothing` |

They speak of the component's own specification with any constants that satisfy
its assumption, which is what a `part` of `MCServing` or `MCUpkeep` runs. These
assumptions are finiteness, the domains of the constants, and one fact each that
the code gives: `ReadAssumption` has finitely many drawers whose similarity is
symmetric (`jaccard_sim` compares two sets of tokens), natural numbers for relevance and
boosts; `WalkAssumption` a scope to ask of; `FitAssumption` a bin.

*One event.* `OneEventPerApproval` is inductive with the type of a row: the only
step that adds an event leaves an undecided status, and no button leads back
from `approved`.

*The quota.* `OverrunIsBounded` counts the writes done together with the threads
past the gate, which makes it inductive: passing the gate adds one thread on a
count below the limit, of a set that was not all of them, and a write moves a
thread from one summand to the other.

*Bearers.* `RevocationHolds` needs to know that a rotation about to stamp a label
that was cut is known as overtaking it, that a rotation under way has minted no
label that was cut (`RotatesMinted`, `CutIsOver`) and that an elevation mints its
label once (`MintIsAlone`). For the crossings, `ElevationIsOpened` ties
every live elevation to its opening record and `CrossingIsHandled` every crossing
to its record or to the thread that still holds it in hand.

*Syncs.* `RestFits`: from the preflight to the last atom the rest of a call's set
fits what is left of the day and of the minute, which every write keeps and a
sliding minute only helps; so the quota cannot refuse an atom. `NothingYet`: a
call before its deletion has deleted and written nothing. `AloneIsAlone`: of two
calls on one source neither counts as alone; with it, only the call itself adds
rows to its source between the recheck and the last write.

*What is ranked.* The library's sorts say nothing to the provers, so `Recall` says
what an order is and not how it is reached: `InOrder` lists a finite set by the
number of members that come before each one. `PlacesAreTaken` shows for any
strict total order that each place is somebody's, by counting; hence `OrderLists`
and, for positions of a sequence, `SortingKeeps` and `KeepingKeeps`: sorting and
filtering return members of what they are given, and sorting all of them.

*Lawful reads.* `PoolIsLawful`: what a read holds between its fetch and its answer
is a part of what was lawful at the fetch. The fetch establishes it
(`FilteredIsLawful`, `FetchIsLawful`: adapter, net and scope together let no
hidden drawer through) and ranking, boosting and cutting only rearrange or drop
(`BoostingKeeps`, `AnswerIsLawful`). The tags of a drawer may change meanwhile; the
moment the property compares with does not.

*The canonical row.* `SameSlot` is single linkage without its loop: what no set that is
closed under likeness parts. `SlotsPart`: slots part the candidates, for which
likeness must be symmetric. `NewestIsLive`: of a slot's dated members the newest,
or the earliest of several that are newest, is not demoted and everything older
is. `SelectionsAreOrdered`: whichever order the reader ends up with, the fused one
(a total order by cross-multiplied fractions, `FusingIsTotal`), that of the
scorer or that of retrieval, it lists all candidates with the live before the
demoted; so a prefix of any length that holds an older one holds the newest
before it (`NewestStandsFirst`).

*The fitted slice.* `FitInv`: the groups tile the bins (`Tile`), which a merge of two
neighbours keeps (`MergedTile`), and when merging is over each has an observation
(`Fitted`). Its values are running maxima of the groups' shares
(`ValuesAreMaxima`), so they rise; a bin falls into one group (`BinsHaveAGroup`).
A rung is a value above that of every wrong observation, on which somebody right
stands (`RungsAreSound`), and the threshold is the least rung (`LowestIsSound`); that there is a least one is `FractionLaws`, fractions being a
linear preorder by cross-multiplication (`FractionsAreOrdered`), and
`SomeFractionIsExtreme`.

*Types.* `ServingTypeOK` is not inductive either: a bucket has no more than
`PerMinute` times because popping narrows it before anything enters
(`PoppingNarrows`), the log no more than `MaxChainRows` rows because they carry
different numbers below it (`LogIsShort`), and the rows of the listing are as many
as the standing drawers because none is listed twice (`ListingIsStanding`). The
invariants of the components, with the bounds (`ReviewFits`, `DoorFits`,
`ChainFits`, `StatsFits`), are inductive; the fact that the components run side by
side and never at once is not needed.

*The rate limiter.* `IsTail`: what is left in a bucket is the tail of all
admissions of that token and door, and what was dropped from it is a minute old.
`Spaced` is the property itself in terms of positions: of any `PerMinute + 1`
admissions in a row the first and the last are a minute apart. An admission is
appended only to a bucket that is not full, so the one `PerMinute` places back
has been dropped (`EnteringKeeps`).

*The audit chain.* `ChainInv`: the log is `Ordered` whatever befalls it; while
nothing befell it, it is `Intact`, each hash being over all the rows up to its
own; a writer in its transaction continues the tail (`AppendFits`). So a receipt
taken then holds the hash of what it tells (`ReceiptIsTold`). When the gate
accepts, the rows up to the receipt's verify, and rows that verify are hashed
over all they say (`VerifiedIsSaid`, by induction on the position), so they say
what the receipt tells (`VerdictStands`).

*Counts.* `Fits`: what a walk has counted and what is still to come of the listing
as it is now (`RestOf`) differ from what stood at its beginning by no more than
the changes since. A drawer added at the front or deleted moves at most one row
across the position the walk has reached (`AddingMovesOne`, `DeletingMovesOne`), a
page moves its rows from what is to come to what is counted (`PageSplitsRest`),
and what the cache holds only ages.

*Induction.* The theorems of the library that are named induction take an operator
as parameter, which the installed provers cannot instantiate. `SetInduction` states
it of a set instead (a set with 0 and the next of each of its numbers has all of
them) and follows from the theorems on injections of finite sets. `FirstPositions`,
`WindowIsTail` and `VerifiedIsSaid` use it.

*Restores.* `RestoreInv` relates the files a restore has yet to place to those in
place: until it begins to place them `target` is what it was before, and from
then on every member is either in place or still to come.

*Activation.* `LockIsHeld`: a row is being attested exactly while the migrator
holds the write lock. `LegacyHasClaim` and `UnclaimedIsAbsent`: the old finalizer
writes only rows it has claimed, so the memory of a row nobody ever claimed is
absent. `AttestedStays`: what the inspection saw still holds at the stamp, which
is what the lock is for. `ServesReceipted` joins them: a row never becomes
eligible again, so none is left once the count is zero.

*Owner bearers.* The count alone is not inductive: an `init` that is about to
mint must be counted before it mints. `BearersAreCounted` bounds the tokens
together with the processes that will still mint, those at `tokens mint` and
those that have yet to look at a home that is fresh. Only two steps add such a
process, a forced init, which raises the bound, and a first start. For the latter
`CheckStillHolds` says that the box whose absence `up` checked is still absent
when it starts it, which rests on the lock (`CallHoldsLock`) and on
`NoBoxIsBare`: without containers there is no token and no `init` left behind.
`BearerIsLast`: the order of the operator files keeps a half-written home from
looking fresh. The constants need only finitely many calls, none named "nobody".

*Bridge alerts.* `SentWasHeard`: what a run that posts counts as sent has reached its
sink since the state it is about began. `MutedIs`: the marks are set from what was
sent, so each was heard, or the run has only the log and will write there next
(`ToBeLogged`); its death between the two moves the alert to `unlogged`.
`PostedMarksWereHeard` adds that nothing is ever unlogged where all runs post.

*Resolver.* `WaitingIsForced`: a call in flight was offered every slot the text
gave evidence of, so whatever it picks was picked among all of them; and it was offered
no more than a choice set holds (`ChoicesFit`), since a text that forces more is
answered by an abstention before anything is ranked.
`ThreadsAreCounted`: a second thread follows a first one, and each first one took
a call from the budget.

### Only model-checked

* All liveness (`ApprovedIsFinalized`, `ForgetIsCarriedOut`, `LocksAreReleased`,
  `DecisionGetsAThread`, `DeferredComesBack`, `EveryForgettingIsRecorded`,
  `EverySourceHeals`, `OutageIsHeard`): the provers do not handle fairness.
* That the loops of the code compute what the models define: the code sorts and
  clusters in loops, and `Recall` and `CalibrationFit` state the outcome.

Every safety property and action property that the runs check is proved, under
the assumptions in the tables; `ServingTypeOK` and the types of the box are proved
with them. `TagTypeOK`, `ThreadsAreBounded`, `MutedIsAccountedFor`, `MutedWasHeard`,
`ServesReceipted` and `NoWriteBesideAPrior` are proved only; each of them can be
added to the configuration of its component's run.

## 6. Where code and comments disagree

Each is a run that TLC ends with a counterexample; `PROJECT.json` quotes the
line that says otherwise.

* `forget_by_hash`. A forget by content hash finds rows by their recorded hash.
  A finalize that has written and not yet recorded is not found: the forget
  deletes the durable row, writes its tombstone, and the finalize then records
  the approval as finalized, with its text in the queue.
* `refused_delete`. `{"success": false}` is not told from "was not there": the
  mapping is purged and the row stays.
* `retry_by_approve`. A call that dies after its claim leaves `finalizing`.
  Approving again is refused, whatever the age of the claim; only the sweep
  takes the row back.

More schedules limit properties that the passing runs check, and are the reason
for their constants:

* the claim is checked, then the write is sent (`approval_finalizer.py` 349-360).
  A stall between the two that outlasts the lease lets a forget claim the row,
  and the write lands for an approval being forgotten; with an answer that is
  lost as well, nothing cleans the row up. `WriteNeedsClaim` and
  `ClaimedIsNeverUnmapped` are checked with prompt calls;
* the purge scans again (`client.py` 1160). A proposal of the same drawer made
  and finalized after the claim is dropped from the queue although its durable
  row was never deleted. The mapping is checked for rows a forget has claimed;
* `ErasureIsNamed` is checked for one approval and a store that answers: a DELETE
  whose answer is lost is answered 404 on retry, `ok` stays false and no tombstone
  is written. It excepts runs in which a process died, for one that ends between
  the purge and the tombstone leaves no name either;
* the orphan cleanup deletes by content hash: after a forget removed the late
  row and another approval of the same bytes wrote it again, it deletes that
  approval's row (`same_bytes` has no forgets);
* a gate that refuses edited bytes marks the row `failed` even when a forget
  holds it (`approval_finalizer.py` 281-286): `ForgetKeepsItsClaim` is checked
  without edits;
* a PUT of `_tag_transition` times out, its writer gives the lock back, another
  transition adds its tag and is verified, and only then the store carries out
  the first PUT, which replaces all tags: `TransitionsAreAtomic` is checked and
  proved for memories without late PUTs. `RetiredStaysExcluded` holds with them:
  metadata is merged, and no delta carries a status but a retired one, so the row
  stays out of recall. It holds for a content that is stored once: a PUT left
  behind before `hard_delete` may reach the row of the same content written
  since, with the old tags and no status, and be undone by the next transition;
* two syncs of one source at a time (one run by hand beside the scheduled one) may
  each delete what the other wrote: `NoWriteBesideAPrior` speaks of calls that are
  alone, `EverySourceHeals` says that the next batch repairs the source;
* the reads filter on the status a hit carried when it was fetched: a drawer that
  retires while an answer is made is in it once more. `NothingHiddenIsRead`
  compares with the moment of the fetch;
* the quota is compared before the write and charged after it, so threads overrun
  it: `OverrunIsBounded` says by how much;
* a backup snapshots the databases of a running box one after another
  (`cli/lifecycle.py` 185) and may hold a durable row without its decision. The
  code promises consistency of each file only, and so does `BoxBackup`;
* two patrols at a time may record one forgetting twice; `EveryForgettingIsRecorded`
  asks for at least once;
* `rotate` reads the row of a bearer, takes no lock for it, and stamps the end of the
  grace on it by its label (`http/tokens.py` 161-173). A revoke committed in between is
  overwritten: the bearer it reported as rejected authenticates until the grace is
  over, although the comment at 142 calls a revoke immediate. `RevocationHolds` says
  that nothing else revives a revoked bearer, and that a second revoke is final;
* the hook of a run without a sink does nothing and counts as a delivery; the marks
  are committed (`bridge_health.py` 337-348), and only then the alerts are logged
  (350-358). A process that dies in between has muted what nobody heard of: the
  outage until its streak grows, which runs that neither fail nor write do not make
  it do, a stale wing until it is written again. The comment at 306 says that marks
  are gated on the alert reaching its sink. `OutageIsHeard` excepts this case, and
  `MarksFollowHearing` proves that it is the only one;
* the docstring of `make_deliver` (682-683) names two settings for Discord. The code
  reads the first, and the comment at 397-406 says that this is deliberate: under the
  second alone alerts end in the log, as `AlertSink` has it.

An exact duplicate of a row that carries another approval's marker is not
adopted: the later approval stays `failed`. `ApprovedIsFinalized` is therefore
asked of one approval per content.

## 7. Plan

What remains worth doing, in this order:

1. Joining `ReceiptActivation` with `ApprovalCalls`, so that the old finalizer and
   the new one share a queue, and `SourceSync` with `WriteGate`, whose requests
   and syncs share the day's count in one process.
2. `preference_decide.py` as an operator checked against a reference definition.

## 8. What is left out

* The telegram handler is not part of the repository; of its effects the stamp and
  the buttons (`ApprovalReview`) are seen, and a box has one transport.
* Building, sanitizing and tagging payloads and attribution of proposers:
  contents are opaque. `BuildFails` stands for every exception in them.
* In the governed box the history loses nothing and the audit log is intact and has
  one writer; swallowed appends are in `ForgottenWatch`, damage, roll-backs and
  several writers in `AuditChain`. The outcome record is optional.
* Semantic deduplication of the store (the finalizer's `conversation_id` skips
  it); only exact duplicates occur.
* Worker ids are drawn at random by each call. The model reuses the name of a
  process, which can own a claim only between its own claim and its end.
* Preference decision (`preference_decide.py`, `preference_extraction.py`): a call
  to a language model and a pure mapping of its answer. The resolver's registry
  enters `Resolver` as a validated constant.
* Governance, profiles and configuration (parsing of static files), sanitizing
  (regular expressions), the model router (calls to language models), the scripts
  that measure models on gold sets: no state that interleavings or failures could
  spoil.
* Of modelled parts: health, metrics, CORS and headers of the HTTP facade; the text
  output of the store probe; `connect`, which writes a client's configuration
  file; the fallback of the tag lock without `fcntl`; floating-point scores, of
  which `Recall` keeps the order and `CalibrationFit` exact fractions.
* One bin index stands in `CalibrationFit` for two computations: `int(c * 10)` of the fit
  (`calibrate.py` 29) and the interval look-up of the engine (`engine.py` 253-257).
  For a confidence a rounding error away from an edge they may name neighbouring
  bins; `FittedSliceIsSound` speaks of the bins of the fit.
* A run without a hook (`deliver=None`, the default), where the returned alerts are the
  sink: the scripts take their hook from `make_deliver`, as its docstring says. The
  scripts are not part of the repository.
* `BearerAccess` has one rotation at a time.
