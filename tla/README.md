# Verification of StateFuse

StateFuse (`src/src/statefuse`) keeps the memory of agents as an append-only log of immutable
operations per replica. Claims that exclude each other stay in the log side by side; conflicts,
resolutions and their lifecycle are computed from it. Logs are synchronised between replicas by
cursors and deltas, and the computed state is projected into external retrieval indexes.

This directory holds TLA+ modules of its stateful parts, TLC configurations that check them, and
TLAPS proofs of everything those runs check but liveness. File names with a line number below are
relative to `src/src/statefuse` unless they begin with `src/`.

## 1. Components

| Component | State | Operations | Interacts with | Module |
| --- | --- | --- | --- | --- |
| Receive progress (`replica.py`) | cursor and pending ranges per peer | `advance_replica_progress`, reset | stored by every store | `ReplicaProgress`, `ProgressLoop` |
| Replica synchronisation (`memory.py` 500-720, `replica.py`) | none of its own: store and progress | `commit_batch`, `merge_from`, `export_replica_manifest`, `export_replica_delta`, `sync_from`, `apply_replica_delta`, `reset_replica_progress` | two stores, materialisation | `ReplicaSync` |
| In-memory and SQLite stores (`store.py`, `oplog.py`) | batches in order, progress, checkpoint | `append_many`, `read_after`, `find_ops` | everything | part of `ReplicaSync` |
| JSONL store (`store.py`) | a text file, one line per batch | `append_many`, `iter_ops`, `read_after` | other processes through the file | `JsonlStore`, `BatchStream` |
| Materialisation (`materialize.py`) | none, pure | `materialize`, `apply_operations_incrementally`, checkpoint encoding | registry, conflict detection | `Materialize` |
| Conflict detection (`conflict.py`) | the direct pair index | which claims exclude each other, index build and update, to conflict | predicate registry, custom detectors | `Detection` |
| Materialisation cache (`memory.py` 426-498, 752-918) | state, cursor, delta history, checkpoint | `materialize`, `materialize_with_delta` | store, registry | `MaterializationCache` |
| Projection service (`integrations/projection.py`) | cursor, pending deltas, references | `synchronize`, `search`, both sync and async | cache, adapter, two stores | `Projection` |
| Views, resolvers, policies (`view.py`, `resolver.py`, `resolution_policy.py`) | none, pure | `build_view`, choices of claims | materialised state | `Views`, `Resolvers` |
| LLM resolver (`resolver_llm.py`) | a worker process and its queue | ask, wait for a deadline, parse | a model behind two APIs | `AgentView` |
| Use of a memory by an agent (`memory.py` 107-108, 208-364, 499-508, 692-707) | what it was shown | `build_view`, `find_conflicts`, `add_resolution` | other writers | `AgentView` |
| Compaction (`compaction.py`) | a log | which operations may go | stores, peers' cursors | `Compaction`, `CompactedPeer` |
| Checked and authenticated merge (`auth.py`, `merge.py`, `oplog.py`) | a log, a quarantine | `merge`, `merge_checked`, `merge_checked_authenticated` | keys and secrets | `CheckedMerge` |
| Data model (`model.py`, `ops.py`) | no state | validation of records | | assumptions of `AgentView` and `Detection` |
| Connectors, LangGraph adapter | no state that these modules rely on | calls of services | | not modelled |

A replica is a `Memory` object on a store. Several workers, threads or processes, may share one
store. `sync_from` pulls: it reads its cursor, asks the peer for a manifest, filters out what its
own store has, fetches the missing payloads and applies them. Applications may also export a delta
by hand and carry it by any means to `apply_replica_delta`. Applying ends with a materialisation;
the cache keeps the materialised state and tells each consumer what changed since its own cursor.
The projection service is such a consumer: it turns the change into pending entries, and retires
each entry after the external repository has taken it.

**Hard behaviours.** Each is an entry of `hazards` in `PROJECT.json`, at the line where it bites:
deltas late, twice, reordered or lost; a call that breaks off after some batches are durable; two
workers that each overwrite the progress record they loaded; pages that could split an event; torn
and unterminated lines in a file that another process reads; an incremental fold that must equal a
full one in every arrival order; a rebuild whose two reads straddle an append; a bounded history
that a slow consumer falls out of; a changed registry; external writes that fail half-way; tasks
that run while another one awaits an external call; decisions made from a view that others have
made stale; a worker process that hangs, crashes, or has more to say than the pipe holds; a log
that is compacted while its deltas travel.

**What makes each component correct.**
- Progress: never acknowledges more than was received, never forgets it, stops its cursor at a gap.
- Synchronisation: what is acknowledged is durable; events stay whole; nothing is stored twice;
  draining reaches every operation; and as a whole it is replication of a grow-only set.
- Stores: what was accepted stays and can be read; a file is a stream of whole batches.
- Materialisation and cache: the state is a function of the *set* of operations up to the cursor.
- Projection: what is pending plus what is in the repository is always what the memory wants.
- Detection: two claims exclude each other exactly when both can apply somewhere at some time; the
  index kept up to date is the one built at once; a query by context finds what is there.
- Views: a committed decision is what is shown; nothing active disappears that nobody decided about.
- Resolvers: ids and arrival order never decide between values that read differently; asking a model
  always ends.
- Compaction: nobody can tell a compacted log from the whole one, now or after more operations.
- Merge: what stays does not depend on the order of merging, and nothing kept is replaced.

## 2. Modules, state and actions

An arrow points to the module that is extended or, where marked, implemented.

```
ReplicaProgress <---- ReplicaSync <---- MCReplicaSync        OpSetReplication <- implemented by ReplicaSync
   ^     ^               ^                                   BatchStream <------ implemented by JsonlStore
   |     |               |
   |  ReplicaProgressProofs <- ReplicaSyncProofs
   |
ProgressLoop <-----------------------------.
                                           |
Materialize <- Detection <- Views <- Compaction <- CompactedPeer <- MCCompaction
     ^                        ^                        |
     |                        |          CheckedMerge <'
MaterializationCache          Resolvers <- AgentView <- MCViews
     ^
MCMaterialization                                            Projection <- MCProjection
```

The other proofs are in modules named after the one they are about: `JsonlStoreProofs`,
`ProjectionProofs`, `MaterializationCacheProofs` (which also holds those about `Materialize`), and
`DetectionProofs`, which `AgentViewProofs` and `CompactedPeerProofs` extend;
the latter extends `ReplicaProgressProofs` as well, and holds the proofs about `CheckedMerge`,
`ProgressLoop` and `Compaction`.

**ReplicaProgress** is the data type: the set of acknowledged batches as a cursor and pending
ranges, and `Advance`, the result of `advance_replica_progress` written as a definition
(the runs of the acknowledged batches). **ProgressLoop** is the code's own algorithm, its two loops
as recursive functions over the sorted ranges, with the sets of inputs for which it does not
compute `Advance`; `CompactedPeer`, which uses it, states that they are empty. In the
modules of synchronisation a cursor counts *batches* instead of operations: the stores raise on a
cursor inside a batch. `CompactedPeer` counts operations, because the same number means another
place once batches have changed.

**ReplicaSync** has `log` (the batches of every replica's store), `progress`, `net` (exported
deltas), and one `job` per worker: the local variables of a call in progress. One action is one
access to shared state:

| Action | Code |
| --- | --- |
| `Commit`, `MergeFrom`, `Export`, `ResetProgress` | `commit_batch`, `merge_from`, `export_replica_delta`, `reset_replica_progress` |
| `SyncBegin`, `SyncManifest`, `SyncFilter`, `SyncExport` | `sync_from`: read the cursor, the peer's manifest, own store, the peer's payloads |
| `ApplyBegin`, `ApplyAppend`, `ApplyAppended`, `ApplyMaterialize`, `ApplySave` | `apply_replica_delta`: load progress, one `append_many` per batch, materialise, save progress |
| `Fail` | the process or a write ends the call between any two of these |

A delta that is never applied is lost, one that is applied twice was duplicated, and any order of
applying is a reordering: `net` only grows. **OpSetReplication** is the abstract specification:
each replica knows a set of operations that grows, and acknowledges a peer's operations only when
it has them.

**JsonlStore** has the `file` as a sequence of lines (decodable operations, newline or not) and the
writer's program counter. `WriteFragment`, `WritePayload` and `WriteNewline` are the moments at
which a crash leaves different files; `EnsureLineBoundary` ends a torn line before the next write;
`ReadAfter` is another process. **BatchStream**, which it implements, is what `ReplicaSync` assumes
of a store: whole, new batches, appended and read in order. The stream of a file is made of its
complete lines; a torn line that was ended later is an entry with no operations, which a reader
steps over.

**Materialize** is pure: `Full` folds a set of operations, `ApplyBatch` takes a state one batch
further and reports a delta, `Project` and `Updated` derive the retrieval records from a state and
from a delta. The loops over dictionaries are sets and functions here; a lane's timeline is the set
of its items with a place `at`, of which the last one decides, because each item of the code's
loop sets both the lane's resolution and its status. Which claims exclude each other is a relation
`Apart` per revision of the registry here. **MaterializationCache** has the store's `log`, the cached state with
its cursor and revision, the bounded `history`, the checkpoint and one `consumer`. A call is
`Restore`, or `StartRebuild` (reads the cursor) and `FinishRebuild` (loads the log), when the cache
is missing or of another revision, followed by `Read`; a checkpoint that could be used may turn out
to be unreadable, and the state is rebuilt all the same. `AppendOp` may come between any two.
`Later` and `Chained` are `materialize_with_delta`'s filter of the history and its loop over what
passed, written with the indexes of the deltas instead of a shorter list.

**Detection** gives a claim a shape (a half-open interval with optional bounds, a context as a
partial assignment of names) and a value, and assumes of `Apart` that it is what
`_direct_conflicts` computes of them. `Index`, `With`, `Without` and `UpdatedIndex` are the pair
index; `OverlapWitness` and `ConflictMatchesContext` the queries. **Views** has `build_view`:
`KeyView` is the first loop, `AfterExclusion` the second one over findings of custom detectors,
`CommittedChoice` and `ResolutionLane` the two helpers under both. A view is a function of the
state; its explanations are left out. **Resolvers** has the two heuristics over scored candidates
and the policies over writes with clocks. The heuristics compare candidates by `str(claim.value)`,
not by the values that detection compares: `TextOf` gives the text of every claim, and nothing is
assumed of it, so that values apart may read alike. The policies accept direct conflicts only, which
is their default.

**AgentView** composes these with time. `log` is the store, `view` what the agent was shown last,
`call` the local variables of a `build_view` in progress, `worker` the process that asks the model.

| Action | Code |
| --- | --- |
| `Write` | `add_claim`, `retract_claim`, evidence, or a resolution that arrives from elsewhere |
| `View` | `build_view` without a resolver or with a heuristic |
| `BeginView`, `EndView` | `build_view` with an `LLMResolver`: materialise and list the open conflicts; make the view |
| `Ask` | payload and start of the worker process |
| `Joined`, `Deadline` | `process.join(hard_timeout)` ends because the process did, or not |
| `TimesOut`, `WorkerFailed`, `Answered` | `is_alive`, the exit code, the queue; `_parse_response` |
| `Replies`, `ApiFails`, `Flushes`, `Crashes` | the worker: an answer or an error to the queue, the next API, the end of the process |
| `Select`, `Leave`, `Note` | `add_resolution`, and a lifecycle event, with the candidates of the last view |

The model is a choice among `Answer`: a candidate, an id that is none, no reason, too big. What the
view is built of was read in `BeginView`; the other writers go on while the worker runs.

**Compaction** says which operations stay and what the code's report compares (`Seen`).
**CompactedPeer** puts it where it hurts: a peer with an in-memory store whose log is replaced by
the compacted one, as one batch (`merge_from`) or operation by operation, and a receiver with
`receipt`, its progress, computed by `AdvanceLoop`. `Export` and `Apply` carry deltas by hand,
`Sync` is a whole `sync_from`, `Reset` is `reset_replica_progress`. It begins with any log of
`Beginnings`; those of the run are what its batches give when they are appended one by one. Two variables are for the
properties only: `held`, all operations the peer ever had, and `continuous`, whether the progress
is about the present log alone. **CheckedMerge** is pure: logs map ids to operations, a signature is
a pair of secret and body.

**Projection** has what the memory wants (`desired`), the ids in the delta since the cursor
(`touched`, `rebuild`), the stores `pending` and `reference`, the repository `external`, and one
`call` per caller. `StartSync` refreshes the entries and lists them, `Write` is the external call
with its outcomes, `Resume` the bookkeeping after it up to the next external call, `StartSearch`
and `FinishSearch` are the two sides of an awaited search, `Crash` restarts the service. With one
caller it is `ProjectionService`, with several it is `AsyncProjectionService`, where other calls
run only while one awaits. Versions of a record may repeat, as a conflict's id is a hash of its
candidates and the same record can come back.

## 3. Runs

| Run | Instance | Shows |
| --- | --- | --- |
| `sync_stores` | two workers on one store, two peers of which one relays the other, colliding ids, pages of one | types, `ProgressSound`, `ManifestStable`, `EventAtomic`, `StoredOnce` |
| `sync_converges` | one worker, two exported deltas, a failure, a reset | `ProgressMonotone`, the refinement `KeepsPromise`, `Convergence` |
| `jsonl_store` | four events that overlap or collide, three crashes, a paging reader | whole events, stored once, nothing accepted is lost, the reader misses nothing, `ImplementsStream` |
| `materialization` | three claims under one key, eleven operations, three of them in any order after either of two beginnings, one restart, one registry change that also changes what a reference means | `CacheExact`, `ConsumerExact`, `RetractedStaysOut`, `SettlementHolds` |
| `compaction` | three claims, two of the same content, logs of four operations, two compactions, a delta in transit | `CompactionUnnoticed`, `SoundSinceReset`; over all ranges up to 4, `LoopComputesRuns`, `NothingLostOrInvented`, `CursorStopsAtGap`; over all triples of logs, `MergesAgree` |
| `views` | six claims with four kinds of shape, a finding that spans two keys, two scopes, two decisions, a worker | `QueriesExact`, `IndexExact`, `CommittedStands`, `UnseenNeverOverruled`, `CallReturns`; over all shapes `ApplicabilityExact`; over all small sets of candidates and clocks `ConservativeAgrees`, `CausalDominates` |
| `projection` | two records, two versions, four commits, two failures, two restarts | `Accounted`, `NoOrphan`, `SearchFresh`, `EventuallyIndexed` |
| `sync_clash`, `jsonl_retry`, `materialization_registry`, `projection_tasks`, `projection_unseen` | | the disagreements of section 6 |

The properties of pure parts have two halves: a set of counterexamples over all small inputs that
must be empty (`Differing`, `Misjudged`, `Misfound`, `Lucky`, `Misordered`, `Disagreeing`), evaluated
once, and what follows for the records, views and logs of each state, where the same operators are
used on what the system has reached.

**Why the bounds are enough to be of use.** A lost update of progress needs two workers that load
before either saves, and a stream of two batches. Relaying needs three replicas, and `{v, x}`
collide so that two origins commit the same id; the event `{y, z}` is the one a page of one could
split. A call that breaks off needs no failure there: its worker takes no further step, and the other
one retries from the same progress. A reset, a failure and two exported deltas, the fewest that can
be reordered, are in `sync_converges`, whose refinement says that nothing is acknowledged that is
not held; a delta can be applied again at any time. Ranges up to 4 have room for two
separate gaps, the most that one more range can touch on both sides.
In the file a first crash tears a line, the second one hits the line boundary that repairs it, the
third hits the retry. In the materialisation three appends are the fewest that overflow a history
of two deltas while a consumer waits; three claims are the fewest where retracting a candidate
leaves a conflict; two of them have the same content, so that a retraction by reference hits both.
Two lanes, and the beginnings in which a resolution and a retraction precede what they speak of,
cover the orders that a replica sees after a merge. In `projection` two records are needed for a
loop that fails on one and goes on with the other, and four commits for a record that appears,
changes, goes, and comes back in the version it had.

In `compaction` two compactions are the fewest where the second one meets what came after the
first, and one delta in transit the fewest that belongs to a log that is gone; logs of four
operations hold a claim, a decision about it, its retraction and what is said afterwards. The claims
`b` and `c` have one content, so that a retraction by reference outlives the claim it was made for.
In `views` the two instants 1 and 2 make all ways in which two half-open intervals can lie (`c`
ends where `d` begins); two names make contexts that overlap without being equal; of key `k`,
`a`, `b` and `g` exclude each other while `c` meets only `g` and `d` meets none, so that retracting
one claim changes who is a candidate; `a` and `b` have different values of one text and equal scores; `z` has another key and takes part in a finding with `c`. The
beginnings are a conflict of two, a finding over compatible claims, and both at once. Two decisions
are the fewest of which the second one can undo or outdate the first. Three candidates and clocks
over two replicas are enough for two concurrent writes below or beside a third. The run with
symmetry checks invariants only.

**Fairness.** `ReplicaSync!FairSpec`: a call that has begun is run on (weak fairness of
`Continue`), as nothing in it waits for anything, and `sync_from` is called again and again
(strong fairness of `SyncBegin`), which is the drain loop of `src/docs/replica-sync.md`. The
applying of exported deltas, commits and failures are never forced. `Projection!FairSpec`: a call
goes on, and the host calls `synchronize` again and again; the strong form is needed because
searches of the same caller may come in between. That the store, the external index and the
process eventually stop failing is the bound on failures. `AgentView!Spec`: the caller's thread
takes its next step (weak fairness of `CallerStep`) and its timer runs out (weak fairness of
`Deadline`), because `join` has a timeout; nothing is assumed of the worker, the model or the other
writers, so `CallReturns` holds for a worker that hangs. It ends with all conflicts asked; what
remains is `EndView`, a computation without waiting. No fairness is used for a violation.

`sync_clash` runs under `PullSpec`, in which the receiving replica neither commits nor merges: all it
stores came through `apply_replica_delta`, so an attempt has failed on what it acknowledges and
cannot materialise.

**Deadlock** is not checked where the bounds on commits, appends and failures stop the system with
all work done; that the work is done is what the liveness properties say.

## 4. Proofs

Every theorem holds for all values of the constants that satisfy the named assumptions of the
modules; those that a theorem needs besides are in its `ASSUME`. `PROJECT.json` lists the theorems
with the property of a run each one states. The assumptions describe inputs, and TLC evaluates them
in every run: operations and ids are in their types, bounds are naturals, calls are made with finite
batches (`EventsFinite`), intervals have their ends in order (`ShapeAssumption`), records pass the
validation of their constructors (`AgentAssumption`), and different findings have different references
(`ViewsAssumption`), or the code raises (`conflict.py:897`).

**Progress** (`ReplicaProgressProofs`): `AdvanceType`, `AdvanceSound` (nothing is covered but what
was covered or lies in the new range), `AdvanceKeeps` (all of it is). They are about the definition
`Advance`. That the code computes it is `LoopIsAdvance` in `CompactedPeerProofs`: sorting, the loop
that merges and the loop that moves the cursor give `Advance` for every record with finitely many
pending ranges. The invariant of the first loop is that the ranges made so far are the maximal runs
of what was read (`AbsorbKeeps`, `MergingRuns`), that of the second one is `PlaceKeeps`.

**Synchronisation.** `ProgressSound` alone is not inductive: a saved record comes from a job that
loaded another record earlier and from a delta that was cut out of a stream earlier still. `IInv`
adds what those carry:
- `Accounts`: each delta and manifest is a part of the sender's stream between its two cursors,
  minus what the receiver already had;
- `Sound`: what the stored progress covers exists and is durable (this is `ProgressSound`);
- `JobSound`: the same of the record a job has loaded, and of every batch the job has passed.

All three speak of streams only through positions that exist, so `Grown`, the fact that streams
are only ever extended, carries them over every step. There is one lemma per action, and `Inductive`
collects them. From it follow `TypeCorrect`, `SyncSound`, and `SyncImplementsReplication`: a commit
is an abstract `Commit`, any other append a `Receive`, a saved or reset record an `Acknowledge`,
every other step a stutter. Four more properties have a strengthening of their own each:
- `OperationsStoredOnce`: every append filters by the store it appends to (`ExtendedNew`).
- `EventsAtomic`: `WholeInv` says that not only the streams, but also the payload a job waits for and
  every batch of the delta it applies hold an isolated event whole or not at all; wholeness passes
  through unions, differences and slices. An isolated event is one no other event overlaps and no
  collision touches: of others the code drops a part.
- `ManifestsStable`: a page is cut where enough *new* operations were counted, so that the batches
  up to the limit stay when the stream grows (`SliceKept`); that needs finite batches.
- `ProgressKept`, for one worker per replica (`OneWorkerEach`): `SeenInv` says that what is stored
  is at most what the one call in progress has loaded. With two workers a saved record overwrites
  the other one's, which is why the run of two workers does not check it.

**JSONL store** (`JsonlStoreProofs`): `JInv` is types, `StoredOnce`, `AcceptedStays`, `ReaderSound`
(the reader has what lies behind its cursor) and `WriterSound`: where the writer is decides what the
last line holds, and what it is about to write is in no line. All steps of the file keep the readable
lines (`FileStep`), so a reader needs no further argument. `JsonlEventAtomic` adds that every line
holds an isolated event whole or not at all, and `JsonlImplementsStream` is the refinement: a newline
appends to the stream whatever its line decodes to.

**Materialisation** (`MaterializationCacheProofs`). The first half is about the pure `ApplyBatch`.
`FullFields` says of each field of a full fold which operations it is made of. `Follows` says of a
state and a delta in the middle of a batch that the indexed fields are those of the larger set of
operations, that pairs, conflicts and lanes are still the old ones, and that the delta marks every
key and reference whose conflicts or lanes may be out of date (`Tells`). Each kind of operation keeps it (`ClaimApplied`,
`RetractionApplied`, ...), in whichever order a claim and its retraction by id or by reference
come. At the end of the batch `PairsKept`, `ConflictsKept` and `LaneSame` show that what the delta
does not mark needs no update; hence `ApplyBatchExact`: a batch on top of the fold of `ops` gives the
fold of `ops` and the batch, also where the two overlap, as they do when a rebuild raced with an
append or a checkpoint was taken in one, and its delta reports all that changed (`Reports`). What
stands in a lane depends on the items of its timeline alone (`StandingSame`). Deltas chain
(`ReportsChain`), and `UpdatedExact`: to update the records of the old state by what the delta names
gives the records of the new one. That needs that a candidate belongs to one key, so that no two
conflicts have the same record id.

`CacheExact` is not inductive: between the two reads of a rebuild the state is ahead of its cursor,
and a checkpoint may be so forever. The invariant `Inv` is a conjunction:
- `CacheInv`, `SavedInv`: the state is the full fold of some beginning of the log, not shorter than
  its cursor says, and as long as the cursor says unless a read is about to follow;
- `CallInv`: a rebuild holds a cursor that is not behind the cache's, and as long as checkpoints may
  be used the registry is the one they were made with; while a read is due after a rebuild or a
  restore, no consumer has a state of the present revision;
- `HistoryInv`: each delta names every claim that was retracted by id between its cursors (`Sound`);
  those that a consumer of this revision can still get report all changes between the two full
  folds (`Exact`). The first delta after a restore need not: its checkpoint may have been ahead of
  its cursor;
- `ConsumerInv`: the consumer's records are those of the full fold at its cursor if it began with
  this revision, and in any case show no claim that was retracted by id up to there.

There is one lemma per action. `TypeCorrect`, `CacheIsExact`, `ConsumerIsExact` and
`RetractedIsGone` follow from `CacheInvariant`; `SettlementIsKept` from the invariant on both sides
of a step: the cached states before and after are folds of two beginnings of one log, and if the
timelines of a lane agree, so does its resolution, which settles every set of candidates it covers
(`SettledStays`). The proof showed that two properties had been stated too strongly for the
instance in use to notice. A consumer that got its records before a registry change may show a
claim that only a retraction by reference is about, as the registry says what a reference stands
for: `RetractedStaysOut` now says so, and the instance gives the references another meaning under
its second revision. And a lane may be reopened because the candidates that are left are weighed by
its resolution but none, or several, of them were selected by it: `SettlementHolds` names that case
instead of the wider one that a candidate had left. `OperationAssumption`, which these proofs
add, lists the kinds of operations and the types of what they are about.

**Projection** (`ProjectionProofs`): `ProjectionTypeCorrect` for any number of callers.
`EverythingAccounted`, `NothingOrphaned` and `SearchesFresh` for one caller, without unseen effects
(no restart between an external write and its record, no delete that raises after it took effect):
these conditions are those under which the code keeps them, as the runs `projection_tasks` and
`projection_unseen` show. `PInv` adds to the three that references are true but for the id being
written, that what a call has listed is still what is pending, that a successful answer is already
in the repository, and what a search in progress is going to show.

**Detection** (`DetectionProofs`): `OverlapsJudgedRightly` and `AggregatesAnnotatedRightly` compare
the arithmetic on bounds and contexts with the sets of instants and situations that fulfil a shape,
for all shapes of half-open intervals. `QueriesFindExactly` is
about queries, `IndexUpdateExact` about the pair index: removing and adding claims in any order.
The folds over a set are taken apart by choosing a set on which they go wrong and that has no smaller
one of this kind.

**Views** (`AgentViewProofs`): a view is made of a set of operations that is outdated when it is
looked at, hence `ViewInv`: the last view is the one of *some* part of the log, with some verdicts
that are among the candidates. `CallInv` says the same of the view being built, and what the call
and its worker pass to each other; `LogInv` that every operation passed validation, also those made
from a view; `IndexInv` is `IndexExact` with finite sets. Most of the work is in lemmas about
`BuildView`, one per helper (`CommittedFacts`, `KeyViewFacts`, `AfterExclusionFacts`, ...), from
which `CommittedInView`, `UnseenInView`, `CandidatesInView` and `OpenInView` follow for any state.

**Resolvers** (also in `AgentViewProofs`): beating and dominating are strict orders of finitely many
candidates, so above each one is a maximal one (`MaximalAbove`). Scores are compared as
tuples, and the order of tuples of equal length is total (`LexicographicOrder`), so the candidates
with the best score are equal among themselves (`TopFacts`); both heuristics select one of these, and
the conservative one abstains unless they agree in text. Hence `IdsNeverDecideTexts` for free-standing
candidates and `HeuristicsAgree` for the conflicts of every reachable log: the same text, and the
same value where no two candidates that differ read alike (`Legible`). That condition is needed:
`TextTieLeftToIds` proves that of two candidates with equal scores and one text the conservative
heuristic selects the last id and the other one the first, whatever their values are. The causal policy selects
the only write that none dominates, which is the one that dominates all others exactly when there
is one (`CausalFacts`); a clock that dominates has counted more (`TotalGrows`), so the latest write
is no other one. `CausalityRespected` is this for free-standing clocks, `CausalityDecides` for every view;
the latter assumes that every claim has a clock (`AllClocked`), as the policy abstains when one has
none. `ResolverAssumption` says that scores are tuples of integers, all of one length, that clocks
count, and that ids and writes tell claims apart.

**Compaction and merge** (`CompactedPeerProofs`): the central notion is `Keeps(part, all)`: what is
missing is evidence, or a claim that the whole retracts. A log that keeps another shows the same
(`KeepsSeen`), stays so whatever both receive (`KeepsGrowing`), and compaction keeps (`CompactedKeeps`).
`PeerInv` says that the present log keeps all the peer ever held; that every delta of the present
log holds what it spans, while those of older logs may say anything; that progress lies within the
bounds and stops at gaps; and that
while it is about the present log alone (`continuous`), what it covers is `Backed`. With
`LoopIsAdvance` in place of the loops, `PeerTypeCorrect`, `CompactionGoesUnnoticed`,
`ProgressSoundSinceReset`, `ProgressAccountedFor`, `CursorsStop` and `LoopsComputeRuns` follow; the
last one is about the records TLC enumerates and assumes that their bounds have room for the logs
(`MaxOps <= MaxPending + 1`). `MergeOrderIrrelevant`, `ReportsComplete` and `MergesAlwaysAgree` go by
cases over ids.

**Induction.** The library's induction theorems take an operator as a parameter, which the provers
here cannot instantiate. Where a recursive function, a loop or a fold had to be reasoned about, the
proof takes a least counterexample instead, by the well-foundedness of `<` on the naturals or of
strict inclusion among finite sets.

**Only model-checked.**
- Liveness (`Convergence`, `EventuallyIndexed`, `CallReturns`): the prover has no rule for fairness.
- The runs that expect a violation, which need one behaviour each and no proof.
- That the recursive functions and folds of the model are the code's loops is by reading; what they
  compute is proved where a theorem above says so.

## 5. What is left out

Operations are records of the few fields that the code branches on: digests, timestamps other than
their order, and canonical JSON are not modelled. `find_ops` raising on a different digest is
`Collides`; a signature is the pair that it is computed from. SQLite's transactions are taken to be
atomic, JSON-lines progress and checkpoint sidecars to be replaced atomically, as the code does by
renaming a temporary file. Folds at an instant or in a context bypass the cache; `Detection` has
what applies there, and `QueriesExact` compares a query with such a fold. Derivations take the path
of evidence; `Decision` records take that of claims and are left out. Hydration, explanations and
the texts of records change no state.

*Custom detectors* are what they report: a reference and its candidates, while all of them are
active. A detector may be any function, so nothing more can be said of one.

*Resolvers*: what the scores are made of is given as tuples, with their order and the rules about
ties as in the code. *LLM resolver*: the prompt, finding JSON in an answer, and the SIGALRM
deadline that is used when a client object is passed in. *Connectors* translate calls of services
this repository does not contain; their ways of failing are the outcomes of `Projection!Write`, of which the worst is an
upsert that removes the old episode and then fails (`integrations/graphiti.py:63-69`). The
*LangGraph adapter* passes its arguments on.

A store of `MaterializationCache` loses no operations and is read at batch ends, so `read_after` does
not raise there; the rebuild after such an error (`memory.py:772-774`) is left out.

The manifest export of `ReplicaSync` reads intact streams; a JSONL file with a torn line at its end
can make the export's second read stop earlier than the first one (`memory.py:574`), which no
composition checks.

What the properties except, because the code does otherwise and no document says it should not:
- `CommittedStands`: when a resolution of a finding rejects all but one of the compatible claims of
  a key, the second loop of `build_view` puts the remaining one in `selected_claims`, also where the
  key's own conflict has a committed choice or is open (`view.py:262-266`).
- `CommittedStands`: what a resolution rejects is held against the present candidates of its
  conflict. A claim it rejected that is no candidate any more, because the claims it met were
  retracted, while the conflict and the resolution of the others are still there, is shown as a
  compatible alternative (`view.py:156-159`).
- `SoundSinceReset`: a delta of the old log that is applied after compaction and reset acknowledges
  operations that were never received. `src/docs/replica-sync.md` asks for the reset only.
- `CompactionUnnoticed`: evidence that nothing cites at the time is dropped (`compaction.py:155`),
  so a claim that cites it later has fewer sources than it had in the whole log. A retraction by
  reference is compared under one revision of the registry.
- The policies select among candidates that can never all apply at once, which
  `src/docs/conflict-taxonomy.md:59` leaves to nobody; the conservative heuristic looks at the first
  candidate of another value only, which its margins are meant for.
- An answer that the pipe between the processes does not hold always times out, as the caller
  reads the queue after the worker has ended (`resolver_llm.py:379-389`); the conflict then stays
  open, which is why `CallReturns` holds.

## 6. Where code and documents disagree

Each has a run in which the property that states the document's claim is violated, and an entry
under `findings`:
1. `sync_clash`: a pull stores two operations and fails to materialise them; the retry transfers
   nothing, therefore materialises nothing, and acknowledges operations that still cannot be
   materialised.
2. `jsonl_retry`: after a crash between a line and its newline, a retry takes the batch for stored
   and readers do not see it.
3. `materialization_registry`: registering a predicate changes the state and not its cursor, so a
   consumer of deltas keeps a conflict that is gone.
4. `projection_tasks`: a task that resumes after an awaited write retires whatever entry is then
   pending, also one that another task made meanwhile.
5. `projection_unseen`: a delete that takes effect and then raises keeps its reference; when the
   record returns unchanged it is never written.

Two more have no run:
- `ConservativeHeuristicResolver` is documented to abstain "on close or symmetric multi-value
  conflicts" (`resolver.py:215`). It compares `str(claim.value)` (`resolver.py:262`, `276`), so
  the conflicting values 1 and "1" count as one: with equal scores the greatest id is selected
  (`resolver.py:269`), and a close competitor of the same text is passed over. The theorem
  `TextTieLeftToIds` shows it, `ConservativeAgrees` states what is kept, and in `views` the claims
  `a` and `b` are such a pair.
- `JsonlStore` is documented to be weaker than it is: its batches "may expose a prefix to other
  instances" and `batch_atomicity` is `"prefix-visible"` (`store.py:182-184`), and a test is named
  for it (`src/tests/test_atomic_batches.py:141`, `180`). But a batch is one line, which decodes as a
  whole or not at all, and that test itself finds no operation after a write that failed half-way
  (line 177). `JsonlStore!EventAtomic` states what the code keeps. A caller must not
  rely on it beyond what `src/README.md:59-61` says; as the words permit a prefix and do not promise
  one, no behaviour contradicts them.

## 7. Plan

Done: every component that keeps state or decides something is modelled, and every safety and action
property and every refinement that a passing run checks is proved. What could still be added:
- searches of the projection service under several callers, where hits are merged with entries that
  other tasks retire meanwhile (`integrations/projection.py:629`), and a manifest's two reads of a
  file with a torn end (`memory.py:574`): the two hazards that no property covers;
- decisions (`Decision` records) in `Materialize`, as one more kind of operation in `OpApplied`;
- the half of liveness that needs no fairness rule: variants that decrease with each step of a drain.
