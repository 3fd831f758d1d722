------------------------------ MODULE ReplicaSync ------------------------------
(***************************************************************************)
(* Delta synchronisation of append-only operation logs (memory.py, on the  *)
(* stores of store.py): every replica owns a durable log of committed      *)
(* batches and, per peer, durable receive progress.  Workers (threads or   *)
(* processes that share one replica's store) pull from a peer in the steps *)
(* of Memory.sync_from, or apply an exported delta in the steps of         *)
(* Memory.apply_replica_delta; a worker can fail between any two steps.    *)
(* Exported deltas may be lost, duplicated, delayed and reordered.         *)
(*                                                                         *)
(* A batch is the set of its operations; a cursor is the number of batches *)
(* before it (see ReplicaProgress).                                        *)
(***************************************************************************)
EXTENDS ReplicaProgress, FiniteSets, Sequences

CONSTANTS
  Replica,     \* replica identifiers, one append-only stream each
  Worker,      \* callers of sync_from / apply_replica_delta
  Host,        \* Host[w]: the replica whose Memory worker w calls
  Op,          \* operations
  Event,       \* the batches that applications may commit
  Collide,     \* pairs of operations with one op_id and different payloads
  Clash,       \* pairs that give one entity id two payloads
  Limit,       \* the page sizes max_ops in use; 0 stands for no limit
  MaxDeltas,   \* bound on deltas exported by hand
  MaxFailures, \* bound on worker failures
  MaxResets    \* bound on progress resets

ASSUME SyncAssumption ==
  /\ Host \in [Worker -> Replica]
  /\ Event \subseteq SUBSET Op
  /\ Limit \subseteq Nat
  /\ MaxDeltas \in Nat /\ MaxFailures \in Nat /\ MaxResets \in Nat
  /\ \A p \in Collide \cup Clash : \E a, b \in Op : a # b /\ p = {a, b}

(* commit_batch is called with a list of operations.                       *)
ASSUME EventsFinite == \A e \in Event : IsFiniteSet(e)

VARIABLES
  log,         \* log[r]: the batches of replica r's store, oldest first
  progress,    \* progress[r][p]: what r has recorded as received from p
  net,         \* the deltas exported so far
  job,         \* job[w]: what worker w is in the middle of
  failures,    \* worker failures so far
  resets       \* progress resets so far

vars == <<log, progress, net, job, failures, resets>>

-------------------------------------------------------------------------------
(* Records.  ReplicaManifest and ReplicaDelta carry the same fields here:  *)
(* a (op_id, digest) entry identifies an operation with its payload.       *)
Delta == [sender : Replica, before : Nat, after : Nat, batches : Seq(SUBSET Op)]

Idle == [phase |-> "idle"]

BeginJob == [phase : {"manifest"}, peer : Replica, from : Nat]

SyncJob == [phase : {"filter", "export"}, manifest : Delta, wanted : SUBSET Op]

ApplyJob == [phase : {"append", "materialize", "save"}, delta : Delta,
             seen : ReplicaProgress, next : Nat \ {0}]

TypeOK ==
  /\ log \in [Replica -> Seq(SUBSET Op)]
  /\ progress \in [Replica -> [Replica -> ReplicaProgress]]
  /\ net \subseteq Delta
  /\ job \in [Worker -> {Idle} \cup BeginJob \cup SyncJob \cup ApplyJob]
  /\ failures \in 0 .. MaxFailures
  /\ resets \in 0 .. MaxResets

-------------------------------------------------------------------------------
(* The operations of a list of batches, and those durable at a replica.    *)
OpsOf(batches) == UNION {batches[i] : i \in 1 .. Len(batches)}

Known(r) == OpsOf(log[r])

(* A bug it could have: payloads are compared within one append only.      *)
CollidesInBatch(ops, known) == \E p \in Collide : p \subseteq ops

(* OpLog.add: an op_id is already taken by another payload.                *)
Collides(ops, known) ==
  \E p \in Collide : p \subseteq ops \cup known /\ p \cap ops # {}

(* materialize: two payloads for one entity id raise an error.             *)
Materializes(ops) == \A p \in Clash : ~ p \subseteq ops

(* read_after stops at the end of the stream or at the first batch end at  *)
(* which the page holds max_ops operations: a batch is never split.        *)
Between(r, from, to) == UNION {log[r][i] : i \in (from + 1) .. to}

PageSize(r, from, to) == Cardinality(Between(r, from, to))

IsPage(r, from, to, limit) ==
  /\ from <= to /\ to <= Len(log[r])
  /\ \A i \in (from + 1) .. (to - 1) : limit = 0 \/ PageSize(r, from, i) < limit
  /\ to < Len(log[r]) => /\ from < to
                         /\ limit # 0 /\ PageSize(r, from, to) >= limit

(* The slice of a stream between two cursors.                              *)
Slice(r, from, to) ==
  [sender |-> r, before |-> from, after |-> to,
   batches |-> [i \in 1 .. (to - from) |-> log[r][from + i]]]

(* A slice reduced to the operations asked for.  Batches left with nothing *)
(* are skipped by the code; here they stay, empty, and applying them       *)
(* changes nothing.                                                        *)
Select(delta, wanted) ==
  [delta EXCEPT !.batches = [i \in 1 .. Len(delta.batches) |-> delta.batches[i] \cap wanted]]

(* A bug append_many could have: a batch is stored as two.                 *)
ExtendedInParts(batches, ops) ==
  LET new == ops \ OpsOf(batches)
      op  == CHOOSE o \in new : TRUE
  IN  CASE new = {}             -> batches
        [] Cardinality(new) = 1 -> Append(batches, new)
        [] OTHER                -> batches \o <<{op}, new \ {op}>>

(* append_many: one atomic batch of the operations not yet stored.         *)
Extended(batches, ops) ==
  IF ops \subseteq OpsOf(batches) THEN batches ELSE Append(batches, ops \ OpsOf(batches))

-------------------------------------------------------------------------------
Init ==
  /\ log = [r \in Replica |-> <<>>]
  /\ progress = [r \in Replica |-> [p \in Replica |-> NoProgress]]
  /\ net = {}
  /\ job = [w \in Worker |-> Idle]
  /\ failures = 0
  /\ resets = 0

(* Memory.commit_batch: an application commits one logical event.          *)
Commit(r, event) ==
  /\ ~ Collides(event, Known(r))
  /\ ~ event \subseteq Known(r)
  /\ log' = [log EXCEPT ![r] = Extended(@, event)]
  /\ UNCHANGED <<progress, net, job, failures, resets>>

(* Memory.merge_from: the union of both logs, appended as one batch.  The  *)
(* other log was loaded earlier and may hold n of its batches only.        *)
MergeFrom(r, p, n) ==
  /\ ~ Between(p, 0, n) \subseteq Known(r)
  /\ ~ Collides(Between(p, 0, n), Known(r))
  /\ log' = [log EXCEPT ![r] = Extended(@, Between(p, 0, n))]
  /\ UNCHANGED <<progress, net, job, failures, resets>>

(* Memory.export_replica_delta, for any cursor the caller kept.            *)
Export(s, from, to, limit) ==
  /\ Cardinality(net) < MaxDeltas
  /\ IsPage(s, from, to, limit)
  /\ net' = net \cup {Slice(s, from, to)}
  /\ UNCHANGED <<log, progress, job, failures, resets>>

(* Memory.reset_replica_progress.                                          *)
ResetProgress(r, p) ==
  /\ resets < MaxResets
  /\ progress[r][p] # NoProgress
  /\ resets' = resets + 1
  /\ progress' = [progress EXCEPT ![r][p] = NoProgress]
  /\ UNCHANGED <<log, net, job, failures>>

-------------------------------------------------------------------------------
(* sync_from begins by reading its cursor in the peer's stream, which      *)
(* another worker may move before it is used.                              *)
SyncBegin(w, p) ==
  /\ job[w] = Idle
  /\ p # Host[w]
  /\ job' = [job EXCEPT ![w] = [phase |-> "manifest", peer |-> p,
                                from |-> progress[Host[w]][p].cursor]]
  /\ UNCHANGED <<log, progress, net, failures, resets>>

(* export_replica_manifest: the peer's stream from that cursor on.         *)
SyncManifest(w, to, limit) ==
  /\ job[w].phase = "manifest"
  /\ IsPage(job[w].peer, job[w].from, to, limit)
  /\ job' = [job EXCEPT ![w] = [phase |-> "filter", wanted |-> {},
                                manifest |-> Slice(@.peer, @.from, to)]]
  /\ UNCHANGED <<log, progress, net, failures, resets>>

(* find_ops: which of the listed operations the local store lacks;         *)
(* one stored under the same op_id with another digest is an error.        *)
SyncFilter(w) ==
  LET listed == OpsOf(job[w].manifest.batches)
      known  == Known(Host[w])
  IN  /\ job[w].phase = "filter"
      /\ job' = [job EXCEPT ![w] =
                   IF Collides(listed, known)
                   THEN Idle
                   ELSE [phase |-> "export", manifest |-> @.manifest, wanted |-> listed \ known]]
      /\ UNCHANGED <<log, progress, net, failures, resets>>

(* A bug it could have: the slice is read again without a page size.       *)
UnchangedWholeSuffix(manifest) ==
  \/ OpsOf(manifest.batches) = {}
  \/ /\ IsPage(manifest.sender, manifest.before, manifest.after, 0)
     /\ manifest = Slice(manifest.sender, manifest.before, manifest.after)

(* _export_manifest_delta reads the slice again, as a page of as many      *)
(* operations as the manifest lists, and refuses one that has changed.     *)
Unchanged(manifest) ==
  \/ OpsOf(manifest.batches) = {}
  \/ /\ IsPage(manifest.sender, manifest.before, manifest.after,
               Cardinality(OpsOf(manifest.batches)))
     /\ manifest = Slice(manifest.sender, manifest.before, manifest.after)

(* A bug it could have: the first batch is number 0.                       *)
ApplyingFromZero(w, delta) ==
  [phase |-> "append", delta |-> delta, seen |-> progress[Host[w]][delta.sender], next |-> 0]

Applying(w, delta) ==
  [phase |-> "append", delta |-> delta, seen |-> progress[Host[w]][delta.sender], next |-> 1]

(* Fetch the missing payloads and enter apply_replica_delta, which loads   *)
(* the progress record once more.  (What the fetch returns does not depend *)
(* on when it happens: see ManifestStable.)                                *)
SyncExport(w) ==
  /\ job[w].phase = "export"
  /\ job' = [job EXCEPT ![w] =
               IF Unchanged(@.manifest)
               THEN Applying(w, Select(@.manifest, @.wanted))
               ELSE Idle]
  /\ UNCHANGED <<log, progress, net, failures, resets>>

(* apply_replica_delta of a delta that arrived: load the progress record.  *)
ApplyBegin(w, delta) ==
  /\ job[w] = Idle
  /\ delta.sender # Host[w]
  /\ job' = [job EXCEPT ![w] = Applying(w, delta)]
  /\ UNCHANGED <<log, progress, net, failures, resets>>

(* The next batch, appended atomically; a collision aborts the call.       *)
ApplyAppend(w) ==
  LET r     == Host[w]
      i     == job[w].next
      batch == job[w].delta.batches[i]
  IN  /\ job[w].phase = "append"
      /\ i <= Len(job[w].delta.batches)
      /\ IF Collides(batch, Known(r))
         THEN /\ job' = [job EXCEPT ![w] = Idle]
              /\ UNCHANGED log
         ELSE /\ log' = [log EXCEPT ![r] = Extended(@, batch)]
              /\ job' = [job EXCEPT ![w].next = i + 1]
      /\ UNCHANGED <<progress, net, failures, resets>>

(* A bug it could have: progress is saved while batches are outstanding.   *)
ApplyAppendedEarly(w) ==
  /\ job[w].phase = "append"
  /\ job' = [job EXCEPT ![w].phase = "save"]
  /\ UNCHANGED <<log, progress, net, failures, resets>>

(* All batches are durable: materialise, unless the delta held nothing.    *)
ApplyAppended(w) ==
  /\ job[w].phase = "append"
  /\ job[w].next > Len(job[w].delta.batches)
  /\ job' = [job EXCEPT ![w].phase =
               IF OpsOf(job[w].delta.batches) = {} THEN "save" ELSE "materialize"]
  /\ UNCHANGED <<log, progress, net, failures, resets>>

(* Materialisation reads the whole store and raises on a clash.            *)
ApplyMaterialize(w) ==
  /\ job[w].phase = "materialize"
  /\ job' = [job EXCEPT ![w] =
               IF Materializes(Known(Host[w])) THEN [@ EXCEPT !.phase = "save"] ELSE Idle]
  /\ UNCHANGED <<log, progress, net, failures, resets>>

(* Advance the progress loaded at the start and overwrite the stored one.  *)
ApplySave(w) ==
  LET delta == job[w].delta
  IN  /\ job[w].phase = "save"
      /\ progress' = [progress EXCEPT ![Host[w]][delta.sender] =
                        Advance(job[w].seen, delta.before, delta.after)]
      /\ job' = [job EXCEPT ![w] = Idle]
      /\ UNCHANGED <<log, net, failures, resets>>

(* A crash of the process or a failed write ends the call where it stands; *)
(* what the store has committed stays.                                     *)
Fail(w) ==
  /\ job[w] # Idle
  /\ failures < MaxFailures
  /\ failures' = failures + 1
  /\ job' = [job EXCEPT ![w] = Idle]
  /\ UNCHANGED <<log, progress, net, resets>>

-------------------------------------------------------------------------------
Application ==
  \/ \E r \in Replica, event \in Event : Commit(r, event)
  \/ \E r, p \in Replica : \E n \in 1 .. Len(log[p]) : MergeFrom(r, p, n)
  \/ \E r, p \in Replica : ResetProgress(r, p)
  \/ \E s \in Replica, limit \in Limit : \E from, to \in 0 .. Len(log[s]) :
       Export(s, from, to, limit)

Manifest(w) ==
  /\ job[w].phase = "manifest"
  /\ \E limit \in Limit : \E to \in 0 .. Len(log[job[w].peer]) : SyncManifest(w, to, limit)

Sync(w) ==
  \/ \E p \in Replica : SyncBegin(w, p)
  \/ Manifest(w)
  \/ SyncFilter(w)
  \/ SyncExport(w)

Apply(w) ==
  \/ \E delta \in net : ApplyBegin(w, delta)
  \/ ApplyAppend(w)
  \/ ApplyAppended(w)
  \/ ApplyMaterialize(w)
  \/ ApplySave(w)

Next ==
  \/ Application
  \/ \E w \in Worker : Sync(w) \/ Apply(w) \/ Fail(w)

Spec == Init /\ [][Next]_vars

-------------------------------------------------------------------------------
(* Receive progress never runs ahead of durable data: every batch that r   *)
(* acknowledges from p's stream exists there and is stored whole at r,     *)
(* however deltas were lost, repeated, reordered or applied by two workers *)
(* at once, and wherever a call broke off (docs/replica-sync.md: a write   *)
(* failure cannot advance receive progress).                               *)
ProgressSound ==
  \A r, p \in Replica : \A i \in Covered(progress[r][p]) :
    i \in 1 .. Len(log[p]) /\ log[p][i] \subseteq Known(r)

(* A logical event that shares no operation with another one is visible at *)
(* every replica entirely or not at all, although pages cut the stream,    *)
(* sync filters out what is already known and workers fail between batches.*)
EventAtomic ==
  \A e \in Event :
    (\A f \in Event \ {e} : e \cap f = {}) =>
      \A r \in Replica : e \subseteq Known(r) \/ e \cap Known(r) = {}

(* Concurrent appliers, retries and merges store an operation once, and    *)
(* never two payloads under one op_id.                                     *)
StoredOnce ==
  \A r \in Replica :
    /\ \A i, j \in 1 .. Len(log[r]) : i # j => log[r][i] \cap log[r][j] = {}
    /\ \A i \in 1 .. Len(log[r]) : log[r][i] # {}
    /\ \A p \in Collide : ~ p \subseteq Known(r)

(* The peer may keep committing between the manifest and the payload read: *)
(* the second read still finds the page the manifest described, so         *)
(* sync_from never reports a changed stream.                               *)
ManifestStable == \A w \in Worker : job[w].phase = "export" => Unchanged(job[w].manifest)

(* The operations of p's stream that r has recorded as received.           *)
Acknowledged(r, p) == UNION {log[p][i] : i \in Covered(progress[r][p]) \cap 1 .. Len(log[p])}

(* docs/replica-sync.md:3-5: sync_from applies the operations, updates the *)
(* materialized state, and only then saves receive progress.  So what is   *)
(* recorded as received can be materialised.                               *)
AcknowledgedMaterializes == \A r, p \in Replica : Materializes(Acknowledged(r, p))

(* With one worker per replica, recorded progress is only ever lost to a   *)
(* reset: applying an old delta again never forgets a received batch.      *)
ProgressMonotone ==
  [][\A r, p \in Replica :
       Covered(progress[r][p]) \subseteq Covered(progress[r][p])' \/ resets' # resets]_vars

(* The promise of synchronisation: module OpSetReplication, with a log     *)
(* seen as the set of its operations and progress as what it covers.       *)
Promise == INSTANCE OpSetReplication WITH
             known <- [r \in Replica |-> Known(r)],
             acked <- [r \in Replica |-> [p \in Replica |-> Acknowledged(r, p)]]

KeepsPromise == Promise!Spec

-------------------------------------------------------------------------------
(* Fairness: the application keeps calling sync_from for every peer, as    *)
(* the drain loop of docs/replica-sync.md does, and a call that has begun  *)
(* runs on unless it fails.  Commits, merges, resets, exports, deltas      *)
(* applied by hand and failures are never forced.                          *)
Continue(w) ==
  \/ Manifest(w) \/ SyncFilter(w) \/ SyncExport(w)
  \/ ApplyAppend(w) \/ ApplyAppended(w) \/ ApplyMaterialize(w) \/ ApplySave(w)

FairSpec ==
  /\ Spec
  /\ \A w \in Worker : WF_vars(Continue(w))
  /\ \A w \in Worker, p \in Replica : SF_vars(SyncBegin(w, p))

(* Every operation reaches every replica that keeps pulling.               *)
Pulls(r) == \E w \in Worker : Host[w] = r

Convergence ==
  \A r, p \in Replica, o \in Op :
    Pulls(r) /\ p # r => (o \in Known(p) ~> o \in Known(r))

================================================================================
