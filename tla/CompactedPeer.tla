------------------------------ MODULE CompactedPeer ------------------------------
(***************************************************************************)
(* A peer whose log is compacted into a new store, and a receiver that     *)
(* goes on synchronising with it: memory.py and replica.py over the        *)
(* in-memory store, whose cursors count operations.                        *)
(*                                                                         *)
(* A delta that was exported stays in transit and may be applied at any    *)
(* later time, any number of times.  sync_from, whose two exports see the  *)
(* same log here, is one step; ReplicaSync has its steps one by one.  The  *)
(* registry has one revision.                                              *)
(***************************************************************************)
EXTENDS Compaction, ProgressLoop, CheckedMerge

CONSTANTS
  Registry,       \* the revision of the predicate registry
  Beginnings,     \* logs that the peer has at first
  Event,          \* batches that it may commit later
  MaxOps,         \* bound on the operations of a log
  MaxTransit,     \* bound on the deltas that were exported
  MaxCompactions  \* bound on the compactions

(* A log holds its operations in order; committed batches end at its ends. *)
Streams ==
  {s \in [ops : Seq(Op), ends : SUBSET Nat] :
     /\ Len(s.ops) <= MaxOps /\ s.ends \subseteq 1 .. Len(s.ops)
     /\ s.ops # <<>> => Len(s.ops) \in s.ends}

ASSUME PeerAssumption ==
  /\ Registry \in Revision
  /\ Beginnings \subseteq Streams
  /\ \A event \in Event : event \subseteq Op /\ IsFiniteSet(event)
  /\ MaxOps \in 0 .. MaxCursor /\ MaxTransit \in Nat /\ MaxCompactions \in Nat

VARIABLES
  stream,       \* the peer's log: its operations in order and where batches end
  compactions,  \* how often it was compacted: a cursor is of one of its logs
  net,          \* the deltas that were exported
  known,        \* the operations of the receiver
  receipt,      \* its receive progress for the peer
  held,         \* every operation the peer ever held
  continuous    \* is that progress about the present log only?

vars == <<stream, compactions, net, known, receipt, held, continuous>>

Batch(ops) == SetToSeq(ops)

(* append_many.                                                            *)
Appended(s, ops) ==
  LET fresh == ops \ ToSet(s.ops)
  IN IF fresh = {} THEN s
     ELSE [ops |-> s.ops \o Batch(fresh), ends |-> s.ends \cup {Len(s.ops) + Cardinality(fresh)}]

Init ==
  /\ stream \in Beginnings
  /\ compactions = 0 /\ net = {}
  /\ known = {} /\ receipt = NoProgress
  /\ held = ToSet(stream.ops) /\ continuous = TRUE

(* read_after: refused beyond the end and inside a batch; with a limit, as *)
(* few whole batches as reach it.                                          *)
Readable(cursor) == cursor = 0 \/ cursor \in stream.ends

ReadTo(cursor, limit) ==
  LET later == {e \in stream.ends : e > cursor}
      enough == {e \in later : e - cursor >= limit}
  IN CASE later = {} -> cursor
       [] later # {} /\ enough = {} -> Max(later)
       [] OTHER -> Min(enough)

Slice(cursor, limit) ==
  [log |-> compactions, before |-> cursor, after |-> ReadTo(cursor, limit),
   ops |-> ToSet(SubSeq(stream.ops, cursor + 1, ReadTo(cursor, limit)))]

-------------------------------------------------------------------------------
(* add_claim and the like, commit_batch.                                   *)
Commit(event) ==
  /\ event \cap held = {}
  /\ Len(stream.ops) + Cardinality(event) <= MaxOps
  /\ stream' = Appended(stream, event)
  /\ held' = held \cup event
  /\ UNCHANGED <<compactions, net, known, receipt, continuous>>

(* export_replica_delta of what follows the receiver's cursor.             *)
Export(limit) ==
  /\ Readable(receipt.cursor) /\ Cardinality(net) < MaxTransit
  /\ net' = net \cup {Slice(receipt.cursor, limit)}
  /\ UNCHANGED <<stream, compactions, known, receipt, held, continuous>>

(* apply_replica_delta.                                                    *)
Received(d) ==
  /\ known' = known \cup d.ops
  /\ receipt' = AdvanceLoop(receipt, d.before, d.after)

Apply(d) ==
  /\ Received(d)
  /\ continuous' = (continuous /\ (d.log = compactions \/ d.before = d.after))
  /\ UNCHANGED <<stream, compactions, net, held>>

(* sync_from raises when the peer cannot read after the cursor.            *)
Sync(limit) ==
  /\ Readable(receipt.cursor)
  /\ Received(Slice(receipt.cursor, limit))
  /\ UNCHANGED <<stream, compactions, net, held, continuous>>

(* compact_oplog into a new store, as one batch (merge_from) or operation  *)
(* by operation.  A bug it could have: batches end where they ended.       *)
CompactInPlace(together) ==
  LET kept == Batch(Compacted(ToSet(stream.ops), Registry))
  IN /\ compactions < MaxCompactions
     /\ compactions' = compactions + 1
     /\ stream' = [stream EXCEPT !.ops = kept]
     /\ continuous' = (receipt = NoProgress)
     /\ UNCHANGED <<net, known, receipt, held>>

Compact(together) ==
  LET kept == Batch(Compacted(ToSet(stream.ops), Registry))
  IN /\ compactions < MaxCompactions
     /\ compactions' = compactions + 1
     /\ stream' = [ops |-> kept,
                   ends |-> IF together THEN {Len(kept)} \ {0} ELSE 1 .. Len(kept)]
     /\ continuous' = (receipt = NoProgress)
     /\ UNCHANGED <<net, known, receipt, held>>

(* reset_replica_progress.  A bug it could have: pending ranges stay.      *)
ResetCursorOnly ==
  /\ receipt' = [receipt EXCEPT !.cursor = 0]
  /\ continuous' = TRUE
  /\ UNCHANGED <<stream, compactions, net, known, held>>

Reset ==
  /\ receipt' = NoProgress
  /\ continuous' = TRUE
  /\ UNCHANGED <<stream, compactions, net, known, held>>

(* merge_from the peer's store, the repair path; progress stays.  An       *)
(* operation is its own id.                                                *)
LogOf(ops) == [o \in ops |-> o]

MergeFrom ==
  /\ CanMerge(LogOf(known), LogOf(ToSet(stream.ops)))
  /\ known' = DOMAIN Union(LogOf(known), LogOf(ToSet(stream.ops)))
  /\ UNCHANGED <<stream, compactions, net, receipt, held, continuous>>

Next ==
  \/ \E event \in Event : Commit(event)
  \/ \E limit \in 1 .. MaxOps : Export(limit)
  \/ \E d \in net : Apply(d)
  \/ \E limit \in 1 .. MaxOps : Sync(limit)
  \/ \E together \in BOOLEAN : Compact(together)
  \/ Reset
  \/ MergeFrom

Spec == Init /\ [][Next]_vars

-------------------------------------------------------------------------------
(* Types of all variables; positions are those of the logs there were.     *)
TypeOK ==
  /\ stream \in Streams
  /\ compactions \in 0 .. MaxCompactions
  /\ \A d \in net : d.log <= compactions /\ d.before <= d.after /\ d.ops \subseteq held
  /\ known \subseteq held
  /\ receipt.cursor \in 0 .. MaxCursor /\ receipt.pending \subseteq Ranges
  /\ continuous \in BOOLEAN

(* A compacted log shows what the whole one shows, though the peer went on *)
(* writing, retracting and deciding after it and compacted again: the same *)
(* active claims, conflicts, resolutions and views, in every scope.  The   *)
(* sources of a conflict are those of the evidence that is left.           *)
CompactionUnnoticed ==
  LET present == ToSet(stream.ops)
  IN /\ Seen(present, Registry) = Seen(held, Registry)
     /\ \A k \in Key : SourcesSeen(present, Registry)[k] \subseteq SourcesSeen(held, Registry)[k]

(* A receiver that was reset after the compaction, and got nothing of the  *)
(* old log since, has every operation it acknowledges; once it is caught   *)
(* up, it shows what the peer shows, whatever it kept of the old log.      *)
SoundSinceReset ==
  continuous =>
    /\ \A i \in Covered(receipt) : i \in DOMAIN stream.ops /\ stream.ops[i] \in known
    /\ receipt.cursor = Len(stream.ops) => Seen(known, Registry) = Seen(held, Registry)

(* The two loops of advance_replica_progress compute the maximal runs and  *)
(* the cursor that the set form Advance defines, whatever record is stored *)
(* and whatever range arrives next; every record there was is among those  *)
(* that were tried.                                                        *)
LoopComputesRuns == Differing = {} /\ receipt \in Records

(* Folding a range into the cursor or into its neighbours neither loses a  *)
(* batch that was received nor acknowledges one that was not: for any      *)
(* record and range, and for the deltas that are on their way.             *)
NothingLostOrInvented ==
  /\ Misaccounted = {}
  /\ \A d \in net : Covered(AdvanceLoop(receipt, d.before, d.after))
                      = Covered(receipt) \cup (d.before + 1) .. d.after

(* Once a range has been folded in, the batch after the cursor and the     *)
(* batches around every pending range are missing: no arrival that closes  *)
(* a gap can leave the cursor behind it.                                   *)
CursorStopsAtGap == Stalled = {} /\ ~ Stuck(receipt)

(* Merging the same logs in another order gives the same log, up to ids    *)
(* that two of the others use for different operations: what is kept out   *)
(* does not depend on what came first, and no operation that a log had is  *)
(* ever replaced.  The logs of the peer and of the receiver, compacted or  *)
(* not, never keep each other's operations out.                            *)
MergesAgree ==
  /\ Disagreeing = {} /\ Misreported = {}
  /\ LogOf(known \cup ToSet(stream.ops)) = MergeChecked(LogOf(known), LogOf(ToSet(stream.ops))).merged
===============================================================================
