------------------------------ MODULE ProgressLoop ------------------------------
(***************************************************************************)
(* advance_replica_progress as the code computes it, one recursive         *)
(* function per loop over the sorted ranges, compared for every record and *)
(* every range with the set form of module ReplicaProgress that            *)
(* ReplicaSync uses.  What is compared is stated in CompactedPeer.         *)
(***************************************************************************)
EXTENDS ReplicaProgress, FiniteSets, SequencesExt

CONSTANTS
  MaxCursor,       \* bound on the cursors a peer hands out
  MaxPending       \* bound on the pending ranges of a stored record

ASSUME MaxCursorAssumption == MaxCursor \in Nat \ {0} /\ MaxPending \in Nat

Ranges == {r \in (0 .. MaxCursor) \X (0 .. MaxCursor) : r[1] < r[2]}

(* sorted(ranges): pairs compare by start, then by end.                    *)
Before(r, s) == r[1] < s[1] \/ (r[1] = s[1] /\ r[2] < s[2])
Sorted(R) ==
  [i \in 1 .. Cardinality(R) |-> CHOOSE r \in R : Cardinality({s \in R : Before(s, r)}) = i - 1]

(* One round of the merging loop.  Bugs it could have: ranges that only    *)
(* touch stay apart; the last end replaces the largest one.                *)
Widened(merged, end) == Append(Front(merged), <<Last(merged)[1], end>>)

AbsorbOverlapping(merged, r) ==
  IF merged # <<>> /\ r[1] < Last(merged)[2]
  THEN Widened(merged, IF r[2] > Last(merged)[2] THEN r[2] ELSE Last(merged)[2])
  ELSE Append(merged, r)

AbsorbToLastEnd(merged, r) ==
  IF merged # <<>> /\ r[1] <= Last(merged)[2] THEN Widened(merged, r[2]) ELSE Append(merged, r)

Absorb(merged, r) ==
  IF merged # <<>> /\ r[1] <= Last(merged)[2]
  THEN Widened(merged, IF r[2] > Last(merged)[2] THEN r[2] ELSE Last(merged)[2])
  ELSE Append(merged, r)

MergeLoop(R) ==
  LET runs == Sorted(R)
      merged[i \in 0 .. Len(runs)] == IF i = 0 THEN <<>> ELSE Absorb(merged[i - 1], runs[i])
  IN merged[Len(runs)]

(* One round of the placing loop.  A bug it could have: a run that starts  *)
(* exactly at the cursor stays pending.                                    *)
PlacePastStart(acc, r) ==
  IF r[1] < acc.cursor
  THEN [acc EXCEPT !.cursor = IF r[2] > @ THEN r[2] ELSE @]
  ELSE [acc EXCEPT !.pending = @ \cup {r}]

Place(acc, r) ==
  IF r[1] <= acc.cursor
  THEN [acc EXCEPT !.cursor = IF r[2] > @ THEN r[2] ELSE @]
  ELSE IF r[2] > acc.cursor THEN [acc EXCEPT !.pending = @ \cup {r}] ELSE acc

PlaceLoop(p, runs) ==
  LET placed[i \in 0 .. Len(runs)] ==
        IF i = 0 THEN [cursor |-> p.cursor, pending |-> {}] ELSE Place(placed[i - 1], runs[i])
  IN placed[Len(runs)]

AdvanceLoop(p, before, after) ==
  IF before = after THEN p ELSE PlaceLoop(p, MergeLoop(p.pending \cup {<<before, after>>}))

-------------------------------------------------------------------------------
(* A store may hold any record its validation accepts: pending ranges that *)
(* overlap, touch or lie below the cursor included.                        *)
Records ==
  [cursor : 0 .. MaxCursor, pending : {R \in SUBSET Ranges : Cardinality(R) <= MaxPending}]

Arrivals == {r \in (0 .. MaxCursor) \X (0 .. MaxCursor) : r[1] <= r[2]}

Cases == {<<p, r>> : p \in Records, r \in Arrivals}

Result == [c \in Cases |-> AdvanceLoop(c[1], c[2][1], c[2][2])]

Differing == {c \in Cases : Result[c] # Advance(c[1], c[2][1], c[2][2])}

Misaccounted ==
  {c \in Cases : Covered(Result[c]) # Covered(c[1]) \cup (c[2][1] + 1) .. c[2][2]}

(* Is the next batch, or one next to a pending range, not missing at all?  *)
Stuck(q) ==
  ({q.cursor + 1} \cup UNION {{r[1], r[2] + 1} : r \in q.pending}) \cap Covered(q) # {}

Stalled == {q \in {Result[c] : c \in {d \in Cases : d[2] \in Ranges}} : Stuck(q)}
================================================================================
