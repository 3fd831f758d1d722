---------------------------- MODULE ReplicaProgress ----------------------------
(***************************************************************************)
(* Receive progress for one peer's append-only stream (replica.py): a      *)
(* contiguous cursor and the half-open ranges received beyond a gap.       *)
(*                                                                         *)
(* A stream position is the number of committed batches before it: the     *)
(* byte offsets, row ids and list lengths the stores hand out as cursors   *)
(* are only ever batch boundaries, and these are ordered the same way.     *)
(* The range <<b, e>> holds the batches b+1 .. e.                          *)
(***************************************************************************)
EXTENDS Integers

CursorRange == {r \in Nat \X Nat : r[1] < r[2]}

ReplicaProgress == [cursor : Nat, pending : SUBSET CursorRange]

NoProgress == [cursor |-> 0, pending |-> {}]

(* The batches of the ranges R, and those a progress record acknowledges.  *)
Batches(R) == UNION {(r[1] + 1) .. r[2] : r \in R}

Covered(progress) == (1 .. progress.cursor) \cup Batches(progress.pending)

(***************************************************************************)
(* Sorting the ranges and folding each into its predecessor when they      *)
(* overlap or touch leaves the maximal runs of covered batches.            *)
(***************************************************************************)
Merged(R) ==
  {m \in {r[1] : r \in R} \X {r[2] : r \in R} :
     /\ m[1] < m[2]
     /\ (m[1] + 1) .. m[2] \subseteq Batches(R)
     /\ m[1] \notin Batches(R)
     /\ m[2] + 1 \notin Batches(R)}

(* Bugs that advance_replica_progress could have: the last range to arrive *)
(* overwrites the cursor; a range beyond a gap moves it too; a range that  *)
(* starts exactly at the cursor does not.                                  *)
AdvanceOverwrites(progress, before, after) ==
  [cursor |-> after, pending |-> progress.pending]

AdvanceOverGap(progress, before, after) ==
  [progress EXCEPT !.cursor = IF after > @ THEN after ELSE @]

AdvanceIfOverlapping(progress, before, after) ==
  IF before < progress.cursor /\ progress.cursor < after
  THEN [progress EXCEPT !.cursor = after]
  ELSE [progress EXCEPT !.pending = Merged(@ \cup {<<before, after>>})]

(* advance_replica_progress: the run that reaches the cursor moves it to   *)
(* that run's end, and the runs beyond the cursor stay pending.            *)
Advance(progress, before, after) ==
  IF before = after
  THEN progress
  ELSE LET runs   == Merged(progress.pending \cup {<<before, after>>})
           reach  == {m \in runs : m[1] <= progress.cursor /\ progress.cursor < m[2]}
           cursor == IF reach = {} THEN progress.cursor ELSE (CHOOSE m \in reach : TRUE)[2]
       IN  [cursor |-> cursor, pending |-> {m \in runs : m[1] > cursor}]

================================================================================
