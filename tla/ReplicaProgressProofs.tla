------------------------- MODULE ReplicaProgressProofs -------------------------
(***************************************************************************)
(* What advance_replica_progress guarantees for every progress record and  *)
(* every range.                                                            *)
(***************************************************************************)
EXTENDS ReplicaProgress, WellFoundedInduction, TLAPS

(* A run is made of batches of the ranges it was merged from.              *)
LEMMA MergedType ==
  ASSUME NEW R \in SUBSET CursorRange
  PROVE  /\ Merged(R) \in SUBSET CursorRange
         /\ Batches(Merged(R)) \subseteq Batches(R)
<1>1. Merged(R) \in SUBSET CursorRange
  BY DEF Merged, CursorRange
<1>2. ASSUME NEW i \in Batches(Merged(R))
      PROVE  i \in Batches(R)
  <2>1. PICK m \in Merged(R) : i \in (m[1] + 1) .. m[2]
    BY <1>2 DEF Batches
  <2>. QED  BY <2>1 DEF Merged
<1>. QED  BY <1>1, <1>2

(* The record stays one that ReplicaProgress accepts, for the code of      *)
(* advance_replica_progress that rebuilds it.                              *)
THEOREM AdvanceType ==
  ASSUME NEW p \in ReplicaProgress, NEW before \in Nat, NEW after \in Nat, before <= after
  PROVE  Advance(p, before, after) \in ReplicaProgress
<1>1. CASE before = after
  BY <1>1 DEF Advance
<1>2. CASE before # after
  <2> DEFINE R      == p.pending \cup {<<before, after>>}
             reach  == {m \in Merged(R) : m[1] <= p.cursor /\ p.cursor < m[2]}
             cursor == IF reach = {} THEN p.cursor ELSE (CHOOSE m \in reach : TRUE)[2]
             beyond == {m \in Merged(R) : m[1] > cursor}
  <2>1. R \in SUBSET CursorRange
    BY <1>2 DEF ReplicaProgress, CursorRange
  <2>2. beyond \in SUBSET CursorRange
    BY <2>1, MergedType
  <2>3. cursor \in Nat
    BY <2>1, MergedType DEF ReplicaProgress, CursorRange
  <2>4. Advance(p, before, after) = [cursor |-> cursor, pending |-> beyond]
    BY <1>2 DEF Advance
  <2> HIDE DEF cursor, beyond
  <2>. QED  BY <2>2, <2>3, <2>4 DEF ReplicaProgress
<1>. QED  BY <1>1, <1>2

(* Folding a range in acknowledges no batch that was not acknowledged      *)
(* before or covered by the range: advance_replica_progress never runs     *)
(* ahead of what was received.                                             *)
THEOREM AdvanceSound ==
  ASSUME NEW p \in ReplicaProgress, NEW before \in Nat, NEW after \in Nat, before <= after
  PROVE  Covered(Advance(p, before, after)) \subseteq Covered(p) \cup (before + 1) .. after
<1>1. CASE before = after
  BY <1>1 DEF Advance
<1>2. CASE before # after
  <2> DEFINE R      == p.pending \cup {<<before, after>>}
             reach  == {m \in Merged(R) : m[1] <= p.cursor /\ p.cursor < m[2]}
             cursor == IF reach = {} THEN p.cursor ELSE (CHOOSE m \in reach : TRUE)[2]
             beyond == {m \in Merged(R) : m[1] > cursor}
  <2>1. R \in SUBSET CursorRange
    BY <1>2 DEF ReplicaProgress, CursorRange
  <2>2. Batches(Merged(R)) \subseteq Batches(R)
    BY <2>1, MergedType
  <2>3. Batches(R) \subseteq Covered(p) \cup (before + 1) .. after
    BY DEF Covered, Batches
  <2>4. Batches(beyond) \subseteq Batches(Merged(R))
    BY DEF Batches
  <2>5. 1 .. cursor \subseteq Covered(p) \cup Batches(Merged(R))
    <3>1. CASE reach = {}
      BY <3>1 DEF Covered
    <3>2. CASE reach # {}
      <4>1. PICK m \in reach : cursor = m[2]
        BY <3>2
      <4>2. m \in CursorRange
        BY <2>1, MergedType
      <4>3. (m[1] + 1) .. m[2] \subseteq Batches(Merged(R))
        BY DEF Batches
      <4>4. 1 .. m[2] \subseteq (1 .. p.cursor) \cup (m[1] + 1) .. m[2]
        BY <4>2 DEF ReplicaProgress, CursorRange
      <4>. QED  BY <4>1, <4>3, <4>4 DEF Covered
    <3>. QED  BY <3>1, <3>2
  <2>6. Covered(Advance(p, before, after)) = (1 .. cursor) \cup Batches(beyond)
    BY <1>2 DEF Advance, Covered
  <2>. QED  BY <2>2, <2>3, <2>4, <2>5, <2>6
<1>. QED  BY <1>1, <1>2

(* A nonempty set of natural numbers has a least element.                  *)
LEMMA LeastElement ==
  ASSUME NEW T \in SUBSET Nat, T # {}
  PROVE  \E n \in T : \A m \in T : n <= m
<1> DEFINE R == OpToRel(<, Nat)
<1>1. \E n \in T : \A m \in T : <<m, n>> \notin R
  <2> HIDE DEF R
  <2>1. IsWellFoundedOn(R, Nat)
    BY NatLessThanWellFounded DEF R
  <2>. QED  BY <2>1, WFMin
<1>2. ASSUME NEW m \in Nat, NEW n \in Nat, <<m, n>> \notin R
      PROVE  n <= m
  BY <1>2 DEF OpToRel
<1> HIDE DEF R
<1>. QED  BY <1>1, <1>2

(* In a bounded set of ranges every batch lies in a run.                   *)
LEMMA MergedComplete ==
  ASSUME NEW R \in SUBSET CursorRange, NEW N \in Nat, \A r \in R : r[2] <= N
  PROVE  Batches(R) \subseteq Batches(Merged(R))
<1> SUFFICES ASSUME NEW k \in Batches(R) PROVE k \in Batches(Merged(R))
  OBVIOUS
<1> DEFINE C == Batches(R)
<1>1. C \subseteq 1 .. N /\ C \subseteq Nat
  BY DEF Batches, CursorRange
<1>2. PICK a \in Nat : /\ a + 1 <= k /\ (a + 1) .. k \subseteq C
                       /\ \A s \in Nat : s + 1 <= k /\ (s + 1) .. k \subseteq C => a <= s
  <2> DEFINE T == {s \in Nat : s + 1 <= k /\ (s + 1) .. k \subseteq C}
  <2>1. k - 1 \in T
    BY <1>1
  <2>2. PICK a \in T : \A s \in T : a <= s
    BY <2>1, LeastElement
  <2>. QED  BY <2>2
<1>3. a \notin C
  <2>1. SUFFICES ASSUME a \in C PROVE FALSE
    OBVIOUS
  <2>2. a - 1 \in Nat /\ a .. k \subseteq C /\ (a - 1) + 1 = a /\ a <= k
    BY <1>1, <1>2, <2>1
  <2>3. a <= a - 1
    BY <1>2, <2>2
  <2>. QED  BY <2>2, <2>3
<1>4. PICK e \in Nat : /\ k <= e /\ e + 1 \notin C
                       /\ \A t \in Nat : k <= t /\ t + 1 \notin C => e <= t
  <2> DEFINE T == {t \in Nat : k <= t /\ t + 1 \notin C}
  <2>1. N \in T
    BY <1>1
  <2>2. PICK e \in T : \A t \in T : e <= t
    BY <2>1, LeastElement
  <2>. QED  BY <2>2
<1>5. (a + 1) .. e \subseteq C
  <2>1. SUFFICES ASSUME NEW j \in (a + 1) .. e, j \notin C PROVE FALSE
    OBVIOUS
  <2>2. k < j
    BY <1>1, <1>2, <2>1
  <2>3. j - 1 \in Nat /\ k <= j - 1 /\ (j - 1) + 1 \notin C
    BY <1>1, <2>1, <2>2
  <2>. QED  BY <1>4, <2>1, <2>3
<1>6. \E r \in R : r[1] = a
  <2>1. PICK r \in R : a + 1 \in (r[1] + 1) .. r[2]
    BY <1>1, <1>2 DEF Batches
  <2>2. r[1] \in Nat /\ r[2] \in Nat
    BY DEF CursorRange
  <2>3. r[1] # a => a \in (r[1] + 1) .. r[2]
    BY <2>1, <2>2
  <2>. QED  BY <1>3, <2>3 DEF Batches
<1>7. \E r \in R : r[2] = e
  <2>1. e \in C
    BY <1>1, <1>2, <1>4, <1>5
  <2>2. PICK r \in R : e \in (r[1] + 1) .. r[2]
    BY <2>1 DEF Batches
  <2>3. r[1] \in Nat /\ r[2] \in Nat
    BY DEF CursorRange
  <2>4. r[2] # e => e + 1 \in (r[1] + 1) .. r[2]
    BY <2>2, <2>3
  <2>. QED  BY <1>4, <2>4 DEF Batches
<1>8. <<a, e>> \in Merged(R)
  <2>1. <<a, e>> \in {r[1] : r \in R} \X {r[2] : r \in R}
    BY <1>6, <1>7
  <2>. QED  BY <1>1, <1>2, <1>3, <1>4, <1>5, <2>1 DEF Merged
<1>. QED
  <2>1. k \in (a + 1) .. e
    BY <1>1, <1>2, <1>4
  <2>. QED  BY <1>8, <2>1 DEF Batches

(* Folding a range in forgets nothing: every batch acknowledged before and *)
(* every batch of the range is acknowledged afterwards, although           *)
(* advance_replica_progress drops the ranges the cursor has passed.        *)
THEOREM AdvanceKeeps ==
  ASSUME NEW p \in ReplicaProgress, NEW before \in Nat, NEW after \in Nat, before <= after,
         NEW N \in Nat, after <= N, \A r \in p.pending : r[2] <= N
  PROVE  Covered(p) \cup (before + 1) .. after \subseteq Covered(Advance(p, before, after))
<1>1. CASE before = after
  BY <1>1 DEF Advance
<1>2. CASE before # after
  <2> DEFINE R      == p.pending \cup {<<before, after>>}
             reach  == {m \in Merged(R) : m[1] <= p.cursor /\ p.cursor < m[2]}
             cursor == IF reach = {} THEN p.cursor ELSE (CHOOSE m \in reach : TRUE)[2]
             beyond == {m \in Merged(R) : m[1] > cursor}
  <2>1. R \in SUBSET CursorRange /\ \A r \in R : r[2] <= N
    BY <1>2 DEF ReplicaProgress, CursorRange
  <2>2. Merged(R) \in SUBSET CursorRange
    BY <2>1, MergedType
  <2>3. Batches(R) \subseteq Batches(Merged(R))
    BY <2>1, MergedComplete
  <2>4. cursor \in Nat /\ p.cursor <= cursor
    BY <2>2 DEF ReplicaProgress, CursorRange
  <2>5. ASSUME NEW m \in Merged(R)
        PROVE  m[2] <= cursor \/ m[1] > cursor
    <3>1. m \in CursorRange /\ m[1] \in Nat /\ m[2] \in Nat
      BY <2>2 DEF CursorRange
    <3>2. CASE reach = {}
      <4>1. ~ (m[1] <= p.cursor /\ p.cursor < m[2])
        BY <3>2
      <4>2. cursor = p.cursor
        BY <3>2
      <4> HIDE DEF cursor
      <4>. QED  BY <2>4, <3>1, <4>1, <4>2
    <3>3. CASE reach # {}
      <4>1. PICK h \in reach : cursor = h[2]
        BY <3>3
      <4>2. h[1] \in Nat /\ h[2] \in Nat /\ h \in Merged(R)
        BY <2>2 DEF CursorRange
      <4>3. h[2] + 1 \notin Batches(R)
        BY <4>2 DEF Merged
      <4>4. (m[1] + 1) .. m[2] \subseteq Batches(R)
        BY DEF Merged
      <4> HIDE DEF cursor, reach
      <4>5. ~ (h[2] + 1 \in (m[1] + 1) .. m[2])
        BY <4>3, <4>4
      <4>. QED  BY <3>1, <4>1, <4>2, <4>5
    <3>. QED  BY <3>2, <3>3
  <2>6. Covered(Advance(p, before, after)) = (1 .. cursor) \cup Batches(beyond)
    BY <1>2 DEF Advance, Covered
  <2>7. Batches(Merged(R)) \subseteq (1 .. cursor) \cup Batches(beyond)
    <3>1. SUFFICES ASSUME NEW m \in Merged(R), NEW i \in (m[1] + 1) .. m[2]
                   PROVE  i \in (1 .. cursor) \cup Batches(beyond)
      BY DEF Batches
    <3>2. m[1] \in Nat /\ m[2] \in Nat
      BY <2>2 DEF CursorRange
    <3>3. m[1] > cursor => i \in Batches(beyond)
      BY <3>1 DEF Batches
    <3>4. m[2] <= cursor => i \in 1 .. cursor
      <4> HIDE DEF cursor
      <4>. QED  BY <2>4, <3>1, <3>2
    <3>. QED  BY <2>5, <3>3, <3>4
  <2>8. Covered(p) \cup (before + 1) .. after \subseteq (1 .. cursor) \cup Batches(R)
    <3>1. 1 .. p.cursor \subseteq 1 .. cursor
      <4> HIDE DEF cursor
      <4>. QED  BY <2>4 DEF ReplicaProgress
    <3>2. Batches(p.pending) \cup (before + 1) .. after \subseteq Batches(R)
      BY DEF Batches
    <3>. QED  BY <3>1, <3>2 DEF Covered
  <2> HIDE DEF cursor, beyond
  <2>. QED  BY <2>3, <2>6, <2>7, <2>8
<1>. QED  BY <1>1, <1>2

================================================================================
