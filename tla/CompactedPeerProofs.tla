-------------------------- MODULE CompactedPeerProofs --------------------------
(***************************************************************************)
(* Merging does not depend on the order of the logs, the loops that fold a *)
(* range into the receive progress compute its maximal runs, and a peer    *)
(* that compacts its log keeps showing what it showed, to itself and to a  *)
(* receiver that starts over: for any claims, operations and bounds.       *)
(***************************************************************************)
EXTENDS CompactedPeer, DetectionProofs, ReplicaProgressProofs, SequenceTheorems

-------------------------------------------------------------------------------
(* Merging with quarantine. *)

(* merge_checked keeps all of the log and what the policy accepts of the   *)
(* incoming one.                                                           *)
LEMMA MergedIsUnion ==
  ASSUME NEW a, NEW b, NEW policy
  PROVE  MergeAuthenticated(a, b, policy).merged = Union(a, Accepted(b, policy))
BY DEF MergeAuthenticated, MergeChecked

(* merge_checked_authenticated: two logs that come in after one another    *)
(* leave the same log in either order, up to ids that both use for         *)
(* different operations; and no operation that was there is replaced.      *)
THEOREM MergeOrderIrrelevant == Disagreeing = {}
<1>1. SUFFICES ASSUME NEW a \in Logs, NEW b \in Logs, NEW c \in Logs, NEW p \in Policy
               PROVE  LET one == InTurn(a, b, c, p)
                          other == InTurn(a, c, b, p)
                          settled == Id \ Collisions(Accepted(b, p), Accepted(c, p))
                      IN /\ DOMAIN one = DOMAIN other
                         /\ Part(one, settled) = Part(other, settled)
                         /\ Part(one, DOMAIN a) = a
  BY DEF Disagreeing, Triples, Settled
<1>. DEFINE B == Accepted(b, p)
            C == Accepted(c, p)
            settled == Id \ Collisions(B, C)
<1>2. InTurn(a, b, c, p) = Union(Union(a, B), C) /\ InTurn(a, c, b, p) = Union(Union(a, C), B)
  BY MergedIsUnion DEF InTurn
<1>3. DOMAIN a \subseteq Id /\ a = [i \in DOMAIN a |-> a[i]]
  BY DEF Logs
<1>. HIDE DEF B, C
<1>. DEFINE one == Union(Union(a, B), C)
            other == Union(Union(a, C), B)
            ids == DOMAIN a \cup DOMAIN B \cup DOMAIN C
<1>4. one = [i \in ids |-> IF i \in DOMAIN a THEN a[i] ELSE IF i \in DOMAIN B THEN B[i] ELSE C[i]]
  BY DEF Union
<1>5. other = [i \in ids |-> IF i \in DOMAIN a THEN a[i] ELSE IF i \in DOMAIN C THEN C[i] ELSE B[i]]
  BY DEF Union
<1>6. \A i \in ids \cap settled : one[i] = other[i]
  BY <1>4, <1>5 DEF Collisions
<1>7. DOMAIN one = ids /\ DOMAIN other = ids
  BY <1>4, <1>5
<1>8. \A i \in DOMAIN a : one[i] = a[i]
  BY <1>4
<1>9. DOMAIN one \cap DOMAIN a = DOMAIN a
  BY <1>7
<1>. HIDE DEF one, other, ids
<1>10. Part(one, settled) = Part(other, settled)
  BY <1>6, <1>7 DEF Part
<1>11. Part(one, DOMAIN a) = a
  BY <1>3, <1>8, <1>9 DEF Part
<1>. QED  BY <1>2, <1>7, <1>10, <1>11 DEF B, C, one, other

(* merge raises exactly when merge_checked would quarantine, which is when *)
(* the direction matters; and the report of merge_checked names every      *)
(* incoming id exactly once.                                               *)
THEOREM ReportsComplete == Misreported = {}
<1>1. SUFFICES ASSUME NEW ab \in Logs \X Logs, ab \in Misreported PROVE FALSE
  BY DEF Misreported
<1>. DEFINE a == ab[1]
            b == ab[2]
            r == MergeChecked(a, b)
            rr == MergeChecked(b, a)
<1>2. ASSUME CanMerge(a, b) PROVE Union(a, b) = Union(b, a)
  BY <1>2 DEF CanMerge, Collisions, Union
<1>3. ASSUME Union(a, b) = Union(b, a), NEW i \in DOMAIN a \cap DOMAIN b PROVE a[i] = b[i]
  <2>1. Union(a, b)[i] = a[i] /\ Union(b, a)[i] = b[i]
    BY <1>3 DEF Union
  <2>. QED  BY <1>3, <2>1
<1>4. CanMerge(a, b) <=> Union(a, b) = Union(b, a)
  BY <1>2, <1>3 DEF CanMerge, Collisions
<1>5. /\ r.merged = Union(a, b) /\ rr.merged = Union(b, a)
      /\ r.added = DOMAIN b \ DOMAIN a /\ r.quarantined = Collisions(a, b)
      /\ r.duplicate = (DOMAIN a \cap DOMAIN b) \ Collisions(a, b)
  BY DEF MergeChecked
<1>6. Collisions(a, b) \subseteq DOMAIN a \cap DOMAIN b /\ CanMerge(a, b) \in BOOLEAN
  BY DEF Collisions, CanMerge
<1>7. \/ CanMerge(a, b) # (r.merged = rr.merged)
      \/ CanMerge(a, b) # (r.quarantined = {})
      \/ r.added \cup r.duplicate \cup r.quarantined # DOMAIN b
      \/ r.added \cap (r.duplicate \cup r.quarantined) # {}
  BY <1>1 DEF Misreported
<1>8. CanMerge(a, b) <=> r.quarantined = {}
  BY <1>5 DEF CanMerge
<1>9. CanMerge(a, b) <=> r.merged = rr.merged
  BY <1>4, <1>5
<1>10. DOMAIN b = r.added \cup r.duplicate \cup r.quarantined
  BY <1>5, <1>6
<1>11. r.added \cap (r.duplicate \cup r.quarantined) = {}
  BY <1>5, <1>6
<1>. HIDE DEF a, b, r, rr
<1>. QED  BY <1>6, <1>7, <1>8, <1>9, <1>10, <1>11

-------------------------------------------------------------------------------
(* What a part of a log shows. *)

Dead(ops, rev, c) ==
  \/ c \in {o.target : o \in Of(ops, "retraction")} \ {None}
  \/ RefOf[rev][c] \in {o.ref : o \in Of(ops, "retraction")} \ {None}

(* A part that has all but evidence and claims that the whole retracts.    *)
Keeps(part, all, rev) ==
  /\ part \subseteq all
  /\ \A o \in all \ part :
       \/ o.kind = "evidence"
       \/ o.kind = "claim" /\ Dead(all, rev, o.claim)

ActiveIn(ops, rev) ==
  [k \in Key |-> {c \in {o.claim : o \in Of(ops, "claim")} : ~ Dead(ops, rev, c) /\ KeyOf[c] = k}]

WhoIn(ops, rev, k) == UNION {p \in Apart[rev] : p \subseteq ActiveIn(ops, rev)[k]}

EvidenceIn(ops) == {o.evidence : o \in Of(ops, "evidence")}
SourcesIn(ops) == {o.source : o \in Of(ops, "source")}

(* What a materialisation in full shows, told by the operators of this     *)
(* module.                                                                 *)
LEMMA FullShows ==
  ASSUME NEW ops, NEW rev
  PROVE  LET s == Full(ops, rev)
         IN /\ s.active = ActiveIn(ops, rev)
            /\ s.resolutions = Of(ops, "resolution") /\ s.events = Of(ops, "event")
            /\ \A k \in Key :
                 /\ s.conflict[k].who = WhoIn(ops, rev, k)
                 /\ s.conflict[k].sources
                      = Provenance(WhoIn(ops, rev, k), EvidenceIn(ops), SourcesIn(ops))
            /\ s.lane = [l \in Lane |-> LaneState(l, Of(ops, "resolution"), Of(ops, "event"),
                                                 s.conflict[l[1]].who)]
<1>. DEFINE s == Full(ops, rev)
            claims == {o.claim : o \in Of(ops, "claim")}
            byId == {o.target : o \in Of(ops, "retraction")} \ {None}
            byRef == {o.ref : o \in Of(ops, "retraction")} \ {None}
            inactive == byId \cup {c \in claims : RefOf[rev][c] \in byRef}
            active == [k \in Key |-> {c \in claims \ inactive : KeyOf[c] = k}]
            conflict == [k \in Key |-> Conflict({p \in Apart[rev] : p \subseteq active[k]},
                                               EvidenceIn(ops), SourcesIn(ops))]
<1>1. /\ s.active = active /\ s.conflict = conflict
      /\ s.resolutions = Of(ops, "resolution") /\ s.events = Of(ops, "event")
      /\ s.lane = Lanes(Of(ops, "resolution"), Of(ops, "event"), conflict)
  BY DEF Full, EvidenceIn, SourcesIn
<1>2. active = ActiveIn(ops, rev)
  BY DEF ActiveIn, Dead
<1>. HIDE DEF s, active
<1>3. \A k \in Key : /\ conflict[k].who = WhoIn(ops, rev, k)
                      /\ conflict[k].sources
                           = Provenance(WhoIn(ops, rev, k), EvidenceIn(ops), SourcesIn(ops))
  BY <1>2 DEF Conflict, WhoIn
<1>. HIDE DEF conflict
<1>4. Lanes(Of(ops, "resolution"), Of(ops, "event"), conflict)
        = [l \in Lane |-> LaneState(l, Of(ops, "resolution"), Of(ops, "event"), conflict[l[1]].who)]
  BY DEF Lanes
<1>. QED  BY <1>1, <1>2, <1>3, <1>4 DEF s

(* A part of a log that lacks evidence and retracted claims only has the   *)
(* same other operations, retracted claims, active claims and sources.     *)
LEMMA KeepsShows ==
  ASSUME NEW part, NEW all, NEW rev, Keeps(part, all, rev)
  PROVE  /\ \A kind : kind \notin {"claim", "evidence"} => Of(part, kind) = Of(all, kind)
         /\ \A c : Dead(part, rev, c) <=> Dead(all, rev, c)
         /\ ActiveIn(part, rev) = ActiveIn(all, rev)
         /\ EvidenceIn(part) \subseteq EvidenceIn(all) /\ SourcesIn(part) = SourcesIn(all)
<1>1. \A kind : kind \notin {"claim", "evidence"} => Of(part, kind) = Of(all, kind)
  BY DEF Keeps, Of
<1>2. Of(part, "retraction") = Of(all, "retraction") /\ Of(part, "source") = Of(all, "source")
  BY <1>1
<1>3. \A c : Dead(part, rev, c) <=> Dead(all, rev, c)
  BY <1>2 DEF Dead
<1>4. \A c : ~ Dead(all, rev, c) =>
          (c \in {o.claim : o \in Of(part, "claim")} <=> c \in {o.claim : o \in Of(all, "claim")})
  BY DEF Keeps, Of
<1>5. ActiveIn(part, rev) = ActiveIn(all, rev)
  BY <1>3, <1>4 DEF ActiveIn
<1>6. EvidenceIn(part) \subseteq EvidenceIn(all) /\ SourcesIn(part) = SourcesIn(all)
  BY <1>2 DEF Keeps, EvidenceIn, SourcesIn, Of
<1>. QED  BY <1>1, <1>3, <1>5, <1>6

(* A view is built of what is active, the candidates and what was decided. *)
LEMMA SameView ==
  ASSUME NEW s, NEW t, s.rev = t.rev, s.findings = t.findings, s.active = t.active,
         s.resolutions = t.resolutions, s.events = t.events,
         \A k \in Key : s.conflict[k].who = t.conflict[k].who,
         NEW scope, NEW verdict
  PROVE  BuildView(s, scope, verdict) = BuildView(t, scope, verdict)
<1>1. \A ref, who : CommittedChoice(s, ref, who, scope) = CommittedChoice(t, ref, who, scope)
  BY DEF CommittedChoice, ResolutionLane
<1>2. Reported(s) = Reported(t)
  BY DEF Reported
<1>3. \A k \in Key : KeyView(s, k, scope, verdict) = KeyView(t, k, scope, verdict)
  BY <1>1 DEF KeyView
<1>4. Excluded(s, scope) = Excluded(t, scope)
  BY <1>1, <1>2 DEF Excluded
<1>5. CandidatesOf(s) = CandidatesOf(t)
  BY <1>2 DEF CandidatesOf
<1>. QED  BY <1>1, <1>3, <1>4, <1>5 DEF BuildView

(* Such a part shows what the whole log shows, but for sources of evidence.*)
LEMMA KeepsSeen ==
  ASSUME NEW part, NEW all, NEW rev, Keeps(part, all, rev)
  PROVE  /\ Seen(part, rev) = Seen(all, rev)
         /\ \A k \in Key : SourcesSeen(part, rev)[k] \subseteq SourcesSeen(all, rev)[k]
<1>. DEFINE s == StateOf(part, rev, {})
            t == StateOf(all, rev, {})
            S == Full(part, rev)
            T == Full(all, rev)
<1>1. /\ s.rev = rev /\ s.findings = {} /\ s.active = S.active /\ s.conflict = S.conflict
      /\ s.resolutions = S.resolutions /\ s.events = S.events /\ s.lane = S.lane
      /\ t.rev = rev /\ t.findings = {} /\ t.active = T.active /\ t.conflict = T.conflict
      /\ t.resolutions = T.resolutions /\ t.events = T.events /\ t.lane = T.lane
  BY DEF StateOf
<1>. HIDE DEF s, t
<1>2. /\ S.active = ActiveIn(part, rev) /\ T.active = ActiveIn(all, rev)
      /\ S.resolutions = Of(part, "resolution") /\ T.resolutions = Of(all, "resolution")
      /\ S.events = Of(part, "event") /\ T.events = Of(all, "event")
  BY FullShows
<1>3. \A k \in Key : /\ S.conflict[k].who = WhoIn(part, rev, k)
                     /\ T.conflict[k].who = WhoIn(all, rev, k)
  BY FullShows
<1>4. \A k \in Key : /\ S.conflict[k].sources
                          = Provenance(WhoIn(part, rev, k), EvidenceIn(part), SourcesIn(part))
                     /\ T.conflict[k].sources
                          = Provenance(WhoIn(all, rev, k), EvidenceIn(all), SourcesIn(all))
  BY FullShows
<1>5. /\ S.lane = [l \in Lane |-> LaneState(l, Of(part, "resolution"), Of(part, "event"),
                                           S.conflict[l[1]].who)]
      /\ T.lane = [l \in Lane |-> LaneState(l, Of(all, "resolution"), Of(all, "event"),
                                           T.conflict[l[1]].who)]
  BY FullShows
<1>. HIDE DEF S, T
<1>6. /\ Of(part, "resolution") = Of(all, "resolution") /\ Of(part, "event") = Of(all, "event")
      /\ ActiveIn(part, rev) = ActiveIn(all, rev)
      /\ EvidenceIn(part) \subseteq EvidenceIn(all) /\ SourcesIn(part) = SourcesIn(all)
  BY KeepsShows
<1>7. \A k \in Key : WhoIn(part, rev, k) = WhoIn(all, rev, k)
  BY <1>6 DEF WhoIn
<1>8. S.lane = T.lane
  <2>1. \A l \in Lane : l[1] \in Key
    BY DEF Lane
  <2>. QED  BY <1>3, <1>5, <1>6, <1>7, <2>1
<1>9. \A k \in Key : S.conflict[k].sources \subseteq T.conflict[k].sources
  BY <1>4, <1>6, <1>7 DEF Provenance
<1>10. /\ s.rev = t.rev /\ s.findings = t.findings /\ s.active = t.active
       /\ s.resolutions = t.resolutions /\ s.events = t.events /\ s.lane = t.lane
       /\ \A k \in Key : s.conflict[k].who = t.conflict[k].who
  BY <1>1, <1>2, <1>3, <1>6, <1>7, <1>8
<1>11. \A scope : BuildView(s, scope, NoVerdict) = BuildView(t, scope, NoVerdict)
  BY <1>10, SameView
<1>12. Seen(part, rev) = Seen(all, rev)
  BY <1>10, <1>11 DEF Seen, s, t
<1>13. \A k \in Key : SourcesSeen(part, rev)[k] \subseteq SourcesSeen(all, rev)[k]
  BY <1>9 DEF SourcesSeen, S, T
<1>. QED  BY <1>12, <1>13

(* Keeping is transitive, holds of any log between the two, and goes on as *)
(* both grow alike.                                                        *)
LEMMA KeepsTransitive ==
  ASSUME NEW part, NEW some, NEW all, NEW rev, Keeps(part, some, rev), Keeps(some, all, rev)
  PROVE  Keeps(part, all, rev)
<1>1. \A c : Dead(some, rev, c) <=> Dead(all, rev, c)
  BY KeepsShows
<1>. QED  BY <1>1 DEF Keeps

(* What lies between such a part and the whole is such a part.             *)
LEMMA KeepsBetween ==
  ASSUME NEW part, NEW some, NEW all, NEW rev, Keeps(part, all, rev),
         part \subseteq some, some \subseteq all
  PROVE  Keeps(some, all, rev)
BY DEF Keeps

(* It stays one when both get the same operations.                         *)
LEMMA KeepsGrowing ==
  ASSUME NEW part, NEW all, NEW rev, Keeps(part, all, rev), NEW more
  PROVE  Keeps(part \cup more, all \cup more, rev)
<1>1. Of(all, "retraction") \subseteq Of(all \cup more, "retraction")
  BY DEF Of
<1>2. \A c : Dead(all, rev, c) => Dead(all \cup more, rev, c)
  BY <1>1 DEF Dead
<1>. QED  BY <1>2 DEF Keeps

(* compact_projection_equivalent_with_report drops evidence, and claims    *)
(* that the log retracts.                                                  *)
LEMMA CompactedKeeps ==
  ASSUME NEW ops, NEW rev
  PROVE  Keeps(Compacted(ops, rev), ops, rev)
<1>1. \A c : c \in Full(ops, rev).inactive => Dead(ops, rev, c)
  BY DEF Full, Dead
<1>2. \A o : o \in Compacted(ops, rev)
              <=> /\ o \in ops
                  /\ o.kind = "evidence" => o.evidence \in Needed(ops, rev)
                  /\ o.kind = "claim" => o.claim \notin Full(ops, rev).inactive
  BY DEF Compacted
<1>. DEFINE kept == Compacted(ops, rev)
<1>3. kept \subseteq ops
  BY <1>2
<1>4. \A o \in ops \ kept :
        \/ o.kind = "evidence"
        \/ o.kind = "claim" /\ Dead(ops, rev, o.claim)
  <2> TAKE o \in ops \ kept
  <2>1. \/ o.kind = "evidence"
        \/ o.kind = "claim" /\ o.claim \in Full(ops, rev).inactive
    BY <1>2
  <2>. QED  BY <1>1, <2>1
<1>. HIDE DEF kept
<1>5. Keeps(kept, ops, rev)
  BY <1>3, <1>4 DEF Keeps
<1>. QED  BY <1>5 DEF kept

-------------------------------------------------------------------------------
(* The loops of advance_replica_progress. *)

(* One turn of the loop that merges ranges: extend the last range or       *)
(* append.                                                                 *)
LEMMA AbsorbFacts ==
  ASSUME NEW M \in Seq(CursorRange), NEW r \in CursorRange
  PROVE  Absorb(M, r)
           = IF M # <<>> /\ r[1] <= M[Len(M)][2]
             THEN Append(SubSeq(M, 1, Len(M) - 1),
                         <<M[Len(M)][1], IF r[2] > M[Len(M)][2] THEN r[2] ELSE M[Len(M)][2]>>)
             ELSE Append(M, r)
BY DEF Absorb, Widened, Front, Last

(* What the merging loop has made of the ranges R: runs in order, apart    *)
(* from each other, of the same batches, that begin and end where ranges   *)
(* do.                                                                     *)
Holds(r, i) == r[1] < i /\ i <= r[2]

RunsOf(M, R) ==
  /\ M \in Seq(CursorRange)
  /\ \A i, j \in 1 .. Len(M) : i < j => M[i][2] < M[j][1]
  /\ \A b \in Nat : (\E i \in 1 .. Len(M) : Holds(M[i], b)) <=> (\E r \in R : Holds(r, b))
  /\ \A i \in 1 .. Len(M) :
       /\ \E r \in R : r[1] = M[i][1]
       /\ \E r \in R : r[2] = M[i][2]

(* A range is a pair of natural numbers, the first the smaller.            *)
LEMMA RangeFacts ==
  ASSUME NEW r \in CursorRange
  PROVE  r = <<r[1], r[2]>> /\ r[1] \in Nat /\ r[2] \in Nat /\ r[1] < r[2]
BY DEF CursorRange

(* One turn of the loop that merges ranges computes the runs of one range  *)
(* more, if it starts no earlier than those before it.                     *)
LEMMA AbsorbKeeps ==
  ASSUME NEW R \in SUBSET CursorRange, NEW M, RunsOf(M, R),
         NEW r \in CursorRange, \A q \in R : q[1] <= r[1]
  PROVE  RunsOf(Absorb(M, r), R \cup {r})
<1>. DEFINE n == Len(M)
            N == Absorb(M, r)
            end == IF r[2] > M[n][2] THEN r[2] ELSE M[n][2]
<1>1. M \in Seq(CursorRange) /\ n \in Nat
  BY DEF RunsOf
<1>2. \A i \in 1 .. n : M[i] \in CursorRange /\ M[i][1] \in Nat /\ M[i][2] \in Nat /\ M[i][1] < M[i][2]
  BY <1>1, RangeFacts
<1>3. r[1] \in Nat /\ r[2] \in Nat /\ r[1] < r[2]
  BY RangeFacts
<1>4. \A i \in 1 .. n : M[i][1] <= r[1]
  BY DEF RunsOf
<1>5. \A q \in R : q[1] \in Nat /\ q[2] \in Nat /\ q[1] < q[2]
  BY RangeFacts
<1>6. CASE M # <<>> /\ r[1] <= M[n][2]
  <2>1. n \in 1 .. n
    BY <1>1, <1>6
  <2>2. N = Append(SubSeq(M, 1, n - 1), <<M[n][1], end>>)
    BY <1>1, <1>6, AbsorbFacts
  <2>3. end \in Nat /\ r[2] <= end /\ M[n][2] <= end /\ (end = r[2] \/ end = M[n][2])
    BY <1>2, <1>3, <2>1
  <2>. HIDE DEF end
  <2>4. <<M[n][1], end>> \in CursorRange
    BY <1>2, <2>1, <2>3 DEF CursorRange
  <2>5. /\ N \in Seq(CursorRange) /\ Len(N) = n
        /\ \A i \in 1 .. n : N[i] = IF i = n THEN <<M[n][1], end>> ELSE M[i]
    <3>. DEFINE F == SubSeq(M, 1, n - 1)
                x == <<M[n][1], end>>
    <3>1. F \in Seq(CursorRange) /\ Len(F) = n - 1 /\ \A i \in 1 .. n - 1 : F[i] = M[i]
      <4>1. 1 \in Int /\ n - 1 \in Int /\ \A i \in 1 .. n - 1 : M[i] \in CursorRange
        BY <1>1, <2>1
      <4>2. /\ F \in Seq(CursorRange) /\ Len(F) = IF 1 <= n - 1 THEN n - 1 - 1 + 1 ELSE 0
            /\ \A i \in 1 .. n - 1 - 1 + 1 : F[i] = M[1 + i - 1]
        BY <4>1, SubSeqProperties
      <4>3. n \in Int /\ 1 <= n
        BY <1>1, <2>1
      <4>. HIDE DEF F, n
      <4>4. n - 1 - 1 + 1 = n - 1 /\ (1 > n - 1 => n - 1 = 0)
        BY <4>3
      <4>5. \A i \in 1 .. n - 1 : 1 + i - 1 = i
        OBVIOUS
      <4>. QED  BY <4>2, <4>3, <4>4, <4>5
    <3>2. x \in CursorRange /\ N = Append(F, x)
      BY <2>2, <2>4
    <3>3. \A i \in 1 .. n : i = n \/ i \in 1 .. n - 1
      BY <1>1
    <3>. HIDE DEF F, x, N, n
    <3>4. Len(N) = n /\ N \in Seq(CursorRange) /\ N[n] = x /\ \A i \in 1 .. n - 1 : N[i] = F[i]
      BY <1>1, <2>1, <3>1, <3>2
    <3>. QED  BY <3>1, <3>3, <3>4 DEF x
  <2>. HIDE DEF N
  <2>6. \A i \in 1 .. n : N[i][1] = M[i][1] /\ N[i][2] = IF i = n THEN end ELSE M[i][2]
    BY <2>5
  <2>7. \A i, j \in 1 .. Len(N) : i < j => N[i][2] < N[j][1]
    BY <2>5, <2>6 DEF RunsOf
  <2>8. \A b \in Nat : Holds(N[n], b) <=> Holds(M[n], b) \/ Holds(r, b)
    BY <1>2, <1>3, <1>4, <1>6, <2>1, <2>3, <2>6 DEF Holds
  <2>9. ASSUME NEW b \in Nat
        PROVE  (\E i \in 1 .. n : Holds(N[i], b)) <=> (\E i \in 1 .. n : Holds(M[i], b)) \/ Holds(r, b)
    <3>1. \A i \in 1 .. n : i # n => N[i] = M[i]
      BY <2>5
    <3>. QED  BY <2>1, <2>8, <3>1
  <2>10. \A b \in Nat : (\E i \in 1 .. n : Holds(N[i], b)) <=> (\E q \in R \cup {r} : Holds(q, b))
    BY <2>9 DEF RunsOf
  <2>11. \A i \in 1 .. n : /\ \E q \in R \cup {r} : q[1] = N[i][1]
                           /\ \E q \in R \cup {r} : q[2] = N[i][2]
    BY <2>3, <2>6 DEF RunsOf
  <2>. QED  BY <2>5, <2>7, <2>10, <2>11 DEF RunsOf, N
<1>7. CASE ~ (M # <<>> /\ r[1] <= M[n][2])
  <2>1. N = Append(M, r)
    BY <1>1, <1>7, AbsorbFacts
  <2>2. /\ N \in Seq(CursorRange) /\ Len(N) = n + 1 /\ N[n + 1] = r
        /\ \A i \in 1 .. n : N[i] = M[i]
    BY <1>1, <2>1
  <2>. HIDE DEF N
  <2>3. \A i \in 1 .. n : M[i][2] < r[1]
    <3>1. \A i \in 1 .. n : i < n => M[i][2] < M[n][1]
      BY <1>1 DEF RunsOf
    <3>2. n # 0 => M[n][2] < r[1] /\ n \in 1 .. n
      BY <1>1, <1>2, <1>3, <1>7
    <3>. QED  BY <1>2, <1>3, <1>4, <3>1, <3>2
  <2>4. \A i \in 1 .. n + 1 : i \in 1 .. n \/ i = n + 1
    BY <1>1
  <2>5. \A i, j \in 1 .. n + 1 : i < j => N[i][2] < N[j][1]
    <3>1. ASSUME NEW i \in 1 .. n + 1, NEW j \in 1 .. n + 1, i < j PROVE N[i][2] < N[j][1]
      <4>1. i \in 1 .. n
        BY <1>1, <3>1
      <4>2. CASE j \in 1 .. n
        BY <2>2, <3>1, <4>1, <4>2 DEF RunsOf
      <4>3. CASE j = n + 1
        BY <2>2, <2>3, <4>1, <4>3
      <4>. QED  BY <2>4, <4>2, <4>3
    <3>. QED  BY <3>1
  <2>6. \A b \in Nat : (\E i \in 1 .. n + 1 : Holds(N[i], b))
                         <=> (\E i \in 1 .. n : Holds(M[i], b)) \/ Holds(r, b)
    BY <1>1, <2>2, <2>4
  <2>7. \A b \in Nat : (\E i \in 1 .. n + 1 : Holds(N[i], b)) <=> (\E q \in R \cup {r} : Holds(q, b))
    BY <2>6 DEF RunsOf
  <2>8. \A i \in 1 .. n + 1 : /\ \E q \in R \cup {r} : q[1] = N[i][1]
                              /\ \E q \in R \cup {r} : q[2] = N[i][2]
    BY <2>2, <2>4 DEF RunsOf
  <2>. QED  BY <2>2, <2>5, <2>7, <2>8 DEF RunsOf, N
<1>. QED  BY <1>6, <1>7

(* A position is acknowledged when some range holds it.                    *)
LEMMA BatchFacts ==
  ASSUME NEW R \in SUBSET CursorRange, NEW b
  PROVE  b \in Batches(R) <=> b \in Nat /\ \E r \in R : Holds(r, b)
<1>1. \A r \in R : r[1] \in Nat /\ r[2] \in Nat
  BY RangeFacts
<1>2. ASSUME b \in Batches(R) PROVE b \in Nat /\ \E r \in R : Holds(r, b)
  <2>1. PICK r \in R : b \in (r[1] + 1) .. r[2]
    BY <1>2 DEF Batches
  <2>. QED  BY <1>1, <2>1 DEF Holds
<1>3. ASSUME b \in Nat, NEW r \in R, Holds(r, b) PROVE b \in Batches(R)
  <2>1. b \in (r[1] + 1) .. r[2]
    BY <1>1, <1>3 DEF Holds
  <2>. QED  BY <2>1 DEF Batches
<1>. QED  BY <1>2, <1>3

(* The runs that a set of ranges has are its maximal ones.                 *)
LEMMA RunsAreMerged ==
  ASSUME NEW R \in SUBSET CursorRange, NEW M, RunsOf(M, R)
  PROVE  Merged(R) = {M[i] : i \in 1 .. Len(M)}
<1>. DEFINE n == Len(M)
<1>1. n \in Nat /\ \A i \in 1 .. n : /\ M[i] \in CursorRange /\ M[i] = <<M[i][1], M[i][2]>>
                                     /\ M[i][1] \in Nat /\ M[i][2] \in Nat /\ M[i][1] < M[i][2]
  BY RangeFacts DEF RunsOf
<1>2. \A b : b \in Batches(R) <=> b \in Nat /\ \E i \in 1 .. n : Holds(M[i], b)
  BY BatchFacts DEF RunsOf
<1>3. \A i, j \in 1 .. n : i = j \/ M[i][2] < M[j][1] \/ M[j][2] < M[i][1]
  BY <1>1 DEF RunsOf
<1>. HIDE DEF n
<1>4. ASSUME NEW i \in 1 .. n PROVE M[i][1] \notin Batches(R) /\ M[i][2] + 1 \notin Batches(R)
  <2>1. ASSUME NEW j \in 1 .. n, Holds(M[j], M[i][1]) \/ Holds(M[j], M[i][2] + 1) PROVE FALSE
    <3>1. M[j][1] \in Nat /\ M[j][2] \in Nat /\ M[i][1] \in Nat /\ M[i][2] \in Nat
            /\ M[i][1] < M[i][2] /\ M[j][1] < M[j][2]
      BY <1>1
    <3>2. i = j \/ M[i][2] < M[j][1] \/ M[j][2] < M[i][1]
      BY <1>3
    <3>. QED  BY <2>1, <3>1, <3>2 DEF Holds
  <2>. QED  BY <1>2, <2>1
<1>5. ASSUME NEW i \in 1 .. n PROVE M[i] \in Merged(R)
  <2>1. \E r \in R : r[1] = M[i][1]
    BY DEF RunsOf, n
  <2>2. \E r \in R : r[2] = M[i][2]
    BY DEF RunsOf, n
  <2>3. (M[i][1] + 1) .. M[i][2] \subseteq Batches(R)
    BY <1>1, <1>2 DEF Holds
  <2>4. M[i] \in {r[1] : r \in R} \X {r[2] : r \in R}
    BY <1>1, <2>1, <2>2
  <2>. QED  BY <1>1, <1>4, <2>3, <2>4 DEF Merged
<1>6. ASSUME NEW m \in Merged(R) PROVE \E i \in 1 .. n : m = M[i]
  <2>1. /\ m = <<m[1], m[2]>> /\ m[1] \in Nat /\ m[2] \in Nat /\ m[1] < m[2]
        /\ (m[1] + 1) .. m[2] \subseteq Batches(R)
        /\ m[1] \notin Batches(R) /\ m[2] + 1 \notin Batches(R)
    BY RangeFacts DEF Merged
  <2>2. m[1] + 1 \in Batches(R)
    BY <2>1
  <2>3. PICK i \in 1 .. n : Holds(M[i], m[1] + 1)
    BY <1>2, <2>2
  <2>4. /\ M[i][1] \in Nat /\ M[i][2] \in Nat /\ M[i] = <<M[i][1], M[i][2]>>
        /\ M[i][1] <= m[1] /\ m[1] < M[i][2]
    BY <1>1, <2>1, <2>3 DEF Holds
  <2>5. M[i][1] = m[1]
    <3>1. ~ Holds(M[i], m[1])
      BY <1>2, <2>1
    <3>. QED  BY <2>1, <2>4, <3>1 DEF Holds
  <2>6. ~ (m[2] < M[i][2])
    <3>1. ~ Holds(M[i], m[2] + 1)
      BY <1>2, <2>1
    <3>. QED  BY <2>1, <2>4, <3>1 DEF Holds
  <2>7. ~ (M[i][2] < m[2])
    <3>1. M[i][2] + 1 \notin Batches(R)
      BY <1>4
    <3>. QED  BY <2>1, <2>4, <3>1
  <2>8. m[2] = M[i][2]
    BY <2>1, <2>4, <2>6, <2>7
  <2>. QED  BY <2>1, <2>4, <2>5, <2>8
<1>. QED  BY <1>5, <1>6 DEF n
-------------------------------------------------------------------------------
(* The order in which the ranges are sorted is strict and total.           *)
LEMMA BeforeFacts ==
  ASSUME NEW r \in CursorRange, NEW s \in CursorRange, NEW t \in CursorRange
  PROVE  /\ ~ Before(r, r)
         /\ r = s \/ Before(r, s) \/ Before(s, r)
         /\ Before(r, s) /\ Before(s, t) => Before(r, t)
         /\ Before(r, s) => r[1] <= s[1]
BY RangeFacts DEF Before

(* Sorting a finite set of ranges lists all of them, by start.             *)
LEMMA SortedFacts ==
  ASSUME NEW R \in SUBSET CursorRange, IsFiniteSet(R)
  PROVE  /\ Sorted(R) \in Seq(R)
         /\ \A r \in R : \E i \in 1 .. Len(Sorted(R)) : Sorted(R)[i] = r
         /\ \A i, j \in 1 .. Len(Sorted(R)) : i < j => Sorted(R)[i][1] <= Sorted(R)[j][1]
<1>. DEFINE N == Cardinality(R)
            Below(r) == {s \in R : Before(s, r)}
            rank == [r \in R |-> Cardinality(Below(r)) + 1]
            S == Sorted(R)
<1>1. N \in Nat
  BY FS_CardinalityType
<1>2. ASSUME NEW r \in R
      PROVE  IsFiniteSet(Below(r)) /\ Cardinality(Below(r)) \in Nat /\ Cardinality(Below(r)) < N
  <2>1. Below(r) \in SUBSET R /\ r \notin Below(r)
    BY BeforeFacts
  <2>2. IsFiniteSet(Below(r)) /\ Cardinality(Below(r)) <= N /\ (N = Cardinality(Below(r)) => R = Below(r))
    BY <2>1, FS_Subset
  <2>3. Cardinality(Below(r)) \in Nat
    BY <2>2, FS_CardinalityType
  <2>. HIDE DEF Below, N
  <2>. QED  BY <1>1, <2>1, <2>2, <2>3
<1>3. ASSUME NEW r \in R, NEW s \in R, Before(r, s) PROVE rank[r] < rank[s]
  <2>1. Below(r) \in SUBSET Below(s) /\ r \in Below(s) /\ r \notin Below(r)
    BY <1>3, BeforeFacts
  <2>2. /\ Cardinality(Below(r)) <= Cardinality(Below(s))
        /\ Cardinality(Below(s)) = Cardinality(Below(r)) => Below(s) = Below(r)
    BY <1>2, <2>1, FS_Subset
  <2>3. Cardinality(Below(r)) \in Nat /\ Cardinality(Below(s)) \in Nat
    BY <1>2
  <2>4. rank[r] = Cardinality(Below(r)) + 1 /\ rank[s] = Cardinality(Below(s)) + 1
    OBVIOUS
  <2>. HIDE DEF Below, rank
  <2>. QED  BY <2>1, <2>2, <2>3, <2>4
<1>4. ASSUME NEW r \in R PROVE rank[r] \in 1 .. N
  <2>1. rank[r] = Cardinality(Below(r)) + 1
    OBVIOUS
  <2>2. Cardinality(Below(r)) \in Nat /\ Cardinality(Below(r)) < N
    BY <1>2
  <2>. HIDE DEF rank, Below, N
  <2>. QED  BY <1>1, <2>1, <2>2
<1>5. rank \in Injection(R, 1 .. N)
  <2>1. \A r, s \in R : r # s => rank[r] # rank[s]
    <3>1. ASSUME NEW r \in R, NEW s \in R, r # s PROVE rank[r] # rank[s]
      <4>1. Before(r, s) \/ Before(s, r)
        BY <3>1, BeforeFacts
      <4>2. rank[r] \in Nat /\ rank[s] \in Nat
        BY <1>1, <1>4
      <4>3. rank[r] < rank[s] \/ rank[s] < rank[r]
        BY <1>3, <4>1
      <4>. HIDE DEF rank
      <4>. QED  BY <4>2, <4>3
    <3>. QED  BY <3>1
  <2>2. rank \in [R -> 1 .. N]
    BY <1>4
  <2>. HIDE DEF rank
  <2>. QED  BY <2>1, <2>2 DEF Injection, IsInjective
<1>6. rank \in Surjection(R, 1 .. N)
  <2>1. IsFiniteSet(1 .. N) /\ Cardinality(1 .. N) = N
    BY <1>1, FS_Interval
  <2>. HIDE DEF rank
  <2>. QED  BY <1>5, <2>1, FS_Injection
<1>7. \A i \in 1 .. N : \E r \in R : rank[r] = i
  <2>. HIDE DEF rank
  <2>. QED  BY <1>6 DEF Surjection
<1>8. S = [i \in 1 .. N |-> CHOOSE r \in R : Cardinality(Below(r)) = i - 1]
  BY DEF Sorted
<1>9. ASSUME NEW i \in 1 .. N PROVE S[i] \in R /\ rank[S[i]] = i
  <2>1. PICK r \in R : rank[r] = i
    BY <1>7
  <2>2. Cardinality(Below(r)) \in Nat /\ Cardinality(Below(r)) + 1 = i
    BY <1>2, <2>1
  <2>3. Cardinality(Below(r)) = i - 1
    BY <2>2
  <2>. DEFINE x == CHOOSE q \in R : Cardinality(Below(q)) = i - 1
  <2>4. x \in R /\ Cardinality(Below(x)) = i - 1
    BY <2>3
  <2>5. S[i] = x
    BY <1>8
  <2>. HIDE DEF x, S
  <2>6. rank[x] = i - 1 + 1
    BY <2>4
  <2>. HIDE DEF rank
  <2>. QED  BY <1>1, <2>4, <2>5, <2>6
<1>. HIDE DEF S, rank
<1>10. S \in Seq(R) /\ Len(S) = N
  <2>1. S \in [1 .. N -> R]
    BY <1>8, <1>9
  <2>. HIDE DEF N
  <2>. QED  BY <1>1, <2>1
<1>11. ASSUME NEW r \in R PROVE \E i \in 1 .. N : S[i] = r
  <2>1. rank[r] \in 1 .. N /\ S[rank[r]] \in R /\ rank[S[rank[r]]] = rank[r]
    BY <1>4, <1>9
  <2>. QED  BY <1>5, <2>1 DEF Injection, IsInjective
<1>12. ASSUME NEW i \in 1 .. N, NEW j \in 1 .. N, i < j PROVE S[i][1] <= S[j][1]
  <2>1. S[i] \in R /\ S[j] \in R /\ rank[S[i]] = i /\ rank[S[j]] = j
    BY <1>9
  <2>2. ~ Before(S[j], S[i])
    BY <1>3, <1>12, <2>1
  <2>3. S[i] # S[j]
    BY <1>12, <2>1
  <2>. QED  BY <2>1, <2>2, <2>3, BeforeFacts
<1>. QED  BY <1>10, <1>11, <1>12 DEF S

(* The merging loop over the sorted ranges s, the placing loop over the    *)
(* runs M.                                                                 *)
MergingSteps(s, n, f) ==
  f = [i \in 0 .. n |-> IF i = 0 THEN <<>> ELSE Absorb(f[i - 1], s[i])]

PlacingSteps(p, M, n, f) ==
  f = [i \in 0 .. n |-> IF i = 0 THEN [cursor |-> p.cursor, pending |-> {}]
                        ELSE Place(f[i - 1], M[i])]

(* The two loops are the last steps of functions from the number of turns. *)
LEMMA LoopsAre ==
  ASSUME NEW R, NEW p, NEW M
  PROVE  /\ MergeLoop(R) = (CHOOSE f : MergingSteps(Sorted(R), Len(Sorted(R)), f))[Len(Sorted(R))]
         /\ PlaceLoop(p, M) = (CHOOSE f : PlacingSteps(p, M, Len(M), f))[Len(M)]
BY DEF MergeLoop, PlaceLoop, MergingSteps, PlacingSteps

(* The merging loop runs, whatever it is given.                            *)
LEMMA MergingRuns ==
  ASSUME NEW s, NEW n \in Nat
  PROVE  \E f : MergingSteps(s, n, f)
<1>. DEFINE Bad == {m \in 0 .. n : ~ \E f : MergingSteps(s, m, f)}
<1>1. SUFFICES ASSUME Bad # {} PROVE FALSE
  OBVIOUS
<1>2. Bad \in SUBSET Nat
  OBVIOUS
<1>3. PICK m \in Bad : \A k \in Bad : m <= k
  <2>. HIDE DEF Bad
  <2>. QED  BY <1>1, <1>2, LeastElement
<1>4. CASE m = 0
  <2>. DEFINE f == [i \in 0 .. 0 |-> <<>>]
  <2>1. MergingSteps(s, 0, f)
    BY DEF MergingSteps
  <2>. QED  BY <1>3, <1>4, <2>1
<1>5. CASE m # 0
  <2>1. m \in Nat /\ m - 1 \in 0 .. n /\ m - 1 < m
    BY <1>3, <1>5
  <2>2. m - 1 \notin Bad
    BY <1>3, <2>1
  <2>3. PICK f : MergingSteps(s, m - 1, f)
    BY <2>1, <2>2
  <2>. DEFINE g == [i \in 0 .. m |-> IF i = m THEN Absorb(f[m - 1], s[m]) ELSE f[i]]
  <2>4. \A i \in 0 .. m - 1 : f[i] = IF i = 0 THEN <<>> ELSE Absorb(f[i - 1], s[i])
    BY <2>1, <2>3 DEF MergingSteps
  <2>5. ASSUME NEW i \in 0 .. m PROVE g[i] = IF i = 0 THEN <<>> ELSE Absorb(g[i - 1], s[i])
    <3>1. CASE i = 0
      BY <1>5, <2>1, <2>4, <3>1
    <3>2. CASE i \in 1 .. m - 1
      <4>1. i \in 0 .. m /\ i # m /\ i # 0 /\ i - 1 \in 0 .. m /\ i - 1 # m /\ i \in 0 .. m - 1
        BY <2>1, <3>2
      <4>2. g[i] = f[i] /\ g[i - 1] = f[i - 1]
        BY <4>1
      <4>. HIDE DEF g
      <4>. QED  BY <2>4, <4>1, <4>2
    <3>3. CASE i = m
      <4>1. m \in 0 .. m /\ m - 1 \in 0 .. m /\ m - 1 # m
        BY <2>1
      <4>2. g[m] = Absorb(f[m - 1], s[m]) /\ g[m - 1] = f[m - 1]
        BY <4>1
      <4>. HIDE DEF g
      <4>. QED  BY <1>5, <3>3, <4>2
    <3>. QED  BY <2>1, <3>1, <3>2, <3>3
  <2>6. MergingSteps(s, m, g)
    <3>1. g = [i \in 0 .. m |-> g[i]]
      OBVIOUS
    <3>. HIDE DEF g
    <3>. QED  BY <2>5, <3>1 DEF MergingSteps
  <2>. QED  BY <1>3, <2>6
<1>. QED  BY <1>4, <1>5

(* The placing loop runs, whatever it is given.                            *)
LEMMA PlacingRuns ==
  ASSUME NEW p, NEW M, NEW n \in Nat
  PROVE  \E f : PlacingSteps(p, M, n, f)
<1>. DEFINE Bad == {m \in 0 .. n : ~ \E f : PlacingSteps(p, M, m, f)}
            first == [cursor |-> p.cursor, pending |-> {}]
<1>1. SUFFICES ASSUME Bad # {} PROVE FALSE
  OBVIOUS
<1>2. Bad \in SUBSET Nat
  OBVIOUS
<1>3. PICK m \in Bad : \A k \in Bad : m <= k
  <2>. HIDE DEF Bad
  <2>. QED  BY <1>1, <1>2, LeastElement
<1>4. CASE m = 0
  <2>. DEFINE f == [i \in 0 .. 0 |-> first]
  <2>1. PlacingSteps(p, M, 0, f)
    BY DEF PlacingSteps
  <2>. QED  BY <1>3, <1>4, <2>1
<1>5. CASE m # 0
  <2>1. m \in Nat /\ m - 1 \in 0 .. n /\ m - 1 < m
    BY <1>3, <1>5
  <2>2. m - 1 \notin Bad
    BY <1>3, <2>1
  <2>3. PICK f : PlacingSteps(p, M, m - 1, f)
    BY <2>1, <2>2
  <2>. DEFINE g == [i \in 0 .. m |-> IF i = m THEN Place(f[m - 1], M[m]) ELSE f[i]]
  <2>4. \A i \in 0 .. m - 1 : f[i] = IF i = 0 THEN first ELSE Place(f[i - 1], M[i])
    BY <2>1, <2>3 DEF PlacingSteps
  <2>. HIDE DEF first
  <2>5. ASSUME NEW i \in 0 .. m PROVE g[i] = IF i = 0 THEN first ELSE Place(g[i - 1], M[i])
    <3>1. CASE i = 0
      BY <1>5, <2>1, <2>4, <3>1
    <3>2. CASE i \in 1 .. m - 1
      <4>1. i \in 0 .. m /\ i # m /\ i # 0 /\ i - 1 \in 0 .. m /\ i - 1 # m /\ i \in 0 .. m - 1
        BY <2>1, <3>2
      <4>2. g[i] = f[i] /\ g[i - 1] = f[i - 1]
        BY <4>1
      <4>. HIDE DEF g
      <4>. QED  BY <2>4, <4>1, <4>2
    <3>3. CASE i = m
      <4>1. m \in 0 .. m /\ m - 1 \in 0 .. m /\ m - 1 # m
        BY <2>1
      <4>2. g[m] = Place(f[m - 1], M[m]) /\ g[m - 1] = f[m - 1]
        BY <4>1
      <4>. HIDE DEF g
      <4>. QED  BY <1>5, <3>3, <4>2
    <3>. QED  BY <2>1, <3>1, <3>2, <3>3
  <2>6. PlacingSteps(p, M, m, g)
    <3>1. g = [i \in 0 .. m |-> g[i]]
      OBVIOUS
    <3>. HIDE DEF g
    <3>. QED  BY <2>5, <3>1 DEF PlacingSteps, first
  <2>. QED  BY <1>3, <2>6
<1>. QED  BY <1>4, <1>5

(* The merging loop computes the runs of its ranges.                       *)
LEMMA MergeLoopRuns ==
  ASSUME NEW R \in SUBSET CursorRange, IsFiniteSet(R)
  PROVE  RunsOf(MergeLoop(R), R)
<1>. DEFINE s == Sorted(R)
            n == Len(s)
            f == CHOOSE g : MergingSteps(s, n, g)
            Upto(i) == {s[j] : j \in 1 .. i}
            Bad == {i \in 0 .. n : ~ RunsOf(f[i], Upto(i))}
<1>1. /\ s \in Seq(R) /\ n \in Nat /\ \A j \in 1 .. n : s[j] \in R
      /\ \A r \in R : \E i \in 1 .. n : s[i] = r
      /\ \A i, j \in 1 .. n : i < j => s[i][1] <= s[j][1]
  BY SortedFacts
<1>2. MergeLoop(R) = f[n]
  BY LoopsAre
<1>. HIDE DEF s
<1>3. \A i \in 0 .. n : f[i] = IF i = 0 THEN <<>> ELSE Absorb(f[i - 1], s[i])
  <2>1. MergingSteps(s, n, f)
    BY <1>1, MergingRuns
  <2>. HIDE DEF f
  <2>. QED  BY <2>1 DEF MergingSteps
<1>. HIDE DEF f, n
<1>4. Bad = {}
  <2>1. SUFFICES ASSUME Bad # {} PROVE FALSE
    OBVIOUS
  <2>2. Bad \in SUBSET Nat
    BY <1>1
  <2>3. PICK m \in Bad : \A k \in Bad : m <= k
    <3>. HIDE DEF Bad
    <3>. QED  BY <2>1, <2>2, LeastElement
  <2>4. CASE m = 0
    <3>1. f[0] = <<>> /\ Upto(0) = {}
      <4>1. 0 \in 0 .. n /\ ~ \E j : j \in 1 .. 0
        BY <1>1
      <4>. QED  BY <1>3, <4>1
    <3>2. RunsOf(<<>>, {})
      BY DEF RunsOf
    <3>. QED  BY <2>3, <2>4, <3>1, <3>2
  <2>5. CASE m # 0
    <3>1. m \in 1 .. n /\ m - 1 \in 0 .. n /\ m - 1 < m
      BY <1>1, <2>3, <2>5
    <3>2. RunsOf(f[m - 1], Upto(m - 1))
      <4>1. m - 1 \notin Bad
        <5>. HIDE DEF Bad
        <5>1. m \in Nat
          BY <3>1
        <5>. QED  BY <2>3, <3>1, <5>1
      <4>. QED  BY <3>1, <4>1
    <3>3. s[m] \in CursorRange /\ Upto(m - 1) \in SUBSET CursorRange
      <4>1. \A j \in 1 .. n : s[j] \in CursorRange
        BY <1>1
      <4>2. \A j \in 1 .. m - 1 : j \in 1 .. n
        BY <1>1, <3>1
      <4>. QED  BY <3>1, <4>1, <4>2
    <3>4. \A q \in Upto(m - 1) : q[1] <= s[m][1]
      <4>1. \A j \in 1 .. m - 1 : j \in 1 .. n /\ j < m
        BY <1>1, <3>1
      <4>. QED  BY <1>1, <3>1, <4>1
    <3>5. Upto(m) = Upto(m - 1) \cup {s[m]}
      <4>1. \A j : j \in 1 .. m <=> j \in 1 .. m - 1 \/ j = m
        BY <3>1
      <4>. QED  BY <4>1
    <3>6. f[m] = Absorb(f[m - 1], s[m])
      BY <1>3, <3>1
    <3>. HIDE DEF Upto
    <3>7. RunsOf(f[m], Upto(m))
      BY <3>2, <3>3, <3>4, <3>5, <3>6, AbsorbKeeps
    <3>. QED  BY <2>3, <3>7
  <2>. QED  BY <2>4, <2>5
<1>5. RunsOf(f[n], Upto(n))
  <2>1. n \in 0 .. n
    BY <1>1
  <2>. QED  BY <1>4, <2>1
<1>6. Upto(n) = R
  BY <1>1
<1>. HIDE DEF Upto
<1>. QED  BY <1>2, <1>5, <1>6

(* What the placing loop has made of p and the first n runs of M: the run  *)
(* that the cursor is in moves it to its end, those beyond stay pending.   *)
Reaches(m, p) == m[1] <= p.cursor /\ p.cursor < m[2]

Placed(acc, p, M, n) ==
  /\ acc = [cursor |-> acc.cursor, pending |-> acc.pending]
  /\ acc.cursor \in Nat /\ p.cursor <= acc.cursor
  /\ \/ acc.cursor = p.cursor /\ \A j \in 1 .. n : ~ Reaches(M[j], p)
     \/ \E j \in 1 .. n : Reaches(M[j], p) /\ acc.cursor = M[j][2]
  /\ \A m : m \in acc.pending <=> \E j \in 1 .. n : m = M[j] /\ acc.cursor < M[j][1]

(* One turn of the placing loop: the run that the cursor is in moves it to *)
(* its end, a run beyond it stays pending.                                 *)
LEMMA PlaceKeeps ==
  ASSUME NEW p, p.cursor \in Nat, NEW R, NEW M, RunsOf(M, R), NEW n \in 1 .. Len(M),
         NEW acc, Placed(acc, p, M, n - 1)
  PROVE  Placed(Place(acc, M[n]), p, M, n)
<1>. DEFINE r == M[n]
            new == Place(acc, r)
            N == Len(M)
<1>1. /\ N \in Nat
      /\ \A j \in 1 .. N : M[j][1] \in Nat /\ M[j][2] \in Nat /\ M[j][1] < M[j][2]
      /\ \A i, j \in 1 .. N : i < j => M[i][2] < M[j][1]
  BY RangeFacts DEF RunsOf
<1>. HIDE DEF N
<1>2. n \in 1 .. N
  BY DEF N
<1>3. /\ \A j : j \in 1 .. n <=> j \in 1 .. n - 1 \/ j = n
      /\ \A j \in 1 .. n - 1 : j \in 1 .. N /\ j < n
  BY <1>1, <1>2
<1>4. /\ r[1] \in Nat /\ r[2] \in Nat /\ r[1] < r[2]
      /\ \A j \in 1 .. n - 1 : /\ M[j][1] \in Nat /\ M[j][2] \in Nat /\ M[j][1] < M[j][2]
                               /\ M[j][2] < r[1]
  BY <1>1, <1>2, <1>3
<1>5. /\ acc = [cursor |-> acc.cursor, pending |-> acc.pending]
      /\ acc.cursor \in Nat /\ p.cursor \in Nat /\ p.cursor <= acc.cursor
  BY DEF Placed
<1>6. \/ acc.cursor = p.cursor /\ \A j \in 1 .. n - 1 : ~ Reaches(M[j], p)
      \/ \E j \in 1 .. n - 1 : Reaches(M[j], p) /\ acc.cursor = M[j][2]
  BY DEF Placed
<1>7. \A m : m \in acc.pending <=> \E j \in 1 .. n - 1 : m = M[j] /\ acc.cursor < M[j][1]
  BY DEF Placed
<1>8. CASE r[1] <= acc.cursor
  <2>. DEFINE end == IF r[2] > acc.cursor THEN r[2] ELSE acc.cursor
  <2>1. new = [cursor |-> end, pending |-> acc.pending]
    BY <1>5, <1>8 DEF Place
  <2>2. acc.cursor = p.cursor /\ \A j \in 1 .. n - 1 : ~ Reaches(M[j], p)
    <3>1. ASSUME NEW j \in 1 .. n - 1 PROVE acc.cursor # M[j][2]
      BY <1>4, <1>5, <1>8
    <3>. QED  BY <1>6, <3>1
  <2>3. end \in Nat /\ p.cursor <= end /\ r[1] <= end
    BY <1>4, <1>5, <1>8
  <2>4. \/ end = p.cursor /\ \A j \in 1 .. n : ~ Reaches(M[j], p)
        \/ \E j \in 1 .. n : Reaches(M[j], p) /\ end = M[j][2]
    <3>1. CASE r[2] > acc.cursor
      <4>1. Reaches(r, p) /\ end = r[2] /\ n \in 1 .. n
        BY <1>3, <1>8, <2>2, <1>4, <1>5, <3>1 DEF Reaches
      <4>. QED  BY <4>1
    <3>2. CASE ~ (r[2] > acc.cursor)
      <4>1. ~ Reaches(r, p) /\ end = p.cursor
        BY <1>4, <1>5, <2>2, <3>2 DEF Reaches
      <4>. QED  BY <1>3, <2>2, <4>1
    <3>. QED  BY <3>1, <3>2
  <2>5. \A j \in 1 .. n : ~ (end < M[j][1])
    <3>1. ~ (end < r[1])
      BY <1>4, <2>3
    <3>2. ASSUME NEW j \in 1 .. n - 1 PROVE ~ (end < M[j][1])
      BY <1>4, <2>3
    <3>. QED  BY <1>3, <3>1, <3>2
  <2>6. acc.pending = {}
    <3>1. ASSUME NEW j \in 1 .. n - 1 PROVE ~ (acc.cursor < M[j][1])
      BY <1>4, <1>5, <1>8
    <3>. QED  BY <1>7, <3>1
  <2>7. new.cursor = end /\ new.pending = {}
    BY <2>1, <2>6
  <2>. HIDE DEF end, new
  <2>. QED  BY <2>1, <2>3, <2>4, <2>5, <2>7 DEF Placed, new
<1>9. CASE ~ (r[1] <= acc.cursor)
  <2>1. new = [cursor |-> acc.cursor, pending |-> acc.pending \cup {r}]
    <3>1. r[2] > acc.cursor
      BY <1>4, <1>5, <1>9
    <3>. QED  BY <1>5, <1>9, <3>1 DEF Place
  <2>2. ~ Reaches(r, p) /\ acc.cursor < r[1]
    BY <1>4, <1>5, <1>9 DEF Reaches
  <2>3. \/ acc.cursor = p.cursor /\ \A j \in 1 .. n : ~ Reaches(M[j], p)
        \/ \E j \in 1 .. n : Reaches(M[j], p) /\ acc.cursor = M[j][2]
    BY <1>3, <1>6, <2>2
  <2>4. \A m : m \in acc.pending \cup {r} <=> \E j \in 1 .. n : m = M[j] /\ acc.cursor < M[j][1]
    BY <1>3, <1>7, <2>2
  <2>5. new.cursor = acc.cursor /\ new.pending = acc.pending \cup {r}
    BY <2>1
  <2>. HIDE DEF new
  <2>. QED  BY <1>5, <2>1, <2>3, <2>4, <2>5 DEF Placed, new
<1>. QED  BY <1>8, <1>9

(* The placing loop places all runs.                                       *)
LEMMA PlaceLoopPlaces ==
  ASSUME NEW p, p.cursor \in Nat, NEW R, NEW M, RunsOf(M, R)
  PROVE  Placed(PlaceLoop(p, M), p, M, Len(M))
<1>. DEFINE n == Len(M)
            first == [cursor |-> p.cursor, pending |-> {}]
            f == CHOOSE g : PlacingSteps(p, M, n, g)
            Bad == {i \in 0 .. n : ~ Placed(f[i], p, M, i)}
<1>1. n \in Nat
  BY DEF RunsOf
<1>2. PlaceLoop(p, M) = f[n]
  BY LoopsAre
<1>3. \A i \in 0 .. n : f[i] = IF i = 0 THEN first ELSE Place(f[i - 1], M[i])
  <2>. HIDE DEF n
  <2>1. PlacingSteps(p, M, n, f)
    BY <1>1, PlacingRuns
  <2>. HIDE DEF f
  <2>. QED  BY <2>1 DEF PlacingSteps
<1>. HIDE DEF f
<1>4. Bad = {}
  <2>1. SUFFICES ASSUME Bad # {} PROVE FALSE
    OBVIOUS
  <2>2. Bad \in SUBSET Nat
    BY <1>1
  <2>3. PICK m \in Bad : \A k \in Bad : m <= k
    <3>. HIDE DEF Bad
    <3>. QED  BY <2>1, <2>2, LeastElement
  <2>4. m \in 0 .. n /\ ~ Placed(f[m], p, M, m)
    OBVIOUS
  <2>5. CASE m = 0
    <3>1. f[0] = first
      <4>. HIDE DEF n, first
      <4>1. 0 \in 0 .. n
        BY <1>1
      <4>. QED  BY <1>3, <4>1
    <3>2. Placed(first, p, M, 0)
      BY DEF Placed
    <3>. QED  BY <2>4, <2>5, <3>1, <3>2
  <2>6. CASE m # 0
    <3>1. m \in 1 .. n /\ m - 1 \in 0 .. n /\ m - 1 < m /\ m \in Nat
      BY <1>1, <2>4, <2>6
    <3>2. m - 1 \notin Bad
      <4>. HIDE DEF Bad
      <4>. QED  BY <2>3, <3>1
    <3>3. Placed(f[m - 1], p, M, m - 1)
      BY <3>1, <3>2
    <3>4. f[m] = Place(f[m - 1], M[m])
      <4>. HIDE DEF n, first
      <4>. QED  BY <1>3, <3>1
    <3>5. Placed(f[m], p, M, m)
      BY <3>1, <3>3, <3>4, PlaceKeeps
    <3>. QED  BY <2>4, <3>5
  <2>. QED  BY <2>5, <2>6
<1>. QED
  <2>1. n \in 0 .. n
    BY <1>1
  <2>. HIDE DEF n
  <2>. QED  BY <1>2, <1>4, <2>1 DEF n

(* advance_replica_progress: its two loops over the sorted ranges compute  *)
(* the set form Advance, whatever pending ranges the record has: they may  *)
(* overlap, touch or lie below the cursor.                                 *)
THEOREM LoopIsAdvance ==
  ASSUME NEW p \in ReplicaProgress, IsFiniteSet(p.pending),
         NEW before \in Nat, NEW after \in Nat, before <= after
  PROVE  AdvanceLoop(p, before, after) = Advance(p, before, after)
<1>1. CASE before = after
  BY <1>1 DEF AdvanceLoop, Advance
<1>2. CASE before # after
  <2>. DEFINE R == p.pending \cup {<<before, after>>}
              M == MergeLoop(R)
              runs == Merged(R)
              reach == {m \in runs : m[1] <= p.cursor /\ p.cursor < m[2]}
              cursor == IF reach = {} THEN p.cursor ELSE (CHOOSE m \in reach : TRUE)[2]
              q == PlaceLoop(p, M)
  <2>1. R \in SUBSET CursorRange /\ p.cursor \in Nat
    BY <1>2 DEF ReplicaProgress, CursorRange
  <2>2. IsFiniteSet(R)
    BY FS_AddElement
  <2>3. RunsOf(M, R)
    <3>. HIDE DEF R
    <3>. QED  BY <2>1, <2>2, MergeLoopRuns
  <2>4. runs = {M[i] : i \in 1 .. Len(M)}
    <3>. HIDE DEF R, M
    <3>. QED  BY <2>1, <2>3, RunsAreMerged
  <2>5. Placed(q, p, M, Len(M))
    <3>. HIDE DEF R, M
    <3>. QED  BY <2>1, <2>3, PlaceLoopPlaces
  <2>6. AdvanceLoop(p, before, after) = q
    BY <1>2 DEF AdvanceLoop
  <2>7. Advance(p, before, after) = [cursor |-> cursor, pending |-> {m \in runs : m[1] > cursor}]
    BY <1>2 DEF Advance
  <2>8. \A i, j \in 1 .. Len(M) : Reaches(M[i], p) /\ Reaches(M[j], p) => i = j
    <3>. HIDE DEF R, M
    <3>1. /\ Len(M) \in Nat
          /\ \A i \in 1 .. Len(M) : M[i][1] \in Nat /\ M[i][2] \in Nat
          /\ \A i, j \in 1 .. Len(M) : i < j => M[i][2] < M[j][1]
      BY <2>3, RangeFacts DEF RunsOf
    <3>2. ASSUME NEW i \in 1 .. Len(M), NEW j \in 1 .. Len(M), Reaches(M[i], p), Reaches(M[j], p)
          PROVE  ~ (i < j)
      <4>1. M[i][1] \in Nat /\ M[i][2] \in Nat /\ M[j][1] \in Nat /\ M[j][2] \in Nat
        BY <3>1
      <4>2. i < j => M[i][2] < M[j][1]
        BY <3>1
      <4>3. M[j][1] <= p.cursor /\ p.cursor < M[i][2]
        BY <3>2 DEF Reaches
      <4>4. p.cursor \in Nat
        BY <2>1
      <4>. DEFINE x == M[i][2]
                  y == M[j][1]
                  z == p.cursor
      <4>5. x \in Nat /\ y \in Nat /\ z \in Nat /\ y <= z /\ z < x /\ (i < j => x < y)
        BY <4>1, <4>2, <4>3, <4>4
      <4>. HIDE DEF x, y, z
      <4>. QED  BY <4>5
    <3>. QED  BY <3>1, <3>2
  <2>. HIDE DEF R, M, runs
  <2>9. \A m : m \in reach <=> \E i \in 1 .. Len(M) : m = M[i] /\ Reaches(M[i], p)
    BY <2>4 DEF Reaches
  <2>. HIDE DEF q
  <2>10. q.cursor = cursor
    <3>1. CASE q.cursor = p.cursor /\ \A j \in 1 .. Len(M) : ~ Reaches(M[j], p)
      <4>1. reach = {}
        <5>. HIDE DEF reach
        <5>. QED  BY <2>9, <3>1
      <4>. QED  BY <3>1, <4>1
    <3>2. ASSUME NEW j \in 1 .. Len(M), Reaches(M[j], p), q.cursor = M[j][2]
          PROVE  q.cursor = cursor
      <4>. HIDE DEF reach
      <4>1. M[j] \in reach /\ \A m \in reach : m = M[j]
        BY <2>8, <2>9, <3>2
      <4>2. (CHOOSE m \in reach : TRUE) = M[j]
        BY <4>1
      <4>. QED  BY <3>2, <4>1, <4>2
    <3>. QED  BY <2>5, <3>1, <3>2 DEF Placed
  <2>. HIDE DEF cursor
  <2>11. q.pending = {m \in runs : m[1] > cursor}
    <3>1. cursor \in Nat /\ Len(M) \in Nat /\ \A i \in 1 .. Len(M) : M[i][1] \in Nat
      BY <2>3, <2>5, <2>10, RangeFacts DEF RunsOf, Placed
    <3>2. \A m : m \in q.pending <=> \E j \in 1 .. Len(M) : m = M[j] /\ cursor < M[j][1]
      BY <2>5, <2>10 DEF Placed
    <3>3. \A m : m \in {x \in runs : x[1] > cursor} <=> \E j \in 1 .. Len(M) : m = M[j] /\ cursor < M[j][1]
      BY <2>4, <3>1
    <3>. QED  BY <3>2, <3>3
  <2>12. q = [cursor |-> q.cursor, pending |-> q.pending]
    BY <2>5 DEF Placed
  <2>. QED  BY <2>6, <2>7, <2>10, <2>11, <2>12
<1>. QED  BY <1>1, <1>2

(* Ranges below a bound are finitely many, and so are their runs.          *)
LEMMA PendingFinite ==
  ASSUME NEW N \in Nat, NEW R \in SUBSET CursorRange, \A r \in R : r[2] <= N
  PROVE  IsFiniteSet(R) /\ IsFiniteSet(Merged(R)) /\ \A m \in Merged(R) : m[2] <= N
<1>. DEFINE box == (0 .. N) \X (0 .. N)
<1>1. IsFiniteSet(0 .. N)
  BY FS_Interval
<1>2. IsFiniteSet(box)
  BY <1>1, FS_Product
<1>3. \A S \in SUBSET CursorRange : (\A r \in S : r[2] <= N) => S \in SUBSET box
  <2>1. ASSUME NEW r \in CursorRange, r[2] <= N PROVE r \in box
    BY <2>1, RangeFacts
  <2>. HIDE DEF box
  <2>. QED  BY <2>1
<1>4. Merged(R) \in SUBSET CursorRange /\ \A m \in Merged(R) : m[2] <= N
  BY MergedType DEF Merged
<1>. HIDE DEF box
<1>. QED  BY <1>2, <1>3, <1>4, FS_Subset

(* A record whose ranges end in bounds keeps so, and accounts for exactly  *)
(* what it had and what arrived; once a range was folded in, the batches   *)
(* next to the cursor and to the pending ranges are missing.               *)
LEMMA AdvanceFacts ==
  ASSUME NEW N \in Nat, NEW p \in ReplicaProgress, p.cursor <= N, \A r \in p.pending : r[2] <= N,
         NEW before \in Nat, NEW after \in Nat, before <= after, after <= N
  PROVE  LET q == AdvanceLoop(p, before, after)
         IN /\ q = Advance(p, before, after)
            /\ q \in ReplicaProgress /\ q.cursor <= N /\ \A r \in q.pending : r[2] <= N
            /\ Covered(q) = Covered(p) \cup (before + 1) .. after
            /\ IF before = after THEN q = p
               ELSE ~ Stuck(q) /\ \A m \in q.pending : q.cursor < m[1]
<1>. DEFINE q == Advance(p, before, after)
            R == p.pending \cup {<<before, after>>}
            runs == Merged(R)
            reach == {m \in runs : m[1] <= p.cursor /\ p.cursor < m[2]}
            cursor == IF reach = {} THEN p.cursor ELSE (CHOOSE m \in reach : TRUE)[2]
<1>1. p.pending \in SUBSET CursorRange /\ IsFiniteSet(p.pending)
  BY PendingFinite DEF ReplicaProgress
<1>2. AdvanceLoop(p, before, after) = q
  BY <1>1, LoopIsAdvance
<1>3. q \in ReplicaProgress
  BY AdvanceType
<1>4. Covered(q) = Covered(p) \cup (before + 1) .. after
  BY AdvanceSound, AdvanceKeeps
<1>5. CASE before = after
  BY <1>2, <1>3, <1>4, <1>5 DEF Advance
<1>6. CASE before # after
  <2>1. R \in SUBSET CursorRange /\ \A r \in R : r[2] <= N
    BY <1>1, <1>6 DEF CursorRange
  <2>. HIDE DEF R
  <2>2. runs \in SUBSET CursorRange /\ Batches(runs) \subseteq Batches(R) /\ \A m \in runs : m[2] <= N
    BY <2>1, PendingFinite, MergedType
  <2>3. q.cursor = cursor /\ q.pending = {m \in runs : m[1] > cursor}
    BY <1>6 DEF Advance, R
  <2>4. \A m \in runs : m[1] \notin Batches(R) /\ m[2] + 1 \notin Batches(R)
    BY DEF Merged
  <2>. HIDE DEF runs
  <2>5. cursor \in Nat /\ cursor <= N
    <3>1. CASE reach = {}
      BY <3>1 DEF ReplicaProgress
    <3>2. CASE reach # {}
      BY <2>2, <3>2, RangeFacts
    <3>. QED  BY <3>1, <3>2
  <2>. HIDE DEF q, reach, cursor
  <2>6. q.pending \in SUBSET CursorRange /\ Batches(q.pending) \subseteq Batches(R)
    BY <2>2, <2>3 DEF Batches
  <2>7. \A m \in q.pending : /\ m[1] \in Nat /\ m[2] \in Nat /\ m[1] < m[2] /\ q.cursor < m[1]
                             /\ m[1] \notin Batches(R) /\ m[2] + 1 \notin Batches(R)
    BY <2>3, <2>4, <2>5, <2>6, RangeFacts
  <2>8. \A b : b \in Covered(q) <=> b \in 1 .. q.cursor \/ (b \in Nat /\ \E m \in q.pending : Holds(m, b))
    BY <2>6, BatchFacts DEF Covered
  <2>9. q.cursor + 1 \notin Covered(q)
    BY <2>3, <2>5, <2>7, <2>8 DEF Holds
  <2>10. ASSUME NEW m \in q.pending PROVE m[1] \notin Covered(q) /\ m[2] + 1 \notin Covered(q)
    <3>1. m[1] \notin 1 .. q.cursor /\ m[2] + 1 \notin 1 .. q.cursor
      BY <2>3, <2>5, <2>7
    <3>. QED  BY <2>6, <2>7, <3>1 DEF Covered
  <2>11. ~ Stuck(q)
    BY <2>9, <2>10 DEF Stuck
  <2>12. q.cursor <= N /\ \A r \in q.pending : r[2] <= N
    BY <2>2, <2>3, <2>5
  <2>. QED  BY <1>2, <1>3, <1>4, <1>6, <2>7, <2>11, <2>12 DEF q
<1>. QED  BY <1>5, <1>6

(* The parts of a case that the search over bounded records enumerates.    *)
LEMMA BoundedCases ==
  ASSUME NEW c \in Cases
  PROVE  /\ c[1] \in ReplicaProgress /\ c[1].cursor <= MaxCursor
         /\ \A r \in c[1].pending : r[2] <= MaxCursor
         /\ c[2][1] \in Nat /\ c[2][2] \in Nat /\ c[2][1] <= c[2][2] /\ c[2][2] <= MaxCursor
<1>1. PICK p \in Records, r \in Arrivals : c = <<p, r>>
  BY DEF Cases
<1>2. p.pending \in SUBSET Ranges /\ p = [cursor |-> p.cursor, pending |-> p.pending]
        /\ p.cursor \in 0 .. MaxCursor
  BY DEF Records
<1>3. \A x \in Ranges : x \in CursorRange /\ x[2] <= MaxCursor
  BY DEF Ranges, CursorRange
<1>4. p \in ReplicaProgress
  BY <1>2, <1>3 DEF ReplicaProgress
<1>5. r[1] \in Nat /\ r[2] \in Nat /\ r[1] <= r[2] /\ r[2] <= MaxCursor
  BY DEF Arrivals
<1>. QED  BY <1>1, <1>2, <1>3, <1>4, <1>5

(* The search over bounded records finds nothing, whatever the bound.      *)
LEMMA LoopsOfCases ==
  /\ Differing = {} /\ Misaccounted = {} /\ Stalled = {}
<1>1. ASSUME NEW c \in Cases
      PROVE  /\ Result[c] = Advance(c[1], c[2][1], c[2][2])
             /\ Covered(Result[c]) = Covered(c[1]) \cup (c[2][1] + 1) .. c[2][2]
             /\ c[2] \in Ranges => ~ Stuck(Result[c])
  <2>1. Result[c] = AdvanceLoop(c[1], c[2][1], c[2][2])
    BY DEF Result
  <2>2. c[2] \in Ranges => c[2][1] # c[2][2]
    BY DEF Ranges
  <2>3. MaxCursor \in Nat
    BY MaxCursorAssumption
  <2>. DEFINE q == AdvanceLoop(c[1], c[2][1], c[2][2])
  <2>4. /\ q = Advance(c[1], c[2][1], c[2][2])
        /\ Covered(q) = Covered(c[1]) \cup (c[2][1] + 1) .. c[2][2]
        /\ c[2][1] # c[2][2] => ~ Stuck(q)
    BY <2>3, BoundedCases, AdvanceFacts
  <2>. HIDE DEF q
  <2>. QED  BY <2>1, <2>2, <2>4 DEF q
<1>. QED  BY <1>1 DEF Differing, Misaccounted, Stalled

-------------------------------------------------------------------------------
(* The peer's log. *)

(* A finite set in some order is a sequence of its elements, as long as the*)
(* set has elements.                                                       *)
LEMMA ListFacts ==
  ASSUME NEW S, IsFiniteSet(S)
  PROVE  /\ Batch(S) \in Seq(S) /\ Len(Batch(S)) = Cardinality(S) /\ Cardinality(S) \in Nat
         /\ ToSet(Batch(S)) = S
<1>. DEFINE N == Cardinality(S)
            f == Batch(S)
<1>1. N \in Nat /\ ExistsBijection(1 .. N, S)
  BY FS_CardinalityType
<1>2. PICK g : g \in Bijection(1 .. N, S)
  BY <1>1 DEF ExistsBijection
<1>3. g \in [1 .. N -> S] /\ IsInjective(g)
  BY <1>2 DEF Bijection, Injection
<1>4. f = CHOOSE h \in [1 .. N -> S] : IsInjective(h)
  BY DEF Batch, SetToSeq
<1>. HIDE DEF f
<1>5. f \in [1 .. N -> S] /\ IsInjective(f)
  BY <1>3, <1>4
<1>6. IsFiniteSet(1 .. N) /\ Cardinality(1 .. N) = N
  BY <1>1, FS_Interval
<1>7. f \in Injection(1 .. N, S)
  BY <1>5 DEF Injection
<1>8. f \in Surjection(1 .. N, S)
  BY <1>6, <1>7, FS_Injection
<1>9. \A x \in S : \E i \in 1 .. N : f[i] = x
  BY <1>8 DEF Surjection
<1>. HIDE DEF N
<1>10. f \in Seq(S) /\ Len(f) = N /\ DOMAIN f = 1 .. N
  BY <1>1, <1>5
<1>11. ToSet(f) = S
  BY <1>5, <1>9, <1>10 DEF ToSet
<1>. QED  BY <1>1, <1>10, <1>11 DEF f, N

(* The elements of a log are finitely many operations.                     *)
LEMMA ElementsFinite ==
  ASSUME NEW s \in Seq(Op)
  PROVE  /\ IsFiniteSet(ToSet(s)) /\ Cardinality(ToSet(s)) <= Len(s) /\ ToSet(s) \subseteq Op
         /\ Len(s) \in Nat /\ DOMAIN s = 1 .. Len(s)
<1>1. Len(s) \in Nat /\ DOMAIN s = 1 .. Len(s) /\ s \in [1 .. Len(s) -> Op]
  OBVIOUS
<1>2. s \in Surjection(1 .. Len(s), ToSet(s))
  BY <1>1 DEF Surjection, ToSet
<1>3. IsFiniteSet(1 .. Len(s)) /\ Cardinality(1 .. Len(s)) = Len(s)
  BY <1>1, FS_Interval
<1>4. IsFiniteSet(ToSet(s)) /\ Cardinality(ToSet(s)) <= Len(s)
  BY <1>2, <1>3, FS_Surjection
<1>5. ToSet(s) \subseteq Op
  BY <1>1 DEF ToSet
<1>. QED  BY <1>1, <1>4, <1>5

(* append_many leaves what is there in place.                              *)
LEMMA AppendedFacts ==
  ASSUME NEW s \in Streams, NEW event, IsFiniteSet(event), event \subseteq Op,
         event \cap ToSet(s.ops) = {}, Len(s.ops) + Cardinality(event) <= MaxOps
  PROVE  LET t == Appended(s, event)
         IN /\ t \in Streams
            /\ ToSet(t.ops) = ToSet(s.ops) \cup event
            /\ Len(s.ops) \in Nat /\ Len(t.ops) \in Nat /\ Len(s.ops) <= Len(t.ops)
            /\ \A i \in 1 .. Len(s.ops) : t.ops[i] = s.ops[i]
<1>. DEFINE fresh == event \ ToSet(s.ops)
            n == Len(s.ops)
            more == Batch(event)
            t == Appended(s, event)
            c == Cardinality(event)
<1>1. /\ s.ops \in Seq(Op) /\ n \in Nat /\ s.ends \in SUBSET Nat /\ s.ends \subseteq 1 .. n
      /\ s.ops # <<>> => n \in s.ends
  BY DEF Streams
<1>2. fresh = event
  OBVIOUS
<1>3. /\ more \in Seq(event) /\ Len(more) = c /\ c \in Nat /\ ToSet(more) = event
  BY ListFacts
<1>4. CASE event = {}
  <2>1. t = s
    BY <1>2, <1>4 DEF Appended
  <2>. QED  BY <1>1, <1>4, <2>1
<1>5. CASE event # {}
  <2>1. t = [ops |-> s.ops \o more, ends |-> s.ends \cup {n + c}]
    BY <1>2, <1>5 DEF Appended
  <2>2. c # 0
    BY <1>5, FS_EmptySet
  <2>3. n + c <= MaxOps
    OBVIOUS
  <2>. DEFINE all == s.ops \o more
  <2>4. more \in Seq(Op)
    BY <1>3
  <2>. HIDE DEF more, c
  <2>5. /\ all \in Seq(Op) /\ Len(all) = n + c
        /\ \A i \in 1 .. n : all[i] = s.ops[i]
        /\ \A i \in 1 .. c : all[n + i] = more[i]
    BY <1>1, <1>3, <2>4
  <2>6. ToSet(all) = ToSet(s.ops) \cup event
    <3>1. DOMAIN all = 1 .. n + c /\ DOMAIN s.ops = 1 .. n /\ DOMAIN more = 1 .. c
      BY <1>1, <1>3, <2>4, <2>5
    <3>. HIDE DEF all, n
    <3>2. ASSUME NEW i \in 1 .. n + c PROVE all[i] \in ToSet(s.ops) \cup ToSet(more)
      <4>1. CASE i \in 1 .. n
        BY <2>5, <3>1, <4>1 DEF ToSet
      <4>2. CASE i \notin 1 .. n
        <5>1. i - n \in 1 .. c /\ n + (i - n) = i
          BY <1>1, <1>3, <4>2
        <5>2. all[i] = more[i - n]
          BY <2>5, <5>1
        <5>. QED  BY <3>1, <5>1, <5>2 DEF ToSet
      <4>. QED  BY <4>1, <4>2
    <3>3. ASSUME NEW i \in 1 .. n PROVE s.ops[i] \in ToSet(all)
      <4>1. i \in 1 .. n + c
        BY <1>1, <1>3
      <4>. QED  BY <2>5, <3>1, <4>1 DEF ToSet
    <3>4. ASSUME NEW i \in 1 .. c PROVE more[i] \in ToSet(all)
      <4>1. n + i \in 1 .. n + c
        BY <1>1, <1>3
      <4>. QED  BY <2>5, <3>1, <4>1 DEF ToSet
    <3>5. ToSet(all) \subseteq ToSet(s.ops) \cup ToSet(more)
      BY <3>1, <3>2 DEF ToSet
    <3>6. ToSet(s.ops) \subseteq ToSet(all) /\ ToSet(more) \subseteq ToSet(all)
      BY <3>1, <3>3, <3>4 DEF ToSet
    <3>. QED  BY <1>3, <3>5, <3>6
  <2>7. t.ops = all /\ t.ends = s.ends \cup {n + c} /\ t \in [ops : Seq(Op), ends : SUBSET Nat]
    BY <1>1, <1>3, <2>1, <2>5
  <2>8. t.ends \subseteq 1 .. n + c
    BY <1>1, <1>3, <2>2, <2>7
  <2>. HIDE DEF all, t, n
  <2>9. t \in Streams
    BY <2>3, <2>5, <2>7, <2>8 DEF Streams
  <2>10. n <= n + c
    BY <1>1, <1>3
  <2>. QED  BY <1>1, <1>3, <2>5, <2>6, <2>7, <2>9, <2>10 DEF t, n
<1>. QED  BY <1>4, <1>5

(* compact_oplog writes a log of what is kept.                             *)
LEMMA CompactedFacts ==
  ASSUME NEW s \in Streams, NEW together \in BOOLEAN
  PROVE  LET kept == Batch(Compacted(ToSet(s.ops), Registry))
             t == [ops |-> kept, ends |-> IF together THEN {Len(kept)} \ {0} ELSE 1 .. Len(kept)]
         IN t \in Streams /\ ToSet(kept) = Compacted(ToSet(s.ops), Registry)
<1>. DEFINE left == Compacted(ToSet(s.ops), Registry)
            kept == Batch(left)
            ends == IF together THEN {Len(kept)} \ {0} ELSE 1 .. Len(kept)
            t == [ops |-> kept, ends |-> ends]
<1>1. s.ops \in Seq(Op) /\ Len(s.ops) <= MaxOps
  BY DEF Streams
<1>2. left \subseteq ToSet(s.ops)
  BY CompactedKeeps DEF Keeps
<1>. HIDE DEF left
<1>3. IsFiniteSet(left) /\ Cardinality(left) <= Cardinality(ToSet(s.ops)) /\ left \subseteq Op
  BY <1>1, <1>2, ElementsFinite, FS_Subset
<1>4. /\ kept \in Seq(left) /\ Len(kept) = Cardinality(left) /\ Cardinality(left) \in Nat
      /\ ToSet(kept) = left
  BY <1>3, ListFacts
<1>5. Cardinality(ToSet(s.ops)) \in Nat /\ Cardinality(ToSet(s.ops)) <= Len(s.ops) /\ Len(s.ops) \in Nat
  BY <1>1, ElementsFinite, FS_CardinalityType
<1>6. Len(kept) <= MaxOps /\ MaxOps \in Nat
  BY <1>1, <1>3, <1>4, <1>5, PeerAssumption, MaxCursorAssumption
<1>7. kept \in Seq(Op) /\ Len(kept) \in Nat
  BY <1>3, <1>4
<1>. HIDE DEF kept
<1>8. /\ ends \in SUBSET Nat /\ ends \subseteq 1 .. Len(kept)
      /\ kept # <<>> => Len(kept) \in ends
  BY <1>7
<1>. HIDE DEF ends
<1>9. t \in Streams
  BY <1>6, <1>7, <1>8 DEF Streams
<1>. QED  BY <1>4, <1>9 DEF kept, left, ends

(* read_after hands out what follows the cursor, up to a batch's end.      *)
LEMMA SliceFacts ==
  ASSUME stream \in Streams, NEW cursor \in Nat, Readable(cursor), NEW limit
  PROVE  LET d == Slice(cursor, limit)
         IN /\ d.log = compactions /\ d.before = cursor
            /\ d.after \in Nat /\ cursor <= d.after /\ d.after <= Len(stream.ops)
            /\ d.ops \subseteq ToSet(stream.ops)
            /\ \A i \in cursor + 1 .. d.after : i \in 1 .. Len(stream.ops) /\ stream.ops[i] \in d.ops
<1>. DEFINE later == {e \in stream.ends : e > cursor}
            enough == {e \in later : e - cursor >= limit}
            n == Len(stream.ops)
            to == ReadTo(cursor, limit)
            d == Slice(cursor, limit)
<1>1. stream.ops \in Seq(Op) /\ n \in Nat /\ stream.ends \subseteq 1 .. n
  BY DEF Streams
<1>2. cursor <= n
  BY <1>1 DEF Readable
<1>3. IsFiniteSet(1 .. n)
  BY <1>1, FS_Interval
<1>4. later \in SUBSET (1 .. n) /\ enough \in SUBSET (1 .. n) /\ enough \subseteq later
  BY <1>1
<1>5. IsFiniteSet(later) /\ IsFiniteSet(enough) /\ later \in SUBSET Int /\ enough \in SUBSET Int
  BY <1>3, <1>4, FS_Subset
<1>6. /\ later # {} => Max(later) \in later
      /\ enough # {} => Min(enough) \in enough
  BY <1>5, MaxFacts, MinFacts
<1>7. to = CASE later = {} -> cursor
             [] later # {} /\ enough = {} -> Max(later)
             [] OTHER -> Min(enough)
  BY DEF ReadTo
<1>8. \A e \in later : e \in Nat /\ cursor <= e /\ e <= n
  BY <1>1
<1>. HIDE DEF to, later, enough
<1>9. to = cursor \/ to \in later
  BY <1>4, <1>6, <1>7
<1>10. to \in Nat /\ cursor <= to /\ to <= n
  BY <1>2, <1>8, <1>9
<1>. DEFINE part == SubSeq(stream.ops, cursor + 1, to)
<1>11. /\ d.log = compactions /\ d.before = cursor /\ d.after = to /\ d.ops = ToSet(part)
  BY DEF Slice, to
<1>. HIDE DEF d
<1>12. \A i \in cursor + 1 .. to : i \in 1 .. n /\ stream.ops[i] \in ToSet(stream.ops)
  <2>1. DOMAIN stream.ops = 1 .. n
    BY <1>1
  <2>. HIDE DEF n
  <2>2. \A i \in cursor + 1 .. to : i \in 1 .. n
    BY <1>1, <1>10
  <2>. QED  BY <2>1, <2>2 DEF ToSet
<1>13. /\ part \in Seq(ToSet(stream.ops))
       /\ Len(part) = IF cursor + 1 <= to THEN to - (cursor + 1) + 1 ELSE 0
       /\ \A i \in 1 .. to - (cursor + 1) + 1 : part[i] = stream.ops[cursor + 1 + i - 1]
  <2>1. cursor + 1 \in Int /\ to \in Int
    BY <1>10
  <2>. QED  BY <1>12, <2>1, SubSeqProperties
<1>. HIDE DEF part, n
<1>14. DOMAIN part = 1 .. to - cursor
  <2>1. Len(part) = to - cursor
    BY <1>10, <1>13
  <2>. QED  BY <1>13, <2>1
<1>15. ToSet(part) \subseteq ToSet(stream.ops)
  BY <1>13 DEF ToSet
<1>16. ASSUME NEW i \in cursor + 1 .. to PROVE stream.ops[i] \in ToSet(part)
  <2>1. i - cursor \in 1 .. to - cursor /\ i - cursor \in 1 .. to - (cursor + 1) + 1
          /\ cursor + 1 + (i - cursor) - 1 = i
    BY <1>10
  <2>2. part[i - cursor] = stream.ops[i]
    BY <1>13, <2>1
  <2>. QED  BY <1>14, <2>1, <2>2 DEF ToSet
<1>. QED  BY <1>10, <1>11, <1>12, <1>15, <1>16 DEF d, n

-------------------------------------------------------------------------------
(* The inductive invariant.  Progress lies within the logs there can be    *)
(* and stops at gaps; a delta of the present log holds what it spans; the  *)
(* present log keeps what shows of everything the peer ever held.          *)
ReceiptInv ==
  /\ receipt \in ReplicaProgress /\ receipt.cursor <= MaxOps
  /\ \A r \in receipt.pending : r[2] <= MaxOps
  /\ ~ Stuck(receipt) /\ \A r \in receipt.pending : receipt.cursor < r[1]

DeltaInv(d) ==
  /\ d.log \in Nat /\ d.log <= compactions
  /\ d.before \in Nat /\ d.after \in Nat /\ d.before <= d.after /\ d.after <= MaxOps
  /\ d.ops \subseteq held
  /\ d.log = compactions =>
       \A i \in d.before + 1 .. d.after : i \in 1 .. Len(stream.ops) /\ stream.ops[i] \in d.ops

Backed == \A i \in Covered(receipt) : i \in 1 .. Len(stream.ops) /\ stream.ops[i] \in known

PeerInv ==
  /\ stream \in Streams /\ compactions \in 0 .. MaxCompactions
  /\ known \subseteq held /\ continuous \in BOOLEAN
  /\ Keeps(ToSet(stream.ops), held, Registry)
  /\ ReceiptInv
  /\ \A d \in net : DeltaInv(d)
  /\ continuous => Backed

(* An empty record acknowledges nothing.                                   *)
LEMMA NoProgressFacts ==
  /\ NoProgress \in ReplicaProgress /\ NoProgress.cursor = 0 /\ NoProgress.pending = {}
  /\ Covered(NoProgress) = {} /\ ~ Stuck(NoProgress)
BY DEF NoProgress, ReplicaProgress, Covered, Batches, Stuck

(* The bounds are numbers, and cursors have room for the log.              *)
LEMMA PeerBounds == MaxOps \in Nat /\ MaxOps <= MaxCursor /\ MaxCursor \in Nat
BY PeerAssumption, MaxCursorAssumption

(* The invariant holds of the empty peer and its receiver.                 *)
LEMMA InitInv == Init => PeerInv
<1>. SUFFICES ASSUME Init PROVE PeerInv
  OBVIOUS
<1>1. stream \in Streams /\ compactions \in 0 .. MaxCompactions
  BY PeerAssumption DEF Init
<1>2. Keeps(ToSet(stream.ops), held, Registry)
  BY DEF Init, Keeps
<1>3. ReceiptInv /\ Backed
  BY NoProgressFacts, PeerBounds DEF Init, ReceiptInv, Backed
<1>. QED  BY <1>1, <1>2, <1>3 DEF Init, PeerInv

(* A delta that the invariant vouches for is taken in.                     *)
LEMMA ReceivedKeeps ==
  ASSUME PeerInv, NEW d, DeltaInv(d), Received(d)
  PROVE  /\ ReceiptInv'
         /\ known \subseteq known' /\ known' \subseteq held
         /\ continuous /\ (d.log = compactions \/ d.before = d.after) =>
              \A i \in Covered(receipt') : i \in 1 .. Len(stream.ops) /\ stream.ops[i] \in known'
<1>1. ReceiptInv /\ MaxOps \in Nat
  BY PeerBounds DEF PeerInv
<1>2. /\ receipt' \in ReplicaProgress /\ receipt'.cursor <= MaxOps
      /\ \A r \in receipt'.pending : r[2] <= MaxOps
      /\ Covered(receipt') = Covered(receipt) \cup (d.before + 1) .. d.after
      /\ IF d.before = d.after THEN receipt' = receipt
         ELSE ~ Stuck(receipt') /\ \A r \in receipt'.pending : receipt'.cursor < r[1]
  BY <1>1, AdvanceFacts DEF Received, ReceiptInv, DeltaInv
<1>3. ReceiptInv'
  <2>1. ~ Stuck(receipt') /\ \A r \in receipt'.pending : receipt'.cursor < r[1]
    BY <1>1, <1>2 DEF ReceiptInv
  <2>. QED  BY <1>2, <2>1 DEF ReceiptInv, Stuck
<1>4. known' = known \cup d.ops /\ d.ops \subseteq held /\ known \subseteq held
  BY DEF Received, DeltaInv, PeerInv
<1>5. ASSUME continuous, d.log = compactions \/ d.before = d.after, NEW i \in Covered(receipt')
      PROVE  i \in 1 .. Len(stream.ops) /\ stream.ops[i] \in known'
  <2>1. CASE i \in Covered(receipt)
    BY <1>4, <1>5, <2>1 DEF PeerInv, Backed
  <2>2. CASE i \in (d.before + 1) .. d.after
    <3>1. d.before # d.after
      BY <2>2 DEF DeltaInv
    <3>. QED  BY <1>4, <1>5, <2>2, <3>1 DEF DeltaInv
  <2>. QED  BY <1>2, <1>5, <2>1, <2>2
<1>. QED  BY <1>3, <1>4, <1>5

(* A commit on the peer keeps the invariant.                               *)
LEMMA CommitKeeps ==
  ASSUME PeerInv, NEW event \in Event, Commit(event)
  PROVE  PeerInv'
<1>1. event \subseteq Op /\ IsFiniteSet(event)
  BY PeerAssumption
<1>2. event \cap ToSet(stream.ops) = {} /\ Keeps(ToSet(stream.ops), held, Registry)
  BY DEF Commit, PeerInv, Keeps
<1>3. /\ stream' \in Streams /\ ToSet(stream'.ops) = ToSet(stream.ops) \cup event
      /\ Len(stream.ops) \in Nat /\ Len(stream'.ops) \in Nat /\ Len(stream.ops) <= Len(stream'.ops)
      /\ \A i \in 1 .. Len(stream.ops) : stream'.ops[i] = stream.ops[i]
  BY <1>1, <1>2, AppendedFacts DEF Commit, PeerInv
<1>4. /\ held' = held \cup event
      /\ UNCHANGED <<compactions, net, known, receipt, continuous>>
  BY DEF Commit
<1>5. \A i \in 1 .. Len(stream.ops) : i \in 1 .. Len(stream'.ops)
  BY <1>3
<1>6. Keeps(ToSet(stream'.ops), held', Registry)
  <2>1. Keeps(ToSet(stream.ops) \cup event, held \cup event, Registry)
    BY <1>2, KeepsGrowing
  <2>. QED  BY <1>3, <1>4, <2>1
<1>7. ASSUME NEW d \in net PROVE DeltaInv(d)'
  <2>1. DeltaInv(d)
    BY DEF PeerInv
  <2>. QED  BY <1>3, <1>4, <1>5, <2>1 DEF DeltaInv
<1>8. Backed => Backed'
  BY <1>3, <1>4, <1>5 DEF Backed
<1>9. ReceiptInv'
  BY <1>4 DEF PeerInv, ReceiptInv, Stuck
<1>. QED  BY <1>3, <1>4, <1>6, <1>7, <1>8, <1>9 DEF PeerInv

(* What the peer cuts from its log after a readable cursor is a delta that *)
(* accounts for the positions it spans.                                    *)
LEMMA SliceDelta ==
  ASSUME PeerInv, Readable(receipt.cursor), NEW limit
  PROVE  DeltaInv(Slice(receipt.cursor, limit)) /\ Slice(receipt.cursor, limit).log = compactions
<1>. DEFINE d == Slice(receipt.cursor, limit)
<1>1. receipt.cursor \in Nat /\ stream \in Streams
  BY DEF PeerInv, ReceiptInv, ReplicaProgress
<1>2. /\ d.log = compactions /\ d.before = receipt.cursor
      /\ d.after \in Nat /\ receipt.cursor <= d.after /\ d.after <= Len(stream.ops)
      /\ d.ops \subseteq ToSet(stream.ops)
      /\ \A i \in receipt.cursor + 1 .. d.after :
           i \in 1 .. Len(stream.ops) /\ stream.ops[i] \in d.ops
  BY <1>1, SliceFacts
<1>3. Len(stream.ops) \in Nat /\ Len(stream.ops) <= MaxOps /\ compactions \in Nat
  BY PeerAssumption DEF PeerInv, Streams
<1>4. ToSet(stream.ops) \subseteq held
  BY DEF PeerInv, Keeps
<1>. HIDE DEF d
<1>5. d.after <= MaxOps
  BY <1>2, <1>3, PeerBounds
<1>6. DeltaInv(d)
  BY <1>1, <1>2, <1>3, <1>4, <1>5 DEF DeltaInv
<1>. QED  BY <1>2, <1>6 DEF d

(* An export keeps the invariant.                                          *)
LEMMA ExportKeeps ==
  ASSUME PeerInv, NEW limit \in 1 .. MaxOps, Export(limit)
  PROVE  PeerInv'
<1>1. /\ net' = net \cup {Slice(receipt.cursor, limit)}
      /\ UNCHANGED <<stream, compactions, known, receipt, held, continuous>>
  BY DEF Export
<1>2. DeltaInv(Slice(receipt.cursor, limit))
  BY SliceDelta DEF Export
<1>3. \A d \in net' : DeltaInv(d)
  BY <1>1, <1>2 DEF PeerInv
<1>4. \A d \in net' : DeltaInv(d)'
  BY <1>1, <1>3 DEF DeltaInv
<1>. QED  BY <1>1, <1>4 DEF PeerInv, ReceiptInv, Backed, Stuck

(* The receipt of a delta, however late and however often, keeps the       *)
(* invariant.                                                              *)
LEMMA ApplyKeeps ==
  ASSUME PeerInv, NEW d \in net, Apply(d)
  PROVE  PeerInv'
<1>1. /\ Received(d)
      /\ continuous' = (continuous /\ (d.log = compactions \/ d.before = d.after))
      /\ UNCHANGED <<stream, compactions, net, held>>
  BY DEF Apply
<1>2. DeltaInv(d)
  BY DEF PeerInv
<1>3. /\ ReceiptInv'
      /\ known' \subseteq held
      /\ continuous /\ (d.log = compactions \/ d.before = d.after) =>
           \A i \in Covered(receipt') : i \in 1 .. Len(stream.ops) /\ stream.ops[i] \in known'
  BY <1>1, <1>2, ReceivedKeeps
<1>4. continuous' => Backed'
  BY <1>1, <1>3 DEF Backed
<1>5. \A x \in net : DeltaInv(x)'
  BY <1>1 DEF PeerInv, DeltaInv
<1>6. continuous' \in BOOLEAN
  BY <1>1
<1>. QED  BY <1>1, <1>3, <1>4, <1>5, <1>6 DEF PeerInv

(* A synchronisation in one call keeps the invariant.                      *)
LEMMA SyncKeeps ==
  ASSUME PeerInv, NEW limit \in 1 .. MaxOps, Sync(limit)
  PROVE  PeerInv'
<1>. DEFINE d == Slice(receipt.cursor, limit)
<1>1. Received(d) /\ UNCHANGED <<stream, compactions, net, held, continuous>>
  BY DEF Sync
<1>2. DeltaInv(d) /\ d.log = compactions
  BY SliceDelta DEF Sync
<1>. HIDE DEF d
<1>3. /\ ReceiptInv'
      /\ known' \subseteq held
      /\ continuous =>
           \A i \in Covered(receipt') : i \in 1 .. Len(stream.ops) /\ stream.ops[i] \in known'
  BY <1>1, <1>2, ReceivedKeeps
<1>4. continuous' => Backed'
  BY <1>1, <1>3 DEF Backed
<1>5. \A x \in net : DeltaInv(x)'
  BY <1>1 DEF PeerInv, DeltaInv
<1>. QED  BY <1>1, <1>3, <1>4, <1>5 DEF PeerInv

(* A compaction keeps the invariant, whether it rewrites the log in one    *)
(* batch or in several.                                                    *)
LEMMA CompactKeeps ==
  ASSUME PeerInv, NEW together \in BOOLEAN, Compact(together)
  PROVE  PeerInv'
<1>1. /\ compactions < MaxCompactions /\ compactions' = compactions + 1
      /\ continuous' = (receipt = NoProgress)
      /\ UNCHANGED <<net, known, receipt, held>>
  BY DEF Compact
<1>2. stream' \in Streams /\ ToSet(stream'.ops) = Compacted(ToSet(stream.ops), Registry)
  BY CompactedFacts DEF Compact, PeerInv
<1>3. compactions \in Nat /\ MaxCompactions \in Nat
  BY PeerAssumption DEF PeerInv
<1>4. compactions' \in 0 .. MaxCompactions
  BY <1>1, <1>3
<1>5. Keeps(ToSet(stream'.ops), held', Registry)
  <2>1. Keeps(ToSet(stream'.ops), ToSet(stream.ops), Registry)
    BY <1>2, CompactedKeeps
  <2>2. Keeps(ToSet(stream.ops), held, Registry)
    BY DEF PeerInv
  <2>. QED  BY <1>1, <2>1, <2>2, KeepsTransitive
<1>6. ASSUME NEW d \in net PROVE DeltaInv(d)'
  <2>1. DeltaInv(d)
    BY DEF PeerInv
  <2>2. d.log \in Nat /\ d.log <= compactions' /\ d.log # compactions'
    BY <1>1, <1>3, <2>1 DEF DeltaInv
  <2>. QED  BY <1>1, <2>1, <2>2 DEF DeltaInv
<1>7. continuous' => Backed'
  BY <1>1, NoProgressFacts DEF Backed
<1>8. ReceiptInv' /\ continuous' \in BOOLEAN
  BY <1>1 DEF PeerInv, ReceiptInv, Stuck
<1>. QED  BY <1>1, <1>2, <1>4, <1>5, <1>6, <1>7, <1>8 DEF PeerInv

(* A reset of the receiver's progress keeps the invariant.                 *)
LEMMA ResetKeeps ==
  ASSUME PeerInv, Reset
  PROVE  PeerInv'
<1>1. receipt' = NoProgress /\ continuous' = TRUE /\ UNCHANGED <<stream, compactions, net, known, held>>
  BY DEF Reset
<1>2. ReceiptInv' /\ Backed'
  BY <1>1, NoProgressFacts, PeerBounds DEF ReceiptInv, Backed
<1>3. \A x \in net : DeltaInv(x)'
  BY <1>1 DEF PeerInv, DeltaInv
<1>. QED  BY <1>1, <1>2, <1>3 DEF PeerInv

(* A merge of the whole log of the peer keeps the invariant.               *)
LEMMA MergeFromKeeps ==
  ASSUME PeerInv, MergeFrom
  PROVE  PeerInv'
<1>1. UNCHANGED <<stream, compactions, net, receipt, held, continuous>>
  BY DEF MergeFrom
<1>2. known' = known \cup ToSet(stream.ops)
  BY DEF MergeFrom, Union, LogOf
<1>3. known' \subseteq held
  BY <1>2 DEF PeerInv, Keeps
<1>4. Backed => Backed'
  BY <1>1, <1>2 DEF Backed
<1>5. \A x \in net : DeltaInv(x)'
  BY <1>1 DEF PeerInv, DeltaInv
<1>6. ReceiptInv'
  BY <1>1 DEF PeerInv, ReceiptInv, Stuck
<1>. QED  BY <1>1, <1>3, <1>4, <1>5, <1>6 DEF PeerInv

(* The invariant holds in every reachable state.                           *)
LEMMA PeerInvariant == Spec => []PeerInv
<1>1. PeerInv /\ [Next]_vars => PeerInv'
  <2>. SUFFICES ASSUME PeerInv, [Next]_vars PROVE PeerInv'
    OBVIOUS
  <2>1. CASE UNCHANGED vars
    BY <2>1 DEF vars, PeerInv, ReceiptInv, Backed, DeltaInv, Stuck
  <2>2. CASE Next
    BY <2>2, CommitKeeps, ExportKeeps, ApplyKeeps, SyncKeeps, CompactKeeps, ResetKeeps, MergeFromKeeps
       DEF Next
  <2>. QED  BY <2>1, <2>2
<1>. QED  BY <1>1, InitInv, PTL DEF Spec

-------------------------------------------------------------------------------
(* A log keeps to its bounds and positions, and whatever is in transit or  *)
(* known was held by the peer once.                                        *)
THEOREM PeerTypeCorrect == Spec => []TypeOK
<1>1. PeerInv => TypeOK
  <2>. SUFFICES ASSUME PeerInv PROVE TypeOK
    OBVIOUS
  <2>1. receipt.cursor \in 0 .. MaxCursor
    BY PeerBounds DEF PeerInv, ReceiptInv, ReplicaProgress
  <2>2. receipt.pending \subseteq Ranges
    <3>1. ASSUME NEW r \in receipt.pending PROVE r \in Ranges
      <4>1. r \in CursorRange /\ r[2] <= MaxOps
        BY DEF PeerInv, ReceiptInv, ReplicaProgress
      <4>2. r = <<r[1], r[2]>> /\ r[1] \in 0 .. MaxCursor /\ r[2] \in 0 .. MaxCursor /\ r[1] < r[2]
        BY <4>1, RangeFacts, PeerBounds
      <4>. QED  BY <4>2 DEF Ranges
    <3>. QED  BY <3>1
  <2>. QED  BY <2>1, <2>2 DEF PeerInv, DeltaInv, TypeOK
<1>. QED  BY <1>1, PeerInvariant, PTL

(* compact_projection_equivalent_with_report, for any claims, retractions  *)
(* and decisions: whatever the peer does after compactions, its log shows  *)
(* what the whole of its history would.                                    *)
THEOREM CompactionGoesUnnoticed == Spec => []CompactionUnnoticed
<1>1. PeerInv => CompactionUnnoticed
  BY KeepsSeen DEF PeerInv, CompactionUnnoticed
<1>. QED  BY <1>1, PeerInvariant, PTL

(* A receiver whose progress is about the present log has what it          *)
(* acknowledges, and shows what the peer shows once it is caught up.       *)
THEOREM ProgressSoundSinceReset == Spec => []SoundSinceReset
<1>1. PeerInv => SoundSinceReset
  <2>. SUFFICES ASSUME PeerInv, continuous PROVE SoundSinceReset
    BY DEF SoundSinceReset
  <2>1. Backed /\ Len(stream.ops) \in Nat /\ DOMAIN stream.ops = 1 .. Len(stream.ops)
    BY DEF PeerInv, Streams
  <2>2. ASSUME receipt.cursor = Len(stream.ops)
        PROVE  Seen(known, Registry) = Seen(held, Registry)
    <3>1. 1 .. Len(stream.ops) \subseteq Covered(receipt)
      BY <2>2 DEF Covered
    <3>2. ToSet(stream.ops) \subseteq known
      BY <2>1, <3>1 DEF Backed, ToSet
    <3>3. Keeps(known, held, Registry)
      BY <3>2, KeepsBetween DEF PeerInv
    <3>. QED  BY <3>3, KeepsSeen
  <2>. QED  BY <2>1, <2>2 DEF SoundSinceReset, Backed
<1>. QED  BY <1>1, PeerInvariant, PTL

(* advance_replica_progress neither loses a batch that was received nor    *)
(* acknowledges one that was not.                                          *)
THEOREM ProgressAccountedFor == Spec => []NothingLostOrInvented
<1>1. PeerInv => NothingLostOrInvented
  <2>. SUFFICES ASSUME PeerInv, NEW d \in net
                PROVE  Covered(AdvanceLoop(receipt, d.before, d.after))
                         = Covered(receipt) \cup (d.before + 1) .. d.after
    BY LoopsOfCases DEF NothingLostOrInvented
  <2>. QED  BY AdvanceFacts, PeerBounds DEF PeerInv, ReceiptInv, DeltaInv
<1>. QED  BY <1>1, PeerInvariant, PTL

(* The cursor stops at a batch that is missing, and so does every pending  *)
(* range at both of its ends.                                              *)
THEOREM CursorsStop == Spec => []CursorStopsAtGap
<1>1. PeerInv => CursorStopsAtGap
  BY LoopsOfCases DEF PeerInv, ReceiptInv, CursorStopsAtGap
<1>. QED  BY <1>1, PeerInvariant, PTL

(* Progress that stops at gaps has fewer ranges than positions.            *)
LEMMA FewPending ==
  ASSUME ReceiptInv
  PROVE  MaxOps <= MaxPending + 1 => Cardinality(receipt.pending) <= MaxPending
<1>. DEFINE P == receipt.pending
            start == [r \in P |-> r[1]]
            N == MaxOps
<1>1. P \in SUBSET CursorRange /\ receipt.cursor \in Nat
  BY DEF ReceiptInv, ReplicaProgress
<1>2. N \in Nat /\ MaxPending \in Nat
  BY PeerBounds, MaxCursorAssumption
<1>3. \A r \in P : r[2] + 1 \notin Covered(receipt)
  BY DEF ReceiptInv, Stuck
<1>4. \A r \in P : \A b \in Nat : Holds(r, b) => b \in Covered(receipt)
  BY <1>1, BatchFacts DEF Covered
<1>5. ASSUME NEW r \in P PROVE r[1] \in 1 .. N - 1
  <2>1. r[1] \in Nat /\ r[2] \in Nat /\ r[1] < r[2] /\ r[2] <= N
    BY <1>1, RangeFacts DEF ReceiptInv
  <2>2. receipt.cursor < r[1]
    BY DEF ReceiptInv
  <2>. QED  BY <1>1, <1>2, <2>1, <2>2
<1>6. ASSUME NEW r \in P, NEW s \in P, r[1] = s[1] PROVE r = s
  <2>1. /\ r = <<r[1], r[2]>> /\ s = <<s[1], s[2]>> /\ r[1] \in Nat /\ r[2] \in Nat /\ s[2] \in Nat
        /\ r[1] < r[2] /\ s[1] < s[2]
    BY <1>1, RangeFacts
  <2>2. ~ Holds(s, r[2] + 1) /\ ~ Holds(r, s[2] + 1)
    BY <1>3, <1>4, <2>1
  <2>3. r[2] = s[2]
    BY <1>6, <2>1, <2>2 DEF Holds
  <2>. QED  BY <1>6, <2>1, <2>3
<1>7. start \in Injection(P, 1 .. N - 1)
  <2>1. start \in [P -> 1 .. N - 1]
    BY <1>5
  <2>. QED  BY <1>6, <2>1 DEF Injection, IsInjective
<1>8. IsFiniteSet(1 .. N - 1) /\ Cardinality(1 .. N - 1) = IF 1 > N - 1 THEN 0 ELSE N - 1
  <2>1. 1 \in Int /\ N - 1 \in Int /\ N - 1 - 1 + 1 = N - 1
    BY <1>2
  <2>. QED  BY <2>1, FS_Interval
<1>9. IsFiniteSet(P) /\ Cardinality(P) <= Cardinality(1 .. N - 1)
  BY <1>7, <1>8, FS_Injection
<1>10. Cardinality(P) \in Nat
  BY <1>9, FS_CardinalityType
<1>. QED  BY <1>2, <1>8, <1>9, <1>10

(* The two loops compute what the set form defines, for every record that  *)
(* is tried; and with enough pending ranges tried, every record there is.  *)
THEOREM LoopsComputeRuns ==
  ASSUME MaxOps <= MaxPending + 1
  PROVE  Spec => []LoopComputesRuns
<1>1. PeerInv => LoopComputesRuns
  <2>. SUFFICES ASSUME PeerInv PROVE receipt \in Records
    BY LoopsOfCases DEF LoopComputesRuns
  <2>1. receipt \in ReplicaProgress /\ ReceiptInv
    BY DEF PeerInv, ReceiptInv
  <2>2. receipt.cursor \in 0 .. MaxCursor
    BY <2>1, PeerBounds DEF ReceiptInv, ReplicaProgress
  <2>3. receipt.pending \in SUBSET Ranges
    <3>1. ASSUME NEW r \in receipt.pending PROVE r \in Ranges
      <4>1. r \in CursorRange /\ r[2] <= MaxOps
        BY <2>1 DEF ReceiptInv, ReplicaProgress
      <4>2. r = <<r[1], r[2]>> /\ r[1] \in 0 .. MaxCursor /\ r[2] \in 0 .. MaxCursor /\ r[1] < r[2]
        BY <4>1, RangeFacts, PeerBounds
      <4>. QED  BY <4>2 DEF Ranges
    <3>. QED  BY <3>1
  <2>4. Cardinality(receipt.pending) <= MaxPending
    BY <2>1, FewPending
  <2>5. receipt = [cursor |-> receipt.cursor, pending |-> receipt.pending]
    BY <2>1 DEF ReplicaProgress
  <2>. QED  BY <2>2, <2>3, <2>4, <2>5 DEF Records
<1>. QED  BY <1>1, PeerInvariant, PTL

(* Merging is the same in any order, reports are complete, and the logs of *)
(* the peer and of the receiver never keep each other's operations out.    *)
THEOREM MergesAlwaysAgree == Spec => []MergesAgree
<1>1. MergesAgree
  <2>. DEFINE a == LogOf(known)
              b == LogOf(ToSet(stream.ops))
  <2>1. Union(a, b) = LogOf(known \cup ToSet(stream.ops))
    BY DEF Union, LogOf
  <2>2. MergeChecked(a, b).merged = Union(a, b)
    BY DEF MergeChecked
  <2>. QED  BY <2>1, <2>2, MergeOrderIrrelevant, ReportsComplete DEF MergesAgree
<1>. QED  BY <1>1, PTL
===============================================================================
