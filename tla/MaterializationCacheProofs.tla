----------------------- MODULE MaterializationCacheProofs -----------------------
(***************************************************************************)
(* The memory's materialisation cache is exact for any claims, keys,       *)
(* values of the constants, lengths of the log and interleavings of        *)
(* appends, rebuilds, registrations, restarts and reads:                   *)
(*                                                                         *)
(*   1. each operation, and so each batch, applied to the fold of a set of *)
(*      operations gives the fold of the larger set (ApplyBatchExact),     *)
(*      also when some of the batch was in the set already;                *)
(*   2. a delta reports all that changed, so that updating the records of  *)
(*      the old state by it gives those of the new one (UpdatedExact), and *)
(*      the deltas of a chain combine to a delta of the whole way;         *)
(*   3. the inductive invariant Inv says of which operations the cached    *)
(*      and the saved state are, what each delta of the history tells, and *)
(*      which records a consumer has; every step preserves it;             *)
(*   4. the properties of the module follow from it.                       *)
(***************************************************************************)
EXTENDS MaterializationCache, FiniteSetTheorems, SequenceTheorems, WellFoundedInduction, TLAPS

(* A nonempty set of natural numbers has a least element.                  *)
LEMMA LeastElement ==
  ASSUME NEW T \in SUBSET Nat, T # {}
  PROVE  \E n \in T : \A m \in T : n <= m
<1>. DEFINE R == OpToRel(<, Nat)
<1>1. \E n \in T : \A m \in T : <<m, n>> \notin R
  <2>. HIDE DEF R
  <2>1. IsWellFoundedOn(R, Nat)
    BY NatLessThanWellFounded DEF R
  <2>. QED  BY <2>1, WFMin
<1>2. ASSUME NEW m \in Nat, NEW n \in Nat, <<m, n>> \notin R
      PROVE  n <= m
  BY <1>2 DEF OpToRel
<1>. HIDE DEF R
<1>. QED  BY <1>1, <1>2

(* The fold of a batch, as ApplyBatch begins with.                         *)
Applied(base, rev, batch) == FoldLeft(LAMBDA a, o : ApplyOp(a, rev, o), base, batch)

(* The results of applying the operations of a batch one after another.    *)
Steps(f, base, rev, batch) ==
  /\ f[0] = base
  /\ \A i \in 1 .. Len(batch) : f[i] = ApplyOp(f[i - 1], rev, batch[i])

(* What a batch folds to is the last of the results of its operations, one *)
(* after another: FoldLeft never skips or repeats one.                     *)
LEMMA FoldSteps ==
  ASSUME NEW base, NEW rev, NEW batch \in Seq(Op)
  PROVE  \E f : Steps(f, base, rev, batch) /\ Applied(base, rev, batch) = f[Len(batch)]
<1>. DEFINE N == Len(batch)
            Top(s) == CHOOSE x \in s : \A y \in s : x >= y
            Iter(h, S) == [s \in SUBSET S |-> IF s = {} THEN base
                                           ELSE ApplyOp(h[s \ {Top(s)}], rev, batch[Top(s)])]
            g == CHOOSE h : h = Iter(h, 1 .. N)
<1>1. N \in Nat /\ DOMAIN batch = 1 .. N
  OBVIOUS
<1>2. Applied(base, rev, batch) = g[1 .. N]
  BY <1>1 DEF Applied, FoldLeft, MapThenFoldSet, Max
<1>3. \A n \in 0 .. N : \E h : h = Iter(h, 1 .. n)
  <2>. DEFINE Bad == {n \in 0 .. N : ~ \E h : h = Iter(h, 1 .. n)}
  <2>1. SUFFICES ASSUME Bad # {} PROVE FALSE
    OBVIOUS
  <2>2. PICK n \in Bad : \A m \in Bad : n <= m
    <3>. HIDE DEF Iter
    <3>1. Bad \in SUBSET Nat
      BY <1>1
    <3>. HIDE DEF Bad
    <3>. QED  BY <2>1, <3>1, LeastElement
  <2>3. n # 0
    <3>1. ASSUME n = 0 PROVE FALSE
      <4>. DEFINE h == [s \in SUBSET (1 .. 0) |-> base]
      <4>1. 1 .. 0 = {}
        OBVIOUS
      <4>2. h = Iter(h, 1 .. 0)
        BY <4>1
      <4>. QED  BY <2>2, <3>1, <4>2
    <3>. QED  BY <3>1
  <2>4. n - 1 \in 0 .. N /\ n - 1 \notin Bad /\ n \in 1 .. N
    <3>. HIDE DEF Iter
    <3>1. n \in 0 .. N
      BY <2>2
    <3>2. n - 1 \in 0 .. N /\ n \in 1 .. N /\ ~ n <= n - 1
      BY <1>1, <2>3, <3>1
    <3>. QED  BY <2>2, <3>2
  <2>5. PICK h : h = Iter(h, 1 .. (n - 1))
    BY <2>4
  <2>. DEFINE H == [s \in SUBSET (1 .. n) |-> IF n \in s THEN ApplyOp(h[s \ {n}], rev, batch[n])
                                              ELSE h[s]]
  <2>6. ASSUME NEW s \in SUBSET (1 .. n), n \in s
        PROVE  Top(s) = n /\ s \ {n} \in SUBSET (1 .. (n - 1))
    <3>1. n \in Nat /\ \A y \in s : n >= y
      BY <2>4, <2>6
    <3>2. \A x \in s : (\A y \in s : x >= y) => x = n
      BY <2>4, <2>6
    <3>3. Top(s) = n
      BY <2>6, <3>1, <3>2
    <3>. HIDE DEF Top
    <3>. QED  BY <2>4, <2>6, <3>3
  <2>7. ASSUME NEW s \in SUBSET (1 .. n), n \notin s
        PROVE  s \in SUBSET (1 .. (n - 1))
    BY <2>4, <2>7
  <2>. HIDE DEF Top
  <2>8. ASSUME NEW s \in SUBSET (1 .. n)
        PROVE  H[s] = IF s = {} THEN base ELSE ApplyOp(H[s \ {Top(s)}], rev, batch[Top(s)])
    <3>1. CASE n \in s
      <4>1. H[s] = ApplyOp(h[s \ {n}], rev, batch[n]) /\ H[s \ {n}] = h[s \ {n}]
        BY <2>6, <3>1
      <4>. QED  BY <2>6, <3>1, <4>1
    <3>2. CASE n \notin s
      <4>1. H[s] = h[s] /\ s \in SUBSET (1 .. (n - 1))
        BY <2>7, <3>2
      <4>2. h[s] = IF s = {} THEN base ELSE ApplyOp(h[s \ {Top(s)}], rev, batch[Top(s)])
        BY <2>5, <4>1
      <4>3. H[s \ {Top(s)}] = h[s \ {Top(s)}]
        BY <3>2, <4>1
      <4>. QED  BY <4>1, <4>2, <4>3
    <3>. QED  BY <3>1, <3>2
  <2>9. H = Iter(H, 1 .. n)
    <3>. HIDE DEF H
    <3>1. H = [s \in SUBSET (1 .. n) |-> H[s]]
      BY DEF H
    <3>. QED  BY <2>8, <3>1
  <2>. QED  BY <2>2, <2>9
<1>4. g = Iter(g, 1 .. N)
  <2>1. \E h : h = Iter(h, 1 .. N)
    <3>. HIDE DEF Iter
    <3>1. N \in 0 .. N
      BY <1>1
    <3>. QED  BY <1>3, <3>1
  <2>. HIDE DEF Iter
  <2>. QED  BY <2>1
<1>. HIDE DEF g
<1>. DEFINE f == [i \in 0 .. N |-> g[1 .. i]]
<1>5. g[{}] = base
  BY <1>4
<1>6. ASSUME NEW i \in 1 .. N
      PROVE  g[1 .. i] = ApplyOp(g[1 .. (i - 1)], rev, batch[i])
  <2>1. 1 .. i \in SUBSET (1 .. N) /\ i \in 1 .. i /\ (1 .. i) \ {i} = 1 .. (i - 1)
    BY <1>1, <1>6
  <2>2. Top(1 .. i) = i
    <3>1. \A x \in 1 .. i : (\A y \in 1 .. i : x >= y) => x = i
      BY <1>1, <1>6
    <3>2. \A y \in 1 .. i : i >= y
      BY <1>1, <1>6
    <3>. QED  BY <2>1, <3>1, <3>2
  <2>. HIDE DEF Top
  <2>3. g[1 .. i] = ApplyOp(g[(1 .. i) \ {Top(1 .. i)}], rev, batch[Top(1 .. i)])
    BY <1>4, <2>1
  <2>. QED  BY <2>1, <2>2, <2>3
<1>7. Steps(f, base, rev, batch)
  <2>1. f[0] = base
    <3>1. 1 .. 0 = {} /\ 0 \in 0 .. N
      BY <1>1
    <3>. QED  BY <1>5, <3>1
  <2>2. ASSUME NEW i \in 1 .. N
        PROVE  f[i] = ApplyOp(f[i - 1], rev, batch[i])
    <3>1. i \in 0 .. N /\ i - 1 \in 0 .. N
      BY <1>1, <2>2
    <3>. QED  BY <1>6, <3>1
  <2>. QED  BY <2>1, <2>2 DEF Steps
<1>8. f[N] = g[1 .. N]
  BY <1>1
<1>. QED  BY <1>2, <1>7, <1>8

-------------------------------------------------------------------------------
(* The parts of the state that a set of operations folds to.               *)

ClaimsOf(ops) == {o.claim : o \in Of(ops, "claim")}

IdsOut(ops) == {o.target : o \in Of(ops, "retraction")} \ {None}

RefsOut(ops) == {o.ref : o \in Of(ops, "retraction")} \ {None}

EvidenceIn(ops) == {o.evidence : o \in Of(ops, "evidence")}

SourcesIn(ops) == {o.source : o \in Of(ops, "source")}

Out(ops, rev) == IdsOut(ops) \cup {c \in ClaimsOf(ops) : RefOf[rev][c] \in RefsOut(ops)}

Held(ops, rev) == [k \in Key |-> {c \in ClaimsOf(ops) \ Out(ops, rev) : KeyOf[c] = k}]

PairsOn(active, rev) == [k \in Key |-> {p \in Apart[rev] : p \subseteq active[k]}]

ConflictsOn(pairs, evidence, sources) == [k \in Key |-> Conflict(pairs[k], evidence, sources)]

(* The lifecycle, evidence and membership of a state are those of ops.     *)
Gathers(s, ops, rev) ==
  /\ s.claims = ClaimsOf(ops) /\ s.byId = IdsOut(ops) /\ s.byRef = RefsOut(ops)
  /\ s.inactive = Out(ops, rev) /\ s.active = Held(ops, rev)
  /\ s.evidence = EvidenceIn(ops) /\ s.sources = SourcesIn(ops)
  /\ s.resolutions = Of(ops, "resolution") /\ s.events = Of(ops, "event")

(* A state, a delta, have their fields and no others.                      *)
IsState(s) ==
  s = [claims |-> s.claims, byId |-> s.byId, byRef |-> s.byRef, inactive |-> s.inactive,
       active |-> s.active, pairs |-> s.pairs, evidence |-> s.evidence, sources |-> s.sources,
       conflict |-> s.conflict, resolutions |-> s.resolutions, events |-> s.events,
       lane |-> s.lane]

IsDelta(d) ==
  d = [claims |-> d.claims, conflicts |-> d.conflicts, keys |-> d.keys, refs |-> d.refs,
       resolutions |-> d.resolutions]

(* The fields of the full fold.                                            *)
LEMMA FullFields ==
  ASSUME NEW ops, NEW rev
  PROVE  /\ IsState(Full(ops, rev)) /\ Gathers(Full(ops, rev), ops, rev)
         /\ Full(ops, rev).pairs = PairsOn(Full(ops, rev).active, rev)
         /\ Full(ops, rev).conflict = ConflictsOn(Full(ops, rev).pairs, Full(ops, rev).evidence,
                                                  Full(ops, rev).sources)
         /\ Full(ops, rev).lane = Lanes(Full(ops, rev).resolutions, Full(ops, rev).events,
                                        Full(ops, rev).conflict)
<1>. DEFINE pairs == PairsOn(Held(ops, rev), rev)
            conflict == ConflictsOn(pairs, EvidenceIn(ops), SourcesIn(ops))
            full == [claims |-> ClaimsOf(ops), byId |-> IdsOut(ops), byRef |-> RefsOut(ops),
                     inactive |-> Out(ops, rev), active |-> Held(ops, rev), pairs |-> pairs,
                     evidence |-> EvidenceIn(ops), sources |-> SourcesIn(ops),
                     conflict |-> conflict, resolutions |-> Of(ops, "resolution"),
                     events |-> Of(ops, "event"),
                     lane |-> Lanes(Of(ops, "resolution"), Of(ops, "event"), conflict)]
<1>1. Full(ops, rev) = full
  BY DEF Full, ClaimsOf, IdsOut, RefsOut, EvidenceIn, SourcesIn, Out, Held, PairsOn, ConflictsOn
<1>. QED  BY <1>1 DEF IsState, Gathers

(* Two states with the same fields are one.                                *)
LEMMA SameState ==
  ASSUME NEW s, IsState(s), NEW ops, NEW rev, Gathers(s, ops, rev),
         s.pairs = PairsOn(s.active, rev),
         s.conflict = ConflictsOn(s.pairs, s.evidence, s.sources),
         s.lane = Lanes(s.resolutions, s.events, s.conflict)
  PROVE  s = Full(ops, rev)
<1>. DEFINE t == Full(ops, rev)
<1>1. /\ IsState(t) /\ Gathers(t, ops, rev) /\ t.pairs = PairsOn(t.active, rev)
      /\ t.conflict = ConflictsOn(t.pairs, t.evidence, t.sources)
      /\ t.lane = Lanes(t.resolutions, t.events, t.conflict)
  BY FullFields
<1>. HIDE DEF t
<1>2. /\ s.claims = t.claims /\ s.byId = t.byId /\ s.byRef = t.byRef /\ s.inactive = t.inactive
      /\ s.active = t.active /\ s.evidence = t.evidence /\ s.sources = t.sources
      /\ s.resolutions = t.resolutions /\ s.events = t.events
  BY <1>1 DEF Gathers
<1>3. s.pairs = t.pairs /\ s.conflict = t.conflict /\ s.lane = t.lane
  BY <1>1, <1>2
<1>4. s = t
  BY <1>1, <1>2, <1>3 DEF IsState
<1>. QED  BY <1>4 DEF t

(* What an operation adds to the parts of a set of operations.             *)
LEMMA OneMore ==
  ASSUME NEW ops, NEW o
  PROVE  /\ o.kind # "claim" => ClaimsOf(ops \cup {o}) = ClaimsOf(ops)
         /\ o.kind = "claim" => ClaimsOf(ops \cup {o}) = ClaimsOf(ops) \cup {o.claim}
         /\ o.kind # "retraction" => /\ IdsOut(ops \cup {o}) = IdsOut(ops)
                                     /\ RefsOut(ops \cup {o}) = RefsOut(ops)
         /\ o.kind = "retraction" => /\ IdsOut(ops \cup {o}) = IdsOut(ops) \cup ({o.target} \ {None})
                                     /\ RefsOut(ops \cup {o}) = RefsOut(ops) \cup ({o.ref} \ {None})
         /\ o.kind # "evidence" => EvidenceIn(ops \cup {o}) = EvidenceIn(ops)
         /\ o.kind = "evidence" => EvidenceIn(ops \cup {o}) = EvidenceIn(ops) \cup {o.evidence}
         /\ o.kind # "source" => SourcesIn(ops \cup {o}) = SourcesIn(ops)
         /\ o.kind = "source" => SourcesIn(ops \cup {o}) = SourcesIn(ops) \cup {o.source}
         /\ o.kind # "resolution" => Of(ops \cup {o}, "resolution") = Of(ops, "resolution")
         /\ o.kind = "resolution" => Of(ops \cup {o}, "resolution") = Of(ops, "resolution") \cup {o}
         /\ o.kind # "event" => Of(ops \cup {o}, "event") = Of(ops, "event")
         /\ o.kind = "event" => Of(ops \cup {o}, "event") = Of(ops, "event") \cup {o}
<1>1. /\ o.kind # "claim" => Of(ops \cup {o}, "claim") = Of(ops, "claim")
      /\ o.kind = "claim" => Of(ops \cup {o}, "claim") = Of(ops, "claim") \cup {o}
  BY DEF Of
<1>2. /\ o.kind # "retraction" => Of(ops \cup {o}, "retraction") = Of(ops, "retraction")
      /\ o.kind = "retraction" => Of(ops \cup {o}, "retraction") = Of(ops, "retraction") \cup {o}
  BY DEF Of
<1>3. /\ o.kind # "evidence" => Of(ops \cup {o}, "evidence") = Of(ops, "evidence")
      /\ o.kind = "evidence" => Of(ops \cup {o}, "evidence") = Of(ops, "evidence") \cup {o}
  BY DEF Of
<1>4. /\ o.kind # "source" => Of(ops \cup {o}, "source") = Of(ops, "source")
      /\ o.kind = "source" => Of(ops \cup {o}, "source") = Of(ops, "source") \cup {o}
  BY DEF Of
<1>5. /\ o.kind # "resolution" => Of(ops \cup {o}, "resolution") = Of(ops, "resolution")
      /\ o.kind = "resolution" => Of(ops \cup {o}, "resolution") = Of(ops, "resolution") \cup {o}
  BY DEF Of
<1>6. /\ o.kind # "event" => Of(ops \cup {o}, "event") = Of(ops, "event")
      /\ o.kind = "event" => Of(ops \cup {o}, "event") = Of(ops, "event") \cup {o}
  BY DEF Of
<1>7. /\ o.kind # "claim" => ClaimsOf(ops \cup {o}) = ClaimsOf(ops)
      /\ o.kind = "claim" => ClaimsOf(ops \cup {o}) = ClaimsOf(ops) \cup {o.claim}
  BY <1>1 DEF ClaimsOf
<1>8. /\ o.kind # "retraction" => IdsOut(ops \cup {o}) = IdsOut(ops)
      /\ o.kind = "retraction" => IdsOut(ops \cup {o}) = IdsOut(ops) \cup ({o.target} \ {None})
  BY <1>2 DEF IdsOut
<1>9. /\ o.kind # "retraction" => RefsOut(ops \cup {o}) = RefsOut(ops)
      /\ o.kind = "retraction" => RefsOut(ops \cup {o}) = RefsOut(ops) \cup ({o.ref} \ {None})
  BY <1>2 DEF RefsOut
<1>10. /\ o.kind # "evidence" => EvidenceIn(ops \cup {o}) = EvidenceIn(ops)
       /\ o.kind = "evidence" => EvidenceIn(ops \cup {o}) = EvidenceIn(ops) \cup {o.evidence}
  BY <1>3 DEF EvidenceIn
<1>11. /\ o.kind # "source" => SourcesIn(ops \cup {o}) = SourcesIn(ops)
       /\ o.kind = "source" => SourcesIn(ops \cup {o}) = SourcesIn(ops) \cup {o.source}
  BY <1>4 DEF SourcesIn
<1>. QED  BY <1>5, <1>6, <1>7, <1>8, <1>9, <1>10, <1>11

(* What a source adds to them.                                             *)
LEMMA SourceAdds ==
  ASSUME NEW ops, NEW o, o.kind = "source"
  PROVE  /\ ClaimsOf(ops \cup {o}) = ClaimsOf(ops)
         /\ IdsOut(ops \cup {o}) = IdsOut(ops)
         /\ RefsOut(ops \cup {o}) = RefsOut(ops)
         /\ EvidenceIn(ops \cup {o}) = EvidenceIn(ops)
         /\ SourcesIn(ops \cup {o}) = SourcesIn(ops) \cup {o.source}
         /\ Of(ops \cup {o}, "resolution") = Of(ops, "resolution")
         /\ Of(ops \cup {o}, "event") = Of(ops, "event")
<1>1. ClaimsOf(ops \cup {o}) = ClaimsOf(ops)
  BY OneMore
<1>2. IdsOut(ops \cup {o}) = IdsOut(ops)
  BY OneMore
<1>3. RefsOut(ops \cup {o}) = RefsOut(ops)
  BY OneMore
<1>4. EvidenceIn(ops \cup {o}) = EvidenceIn(ops)
  BY OneMore
<1>5. SourcesIn(ops \cup {o}) = SourcesIn(ops) \cup {o.source}
  BY DEF SourcesIn, Of
<1>6. Of(ops \cup {o}, "resolution") = Of(ops, "resolution")
  BY OneMore
<1>7. Of(ops \cup {o}, "event") = Of(ops, "event")
  BY OneMore
<1>. QED  BY <1>1, <1>2, <1>3, <1>4, <1>5, <1>6, <1>7

(* What an evidence adds to them.                                          *)
LEMMA EvidenceAdds ==
  ASSUME NEW ops, NEW o, o.kind = "evidence"
  PROVE  /\ ClaimsOf(ops \cup {o}) = ClaimsOf(ops)
         /\ IdsOut(ops \cup {o}) = IdsOut(ops)
         /\ RefsOut(ops \cup {o}) = RefsOut(ops)
         /\ EvidenceIn(ops \cup {o}) = EvidenceIn(ops) \cup {o.evidence}
         /\ SourcesIn(ops \cup {o}) = SourcesIn(ops)
         /\ Of(ops \cup {o}, "resolution") = Of(ops, "resolution")
         /\ Of(ops \cup {o}, "event") = Of(ops, "event")
<1>1. ClaimsOf(ops \cup {o}) = ClaimsOf(ops)
  BY OneMore
<1>2. IdsOut(ops \cup {o}) = IdsOut(ops)
  BY OneMore
<1>3. RefsOut(ops \cup {o}) = RefsOut(ops)
  BY OneMore
<1>4. EvidenceIn(ops \cup {o}) = EvidenceIn(ops) \cup {o.evidence}
  BY DEF EvidenceIn, Of
<1>5. SourcesIn(ops \cup {o}) = SourcesIn(ops)
  BY OneMore
<1>6. Of(ops \cup {o}, "resolution") = Of(ops, "resolution")
  BY OneMore
<1>7. Of(ops \cup {o}, "event") = Of(ops, "event")
  BY OneMore
<1>. QED  BY <1>1, <1>2, <1>3, <1>4, <1>5, <1>6, <1>7

(* What a claim adds to them.                                              *)
LEMMA ClaimAdds ==
  ASSUME NEW ops, NEW o, o.kind = "claim"
  PROVE  /\ ClaimsOf(ops \cup {o}) = ClaimsOf(ops) \cup {o.claim}
         /\ IdsOut(ops \cup {o}) = IdsOut(ops)
         /\ RefsOut(ops \cup {o}) = RefsOut(ops)
         /\ EvidenceIn(ops \cup {o}) = EvidenceIn(ops)
         /\ SourcesIn(ops \cup {o}) = SourcesIn(ops)
         /\ Of(ops \cup {o}, "resolution") = Of(ops, "resolution")
         /\ Of(ops \cup {o}, "event") = Of(ops, "event")
<1>1. ClaimsOf(ops \cup {o}) = ClaimsOf(ops) \cup {o.claim}
  BY DEF ClaimsOf, Of
<1>2. IdsOut(ops \cup {o}) = IdsOut(ops)
  BY OneMore
<1>3. RefsOut(ops \cup {o}) = RefsOut(ops)
  BY OneMore
<1>4. EvidenceIn(ops \cup {o}) = EvidenceIn(ops)
  BY OneMore
<1>5. SourcesIn(ops \cup {o}) = SourcesIn(ops)
  BY OneMore
<1>6. Of(ops \cup {o}, "resolution") = Of(ops, "resolution")
  BY OneMore
<1>7. Of(ops \cup {o}, "event") = Of(ops, "event")
  BY OneMore
<1>. QED  BY <1>1, <1>2, <1>3, <1>4, <1>5, <1>6, <1>7

(* What a retraction adds to them.                                         *)
LEMMA RetractionAdds ==
  ASSUME NEW ops, NEW o, o.kind = "retraction"
  PROVE  /\ ClaimsOf(ops \cup {o}) = ClaimsOf(ops)
         /\ IdsOut(ops \cup {o}) = IdsOut(ops) \cup ({o.target} \ {None})
         /\ RefsOut(ops \cup {o}) = RefsOut(ops) \cup ({o.ref} \ {None})
         /\ EvidenceIn(ops \cup {o}) = EvidenceIn(ops)
         /\ SourcesIn(ops \cup {o}) = SourcesIn(ops)
         /\ Of(ops \cup {o}, "resolution") = Of(ops, "resolution")
         /\ Of(ops \cup {o}, "event") = Of(ops, "event")
<1>1. ClaimsOf(ops \cup {o}) = ClaimsOf(ops)
  BY OneMore
<1>2. IdsOut(ops \cup {o}) = IdsOut(ops) \cup ({o.target} \ {None})
  BY OneMore
<1>3. RefsOut(ops \cup {o}) = RefsOut(ops) \cup ({o.ref} \ {None})
  BY OneMore
<1>4. EvidenceIn(ops \cup {o}) = EvidenceIn(ops)
  BY OneMore
<1>5. SourcesIn(ops \cup {o}) = SourcesIn(ops)
  BY OneMore
<1>6. Of(ops \cup {o}, "resolution") = Of(ops, "resolution")
  BY OneMore
<1>7. Of(ops \cup {o}, "event") = Of(ops, "event")
  BY OneMore
<1>. QED  BY <1>1, <1>2, <1>3, <1>4, <1>5, <1>6, <1>7

(* What a resolution adds to them.                                         *)
LEMMA ResolutionAdds ==
  ASSUME NEW ops, NEW o, o.kind = "resolution"
  PROVE  /\ ClaimsOf(ops \cup {o}) = ClaimsOf(ops)
         /\ IdsOut(ops \cup {o}) = IdsOut(ops)
         /\ RefsOut(ops \cup {o}) = RefsOut(ops)
         /\ EvidenceIn(ops \cup {o}) = EvidenceIn(ops)
         /\ SourcesIn(ops \cup {o}) = SourcesIn(ops)
         /\ Of(ops \cup {o}, "resolution") = Of(ops, "resolution") \cup {o}
         /\ Of(ops \cup {o}, "event") = Of(ops, "event")
<1>1. ClaimsOf(ops \cup {o}) = ClaimsOf(ops)
  BY OneMore
<1>2. IdsOut(ops \cup {o}) = IdsOut(ops)
  BY OneMore
<1>3. RefsOut(ops \cup {o}) = RefsOut(ops)
  BY OneMore
<1>4. EvidenceIn(ops \cup {o}) = EvidenceIn(ops)
  BY OneMore
<1>5. SourcesIn(ops \cup {o}) = SourcesIn(ops)
  BY OneMore
<1>6. Of(ops \cup {o}, "resolution") = Of(ops, "resolution") \cup {o}
  BY DEF Of
<1>7. Of(ops \cup {o}, "event") = Of(ops, "event")
  BY OneMore
<1>. QED  BY <1>1, <1>2, <1>3, <1>4, <1>5, <1>6, <1>7

(* What an event adds to them.                                             *)
LEMMA EventAdds ==
  ASSUME NEW ops, NEW o, o.kind = "event"
  PROVE  /\ ClaimsOf(ops \cup {o}) = ClaimsOf(ops)
         /\ IdsOut(ops \cup {o}) = IdsOut(ops)
         /\ RefsOut(ops \cup {o}) = RefsOut(ops)
         /\ EvidenceIn(ops \cup {o}) = EvidenceIn(ops)
         /\ SourcesIn(ops \cup {o}) = SourcesIn(ops)
         /\ Of(ops \cup {o}, "resolution") = Of(ops, "resolution")
         /\ Of(ops \cup {o}, "event") = Of(ops, "event") \cup {o}
<1>1. ClaimsOf(ops \cup {o}) = ClaimsOf(ops)
  BY OneMore
<1>2. IdsOut(ops \cup {o}) = IdsOut(ops)
  BY OneMore
<1>3. RefsOut(ops \cup {o}) = RefsOut(ops)
  BY OneMore
<1>4. EvidenceIn(ops \cup {o}) = EvidenceIn(ops)
  BY OneMore
<1>5. SourcesIn(ops \cup {o}) = SourcesIn(ops)
  BY OneMore
<1>6. Of(ops \cup {o}, "resolution") = Of(ops, "resolution")
  BY OneMore
<1>7. Of(ops \cup {o}, "event") = Of(ops, "event") \cup {o}
  BY DEF Of
<1>. QED  BY <1>1, <1>2, <1>3, <1>4, <1>5, <1>6, <1>7

-------------------------------------------------------------------------------
(* What a batch that is being applied has done so far, for any state it    *)
(* began with.                                                             *)

(* The delta d tells of all that changed from the state before to s.       *)
Tells(d, before, s) ==
  /\ before.claims \subseteq s.claims /\ before.resolutions \subseteq s.resolutions
  /\ before.events \subseteq s.events /\ before.evidence \subseteq s.evidence
  /\ before.sources \subseteq s.sources
  /\ \A c \in Claim \ d.claims : /\ c \in s.claims <=> c \in before.claims
                                 /\ c \in s.inactive <=> c \in before.inactive
  /\ \A k \in Key \ d.keys : s.active[k] = before.active[k]
  /\ \A c \in s.claims : KeyOf[c] \notin d.keys =>
       /\ c \in before.claims
       /\ \A x \in EvidenceOf[c] \cap s.evidence :
            /\ x \in before.evidence
            /\ SourceOf[x] \in s.sources => SourceOf[x] \in before.sources
  /\ \A x \in (s.resolutions \ before.resolutions) \cup (s.events \ before.events) :
       x.lane[1] \in d.refs
  /\ \A r \in s.resolutions \ before.resolutions : r.id \in d.resolutions
  /\ \A c \in s.claims \ before.claims : \A r \in s.resolutions :
       c \in Classified(r) => r.id \in d.resolutions

Follows(acc, before, ops, rev) ==
  /\ IsState(acc.state) /\ IsDelta(acc.delta)
  /\ acc.state.claims \subseteq Claim
  /\ Gathers(acc.state, ops, rev)
  /\ acc.state.pairs = before.pairs /\ acc.state.conflict = before.conflict
  /\ acc.state.lane = before.lane
  /\ acc.delta.conflicts = {}
  /\ Tells(acc.delta, before, acc.state)

(* A source, known already or not, is taken in.                            *)
LEMMA SourceApplied ==
  ASSUME NEW acc, NEW before, NEW ops, NEW rev, Follows(acc, before, ops, rev),
         NEW o \in Op, o.kind = "source"
  PROVE  Follows(AddSource(acc, o.source), before, ops \cup {o}, rev)
<1>. DEFINE s == acc.state
            d == acc.delta
            x == o.source
            new == AddSource(acc, x)
            t == new.state
            e == new.delta
<1>1. /\ IsState(s) /\ IsDelta(d) /\ s.claims \subseteq Claim /\ Gathers(s, ops, rev)
      /\ s.pairs = before.pairs /\ s.conflict = before.conflict /\ s.lane = before.lane
      /\ d.conflicts = {} /\ Tells(d, before, s)
  BY DEF Follows
<1>2. /\ ClaimsOf(ops \cup {o}) = ClaimsOf(ops) /\ IdsOut(ops \cup {o}) = IdsOut(ops)
      /\ RefsOut(ops \cup {o}) = RefsOut(ops) /\ EvidenceIn(ops \cup {o}) = EvidenceIn(ops)
      /\ SourcesIn(ops \cup {o}) = SourcesIn(ops) \cup {x}
      /\ Of(ops \cup {o}, "resolution") = Of(ops, "resolution")
      /\ Of(ops \cup {o}, "event") = Of(ops, "event")
  BY SourceAdds
<1>3. Out(ops \cup {o}, rev) = Out(ops, rev) /\ Held(ops \cup {o}, rev) = Held(ops, rev)
  BY <1>2 DEF Out, Held
<1>4. CASE x \in s.sources
  <2>1. new = acc /\ Gathers(s, ops \cup {o}, rev)
    BY <1>1, <1>2, <1>3, <1>4 DEF AddSource, Gathers
  <2>. QED  BY <1>1, <2>1 DEF Follows
<1>5. CASE x \notin s.sources
  <2>. DEFINE keys == {KeyOf[c] : c \in Citing(s.claims, {y \in s.evidence : SourceOf[y] = x})}
  <2>1. t = [s EXCEPT !.sources = @ \cup {x}] /\ e = [d EXCEPT !.keys = @ \cup keys]
    BY <1>5 DEF AddSource
  <2>2. /\ IsState(t) /\ t.sources = s.sources \cup {x}
        /\ t.claims = s.claims /\ t.byId = s.byId /\ t.byRef = s.byRef /\ t.inactive = s.inactive
        /\ t.active = s.active /\ t.evidence = s.evidence /\ t.resolutions = s.resolutions
        /\ t.events = s.events /\ t.pairs = s.pairs /\ t.conflict = s.conflict /\ t.lane = s.lane
    <3>. HIDE DEF s, t
    <3>. QED  BY <1>1, <2>1 DEF IsState
  <2>3. /\ IsDelta(e) /\ e.keys = d.keys \cup keys
        /\ e.claims = d.claims /\ e.conflicts = d.conflicts /\ e.refs = d.refs
        /\ e.resolutions = d.resolutions
    <3>. HIDE DEF d, e, keys
    <3>. QED  BY <1>1, <2>1 DEF IsDelta
  <2>4. \A c \in s.claims : \A y \in EvidenceOf[c] \cap s.evidence : SourceOf[y] = x => KeyOf[c] \in keys
    BY DEF Citing
  <2>. HIDE DEF s, t, d, e, keys
  <2>5. Gathers(t, ops \cup {o}, rev)
    BY <1>1, <1>2, <1>3, <2>2 DEF Gathers
  <2>6. Tells(e, before, t)
    BY <1>1, <2>2, <2>3, <2>4 DEF Tells
  <2>. QED  BY <1>1, <2>2, <2>3, <2>5, <2>6 DEF Follows, t, e
<1>. QED  BY <1>4, <1>5

(* An evidence, known already or not, is taken in.                         *)
LEMMA EvidenceApplied ==
  ASSUME NEW acc, NEW before, NEW ops, NEW rev, Follows(acc, before, ops, rev),
         NEW o \in Op, o.kind = "evidence"
  PROVE  Follows(AddEvidence(acc, o.evidence), before, ops \cup {o}, rev)
<1>. DEFINE s == acc.state
            d == acc.delta
            x == o.evidence
            new == AddEvidence(acc, x)
            t == new.state
            e == new.delta
<1>1. /\ IsState(s) /\ IsDelta(d) /\ s.claims \subseteq Claim /\ Gathers(s, ops, rev)
      /\ s.pairs = before.pairs /\ s.conflict = before.conflict /\ s.lane = before.lane
      /\ d.conflicts = {} /\ Tells(d, before, s)
  BY DEF Follows
<1>2. /\ ClaimsOf(ops \cup {o}) = ClaimsOf(ops) /\ IdsOut(ops \cup {o}) = IdsOut(ops)
      /\ RefsOut(ops \cup {o}) = RefsOut(ops) /\ EvidenceIn(ops \cup {o}) = EvidenceIn(ops) \cup {x}
      /\ SourcesIn(ops \cup {o}) = SourcesIn(ops)
      /\ Of(ops \cup {o}, "resolution") = Of(ops, "resolution")
      /\ Of(ops \cup {o}, "event") = Of(ops, "event")
  BY EvidenceAdds
<1>3. Out(ops \cup {o}, rev) = Out(ops, rev) /\ Held(ops \cup {o}, rev) = Held(ops, rev)
  BY <1>2 DEF Out, Held
<1>4. CASE x \in s.evidence
  <2>1. new = acc /\ Gathers(s, ops \cup {o}, rev)
    BY <1>1, <1>2, <1>3, <1>4 DEF AddEvidence, Gathers
  <2>. QED  BY <1>1, <2>1 DEF Follows
<1>5. CASE x \notin s.evidence
  <2>. DEFINE keys == {KeyOf[c] : c \in Citing(s.claims, {x})}
  <2>1. t = [s EXCEPT !.evidence = @ \cup {x}] /\ e = [d EXCEPT !.keys = @ \cup keys]
    BY <1>5 DEF AddEvidence
  <2>2. /\ IsState(t) /\ t.evidence = s.evidence \cup {x}
        /\ t.claims = s.claims /\ t.byId = s.byId /\ t.byRef = s.byRef /\ t.inactive = s.inactive
        /\ t.active = s.active /\ t.sources = s.sources /\ t.resolutions = s.resolutions
        /\ t.events = s.events /\ t.pairs = s.pairs /\ t.conflict = s.conflict /\ t.lane = s.lane
    <3>. HIDE DEF s, t
    <3>. QED  BY <1>1, <2>1 DEF IsState
  <2>3. /\ IsDelta(e) /\ e.keys = d.keys \cup keys
        /\ e.claims = d.claims /\ e.conflicts = d.conflicts /\ e.refs = d.refs
        /\ e.resolutions = d.resolutions
    <3>. HIDE DEF d, e, keys
    <3>. QED  BY <1>1, <2>1 DEF IsDelta
  <2>4. \A c \in s.claims : x \in EvidenceOf[c] => KeyOf[c] \in keys
    BY DEF Citing
  <2>. HIDE DEF s, t, d, e, keys
  <2>5. Gathers(t, ops \cup {o}, rev)
    BY <1>1, <1>2, <1>3, <2>2 DEF Gathers
  <2>6. Tells(e, before, t)
    BY <1>1, <2>2, <2>3, <2>4 DEF Tells
  <2>. QED  BY <1>1, <2>2, <2>3, <2>5, <2>6 DEF Follows, t, e
<1>. QED  BY <1>4, <1>5

(* A resolution is taken in.                                               *)
LEMMA ResolutionApplied ==
  ASSUME NEW acc, NEW before, NEW ops, NEW rev, Follows(acc, before, ops, rev),
         NEW o \in Op, o.kind = "resolution"
  PROVE  Follows(AddResolution(acc, o), before, ops \cup {o}, rev)
<1>. DEFINE s == acc.state
            d == acc.delta
            new == AddResolution(acc, o)
            t == new.state
            e == new.delta
<1>1. /\ IsState(s) /\ IsDelta(d) /\ s.claims \subseteq Claim /\ Gathers(s, ops, rev)
      /\ s.pairs = before.pairs /\ s.conflict = before.conflict /\ s.lane = before.lane
      /\ d.conflicts = {} /\ Tells(d, before, s)
  BY DEF Follows
<1>2. /\ ClaimsOf(ops \cup {o}) = ClaimsOf(ops) /\ IdsOut(ops \cup {o}) = IdsOut(ops)
      /\ RefsOut(ops \cup {o}) = RefsOut(ops) /\ EvidenceIn(ops \cup {o}) = EvidenceIn(ops)
      /\ SourcesIn(ops \cup {o}) = SourcesIn(ops)
      /\ Of(ops \cup {o}, "resolution") = Of(ops, "resolution") \cup {o}
      /\ Of(ops \cup {o}, "event") = Of(ops, "event")
  BY ResolutionAdds
<1>3. Out(ops \cup {o}, rev) = Out(ops, rev) /\ Held(ops \cup {o}, rev) = Held(ops, rev)
  BY <1>2 DEF Out, Held
<1>4. CASE o \in s.resolutions
  <2>1. new = acc /\ Gathers(s, ops \cup {o}, rev)
    BY <1>1, <1>2, <1>3, <1>4 DEF AddResolution, Gathers
  <2>. QED  BY <1>1, <2>1 DEF Follows
<1>5. CASE o \notin s.resolutions
  <2>1. /\ t = [s EXCEPT !.resolutions = @ \cup {o}]
        /\ e = [d EXCEPT !.refs = @ \cup {o.lane[1]}, !.resolutions = @ \cup {o.id}]
    BY <1>5 DEF AddResolution
  <2>2. /\ IsState(t) /\ t.resolutions = s.resolutions \cup {o}
        /\ t.claims = s.claims /\ t.byId = s.byId /\ t.byRef = s.byRef /\ t.inactive = s.inactive
        /\ t.active = s.active /\ t.sources = s.sources /\ t.evidence = s.evidence
        /\ t.events = s.events /\ t.pairs = s.pairs /\ t.conflict = s.conflict /\ t.lane = s.lane
    <3>. HIDE DEF s, t
    <3>. QED  BY <1>1, <2>1 DEF IsState
  <2>3. /\ IsDelta(e) /\ e.refs = d.refs \cup {o.lane[1]} /\ e.resolutions = d.resolutions \cup {o.id}
        /\ e.claims = d.claims /\ e.conflicts = d.conflicts /\ e.keys = d.keys
    <3>. HIDE DEF d, e
    <3>. QED  BY <1>1, <2>1 DEF IsDelta
  <2>. HIDE DEF s, t, d, e
  <2>4. Gathers(t, ops \cup {o}, rev)
    BY <1>1, <1>2, <1>3, <2>2 DEF Gathers
  <2>5. Tells(e, before, t)
    BY <1>1, <2>2, <2>3 DEF Tells
  <2>. QED  BY <1>1, <2>2, <2>3, <2>4, <2>5 DEF Follows, t, e
<1>. QED  BY <1>4, <1>5

(* An event of a conflict's lifecycle is taken in.                         *)
LEMMA EventApplied ==
  ASSUME NEW acc, NEW before, NEW ops, NEW rev, Follows(acc, before, ops, rev),
         NEW o \in Op, o.kind = "event"
  PROVE  Follows(AddEvent(acc, o), before, ops \cup {o}, rev)
<1>. DEFINE s == acc.state
            d == acc.delta
            new == AddEvent(acc, o)
            t == new.state
            e == new.delta
<1>1. /\ IsState(s) /\ IsDelta(d) /\ s.claims \subseteq Claim /\ Gathers(s, ops, rev)
      /\ s.pairs = before.pairs /\ s.conflict = before.conflict /\ s.lane = before.lane
      /\ d.conflicts = {} /\ Tells(d, before, s)
  BY DEF Follows
<1>2. /\ ClaimsOf(ops \cup {o}) = ClaimsOf(ops) /\ IdsOut(ops \cup {o}) = IdsOut(ops)
      /\ RefsOut(ops \cup {o}) = RefsOut(ops) /\ EvidenceIn(ops \cup {o}) = EvidenceIn(ops)
      /\ SourcesIn(ops \cup {o}) = SourcesIn(ops)
      /\ Of(ops \cup {o}, "resolution") = Of(ops, "resolution")
      /\ Of(ops \cup {o}, "event") = Of(ops, "event") \cup {o}
  BY EventAdds
<1>3. Out(ops \cup {o}, rev) = Out(ops, rev) /\ Held(ops \cup {o}, rev) = Held(ops, rev)
  BY <1>2 DEF Out, Held
<1>4. CASE o \in s.events
  <2>1. new = acc /\ Gathers(s, ops \cup {o}, rev)
    BY <1>1, <1>2, <1>3, <1>4 DEF AddEvent, Gathers
  <2>. QED  BY <1>1, <2>1 DEF Follows
<1>5. CASE o \notin s.events
  <2>1. /\ t = [s EXCEPT !.events = @ \cup {o}]
        /\ e = [d EXCEPT !.refs = @ \cup {o.lane[1]}]
    BY <1>5 DEF AddEvent
  <2>2. /\ IsState(t) /\ t.events = s.events \cup {o}
        /\ t.claims = s.claims /\ t.byId = s.byId /\ t.byRef = s.byRef /\ t.inactive = s.inactive
        /\ t.active = s.active /\ t.sources = s.sources /\ t.evidence = s.evidence
        /\ t.resolutions = s.resolutions
        /\ t.pairs = s.pairs /\ t.conflict = s.conflict /\ t.lane = s.lane
    <3>. HIDE DEF s, t
    <3>. QED  BY <1>1, <2>1 DEF IsState
  <2>3. /\ IsDelta(e) /\ e.refs = d.refs \cup {o.lane[1]} /\ e.resolutions = d.resolutions
        /\ e.claims = d.claims /\ e.conflicts = d.conflicts /\ e.keys = d.keys
    <3>. HIDE DEF d, e
    <3>. QED  BY <1>1, <2>1 DEF IsDelta
  <2>. HIDE DEF s, t, d, e
  <2>4. Gathers(t, ops \cup {o}, rev)
    BY <1>1, <1>2, <1>3, <2>2 DEF Gathers
  <2>5. Tells(e, before, t)
    BY <1>1, <2>2, <2>3 DEF Tells
  <2>. QED  BY <1>1, <2>2, <2>3, <2>4, <2>5 DEF Follows, t, e
<1>. QED  BY <1>4, <1>5

(* A claim is taken in, dead when a retraction by id or by ref came first. *)
LEMMA ClaimApplied ==
  ASSUME NEW acc, NEW before, NEW ops, NEW rev, Follows(acc, before, ops, rev),
         NEW o \in Op, o.kind = "claim"
  PROVE  Follows(AddClaim(acc, rev, o.claim), before, ops \cup {o}, rev)
<1>. DEFINE s == acc.state
            d == acc.delta
            c == o.claim
            dead == c \in s.byId \/ RefOf[rev][c] \in s.byRef
            new == AddClaim(acc, rev, c)
            t == new.state
            e == new.delta
<1>1. /\ IsState(s) /\ IsDelta(d) /\ s.claims \subseteq Claim /\ Gathers(s, ops, rev)
      /\ s.pairs = before.pairs /\ s.conflict = before.conflict /\ s.lane = before.lane
      /\ d.conflicts = {} /\ Tells(d, before, s)
  BY DEF Follows
<1>2. /\ ClaimsOf(ops \cup {o}) = ClaimsOf(ops) \cup {c} /\ IdsOut(ops \cup {o}) = IdsOut(ops)
      /\ RefsOut(ops \cup {o}) = RefsOut(ops) /\ EvidenceIn(ops \cup {o}) = EvidenceIn(ops)
      /\ SourcesIn(ops \cup {o}) = SourcesIn(ops)
      /\ Of(ops \cup {o}, "resolution") = Of(ops, "resolution")
      /\ Of(ops \cup {o}, "event") = Of(ops, "event")
  BY ClaimAdds
<1>3. c \in Claim /\ KeyOf[c] \in Key
  BY OperationAssumption, MaterializeAssumption DEF Of
<1>4. CASE c \in s.claims
  <2>1. ClaimsOf(ops \cup {o}) = ClaimsOf(ops)
    BY <1>1, <1>2, <1>4 DEF Gathers
  <2>2. Out(ops \cup {o}, rev) = Out(ops, rev) /\ Held(ops \cup {o}, rev) = Held(ops, rev)
    BY <1>2, <2>1 DEF Out, Held
  <2>3. new = acc /\ Gathers(s, ops \cup {o}, rev)
    BY <1>1, <1>2, <1>4, <2>1, <2>2 DEF AddClaim, NewClaim, Gathers
  <2>. QED  BY <1>1, <2>3 DEF Follows
<1>5. CASE c \notin s.claims
  <2>. DEFINE ids == {r.id : r \in {q \in s.resolutions : c \in Classified(q)}}
              lost == IF dead THEN {c} ELSE {}
              live == IF dead THEN {} ELSE {c}
  <2>1. /\ t = [s EXCEPT !.claims = @ \cup {c}, !.inactive = @ \cup lost,
                         !.active[KeyOf[c]] = @ \cup live]
        /\ e = [d EXCEPT !.keys = @ \cup {KeyOf[c]}, !.claims = @ \cup {c}, !.resolutions = @ \cup ids]
    BY <1>5 DEF AddClaim, NewClaim
  <2>. HIDE DEF lost, live, ids
  <2>2. /\ IsState(t) /\ t.claims = s.claims \cup {c} /\ t.inactive = s.inactive \cup lost
        /\ t.active = [s.active EXCEPT ![KeyOf[c]] = @ \cup live]
        /\ t.byId = s.byId /\ t.byRef = s.byRef /\ t.events = s.events
        /\ t.sources = s.sources /\ t.evidence = s.evidence /\ t.resolutions = s.resolutions
        /\ t.pairs = s.pairs /\ t.conflict = s.conflict /\ t.lane = s.lane
    <3>. HIDE DEF s, t, c
    <3>. QED  BY <1>1, <2>1 DEF IsState
  <2>3. /\ IsDelta(e) /\ e.keys = d.keys \cup {KeyOf[c]} /\ e.claims = d.claims \cup {c}
        /\ e.resolutions = d.resolutions \cup ids /\ e.refs = d.refs /\ e.conflicts = d.conflicts
    <3>. HIDE DEF d, e, c
    <3>. QED  BY <1>1, <2>1 DEF IsDelta
  <2>4. \A r \in s.resolutions : c \in Classified(r) => r.id \in ids
    BY DEF ids
  <2>5. /\ s.claims = ClaimsOf(ops) /\ s.byId = IdsOut(ops) /\ s.byRef = RefsOut(ops)
        /\ s.inactive = Out(ops, rev) /\ s.active = Held(ops, rev)
    BY <1>1 DEF Gathers
  <2>6. (dead /\ lost = {c} /\ live = {}) \/ (~ dead /\ lost = {} /\ live = {c})
    BY DEF lost, live
  <2>. HIDE DEF s, t, d, e, c
  <2>7. Out(ops \cup {o}, rev) = Out(ops, rev) \cup lost
    BY <1>2, <2>5, <2>6 DEF Out
  <2>8. ~ dead => c \notin Out(ops, rev)
    BY <1>5, <2>5 DEF Out
  <2>9. DOMAIN s.active = Key /\ \A k \in Key : s.active[k] = {x \in s.claims \ s.inactive : KeyOf[x] = k}
    BY <2>5 DEF Held
  <2>. HIDE DEF dead
  <2>10. \A k \in Key : t.active[k] = {x \in t.claims \ t.inactive : KeyOf[x] = k}
    <3>1. ASSUME NEW k \in Key
          PROVE  t.active[k] = {x \in t.claims \ t.inactive : KeyOf[x] = k}
      <4>1. t.active[k] = IF k = KeyOf[c] THEN s.active[k] \cup live ELSE s.active[k]
        BY <1>3, <2>2, <2>9
      <4>2. \A x \in s.claims : x \in t.inactive <=> x \in s.inactive
        BY <1>5, <2>2, <2>6
      <4>3. c \in t.claims \ t.inactive <=> live = {c}
        BY <1>5, <2>2, <2>5, <2>6, <2>8
      <4>4. \A x : x \in t.active[k] <=> x \in t.claims \ t.inactive /\ KeyOf[x] = k
        BY <1>5, <2>2, <2>6, <2>9, <4>1, <4>2, <4>3
      <4>. QED  BY <4>4
    <3>. QED  BY <3>1
  <2>11. t.active = Held(ops \cup {o}, rev)
    <3>1. DOMAIN t.active = Key
      BY <2>2, <2>9
    <3>2. t.active = [k \in Key |-> t.active[k]]
      BY <2>2, <2>9, <3>1
    <3>3. t.claims = ClaimsOf(ops \cup {o}) /\ t.inactive = Out(ops \cup {o}, rev)
      BY <1>2, <2>2, <2>5, <2>7
    <3>. QED  BY <2>10, <3>2, <3>3 DEF Held
  <2>12. Gathers(t, ops \cup {o}, rev)
    BY <1>1, <1>2, <2>2, <2>5, <2>7, <2>11 DEF Gathers
  <2>13. Tells(e, before, t)
    <3>1. \A k \in Key \ e.keys : t.active[k] = s.active[k]
      BY <2>2, <2>3, <2>9
    <3>2. \A x \in Claim \ e.claims : (x \in t.claims <=> x \in s.claims) /\ (x \in t.inactive <=> x \in s.inactive)
      BY <2>2, <2>3, <2>6
    <3>3. \A x \in t.claims : KeyOf[x] \notin e.keys => x \in s.claims /\ KeyOf[x] \notin d.keys
      BY <2>2, <2>3
    <3>4. \A x \in t.claims \ before.claims : \A r \in t.resolutions :
            x \in Classified(r) => r.id \in e.resolutions
      BY <1>1, <2>2, <2>3, <2>4 DEF Tells
    <3>. QED  BY <1>1, <2>2, <2>3, <3>1, <3>2, <3>3, <3>4 DEF Tells
  <2>14. t.claims \subseteq Claim
    BY <1>1, <1>3, <2>2
  <2>. QED  BY <1>1, <2>2, <2>3, <2>12, <2>13, <2>14 DEF Follows, t, e, c
<1>. QED  BY <1>4, <1>5

(* A retraction is taken in, again or not.                                 *)
LEMMA RetractionApplied ==
  ASSUME NEW acc, NEW before, NEW ops, NEW rev \in Revision, Follows(acc, before, ops, rev),
         NEW o \in Op, o.kind = "retraction"
  PROVE  /\ Follows(Retract(acc, rev, o), before, ops \cup {o}, rev)
         /\ {o.target} \ {None} \subseteq Retract(acc, rev, o).delta.claims
<1>. DEFINE s == acc.state
            d == acc.delta
            named == {o.target} \ {None}
            refs == {o.ref} \ {None}
            hit == {c \in s.claims : c = o.target \/ RefOf[rev][c] = o.ref}
            new == Retract(acc, rev, o)
            t == new.state
            e == new.delta
            keys == {KeyOf[c] : c \in hit}
            kept == [k \in Key |-> s.active[k] \ hit]
<1>1. /\ IsState(s) /\ IsDelta(d) /\ s.claims \subseteq Claim /\ Gathers(s, ops, rev)
      /\ s.pairs = before.pairs /\ s.conflict = before.conflict /\ s.lane = before.lane
      /\ d.conflicts = {} /\ Tells(d, before, s)
  BY DEF Follows
<1>2. /\ ClaimsOf(ops \cup {o}) = ClaimsOf(ops) /\ IdsOut(ops \cup {o}) = IdsOut(ops) \cup named
      /\ RefsOut(ops \cup {o}) = RefsOut(ops) \cup refs /\ EvidenceIn(ops \cup {o}) = EvidenceIn(ops)
      /\ SourcesIn(ops \cup {o}) = SourcesIn(ops)
      /\ Of(ops \cup {o}, "resolution") = Of(ops, "resolution")
      /\ Of(ops \cup {o}, "event") = Of(ops, "event")
  BY RetractionAdds
<1>3. /\ t = [s EXCEPT !.byId = @ \cup named, !.byRef = @ \cup refs,
                       !.inactive = @ \cup named \cup hit, !.active = kept]
      /\ e = [d EXCEPT !.keys = @ \cup keys, !.claims = @ \cup named \cup hit]
  BY DEF Retract
<1>4. /\ \A c \in s.claims : c \in hit <=> c \in named \/ RefOf[rev][c] \in refs
      /\ hit \subseteq s.claims
  <2>1. \A c \in s.claims : c # None /\ RefOf[rev][c] # None
    BY <1>1, OperationAssumption
  <2>. QED  BY <2>1
<1>5. /\ \A c \in hit : KeyOf[c] \in keys
      /\ \A k \in Key : kept[k] = s.active[k] \ hit
      /\ kept = [k \in Key |-> kept[k]]
  OBVIOUS
<1>. HIDE DEF named, refs, hit, keys, kept
<1>6. /\ IsState(t) /\ t.byId = s.byId \cup named /\ t.byRef = s.byRef \cup refs
      /\ t.inactive = s.inactive \cup named \cup hit /\ t.active = kept
      /\ t.claims = s.claims /\ t.events = s.events
      /\ t.sources = s.sources /\ t.evidence = s.evidence /\ t.resolutions = s.resolutions
      /\ t.pairs = s.pairs /\ t.conflict = s.conflict /\ t.lane = s.lane
  <2>. HIDE DEF s, t
  <2>. QED  BY <1>1, <1>3 DEF IsState
<1>7. /\ IsDelta(e) /\ e.keys = d.keys \cup keys /\ e.claims = d.claims \cup named \cup hit
      /\ e.resolutions = d.resolutions /\ e.refs = d.refs /\ e.conflicts = d.conflicts
  <2>. HIDE DEF d, e
  <2>. QED  BY <1>1, <1>3 DEF IsDelta
<1>8. /\ s.claims = ClaimsOf(ops) /\ s.byId = IdsOut(ops) /\ s.byRef = RefsOut(ops)
      /\ s.inactive = Out(ops, rev) /\ s.active = Held(ops, rev)
  BY <1>1 DEF Gathers
<1>. HIDE DEF s, t, d, e
<1>9. Out(ops \cup {o}, rev) = t.inactive
  <2>1. ASSUME NEW c PROVE c \in Out(ops \cup {o}, rev) <=> c \in t.inactive
    <3>1. c \in Out(ops \cup {o}, rev)
            <=> c \in s.byId \cup named \/ (c \in s.claims /\ RefOf[rev][c] \in s.byRef \cup refs)
      BY <1>2, <1>8 DEF Out
    <3>2. c \in s.inactive <=> c \in s.byId \/ (c \in s.claims /\ RefOf[rev][c] \in s.byRef)
      BY <1>8 DEF Out
    <3>3. c \in t.inactive <=> c \in s.inactive \/ c \in named \/ c \in hit
      BY <1>6
    <3>4. c \in hit <=> c \in s.claims /\ (c \in named \/ RefOf[rev][c] \in refs)
      BY <1>4
    <3>. QED  BY <3>1, <3>2, <3>3, <3>4
  <2>. QED  BY <2>1
<1>10. \A k \in Key : s.active[k] = {x \in s.claims \ s.inactive : KeyOf[x] = k}
  BY <1>8 DEF Held
<1>11. \A k \in Key : kept[k] = {x \in t.claims \ t.inactive : KeyOf[x] = k}
  BY <1>4, <1>5, <1>6, <1>10
<1>12. t.active = Held(ops \cup {o}, rev)
  <2>1. t.claims = ClaimsOf(ops \cup {o})
    BY <1>2, <1>6, <1>8
  <2>. QED  BY <1>5, <1>6, <1>9, <1>11, <2>1 DEF Held
<1>13. Gathers(t, ops \cup {o}, rev)
  BY <1>1, <1>2, <1>6, <1>8, <1>9, <1>12 DEF Gathers
<1>14. Tells(e, before, t)
  <2>1. \A k \in Key \ e.keys : t.active[k] = s.active[k]
    <3>1. ASSUME NEW k \in Key \ e.keys
          PROVE  t.active[k] = s.active[k]
      <4>1. \A x \in s.active[k] : x \notin hit
        BY <1>5, <1>7, <1>10
      <4>2. s.active[k] \ hit = s.active[k]
        BY <4>1
      <4>. QED  BY <1>5, <1>6, <4>2
    <3>. QED  BY <3>1
  <2>2. \A x \in Claim \ e.claims : (x \in t.claims <=> x \in s.claims) /\ (x \in t.inactive <=> x \in s.inactive)
    BY <1>6, <1>7
  <2>. QED  BY <1>1, <1>6, <1>7, <2>1, <2>2 DEF Tells
<1>15. Follows(new, before, ops \cup {o}, rev)
  BY <1>1, <1>6, <1>7, <1>13, <1>14 DEF Follows, t, e
<1>. QED  BY <1>7, <1>15 DEF named, e

(* Any operation is taken in, and what the delta says of claims is never   *)
(* taken back.                                                             *)
LEMMA OpApplied ==
  ASSUME NEW acc, NEW before, NEW ops, NEW rev \in Revision, Follows(acc, before, ops, rev),
         NEW o \in Op
  PROVE  /\ Follows(ApplyOp(acc, rev, o), before, ops \cup {o}, rev)
         /\ acc.delta.claims \subseteq ApplyOp(acc, rev, o).delta.claims
         /\ o.kind = "retraction" => {o.target} \ {None} \subseteq ApplyOp(acc, rev, o).delta.claims
<1>1. o.kind \in {"claim", "evidence", "source", "retraction", "resolution", "event"}
  BY OperationAssumption
<1>. DEFINE d == acc.delta
<1>2. IsDelta(d)
  BY DEF Follows
<1>3. CASE o.kind = "source"
  <2>1. ApplyOp(acc, rev, o) = AddSource(acc, o.source)
    BY <1>3 DEF ApplyOp
  <2>2. d.claims \subseteq AddSource(acc, o.source).delta.claims
    <3>. HIDE DEF d
    <3>1. \A keys : [d EXCEPT !.keys = @ \cup keys].claims = d.claims
      BY <1>2 DEF IsDelta
    <3>. QED  BY <3>1 DEF AddSource, d
  <2>. QED  BY <1>3, <2>1, <2>2, SourceApplied
<1>4. CASE o.kind = "evidence"
  <2>1. ApplyOp(acc, rev, o) = AddEvidence(acc, o.evidence)
    BY <1>4 DEF ApplyOp
  <2>2. d.claims \subseteq AddEvidence(acc, o.evidence).delta.claims
    <3>. HIDE DEF d
    <3>1. \A keys : [d EXCEPT !.keys = @ \cup keys].claims = d.claims
      BY <1>2 DEF IsDelta
    <3>. QED  BY <3>1 DEF AddEvidence, d
  <2>. QED  BY <1>4, <2>1, <2>2, EvidenceApplied
<1>5. CASE o.kind = "claim"
  <2>1. ApplyOp(acc, rev, o) = AddClaim(acc, rev, o.claim)
    BY <1>5 DEF ApplyOp
  <2>2. d.claims \subseteq AddClaim(acc, rev, o.claim).delta.claims
    <3>. HIDE DEF d
    <3>1. \A k, c, ids : [d EXCEPT !.keys = @ \cup {k}, !.claims = @ \cup {c},
                                   !.resolutions = @ \cup ids].claims = d.claims \cup {c}
      BY <1>2 DEF IsDelta
    <3>. QED  BY <3>1 DEF AddClaim, NewClaim, d
  <2>. QED  BY <1>5, <2>1, <2>2, ClaimApplied
<1>6. CASE o.kind = "retraction"
  <2>1. ApplyOp(acc, rev, o) = Retract(acc, rev, o)
    BY <1>6 DEF ApplyOp
  <2>2. d.claims \subseteq Retract(acc, rev, o).delta.claims
    <3>. HIDE DEF d
    <3>. DEFINE hit == {c \in acc.state.claims : c = o.target \/ RefOf[rev][c] = o.ref}
                keys == {KeyOf[c] : c \in hit}
    <3>1. Retract(acc, rev, o).delta
            = [d EXCEPT !.keys = @ \cup keys, !.claims = @ \cup ({o.target} \ {None}) \cup hit]
      BY DEF Retract, d
    <3>. HIDE DEF hit, keys
    <3>2. Retract(acc, rev, o).delta.claims = d.claims \cup ({o.target} \ {None}) \cup hit
      BY <1>2, <3>1 DEF IsDelta
    <3>. QED  BY <3>2 DEF d
  <2>. QED  BY <1>6, <2>1, <2>2, RetractionApplied
<1>7. CASE o.kind = "resolution"
  <2>1. ApplyOp(acc, rev, o) = AddResolution(acc, o)
    BY <1>7 DEF ApplyOp
  <2>2. d.claims \subseteq AddResolution(acc, o).delta.claims
    <3>. HIDE DEF d
    <3>1. \A x, y : [d EXCEPT !.refs = @ \cup {x}, !.resolutions = @ \cup {y}].claims = d.claims
      BY <1>2 DEF IsDelta
    <3>. QED  BY <3>1 DEF AddResolution, d
  <2>. QED  BY <1>7, <2>1, <2>2, ResolutionApplied
<1>8. CASE o.kind = "event"
  <2>1. ApplyOp(acc, rev, o) = AddEvent(acc, o)
    BY <1>8 DEF ApplyOp
  <2>2. d.claims \subseteq AddEvent(acc, o).delta.claims
    <3>. HIDE DEF d
    <3>1. \A x : [d EXCEPT !.refs = @ \cup {x}].claims = d.claims
      BY <1>2 DEF IsDelta
    <3>. QED  BY <3>1 DEF AddEvent, d
  <2>. QED  BY <1>8, <2>1, <2>2, EventApplied
<1>. QED  BY <1>1, <1>3, <1>4, <1>5, <1>6, <1>7, <1>8

(* The delta names the claims that the operations ops retract by id.       *)
NamesRetracted(d, ops) ==
  \A o \in ops : o.kind = "retraction" => {o.target} \ {None} \subseteq d.claims

(* A whole batch is taken in.                                              *)
LEMMA BatchApplied ==
  ASSUME NEW old, NEW ops \in SUBSET Op, NEW rev \in Revision, IsState(old), Gathers(old, ops, rev),
         NEW batch \in Seq(Op), NEW acc, acc = Applied([state |-> old, delta |-> NoDelta], rev, batch)
  PROVE  /\ Follows(acc, old, ops \cup Range(batch), rev)
         /\ NamesRetracted(acc.delta, Range(batch))
<1>. DEFINE base == [state |-> old, delta |-> NoDelta]
            N == Len(batch)
            First(i) == {batch[j] : j \in 1 .. i}
            Sound(a, i) == Follows(a, old, ops \cup First(i), rev) /\ NamesRetracted(a.delta, First(i))
<1>1. N \in Nat /\ DOMAIN batch = 1 .. N /\ \A i \in 1 .. N : batch[i] \in Op
  OBVIOUS
<1>2. PICK f : Steps(f, base, rev, batch) /\ acc = f[N]
  BY FoldSteps
<1>3. f[0] = base /\ \A i \in 1 .. N : f[i] = ApplyOp(f[i - 1], rev, batch[i])
  BY <1>2 DEF Steps
<1>4. Sound(f[0], 0)
  <2>1. First(0) = {}
    OBVIOUS
  <2>2. ops \cup First(0) = ops
    BY <2>1
  <2>3. old.claims \subseteq Claim
    <3>1. old.claims = ClaimsOf(ops)
      BY DEF Gathers
    <3>. QED  BY <3>1, OperationAssumption DEF ClaimsOf, Of
  <2>4. base.state = old /\ base.delta = NoDelta
    OBVIOUS
  <2>. HIDE DEF base
  <2>5. IsDelta(NoDelta) /\ NoDelta.conflicts = {} /\ Tells(NoDelta, old, old)
    BY DEF NoDelta, IsDelta, Tells
  <2>6. Follows(base, old, ops, rev)
    BY <2>3, <2>4, <2>5 DEF Follows
  <2>. QED  BY <1>3, <2>1, <2>2, <2>6 DEF NamesRetracted
<1>. HIDE DEF base
<1>5. ASSUME NEW i \in 1 .. N, Sound(f[i - 1], i - 1)
      PROVE  Sound(f[i], i)
  <2>1. First(i) = First(i - 1) \cup {batch[i]}
    <3>1. 1 .. i = (1 .. (i - 1)) \cup {i}
      BY <1>1
    <3>. QED  BY <3>1
  <2>2. ops \cup First(i) = (ops \cup First(i - 1)) \cup {batch[i]}
    BY <2>1
  <2>3. batch[i] \in Op /\ f[i] = ApplyOp(f[i - 1], rev, batch[i])
    BY <1>1, <1>3
  <2>. HIDE DEF First
  <2>. DEFINE a == f[i - 1]
              some == ops \cup First(i - 1)
  <2>4. Follows(a, old, some, rev) /\ f[i] = ApplyOp(a, rev, batch[i])
    BY <1>5, <2>3
  <2>. HIDE DEF a, some
  <2>5. /\ Follows(ApplyOp(a, rev, batch[i]), old, some \cup {batch[i]}, rev)
        /\ a.delta.claims \subseteq ApplyOp(a, rev, batch[i]).delta.claims
        /\ batch[i].kind = "retraction" =>
             {batch[i].target} \ {None} \subseteq ApplyOp(a, rev, batch[i]).delta.claims
    BY <2>3, <2>4, OpApplied
  <2>6. /\ Follows(f[i], old, (ops \cup First(i - 1)) \cup {batch[i]}, rev)
        /\ f[i - 1].delta.claims \subseteq f[i].delta.claims
        /\ batch[i].kind = "retraction" => {batch[i].target} \ {None} \subseteq f[i].delta.claims
    BY <2>4, <2>5 DEF a, some
  <2>7. NamesRetracted(f[i].delta, First(i))
    BY <1>5, <2>1, <2>6 DEF NamesRetracted
  <2>. QED  BY <2>2, <2>6, <2>7
<1>. HIDE DEF Sound
<1>6. Sound(f[N], N)
  <2>. DEFINE Bad == {i \in 0 .. N : ~ Sound(f[i], i)}
  <2>1. SUFFICES ASSUME Bad # {} PROVE FALSE
    BY <1>1
  <2>2. Bad \in SUBSET Nat
    BY <1>1
  <2>3. PICK i \in Bad : \A j \in Bad : i <= j
    <3>. HIDE DEF Bad
    <3>. QED  BY <2>1, <2>2, LeastElement
  <2>4. i \in 0 .. N /\ ~ Sound(f[i], i)
    BY <2>3
  <2>5. i # 0
    BY <1>4, <2>4
  <2>6. i \in 1 .. N /\ i - 1 \in 0 .. N /\ ~ i <= i - 1
    BY <1>1, <2>4, <2>5
  <2>7. i - 1 \notin Bad
    BY <2>3, <2>6
  <2>8. Sound(f[i - 1], i - 1)
    BY <2>6, <2>7
  <2>. QED  BY <1>5, <2>4, <2>6, <2>8
<1>7. Range(batch) = First(N)
  BY <1>1 DEF Range
<1>. QED  BY <1>2, <1>6, <1>7 DEF Sound

-------------------------------------------------------------------------------
(* Lanes: the last item of a timeline decides, so that a lane stands where *)
(* it stood as long as its timeline is the same.                           *)

(* Of finitely many items there is a latest.                               *)
LEMMA Latest ==
  ASSUME NEW S, IsFiniteSet(S), S # {}, \A x \in S : x.at \in Nat
  PROVE  \E x \in S : \A y \in S : y.at <= x.at
<1>. DEFINE HasLatest(U) == \E x \in U : \A y \in U : y.at <= x.at
            Bad == {U \in FiniteSubsetsOf(S) : U # {} /\ ~ HasLatest(U)}
            R == StrictSubsetOrdering(S)
<1>1. SUFFICES ASSUME Bad # {} PROVE FALSE
  BY DEF FiniteSubsetsOf
<1>2. IsWellFoundedOn(R, FiniteSubsetsOf(S))
  BY FS_StrictSubsetOrderingWellFounded
<1>3. Bad \subseteq FiniteSubsetsOf(S)
  OBVIOUS
<1>. HIDE DEF R, Bad
<1>4. PICK U \in Bad : \A V \in Bad : ~ (<<V, U>> \in R)
  BY <1>1, <1>2, <1>3, WFMin
<1>5. U \in SUBSET S /\ IsFiniteSet(U) /\ U # {} /\ ~ HasLatest(U)
  BY <1>4 DEF Bad, FiniteSubsetsOf
<1>6. PICK x \in U : TRUE
  BY <1>5
<1>7. CASE U \ {x} = {}
  <2>1. \A y \in U : y = x
    BY <1>7
  <2>2. x.at \in Nat
    BY <1>5, <1>6
  <2>. QED  BY <1>5, <1>6, <2>1, <2>2
<1>8. CASE U \ {x} # {}
  <2>1. IsFiniteSet(U \ {x})
    BY <1>5, FS_RemoveElement
  <2>2. <<U \ {x}, U>> \in R
    BY <1>5, <1>6 DEF R, StrictSubsetOrdering
  <2>3. U \ {x} \notin Bad
    BY <1>4, <2>2
  <2>4. PICK y \in U \ {x} : \A z \in U \ {x} : z.at <= y.at
    BY <1>5, <1>8, <2>1, <2>3 DEF Bad, FiniteSubsetsOf
  <2>5. \A z \in U : z.at \in Nat
    BY <1>5
  <2>6. CASE x.at <= y.at
    BY <1>5, <2>4, <2>6
  <2>7. CASE y.at <= x.at
    <3>1. \A z \in U : z.at <= x.at
      BY <1>6, <2>4, <2>5, <2>7
    <3>. QED  BY <1>5, <1>6, <3>1
  <2>. QED  BY <1>6, <2>4, <2>5, <2>6, <2>7
<1>. QED  BY <1>7, <1>8

(* Resolutions and events as they come from the operations ops.            *)
Lifecycle(resolutions, events, ops) ==
  resolutions = Of(ops, "resolution") /\ events = Of(ops, "event")

(* What stands in a lane depends on its timeline alone, whichever other    *)
(* operations there are.                                                   *)
LEMMA StandingSame ==
  ASSUME NEW some \in SUBSET Op, IsFiniteSet(some), NEW all \in SUBSET Op,
         NEW r1, NEW e1, Lifecycle(r1, e1, some), NEW r2, NEW e2, Lifecycle(r2, e2, all),
         NEW lane, Timeline(lane, r1, e1) = Timeline(lane, r2, e2)
  PROVE  Standing(lane, r1, e1) = Standing(lane, r2, e2)
<1>. DEFINE items == Timeline(lane, r1, e1)
            last == CHOOSE x \in items : \A y \in items : y.at <= x.at
<1>1. CASE items = {}
  BY <1>1 DEF Standing
<1>2. CASE items # {}
  <2>1. \A x : x \in items <=> x \in some /\ x.kind \in {"resolution", "event"} /\ x.lane = lane
    BY DEF Lifecycle, Timeline, Of
  <2>2. \A x : x \in items <=> x \in all /\ x.kind \in {"resolution", "event"} /\ x.lane = lane
    <3>1. \A x : x \in Timeline(lane, r2, e2)
                   <=> x \in all /\ x.kind \in {"resolution", "event"} /\ x.lane = lane
      BY DEF Lifecycle, Timeline, Of
    <3>. QED  BY <3>1
  <2>3. items \in SUBSET some /\ IsFiniteSet(items)
    BY <2>1, FS_Subset
  <2>4. \A x \in items : x.at \in Nat
    BY <2>1, OperationAssumption DEF Of
  <2>. HIDE DEF items
  <2>5. last \in items
    <3>1. \E x \in items : \A y \in items : y.at <= x.at
      BY <1>2, <2>3, <2>4, Latest
    <3>. QED  BY <3>1
  <2>. HIDE DEF last
  <2>6. last.lane = lane
    BY <2>1, <2>5
  <2>7. \A r : r.lane = lane => (r \in r1 <=> r \in r2)
    <3>1. \A r : r \in r1 <=> r \in some /\ r.kind = "resolution"
      BY DEF Lifecycle, Of
    <3>2. \A r : r \in r2 <=> r \in all /\ r.kind = "resolution"
      BY DEF Lifecycle, Of
    <3>. QED  BY <2>1, <2>2, <3>1, <3>2
  <2>8. {r \in r1 : r.id = last.resolution /\ r.lane = last.lane /\ r.seen = last.seen}
          = {r \in r2 : r.id = last.resolution /\ r.lane = last.lane /\ r.seen = last.seen}
    BY <2>6, <2>7
  <2>9. ByEvent(last, r1) = ByEvent(last, r2)
    BY <2>8 DEF ByEvent
  <2>10. Timeline(lane, r2, e2) = items
    BY DEF items
  <2>11. Standing(lane, r1, e1)
           = IF last.kind = "resolution" THEN ByResolution(last) ELSE ByEvent(last, r1)
    BY <1>2 DEF Standing, last, items
  <2>12. Standing(lane, r2, e2)
           = IF last.kind = "resolution" THEN ByResolution(last) ELSE ByEvent(last, r2)
    BY <1>2, <2>10 DEF Standing, last
  <2>. QED  BY <2>9, <2>11, <2>12
<1>. QED  BY <1>1, <1>2

(* The same candidates with the same timeline are in the same state.       *)
LEMMA LaneSame ==
  ASSUME NEW some \in SUBSET Op, IsFiniteSet(some), NEW all \in SUBSET Op,
         NEW r1, NEW e1, Lifecycle(r1, e1, some), NEW r2, NEW e2, Lifecycle(r2, e2, all),
         NEW lane, Timeline(lane, r1, e1) = Timeline(lane, r2, e2), NEW who
  PROVE  LaneState(lane, r1, e1, who) = LaneState(lane, r2, e2, who)
<1>1. Standing(lane, r1, e1) = Standing(lane, r2, e2)
  BY StandingSame
<1>. QED  BY <1>1 DEF LaneState

-------------------------------------------------------------------------------
(* A batch on top of the state of some operations gives the state of all   *)
(* of them, and its delta reports everything that a record depends on.     *)

NewPairs(old, rev, s, d) ==
  [k \in Key |-> IF k \in d.keys THEN Reindexed(old.pairs[k], old.active[k], s.active[k], rev)
                 ELSE old.pairs[k]]

NewConflict(old, pairs, s, d) ==
  [k \in Key |-> IF k \in d.keys THEN Conflict(pairs[k], s.evidence, s.sources)
                 ELSE old.conflict[k]]

Found(old, conflict, d) ==
  ({old.conflict[k].who : k \in d.keys} \cup {conflict[k].who : k \in d.keys}) \ {{}}

RefsHit(old, conflict, d) ==
  d.refs \cup {k \in d.keys : old.conflict[k].who # {} \/ conflict[k].who # {}}

NewLanes(old, conflict, s, refs) ==
  [l \in Lane |-> IF l[1] \in refs
                  THEN LaneState(l, s.resolutions, s.events, conflict[l[1]].who)
                  ELSE old.lane[l]]

(* What the delta d leaves out is the same in the states s and t.          *)
Reports(d, s, t) ==
  /\ s.claims \subseteq t.claims /\ s.resolutions \subseteq t.resolutions
  /\ \A c \in Claim \ d.claims : /\ c \in t.claims <=> c \in s.claims
                                 /\ c \in t.inactive <=> c \in s.inactive
                                 /\ ClaimRecord(t, c) = ClaimRecord(s, c)
  /\ \A k \in Key \ d.refs : t.conflict[k] = s.conflict[k]
  /\ \A l \in Lane : l[1] \notin d.refs => t.lane[l] = s.lane[l]
  /\ \A k \in Key : s.conflict[k].who # {} /\ s.conflict[k].who # t.conflict[k].who
                      => s.conflict[k].who \in d.conflicts
  /\ \A r \in t.resolutions : r.id \notin d.resolutions =>
       /\ r \in s.resolutions
       /\ t.lane[r.lane] = s.lane[r.lane]
       /\ Classified(r) \cap t.claims \subseteq s.claims

(* What ApplyBatch makes of acc, the result of the operations themselves.  *)
Batched(old, rev, acc) ==
  LET s == acc.state
      dirty == acc.delta
      pairs == NewPairs(old, rev, s, dirty)
      conflict == NewConflict(old, pairs, s, dirty)
      found == Found(old, conflict, dirty)
      refs == RefsHit(old, conflict, dirty)
  IN [state |-> [s EXCEPT !.pairs = pairs, !.conflict = conflict,
                          !.lane = NewLanes(old, conflict, s, refs)],
      delta |-> [dirty EXCEPT
        !.claims = @ \cup UNION found,
        !.conflicts = found,
        !.refs = refs,
        !.resolutions = @ \cup {r.id : r \in {q \in s.resolutions : q.lane[1] \in refs}}]]

(* ApplyBatch folds the operations of a batch first and detects afterwards.*)
LEMMA ApplyBatchParts ==
  ASSUME NEW old, NEW rev, NEW batch
  PROVE  ApplyBatch(old, rev, batch)
           = Batched(old, rev, Applied([state |-> old, delta |-> NoDelta], rev, batch))
BY DEF ApplyBatch, Batched, Applied, NewPairs, NewConflict, Found, RefsHit, NewLanes

(* The pairs of the keys that were affected are indexed anew, the others   *)
(* are as they were.                                                       *)
LEMMA PairsKept ==
  ASSUME NEW old, NEW rev \in Revision, NEW s, NEW d, old.pairs = PairsOn(old.active, rev), Tells(d, old, s)
  PROVE  NewPairs(old, rev, s, d) = PairsOn(s.active, rev)
<1>1. ASSUME NEW k \in Key
      PROVE  NewPairs(old, rev, s, d)[k] = {p \in Apart[rev] : p \subseteq s.active[k]}
  <2>1. old.pairs[k] = {p \in Apart[rev] : p \subseteq old.active[k]}
    BY DEF PairsOn
  <2>2. CASE k \in d.keys
    BY <2>1, <2>2 DEF NewPairs, Reindexed
  <2>3. CASE k \notin d.keys
    <3>1. s.active[k] = old.active[k]
      BY <2>3 DEF Tells
    <3>. QED  BY <2>1, <2>3, <3>1 DEF NewPairs
  <2>. QED  BY <2>2, <2>3
<1>2. NewPairs(old, rev, s, d) = [k \in Key |-> NewPairs(old, rev, s, d)[k]]
  BY DEF NewPairs
<1>. QED  BY <1>1, <1>2 DEF PairsOn

(* The same for the conflicts: a conflict's provenance is about the        *)
(* evidence of its candidates, and these are active claims of its key.     *)
LEMMA ConflictsKept ==
  ASSUME NEW old, NEW ops, NEW rev \in Revision, NEW s, NEW d, NEW pairs,
         pairs = PairsOn(s.active, rev), Gathers(s, ops, rev), s.claims \subseteq Claim,
         old.conflict = ConflictsOn(PairsOn(old.active, rev), old.evidence, old.sources),
         Tells(d, old, s)
  PROVE  NewConflict(old, pairs, s, d) = ConflictsOn(pairs, s.evidence, s.sources)
<1>1. ASSUME NEW k \in Key
      PROVE  NewConflict(old, pairs, s, d)[k] = Conflict(pairs[k], s.evidence, s.sources)
  <2>1. CASE k \in d.keys
    BY <2>1 DEF NewConflict
  <2>2. CASE k \notin d.keys
    <3>1. s.active[k] = old.active[k]
      BY <2>2 DEF Tells
    <3>2. old.conflict[k] = Conflict(pairs[k], old.evidence, old.sources)
      BY <3>1 DEF ConflictsOn, PairsOn
    <3>. DEFINE who == UNION pairs[k]
    <3>3. ASSUME NEW c \in who
          PROVE  c \in s.claims /\ KeyOf[c] = k
      <4>1. c \in s.active[k]
        BY DEF PairsOn
      <4>2. c \in Held(ops, rev)[k] /\ s.claims = ClaimsOf(ops)
        BY <4>1 DEF Gathers
      <4>. QED  BY <4>2 DEF Held
    <3>. HIDE DEF who
    <3>4. ASSUME NEW c \in who, NEW x \in EvidenceOf[c] \cap s.evidence
          PROVE  x \in old.evidence /\ (SourceOf[x] \in s.sources => SourceOf[x] \in old.sources)
      <4>1. c \in s.claims /\ KeyOf[c] \notin d.keys
        BY <2>2, <3>3
      <4>. QED  BY <4>1 DEF Tells
    <3>5. old.evidence \subseteq s.evidence /\ old.sources \subseteq s.sources
      BY DEF Tells
    <3>6. Provenance(who, s.evidence, s.sources) = Provenance(who, old.evidence, old.sources)
      <4>1. \A x : x \in Provenance(who, s.evidence, s.sources)
                     <=> x \in s.sources /\ \E c \in who : \E y \in EvidenceOf[c] \cap s.evidence : x = SourceOf[y]
        BY DEF Provenance
      <4>2. \A x : x \in Provenance(who, old.evidence, old.sources)
                     <=> x \in old.sources /\ \E c \in who : \E y \in EvidenceOf[c] \cap old.evidence : x = SourceOf[y]
        BY DEF Provenance
      <4>3. ASSUME NEW x
            PROVE  x \in Provenance(who, s.evidence, s.sources)
                     <=> x \in Provenance(who, old.evidence, old.sources)
        BY <3>4, <3>5, <4>1, <4>2
      <4>. QED  BY <4>3
    <3>7. Conflict(pairs[k], s.evidence, s.sources) = Conflict(pairs[k], old.evidence, old.sources)
      BY <3>6 DEF Conflict, who
    <3>8. NewConflict(old, pairs, s, d)[k] = old.conflict[k]
      BY <2>2 DEF NewConflict
    <3>. QED  BY <3>2, <3>7, <3>8
  <2>. QED  BY <2>1, <2>2
<1>2. NewConflict(old, pairs, s, d) = [k \in Key |-> NewConflict(old, pairs, s, d)[k]]
  BY DEF NewConflict
<1>3. ConflictsOn(pairs, s.evidence, s.sources) = [k \in Key |-> Conflict(pairs[k], s.evidence, s.sources)]
  BY DEF ConflictsOn
<1>. QED  BY <1>1, <1>2, <1>3

(* Nothing was decided about a lane whose reference is not reported.       *)
LEMMA TimelineKept ==
  ASSUME NEW old, NEW s, NEW d, Tells(d, old, s), NEW l, l[1] \notin d.refs
  PROVE  Timeline(l, old.resolutions, old.events) = Timeline(l, s.resolutions, s.events)
<1>1. \A x \in (s.resolutions \ old.resolutions) \cup (s.events \ old.events) : x.lane # l
  BY DEF Tells
<1>2. old.resolutions \subseteq s.resolutions /\ old.events \subseteq s.events
  BY DEF Tells
<1>. QED  BY <1>1, <1>2 DEF Timeline

IdsOn(resolutions, refs) == {r.id : r \in {q \in resolutions : q.lane[1] \in refs}}

(* The parts of the state and of the delta of a batch.                     *)
LEMMA BatchedParts ==
  ASSUME NEW old, NEW rev, NEW acc, IsState(acc.state), IsDelta(acc.delta),
         NEW s, s = acc.state, NEW d, d = acc.delta,
         NEW pairs, pairs = NewPairs(old, rev, s, d),
         NEW conflict, conflict = NewConflict(old, pairs, s, d),
         NEW refs, refs = RefsHit(old, conflict, d),
         NEW found, found = Found(old, conflict, d),
         NEW t, t = Batched(old, rev, acc).state, NEW e, e = Batched(old, rev, acc).delta
  PROVE  /\ IsState(t)
         /\ t.claims = s.claims /\ t.byId = s.byId /\ t.byRef = s.byRef /\ t.inactive = s.inactive
         /\ t.active = s.active /\ t.evidence = s.evidence /\ t.sources = s.sources
         /\ t.resolutions = s.resolutions /\ t.events = s.events
         /\ t.pairs = pairs /\ t.conflict = conflict /\ t.lane = NewLanes(old, conflict, s, refs)
         /\ e.claims = d.claims \cup UNION found /\ e.conflicts = found /\ e.refs = refs
         /\ e.resolutions = d.resolutions \cup IdsOn(s.resolutions, refs)
<1>. DEFINE lanes == NewLanes(old, conflict, s, refs)
            ids == IdsOn(s.resolutions, refs)
<1>1. t = [s EXCEPT !.pairs = pairs, !.conflict = conflict, !.lane = lanes]
  BY DEF Batched
<1>2. e = [d EXCEPT !.claims = @ \cup UNION found, !.conflicts = found, !.refs = refs,
                    !.resolutions = @ \cup ids]
  BY DEF Batched, IdsOn
<1>3. IsState(s) /\ IsDelta(d)
  OBVIOUS
<1>. HIDE DEF lanes, ids
<1>4. t = [claims |-> s.claims, byId |-> s.byId, byRef |-> s.byRef, inactive |-> s.inactive,
           active |-> s.active, pairs |-> pairs, evidence |-> s.evidence, sources |-> s.sources,
           conflict |-> conflict, resolutions |-> s.resolutions, events |-> s.events,
           lane |-> lanes]
  BY <1>1, <1>3 DEF IsState
<1>5. e = [claims |-> d.claims \cup UNION found, conflicts |-> found, keys |-> d.keys,
           refs |-> refs, resolutions |-> d.resolutions \cup ids]
  BY <1>2, <1>3 DEF IsDelta
<1>. QED  BY <1>4, <1>5 DEF IsState, lanes, ids

(* What the delta of a batch reports, given the parts of its outcome.      *)
LEMMA BatchReports ==
  ASSUME NEW old, NEW pairs, NEW s, NEW d, Tells(d, old, s), s.claims \subseteq Claim,
         \A r \in s.resolutions : r.lane \in Lane,
         NEW oldPairs, old.conflict = ConflictsOn(oldPairs, old.evidence, old.sources),
         NEW conflict, conflict = ConflictsOn(pairs, s.evidence, s.sources),
         conflict = NewConflict(old, pairs, s, d),
         NEW refs, refs = RefsHit(old, conflict, d),
         NEW found, found = Found(old, conflict, d),
         NEW t, t.claims = s.claims, t.inactive = s.inactive, t.resolutions = s.resolutions,
         t.conflict = conflict, t.lane = NewLanes(old, conflict, s, refs),
         NEW e, e.claims = d.claims \cup UNION found, e.conflicts = found, e.refs = refs,
         e.resolutions = d.resolutions \cup IdsOn(s.resolutions, refs)
  PROVE  Reports(e, old, t)
<1>1. old.claims \subseteq t.claims /\ old.resolutions \subseteq t.resolutions
  BY DEF Tells
<1>2. ASSUME NEW k \in Key, k \notin d.keys
      PROVE  conflict[k] = old.conflict[k]
  BY <1>2 DEF NewConflict
<1>3. ASSUME NEW k \in Key, k \in d.keys
      PROVE  /\ old.conflict[k].who # {} => old.conflict[k].who \in found
             /\ conflict[k].who # {} => conflict[k].who \in found
  BY <1>3 DEF Found
<1>4. ASSUME NEW c \in Claim \ e.claims
      PROVE  /\ c \in t.claims <=> c \in old.claims
             /\ c \in t.inactive <=> c \in old.inactive
             /\ ClaimRecord(t, c) = ClaimRecord(old, c)
  <2>1. c \in Claim \ d.claims /\ c \notin UNION found
    OBVIOUS
  <2>2. (c \in t.claims <=> c \in old.claims) /\ (c \in t.inactive <=> c \in old.inactive)
    BY <2>1 DEF Tells
  <2>. DEFINE k == KeyOf[c]
  <2>3. k \in Key
    BY MaterializeAssumption
  <2>4. {w \in {t.conflict[k].who} : c \in w} = {w \in {old.conflict[k].who} : c \in w}
    <3>1. CASE k \in d.keys
      <4>1. c \notin old.conflict[k].who /\ c \notin conflict[k].who
        BY <1>3, <2>1, <2>3, <3>1
      <4>. QED  BY <4>1
    <3>2. CASE k \notin d.keys
      <4>1. conflict[k] = old.conflict[k]
        BY <1>2, <2>3, <3>2
      <4>. QED  BY <4>1
    <3>. QED  BY <3>1, <3>2
  <2>. QED  BY <2>2, <2>4 DEF ClaimRecord
<1>5. ASSUME NEW k \in Key \ e.refs
      PROVE  t.conflict[k] = old.conflict[k]
  <2>1. CASE k \in d.keys
    <3>1. old.conflict[k].who = {} /\ conflict[k].who = {}
      BY <2>1 DEF RefsHit
    <3>2. /\ old.conflict[k] = Conflict(oldPairs[k], old.evidence, old.sources)
          /\ conflict[k] = Conflict(pairs[k], s.evidence, s.sources)
      BY DEF ConflictsOn
    <3>3. UNION oldPairs[k] = {} /\ UNION pairs[k] = {}
      BY <3>1, <3>2 DEF Conflict
    <3>4. \A E, S : Provenance({}, E, S) = {}
      BY DEF Provenance
    <3>5. old.conflict[k] = [who |-> {}, sources |-> Provenance({}, old.evidence, old.sources)]
      BY <3>2, <3>3 DEF Conflict
    <3>6. conflict[k] = [who |-> {}, sources |-> Provenance({}, s.evidence, s.sources)]
      BY <3>2, <3>3 DEF Conflict
    <3>. QED  BY <3>4, <3>5, <3>6
  <2>2. CASE k \notin d.keys
    BY <1>2, <2>2
  <2>. QED  BY <2>1, <2>2
<1>6. ASSUME NEW l \in Lane, l[1] \notin e.refs
      PROVE  t.lane[l] = old.lane[l]
  BY <1>6 DEF NewLanes
<1>7. ASSUME NEW k \in Key, old.conflict[k].who # {}, old.conflict[k].who # t.conflict[k].who
      PROVE  old.conflict[k].who \in e.conflicts
  BY <1>2, <1>3, <1>7
<1>8. ASSUME NEW r \in t.resolutions, r.id \notin e.resolutions
      PROVE  /\ r \in old.resolutions /\ t.lane[r.lane] = old.lane[r.lane]
             /\ Classified(r) \cap t.claims \subseteq old.claims
  <2>1. r \in s.resolutions /\ r.id \notin d.resolutions /\ r.lane[1] \notin refs
    BY <1>8 DEF IdsOn
  <2>2. r \in old.resolutions
    BY <2>1 DEF Tells
  <2>3. Classified(r) \cap t.claims \subseteq old.claims
    BY <2>1 DEF Tells
  <2>4. t.lane[r.lane] = old.lane[r.lane]
    BY <1>6, <2>1
  <2>. QED  BY <2>2, <2>3, <2>4
<1>. QED  BY <1>1, <1>4, <1>5, <1>6, <1>7, <1>8 DEF Reports

(* A batch on top of the state that ops fold to gives what ops and the     *)
(* batch fold to, and its delta reports what is not the same:              *)
(* apply_operations_incrementally and materialize agree.                   *)
THEOREM ApplyBatchExact ==
  ASSUME NEW ops \in SUBSET Op, IsFiniteSet(ops), NEW rev \in Revision, NEW batch \in Seq(Op),
         NEW old, old = Full(ops, rev), NEW res, res = ApplyBatch(old, rev, batch)
  PROVE  /\ res.state = Full(ops \cup Range(batch), rev)
         /\ Reports(res.delta, old, res.state)
         /\ NamesRetracted(res.delta, Range(batch))
<1>. DEFINE acc == Applied([state |-> old, delta |-> NoDelta], rev, batch)
            all == ops \cup Range(batch)
            s == acc.state
            d == acc.delta
            pairs == NewPairs(old, rev, s, d)
            conflict == NewConflict(old, pairs, s, d)
            refs == RefsHit(old, conflict, d)
            found == Found(old, conflict, d)
            t == res.state
            e == res.delta
<1>1. res = Batched(old, rev, acc)
  BY ApplyBatchParts
<1>2. /\ IsState(old) /\ Gathers(old, ops, rev) /\ old.pairs = PairsOn(old.active, rev)
      /\ old.conflict = ConflictsOn(old.pairs, old.evidence, old.sources)
      /\ old.lane = Lanes(old.resolutions, old.events, old.conflict)
  BY FullFields
<1>3. Follows(acc, old, all, rev) /\ NamesRetracted(d, Range(batch))
  BY <1>2, BatchApplied
<1>4. all \in SUBSET Op
  <2>1. Range(batch) \in SUBSET Op
    BY DEF Range
  <2>. QED  BY <2>1
<1>. HIDE DEF acc, all
<1>5. /\ IsState(s) /\ IsDelta(d) /\ s.claims \subseteq Claim /\ Gathers(s, all, rev) /\ Tells(d, old, s)
  BY <1>3 DEF Follows
<1>. HIDE DEF s, d
<1>6. pairs = PairsOn(s.active, rev)
  BY <1>2, <1>5, PairsKept
<1>7. conflict = ConflictsOn(pairs, s.evidence, s.sources)
  <2>1. old.conflict = ConflictsOn(PairsOn(old.active, rev), old.evidence, old.sources)
    BY <1>2
  <2>. HIDE DEF pairs
  <2>. QED  BY <1>5, <1>6, <2>1, ConflictsKept
<1>8. NewLanes(old, conflict, s, refs) = Lanes(s.resolutions, s.events, conflict)
  <2>1. Lifecycle(old.resolutions, old.events, ops) /\ Lifecycle(s.resolutions, s.events, all)
    BY <1>2, <1>5 DEF Gathers, Lifecycle
  <2>2. old.lane = Lanes(old.resolutions, old.events, old.conflict) /\ Tells(d, old, s)
    BY <1>2, <1>5
  <2>3. conflict = NewConflict(old, pairs, s, d) /\ refs = RefsHit(old, conflict, d)
    OBVIOUS
  <2>. HIDE DEF pairs, conflict, refs
  <2>4. ASSUME NEW l \in Lane, l[1] \notin refs
        PROVE  old.lane[l] = LaneState(l, s.resolutions, s.events, conflict[l[1]].who)
    <3>1. l[1] \in Key /\ l[1] \notin d.refs
      BY <2>3, <2>4 DEF Lane, RefsHit
    <3>2. conflict[l[1]].who = old.conflict[l[1]].who
      <4>1. CASE l[1] \in d.keys
        BY <2>3, <2>4, <4>1 DEF RefsHit
      <4>2. CASE l[1] \notin d.keys
        BY <2>3, <3>1, <4>2 DEF NewConflict
      <4>. QED  BY <4>1, <4>2
    <3>3. old.lane[l] = LaneState(l, old.resolutions, old.events, old.conflict[l[1]].who)
      BY <2>2 DEF Lanes
    <3>. DEFINE who == old.conflict[l[1]].who
    <3>. HIDE DEF who
    <3>4. LaneState(l, old.resolutions, old.events, who) = LaneState(l, s.resolutions, s.events, who)
      <4>1. Timeline(l, old.resolutions, old.events) = Timeline(l, s.resolutions, s.events)
        BY <2>2, <3>1, TimelineKept
      <4>. QED  BY <1>4, <2>1, <4>1, LaneSame
    <3>. QED  BY <3>2, <3>3, <3>4 DEF who
  <2>. QED  BY <2>4 DEF NewLanes, Lanes
<1>. HIDE DEF pairs, conflict, refs, found
<1>9. /\ IsState(t)
      /\ t.claims = s.claims /\ t.byId = s.byId /\ t.byRef = s.byRef /\ t.inactive = s.inactive
      /\ t.active = s.active /\ t.evidence = s.evidence /\ t.sources = s.sources
      /\ t.resolutions = s.resolutions /\ t.events = s.events
      /\ t.pairs = pairs /\ t.conflict = conflict /\ t.lane = NewLanes(old, conflict, s, refs)
      /\ e.claims = d.claims \cup UNION found /\ e.conflicts = found /\ e.refs = refs
      /\ e.resolutions = d.resolutions \cup IdsOn(s.resolutions, refs)
  <2>1. /\ pairs = NewPairs(old, rev, s, d) /\ conflict = NewConflict(old, pairs, s, d)
        /\ refs = RefsHit(old, conflict, d) /\ found = Found(old, conflict, d)
        /\ s = acc.state /\ d = acc.delta
    BY DEF pairs, conflict, refs, found, s, d
  <2>. QED  BY <1>1, <1>5, <2>1, BatchedParts
<1>10. t = Full(all, rev)
  <2>. HIDE DEF t, e
  <2>1. Gathers(t, all, rev)
    BY <1>5, <1>9 DEF Gathers
  <2>2. t.pairs = PairsOn(t.active, rev)
    BY <1>6, <1>9
  <2>3. t.conflict = ConflictsOn(t.pairs, t.evidence, t.sources)
    BY <1>7, <1>9
  <2>4. t.lane = Lanes(t.resolutions, t.events, t.conflict)
    BY <1>8, <1>9
  <2>5. IsState(t)
    BY <1>9
  <2>. QED  BY <2>1, <2>2, <2>3, <2>4, <2>5, SameState
<1>11. Reports(e, old, t)
  <2>1. /\ conflict = NewConflict(old, pairs, s, d) /\ refs = RefsHit(old, conflict, d)
        /\ found = Found(old, conflict, d)
    BY DEF conflict, refs, found
  <2>2. /\ t.claims = s.claims /\ t.inactive = s.inactive /\ t.resolutions = s.resolutions
        /\ t.conflict = conflict /\ t.lane = NewLanes(old, conflict, s, refs)
        /\ e.claims = d.claims \cup UNION found /\ e.conflicts = found /\ e.refs = refs
        /\ e.resolutions = d.resolutions \cup IdsOn(s.resolutions, refs)
    BY <1>9
  <2>3. Tells(d, old, s) /\ s.claims \subseteq Claim
    BY <1>5
  <2>4. old.conflict = ConflictsOn(old.pairs, old.evidence, old.sources)
    BY <1>2
  <2>5. \A r \in s.resolutions : r.lane \in Lane
    <3>1. s.resolutions = Of(all, "resolution")
      BY <1>5 DEF Gathers
    <3>. QED  BY <1>4, <3>1, OperationAssumption DEF Of
  <2>. HIDE DEF t, e
  <2>. QED  BY ONLY <1>7, <2>1, <2>2, <2>3, <2>4, <2>5, BatchReports
<1>12. NamesRetracted(e, Range(batch))
  <2>1. d.claims \subseteq e.claims
    BY <1>9
  <2>. QED  BY <1>3, <2>1 DEF NamesRetracted
<1>. QED  BY <1>10, <1>11, <1>12 DEF all

-------------------------------------------------------------------------------
(* A consumer: what a delta has to report for its records to be right.     *)

(* A delta has all that the deltas d, or e, have.                          *)
Has(all, d) ==
  /\ d.claims \subseteq all.claims /\ d.conflicts \subseteq all.conflicts
  /\ d.refs \subseteq all.refs /\ d.resolutions \subseteq all.resolutions

(* Deltas may be combined: what neither of two in a row reports is the     *)
(* same before the first and after the second.                             *)
LEMMA ReportsChain ==
  ASSUME NEW d, NEW e, NEW all, Has(all, d), Has(all, e),
         NEW s, NEW t, NEW u, Reports(d, s, t), Reports(e, t, u)
  PROVE  Reports(all, s, u)
<1>1. /\ d.claims \subseteq all.claims /\ d.conflicts \subseteq all.conflicts
      /\ d.refs \subseteq all.refs /\ d.resolutions \subseteq all.resolutions
      /\ e.claims \subseteq all.claims /\ e.conflicts \subseteq all.conflicts
      /\ e.refs \subseteq all.refs /\ e.resolutions \subseteq all.resolutions
  BY DEF Has
<1>2. s.claims \subseteq u.claims /\ s.resolutions \subseteq u.resolutions
  BY DEF Reports
<1>3. ASSUME NEW c \in Claim \ all.claims
      PROVE  /\ c \in u.claims <=> c \in s.claims
             /\ c \in u.inactive <=> c \in s.inactive
             /\ ClaimRecord(u, c) = ClaimRecord(s, c)
  <2>1. c \in Claim \ d.claims /\ c \in Claim \ e.claims
    BY <1>1
  <2>2. (c \in t.claims <=> c \in s.claims) /\ (c \in t.inactive <=> c \in s.inactive)
    BY <2>1 DEF Reports
  <2>3. (c \in u.claims <=> c \in t.claims) /\ (c \in u.inactive <=> c \in t.inactive)
    BY <2>1 DEF Reports
  <2>4. ClaimRecord(t, c) = ClaimRecord(s, c) /\ ClaimRecord(u, c) = ClaimRecord(t, c)
    BY <2>1 DEF Reports
  <2>. QED  BY <2>2, <2>3, <2>4
<1>4. ASSUME NEW k \in Key \ all.refs
      PROVE  u.conflict[k] = s.conflict[k]
  BY <1>1 DEF Reports
<1>5. ASSUME NEW l \in Lane, l[1] \notin all.refs
      PROVE  u.lane[l] = s.lane[l]
  BY <1>1, <1>5 DEF Reports
<1>6. ASSUME NEW k \in Key, s.conflict[k].who # {}, s.conflict[k].who # u.conflict[k].who
      PROVE  s.conflict[k].who \in all.conflicts
  <2>1. CASE s.conflict[k].who = t.conflict[k].who
    BY <1>1, <1>6, <2>1 DEF Reports
  <2>2. CASE s.conflict[k].who # t.conflict[k].who
    BY <1>1, <1>6, <2>2 DEF Reports
  <2>. QED  BY <2>1, <2>2
<1>7. ASSUME NEW r \in u.resolutions, r.id \notin all.resolutions
      PROVE  /\ r \in s.resolutions /\ u.lane[r.lane] = s.lane[r.lane]
             /\ Classified(r) \cap u.claims \subseteq s.claims
  <2>1. r \in t.resolutions /\ u.lane[r.lane] = t.lane[r.lane] /\ Classified(r) \cap u.claims \subseteq t.claims
    BY <1>1, <1>7 DEF Reports
  <2>2. r \in s.resolutions /\ t.lane[r.lane] = s.lane[r.lane] /\ Classified(r) \cap t.claims \subseteq s.claims
    BY <1>1, <1>7, <2>1 DEF Reports
  <2>. QED  BY <2>1, <2>2
<1>. QED  BY <1>2, <1>3, <1>4, <1>5, <1>6, <1>7 DEF Reports

(* A delta that has more reports no less.                                  *)
LEMMA ReportsMore ==
  ASSUME NEW d, NEW all, Has(all, d), NEW s, NEW t, Reports(d, s, t)
  PROVE  Reports(all, s, t)
<1>1. /\ d.claims \subseteq all.claims /\ d.conflicts \subseteq all.conflicts
      /\ d.refs \subseteq all.refs /\ d.resolutions \subseteq all.resolutions
  BY DEF Has
<1>2. s.claims \subseteq t.claims /\ s.resolutions \subseteq t.resolutions
  BY DEF Reports
<1>3. ASSUME NEW c \in Claim \ all.claims
      PROVE  /\ c \in t.claims <=> c \in s.claims
             /\ c \in t.inactive <=> c \in s.inactive
             /\ ClaimRecord(t, c) = ClaimRecord(s, c)
  <2>1. c \in Claim \ d.claims
    BY <1>1
  <2>. QED  BY <2>1 DEF Reports
<1>4. ASSUME NEW k \in Key \ all.refs
      PROVE  t.conflict[k] = s.conflict[k]
  BY <1>1 DEF Reports
<1>5. ASSUME NEW l \in Lane, l[1] \notin all.refs
      PROVE  t.lane[l] = s.lane[l]
  BY <1>1, <1>5 DEF Reports
<1>6. ASSUME NEW k \in Key, s.conflict[k].who # {}, s.conflict[k].who # t.conflict[k].who
      PROVE  s.conflict[k].who \in all.conflicts
  BY <1>1, <1>6 DEF Reports
<1>7. ASSUME NEW r \in t.resolutions, r.id \notin all.resolutions
      PROVE  /\ r \in s.resolutions /\ t.lane[r.lane] = s.lane[r.lane]
             /\ Classified(r) \cap t.claims \subseteq s.claims
  BY <1>1, <1>7 DEF Reports
<1>. QED  BY <1>2, <1>3, <1>4, <1>5, <1>6, <1>7 DEF Reports

(* The candidates of a conflict are claims of its key.                     *)
LEMMA Candidates ==
  ASSUME NEW ops \in SUBSET Op, NEW rev, NEW s, s = Full(ops, rev), NEW k \in Key,
         NEW c \in s.conflict[k].who
  PROVE  KeyOf[c] = k /\ c \in s.claims \ s.inactive
<1>1. /\ Gathers(s, ops, rev) /\ s.pairs = PairsOn(s.active, rev)
      /\ s.conflict = ConflictsOn(s.pairs, s.evidence, s.sources)
  BY FullFields
<1>2. s.conflict[k] = Conflict(s.pairs[k], s.evidence, s.sources)
  BY <1>1 DEF ConflictsOn
<1>3. c \in UNION s.pairs[k]
  BY <1>2 DEF Conflict
<1>4. s.pairs[k] = {p \in Apart[rev] : p \subseteq s.active[k]}
  BY <1>1 DEF PairsOn
<1>5. c \in s.active[k]
  BY <1>3, <1>4
<1>6. s.active[k] = {x \in ClaimsOf(ops) \ Out(ops, rev) : KeyOf[x] = k}
  BY <1>1 DEF Gathers, Held
<1>7. s.claims = ClaimsOf(ops) /\ s.inactive = Out(ops, rev)
  BY <1>1 DEF Gathers
<1>. QED  BY <1>5, <1>6, <1>7

(* The projection id of a record, and that ids of two kinds never clash.   *)
LEMMA RecordIds ==
  /\ \A s, c : ClaimRecord(s, c)[1] = <<"claim", c>>
  /\ \A s, k : ConflictRecord(s, k)[1] = <<"conflict", s.conflict[k].who>>
  /\ \A s, r : ResolutionRecord(s, r)[1] = <<"resolution", r.id>>
  /\ \A x, y : /\ <<"claim", x>> # <<"conflict", y>> /\ <<"claim", x>> # <<"resolution", y>>
               /\ <<"conflict", x>> # <<"resolution", y>>
               /\ <<"claim", x>> = <<"claim", y>> => x = y
               /\ <<"conflict", x>> = <<"conflict", y>> => x = y
               /\ <<"resolution", x>> = <<"resolution", y>> => x = y
BY DEF ClaimRecord, ConflictRecord, ResolutionRecord

(* The ids of the records that a delta replaces or deletes.                *)
Gone(t, d) == {u[1] : u \in ProjectUpserts(t, d)} \cup ProjectDeletes(t, d)

(* The records of a consumer after a delta: those it upserts, and of the   *)
(* others those whose ids it does not name.                                *)
LEMMA UpdatedIs ==
  ASSUME NEW shown, NEW t, NEW d
  PROVE  \A x : x \in Updated(shown, t, d)
                  <=> x \in ProjectUpserts(t, d) \/ (x \in shown /\ x[1] \notin Gone(t, d))
BY DEF Updated, Gone

(* A record that a delta upserts is of one of the three kinds.             *)
LEMMA UpsertKinds ==
  ASSUME NEW t, NEW d, NEW u
  PROVE  u \in ProjectUpserts(t, d)
           <=> \/ \E c \in (d.claims \cap t.claims) \ t.inactive : u = ClaimRecord(t, c)
               \/ \E k \in InConflict(t) : /\ t.conflict[k].who \in d.conflicts \/ k \in d.refs
                                           /\ u = ConflictRecord(t, k)
               \/ \E r \in Retrievable(t) : r.id \in d.resolutions /\ u = ResolutionRecord(t, r)
BY DEF ProjectUpserts

(* A record of a state is of a claim in force, of a conflict or of a       *)
(* retrievable resolution.                                                 *)
LEMMA RecordKinds ==
  ASSUME NEW s, NEW x
  PROVE  x \in Project(s)
           <=> \/ \E c \in s.claims \ s.inactive : x = ClaimRecord(s, c)
               \/ \E k \in InConflict(s) : x = ConflictRecord(s, k)
               \/ \E r \in Retrievable(s) : x = ResolutionRecord(s, r)
BY DEF Project

(* Which ids those are, kind by kind.                                      *)
LEMMA GoneKinds ==
  ASSUME NEW t, NEW d
  PROVE  /\ \A c : <<"claim", c>> \in Gone(t, d) <=> c \in d.claims \cap t.claims
         /\ \A w : <<"conflict", w>> \in Gone(t, d)
                     <=> \/ \E k \in InConflict(t) : /\ t.conflict[k].who \in d.conflicts \/ k \in d.refs
                                                     /\ w = t.conflict[k].who
                         \/ w \in d.conflicts /\ \A k \in Key : t.conflict[k].who # w
         /\ \A i : <<"resolution", i>> \in Gone(t, d)
                     <=> i \in d.resolutions /\ \E r \in Retrievable(t) : r.id = i
<1>1. \A y : y \in Gone(t, d) <=> y \in ProjectDeletes(t, d) \/ \E u \in ProjectUpserts(t, d) : y = u[1]
  BY DEF Gone
<1>2. \A y : y \in ProjectDeletes(t, d)
               <=> \/ \E c \in d.claims \cap t.claims \cap t.inactive : y = <<"claim", c>>
                   \/ \E w \in d.conflicts : (\A k \in Key : t.conflict[k].who # w) /\ y = <<"conflict", w>>
  BY DEF ProjectDeletes
<1>3. \A y : (\E u \in ProjectUpserts(t, d) : y = u[1])
               <=> \/ \E c \in (d.claims \cap t.claims) \ t.inactive : y = <<"claim", c>>
                   \/ \E k \in InConflict(t) : /\ t.conflict[k].who \in d.conflicts \/ k \in d.refs
                                               /\ y = <<"conflict", t.conflict[k].who>>
                   \/ \E r \in Retrievable(t) : r.id \in d.resolutions /\ y = <<"resolution", r.id>>
  <2>. TAKE y
  <2>1. ASSUME NEW u \in ProjectUpserts(t, d), y = u[1]
        PROVE  \/ \E c \in (d.claims \cap t.claims) \ t.inactive : y = <<"claim", c>>
               \/ \E k \in InConflict(t) : /\ t.conflict[k].who \in d.conflicts \/ k \in d.refs
                                           /\ y = <<"conflict", t.conflict[k].who>>
               \/ \E r \in Retrievable(t) : r.id \in d.resolutions /\ y = <<"resolution", r.id>>
    BY <2>1, UpsertKinds, RecordIds
  <2>2. ASSUME NEW c \in (d.claims \cap t.claims) \ t.inactive, y = <<"claim", c>>
        PROVE  \E u \in ProjectUpserts(t, d) : y = u[1]
    <3>1. ClaimRecord(t, c) \in ProjectUpserts(t, d)
      BY UpsertKinds
    <3>. QED  BY <2>2, <3>1, RecordIds
  <2>3. ASSUME NEW k \in InConflict(t), t.conflict[k].who \in d.conflicts \/ k \in d.refs,
               y = <<"conflict", t.conflict[k].who>>
        PROVE  \E u \in ProjectUpserts(t, d) : y = u[1]
    <3>1. ConflictRecord(t, k) \in ProjectUpserts(t, d)
      BY <2>3, UpsertKinds
    <3>. QED  BY <2>3, <3>1, RecordIds
  <2>4. ASSUME NEW r \in Retrievable(t), r.id \in d.resolutions, y = <<"resolution", r.id>>
        PROVE  \E u \in ProjectUpserts(t, d) : y = u[1]
    <3>1. ResolutionRecord(t, r) \in ProjectUpserts(t, d)
      BY <2>4, UpsertKinds
    <3>. QED  BY <2>4, <3>1, RecordIds
  <2>. QED  BY <2>1, <2>2, <2>3, <2>4
<1>4. ASSUME NEW c
      PROVE  <<"claim", c>> \in Gone(t, d) <=> c \in d.claims \cap t.claims
  BY <1>1, <1>2, <1>3, RecordIds
<1>5. ASSUME NEW w
      PROVE  <<"conflict", w>> \in Gone(t, d)
               <=> \/ \E k \in InConflict(t) : /\ t.conflict[k].who \in d.conflicts \/ k \in d.refs
                                               /\ w = t.conflict[k].who
                   \/ w \in d.conflicts /\ \A k \in Key : t.conflict[k].who # w
  BY <1>1, <1>2, <1>3, RecordIds
<1>6. ASSUME NEW i
      PROVE  <<"resolution", i>> \in Gone(t, d)
               <=> i \in d.resolutions /\ \E r \in Retrievable(t) : r.id = i
  BY <1>1, <1>2, <1>3, RecordIds
<1>. QED  BY <1>4, <1>5, <1>6

(* A consumer that has the records of a state, and takes in a delta that   *)
(* reports what is different in a later one, has the records of the later: *)
(* project_state_delta leaves nothing stale, and nothing out.              *)
THEOREM UpdatedExact ==
  ASSUME NEW some \in SUBSET Op, NEW all \in SUBSET Op, NEW rev, NEW s, s = Full(some, rev),
         NEW t, t = Full(all, rev), NEW d, Reports(d, s, t)
  PROVE  Updated(Project(s), t, d) = Project(t)
<1>1. s.claims = ClaimsOf(some) /\ t.claims = ClaimsOf(all)
  BY FullFields DEF Gathers
<1>2. s.claims \subseteq Claim /\ t.claims \subseteq Claim
  BY <1>1, OperationAssumption DEF ClaimsOf, Of
<1>3. ASSUME NEW x \in Project(s), x[1] \notin Gone(t, d)
      PROVE  x \in Project(t)
  <2>1. ASSUME NEW c \in s.claims \ s.inactive, x = ClaimRecord(s, c)
        PROVE  x \in Project(t)
    <3>1. c \in t.claims /\ c \in Claim
      BY <1>2 DEF Reports
    <3>2. c \notin d.claims
      <4>1. x[1] = <<"claim", c>>
        BY <2>1, RecordIds
      <4>. QED  BY <1>3, <3>1, <4>1, GoneKinds
    <3>3. c \notin t.inactive /\ ClaimRecord(t, c) = x
      BY <2>1, <3>1, <3>2 DEF Reports
    <3>. QED  BY <3>1, <3>3, RecordKinds
  <2>2. ASSUME NEW k \in InConflict(s), x = ConflictRecord(s, k)
        PROVE  x \in Project(t)
    <3>. DEFINE w == s.conflict[k].who
    <3>1. k \in Key /\ w # {}
      BY DEF InConflict
    <3>2. <<"conflict", w>> \notin Gone(t, d)
      BY <1>3, <2>2, RecordIds
    <3>. HIDE DEF w
    <3>3. w = t.conflict[k].who
      <4>1. SUFFICES ASSUME w # t.conflict[k].who
                     PROVE  FALSE
        OBVIOUS
      <4>2. w \in d.conflicts
        BY <3>1, <4>1 DEF Reports, w
      <4>3. PICK j \in Key : t.conflict[j].who = w
        BY <3>2, <4>2, GoneKinds
      <4>4. PICK c : c \in w
        BY <3>1
      <4>5. KeyOf[c] = j
        BY <4>3, <4>4, Candidates
      <4>6. KeyOf[c] = k
        BY <3>1, <4>4, Candidates DEF w
      <4>. QED  BY <4>1, <4>3, <4>5, <4>6
    <3>4. k \in InConflict(t)
      BY <3>1, <3>3 DEF InConflict
    <3>5. k \notin d.refs
      BY <3>2, <3>3, <3>4, GoneKinds
    <3>6. t.conflict[k] = s.conflict[k] /\ t.lane[<<k, None>>] = s.lane[<<k, None>>]
      <4>1. <<k, None>> \in Lane /\ <<k, None>>[1] = k
        BY <3>1, MaterializeAssumption DEF Lane
      <4>. QED  BY <3>1, <3>5, <4>1 DEF Reports
    <3>7. ConflictRecord(t, k) = x
      BY <2>2, <3>6 DEF ConflictRecord, StatusOf
    <3>. QED  BY <3>4, <3>7, RecordKinds
  <2>3. ASSUME NEW r \in Retrievable(s), x = ResolutionRecord(s, r)
        PROVE  x \in Project(t)
    <3>1. r \in s.resolutions /\ Classified(r) \cap s.claims # {}
      BY DEF Retrievable
    <3>2. r \in t.resolutions /\ Classified(r) \cap t.claims # {}
      BY <3>1 DEF Reports
    <3>3. r \in Retrievable(t)
      BY <3>2 DEF Retrievable
    <3>4. r.id \notin d.resolutions
      <4>1. x[1] = <<"resolution", r.id>>
        BY <2>3, RecordIds
      <4>. QED  BY <1>3, <3>3, <4>1, GoneKinds
    <3>5. t.lane[r.lane] = s.lane[r.lane]
      BY <3>2, <3>4 DEF Reports
    <3>6. ResolutionRecord(t, r) = x
      BY <2>3, <3>5 DEF ResolutionRecord, StatusOf
    <3>. QED  BY <3>3, <3>6, RecordKinds
  <2>. QED  BY <2>1, <2>2, <2>3, RecordKinds
<1>4. ASSUME NEW x \in Project(t), x \notin ProjectUpserts(t, d)
      PROVE  x \in Project(s) /\ x[1] \notin Gone(t, d)
  <2>1. ASSUME NEW c \in t.claims \ t.inactive, x = ClaimRecord(t, c)
        PROVE  x \in Project(s) /\ x[1] \notin Gone(t, d)
    <3>1. c \notin d.claims
      BY <1>4, <2>1, UpsertKinds
    <3>2. c \in s.claims \ s.inactive /\ ClaimRecord(s, c) = x
      <4>1. c \in Claim \ d.claims
        BY <1>2, <3>1
      <4>. QED  BY <2>1, <4>1 DEF Reports
    <3>3. x[1] \notin Gone(t, d)
      <4>1. x[1] = <<"claim", c>>
        BY <2>1, RecordIds
      <4>. QED  BY <3>1, <4>1, GoneKinds
    <3>. QED  BY <3>2, <3>3, RecordKinds
  <2>2. ASSUME NEW k \in InConflict(t), x = ConflictRecord(t, k)
        PROVE  x \in Project(s) /\ x[1] \notin Gone(t, d)
    <3>. DEFINE w == t.conflict[k].who
    <3>1. k \in Key /\ w # {}
      BY DEF InConflict
    <3>2. w \notin d.conflicts /\ k \notin d.refs
      BY <1>4, <2>2, UpsertKinds
    <3>3. t.conflict[k] = s.conflict[k] /\ t.lane[<<k, None>>] = s.lane[<<k, None>>]
      <4>1. <<k, None>> \in Lane /\ <<k, None>>[1] = k
        BY <3>1, MaterializeAssumption DEF Lane
      <4>. QED  BY <3>1, <3>2, <4>1 DEF Reports
    <3>4. k \in InConflict(s) /\ ConflictRecord(s, k) = x
      BY <2>2, <3>1, <3>3 DEF InConflict, ConflictRecord, StatusOf
    <3>5. x[1] = <<"conflict", w>>
      BY <2>2, RecordIds
    <3>. HIDE DEF w
    <3>6. <<"conflict", w>> \notin Gone(t, d)
      <4>1. ASSUME NEW j \in InConflict(t), w = t.conflict[j].who
            PROVE  j = k
        <5>1. PICK c : c \in w
          BY <3>1
        <5>2. j \in Key
          BY DEF InConflict
        <5>3. KeyOf[c] = j
          BY <4>1, <5>1, <5>2, Candidates
        <5>4. KeyOf[c] = k
          BY <3>1, <5>1, Candidates DEF w
        <5>. QED  BY <5>3, <5>4
      <4>. QED  BY <3>2, <4>1, GoneKinds
    <3>. QED  BY <3>4, <3>5, <3>6, RecordKinds
  <2>3. ASSUME NEW r \in Retrievable(t), x = ResolutionRecord(t, r)
        PROVE  x \in Project(s) /\ x[1] \notin Gone(t, d)
    <3>1. r.id \notin d.resolutions
      BY <1>4, <2>3, UpsertKinds
    <3>2. r \in t.resolutions /\ Classified(r) \cap t.claims # {}
      BY DEF Retrievable
    <3>3. r \in s.resolutions /\ t.lane[r.lane] = s.lane[r.lane] /\ Classified(r) \cap t.claims \subseteq s.claims
      BY <3>1, <3>2 DEF Reports
    <3>4. r \in Retrievable(s) /\ ResolutionRecord(s, r) = x
      BY <2>3, <3>2, <3>3 DEF Retrievable, ResolutionRecord, StatusOf
    <3>5. x[1] \notin Gone(t, d)
      <4>1. x[1] = <<"resolution", r.id>>
        BY <2>3, RecordIds
      <4>. QED  BY <3>1, <4>1, GoneKinds
    <3>. QED  BY <3>4, <3>5, RecordKinds
  <2>. QED  BY <2>1, <2>2, <2>3, RecordKinds
<1>5. ASSUME NEW x \in ProjectUpserts(t, d)
      PROVE  x \in Project(t)
  BY <1>5, UpsertKinds, RecordKinds
<1>6. \A x : x \in Updated(Project(s), t, d) <=> x \in Project(t)
  BY <1>3, <1>4, <1>5, UpdatedIs
<1>. QED  BY <1>6

-------------------------------------------------------------------------------
(* The inductive invariant.                                                *)

(* The first n operations of a log, and what they fold to.                 *)
First(q, n) == {q[i] : i \in 1 .. n}

At(q, n, rev) == Full(First(q, n), rev)

(* The operations of a log after the first m, up to the n-th.             *)
Between(q, m, n) == {q[j] : j \in (m + 1) .. n}

(* The consumer has a state of the registry revision of the cache.         *)
Aware == consumer.cursor # None /\ consumer.rev = cache.rev

LogInv ==
  /\ log \in Seq(Op) /\ registry \in Revision /\ token \in BOOLEAN
  /\ unsaved \in Nat /\ restarts \in 0 .. MaxRestarts

CallInv ==
  /\ call = Idle \/ call = Reading \/ \E n \in 0 .. Len(log) : call = Loading(n)
  /\ call = Reading => Current /\ ~ Aware
  /\ call.at = "loading" => /\ token => registry = Base
                            /\ Materialized => cache.rev < registry /\ cache.cursor <= call.cursor

(* The cached state is of all operations up to the cursor, and of no       *)
(* others unless a rebuild raced with an append and its read is yet to     *)
(* come.                                                                   *)
CacheInv ==
  Materialized =>
    /\ cache.cursor \in 0 .. Len(log) /\ cache.rev \in Revision /\ cache.rev <= registry
    /\ \E m \in cache.cursor .. Len(log) :
         cache.state = At(log, m, cache.rev) /\ (call # Reading => m = cache.cursor)

SavedInv ==
  saved.cursor # None =>
    /\ saved.cursor \in 0 .. Len(log)
    /\ \E m \in saved.cursor .. Len(log) : saved.state = At(log, m, Base)

(* A delta h tells of all retractions by id between its cursors, and of    *)
(* everything that changed when a consumer that is aware may get to it.    *)
Sound(h, q, cursor) ==
  /\ h.before \in Nat /\ h.after \in Nat /\ h.before < h.after /\ h.after <= cursor
  /\ NamesRetracted(h.delta, Between(q, h.before, h.after))

Exact(h, q, rev) == Reports(h.delta, At(q, h.before, rev), At(q, h.after, rev))

HistoryInv ==
  /\ history \in Seq(Range(history)) /\ Len(history) <= HistoryLimit
  /\ history = <<>> \/ Materialized
  /\ \A i \in DOMAIN history : Sound(history[i], log, cache.cursor)
  /\ Aware => \A i \in DOMAIN history :
       consumer.cursor <= history[i].before => Exact(history[i], log, cache.rev)

(* The records show no claim but those added, and none retracted by id,    *)
(* in the first n operations.                                              *)
ShowsFirst(shown, q, n) ==
  \A x \in shown : \A c : x[1] = <<"claim", c>> =>
    c \in ClaimsOf(First(q, n)) /\ c \notin IdsOut(First(q, n))

HasRecords ==
  /\ Materialized
  /\ consumer.cursor \in 0 .. cache.cursor
  /\ consumer.rev \in Revision /\ consumer.rev <= cache.rev
  /\ consumer.rev = cache.rev => consumer.shown = Project(At(log, consumer.cursor, cache.rev))
  /\ ShowsFirst(consumer.shown, log, consumer.cursor)

ConsumerInv ==
  /\ consumer = [cursor |-> consumer.cursor, shown |-> consumer.shown, rev |-> consumer.rev]
  /\ consumer.cursor # None => HasRecords

Inv == LogInv /\ CallInv /\ CacheInv /\ SavedInv /\ HistoryInv /\ ConsumerInv

-------------------------------------------------------------------------------
(* Facts about the beginnings of a log.                                    *)

(* The first n operations of a log are finitely many.                      *)
LEMMA FirstFinite ==
  ASSUME NEW q \in Seq(Op), NEW n \in 0 .. Len(q)
  PROVE  First(q, n) \in SUBSET Op /\ IsFiniteSet(First(q, n))
<1>1. First(q, n) \in SUBSET Op
  BY DEF First
<1>. DEFINE f == [i \in 1 .. n |-> q[i]]
<1>2. f \in Surjection(1 .. n, First(q, n))
  BY DEF First, Surjection
<1>3. IsFiniteSet(1 .. n)
  BY FS_Interval
<1>. HIDE DEF f
<1>. QED  BY <1>1, <1>2, <1>3, FS_Surjection

(* All of the log, and a log that has grown.                               *)
LEMMA FirstAll ==
  ASSUME NEW q \in Seq(Op)
  PROVE  First(q, Len(q)) = Range(q)
BY DEF First, Range

(* An append leaves the operations before it as they are.                  *)
LEMMA FirstGrown ==
  ASSUME NEW q \in Seq(Op), NEW o \in Op, NEW n \in 0 .. Len(q)
  PROVE  First(Append(q, o), n) = First(q, n)
<1>1. \A i \in 1 .. n : Append(q, o)[i] = q[i]
  OBVIOUS
<1>. QED  BY <1>1 DEF First

(* The operations after the first n, with m of them applied already.       *)
LEMMA FirstSince ==
  ASSUME NEW q \in Seq(Op), NEW n \in 0 .. Len(q), NEW m \in n .. Len(q),
         NEW rest, rest = SubSeq(q, n + 1, Len(q))
  PROVE  /\ rest \in Seq(Op) /\ Len(rest) = Len(q) - n
         /\ Range(rest) = Between(q, n, Len(q))
         /\ First(q, m) \cup Range(rest) = First(q, Len(q))
<1>1. Len(q) \in Nat /\ \A i \in 1 .. Len(q) : q[i] \in Op
  OBVIOUS
<1>2. /\ rest \in Seq(Op) /\ Len(rest) = Len(q) - n
      /\ \A i \in 1 .. (Len(q) - n) : rest[i] = q[n + i]
  BY <1>1, SubSeqProperties
<1>3. Range(rest) = {rest[i] : i \in 1 .. (Len(q) - n)}
  <2>1. DOMAIN rest = 1 .. (Len(q) - n)
    BY <1>2
  <2>. QED  BY <2>1 DEF Range
<1>4. \A x : x \in {rest[i] : i \in 1 .. (Len(q) - n)} => x \in Between(q, n, Len(q))
  <2>1. ASSUME NEW i \in 1 .. (Len(q) - n)
        PROVE  rest[i] \in Between(q, n, Len(q))
    <3>1. n + i \in (n + 1) .. Len(q)
      BY <1>1
    <3>2. rest[i] = q[n + i]
      BY <1>2
    <3>. QED  BY <3>1, <3>2 DEF Between
  <2>. QED  BY <2>1
<1>5. \A x : x \in Between(q, n, Len(q)) => x \in {rest[i] : i \in 1 .. (Len(q) - n)}
  <2>1. ASSUME NEW j \in (n + 1) .. Len(q)
        PROVE  q[j] \in {rest[i] : i \in 1 .. (Len(q) - n)}
    <3>1. j - n \in 1 .. (Len(q) - n) /\ n + (j - n) = j
      BY <1>1
    <3>2. rest[j - n] = q[j]
      BY <1>2, <3>1
    <3>. QED  BY <3>1, <3>2
  <2>. QED  BY <2>1 DEF Between
<1>6. Range(rest) = Between(q, n, Len(q))
  BY <1>3, <1>4, <1>5
<1>7. First(q, m) \cup Between(q, n, Len(q)) = First(q, Len(q))
  <2>1. \A i \in 1 .. m : i \in 1 .. Len(q)
    BY <1>1
  <2>2. \A j \in (n + 1) .. Len(q) : j \in 1 .. Len(q)
    BY <1>1
  <2>3. \A j \in 1 .. Len(q) : j \in 1 .. m \/ j \in (n + 1) .. Len(q)
    BY <1>1
  <2>. QED  BY <2>1, <2>2, <2>3 DEF First, Between
<1>. QED  BY <1>2, <1>6, <1>7

(* The read of a store from the cursor n on, on top of the state of the    *)
(* first m operations.                                                     *)
LEMMA BatchAt ==
  ASSUME NEW q \in Seq(Op), NEW n \in 0 .. Len(q), NEW m \in n .. Len(q), NEW rev \in Revision,
         NEW old, old = At(q, m, rev), NEW res, res = ApplyBatch(old, rev, SubSeq(q, n + 1, Len(q)))
  PROVE  /\ res.state = At(q, Len(q), rev)
         /\ Reports(res.delta, old, res.state)
         /\ NamesRetracted(res.delta, Between(q, n, Len(q)))
<1>. DEFINE rest == SubSeq(q, n + 1, Len(q))
            some == First(q, m)
<1>1. /\ rest \in Seq(Op)
      /\ Range(rest) = Between(q, n, Len(q))
      /\ some \cup Range(rest) = First(q, Len(q))
  BY FirstSince
<1>2. some \in SUBSET Op /\ IsFiniteSet(some)
  <2>1. m \in 0 .. Len(q)
    OBVIOUS
  <2>. QED  BY <2>1, FirstFinite
<1>3. old = Full(some, rev) /\ res = ApplyBatch(old, rev, rest)
  BY DEF At
<1>. HIDE DEF rest, some
<1>4. /\ res.state = Full(some \cup Range(rest), rev)
      /\ Reports(res.delta, old, res.state)
      /\ NamesRetracted(res.delta, Range(rest))
  BY <1>1, <1>2, <1>3, ApplyBatchExact
<1>. QED  BY <1>1, <1>4 DEF At

(* Nothing is lost in a checkpoint: what is computed anew is the same.     *)
LEMMA FromCheckpointSame ==
  ASSUME NEW ops, NEW rev, NEW r, NEW s, s = Full(ops, rev)
  PROVE  FromCheckpoint(s, r) = s
<1>1. /\ IsState(s) /\ Gathers(s, ops, rev) /\ s.lane = Lanes(s.resolutions, s.events, s.conflict)
  BY FullFields
<1>2. s.active = [k \in Key |-> {c \in s.claims \ s.inactive : KeyOf[c] = k}]
  BY <1>1 DEF Gathers, Held
<1>. DEFINE active == [k \in Key |-> {c \in s.claims \ s.inactive : KeyOf[c] = k}]
            lanes == Lanes(s.resolutions, s.events, s.conflict)
<1>3. FromCheckpoint(s, r) = [s EXCEPT !.active = active, !.lane = lanes]
  BY DEF FromCheckpoint
<1>4. active = s.active /\ lanes = s.lane
  BY <1>1, <1>2
<1>. HIDE DEF active, lanes
<1>5. FromCheckpoint(s, r)
        = [claims |-> s.claims, byId |-> s.byId, byRef |-> s.byRef, inactive |-> s.inactive,
           active |-> s.active, pairs |-> s.pairs, evidence |-> s.evidence, sources |-> s.sources,
           conflict |-> s.conflict, resolutions |-> s.resolutions, events |-> s.events,
           lane |-> s.lane]
  BY <1>1, <1>3, <1>4 DEF IsState
<1>. QED  BY <1>1, <1>5 DEF IsState

(* A nonempty set of numbers up to n has a greatest one.                   *)
LEMMA GreatestElement ==
  ASSUME NEW n \in Nat, NEW T \in SUBSET (1 .. n), T # {}
  PROVE  Max(T) \in T /\ \A x \in T : x <= Max(T)
<1>. DEFINE D == {n - x : x \in T}
<1>1. D \in SUBSET Nat /\ D # {}
  <2>1. \A x \in T : n - x \in Nat
    OBVIOUS
  <2>2. D # {}
    OBVIOUS
  <2>. QED  BY <2>1, <2>2
<1>2. PICK d \in D : \A e \in D : d <= e
  <2>. HIDE DEF D
  <2>. QED  BY <1>1, LeastElement
<1>3. PICK x \in T : d = n - x
  BY <1>2
<1>4. ASSUME NEW y \in T
      PROVE  x >= y
  <2>1. n - x <= n - y
    BY <1>2, <1>3
  <2>2. x \in Nat /\ y \in Nat
    OBVIOUS
  <2>. QED  BY <2>1, <2>2
<1>5. Max(T) \in T /\ \A y \in T : Max(T) >= y
  BY <1>3, <1>4 DEF Max
<1>. QED  BY <1>5

-------------------------------------------------------------------------------
(* Deltas in a row, and what the records show after them.                  *)

(* The combination of deltas has all that each has.                        *)
LEMMA CombinedHas ==
  ASSUME NEW I, NEW ds, DOMAIN ds = I, NEW i \in I
  PROVE  Has(CombinedDelta(ds), ds[i])
<1>1. DOMAIN NoDelta = {"claims", "conflicts", "keys", "refs", "resolutions"}
  BY DEF NoDelta
<1>2. /\ CombinedDelta(ds).claims = UNION {ds[j].claims : j \in I}
      /\ CombinedDelta(ds).conflicts = UNION {ds[j].conflicts : j \in I}
      /\ CombinedDelta(ds).refs = UNION {ds[j].refs : j \in I}
      /\ CombinedDelta(ds).resolutions = UNION {ds[j].resolutions : j \in I}
  BY <1>1 DEF CombinedDelta
<1>. QED  BY <1>2 DEF Has

(* A claim that is retracted by id up to n is retracted up to m, or in     *)
(* between.                                                                *)
LEMMA NamesChain ==
  ASSUME NEW d, NEW e, NEW all, Has(all, d), Has(all, e), NEW q,
         NEW a \in Nat, NEW b \in Nat, NEW c \in Nat, a <= b, b <= c,
         NamesRetracted(d, Between(q, a, b)), NamesRetracted(e, Between(q, b, c))
  PROVE  NamesRetracted(all, Between(q, a, c))
<1>1. ASSUME NEW j \in (a + 1) .. c, q[j].kind = "retraction"
      PROVE  {q[j].target} \ {None} \subseteq all.claims
  <2>1. CASE j <= b
    <3>1. q[j] \in Between(q, a, b)
      BY <2>1 DEF Between
    <3>. QED  BY <1>1, <3>1 DEF NamesRetracted, Has
  <2>2. CASE ~ j <= b
    <3>1. q[j] \in Between(q, b, c)
      BY <2>2 DEF Between
    <3>. QED  BY <1>1, <3>1 DEF NamesRetracted, Has
  <2>. QED  BY <2>1, <2>2
<1>. QED  BY <1>1 DEF NamesRetracted, Between

(* The deltas of a history that are later, combined.                       *)
DeltasOf(h, later) == CombinedDelta([i \in later |-> h[i].delta])

(* The deltas after a cursor, when none is missing, combined: they report  *)
(* what each reports, and name what each names.                            *)
LEMMA ChainSound ==
  ASSUME NEW q, NEW rev, NEW cursor, NEW h, h \in Seq(Range(h)),
         \A i \in DOMAIN h : Sound(h[i], q, cursor),
         NEW from \in Nat, NEW to, NEW later, later = Later(h, from), Chained(h, later, from, to),
         NEW all, all = DeltasOf(h, later)
  PROVE  /\ to \in Nat /\ from < to
         /\ NamesRetracted(all, Between(q, from, to))
         /\ (\A i \in DOMAIN h : from <= h[i].before => Exact(h[i], q, rev))
              => Reports(all, At(q, from, rev), At(q, to, rev))
<1>. DEFINE Every == \A i \in DOMAIN h : from <= h[i].before => Exact(h[i], q, rev)
            Good(n) == /\ NamesRetracted(all, Between(q, from, n))
                       /\ Every => Reports(all, At(q, from, rev), At(q, n, rev))
            N == Len(h)
<1>1. N \in Nat /\ DOMAIN h = 1 .. N
  OBVIOUS
<1>2. later \in SUBSET (1 .. N) /\ later # {}
  BY <1>1 DEF Later, Chained
<1>3. \A i \in later : i \in DOMAIN h /\ h[i].after > from
  BY DEF Later
<1>4. ASSUME NEW i \in later
      PROVE  /\ h[i].before \in Nat /\ h[i].after \in Nat /\ h[i].before < h[i].after
             /\ NamesRetracted(h[i].delta, Between(q, h[i].before, h[i].after))
  BY <1>3 DEF Sound
<1>5. ASSUME NEW i \in later
      PROVE  Has(all, h[i].delta)
  <2>. DEFINE ds == [j \in later |-> h[j].delta]
  <2>1. DOMAIN ds = later /\ ds[i] = h[i].delta /\ all = CombinedDelta(ds)
    BY DEF DeltasOf
  <2>. HIDE DEF ds
  <2>2. Has(CombinedDelta(ds), ds[i])
    BY <2>1, CombinedHas
  <2>. QED  BY <2>1, <2>2
<1>6. Has(all, all)
  BY DEF Has
<1>7. \A i \in later : Good(h[i].after)
  <2>. DEFINE Bad == {i \in later : ~ Good(h[i].after)}
  <2>1. SUFFICES ASSUME Bad # {} PROVE FALSE
    OBVIOUS
  <2>2. Bad \in SUBSET Nat
    BY <1>2
  <2>3. PICK j \in Bad : \A i \in Bad : j <= i
    <3>. HIDE DEF Bad
    <3>. QED  BY <2>1, <2>2, LeastElement
  <2>4. j \in later /\ ~ Good(h[j].after)
    OBVIOUS
  <2>. DEFINE earlier == {i \in later : i < j}
  <2>5. h[j].before = IF earlier = {} THEN from ELSE h[Max(earlier)].after
    BY <2>4 DEF Chained, Expected
  <2>6. CASE earlier = {}
    <3>1. h[j].before = from
      BY <2>5, <2>6
    <3>2. NamesRetracted(all, Between(q, from, h[j].after))
      BY <1>4, <1>5, <2>4, <3>1 DEF NamesRetracted, Has
    <3>3. ASSUME Every
          PROVE  Reports(all, At(q, from, rev), At(q, h[j].after, rev))
      <4>1. Exact(h[j], q, rev)
        BY <1>3, <2>4, <3>1, <3>3
      <4>2. Reports(h[j].delta, At(q, from, rev), At(q, h[j].after, rev))
        BY <3>1, <4>1 DEF Exact
      <4>. QED  BY <1>5, <2>4, <4>2, ReportsMore
    <3>. QED  BY <2>4, <3>2, <3>3
  <2>7. CASE earlier # {}
    <3>. DEFINE i == Max(earlier)
    <3>1. i \in earlier
      <4>1. earlier \in SUBSET (1 .. N)
        BY <1>2
      <4>. HIDE DEF earlier
      <4>. QED  BY <1>1, <2>7, <4>1, GreatestElement
    <3>. HIDE DEF i
    <3>2. i \in later /\ i < j
      BY <3>1
    <3>3. i \notin Bad
      <4>1. ~ j <= i
        BY <1>2, <2>4, <3>2
      <4>. HIDE DEF Bad
      <4>. QED  BY <2>3, <4>1
    <3>4. Good(h[i].after)
      BY <3>2, <3>3
    <3>5. h[j].before = h[i].after
      BY <2>5, <2>7 DEF i
    <3>6. h[i].after \in Nat /\ h[i].after > from /\ h[j].after \in Nat /\ h[i].after < h[j].after
      BY <1>3, <1>4, <2>4, <3>2, <3>5
    <3>7. NamesRetracted(all, Between(q, from, h[j].after))
      <4>1. NamesRetracted(all, Between(q, from, h[i].after))
        BY <3>4
      <4>2. NamesRetracted(h[j].delta, Between(q, h[i].after, h[j].after))
        BY <1>4, <2>4, <3>5
      <4>3. Has(all, h[j].delta) /\ from <= h[i].after /\ h[i].after <= h[j].after
        BY <1>5, <2>4, <3>6
      <4>. QED  BY <1>6, <3>6, <4>1, <4>2, <4>3, NamesChain
    <3>8. ASSUME Every
          PROVE  Reports(all, At(q, from, rev), At(q, h[j].after, rev))
      <4>1. Exact(h[j], q, rev)
        <5>1. from <= h[j].before
          BY <3>5, <3>6
        <5>. QED  BY <1>3, <2>4, <3>8, <5>1
      <4>2. Reports(h[j].delta, At(q, h[i].after, rev), At(q, h[j].after, rev))
        BY <3>5, <4>1 DEF Exact
      <4>3. Reports(all, At(q, from, rev), At(q, h[i].after, rev))
        BY <3>4, <3>8
      <4>4. Has(all, h[j].delta)
        BY <1>5, <2>4
      <4>. HIDE DEF Every, Good
      <4>. QED  BY <1>6, <4>2, <4>3, <4>4, ReportsChain
    <3>. QED  BY <2>4, <3>7, <3>8
  <2>. QED  BY <2>6, <2>7
<1>8. PICK i \in later : to = h[i].after
  <2>1. {i \in later : i < N + 1} = later
    BY <1>1, <1>2
  <2>2. to = h[Max(later)].after
    BY <1>2, <2>1 DEF Chained, Expected
  <2>. QED  BY <1>1, <1>2, <2>2, GreatestElement
<1>. QED  BY <1>3, <1>4, <1>7, <1>8

(* A retracted claim is among those that the full fold takes out.          *)
LEMMA IdsAreOut ==
  ASSUME NEW ops, NEW rev, NEW t, t = Full(ops, rev)
  PROVE  t.claims = ClaimsOf(ops) /\ IdsOut(ops) \subseteq t.inactive
BY FullFields DEF Gathers, Out

(* The records of a state show what they may.                              *)
LEMMA ProjectShows ==
  ASSUME NEW q, NEW n, NEW rev
  PROVE  ShowsFirst(Project(At(q, n, rev)), q, n)
<1>. DEFINE ops == First(q, n)
            t == At(q, n, rev)
<1>1. t.claims = ClaimsOf(ops) /\ IdsOut(ops) \subseteq t.inactive
  BY IdsAreOut DEF At
<1>. HIDE DEF ops, t
<1>2. ASSUME NEW x \in Project(t), NEW c, x[1] = <<"claim", c>>
      PROVE  c \in ClaimsOf(ops) /\ c \notin IdsOut(ops)
  <2>1. ASSUME NEW e \in t.claims \ t.inactive, x = ClaimRecord(t, e)
        PROVE  c \in ClaimsOf(ops) /\ c \notin IdsOut(ops)
    <3>1. x[1] = <<"claim", e>>
      BY <2>1, RecordIds
    <3>2. c = e
      BY <1>2, <3>1, RecordIds
    <3>. QED  BY <1>1, <3>2
  <2>2. ASSUME NEW k \in InConflict(t), x = ConflictRecord(t, k)
        PROVE  FALSE
    BY <1>2, <2>2, RecordIds
  <2>3. ASSUME NEW r \in Retrievable(t), x = ResolutionRecord(t, r)
        PROVE  FALSE
    BY <1>2, <2>3, RecordIds
  <2>. QED  BY <2>1, <2>2, <2>3, RecordKinds
<1>. QED  BY <1>2 DEF ShowsFirst, ops, t

(* They still do after a delta that names what was retracted since.        *)
LEMMA UpdatedShows ==
  ASSUME NEW q, NEW from \in Nat, NEW to \in Nat, from <= to, NEW rev, NEW t, t = At(q, to, rev),
         NEW d, NamesRetracted(d, Between(q, from, to)),
         NEW shown, ShowsFirst(shown, q, from)
  PROVE  ShowsFirst(Updated(shown, t, d), q, to)
<1>. DEFINE ops == First(q, to)
<1>1. t.claims = ClaimsOf(ops) /\ IdsOut(ops) \subseteq t.inactive
  BY IdsAreOut DEF At
<1>2. First(q, from) \subseteq ops /\ \A o \in ops : o \in First(q, from) \/ o \in Between(q, from, to)
  <2>1. \A i \in 1 .. from : i \in 1 .. to
    OBVIOUS
  <2>2. \A i \in 1 .. to : i \in 1 .. from \/ i \in (from + 1) .. to
    OBVIOUS
  <2>. QED  BY <2>1, <2>2 DEF First, Between
<1>. HIDE DEF ops
<1>3. ASSUME NEW x \in ProjectUpserts(t, d), NEW c, x[1] = <<"claim", c>>
      PROVE  c \in ClaimsOf(ops) /\ c \notin IdsOut(ops)
  <2>1. ASSUME NEW e \in (d.claims \cap t.claims) \ t.inactive, x = ClaimRecord(t, e)
        PROVE  c \in ClaimsOf(ops) /\ c \notin IdsOut(ops)
    <3>1. x[1] = <<"claim", e>>
      BY <2>1, RecordIds
    <3>2. c = e
      BY <1>3, <3>1, RecordIds
    <3>. QED  BY <1>1, <3>2
  <2>2. ASSUME NEW k \in InConflict(t), x = ConflictRecord(t, k)
        PROVE  FALSE
    BY <1>3, <2>2, RecordIds
  <2>3. ASSUME NEW r \in Retrievable(t), x = ResolutionRecord(t, r)
        PROVE  FALSE
    BY <1>3, <2>3, RecordIds
  <2>. QED  BY <2>1, <2>2, <2>3, UpsertKinds
<1>4. ASSUME NEW x \in shown, x[1] \notin Gone(t, d), NEW c, x[1] = <<"claim", c>>
      PROVE  c \in ClaimsOf(ops) /\ c \notin IdsOut(ops)
  <2>1. c \in ClaimsOf(First(q, from)) /\ c \notin IdsOut(First(q, from))
    BY <1>4 DEF ShowsFirst
  <2>2. c \in ClaimsOf(ops)
    BY <1>2, <2>1 DEF ClaimsOf, Of
  <2>3. ASSUME c \in IdsOut(ops)
        PROVE  FALSE
    <3>1. PICK o \in ops : o.kind = "retraction" /\ o.target = c /\ c # None
      BY <2>3 DEF IdsOut, Of
    <3>2. o \notin First(q, from)
      BY <2>1, <3>1 DEF IdsOut, Of
    <3>3. c \in d.claims
      BY <1>2, <3>1, <3>2 DEF NamesRetracted
    <3>4. <<"claim", c>> \in Gone(t, d)
      BY <1>1, <2>2, <3>3, GoneKinds
    <3>. QED  BY <1>4, <3>4
  <2>. QED  BY <2>2, <2>3
<1>5. ASSUME NEW x \in Updated(shown, t, d), NEW c, x[1] = <<"claim", c>>
      PROVE  c \in ClaimsOf(ops) /\ c \notin IdsOut(ops)
  <2>1. x \in ProjectUpserts(t, d) \/ (x \in shown /\ x[1] \notin Gone(t, d))
    BY UpdatedIs
  <2>. QED  BY <1>3, <1>4, <1>5, <2>1
<1>. QED  BY <1>5 DEF ShowsFirst, ops

-------------------------------------------------------------------------------
(* Every step preserves the invariant.                                     *)

(* A memory that has materialized nothing yet satisfies the invariant.     *)
LEMMA InitInv == Init => Inv
<1>. SUFFICES ASSUME Init PROVE Inv
  OBVIOUS
<1>1. ~ Materialized /\ history = <<>> /\ call = Idle /\ consumer = NewConsumer
      /\ saved.cursor = None
  BY DEF Init, Materialized, Nothing, Checkpoint
<1>2. LogInv
  BY CacheAssumption DEF Init, LogInv
<1>3. CallInv
  BY <1>1 DEF CallInv, Idle, Reading
<1>4. HistoryInv
  BY <1>1, CacheAssumption DEF HistoryInv, Aware, NewConsumer
<1>5. ConsumerInv
  BY <1>1 DEF ConsumerInv, NewConsumer
<1>. QED  BY <1>1, <1>2, <1>3, <1>4, <1>5 DEF Inv, CacheInv, SavedInv

(* An append leaves the beginnings of the log as they are.                 *)
LEMMA GrownSame ==
  ASSUME NEW q \in Seq(Op), NEW o \in Op
  PROVE  /\ Append(q, o) \in Seq(Op) /\ Len(Append(q, o)) = Len(q) + 1 /\ Len(q) \in Nat
         /\ \A n \in 0 .. Len(q) : First(Append(q, o), n) = First(q, n)
         /\ \A n \in 0 .. Len(q) : \A rev : At(Append(q, o), n, rev) = At(q, n, rev)
         /\ \A m \in Nat : \A n \in 0 .. Len(q) : Between(Append(q, o), m, n) = Between(q, m, n)
<1>. DEFINE t == Append(q, o)
<1>1. t \in Seq(Op) /\ Len(t) = Len(q) + 1 /\ Len(q) \in Nat
  OBVIOUS
<1>2. ASSUME NEW n \in 0 .. Len(q)
      PROVE  First(t, n) = First(q, n) /\ \A rev : At(t, n, rev) = At(q, n, rev)
  <2>1. First(t, n) = First(q, n)
    BY FirstGrown
  <2>. QED  BY <2>1 DEF At
<1>3. ASSUME NEW m \in Nat, NEW n \in 0 .. Len(q)
      PROVE  Between(t, m, n) = Between(q, m, n)
  <2>1. \A j \in (m + 1) .. n : t[j] = q[j]
    OBVIOUS
  <2>. QED  BY <2>1 DEF Between
<1>. QED  BY <1>1, <1>2, <1>3

(* An append to the store only makes the log longer: the cached and the    *)
(* saved state are of a beginning of it, as before.                        *)
LEMMA AppendStep ==
  ASSUME Inv, NEW o \in Op, AppendOp(o)
  PROVE  Inv'
<1>1. /\ log' = Append(log, o) /\ registry' = registry /\ token' = token /\ cache' = cache
      /\ history' = history /\ saved' = saved /\ unsaved' = unsaved /\ call' = call
      /\ consumer' = consumer /\ restarts' = restarts
  BY DEF AppendOp
<1>2. LogInv /\ CallInv /\ CacheInv /\ SavedInv /\ HistoryInv /\ ConsumerInv
  BY DEF Inv
<1>3. /\ log' \in Seq(Op) /\ Len(log') = Len(log) + 1 /\ Len(log) \in Nat
      /\ \A n \in 0 .. Len(log) : First(log', n) = First(log, n)
      /\ \A n \in 0 .. Len(log) : \A rev : At(log', n, rev) = At(log, n, rev)
      /\ \A m \in Nat : \A n \in 0 .. Len(log) : Between(log', m, n) = Between(log, m, n)
  <2>. DEFINE t == Append(log, o)
  <2>1. log \in Seq(Op)
    BY <1>2 DEF LogInv
  <2>2. /\ t \in Seq(Op) /\ Len(t) = Len(log) + 1 /\ Len(log) \in Nat
        /\ \A n \in 0 .. Len(log) : First(t, n) = First(log, n)
        /\ \A n \in 0 .. Len(log) : \A rev : At(t, n, rev) = At(log, n, rev)
        /\ \A m \in Nat : \A n \in 0 .. Len(log) : Between(t, m, n) = Between(log, m, n)
    BY <2>1, GrownSame
  <2>3. log' = t
    BY <1>1
  <2>. HIDE DEF t
  <2>. QED  BY <2>2, <2>3
<1>4. Materialized => cache.cursor \in 0 .. Len(log)
  BY <1>2 DEF CacheInv
<1>5. LogInv'
  BY <1>1, <1>2, <1>3 DEF LogInv
<1>6. CallInv'
  <2>1. call = Idle \/ call = Reading \/ \E n \in 0 .. Len(log') : call = Loading(n)
    BY <1>2, <1>3 DEF CallInv
  <2>. QED  BY <1>1, <1>2, <2>1 DEF CallInv, Current, Materialized, Aware
<1>7. CacheInv'
  <2>1. SUFFICES ASSUME Materialized
                 PROVE  /\ cache.cursor \in 0 .. Len(log') /\ cache.rev \in Revision /\ cache.rev <= registry
                        /\ \E m \in cache.cursor .. Len(log') :
                             cache.state = At(log', m, cache.rev) /\ (call # Reading => m = cache.cursor)
    BY <1>1 DEF CacheInv, Materialized
  <2>2. PICK m \in cache.cursor .. Len(log) :
               cache.state = At(log, m, cache.rev) /\ (call # Reading => m = cache.cursor)
    BY <1>2, <2>1 DEF CacheInv
  <2>3. m \in cache.cursor .. Len(log') /\ m \in 0 .. Len(log)
    BY <1>3, <1>4, <2>1
  <2>4. At(log', m, cache.rev) = At(log, m, cache.rev)
    BY <1>3, <2>3
  <2>5. cache.cursor \in 0 .. Len(log') /\ cache.rev \in Revision /\ cache.rev <= registry
    BY <1>2, <1>3, <2>1 DEF CacheInv
  <2>. QED  BY <2>2, <2>3, <2>4, <2>5
<1>8. SavedInv'
  <2>1. SUFFICES ASSUME saved.cursor # None
                 PROVE  /\ saved.cursor \in 0 .. Len(log')
                        /\ \E m \in saved.cursor .. Len(log') : saved.state = At(log', m, Base)
    BY <1>1 DEF SavedInv
  <2>2. saved.cursor \in 0 .. Len(log)
    BY <1>2, <2>1 DEF SavedInv
  <2>3. PICK m \in saved.cursor .. Len(log) : saved.state = At(log, m, Base)
    BY <1>2, <2>1 DEF SavedInv
  <2>4. m \in saved.cursor .. Len(log') /\ m \in 0 .. Len(log)
    BY <1>3, <2>2
  <2>5. At(log', m, Base) = At(log, m, Base)
    BY <1>3, <2>4
  <2>6. saved.cursor \in 0 .. Len(log')
    BY <1>3, <2>2
  <2>. QED  BY <2>3, <2>4, <2>5, <2>6
<1>9. HistoryInv'
  <2>1. ASSUME NEW i \in DOMAIN history
        PROVE  /\ Sound(history[i], log', cache.cursor)
               /\ Exact(history[i], log, cache.rev) => Exact(history[i], log', cache.rev)
    <3>1. Sound(history[i], log, cache.cursor) /\ Materialized
      BY <1>2 DEF HistoryInv
    <3>2. history[i].before \in 0 .. Len(log) /\ history[i].after \in 0 .. Len(log)
      BY <1>3, <1>4, <3>1 DEF Sound
    <3>. QED  BY <1>3, <3>1, <3>2 DEF Sound, Exact
  <2>. QED  BY <1>1, <1>2, <2>1 DEF HistoryInv, Aware, Materialized
<1>10. ConsumerInv'
  <2>1. ASSUME HasRecords
        PROVE  HasRecords'
    <3>1. consumer.cursor \in 0 .. Len(log)
      BY <1>3, <1>4, <2>1 DEF HasRecords
    <3>2. First(log', consumer.cursor) = First(log, consumer.cursor)
          /\ At(log', consumer.cursor, cache.rev) = At(log, consumer.cursor, cache.rev)
      BY <1>3, <3>1
    <3>. QED  BY <1>1, <2>1, <3>2 DEF HasRecords, Materialized, ShowsFirst
  <2>. QED  BY <1>1, <1>2, <2>1 DEF ConsumerInv
<1>. QED  BY <1>5, <1>6, <1>7, <1>8, <1>9, <1>10 DEF Inv

(* A registration leaves the cache at an older revision, so that it is not *)
(* current any more.                                                       *)
LEMMA RegisterStep ==
  ASSUME Inv, Register
  PROVE  Inv'
<1>1. /\ log' = log /\ registry' = registry + 1 /\ registry' \in Revision /\ token' = token
      /\ cache' = cache /\ history' = history /\ saved' = saved /\ unsaved' = unsaved
      /\ call' = Idle /\ call = Idle /\ consumer' = consumer /\ restarts' = restarts
  BY DEF Register
<1>2. LogInv /\ CallInv /\ CacheInv /\ SavedInv /\ HistoryInv /\ ConsumerInv
  BY DEF Inv
<1>3. LogInv'
  BY <1>1, <1>2 DEF LogInv
<1>4. CallInv'
  BY <1>1 DEF CallInv, Idle, Reading
<1>5. CacheInv'
  <2>1. \A r \in Revision : r <= registry => r <= registry + 1
    BY <1>2, CacheAssumption DEF LogInv
  <2>. QED  BY <1>1, <1>2, <2>1 DEF CacheInv, Materialized
<1>6. SavedInv'
  BY <1>1, <1>2 DEF SavedInv
<1>7. HistoryInv'
  BY <1>1, <1>2 DEF HistoryInv, Aware, Materialized
<1>8. ConsumerInv'
  BY <1>1, <1>2 DEF ConsumerInv, HasRecords, Materialized
<1>. QED  BY <1>3, <1>4, <1>5, <1>6, <1>7, <1>8 DEF Inv

(* A rebuild begins with the cursor that it reads before the operations.   *)
LEMMA StartRebuildStep ==
  ASSUME Inv, StartRebuild
  PROVE  Inv'
<1>1. /\ log' = log /\ registry' = registry /\ token' = TokenKept /\ cache' = cache
      /\ history' = history /\ saved' = saved /\ unsaved' = unsaved /\ consumer' = consumer
      /\ restarts' = restarts /\ call = Idle /\ call' = Loading(Len(log)) /\ ~ Current
  BY DEF StartRebuild
<1>2. LogInv /\ CallInv /\ CacheInv /\ SavedInv /\ HistoryInv /\ ConsumerInv
  BY DEF Inv
<1>3. LogInv'
  BY <1>1, <1>2 DEF LogInv, TokenKept
<1>4. CallInv'
  <2>1. Materialized => cache.rev < registry /\ cache.cursor <= Len(log)
    <3>1. Materialized => /\ cache.cursor \in 0 .. Len(log) /\ cache.rev \in Revision
                          /\ cache.rev <= registry /\ cache.rev # registry
      BY <1>1, <1>2 DEF Current, CacheInv
    <3>2. registry \in Nat /\ Len(log) \in Nat /\ \A r \in Revision : r \in Nat
      BY <1>2, CacheAssumption DEF LogInv
    <3>3. Materialized => cache.rev \in Nat
      BY <3>1, <3>2
    <3>4. Materialized => cache.rev < registry
      BY <3>1, <3>2, <3>3
    <3>. QED  BY <3>1, <3>2, <3>4
  <2>2. call'.at = "loading" /\ call'.cursor = Len(log) /\ call' # Reading
    BY <1>1 DEF Loading, Reading
  <2>3. Len(log) \in 0 .. Len(log)
    BY <1>2 DEF LogInv
  <2>. QED  BY <1>1, <2>1, <2>2, <2>3 DEF CallInv, TokenKept, Materialized
<1>5. CacheInv'
  <2>1. call # Reading
    BY <1>1 DEF Idle, Reading
  <2>. QED  BY <1>1, <1>2, <2>1 DEF CacheInv, Materialized
<1>6. SavedInv'
  BY <1>1, <1>2 DEF SavedInv
<1>7. HistoryInv'
  BY <1>1, <1>2 DEF HistoryInv, Aware, Materialized
<1>8. ConsumerInv'
  BY <1>1, <1>2 DEF ConsumerInv, HasRecords, Materialized
<1>. QED  BY <1>3, <1>4, <1>5, <1>6, <1>7, <1>8 DEF Inv

(* A rebuild caches the state of the whole log at the cursor it began with:*)
(* the state may be ahead of the cursor until the read that follows.       *)
LEMMA FinishRebuildStep ==
  ASSUME Inv, FinishRebuild
  PROVE  Inv'
<1>. DEFINE N == Len(log)
            state == Full(Range(log), registry)
<1>1. /\ log' = log /\ registry' = registry /\ token' = token /\ call.at = "loading" /\ call' = Reading
      /\ cache' = Cached(state, call.cursor) /\ history' = <<>> /\ consumer' = consumer
      /\ saved' = IF token THEN Checkpoint(state, call.cursor) ELSE saved
      /\ unsaved' = (IF token THEN 0 ELSE unsaved) /\ restarts' = restarts
  BY DEF FinishRebuild
<1>2. LogInv /\ CallInv /\ CacheInv /\ SavedInv /\ HistoryInv /\ ConsumerInv
  BY DEF Inv
<1>3. PICK n \in 0 .. N : call = Loading(n)
  BY <1>1, <1>2 DEF CallInv, Idle, Reading
<1>4. call.cursor = n /\ n \in Nat /\ N \in n .. N /\ N \in Nat
  BY <1>2, <1>3 DEF Loading, LogInv
<1>5. state = At(log, N, registry)
  BY <1>2, FirstAll DEF At, LogInv
<1>. HIDE DEF state
<1>6. cache'.state = At(log, N, registry) /\ cache'.cursor = n /\ cache'.rev = registry
  BY <1>1, <1>4, <1>5 DEF Cached
<1>7. Materialized'
  BY <1>4, <1>6, OperationAssumption DEF Materialized
<1>8. ASSUME consumer.cursor # None
      PROVE  HasRecords' /\ consumer.rev # registry
  <2>1. HasRecords
    BY <1>2, <1>8 DEF ConsumerInv
  <2>2. cache.rev < registry /\ cache.cursor <= n
    BY <1>1, <1>2, <1>4, <2>1 DEF CallInv, HasRecords
  <2>3. cache.cursor \in Nat /\ cache.rev \in Nat /\ registry \in Nat
    <3>1. cache.cursor \in 0 .. N /\ cache.rev \in Revision
      BY <1>2, <2>1 DEF CacheInv, HasRecords
    <3>2. registry \in Nat /\ \A r \in Revision : r \in Nat
      BY <1>2, CacheAssumption DEF LogInv
    <3>3. cache.cursor \in Nat
      BY <1>4, <3>1
    <3>. QED  BY <3>1, <3>2, <3>3
  <2>4. consumer.rev \in Nat /\ consumer.rev <= cache.rev /\ consumer.cursor \in 0 .. cache.cursor
    BY <2>1, CacheAssumption DEF HasRecords
  <2>5. consumer.rev <= registry /\ consumer.rev # registry /\ consumer.cursor \in 0 .. n
    BY <1>4, <2>2, <2>3, <2>4
  <2>6. consumer.rev \in Revision /\ ShowsFirst(consumer.shown, log, consumer.cursor)
    BY <2>1 DEF HasRecords
  <2>. QED  BY <1>1, <1>6, <1>7, <2>5, <2>6 DEF HasRecords
<1>9. LogInv'
  BY <1>1, <1>2 DEF LogInv
<1>10. ~ Aware'
  BY <1>1, <1>6, <1>8 DEF Aware
<1>11. CallInv'
  BY <1>1, <1>6, <1>7, <1>10 DEF CallInv, Current, Reading
<1>12. CacheInv'
  <2>1. registry \in Revision /\ registry <= registry
    BY <1>2, CacheAssumption DEF LogInv
  <2>. QED  BY <1>1, <1>4, <1>6, <2>1 DEF CacheInv
<1>13. SavedInv'
  <2>1. CASE token
    <3>1. saved'.state = At(log, N, Base) /\ saved'.cursor = n
      BY <1>1, <1>2, <1>4, <1>5, <2>1 DEF Checkpoint, CallInv
    <3>. QED  BY <1>1, <1>4, <3>1 DEF SavedInv
  <2>2. CASE ~ token
    BY <1>1, <1>2, <2>2 DEF SavedInv
  <2>. QED  BY <2>1, <2>2
<1>14. HistoryInv'
  BY <1>1, CacheAssumption DEF HistoryInv
<1>15. ConsumerInv'
  BY <1>1, <1>2, <1>8 DEF ConsumerInv
<1>. QED  BY <1>9, <1>11, <1>12, <1>13, <1>14, <1>15 DEF Inv

(* A restart leaves nothing but the log and the checkpoint.                *)
LEMMA RestartStep ==
  ASSUME Inv, Restart
  PROVE  Inv'
<1>1. /\ log' = log /\ registry' = Base /\ token' = TRUE /\ cache' = Nothing /\ history' = <<>>
      /\ saved' = saved /\ unsaved' = 0 /\ call' = Idle /\ consumer' = NewConsumer
      /\ restarts < MaxRestarts /\ restarts' = restarts + 1
  BY DEF Restart
<1>2. LogInv /\ SavedInv
  BY DEF Inv
<1>3. ~ Materialized' /\ consumer'.cursor = None
  BY <1>1 DEF Materialized, Nothing, NewConsumer
<1>4. LogInv'
  BY <1>1, <1>2, CacheAssumption DEF LogInv
<1>5. CallInv'
  BY <1>1 DEF CallInv, Idle, Reading
<1>6. CacheInv'
  BY <1>3 DEF CacheInv
<1>7. SavedInv'
  BY <1>1, <1>2 DEF SavedInv
<1>8. HistoryInv'
  BY <1>1, <1>3, CacheAssumption DEF HistoryInv, Aware
<1>9. ConsumerInv'
  BY <1>1, <1>3 DEF ConsumerInv, NewConsumer
<1>. QED  BY <1>4, <1>5, <1>6, <1>7, <1>8, <1>9 DEF Inv

(* Keeping the last deltas of the history and a new one.                   *)
LEMMA KeptIs ==
  ASSUME NEW s, s \in Seq(Range(s)), Len(s) <= HistoryLimit, NEW e, NEW k, k = Kept(Append(s, e))
  PROVE  /\ k \in Seq(Range(k)) /\ Len(k) <= HistoryLimit
         /\ \A i \in DOMAIN k : k[i] = e \/ \E j \in DOMAIN s : k[i] = s[j]
<1>. DEFINE N == Len(s)
            t == Append(s, e)
            T == Range(s) \cup {e}
            m == IF N + 1 > HistoryLimit THEN 2 ELSE 1
<1>1. N \in Nat /\ DOMAIN s = 1 .. N /\ HistoryLimit \in Nat /\ HistoryLimit # 0
  BY CacheAssumption
<1>2. s \in Seq(T)
  BY DEF Range
<1>3. t \in Seq(T) /\ Len(t) = N + 1 /\ t[N + 1] = e /\ \A i \in 1 .. N : t[i] = s[i]
  BY <1>2, AppendProperties
<1>. HIDE DEF t
<1>4. k = SubSeq(t, m, N + 1)
  BY <1>3 DEF Kept, t
<1>5. m \in {1, 2} /\ (N + 1 <= HistoryLimit \/ m = 2)
  BY <1>1
<1>. HIDE DEF m
<1>6. \A i \in m .. (N + 1) : t[i] \in T
  BY <1>1, <1>3, <1>5
<1>7. /\ k \in Seq(T) /\ Len(k) = (IF m <= N + 1 THEN N + 1 - m + 1 ELSE 0)
      /\ \A i \in 1 .. (N + 1 - m + 1) : k[i] = t[m + i - 1]
  BY <1>1, <1>4, <1>5, <1>6, SubSeqProperties
<1>8. Len(k) <= HistoryLimit
  BY <1>1, <1>5, <1>7
<1>9. k \in Seq(Range(k))
  BY <1>7 DEF Range
<1>10. ASSUME NEW i \in DOMAIN k
       PROVE  k[i] = e \/ \E j \in DOMAIN s : k[i] = s[j]
  <2>1. k[i] \in T
    BY <1>7
  <2>. QED  BY <2>1 DEF Range
<1>. QED  BY <1>8, <1>9, <1>10

(* A checkpoint and the operations after its cursor make the state of the  *)
(* whole log, even when the checkpoint was ahead of its cursor.            *)
LEMMA RestoreStep ==
  ASSUME Inv, Restore
  PROVE  Inv'
<1>. DEFINE N == Len(log)
            read == Since(saved.cursor)
            old == FromCheckpoint(saved.state, registry)
            res == ApplyBatch(old, registry, read)
            e == [before |-> saved.cursor, after |-> N, delta |-> res.delta]
<1>1. /\ ~ Materialized /\ saved.cursor # None /\ token /\ registry = Base
      /\ cache' = Cached(res.state, N) /\ unsaved' = Len(read) /\ call' = Reading
      /\ history' = (IF read = <<>> THEN history ELSE Remembered(saved.cursor, res.delta))
      /\ log' = log /\ registry' = registry /\ token' = token /\ saved' = saved
      /\ consumer' = consumer /\ restarts' = restarts
  BY DEF Restore, Usable, TokenKept
<1>2. LogInv /\ CallInv /\ CacheInv /\ SavedInv /\ HistoryInv /\ ConsumerInv
  BY DEF Inv
<1>3. log \in Seq(Op) /\ N \in Nat /\ registry \in Revision
  BY <1>2 DEF LogInv
<1>4. saved.cursor \in 0 .. N
  BY <1>1, <1>2 DEF SavedInv
<1>5. PICK m \in saved.cursor .. N : saved.state = At(log, m, Base)
  BY <1>1, <1>2 DEF SavedInv
<1>6. old = At(log, m, registry)
  BY <1>1, <1>5, FromCheckpointSame DEF At
<1>. HIDE DEF old
<1>7. res.state = At(log, N, registry) /\ NamesRetracted(res.delta, Between(log, saved.cursor, N))
  BY <1>3, <1>4, <1>6, BatchAt DEF Since
<1>8. read \in Seq(Op) /\ Len(read) = N - saved.cursor
  <2>1. N \in saved.cursor .. N
    BY <1>3, <1>4
  <2>. QED  BY <1>3, <1>4, <2>1, FirstSince DEF Since
<1>. HIDE DEF read, res
<1>9. cache'.state = At(log, N, registry) /\ cache'.cursor = N /\ cache'.rev = registry
  BY <1>1, <1>7 DEF Cached
<1>10. Materialized' /\ ~ Aware' /\ consumer.cursor = None /\ history = <<>>
  BY <1>1, <1>2, <1>3, <1>9, OperationAssumption DEF Materialized, Aware, ConsumerInv, HasRecords, HistoryInv
<1>11. LogInv'
  BY <1>1, <1>2, <1>8 DEF LogInv
<1>12. CallInv'
  BY <1>1, <1>9, <1>10 DEF CallInv, Current, Reading
<1>13. CacheInv'
  <2>1. registry <= registry /\ N \in N .. N /\ N \in 0 .. N
    BY <1>3, CacheAssumption
  <2>. QED  BY <1>1, <1>3, <1>9, <2>1 DEF CacheInv
<1>14. SavedInv'
  BY <1>1, <1>2 DEF SavedInv
<1>15. HistoryInv'
  <2>1. CASE read = <<>>
    BY <1>1, <1>10, <2>1, CacheAssumption DEF HistoryInv
  <2>2. CASE read # <<>>
    <3>1. history' = Kept(Append(<<>>, e))
      BY <1>1, <1>10, <2>2 DEF Remembered
    <3>2. saved.cursor < N
      BY <1>3, <1>4, <1>8, <2>2
    <3>3. e.before = saved.cursor /\ e.after = N /\ e.delta = res.delta
      OBVIOUS
    <3>. HIDE DEF e
    <3>4. Sound(e, log, N)
      BY <1>3, <1>4, <1>7, <3>2, <3>3 DEF Sound
    <3>5. <<>> \in Seq(Range(<<>>)) /\ Len(<<>>) <= HistoryLimit /\ DOMAIN <<>> = {}
      BY CacheAssumption
    <3>6. /\ history' \in Seq(Range(history')) /\ Len(history') <= HistoryLimit
          /\ \A i \in DOMAIN history' : history'[i] = e
      <4>. DEFINE none == <<>>
      <4>1. none \in Seq(Range(none)) /\ Len(none) <= HistoryLimit /\ history' = Kept(Append(none, e))
        BY <3>1, <3>5
      <4>2. DOMAIN none = {}
        OBVIOUS
      <4>. HIDE DEF none
      <4>3. /\ history' \in Seq(Range(history')) /\ Len(history') <= HistoryLimit
            /\ \A i \in DOMAIN history' : history'[i] = e \/ \E j \in DOMAIN none : history'[i] = none[j]
        BY <4>1, KeptIs
      <4>. QED  BY <4>2, <4>3
    <3>. QED  BY <1>1, <1>9, <1>10, <3>4, <3>6 DEF HistoryInv
  <2>. QED  BY <2>1, <2>2
<1>16. ConsumerInv'
  BY <1>1, <1>2, <1>10 DEF ConsumerInv
<1>. QED  BY <1>11, <1>12, <1>13, <1>14, <1>15, <1>16 DEF Inv

(* What a consumer has received is one of three things.                    *)
LEMMA ReceivedIs ==
  ASSUME NEW c, NEW h, NEW later, later = Later(h, consumer.cursor),
         NEW all, all = DeltasOf(h, later)
  PROVE  \/ consumer.cursor = c.cursor /\ Received(c, h) = consumer
         \/ /\ consumer.cursor # None /\ consumer.cursor # c.cursor
            /\ Chained(h, later, consumer.cursor, c.cursor)
            /\ Received(c, h) = [consumer EXCEPT !.cursor = c.cursor,
                                                 !.shown = Updated(consumer.shown, c.state, all)]
         \/ Received(c, h) = [cursor |-> c.cursor, shown |-> Project(c.state), rev |-> c.rev]
BY DEF Received, DeltasOf

(* What a read does to all but the consumer.                               *)
LEMMA ReadCaches ==
  ASSUME Inv, NEW consuming \in BOOLEAN, Read(consuming)
  PROVE  /\ LogInv' /\ CacheInv' /\ SavedInv' /\ Materialized /\ Materialized'
         /\ log' = log /\ cache'.rev = registry /\ cache.rev = registry /\ registry' = registry
         /\ cache'.cursor = Len(log) /\ cache'.state = At(log, Len(log), registry)
         /\ cache.cursor <= Len(log)
         /\ history' \in Seq(Range(history')) /\ Len(history') <= HistoryLimit
         /\ \A i \in DOMAIN history' : Sound(history'[i], log, Len(log))
         /\ Aware => \A i \in DOMAIN history' :
              consumer.cursor <= history'[i].before => Exact(history'[i], log, registry)
<1>. DEFINE N == Len(log)
            read == Since(cache.cursor)
            res == ApplyBatch(cache.state, registry, read)
            e == [before |-> cache.cursor, after |-> N, delta |-> res.delta]
<1>1. /\ call.at # "loading" /\ Materialized /\ cache.rev = registry /\ token' = TokenKept
      /\ call' = Idle /\ log' = log /\ registry' = registry /\ restarts' = restarts
  BY DEF Read, Current
<1>2. LogInv /\ CallInv /\ CacheInv /\ SavedInv /\ HistoryInv /\ ConsumerInv
  BY DEF Inv
<1>3. log \in Seq(Op) /\ N \in Nat /\ registry \in Revision /\ cache.cursor \in 0 .. N
  BY <1>1, <1>2 DEF LogInv, CacheInv
<1>4. PICK m \in cache.cursor .. N :
             cache.state = At(log, m, registry) /\ (call # Reading => m = cache.cursor)
  BY <1>1, <1>2 DEF CacheInv
<1>5. /\ res.state = At(log, N, registry)
      /\ Reports(res.delta, cache.state, res.state)
      /\ NamesRetracted(res.delta, Between(log, cache.cursor, N))
  BY <1>3, <1>4, BatchAt DEF Since
<1>6. read \in Seq(Op) /\ Len(read) = N - cache.cursor
  <2>1. N \in cache.cursor .. N
    BY <1>3
  <2>. QED  BY <1>3, <2>1, FirstSince DEF Since
<1>7. \/ read = <<>> /\ UNCHANGED <<cache, history, saved, unsaved>>
      \/ /\ read # <<>> /\ cache' = Cached(res.state, N)
         /\ history' = Remembered(cache.cursor, res.delta)
         /\ \/ token' /\ saved' = Checkpoint(res.state, N) /\ unsaved' = 0
            \/ saved' = saved /\ unsaved' = unsaved + Len(read)
  BY DEF Read
<1>. HIDE DEF read, res
<1>8. cache'.rev = registry /\ cache'.cursor = N /\ cache'.state = At(log, N, registry)
  <2>1. CASE read = <<>> /\ cache' = cache
    <3>1. cache.cursor = N
      BY <1>3, <1>6, <2>1
    <3>2. m = N
      BY <1>3, <3>1
    <3>. QED  BY <1>1, <1>4, <2>1, <3>1, <3>2
  <2>2. CASE cache' = Cached(res.state, N)
    BY <1>5, <2>2 DEF Cached
  <2>. QED  BY <1>7, <2>1, <2>2
<1>9. Materialized'
  BY <1>3, <1>8, OperationAssumption DEF Materialized
<1>10. LogInv'
  <2>1. unsaved' \in Nat
    BY <1>2, <1>6, <1>7 DEF LogInv
  <2>. QED  BY <1>1, <1>2, <2>1 DEF LogInv, TokenKept
<1>11. CacheInv'
  <2>1. registry <= registry /\ N \in N .. N /\ N \in 0 .. N
    BY <1>3, CacheAssumption
  <2>. QED  BY <1>1, <1>3, <1>8, <2>1 DEF CacheInv
<1>12. SavedInv'
  <2>1. CASE saved' = saved
    BY <1>1, <1>2, <2>1 DEF SavedInv
  <2>2. CASE token' /\ saved' = Checkpoint(res.state, N)
    <3>1. registry = Base
      BY <1>1, <2>2 DEF TokenKept
    <3>2. saved'.cursor = N /\ saved'.state = At(log, N, Base)
      BY <1>5, <2>2, <3>1 DEF Checkpoint
    <3>3. N \in N .. N /\ N \in 0 .. N
      BY <1>3
    <3>. QED  BY <1>1, <3>2, <3>3 DEF SavedInv
  <2>. QED  BY <1>7, <2>1, <2>2
<1>13. \A i \in DOMAIN history : Sound(history[i], log, N)
  <2>1. \A i \in DOMAIN history : Sound(history[i], log, cache.cursor)
    BY <1>2 DEF HistoryInv
  <2>. QED  BY <1>3, <2>1 DEF Sound
<1>14. Aware => \A i \in DOMAIN history :
         consumer.cursor <= history[i].before => Exact(history[i], log, registry)
  BY <1>1, <1>2 DEF HistoryInv
<1>15. /\ history' \in Seq(Range(history')) /\ Len(history') <= HistoryLimit
       /\ \A i \in DOMAIN history' : Sound(history'[i], log, N)
       /\ Aware => \A i \in DOMAIN history' :
            consumer.cursor <= history'[i].before => Exact(history'[i], log, registry)
  <2>1. CASE history' = history
    BY <1>2, <1>13, <1>14, <2>1 DEF HistoryInv
  <2>2. CASE read # <<>> /\ history' = Remembered(cache.cursor, res.delta)
    <3>1. history' = Kept(Append(history, e))
      BY <2>2 DEF Remembered
    <3>2. cache.cursor < N
      BY <1>3, <1>6, <2>2
    <3>3. e.before = cache.cursor /\ e.after = N /\ e.delta = res.delta
      OBVIOUS
    <3>. HIDE DEF e
    <3>4. Sound(e, log, N)
      BY <1>3, <1>5, <3>2, <3>3 DEF Sound
    <3>5. Aware => Exact(e, log, registry)
      <4>1. SUFFICES ASSUME Aware PROVE Exact(e, log, registry)
        OBVIOUS
      <4>2. m = cache.cursor
        BY <1>2, <1>4, <4>1 DEF CallInv
      <4>. QED  BY <1>4, <1>5, <3>3, <4>2 DEF Exact
    <3>6. history \in Seq(Range(history)) /\ Len(history) <= HistoryLimit
      BY <1>2 DEF HistoryInv
    <3>7. /\ history' \in Seq(Range(history')) /\ Len(history') <= HistoryLimit
          /\ \A i \in DOMAIN history' : history'[i] = e \/ \E j \in DOMAIN history : history'[i] = history[j]
      BY <3>1, <3>6, KeptIs
    <3>. QED  BY <1>13, <1>14, <3>4, <3>5, <3>7
  <2>. QED  BY <1>7, <2>1, <2>2
<1>. QED  BY <1>1, <1>3, <1>8, <1>9, <1>10, <1>11, <1>12, <1>15

(* A read leaves the cache at the end of the log, and what it gives to the *)
(* consumer are the records there.                                         *)
LEMMA ReadStep ==
  ASSUME Inv, NEW consuming \in BOOLEAN, Read(consuming)
  PROVE  Inv'
<1>. DEFINE N == Len(log)
            from == consumer.cursor
            later == Later(history', from)
            all == DeltasOf(history', later)
            t == cache'.state
<1>1. /\ LogInv' /\ CacheInv' /\ SavedInv' /\ Materialized /\ Materialized'
      /\ log' = log /\ cache'.rev = registry /\ cache.rev = registry /\ registry' = registry
      /\ cache'.cursor = N /\ t = At(log, N, registry) /\ cache.cursor <= N
      /\ history' \in Seq(Range(history')) /\ Len(history') <= HistoryLimit
      /\ \A i \in DOMAIN history' : Sound(history'[i], log, N)
      /\ Aware => \A i \in DOMAIN history' :
           from <= history'[i].before => Exact(history'[i], log, registry)
  BY ReadCaches
<1>2. ConsumerInv /\ log \in Seq(Op) /\ N \in Nat /\ registry \in Revision
  BY DEF Inv, LogInv
<1>3. call' = Idle /\ consumer' = (IF consuming THEN Received(cache', history') ELSE consumer)
  BY DEF Read
<1>4. CallInv'
  BY <1>3 DEF CallInv, Idle, Reading
<1>5. CASE consumer' = consumer
  <2>1. HistoryInv'
    BY <1>1, <1>5 DEF HistoryInv, Aware
  <2>2. HasRecords => HasRecords'
    <3>1. HasRecords => cache.cursor \in Nat
      BY <1>2, <1>1 DEF Inv, CacheInv
    <3>. QED  BY <1>1, <1>2, <1>5, <3>1 DEF HasRecords
  <2>3. ConsumerInv'
    BY <1>2, <1>5, <2>2 DEF ConsumerInv
  <2>. QED  BY <1>1, <1>4, <2>1, <2>3 DEF Inv
<1>6. ASSUME consumer'.cursor = N
      PROVE  HistoryInv'
  <2>1. ASSUME NEW i \in DOMAIN history'
        PROVE  ~ consumer'.cursor <= history'[i].before
    BY <1>1, <1>2, <1>6 DEF Sound
  <2>. QED  BY <1>1, <2>1 DEF HistoryInv
<1>7. CASE consumer' = [cursor |-> N, shown |-> Project(t), rev |-> registry]
  <2>1. consumer'.cursor = N /\ consumer'.shown = Project(t) /\ consumer'.rev = registry
    BY <1>7
  <2>2. ShowsFirst(Project(t), log, N)
    BY <1>1, ProjectShows
  <2>3. HasRecords'
    <3>1. N \in 0 .. N /\ registry <= registry
      BY <1>2, CacheAssumption
    <3>. QED  BY <1>1, <1>2, <2>1, <2>2, <3>1 DEF HasRecords
  <2>4. ConsumerInv'
    BY <1>7, <2>1, <2>3 DEF ConsumerInv
  <2>. QED  BY <1>1, <1>4, <1>6, <2>1, <2>4 DEF Inv
<1>8. CASE /\ from # None /\ from # N /\ Chained(history', later, from, N)
           /\ consumer' = [consumer EXCEPT !.cursor = N, !.shown = Updated(consumer.shown, t, all)]
  <2>1. HasRecords
    BY <1>2, <1>8 DEF ConsumerInv
  <2>2. from \in 0 .. N
    <3>1. from \in 0 .. cache.cursor /\ cache.cursor \in 0 .. N
      BY <1>1, <2>1 DEF HasRecords, Inv, CacheInv
    <3>. QED  BY <1>2, <3>1
  <2>3. /\ NamesRetracted(all, Between(log, from, N))
        /\ (\A i \in DOMAIN history' : from <= history'[i].before => Exact(history'[i], log, registry))
             => Reports(all, At(log, from, registry), At(log, N, registry))
    <3>. DEFINE h == history'
    <3>1. /\ from \in Nat /\ h \in Seq(Range(h)) /\ \A i \in DOMAIN h : Sound(h[i], log, N)
          /\ Chained(h, later, from, N)
      BY <1>1, <1>2, <1>8, <2>2
    <3>2. later = Later(h, from) /\ all = DeltasOf(h, later)
      OBVIOUS
    <3>. HIDE DEF later, all, from
    <3>3. /\ NamesRetracted(all, Between(log, from, N))
          /\ (\A i \in DOMAIN h : from <= h[i].before => Exact(h[i], log, registry))
               => Reports(all, At(log, from, registry), At(log, N, registry))
      <4>. HIDE DEF h, N
      <4>. QED  BY <3>1, <3>2, ChainSound
    <3>. QED  BY <3>3
  <2>. HIDE DEF all, t
  <2>4. consumer' = [cursor |-> N, shown |-> Updated(consumer.shown, t, all), rev |-> consumer.rev]
    BY <1>2, <1>8 DEF ConsumerInv
  <2>5. /\ consumer'.cursor = N /\ consumer'.shown = Updated(consumer.shown, t, all)
        /\ consumer'.rev = consumer.rev
    BY <2>4
  <2>6. ShowsFirst(consumer'.shown, log, N)
    <3>1. ShowsFirst(consumer.shown, log, from)
      BY <2>1 DEF HasRecords
    <3>2. from \in Nat /\ from <= N /\ t = At(log, N, registry)
      BY <1>1, <1>2, <2>2
    <3>. QED  BY <1>2, <2>3, <2>5, <3>1, <3>2, UpdatedShows
  <2>7. ASSUME consumer.rev = registry
        PROVE  consumer'.shown = Project(At(log, N, registry))
    <3>1. Aware /\ consumer.shown = Project(At(log, from, registry))
      BY <1>1, <1>8, <2>1, <2>7 DEF Aware, HasRecords
    <3>2. Reports(all, At(log, from, registry), At(log, N, registry))
      BY <1>1, <2>3, <3>1
    <3>3. First(log, from) \in SUBSET Op /\ First(log, N) \in SUBSET Op
      BY <1>2, <2>2, FirstFinite
    <3>4. Updated(Project(At(log, from, registry)), t, all) = Project(t)
      BY <1>1, <3>2, <3>3, UpdatedExact DEF At
    <3>. QED  BY <1>1, <2>5, <3>1, <3>4
  <2>8. HasRecords'
    <3>1. consumer.rev \in Revision /\ consumer.rev <= registry
      BY <1>1, <2>1 DEF HasRecords
    <3>2. N \in 0 .. N
      BY <1>2
    <3>. QED  BY <1>1, <2>5, <2>6, <2>7, <3>1, <3>2 DEF HasRecords
  <2>9. ConsumerInv'
    BY <2>4, <2>5, <2>8 DEF ConsumerInv
  <2>. QED  BY <1>1, <1>4, <1>6, <2>5, <2>9 DEF Inv
<1>9. \/ consumer' = consumer
      \/ consumer' = [cursor |-> N, shown |-> Project(t), rev |-> registry]
      \/ /\ from # None /\ from # N /\ Chained(history', later, from, N)
         /\ consumer' = [consumer EXCEPT !.cursor = N, !.shown = Updated(consumer.shown, t, all)]
  BY <1>1, <1>3, ReceivedIs
<1>. QED  BY <1>5, <1>7, <1>8, <1>9

(* So does every step.                                                     *)
LEMMA NextInv == Inv /\ [Next]_vars => Inv'
<1>. SUFFICES ASSUME Inv, [Next]_vars PROVE Inv'
  OBVIOUS
<1>1. ASSUME NEW o \in Op, AppendOp(o) PROVE Inv'
  BY <1>1, AppendStep
<1>2. ASSUME Register PROVE Inv'
  BY <1>2, RegisterStep
<1>3. ASSUME Restore PROVE Inv'
  BY <1>3, RestoreStep
<1>4. ASSUME StartRebuild PROVE Inv'
  BY <1>4, StartRebuildStep
<1>5. ASSUME FinishRebuild PROVE Inv'
  BY <1>5, FinishRebuildStep
<1>6. ASSUME NEW consuming \in BOOLEAN, Read(consuming) PROVE Inv'
  BY <1>6, ReadStep
<1>7. ASSUME Restart PROVE Inv'
  BY <1>7, RestartStep
<1>8. ASSUME UNCHANGED vars PROVE Inv'
  BY <1>8 DEF vars, Inv, LogInv, CallInv, CacheInv, SavedInv, HistoryInv, ConsumerInv, HasRecords,
              Aware, Current, Materialized
<1>. QED  BY <1>1, <1>2, <1>3, <1>4, <1>5, <1>6, <1>7, <1>8 DEF Next

(* The invariant holds of every state of the specification.                *)
THEOREM CacheInvariant == Spec => []Inv
BY InitInv, NextInv, PTL DEF Spec

-------------------------------------------------------------------------------
(* What follows from it.                                                   *)

(* A state that operations fold to has the type of one.                    *)
LEMMA FullType ==
  ASSUME NEW ops \in SUBSET Op, NEW rev, NEW s, s = Full(ops, rev)
  PROVE  StateType(s)
<1>1. /\ Gathers(s, ops, rev) /\ s.conflict = ConflictsOn(s.pairs, s.evidence, s.sources)
      /\ s.lane = Lanes(s.resolutions, s.events, s.conflict)
  BY FullFields
<1>2. ClaimsOf(ops) \subseteq Claim
  BY OperationAssumption DEF ClaimsOf, Of
<1>3. IdsOut(ops) \subseteq Claim
  BY OperationAssumption DEF IdsOut, Of
<1>4. EvidenceIn(ops) \subseteq Evidence /\ SourcesIn(ops) \subseteq Source
  BY OperationAssumption DEF EvidenceIn, SourcesIn, Of
<1>5. Out(ops, rev) \subseteq Claim
  BY <1>2, <1>3 DEF Out
<1>6. Held(ops, rev) \in [Key -> SUBSET Claim]
  BY <1>2 DEF Held
<1>7. DOMAIN s.conflict = Key /\ DOMAIN s.lane = Lane
  BY <1>1 DEF ConflictsOn, Lanes
<1>. QED  BY <1>1, <1>2, <1>3, <1>4, <1>5, <1>6, <1>7 DEF StateType, Gathers

(* All variables keep their types, and a consumer is never ahead of the    *)
(* cache that it gets its records from.                                    *)
THEOREM TypeCorrect == Spec => []TypeOK
<1>1. Inv => TypeOK
  <2>. SUFFICES ASSUME Inv PROVE TypeOK
    OBVIOUS
  <2>1. LogInv /\ CallInv /\ CacheInv /\ SavedInv /\ HistoryInv /\ ConsumerInv
    BY DEF Inv
  <2>2. log \in Seq(Op) /\ Len(log) \in Nat
    BY <2>1 DEF LogInv
  <2>3. ASSUME NEW n \in 0 .. Len(log), NEW m \in n .. Len(log), NEW rev
        PROVE  StateType(At(log, m, rev))
    <3>1. m \in 0 .. Len(log)
      BY <2>2
    <3>2. First(log, m) \in SUBSET Op
      BY <2>2, <3>1, FirstFinite
    <3>. QED  BY <3>2, FullType DEF At
  <2>4. Materialized => cache.rev \in Revision /\ cache.cursor \in 0 .. Len(log) /\ StateType(cache.state)
    BY <2>1, <2>3 DEF CacheInv
  <2>5. saved.cursor # None => saved.cursor \in 0 .. Len(log) /\ StateType(saved.state)
    BY <2>1, <2>3 DEF SavedInv
  <2>6. /\ Len(history) <= HistoryLimit
        /\ \A i \in DOMAIN history : history[i].before < history[i].after
    BY <2>1 DEF HistoryInv, Sound
  <2>7. call.at = "loading" => call.cursor \in 0 .. Len(log)
    BY <2>1 DEF CallInv, Idle, Reading, Loading
  <2>8. consumer.cursor # None => Materialized /\ consumer.cursor <= cache.cursor
    BY <2>1, <2>2, <2>4 DEF ConsumerInv, HasRecords
  <2>. QED  BY <2>1, <2>4, <2>5, <2>6, <2>7, <2>8 DEF TypeOK, LogInv
<1>. QED  BY <1>1, CacheInvariant, PTL

(* Between calls the cached state is what the operations up to its cursor  *)
(* fold to at once, whatever mixture of checkpoints, rebuilds and batches  *)
(* it came from.                                                           *)
THEOREM CacheIsExact == Spec => []CacheExact
<1>1. Inv => CacheExact
  <2>. SUFFICES ASSUME Inv, call = Idle, Materialized
                PROVE  cache.state = Full({log[i] : i \in 1 .. cache.cursor}, cache.rev)
    BY DEF CacheExact
  <2>1. cache.state = At(log, cache.cursor, cache.rev)
    BY DEF Inv, CacheInv, Idle, Reading
  <2>. QED  BY <2>1 DEF At, First
<1>. QED  BY <1>1, CacheInvariant, PTL

(* A consumer that takes in the deltas it is given has the records of the  *)
(* state at its cursor.                                                    *)
THEOREM ConsumerIsExact == Spec => []ConsumerExact
<1>1. Inv => ConsumerExact
  <2>. SUFFICES ASSUME Inv, call = Idle, Materialized, consumer.cursor = cache.cursor,
                       consumer.rev = cache.rev
                PROVE  consumer.shown = Project(cache.state)
    BY DEF ConsumerExact
  <2>1. consumer.shown = Project(At(log, cache.cursor, cache.rev))
    BY DEF Inv, ConsumerInv, HasRecords, Materialized
  <2>2. cache.state = At(log, cache.cursor, cache.rev)
    BY DEF Inv, CacheInv, Idle, Reading
  <2>. QED  BY <2>1, <2>2
<1>. QED  BY <1>1, CacheInvariant, PTL

(* What a retraction is about is not among the claims in force.            *)
LEMMA RetractedIsOut ==
  ASSUME NEW ops, NEW rev \in Revision, NEW t, t = Full(ops, rev), NEW o \in ops, o.kind = "retraction",
         NEW c \in Claim, c = o.target \/ RefOf[rev][c] = o.ref
  PROVE  c \notin t.claims \ t.inactive
<1>1. t.claims = ClaimsOf(ops) /\ t.inactive = Out(ops, rev)
  BY FullFields DEF Gathers
<1>2. CASE c = o.target
  <2>1. c \in IdsOut(ops)
    BY <1>2, OperationAssumption DEF IdsOut, Of
  <2>. QED  BY <1>1, <2>1 DEF Out
<1>3. CASE RefOf[rev][c] = o.ref
  <2>1. o.ref \in RefsOut(ops)
    BY <1>3, OperationAssumption DEF RefsOut, Of
  <2>. QED  BY <1>1, <1>3, <2>1 DEF Out
<1>. QED  BY <1>2, <1>3

(* A retracted claim is in no conflict and in no record, in whichever      *)
(* order the retraction and the claim came.                                *)
THEOREM RetractedIsGone == Spec => []RetractedStaysOut
<1>1. Inv => RetractedStaysOut
  <2>. SUFFICES ASSUME Inv, call = Idle, Materialized, NEW i \in 1 .. cache.cursor,
                       log[i].kind = "retraction", NEW c \in Claim,
                       c = log[i].target \/ RefOf[cache.rev][c] = log[i].ref
                PROVE  /\ c \notin cache.state.conflict[KeyOf[c]].who
                       /\ consumer.cursor = cache.cursor /\ (c = log[i].target \/ consumer.rev = cache.rev) =>
                            \A x \in consumer.shown : x[1] # <<"claim", c>>
    BY DEF RetractedStaysOut
  <2>. DEFINE t == cache.state
              n == cache.cursor
              ops == First(log, n)
  <2>1. log \in Seq(Op) /\ n \in 0 .. Len(log) /\ cache.rev \in Revision /\ t = Full(ops, cache.rev)
    BY DEF Inv, LogInv, CacheInv, Idle, Reading, At
  <2>2. ops \in SUBSET Op /\ log[i] \in ops
    <3>1. log[i] \in ops
      BY DEF First
    <3>. QED  BY <2>1, <3>1, FirstFinite
  <2>. HIDE DEF t, ops
  <2>3. c \notin t.claims \ t.inactive
    BY <2>1, <2>2, RetractedIsOut
  <2>4. c \notin t.conflict[KeyOf[c]].who
    <3>1. KeyOf[c] \in Key
      BY MaterializeAssumption
    <3>. QED  BY <2>1, <2>2, <2>3, <3>1, Candidates
  <2>5. ASSUME consumer.cursor = n, NEW x \in consumer.shown, x[1] = <<"claim", c>>
        PROVE  c # log[i].target /\ consumer.rev # cache.rev
    <3>1. HasRecords
      BY <2>5 DEF Inv, ConsumerInv, Materialized
    <3>2. c \notin IdsOut(ops)
      BY <2>5, <3>1 DEF HasRecords, ShowsFirst, ops
    <3>3. c # log[i].target
      BY <2>2, <3>2, OperationAssumption DEF IdsOut, Of
    <3>4. ASSUME consumer.rev = cache.rev
          PROVE  FALSE
      <4>1. x \in Project(t)
        BY <2>1, <2>5, <3>1, <3>4 DEF HasRecords, At, ops
      <4>2. ASSUME NEW e \in t.claims \ t.inactive, x = ClaimRecord(t, e)
            PROVE  FALSE
        <5>1. x[1] = <<"claim", e>>
          BY <4>2, RecordIds
        <5>2. c = e
          BY <2>5, <5>1, RecordIds
        <5>. QED  BY <2>3, <5>2
      <4>3. ASSUME NEW k \in InConflict(t), x = ConflictRecord(t, k)
            PROVE  FALSE
        BY <2>5, <4>3, RecordIds
      <4>4. ASSUME NEW r \in Retrievable(t), x = ResolutionRecord(t, r)
            PROVE  FALSE
        BY <2>5, <4>4, RecordIds
      <4>. QED  BY <4>1, <4>2, <4>3, <4>4, RecordKinds
    <3>. QED  BY <3>3, <3>4
  <2>. QED  BY <2>4, <2>5 DEF t
<1>. QED  BY <1>1, CacheInvariant, PTL

(* The state of a lane has the resolution that stands, and is settled      *)
(* when this one is a decision that covers the candidates there are.       *)
LEMMA LaneSettles ==
  ASSUME NEW l, NEW resolutions, NEW events, NEW who,
         NEW st, st = Standing(l, resolutions, events),
         NEW x, x = LaneState(l, resolutions, events, who)
  PROVE  /\ x.chosen = st.chosen
         /\ x.effective
              <=> (/\ who # {} /\ st.chosen # None /\ st.chosen.outcome # "abstain"
                   /\ Settles(st.chosen, who))
<1>1. CASE who = {}
  <2>1. x = [chosen |-> st.chosen, status |-> st.status, effective |-> FALSE]
    BY <1>1 DEF LaneState
  <2>. QED  BY <1>1, <2>1
<1>2. CASE who # {} /\ st.chosen = None
  <2>1. x = [chosen |-> st.chosen, effective |-> FALSE,
             status |-> IF st.status = None /\ l[2] = None THEN "open" ELSE st.status]
    BY <1>2 DEF LaneState
  <2>. QED  BY <1>2, <2>1
<1>3. CASE who # {} /\ st.chosen # None /\ st.chosen.outcome = "abstain"
  <2>1. x = [chosen |-> st.chosen, effective |-> FALSE,
             status |-> IF Covers(st.chosen, who) THEN "deferred" ELSE "reopened"]
    BY <1>3 DEF LaneState
  <2>. QED  BY <1>3, <2>1
<1>4. CASE who # {} /\ st.chosen # None /\ st.chosen.outcome # "abstain"
  <2>1. x = [chosen |-> st.chosen, effective |-> Settles(st.chosen, who),
             status |-> IF Settles(st.chosen, who) THEN "resolved" ELSE "reopened"]
    BY <1>4 DEF LaneState
  <2>. QED  BY <1>4, <2>1
<1>. QED  BY <1>1, <1>2, <1>3, <1>4

(* Nothing was decided about a lane that is settled: it stays so unless    *)
(* its candidates are no longer what the resolution can settle.            *)
LEMMA SettledStays ==
  ASSUME NEW some \in SUBSET Op, IsFiniteSet(some), NEW all \in SUBSET Op, NEW rev,
         NEW s, s = Full(some, rev), NEW t, t = Full(all, rev), NEW l \in Lane,
         s.lane[l].effective, ~ t.lane[l].effective,
         Timeline(l, s.resolutions, s.events) = Timeline(l, t.resolutions, t.events),
         NEW r, r = s.lane[l].chosen, NEW who, who = t.conflict[l[1]].who
  PROVE  who = {} \/ ~ who \subseteq Classified(r)
           \/ (r.outcome # "preserve" /\ Cardinality(who \cap r.selected) # 1)
<1>. DEFINE was == s.conflict[l[1]].who
            st == Standing(l, s.resolutions, s.events)
<1>1. Lifecycle(s.resolutions, s.events, some) /\ Lifecycle(t.resolutions, t.events, all)
  BY FullFields DEF Gathers, Lifecycle
<1>2. Standing(l, t.resolutions, t.events) = st
  BY <1>1, StandingSame
<1>3. /\ s.lane = Lanes(s.resolutions, s.events, s.conflict)
      /\ t.lane = Lanes(t.resolutions, t.events, t.conflict)
  BY FullFields
<1>4. /\ s.lane[l] = LaneState(l, s.resolutions, s.events, was)
      /\ t.lane[l] = LaneState(l, t.resolutions, t.events, who)
  BY <1>3 DEF Lanes
<1>. HIDE DEF was, st
<1>5. r = st.chosen /\ r # None /\ r.outcome # "abstain" /\ Settles(r, was)
  BY <1>4, LaneSettles DEF st
<1>6. who # {} => (t.lane[l].effective <=> Settles(r, who))
  BY <1>2, <1>4, <1>5, LaneSettles
<1>7. SUFFICES ASSUME who # {}, who \subseteq Classified(r),
                      r.outcome = "preserve" \/ Cardinality(who \cap r.selected) = 1
               PROVE  Settles(r, who)
  BY <1>6
<1>8. Covers(r, who)
  BY <1>5, <1>7 DEF Settles, Covers
<1>9. CASE r.outcome = "preserve"
  <2>1. r.selected = {} /\ r.rejected = {}
    BY <1>5, <1>9 DEF Settles
  <2>2. who \subseteq r.retained
    BY <1>7, <2>1 DEF Classified
  <2>. QED  BY <1>8, <1>9, <2>1, <2>2 DEF Settles
<1>10. CASE r.outcome # "preserve"
  BY <1>5, <1>7, <1>8, <1>10 DEF Settles
<1>. QED  BY <1>9, <1>10

(* A settled lane stays settled until something is decided about it, or    *)
(* its candidates change beyond what its resolution settles.               *)
THEOREM SettlementIsKept == Spec => SettlementHolds
<1>. DEFINE Kind(l) ==
              LET s == cache.state
                  t == cache'.state
                  r == s.lane[l].chosen
                  who == t.conflict[l[1]].who
              IN /\ Materialized /\ Materialized' /\ cache.rev = cache'.rev
                 /\ s.lane[l].effective /\ ~ t.lane[l].effective
                 => \/ Timeline(l, s.resolutions, s.events) # Timeline(l, t.resolutions, t.events)
                    \/ who = {} \/ ~ who \subseteq Classified(r)
                    \/ r.outcome # "preserve" /\ Cardinality(who \cap r.selected) # 1
<1>1. Inv /\ [Next]_vars => [\A l \in Lane : Kind(l)]_cache
  <2>. SUFFICES ASSUME Inv, [Next]_vars, cache' # cache, Materialized, Materialized',
                       cache.rev = cache'.rev, NEW l \in Lane
                PROVE  Kind(l)
    OBVIOUS
  <2>1. CASE \E consuming \in BOOLEAN : Read(consuming)
    <3>1. PICK consuming \in BOOLEAN : Read(consuming)
      BY <2>1
    <3>. DEFINE N == Len(log)
                rev == cache.rev
    <3>2. cache'.state = At(log, N, rev) /\ log \in Seq(Op) /\ N \in Nat
      BY <3>1, ReadCaches DEF Inv, LogInv
    <3>3. cache.cursor \in 0 .. N
      BY DEF Inv, CacheInv
    <3>4. PICK m \in cache.cursor .. N : cache.state = At(log, m, rev)
      BY DEF Inv, CacheInv
    <3>5. m \in 0 .. N /\ N \in 0 .. N
      BY <3>2, <3>3
    <3>6. /\ First(log, m) \in SUBSET Op /\ IsFiniteSet(First(log, m))
          /\ First(log, N) \in SUBSET Op
      BY <3>2, <3>5, FirstFinite
    <3>. DEFINE some == First(log, m)
                all == First(log, N)
                s == cache.state
                t == cache'.state
    <3>7. s = Full(some, rev) /\ t = Full(all, rev)
      BY <3>2, <3>4 DEF At
    <3>. HIDE DEF some, all, s, t, rev
    <3>8. ASSUME s.lane[l].effective, ~ t.lane[l].effective,
                 Timeline(l, s.resolutions, s.events) = Timeline(l, t.resolutions, t.events)
          PROVE  \/ t.conflict[l[1]].who = {} \/ ~ t.conflict[l[1]].who \subseteq Classified(s.lane[l].chosen)
                 \/ (/\ s.lane[l].chosen.outcome # "preserve"
                     /\ Cardinality(t.conflict[l[1]].who \cap s.lane[l].chosen.selected) # 1)
      <4>1. some \in SUBSET Op /\ IsFiniteSet(some) /\ all \in SUBSET Op
        BY <3>6 DEF some, all
      <4>. QED  BY <3>7, <3>8, <4>1, SettledStays
    <3>. QED  BY <3>8 DEF s, t
  <2>2. CASE FinishRebuild
    <3>1. cache.rev < registry /\ cache'.rev = registry
      BY <2>2 DEF Inv, CallInv, FinishRebuild, Cached
    <3>2. registry \in Nat
      BY CacheAssumption DEF Inv, LogInv
    <3>3. cache.rev \in Nat
      BY CacheAssumption DEF Inv, CacheInv
    <3>. QED  BY <3>1, <3>2, <3>3
  <2>3. CASE Restore
    BY <2>3 DEF Restore
  <2>4. CASE Restart
    BY <2>4 DEF Restart, Nothing, Materialized
  <2>5. CASE \/ \E o \in Op : AppendOp(o)
             \/ Register \/ StartRebuild \/ UNCHANGED vars
    BY <2>5 DEF AppendOp, Register, StartRebuild, vars
  <2>. QED  BY <2>1, <2>2, <2>3, <2>4, <2>5 DEF Next
<1>. QED  BY <1>1, CacheInvariant, PTL DEF Spec, SettlementHolds

===============================================================================
