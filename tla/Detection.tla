------------------------------- MODULE Detection -------------------------------
(***************************************************************************)
(* conflict.py: which claims exclude each other, the index of the          *)
(* incompatible pairs of a key that is kept up to date claim by claim, and *)
(* the queries of materialize.py that read a conflict's witness.           *)
(*                                                                         *)
(* Where and when a claim applies is its shape: a half-open interval with  *)
(* optional bounds and a context, a partial assignment of names.  Apart,   *)
(* which Materialize leaves open, are the pairs detected here.             *)
(***************************************************************************)
EXTENDS Materialize, Integers

CONSTANTS
  Instant,       \* bounds of validity intervals
  Name,          \* names that contexts may bind
  ContextValue,
  Shape,         \* the shapes that the checks enumerate
  ShapeOf,       \* the shape of a claim
  ValueOf,       \* the normalised value of a claim under a revision
  MultiValued,   \* keys whose predicate is multi-valued under a revision
  KindOf         \* the kind of a claim

ASSUME DetectionAssumption ==
  /\ Instant \subseteq Int
  /\ ShapeOf \in [Claim -> Shape]
  /\ \A r \in Revision : MultiValued[r] \subseteq Key /\ DOMAIN ValueOf[r] = Claim
  /\ DOMAIN KindOf = Claim

(* ValidityInterval: the end is not before the start.                      *)
WellFormed(x) == x.from # None /\ x.until # None => x.from <= x.until

Starts(X) == {x.from : x \in X} \ {None}
Ends(X) == {x.until : x \in X} \ {None}

ContextsOverlap(x, y) ==
  \A n \in DOMAIN x.context \cap DOMAIN y.context : x.context[n] = y.context[n]

EmptyInterval(x) == x.from # None /\ x.from = x.until

EndsBefore(x, y) == x.until # None /\ y.from # None /\ x.until <= y.from

ValidityOverlaps(x, y) ==
  /\ ~ EmptyInterval(x) /\ ~ EmptyInterval(y)
  /\ ~ EndsBefore(x, y) /\ ~ EndsBefore(y, x)

Overlap(x, y) == ContextsOverlap(x, y) /\ ValidityOverlaps(x, y)

(* claim_applies, at an instant or at any time, in a context.              *)
MatchesContext(bound, context) ==
  \A n \in DOMAIN bound \cap DOMAIN context : bound[n] = context[n]

Applies(x, at, context) ==
  /\ MatchesContext(x.context, context)
  /\ at # None => /\ x.from # None => x.from <= at
                  /\ x.until # None => at < x.until

(* _overlap_witness: when and where both apply.                            *)
OverlapWitness(x, y) ==
  [from |-> IF Starts({x, y}) = {} THEN None ELSE Max(Starts({x, y})),
   until |-> IF Ends({x, y}) = {} THEN None ELSE Min(Ends({x, y})),
   context |-> [n \in DOMAIN x.context \cup DOMAIN y.context |->
                  IF n \in DOMAIN y.context THEN y.context[n] ELSE x.context[n]]]

(* _has_aggregate_applicability: the candidates conflict two by two and    *)
(* never all at once.  A bug it could have: an interval still holds its    *)
(* end.                                                                    *)
HasAggregateApplicabilityClosed(X) ==
  \/ \E x, y \in X : ~ ContextsOverlap(x, y)
  \/ Starts(X) # {} /\ Ends(X) # {} /\ Max(Starts(X)) > Min(Ends(X))

HasAggregateApplicability(X) ==
  \/ \E x, y \in X : ~ ContextsOverlap(x, y)
  \/ Starts(X) # {} /\ Ends(X) # {} /\ Max(Starts(X)) >= Min(Ends(X))

-------------------------------------------------------------------------------
(* _direct_conflicts: the pairs of claims of one key that exclude each     *)
(* other under a revision of the predicate registry.                       *)
ValuesEqual(rev, c, d) == ValueOf[rev][c] = ValueOf[rev][d]

Incompatible(rev, c, d) ==
  /\ KeyOf[c] = KeyOf[d] /\ KeyOf[c] \notin MultiValued[rev]
  /\ ~ ValuesEqual(rev, c, d)
  /\ Overlap(ShapeOf[c], ShapeOf[d])

IncompatiblePairs(rev, claims) ==
  {{cd[1], cd[2]} : cd \in {p \in claims \X claims : Incompatible(rev, p[1], p[2])}}

ASSUME ApartAssumption == \A r \in Revision : Apart[r] = IncompatiblePairs(r, Claim)

(* _taxonomy_for: the class that all candidates of a known kind share.     *)
ClassOf == [belief |-> "epistemic", instruction |-> "normative", preference |-> "normative",
            policy |-> "normative", goal |-> "normative"]

ConflictClass(who) ==
  LET classes == {ClassOf[x] : x \in {KindOf[c] : c \in who} \cap DOMAIN ClassOf}
  IN IF classes = {"normative"} THEN "normative" ELSE "epistemic"

(* DirectConflictIndex, made from the pairs of a conflict's witness.       *)
Index(claims, pairs) ==
  [claims |-> claims, pairs |-> pairs,
   adjacent |-> [c \in claims |-> {d \in claims : {c, d} \in pairs}]]

Without(index, c) ==
  LET rest == index.claims \ {c}
  IN [claims |-> rest,
      pairs |-> index.pairs \ {{c, d} : d \in index.adjacent[c]},
      adjacent |-> [d \in rest |-> index.adjacent[d] \ {c}]]

(* A claim that joins is compared with those that are in the index.  A bug *)
(* it could have: only the newcomer remembers its partners.                *)
WithOneSided(index, rev, c) ==
  LET partners == {d \in index.claims : Incompatible(rev, c, d)}
  IN [claims |-> index.claims \cup {c},
      pairs |-> index.pairs \cup {{c, d} : d \in partners},
      adjacent |-> [d \in index.claims \cup {c} |->
                      IF d = c THEN partners ELSE index.adjacent[d]]]

With(index, rev, c) ==
  LET partners == {d \in index.claims : Incompatible(rev, c, d)}
  IN [claims |-> index.claims \cup {c},
      pairs |-> index.pairs \cup {{c, d} : d \in partners},
      adjacent |-> [d \in index.claims \cup {c} |->
                      CASE d = c -> partners
                        [] d \in partners -> index.adjacent[d] \cup {c}
                        [] OTHER -> index.adjacent[d]]]

(* update_direct_conflict_index: the claims that left go first.            *)
UpdatedIndex(index, rev, claims) ==
  FoldSet(LAMBDA c, i : With(i, rev, c),
          FoldSet(LAMBDA c, i : Without(i, c), index, index.claims \ claims),
          claims \ index.claims)

(* conflict_from_direct_index.                                             *)
Candidates(index) == UNION index.pairs

-------------------------------------------------------------------------------
(* find_conflicts with a context: some incompatible pair of the witness    *)
(* can meet there.  A bug it could have: the candidates are asked for one  *)
(* by one.                                                                 *)
ConflictMatchesContextEach(pairs, context) ==
  \E c \in UNION pairs : MatchesContext(ShapeOf[c].context, context)

WitnessOf(p) ==
  LET one == CHOOSE x \in p : TRUE
      other == CHOOSE x \in p : x # one
  IN OverlapWitness(ShapeOf[one], ShapeOf[other])

ConflictMatchesContext(pairs, context) ==
  \E p \in pairs : MatchesContext(WitnessOf(p).context, context)

-------------------------------------------------------------------------------
(* Instants on both sides of every bound, and full assignments of names.   *)
Moments == Instant \cup {Min(Instant) - 1}
Situations == [Name -> ContextValue]

(* Shapes are intervals and contexts that the constructors accept.         *)
ASSUME ShapeAssumption ==
  /\ IsFiniteSet(Instant) /\ Instant # {} /\ (Name = {} \/ ContextValue # {})
  /\ None \notin Moments
  /\ \A x \in Shape :
       /\ x.from \in Instant \cup {None} /\ x.until \in Instant \cup {None} /\ WellFormed(x)
       /\ \E names \in SUBSET Name : x.context \in [names -> ContextValue]

Cells(x) == {m \in {<<at, where>> : at \in Moments, where \in Situations} : Applies(x, m[1], m[2])}

Together(x, y) == Cells(x) \cap Cells(y)

Misjudged ==
  {xy \in {<<x, y>> : x, y \in Shape} :
     \/ Overlap(xy[1], xy[2]) # (Together(xy[1], xy[2]) # {})
     \/ Overlap(xy[1], xy[2])
          /\ Together(xy[1], xy[2]) # Cells(OverlapWitness(xy[1], xy[2]))}

Misannotated ==
  {X \in {{x, y, z} : x, y, z \in {w \in Shape : ~ EmptyInterval(w)}} :
     HasAggregateApplicability(X) # (\A m \in Moments \X Situations : \E x \in X : m \notin Cells(x))}

(* Sets of claims and contexts where a query by the context differs from   *)
(* a state that holds only what applies there.                             *)
Contexts == UNION {[names -> ContextValue] : names \in SUBSET Name}

Misfound ==
  {xy \in (SUBSET Claim) \X Contexts :
     \E r \in Revision :
       LET there == {c \in xy[1] : MatchesContext(ShapeOf[c].context, xy[2])}
       IN ConflictMatchesContext(IncompatiblePairs(r, xy[1]), xy[2])
            # (IncompatiblePairs(r, there) # {})}
================================================================================
