---------------------------- MODULE DetectionProofs ----------------------------
(***************************************************************************)
(* When claims exclude each other, for any shapes of them: the index of    *)
(* pairs that is updated claim by claim, the instants and situations that  *)
(* a comparison stands for, and the queries by a context.                  *)
(***************************************************************************)
EXTENDS Detection, FiniteSetTheorems, WellFoundedInduction, TLAPS

-------------------------------------------------------------------------------
(* Finite sets have greatest elements.                                     *)

(* A finite set of integers has a greatest element.                        *)
LEMMA GreatestElement ==
  ASSUME NEW S \in SUBSET Int, IsFiniteSet(S), S # {}
  PROVE  \E m \in S : \A n \in S : n <= m
<1>. DEFINE Greatest(U) == \E m \in U : \A n \in U : n <= m
            Bad == {U \in FiniteSubsetsOf(Int) : U # {} /\ ~ Greatest(U)}
            R == StrictSubsetOrdering(Int)
<1>1. SUFFICES ASSUME Bad # {} PROVE FALSE
  BY DEF FiniteSubsetsOf
<1>2. IsWellFoundedOn(R, FiniteSubsetsOf(Int))
  BY FS_StrictSubsetOrderingWellFounded
<1>3. Bad \subseteq FiniteSubsetsOf(Int)
  OBVIOUS
<1>. HIDE DEF R, Bad
<1>4. PICK U \in Bad : \A V \in Bad : ~ (<<V, U>> \in R)
  BY <1>1, <1>2, <1>3, WFMin
<1>5. U \in SUBSET Int /\ IsFiniteSet(U) /\ U # {} /\ ~ Greatest(U)
  BY <1>4 DEF Bad, FiniteSubsetsOf
<1>6. PICK x \in U : TRUE
  BY <1>5
<1>7. CASE U \ {x} = {}
  BY <1>5, <1>6, <1>7
<1>8. CASE U \ {x} # {}
  <2>1. IsFiniteSet(U \ {x})
    BY <1>5, FS_RemoveElement
  <2>2. <<U \ {x}, U>> \in R
    BY <1>5, <1>6 DEF R, StrictSubsetOrdering
  <2>3. U \ {x} \notin Bad
    BY <1>4, <2>2
  <2>4. PICK m \in U \ {x} : \A n \in U \ {x} : n <= m
    BY <1>5, <1>8, <2>1, <2>3 DEF Bad, FiniteSubsetsOf
  <2>5. m \in Int /\ x \in Int
    BY <1>5, <1>6, <2>4
  <2>6. CASE x <= m
    BY <1>5, <2>4, <2>6
  <2>7. CASE m <= x
    <3>1. \A n \in U : n <= x
      BY <1>5, <2>4, <2>5, <2>7
    <3>. QED  BY <1>5, <1>6, <3>1
  <2>. QED  BY <2>5, <2>6, <2>7
<1>. QED  BY <1>7, <1>8

(* Max of a finite set of integers is its greatest element.                *)
LEMMA MaxFacts ==
  ASSUME NEW S \in SUBSET Int, IsFiniteSet(S), S # {}
  PROVE  Max(S) \in S /\ \A n \in S : n <= Max(S)
<1>1. \E m \in S : \A n \in S : n <= m
  BY GreatestElement
<1>. QED  BY <1>1 DEF Max

(* Min of a finite set of integers is its least element.                   *)
LEMMA MinFacts ==
  ASSUME NEW S \in SUBSET Int, IsFiniteSet(S), S # {}
  PROVE  Min(S) \in S /\ \A n \in S : Min(S) <= n
<1>. DEFINE T == {- n : n \in S}
            f == [n \in S |-> - n]
<1>1. f \in Surjection(S, T)
  BY DEF Surjection
<1>2. IsFiniteSet(T)
  BY <1>1, FS_Surjection
<1>. HIDE DEF f
<1>3. PICK m \in T : \A n \in T : n <= m
  <2>1. T \in SUBSET Int /\ T # {}
    <3>1. \A n \in S : - n \in Int
      OBVIOUS
    <3>. QED  BY <3>1
  <2>. HIDE DEF T
  <2>. QED  BY <1>2, <2>1, GreatestElement
<1>4. PICK x \in S : m = - x
  BY <1>3
<1>5. \A n \in S : x <= n
  <2>1. ASSUME NEW n \in S PROVE x <= n
    <3>1. - n <= m
      BY <1>3
    <3>. QED  BY <1>4, <3>1
  <2>. QED  BY <2>1
<1>6. \E y \in S : \A n \in S : y <= n
  BY <1>5
<1>. QED  BY <1>6 DEF Min

-------------------------------------------------------------------------------
(* Contexts: the witness of a pair matches what both of its claims match.  *)

(* The witness of two incompatible claims matches a context exactly when   *)
(* both of them do.                                                        *)
LEMMA WitnessFacts ==
  ASSUME NEW rev, NEW c, NEW d, Incompatible(rev, c, d), NEW context
  PROVE  MatchesContext(WitnessOf({c, d}).context, context)
           <=> /\ MatchesContext(ShapeOf[c].context, context)
               /\ MatchesContext(ShapeOf[d].context, context)
<1>. DEFINE p == {c, d}
            one == CHOOSE x \in p : TRUE
            other == CHOOSE x \in p : x # one
            X == ShapeOf[one].context
            Y == ShapeOf[other].context
            both == [n \in DOMAIN X \cup DOMAIN Y |-> IF n \in DOMAIN Y THEN Y[n] ELSE X[n]]
<1>1. c # d /\ ContextsOverlap(ShapeOf[c], ShapeOf[d])
  BY DEF Incompatible, ValuesEqual, Overlap
<1>2. one \in p
  OBVIOUS
<1>3. other \in p /\ other # one
  <2>1. \E x \in p : x # one
    BY <1>1
  <2>. HIDE DEF one
  <2>. QED  BY <2>1
<1>. HIDE DEF one, other
<1>4. WitnessOf({c, d}).context = both
  BY DEF WitnessOf, OverlapWitness, one, other
<1>5. \/ one = c /\ other = d
      \/ one = d /\ other = c
  BY <1>2, <1>3
<1>6. \A n \in DOMAIN X \cap DOMAIN Y : X[n] = Y[n]
  BY <1>1, <1>5 DEF ContextsOverlap
<1>7. MatchesContext(both, context) <=> MatchesContext(X, context) /\ MatchesContext(Y, context)
  <2>. HIDE DEF X, Y
  <2>1. DOMAIN both = DOMAIN X \cup DOMAIN Y
    OBVIOUS
  <2>2. /\ \A n \in DOMAIN X : both[n] = X[n]
        /\ \A n \in DOMAIN Y : both[n] = Y[n]
    BY <1>6
  <2>. HIDE DEF both
  <2>. QED  BY <2>1, <2>2 DEF MatchesContext
<1>. QED  BY <1>4, <1>5, <1>7

(* A query by a context finds a conflict on a set of claims exactly when   *)
(* those of them that apply in the context conflict: find_conflicts reads  *)
(* the contexts of the witness only.                                       *)
THEOREM QueriesFindExactly == Misfound = {}
<1>1. SUFFICES ASSUME NEW claims, NEW context, NEW rev
               PROVE  LET there == {c \in claims : MatchesContext(ShapeOf[c].context, context)}
                      IN ConflictMatchesContext(IncompatiblePairs(rev, claims), context)
                           = (IncompatiblePairs(rev, there) # {})
  BY DEF Misfound
<1>. DEFINE there == {c \in claims : MatchesContext(ShapeOf[c].context, context)}
<1>2. ASSUME NEW p \in IncompatiblePairs(rev, claims),
             MatchesContext(WitnessOf(p).context, context)
      PROVE  IncompatiblePairs(rev, there) # {}
  <2>1. PICK c \in claims, d \in claims : p = {c, d} /\ Incompatible(rev, c, d)
    BY <1>2 DEF IncompatiblePairs
  <2>2. c \in there /\ d \in there
    BY <1>2, <2>1, WitnessFacts
  <2>3. <<c, d>> \in {q \in there \X there : Incompatible(rev, q[1], q[2])}
    BY <2>1, <2>2
  <2>4. {<<c, d>>[1], <<c, d>>[2]} \in IncompatiblePairs(rev, there)
    BY <2>3 DEF IncompatiblePairs
  <2>. QED  BY <2>4
<1>3. ASSUME NEW p \in IncompatiblePairs(rev, there)
      PROVE  p \in IncompatiblePairs(rev, claims) /\ MatchesContext(WitnessOf(p).context, context)
  <2>1. PICK c \in there, d \in there : p = {c, d} /\ Incompatible(rev, c, d)
    BY <1>3 DEF IncompatiblePairs
  <2>2. <<c, d>> \in {q \in claims \X claims : Incompatible(rev, q[1], q[2])}
    BY <2>1
  <2>3. p = {<<c, d>>[1], <<c, d>>[2]}
    BY <2>1
  <2>4. p \in IncompatiblePairs(rev, claims)
    BY <2>2, <2>3 DEF IncompatiblePairs
  <2>5. MatchesContext(WitnessOf(p).context, context)
    BY <2>1, WitnessFacts
  <2>. QED  BY <2>4, <2>5
<1>. HIDE DEF there
<1>. QED  BY <1>2, <1>3 DEF ConflictMatchesContext, there

-------------------------------------------------------------------------------
(* The index of a key                                                      *)

(* Two ways to compute something of every subset that agree on the empty   *)
(* one, and on a set when they agree on it without one of its elements.    *)
LEMMA SameFold ==
  ASSUME NEW S, IsFiniteSet(S), NEW g, NEW h, g[{}] = h[{}],
         \A s \in SUBSET S :
           s # {} => \E x \in s : g[s \ {x}] = h[s \ {x}] => g[s] = h[s]
  PROVE  g[S] = h[S]
<1>. DEFINE Bad == {s \in FiniteSubsetsOf(S) : g[s] # h[s]}
            R == StrictSubsetOrdering(S)
<1>1. S \in FiniteSubsetsOf(S)
  BY DEF FiniteSubsetsOf
<1>2. SUFFICES ASSUME Bad # {} PROVE FALSE
  BY <1>1
<1>3. IsWellFoundedOn(R, FiniteSubsetsOf(S))
  BY FS_StrictSubsetOrderingWellFounded
<1>4. Bad \subseteq FiniteSubsetsOf(S)
  OBVIOUS
<1>. HIDE DEF R, Bad
<1>5. PICK s \in Bad : \A t \in Bad : ~ (<<t, s>> \in R)
  BY <1>2, <1>3, <1>4, WFMin
<1>6. s \in SUBSET S /\ IsFiniteSet(s) /\ g[s] # h[s]
  BY <1>5 DEF Bad, FiniteSubsetsOf
<1>7. PICK x \in s : g[s \ {x}] = h[s \ {x}] => g[s] = h[s]
  BY <1>6
<1>8. s \ {x} \in FiniteSubsetsOf(S)
  BY <1>6, FS_RemoveElement DEF FiniteSubsetsOf
<1>9. <<s \ {x}, s>> \in R
  BY <1>6, <1>7 DEF R, StrictSubsetOrdering
<1>. QED  BY <1>5, <1>6, <1>7, <1>8, <1>9 DEF Bad

(* The folds of update_direct_conflict_index, as the functions that they   *)
(* are.                                                                    *)
OneOf(s) == CHOOSE x \in s : TRUE

FoldedWith(rev, base, S) ==
  LET g == CHOOSE f : f = [s \in SUBSET S |-> IF s = {} THEN base
                                             ELSE With(f[s \ {OneOf(s)}], rev, OneOf(s))]
  IN g[S]

FoldedWithout(base, S) ==
  LET g == CHOOSE f : f = [s \in SUBSET S |-> IF s = {} THEN base
                                             ELSE Without(f[s \ {OneOf(s)}], OneOf(s))]
  IN g[S]

(* update_direct_conflict_index takes the claims that went out, then puts  *)
(* in those that came.                                                     *)
LEMMA UpdatedIndexFolds ==
  ASSUME NEW index, NEW rev, NEW claims
  PROVE  UpdatedIndex(index, rev, claims)
           = FoldedWith(rev, FoldedWithout(index, index.claims \ claims), claims \ index.claims)
BY DEF UpdatedIndex, FoldSet, MapThenFoldSet, FoldedWith, FoldedWithout, OneOf

(* To be incompatible is symmetric, and no claim is so with itself.        *)
LEMMA IncompatibleFacts ==
  ASSUME NEW rev, NEW c, NEW d
  PROVE  /\ Incompatible(rev, c, d) <=> Incompatible(rev, d, c)
         /\ Incompatible(rev, c, d) => c # d
<1>1. ContextsOverlap(ShapeOf[c], ShapeOf[d]) <=> ContextsOverlap(ShapeOf[d], ShapeOf[c])
  BY DEF ContextsOverlap
<1>2. ValidityOverlaps(ShapeOf[c], ShapeOf[d]) <=> ValidityOverlaps(ShapeOf[d], ShapeOf[c])
  BY DEF ValidityOverlaps
<1>. QED  BY <1>1, <1>2 DEF Incompatible, ValuesEqual, Overlap

(* The pairs of an index are those of its incompatible claims.             *)
LEMMA PairFacts ==
  ASSUME NEW rev, NEW claims, NEW c, NEW d
  PROVE  {c, d} \in IncompatiblePairs(rev, claims)
           <=> c \in claims /\ d \in claims /\ Incompatible(rev, c, d)
<1>1. ASSUME {c, d} \in IncompatiblePairs(rev, claims)
      PROVE  c \in claims /\ d \in claims /\ Incompatible(rev, c, d)
  <2>1. PICK x \in claims, y \in claims : {c, d} = {x, y} /\ Incompatible(rev, x, y)
    BY <1>1 DEF IncompatiblePairs
  <2>2. x # y
    BY <2>1, IncompatibleFacts
  <2>3. \/ c = x /\ d = y
        \/ c = y /\ d = x
    BY <2>1, <2>2
  <2>. QED  BY <2>1, <2>3, IncompatibleFacts
<1>2. ASSUME c \in claims, d \in claims, Incompatible(rev, c, d)
      PROVE  {c, d} \in IncompatiblePairs(rev, claims)
  <2>1. <<c, d>> \in {q \in claims \X claims : Incompatible(rev, q[1], q[2])}
    BY <1>2
  <2>2. {<<c, d>>[1], <<c, d>>[2]} \in IncompatiblePairs(rev, claims)
    BY <2>1 DEF IncompatiblePairs
  <2>. QED  BY <2>2
<1>. QED  BY <1>1, <1>2

(* The index that would be made of the claims at once.                     *)
IndexOf(rev, claims) == Index(claims, IncompatiblePairs(rev, claims))

(* What an index made at once holds.                                       *)
LEMMA IndexOfFacts ==
  ASSUME NEW rev, NEW claims
  PROVE  IndexOf(rev, claims)
           = [claims |-> claims, pairs |-> IncompatiblePairs(rev, claims),
              adjacent |-> [c \in claims |-> {d \in claims : Incompatible(rev, c, d)}]]
<1>1. [c \in claims |-> {d \in claims : {c, d} \in IncompatiblePairs(rev, claims)}]
        = [c \in claims |-> {d \in claims : Incompatible(rev, c, d)}]
  BY PairFacts
<1>. QED  BY <1>1 DEF IndexOf, Index

(* To take one claim out of an index gives the index of the others.        *)
LEMMA WithoutFacts ==
  ASSUME NEW rev, NEW claims, NEW c \in claims
  PROVE  Without(IndexOf(rev, claims), c) = IndexOf(rev, claims \ {c})
<1>. DEFINE index == IndexOf(rev, claims)
            rest == claims \ {c}
<1>1. /\ index.claims = claims /\ index.pairs = IncompatiblePairs(rev, claims)
      /\ index.adjacent = [x \in claims |-> {d \in claims : Incompatible(rev, x, d)}]
  BY IndexOfFacts
<1>. HIDE DEF index
<1>2. index.pairs \ {{c, d} : d \in index.adjacent[c]} = IncompatiblePairs(rev, rest)
  <2>1. ASSUME NEW p \in IncompatiblePairs(rev, claims), p \notin {{c, d} : d \in index.adjacent[c]}
        PROVE  p \in IncompatiblePairs(rev, rest)
    <3>1. PICK x \in claims, y \in claims : p = {x, y} /\ Incompatible(rev, x, y)
      BY <2>1 DEF IncompatiblePairs
    <3>2. x # c /\ y # c
      BY <1>1, <2>1, <3>1, IncompatibleFacts
    <3>. QED  BY <3>1, <3>2, PairFacts
  <2>2. ASSUME NEW p \in IncompatiblePairs(rev, rest)
        PROVE  p \in IncompatiblePairs(rev, claims) /\ p \notin {{c, d} : d \in index.adjacent[c]}
    <3>1. PICK x \in rest, y \in rest : p = {x, y} /\ Incompatible(rev, x, y)
      BY <2>2 DEF IncompatiblePairs
    <3>. QED  BY <3>1, PairFacts
  <2>. QED  BY <1>1, <2>1, <2>2
<1>3. [d \in rest |-> index.adjacent[d] \ {c}]
        = [x \in rest |-> {d \in rest : Incompatible(rev, x, d)}]
  BY <1>1
<1>. QED  BY <1>1, <1>2, <1>3, IndexOfFacts DEF Without, index

(* To put one claim into an index gives the index with it.                 *)
LEMMA WithFacts ==
  ASSUME NEW rev, NEW claims, NEW c, c \notin claims
  PROVE  With(IndexOf(rev, claims), rev, c) = IndexOf(rev, claims \cup {c})
<1>. DEFINE index == IndexOf(rev, claims)
            all == claims \cup {c}
            partners == {d \in index.claims : Incompatible(rev, c, d)}
            adjacent == [d \in index.claims \cup {c} |->
                           CASE d = c -> partners
                             [] d \in partners -> index.adjacent[d] \cup {c}
                             [] OTHER -> index.adjacent[d]]
<1>1. /\ index.claims = claims /\ index.pairs = IncompatiblePairs(rev, claims)
      /\ index.adjacent = [x \in claims |-> {d \in claims : Incompatible(rev, x, d)}]
  BY IndexOfFacts
<1>. HIDE DEF index
<1>2. index.pairs \cup {{c, d} : d \in partners} = IncompatiblePairs(rev, all)
  <2>1. ASSUME NEW p \in IncompatiblePairs(rev, all)
        PROVE  p \in IncompatiblePairs(rev, claims) \cup {{c, d} : d \in partners}
    <3>1. PICK x \in all, y \in all : p = {x, y} /\ Incompatible(rev, x, y)
      BY <2>1 DEF IncompatiblePairs
    <3>2. CASE x \in claims /\ y \in claims
      BY <3>1, <3>2, PairFacts
    <3>3. CASE x = c
      <4>1. y \in partners
        BY <1>1, <3>1, <3>3, IncompatibleFacts
      <4>. QED  BY <3>1, <3>3, <4>1
    <3>4. CASE y = c
      <4>1. x \in partners
        BY <1>1, <3>1, <3>4, IncompatibleFacts
      <4>2. p = {c, x}
        BY <3>1, <3>4
      <4>. QED  BY <4>1, <4>2
    <3>. QED  BY <3>1, <3>2, <3>3, <3>4
  <2>2. ASSUME NEW p \in IncompatiblePairs(rev, claims)
        PROVE  p \in IncompatiblePairs(rev, all)
    <3>1. PICK x \in claims, y \in claims : p = {x, y} /\ Incompatible(rev, x, y)
      BY <2>2 DEF IncompatiblePairs
    <3>. QED  BY <3>1, PairFacts
  <2>3. ASSUME NEW d \in partners
        PROVE  {c, d} \in IncompatiblePairs(rev, all)
    BY <1>1, PairFacts
  <2>. QED  BY <1>1, <2>1, <2>2, <2>3
<1>3. adjacent = [x \in all |-> {d \in all : Incompatible(rev, x, d)}]
  <2>1. ASSUME NEW x \in all
        PROVE  adjacent[x] = {d \in all : Incompatible(rev, x, d)}
    <3>1. CASE x = c
      <4>1. adjacent[x] = partners
        BY <1>1, <3>1
      <4>. QED  BY <1>1, <3>1, <4>1, IncompatibleFacts
    <3>2. CASE x \in partners
      <4>1. adjacent[x] = index.adjacent[x] \cup {c}
        BY <1>1, <3>2
      <4>2. Incompatible(rev, x, c)
        BY <3>2, IncompatibleFacts
      <4>. QED  BY <1>1, <3>2, <4>1, <4>2
    <3>3. CASE x # c /\ x \notin partners
      <4>1. adjacent[x] = index.adjacent[x]
        BY <1>1, <3>3
      <4>2. x \in claims /\ ~ Incompatible(rev, x, c)
        BY <1>1, <3>3, IncompatibleFacts
      <4>. QED  BY <1>1, <4>1, <4>2
    <3>. QED  BY <3>1, <3>2, <3>3
  <2>2. adjacent = [x \in all |-> adjacent[x]]
    BY <1>1
  <2>. HIDE DEF adjacent
  <2>. QED  BY <2>1, <2>2
<1>. HIDE DEF adjacent
<1>4. With(index, rev, c) = [claims |-> all, pairs |-> index.pairs \cup {{c, d} : d \in partners},
                             adjacent |-> adjacent]
  BY <1>1 DEF With, adjacent
<1>. QED  BY <1>2, <1>3, <1>4, IndexOfFacts DEF index

(* To take finitely many claims out, one after another, gives the index of *)
(* those that stay.                                                        *)
LEMMA FoldOfWithout ==
  ASSUME NEW rev, NEW claims, NEW S \in SUBSET claims, IsFiniteSet(S)
  PROVE  FoldedWithout(IndexOf(rev, claims), S) = IndexOf(rev, claims \ S)
<1>. DEFINE base == IndexOf(rev, claims)
            h == [s \in SUBSET S |-> IndexOf(rev, claims \ s)]
            Steps(f) == [s \in SUBSET S |-> IF s = {} THEN base
                                            ELSE Without(f[s \ {OneOf(s)}], OneOf(s))]
            g == CHOOSE f : f = Steps(f)
<1>1. FoldedWithout(base, S) = g[S]
  BY DEF FoldedWithout
<1>2. \A s \in SUBSET S : s # {} => OneOf(s) \in s
  BY DEF OneOf
<1>3. h[{}] = base
  <2>1. claims \ {} = claims
    OBVIOUS
  <2>. QED  BY <2>1
<1>4. \A s \in SUBSET S : \A x \in s : h[s] = Without(h[s \ {x}], x)
  <2>1. ASSUME NEW s \in SUBSET S, NEW x \in s
        PROVE  h[s] = Without(h[s \ {x}], x)
    <3>1. /\ x \in claims \ (s \ {x})
          /\ (claims \ (s \ {x})) \ {x} = claims \ s
          /\ s \ {x} \in SUBSET S
      BY <2>1
    <3>. QED  BY <3>1, WithoutFacts
  <2>. QED  BY <2>1
<1>. HIDE DEF base
<1>5. h = Steps(h)
  <2>1. ASSUME NEW s \in SUBSET S
        PROVE  h[s] = IF s = {} THEN base ELSE Without(h[s \ {OneOf(s)}], OneOf(s))
    BY <1>2, <1>3, <1>4
  <2>. QED  BY <2>1
<1>6. g = Steps(g)
  <2>. HIDE DEF Steps, h
  <2>. QED  BY <1>5
<1>. HIDE DEF g, h
<1>7. g[{}] = base /\ \A s \in SUBSET S : s # {} => g[s] = Without(g[s \ {OneOf(s)}], OneOf(s))
  BY <1>6
<1>8. \A s \in SUBSET S : s # {} => \E x \in s : g[s \ {x}] = h[s \ {x}] => g[s] = h[s]
  BY <1>2, <1>4, <1>7
<1>9. g[{}] = h[{}]
  BY <1>3, <1>7
<1>. HIDE DEF Steps
<1>10. g[S] = h[S]
  BY <1>8, <1>9, SameFold
<1>. QED  BY <1>1, <1>10 DEF h, base

(* To put finitely many claims in, one after another, gives the index with *)
(* all of them.                                                            *)
LEMMA FoldOfWith ==
  ASSUME NEW rev, NEW claims, NEW S, S \cap claims = {}, IsFiniteSet(S)
  PROVE  FoldedWith(rev, IndexOf(rev, claims), S) = IndexOf(rev, claims \cup S)
<1>. DEFINE base == IndexOf(rev, claims)
            h == [s \in SUBSET S |-> IndexOf(rev, claims \cup s)]
            Steps(f) == [s \in SUBSET S |-> IF s = {} THEN base
                                            ELSE With(f[s \ {OneOf(s)}], rev, OneOf(s))]
            g == CHOOSE f : f = Steps(f)
<1>1. FoldedWith(rev, base, S) = g[S]
  BY DEF FoldedWith
<1>2. \A s \in SUBSET S : s # {} => OneOf(s) \in s
  BY DEF OneOf
<1>3. h[{}] = base
  <2>1. claims \cup {} = claims
    OBVIOUS
  <2>. QED  BY <2>1
<1>4. \A s \in SUBSET S : \A x \in s : h[s] = With(h[s \ {x}], rev, x)
  <2>1. ASSUME NEW s \in SUBSET S, NEW x \in s
        PROVE  h[s] = With(h[s \ {x}], rev, x)
    <3>1. /\ x \notin claims \cup (s \ {x})
          /\ (claims \cup (s \ {x})) \cup {x} = claims \cup s
          /\ s \ {x} \in SUBSET S
      BY <2>1
    <3>. QED  BY <3>1, WithFacts
  <2>. QED  BY <2>1
<1>. HIDE DEF base
<1>5. h = Steps(h)
  <2>1. ASSUME NEW s \in SUBSET S
        PROVE  h[s] = IF s = {} THEN base ELSE With(h[s \ {OneOf(s)}], rev, OneOf(s))
    BY <1>2, <1>3, <1>4
  <2>. QED  BY <2>1
<1>6. g = Steps(g)
  <2>. HIDE DEF Steps, h
  <2>. QED  BY <1>5
<1>. HIDE DEF g, h
<1>7. g[{}] = base /\ \A s \in SUBSET S : s # {} => g[s] = With(g[s \ {OneOf(s)}], rev, OneOf(s))
  BY <1>6
<1>8. \A s \in SUBSET S : s # {} => \E x \in s : g[s \ {x}] = h[s \ {x}] => g[s] = h[s]
  BY <1>2, <1>4, <1>7
<1>9. g[{}] = h[{}]
  BY <1>3, <1>7
<1>. HIDE DEF Steps
<1>10. g[S] = h[S]
  BY <1>8, <1>9, SameFold
<1>. QED  BY <1>1, <1>10 DEF h, base

(* However many claims left and joined, the index that is updated claim by *)
(* claim is the one that would be made of the claims at once, neighbours   *)
(* included: update_direct_conflict_index.                                 *)
THEOREM IndexUpdateExact ==
  ASSUME NEW rev, NEW before, IsFiniteSet(before), NEW claims, IsFiniteSet(claims)
  PROVE  UpdatedIndex(IndexOf(rev, before), rev, claims) = IndexOf(rev, claims)
<1>. DEFINE kept == before \ (before \ claims)
<1>1. IndexOf(rev, before).claims = before
  BY IndexOfFacts
<1>2. IsFiniteSet(before \ claims) /\ IsFiniteSet(claims \ before)
  BY FS_Subset
<1>3. FoldedWithout(IndexOf(rev, before), before \ claims) = IndexOf(rev, kept)
  BY <1>2, FoldOfWithout
<1>4. (claims \ before) \cap kept = {} /\ kept \cup (claims \ before) = claims
  OBVIOUS
<1>. HIDE DEF kept
<1>5. FoldedWith(rev, IndexOf(rev, kept), claims \ before) = IndexOf(rev, claims)
  BY <1>2, <1>4, FoldOfWith
<1>. QED  BY <1>1, <1>3, <1>5, UpdatedIndexFolds

-------------------------------------------------------------------------------
(* Instants and situations                                                 *)

(* The parts of a shape.                                                   *)
LEMMA ShapeFacts ==
  ASSUME NEW x \in Shape
  PROVE  /\ x.from \in Instant \cup {None} /\ x.until \in Instant \cup {None} /\ WellFormed(x)
         /\ DOMAIN x.context \subseteq Name
         /\ \A n \in DOMAIN x.context : x.context[n] \in ContextValue
BY ShapeAssumption

(* The moments that matter are the instants and one before all of them.    *)
LEMMA MomentFacts ==
  /\ Instant \subseteq Moments /\ Moments \subseteq Int /\ None \notin Instant
  /\ Min(Instant) - 1 \in Moments
  /\ \A i \in Instant : Min(Instant) - 1 < i
<1>1. Min(Instant) \in Instant /\ \A n \in Instant : Min(Instant) <= n
  BY DetectionAssumption, ShapeAssumption, MinFacts
<1>2. Moments = Instant \cup {Min(Instant) - 1}
  BY DEF Moments
<1>3. Instant \subseteq Int /\ None \notin Moments
  BY DetectionAssumption, ShapeAssumption
<1>. DEFINE first == Min(Instant)
<1>4. first \in Int /\ \A n \in Instant : n \in Int /\ first <= n
  BY <1>1, <1>3
<1>. HIDE DEF first
<1>5. first - 1 \in Int /\ \A i \in Instant : first - 1 < i
  BY <1>4
<1>. QED  BY <1>2, <1>3, <1>5 DEF first

(* The latest start and the earliest end among shapes, where there are any.*)
LEMMA BoundFacts ==
  ASSUME NEW X \in SUBSET Shape
  PROVE  /\ Starts(X) \subseteq Instant /\ Ends(X) \subseteq Instant
         /\ Starts(X) # {} => /\ Max(Starts(X)) \in Starts(X)
                              /\ \A i \in Starts(X) : i <= Max(Starts(X))
         /\ Ends(X) # {} => /\ Min(Ends(X)) \in Ends(X)
                            /\ \A i \in Ends(X) : Min(Ends(X)) <= i
<1>1. Starts(X) \subseteq Instant /\ Ends(X) \subseteq Instant
  BY ShapeFacts DEF Starts, Ends
<1>2. IsFiniteSet(Starts(X)) /\ IsFiniteSet(Ends(X))
  BY <1>1, FS_Subset, ShapeAssumption
<1>3. Starts(X) \in SUBSET Int /\ Ends(X) \in SUBSET Int
  BY <1>1, DetectionAssumption
<1>. QED  BY <1>1, <1>2, <1>3, MaxFacts, MinFacts

(* A shape holds at a moment in a situation when its context matches and   *)
(* the moment is in its half-open interval.                                *)
LEMMA CellFacts ==
  ASSUME NEW x, NEW at \in Moments, NEW where \in Situations
  PROVE  <<at, where>> \in Cells(x)
           <=> /\ MatchesContext(x.context, where)
               /\ x.from # None => x.from <= at
               /\ x.until # None => at < x.until
<1>1. at # None
  BY ShapeAssumption
<1>. QED  BY <1>1 DEF Cells, Applies

(* What a shape holds at are pairs of a moment and a situation.            *)
LEMMA CellsAre ==
  ASSUME NEW x, NEW m \in Cells(x)
  PROVE  \E at \in Moments, where \in Situations : m = <<at, where>>
BY DEF Cells

(* Claims whose contexts agree and whose intervals leave room all apply    *)
(* somewhere.                                                              *)
LEMMA CommonCell ==
  ASSUME NEW X \in SUBSET Shape, \A x, y \in X : ContextsOverlap(x, y),
         Starts(X) # {} /\ Ends(X) # {} => Max(Starts(X)) < Min(Ends(X))
  PROVE  \E at \in Moments, where \in Situations : \A x \in X : <<at, where>> \in Cells(x)
<1>. DEFINE Binds(n) == {x \in X : n \in DOMAIN x.context}
            One(n) == CHOOSE x \in Binds(n) : TRUE
            Free == CHOOSE v \in ContextValue : TRUE
            where == [n \in Name |-> IF Binds(n) # {} THEN One(n).context[n] ELSE Free]
            at == IF Starts(X) = {} THEN Min(Instant) - 1 ELSE Max(Starts(X))
<1>1. \A n \in Name : Binds(n) # {} => One(n) \in X /\ n \in DOMAIN One(n).context
  OBVIOUS
<1>2. \A n \in Name : Free \in ContextValue
  BY ShapeAssumption
<1>. HIDE DEF One, Free
<1>3. where \in Situations
  <2>1. ASSUME NEW n \in Name
        PROVE  (IF Binds(n) # {} THEN One(n).context[n] ELSE Free) \in ContextValue
    BY <1>1, <1>2, <2>1, ShapeFacts
  <2>. HIDE DEF Binds
  <2>. QED  BY <2>1 DEF Situations
<1>4. ASSUME NEW x \in X
      PROVE  MatchesContext(x.context, where)
  <2>1. ASSUME NEW n \in DOMAIN x.context
        PROVE  x.context[n] = where[n]
    <3>1. n \in Name /\ x \in Binds(n)
      BY <1>4, <2>1, ShapeFacts
    <3>2. ContextsOverlap(x, One(n)) /\ n \in DOMAIN One(n).context
      BY <1>1, <3>1
    <3>3. where[n] = One(n).context[n]
      BY <3>1
    <3>. QED  BY <2>1, <3>2, <3>3 DEF ContextsOverlap
  <2>. QED  BY <2>1 DEF MatchesContext
<1>5. /\ Starts(X) \subseteq Instant /\ Ends(X) \subseteq Instant
      /\ Starts(X) # {} => /\ Max(Starts(X)) \in Starts(X)
                           /\ \A i \in Starts(X) : i <= Max(Starts(X))
      /\ Ends(X) # {} => /\ Min(Ends(X)) \in Ends(X)
                         /\ \A i \in Ends(X) : Min(Ends(X)) <= i
  BY BoundFacts
<1>6. at \in Moments
  BY <1>5, MomentFacts
<1>7. \A i \in Starts(X) : i <= at
  BY <1>5
<1>8. \A i \in Ends(X) : at < i
  <2>1. ASSUME NEW i \in Ends(X) PROVE at < i
    <3>1. CASE Starts(X) = {}
      BY <1>5, <2>1, <3>1, MomentFacts
    <3>2. CASE Starts(X) # {}
      <4>1. /\ Max(Starts(X)) < Min(Ends(X)) /\ Min(Ends(X)) <= i
            /\ Max(Starts(X)) \in Int /\ Min(Ends(X)) \in Int /\ i \in Int
        BY <1>5, <2>1, <3>2, DetectionAssumption
      <4>. QED  BY <3>2, <4>1
    <3>. QED  BY <3>1, <3>2
  <2>. QED  BY <2>1
<1>. HIDE DEF where, at
<1>9. ASSUME NEW x \in X
      PROVE  <<at, where>> \in Cells(x)
  <2>1. (x.from # None => x.from \in Starts(X)) /\ (x.until # None => x.until \in Ends(X))
    BY <1>9 DEF Starts, Ends
  <2>. QED  BY <1>3, <1>4, <1>6, <1>7, <1>8, <2>1, CellFacts
<1>. QED  BY <1>3, <1>6, <1>9

(* Claims that all apply somewhere have contexts that agree and intervals  *)
(* that leave room.                                                        *)
LEMMA CellsMeet ==
  ASSUME NEW X \in SUBSET Shape, NEW at \in Moments, NEW where \in Situations,
         \A x \in X : <<at, where>> \in Cells(x)
  PROVE  /\ \A x, y \in X : ContextsOverlap(x, y)
         /\ \A i \in Starts(X) : i <= at
         /\ \A i \in Ends(X) : at < i
<1>1. \A x \in X : MatchesContext(x.context, where)
  BY CellFacts
<1>2. DOMAIN where = Name
  BY DEF Situations
<1>3. ASSUME NEW x \in X, NEW y \in X PROVE ContextsOverlap(x, y)
  <2>1. DOMAIN x.context \subseteq Name
    BY <1>3, ShapeFacts
  <2>. QED  BY <1>1, <1>2, <1>3, <2>1 DEF ContextsOverlap, MatchesContext
<1>4. ASSUME NEW x \in X PROVE (x.from # None => x.from <= at) /\ (x.until # None => at < x.until)
  BY <1>4, CellFacts
<1>. QED  BY <1>3, <1>4 DEF Starts, Ends

(* Facts of the order of integers that the provers need by name.           *)
LEMMA IntOrder ==
  ASSUME NEW a \in Int, NEW b \in Int
  PROVE  /\ a <= b /\ a # b => a < b
         /\ ~ (b <= a) => a < b
         /\ \A c \in Int : b <= c /\ c < a => ~ (a <= b)
         /\ \A c \in Int : a <= c /\ c < b => a # b
OBVIOUS

(* Two shapes overlap exactly when they hold together somewhere.           *)
LEMMA OverlapIsTogether ==
  ASSUME NEW x \in Shape, NEW y \in Shape
  PROVE  Overlap(x, y) <=> Together(x, y) # {}
<1>. DEFINE X == {x, y}
<1>1. /\ x.from \in Instant \cup {None} /\ x.until \in Instant \cup {None} /\ WellFormed(x)
      /\ y.from \in Instant \cup {None} /\ y.until \in Instant \cup {None} /\ WellFormed(y)
  BY ShapeFacts
<1>2. /\ x.from # None => x.from \in Int
      /\ x.until # None => x.until \in Int
      /\ y.from # None => y.from \in Int
      /\ y.until # None => y.until \in Int
  BY <1>1, DetectionAssumption
<1>3. ASSUME Overlap(x, y) PROVE Together(x, y) # {}
  <2>1. \A i \in Starts(X), j \in Ends(X) : i < j
    <3>1. x.from # None /\ x.until # None => x.from < x.until
      <4>1. ~ EmptyInterval(x)
        BY <1>3 DEF Overlap, ValidityOverlaps
      <4>. QED  BY <1>1, <1>2, <4>1, IntOrder DEF EmptyInterval, WellFormed
    <3>2. y.from # None /\ y.until # None => y.from < y.until
      <4>1. ~ EmptyInterval(y)
        BY <1>3 DEF Overlap, ValidityOverlaps
      <4>. QED  BY <1>1, <1>2, <4>1, IntOrder DEF EmptyInterval, WellFormed
    <3>3. x.from # None /\ y.until # None => x.from < y.until
      <4>1. ~ EndsBefore(y, x)
        BY <1>3 DEF Overlap, ValidityOverlaps
      <4>. QED  BY <1>2, <4>1, IntOrder DEF EndsBefore
    <3>4. y.from # None /\ x.until # None => y.from < x.until
      <4>1. ~ EndsBefore(x, y)
        BY <1>3 DEF Overlap, ValidityOverlaps
      <4>. QED  BY <1>2, <4>1, IntOrder DEF EndsBefore
    <3>. QED  BY <3>1, <3>2, <3>3, <3>4 DEF Starts, Ends
  <2>2. Starts(X) # {} /\ Ends(X) # {} => Max(Starts(X)) < Min(Ends(X))
    BY <2>1, BoundFacts
  <2>3. \A w, v \in X : ContextsOverlap(w, v)
    BY <1>3 DEF Overlap, ContextsOverlap
  <2>4. \E at \in Moments, where \in Situations : \A w \in X : <<at, where>> \in Cells(w)
    BY <2>2, <2>3, CommonCell
  <2>. QED  BY <2>4 DEF Together
<1>4. ASSUME Together(x, y) # {} PROVE Overlap(x, y)
  <2>1. PICK at \in Moments, where \in Situations : \A w \in X : <<at, where>> \in Cells(w)
    <3>1. PICK m : m \in Cells(x) /\ m \in Cells(y)
      BY <1>4 DEF Together
    <3>. QED  BY <3>1, CellsAre
  <2>2. /\ \A w, v \in X : ContextsOverlap(w, v)
        /\ \A i \in Starts(X) : i <= at
        /\ \A i \in Ends(X) : at < i
    BY <2>1, CellsMeet
  <2>3. /\ x.from # None => x.from <= at
        /\ y.from # None => y.from <= at
        /\ x.until # None => at < x.until
        /\ y.until # None => at < y.until
    BY <2>2 DEF Starts, Ends
  <2>4. at \in Int
    BY MomentFacts
  <2>5. ~ EmptyInterval(x) /\ ~ EmptyInterval(y)
    BY <1>2, <2>3, <2>4, IntOrder DEF EmptyInterval
  <2>6. ~ EndsBefore(x, y) /\ ~ EndsBefore(y, x)
    BY <1>2, <2>3, <2>4, IntOrder DEF EndsBefore
  <2>. QED  BY <2>2, <2>5, <2>6 DEF Overlap, ValidityOverlaps
<1>. QED  BY <1>3, <1>4

(* The witness of an overlap holds exactly where both shapes do.           *)
LEMMA WitnessIsTogether ==
  ASSUME NEW x \in Shape, NEW y \in Shape, Overlap(x, y)
  PROVE  Together(x, y) = Cells(OverlapWitness(x, y))
<1>. DEFINE X == {x, y}
            w == OverlapWitness(x, y)
<1>1. /\ w.from = IF Starts(X) = {} THEN None ELSE Max(Starts(X))
      /\ w.until = IF Ends(X) = {} THEN None ELSE Min(Ends(X))
      /\ w.context = [n \in DOMAIN x.context \cup DOMAIN y.context |->
                        IF n \in DOMAIN y.context THEN y.context[n] ELSE x.context[n]]
  BY DEF OverlapWitness
<1>. HIDE DEF w
<1>2. /\ Starts(X) \subseteq Instant /\ Ends(X) \subseteq Instant
      /\ Starts(X) # {} => /\ Max(Starts(X)) \in Starts(X)
                           /\ \A i \in Starts(X) : i <= Max(Starts(X))
      /\ Ends(X) # {} => /\ Min(Ends(X)) \in Ends(X)
                         /\ \A i \in Ends(X) : Min(Ends(X)) <= i
  BY BoundFacts
<1>3. \A n \in DOMAIN x.context \cap DOMAIN y.context : x.context[n] = y.context[n]
  BY DEF Overlap, ContextsOverlap
<1>4. ASSUME NEW at \in Moments, NEW where \in Situations
      PROVE  <<at, where>> \in Cells(w) <=> <<at, where>> \in Cells(x) /\ <<at, where>> \in Cells(y)
  <2>1. MatchesContext(w.context, where)
          <=> MatchesContext(x.context, where) /\ MatchesContext(y.context, where)
    <3>1. DOMAIN w.context = DOMAIN x.context \cup DOMAIN y.context
      BY <1>1
    <3>2. /\ \A n \in DOMAIN x.context : w.context[n] = x.context[n]
          /\ \A n \in DOMAIN y.context : w.context[n] = y.context[n]
      BY <1>1, <1>3
    <3>. QED  BY <3>1, <3>2 DEF MatchesContext
  <2>2. at \in Int /\ Instant \subseteq Int /\ None \notin Instant
    BY MomentFacts, DetectionAssumption
  <2>3. (w.from # None => w.from <= at) <=> \A i \in Starts(X) : i <= at
    <3>1. CASE Starts(X) = {}
      BY <1>1, <3>1
    <3>2. CASE Starts(X) # {}
      <4>1. w.from = Max(Starts(X)) /\ w.from # None
        BY <1>1, <1>2, <2>2, <3>2
      <4>2. \A i \in Starts(X) : i \in Int /\ i <= w.from
        BY <1>2, <2>2, <3>2, <4>1
      <4>3. w.from \in Starts(X) /\ w.from \in Int
        BY <1>2, <2>2, <3>2, <4>1
      <4>. QED  BY <2>2, <4>1, <4>2, <4>3
    <3>. QED  BY <3>1, <3>2
  <2>4. (w.until # None => at < w.until) <=> \A i \in Ends(X) : at < i
    <3>1. CASE Ends(X) = {}
      BY <1>1, <3>1
    <3>2. CASE Ends(X) # {}
      <4>1. w.until = Min(Ends(X)) /\ w.until # None
        BY <1>1, <1>2, <2>2, <3>2
      <4>2. \A i \in Ends(X) : i \in Int /\ w.until <= i
        BY <1>2, <2>2, <3>2, <4>1
      <4>3. w.until \in Ends(X) /\ w.until \in Int
        BY <1>2, <2>2, <3>2, <4>1
      <4>. QED  BY <2>2, <4>1, <4>2, <4>3
    <3>. QED  BY <3>1, <3>2
  <2>5. (\A i \in Starts(X) : i <= at) <=> /\ x.from # None => x.from <= at
                                           /\ y.from # None => y.from <= at
    BY DEF Starts
  <2>6. (\A i \in Ends(X) : at < i) <=> /\ x.until # None => at < x.until
                                        /\ y.until # None => at < y.until
    BY DEF Ends
  <2>7. /\ <<at, where>> \in Cells(w) <=> /\ MatchesContext(w.context, where)
                                          /\ w.from # None => w.from <= at
                                          /\ w.until # None => at < w.until
        /\ <<at, where>> \in Cells(x) <=> /\ MatchesContext(x.context, where)
                                          /\ x.from # None => x.from <= at
                                          /\ x.until # None => at < x.until
        /\ <<at, where>> \in Cells(y) <=> /\ MatchesContext(y.context, where)
                                          /\ y.from # None => y.from <= at
                                          /\ y.until # None => at < y.until
    BY <1>4, CellFacts
  <2>. QED  BY <2>1, <2>3, <2>4, <2>5, <2>6, <2>7
<1>. QED  BY <1>4, CellsAre DEF Together, w

(* Shapes are an aggregate exactly when nowhere all of them hold.          *)
LEMMA AggregateIsApart ==
  ASSUME NEW X \in SUBSET Shape
  PROVE  HasAggregateApplicability(X)
           <=> \A m \in Moments \X Situations : \E x \in X : m \notin Cells(x)
<1>1. ASSUME HasAggregateApplicability(X), NEW at \in Moments, NEW where \in Situations,
             \A x \in X : <<at, where>> \in Cells(x)
      PROVE  FALSE
  <2>1. /\ \A x, y \in X : ContextsOverlap(x, y)
        /\ \A i \in Starts(X) : i <= at
        /\ \A i \in Ends(X) : at < i
    BY <1>1, CellsMeet
  <2>2. Starts(X) # {} /\ Ends(X) # {} /\ Max(Starts(X)) >= Min(Ends(X))
    BY <1>1, <2>1 DEF HasAggregateApplicability
  <2>3. /\ Max(Starts(X)) \in Starts(X) /\ Min(Ends(X)) \in Ends(X)
        /\ Starts(X) \subseteq Instant /\ Ends(X) \subseteq Instant
    BY <2>2, BoundFacts
  <2>4. Max(Starts(X)) \in Int /\ Min(Ends(X)) \in Int /\ at \in Int
    BY <2>3, MomentFacts, DetectionAssumption
  <2>5. Max(Starts(X)) <= at /\ at < Min(Ends(X))
    BY <2>1, <2>3
  <2>. QED  BY <2>2, <2>4, <2>5
<1>2. ASSUME ~ HasAggregateApplicability(X)
      PROVE  \E at \in Moments, where \in Situations : \A x \in X : <<at, where>> \in Cells(x)
  <2>1. \A x, y \in X : ContextsOverlap(x, y)
    BY <1>2 DEF HasAggregateApplicability
  <2>2. Starts(X) # {} /\ Ends(X) # {} => Max(Starts(X)) < Min(Ends(X))
    <3>1. Starts(X) # {} /\ Ends(X) # {} => ~ (Max(Starts(X)) >= Min(Ends(X)))
      BY <1>2 DEF HasAggregateApplicability
    <3>2. Starts(X) # {} /\ Ends(X) # {} => Max(Starts(X)) \in Int /\ Min(Ends(X)) \in Int
      BY BoundFacts, DetectionAssumption
    <3>. QED  BY <3>1, <3>2
  <2>. QED  BY <2>1, <2>2, CommonCell
<1>3. \A m \in Moments \X Situations : \E at \in Moments, where \in Situations : m = <<at, where>>
  OBVIOUS
<1>4. ASSUME HasAggregateApplicability(X), NEW m \in Moments \X Situations
      PROVE  \E x \in X : m \notin Cells(x)
  BY <1>1, <1>3, <1>4
<1>5. ASSUME ~ HasAggregateApplicability(X)
      PROVE  \E m \in Moments \X Situations : \A x \in X : m \in Cells(x)
  <2>1. PICK at \in Moments, where \in Situations : \A x \in X : <<at, where>> \in Cells(x)
    BY <1>2, <1>5
  <2>2. <<at, where>> \in Moments \X Situations
    OBVIOUS
  <2>. QED  BY <2>1, <2>2
<1>. QED  BY <1>4, <1>5

(* Two claims are compared exactly when there is an instant at which, and  *)
(* a situation in which, both apply, and the witness is where they do:     *)
(* claims_overlap and _overlap_witness, for any shapes.                    *)
THEOREM OverlapsJudgedRightly == Misjudged = {}
<1>1. ASSUME NEW x \in Shape, NEW y \in Shape
      PROVE  ~ (\/ Overlap(x, y) # (Together(x, y) # {})
                \/ Overlap(x, y) /\ Together(x, y) # Cells(OverlapWitness(x, y)))
  <2>1. Overlap(x, y) \in BOOLEAN
    BY DEF Overlap, ContextsOverlap
  <2>. QED  BY <1>1, <2>1, OverlapIsTogether, WitnessIsTogether
<1>2. ASSUME NEW xy \in {<<x, y>> : x, y \in Shape}
      PROVE  xy[1] \in Shape /\ xy[2] \in Shape
  BY <1>2
<1>. QED  BY <1>1, <1>2 DEF Misjudged

(* A conflict is marked aggregate exactly when its candidates never all    *)
(* apply at once: _has_aggregate_applicability, for any shapes.            *)
THEOREM AggregatesAnnotatedRightly == Misannotated = {}
<1>. DEFINE NeverAll(X) == \A m \in Moments \X Situations : \E x \in X : m \notin Cells(x)
            Candidates3 == {{x, y, z} : x, y, z \in {w \in Shape : ~ EmptyInterval(w)}}
<1>1. Misannotated = {X \in Candidates3 : HasAggregateApplicability(X) # NeverAll(X)}
  BY DEF Misannotated
<1>2. ASSUME NEW X \in Candidates3
      PROVE  HasAggregateApplicability(X) = NeverAll(X)
  <2>1. X \in SUBSET Shape
    BY <1>2
  <2>2. HasAggregateApplicability(X) \in BOOLEAN /\ NeverAll(X) \in BOOLEAN
    BY DEF HasAggregateApplicability
  <2>3. HasAggregateApplicability(X) <=> NeverAll(X)
    BY <2>1, AggregateIsApart
  <2>. HIDE DEF NeverAll
  <2>. QED  BY <2>2, <2>3
<1>. HIDE DEF NeverAll, Candidates3
<1>. QED  BY <1>1, <1>2

=================================================================================
