--------------------------- MODULE MCMaterialization ---------------------------
(* Instances of MaterializationCache: three claims under one key, the last *)
(* two of the same content, that exclude the first one until the predicate *)
(* is registered as multi-valued, with a comparison of values under which  *)
(* it is the first and the last that are of the same content.              *)
EXTENDS MaterializationCache, TLC

CONSTANTS a, b, c, k, e, origin, r1, r2, scoped

Global == <<k, None>>
Scoped == <<k, scoped>>

Refs == a :> r1 @@ b :> r2 @@ c :> r2
Cites == a :> {e} @@ b :> {} @@ c :> {}

Added(x) == [kind |-> "claim", claim |-> x]
Retracted(x) == [kind |-> "retraction", target |-> x, ref |-> None]
RetractedRef(x) == [kind |-> "retraction", target |-> None, ref |-> x]

Chooses(id, lane, x, losers, at) ==
  [kind |-> "resolution", id |-> id, lane |-> lane, seen |-> {x} \cup losers, outcome |-> "select",
   selected |-> {x}, rejected |-> losers, retained |-> {}, at |-> at]

Keeps(id, lane, all, at) ==
  [kind |-> "resolution", id |-> id, lane |-> lane, seen |-> all, outcome |-> "preserve",
   selected |-> {}, rejected |-> {}, retained |-> all, at |-> at]

Reopens(id, lane, who, at) ==
  [kind |-> "event", id |-> id, lane |-> lane, seen |-> who, status |-> "reopened",
   resolution |-> None, at |-> at]

Resolves(id, lane, who, resolution, at) ==
  [kind |-> "event", id |-> id, lane |-> lane, seen |-> who, status |-> "resolved",
   resolution |-> resolution, at |-> at]

Cited == [kind |-> "evidence", evidence |-> e]
Choice == Chooses("choice", Global, a, {b, c}, 1)

Operations ==
  {Added(a), Added(b), Added(c), Retracted(b), RetractedRef(r2),
   Cited, [kind |-> "source", source |-> origin],
   Choice, Keeps("peace", Scoped, {a, b}, 1),
   Reopens("reopening", Global, {a, b}, 2),
   Resolves("closing", Global, {a, b, c}, "choice", 3)}

OnlyKey == {k}
Keys == [x \in {a, b, c} |-> k]
Sources == e :> origin
RefsOf == [r \in {0, 1} |-> IF r = 0 THEN Refs ELSE a :> r2 @@ b :> r1 @@ c :> r2]
Pairs == <<{{a, b}, {a, c}}, {}>>
PairsOf == [r \in {0, 1} |-> Pairs[r + 1]]
Scopes == {None, scoped}
Revisions == {0, 1}
Claims == {a, b, c}

(* What the store may hold at first: a conflict with a cited evidence, or  *)
(* a resolution and a retraction that came before what they are about.     *)
Beginnings ==
  {<<Added(a), Added(b), Cited>>, <<Choice, RetractedRef(r2), Added(a)>>}
===============================================================================
