------------------------------- MODULE Resolvers -------------------------------
(***************************************************************************)
(* resolver.py and resolution_policy.py: who suggests a winner.  The two   *)
(* heuristics compare scores of the candidates lexicographically; the      *)
(* ordering policies select only under what the caller asserts.            *)
(*                                                                         *)
(* For the checks a candidate is told apart by the text of its value, its  *)
(* score or its write; ids break ties.                                     *)
(***************************************************************************)
EXTENDS Views

CONSTANTS
  EvidenceRank,  \* how good an evidence is, its source known or not: quality,
                 \* type of source, freshness, trust
  OwnScore,      \* a claim's confidence, time, number of evidence and preference
  ClaimId,       \* the place of a claim's id among all ids
  TextOf,        \* str(claim.value): values apart may read alike, as 1 and "1"
  SupersededAt,  \* when a retraction says that a claim supersedes another one
  Margin,        \* the margins of confidence, time and evidence count
  WriteOf,       \* the branch, time and clock of a claim, for the policies
  Contender,     \* candidates without an id, and clocks, that the checks try
  Clock

(* _vector_clock: finitely many replicas, with natural numbers.            *)
Counts(clock) == IsFiniteSet(DOMAIN clock) /\ clock \in [DOMAIN clock -> Nat]

(* Scores are tuples of numbers of equal length, ids and writes tell       *)
(* claims apart, and clocks count.  Nothing is assumed of texts.           *)
ASSUME ResolverAssumption ==
  /\ EvidenceRank \in [BOOLEAN -> [Evidence -> [1 .. 4 -> Int]]]
  /\ OwnScore \in [Claim -> [1 .. 4 -> Int]]
  /\ ClaimId \in [Claim -> Int] /\ \A c, d \in Claim : ClaimId[c] = ClaimId[d] => c = d
  /\ \A o \in DOMAIN SupersededAt : SupersededAt[o][2] \in Int
  /\ DOMAIN TextOf = Claim
  /\ DOMAIN WriteOf = Claim /\ \A c, d \in Claim : WriteOf[c] = WriteOf[d] => c = d
  /\ \A c \in Claim : WriteOf[c] # None /\ Counts(WriteOf[c].clock)
  /\ \A t \in Clock : Counts(t)
  /\ \A x \in Contender : x.rank \in Seq(Int) /\ x.own \in [1 .. 4 -> Int]
  /\ \A x, y \in Contender : Len(x.rank) = Len(y.rank)

(* Lexicographic order of tuples of equal length.                          *)
Lower(x, y) ==
  \E i \in DOMAIN x : x[i] < y[i] /\ \A j \in 1 .. (i - 1) : x[j] = y[j]

(* _evidence_rankings: each rank is the best over the claim's evidence.    *)
EvidenceRankings(s, c) ==
  [i \in 1 .. 4 |->
     Max({0} \cup {EvidenceRank[SourceOf[e] \in s.sources][e][i] : e \in EvidenceOf[c] \cap s.evidence})]

(* _latest_supersede_epoch: of the retractions that name it as superseder. *)
SupersedeRank(ops, c) ==
  LET times == {SupersededAt[o][2] : o \in {q \in Of(ops, "retraction") :
                  q \in DOMAIN SupersededAt /\ SupersededAt[q][1] = c}}
  IN IF times = {} THEN <<0, -1>> ELSE <<1, Max(times)>>

(* _score_claim: the first six components, then the claim's own four.      *)
Score(s, ops, c) ==
  [rank |-> SupersedeRank(ops, c) \o EvidenceRankings(s, c), own |-> OwnScore[c]]

(* What the heuristics decline: anything but a direct conflict over one    *)
(* key, of the epistemic class, whose candidates can all apply at once.    *)
Handles(who) ==
  /\ who # {}
  /\ ConflictClass(who) = "epistemic"
  /\ ~ HasAggregateApplicability({ShapeOf[c] : c \in who})

-------------------------------------------------------------------------------
(* The choices among scored candidates [text, rank, own, id].              *)
Beats(x, y) == Lower(y.rank \o y.own, x.rank \o x.own)

Equals(x, y) == x.rank = y.rank /\ x.own = y.own

Top(X) == {x \in X : \A y \in X : ~ Beats(y, x)}

(* HeuristicResolver.resolve: the first id among the best scores.          *)
Heuristic(X) == CHOOSE x \in Top(X) : \A y \in Top(X) : x.id <= y.id

(* Nothing selected.                                                       *)
Abstained == None

Within(x, y, i) == (x.own[i] - y.own[i]) \in (- Margin[i]) .. Margin[i]

(* _is_close_competitor.                                                   *)
Close(x, y) ==
  /\ x.rank = y.rank
  /\ \A i \in 1 .. 3 : Within(x, y, i)
  /\ x.own[4] = y.own[4]

(* The best score, or the last id among equals, and the next of another    *)
(* text after it.                                                          *)
Above(x, y) == Beats(x, y) \/ (Equals(x, y) /\ x.id > y.id)

First(X) == CHOOSE x \in X : \A y \in X \ {x} : Above(x, y)

RunnerUp(X) == LET best == First(X)
               IN First({x \in X : x.text # best.text})

(* ConservativeHeuristicResolver.resolve.  A bug it could have: ties of    *)
(* the best score are left to the ids.                                     *)
ConservativeByIds(X) ==
  IF /\ \E x \in X : x.text # First(X).text
     /\ Close(First(X), RunnerUp(X)) /\ ~ Equals(First(X), RunnerUp(X))
  THEN Abstained
  ELSE First(X)

Conservative(X) ==
  IF \/ \E x, y \in Top(X) : x.text # y.text
     \/ /\ \E x \in X : x.text # First(X).text
        /\ Close(First(X), RunnerUp(X))
  THEN Abstained
  ELSE First(X)

(* The verdict of a heuristic on the candidates of a state's conflict.     *)
Scored(s, ops, who) ==
  {LET score == Score(s, ops, c)
   IN [text |-> TextOf[c], id |-> ClaimId[c], rank |-> score.rank, own |-> score.own]
   : c \in who}

HeuristicVerdict(s, ops, who) ==
  IF Handles(who)
  THEN CHOOSE c \in who : ClaimId[c] = Heuristic(Scored(s, ops, who)).id
  ELSE None

ConservativeVerdict(s, ops, who) ==
  LET x == Conservative(Scored(s, ops, who))
  IN IF Handles(who) /\ x # Abstained THEN CHOOSE c \in who : ClaimId[c] = x.id ELSE None

-------------------------------------------------------------------------------
(* Writes [time, branch, clock] and all that a caller may assert of them.  *)
Sure == [replacement |-> TRUE, timestamps |-> TRUE, causality |-> TRUE, concurrent |-> FALSE]

(* DIRECT_CONFLICT_TYPE, and the types both policies accept by default.    *)
Direct == "same_key_distinct_value"

AcceptedTypes == {Direct}

(* LatestWriteWinsResolver.resolve.                                        *)
LatestWriteWins(type, writes, asserted) ==
  IF /\ type \in AcceptedTypes
     /\ asserted.replacement /\ asserted.timestamps /\ asserted.concurrent = FALSE
     /\ Cardinality(writes) > 1
     /\ \A x \in writes : x.branch # None /\ x.time # None
     /\ \A x, y \in writes : x.branch = y.branch /\ (x.time = y.time => x = y)
  THEN CHOOSE x \in writes : \A y \in writes : y.time <= x.time
  ELSE Abstained

(* _dominates: an absent replica counts as zero.  A bug it could have:     *)
(* only the replicas that both clocks name are compared.                   *)
Ticks(clock, p) == IF p \in DOMAIN clock THEN clock[p] ELSE 0

DominatesOnCommon(x, y) ==
  LET common == DOMAIN x \cap DOMAIN y
  IN /\ \A p \in common : x[p] >= y[p]
     /\ \E p \in common : x[p] > y[p]

Dominates(x, y) ==
  /\ \A p \in DOMAIN x \cup DOMAIN y : Ticks(x, p) >= Ticks(y, p)
  /\ \E p \in DOMAIN x \cup DOMAIN y : Ticks(x, p) > Ticks(y, p)

(* CausalResolver.resolve: the unique write that no other one dominates.   *)
Maximal(writes) == {x \in writes : \A y \in writes : ~ Dominates(y.clock, x.clock)}

Causal(type, writes, asserted) ==
  IF /\ type \in AcceptedTypes
     /\ asserted.replacement /\ asserted.causality
     /\ Cardinality(writes) > 1
     /\ \A x \in writes : DOMAIN x.clock # {}
     /\ Cardinality(Maximal(writes)) = 1
  THEN CHOOSE x \in Maximal(writes) : TRUE
  ELSE Abstained

(* ResolverRegistry.resolve: a type without a route is preserved.          *)
Routed(routes, type, writes, asserted) ==
  CASE type \notin DOMAIN routes -> Abstained
    [] type \in DOMAIN routes /\ routes[type] = "latest_write_wins" -> LatestWriteWins(type, writes, asserted)
    [] type \in DOMAIN routes /\ routes[type] = "causal" -> Causal(type, writes, asserted)
    [] OTHER -> Abstained

-------------------------------------------------------------------------------
(* Two or three of a kind.                                                 *)
Lists(X) == {<<x, y>> : x, y \in X} \cup {<<x, y, z>> : x, y, z \in X}

Orders(t) == {o \in [DOMAIN t -> DOMAIN t] : \A i, l \in DOMAIN t : o[i] = o[l] => i = l}

Numbered(t, o) ==
  {[id |-> o[i], text |-> t[i].text, rank |-> t[i].rank, own |-> t[i].own] : i \in DOMAIN t}

(* A selected text that another order of the ids would not have selected.  *)
Lucky ==
  {t \in Lists(Contender) :
     LET x == Conservative(Numbered(t, [i \in DOMAIN t |-> i]))
     IN x # Abstained /\ \E o \in Orders(t) : Heuristic(Numbered(t, o)).text # x.text}

Total(clock) == Cardinality(UNION {{p} \X (1 .. clock[p]) : p \in DOMAIN clock})

Written(t) ==
  {[id |-> i, branch |-> 1, time |-> Total(t[i]), clock |-> t[i]] : i \in DOMAIN t}

(* A write is not the absence of one.                                      *)
ASSUME NoWriteIsNone == \A t \in Lists(Clock) : None \notin Written(t)

DominatesAll(x, writes) == \A y \in writes \ {x} : Dominates(x.clock, y.clock)

Misordered ==
  {t \in Lists(Clock \ {<<>>}) :
     LET writes == Written(t)
         x == Routed([type \in {Direct} |-> "causal"], Direct, writes, Sure)
         latest == LatestWriteWins(Direct, writes, Sure)
     IN \/ {x} \ {Abstained} # {y \in writes : DominatesAll(y, writes)}
        \/ x # Abstained /\ latest # Abstained /\ x # latest}
================================================================================
