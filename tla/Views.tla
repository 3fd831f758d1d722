--------------------------------- MODULE Views ---------------------------------
(***************************************************************************)
(* view.py: what an agent is shown of a materialised state.  A key without *)
(* a conflict shows its best claim, or all of them when they are           *)
(* compatible; a conflict shows what a committed resolution selected, or   *)
(* else what a resolver suggests, and stays listed as unresolved until     *)
(* there is a committed resolution.  Findings of custom detectors, which   *)
(* may span keys, can only take claims away.                               *)
(***************************************************************************)
EXTENDS Detection

CONSTANTS
  Rank,          \* the order of claims by confidence, time, evidence and id
  Finding        \* what custom detectors may report: a conflict_ref and its candidates

ASSUME ViewsAssumption ==
  /\ Rank \in [Claim -> Nat]
  /\ \A c, d \in Claim : Rank[c] = Rank[d] => c = d
  /\ \A f \in Finding : f.ref \notin Key /\ f.who \subseteq Claim
  /\ \A f, h \in Finding : f.ref = h.ref => f = h   \* a detector that reports both is refused

(* _deterministic_claim_choice.                                            *)
BestClaim(claims) == CHOOSE c \in claims : \A d \in claims : Rank[d] <= Rank[c]

(* _resolution_lane: the lane of the scope once anything happened in it,   *)
(* the unscoped one before.  A bug it could have: only resolutions count,  *)
(* and an event that reopens the lane does not.                            *)
ResolutionLaneByResolution(s, ref, scope) ==
  IF Timeline(<<ref, scope>>, s.resolutions, {}) # {} THEN <<ref, scope>> ELSE <<ref, None>>

ResolutionLane(s, ref, scope) ==
  IF Timeline(<<ref, scope>>, s.resolutions, s.events) # {} THEN <<ref, scope>> ELSE <<ref, None>>

(* What the state of a lane means for the candidates.                      *)
ChoiceIn(st, who) ==
  LET picks == st.effective /\ st.chosen.outcome # "preserve"
  IN [applied |-> st.effective,
      by |-> st.chosen,
      claim |-> IF picks THEN CHOOSE c \in who \cap st.chosen.selected : TRUE ELSE None,
      noted |-> st.status = "deferred" \/ (st.chosen # None /\ st.status = "reopened")]

(* _committed_choice: whether a resolution decides the conflict, what it   *)
(* selects, and whether there is something to say of one that does not.    *)
(* A bug it could have: a resolution that no longer covers the candidates  *)
(* decides as long as one selected candidate is left.                      *)
CommittedChoiceStale(s, ref, who, scope) ==
  LET st == LaneState(ResolutionLane(s, ref, scope), s.resolutions, s.events, who)
      picked == IF st.chosen = None THEN {} ELSE who \cap st.chosen.selected
  IN [applied |-> st.effective \/ Cardinality(picked) = 1,
      by |-> st.chosen,
      claim |-> IF picked = {} THEN None ELSE CHOOSE c \in picked : TRUE,
      noted |-> st.status = "deferred" \/ (st.chosen # None /\ st.status = "reopened")]

CommittedChoice(s, ref, who, scope) ==
  ChoiceIn(LaneState(ResolutionLane(s, ref, scope), s.resolutions, s.events, who), who)

Shown(basis, selected, provisional, alternatives) ==
  [basis |-> basis, selected |-> selected, provisional |-> provisional,
   alternatives |-> alternatives]

(* build_view's loop over the keys; verdict is what the resolver says.     *)
KeyView(s, k, scope, verdict) ==
  LET active == s.active[k]
      who == s.conflict[k].who
      committed == CommittedChoice(s, k, who, scope)
  IN CASE active = {} -> Shown(None, None, None, {})
       [] active # {} /\ who = {} /\ \A c, d \in active : ValuesEqual(s.rev, c, d) ->
            Shown("deterministic", BestClaim(active), None, {})
       [] who = {} /\ \E c, d \in active : ~ ValuesEqual(s.rev, c, d) ->
            Shown("abstained", None, None, active)
       [] who # {} /\ committed.applied ->
            Shown("committed", committed.claim, None, active \ who)
       [] who # {} /\ ~ committed.applied /\ (committed.noted \/ verdict[k] \notin who) ->
            Shown("abstained", None, None, active \ who)
       [] OTHER -> Shown("provisional", None, verdict[k], active \ who)

(* Its loop over the findings of custom detectors, reported while all of   *)
(* their candidates are active: what a committed resolution of one rejects *)
(* is taken away wherever it is shown.                                     *)
Reported(s) == {f \in s.findings : f.who \subseteq UNION {s.active[k] : k \in Key}}

Excluded(s, scope) ==
  UNION {LET committed == CommittedChoice(s, f.ref, f.who, scope)
         IN IF committed.claim = None THEN {} ELSE f.who \cap committed.by.rejected
         : f \in Reported(s)}

(* The last alternative left is promoted, in place of whatever was         *)
(* selected before, and may be taken away in its turn.  A bug it could     *)
(* have: alternatives are left as they are.                                *)
Left(v, out, left) ==
  LET promoted == Cardinality(v.alternatives) > 1 /\ Cardinality(left) <= 1
      kept(c) == IF c \in out THEN None ELSE c
      last == IF left = {} THEN None ELSE CHOOSE c \in left : TRUE
      selected == IF promoted THEN last ELSE kept(v.selected)
      provisional == kept(v.provisional)
      touched == promoted \/ selected # v.selected \/ provisional # v.provisional
  IN Shown(IF touched THEN "committed" ELSE v.basis, selected, provisional,
           IF promoted THEN {} ELSE left)

AfterExclusionButAlternatives(v, out) == Left(v, out, v.alternatives)

AfterExclusion(v, out) == Left(v, out, v.alternatives \ out)

(* What may be open: the conflicts of the keys and the reported findings,  *)
(* by what they are called, with their candidates.                         *)
Refs == Key \cup {f.ref : f \in Finding}

CandidatesOf(s) ==
  [ref \in Refs |-> IF ref \in Key THEN s.conflict[ref].who
                    ELSE UNION {f.who : f \in {g \in Reported(s) : g.ref = ref}}]

BuildView(s, scope, verdict) ==
  LET who == CandidatesOf(s)
      committed == [ref \in Refs |-> CommittedChoice(s, ref, who[ref], scope)]
  IN [who |-> who,
      by |-> [ref \in Refs |-> IF committed[ref].applied THEN committed[ref].by ELSE None],
      key |-> [k \in Key |-> AfterExclusion(KeyView(s, k, scope, verdict), Excluded(s, scope))],
      unresolved |-> {ref \in Refs : who[ref] # {} /\ ~ committed[ref].applied}]

NoVerdict == [k \in Key |-> None]

(* The state that a view is built of: Full with what detectors report.     *)
StateOf(ops, rev, findings) ==
  LET s == Full(ops, rev)
  IN [rev |-> rev, findings |-> findings, active |-> s.active,
      evidence |-> s.evidence, sources |-> s.sources, conflict |-> s.conflict,
      resolutions |-> s.resolutions, events |-> s.events, lane |-> s.lane]

(* find_conflicts with a status, under a scope.                            *)
StatusUnder(s, k, scope) ==
  LET lane == IF s.lane[<<k, scope>>].status # None THEN <<k, scope>> ELSE <<k, None>>
  IN StatusOf(s, lane, "open")
===============================================================================
