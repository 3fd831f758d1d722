------------------------------ MODULE Materialize ------------------------------
(***************************************************************************)
(* materialize.py with the direct conflicts of conflict.py: the state that *)
(* a set of operations folds to, and the same state kept up to date one    *)
(* batch of operations at a time, with the delta it reports; and the       *)
(* retrieval records that integrations/projection.py derives from either.  *)
(*                                                                         *)
(* A conflict is told apart by its candidates (its conflict_id hashes      *)
(* them), a conflict_ref is its key.  Values, contexts and validity        *)
(* intervals matter through Apart, the pairs of claims that exclude each   *)
(* other under a revision of the predicate registry.                       *)
(***************************************************************************)
EXTENDS Naturals, FiniteSets, SequencesExt

CONSTANTS
  Claim, Key, Evidence, Source,
  None,          \* no target, no resolution, the unscoped lane
  Scope,         \* scopes of resolutions, None among them
  Revision,      \* revisions of the predicate registry
  KeyOf,         \* the key of a claim
  RefOf,         \* the claim_ref of a claim under a revision
  EvidenceOf,    \* the evidence a claim cites
  SourceOf,      \* the source of an evidence
  Apart,         \* the incompatible pairs of claims under a revision
  Op             \* the operations

ASSUME MaterializeAssumption ==
  /\ None \in Scope
  /\ KeyOf \in [Claim -> Key]
  /\ EvidenceOf \in [Claim -> SUBSET Evidence]
  /\ SourceOf \in [Evidence -> Source]
  /\ \A r \in Revision : \A p \in Apart[r] :
       \E c, d \in Claim : p = {c, d} /\ c # d /\ KeyOf[c] = KeyOf[d]

Lane == Key \X Scope

Classified(r) == r.selected \cup r.rejected \cup r.retained

-------------------------------------------------------------------------------
(* Lifecycle: _fold_lifecycle *)

(* The order of a lane's timeline is by timestamp, then resolutions before *)
(* events, then id: `at` is an item's place in it.  Every item sets the    *)
(* lane's resolution and status anew, so the last one decides.             *)
Timeline(lane, resolutions, events) ==
  {x \in resolutions \cup events : x.lane = lane}

ByResolution(r) ==
  [chosen |-> r, status |-> IF r.outcome = "abstain" THEN "deferred" ELSE "resolved"]

(* An event that resolves does so with the resolution it cites, when that  *)
(* one is of the same lane and observed the same conflict.                 *)
ByEvent(e, resolutions) ==
  LET cited == {r \in resolutions : r.id = e.resolution /\ r.lane = e.lane /\ r.seen = e.seen}
  IN CASE e.status # "resolved" -> [chosen |-> None, status |-> e.status]
       [] e.status = "resolved" /\ cited = {} -> [chosen |-> None, status |-> "open"]
       [] OTHER -> ByResolution(CHOOSE r \in cited : TRUE)

Standing(lane, resolutions, events) ==
  LET items == Timeline(lane, resolutions, events)
      last == CHOOSE x \in items : \A y \in items : y.at <= x.at
  IN CASE items = {} -> [chosen |-> None, status |-> None]
       [] items # {} /\ last.kind = "resolution" -> ByResolution(last)
       [] OTHER -> ByEvent(last, resolutions)

(* A resolution speaks of the current candidates when it classified all of *)
(* them and is of the conflict it says it observed.  A bug it could have:  *)
(* only the very conflict it observed is covered.                          *)
CoversExactly(r, who) == r.seen = Classified(r) /\ who = Classified(r)

Covers(r, who) == r.seen = Classified(r) /\ who \subseteq Classified(r)

Settles(r, who) ==
  /\ Covers(r, who)
  /\ \/ /\ r.outcome = "preserve"
        /\ r.selected = {} /\ r.rejected = {} /\ who \subseteq r.retained
     \/ /\ r.outcome \in {"select", "replace", "merge"}
        /\ Cardinality(who \cap r.selected) = 1

LaneState(lane, resolutions, events, who) ==
  LET st == Standing(lane, resolutions, events)
      r == st.chosen
  IN CASE who = {} -> [chosen |-> r, status |-> st.status, effective |-> FALSE]
       [] who # {} /\ r = None ->
            [chosen |-> r, effective |-> FALSE,
             status |-> IF st.status = None /\ lane[2] = None THEN "open" ELSE st.status]
       [] who # {} /\ r # None /\ r.outcome = "abstain" ->
            [chosen |-> r, effective |-> FALSE,
             status |-> IF Covers(r, who) THEN "deferred" ELSE "reopened"]
       [] OTHER ->
            [chosen |-> r, effective |-> Settles(r, who),
             status |-> IF Settles(r, who) THEN "resolved" ELSE "reopened"]

-------------------------------------------------------------------------------
(* The full fold: materialize *)

Of(ops, kind) == {o \in ops : o.kind = kind}

(* _annotations_for: the sources behind a conflict's candidates.           *)
Provenance(who, evidence, sources) ==
  {SourceOf[e] : e \in evidence \cap UNION {EvidenceOf[c] : c \in who}} \cap sources

Conflict(pairs, evidence, sources) ==
  [who |-> UNION pairs, sources |-> Provenance(UNION pairs, evidence, sources)]

Lanes(resolutions, events, conflict) ==
  [l \in Lane |-> LaneState(l, resolutions, events, conflict[l[1]].who)]

Full(ops, rev) ==
  LET claims == {o.claim : o \in Of(ops, "claim")}
      byId == {o.target : o \in Of(ops, "retraction")} \ {None}
      byRef == {o.ref : o \in Of(ops, "retraction")} \ {None}
      inactive == byId \cup {c \in claims : RefOf[rev][c] \in byRef}
      active == [k \in Key |-> {c \in claims \ inactive : KeyOf[c] = k}]
      pairs == [k \in Key |-> {p \in Apart[rev] : p \subseteq active[k]}]
      evidence == {o.evidence : o \in Of(ops, "evidence")}
      sources == {o.source : o \in Of(ops, "source")}
      conflict == [k \in Key |-> Conflict(pairs[k], evidence, sources)]
      resolutions == Of(ops, "resolution")
      events == Of(ops, "event")
  IN [claims |-> claims, byId |-> byId, byRef |-> byRef, inactive |-> inactive,
      active |-> active, pairs |-> pairs, evidence |-> evidence, sources |-> sources,
      conflict |-> conflict, resolutions |-> resolutions, events |-> events,
      lane |-> Lanes(resolutions, events, conflict)]

-------------------------------------------------------------------------------
(* One batch at a time: apply_operations_incrementally *)

NoDelta == [claims |-> {}, conflicts |-> {}, keys |-> {}, refs |-> {}, resolutions |-> {}]

Citing(claims, evidence) == {c \in claims : EvidenceOf[c] \cap evidence # {}}

(* acc is the state so far and what the batch has affected so far.  A bug  *)
(* AddSource could have: the conflicts it is a provenance of stay as are.  *)
AddSourceQuietly(acc, s) == [acc EXCEPT !.state.sources = @ \cup {s}]

AddSource(acc, s) ==
  IF s \in acc.state.sources THEN acc
  ELSE [state |-> [acc.state EXCEPT !.sources = @ \cup {s}],
        delta |-> [acc.delta EXCEPT !.keys = @ \cup
          {KeyOf[c] : c \in Citing(acc.state.claims,
                                   {e \in acc.state.evidence : SourceOf[e] = s})}]]

AddEvidence(acc, e) ==
  IF e \in acc.state.evidence THEN acc
  ELSE [state |-> [acc.state EXCEPT !.evidence = @ \cup {e}],
        delta |-> [acc.delta EXCEPT !.keys = @ \cup
          {KeyOf[c] : c \in Citing(acc.state.claims, {e})}]]

NewClaim(acc, c, dead) ==
  IF c \in acc.state.claims THEN acc
  ELSE [state |-> [acc.state EXCEPT
          !.claims = @ \cup {c},
          !.inactive = @ \cup (IF dead THEN {c} ELSE {}),
          !.active[KeyOf[c]] = @ \cup (IF dead THEN {} ELSE {c})],
        delta |-> [acc.delta EXCEPT
          !.keys = @ \cup {KeyOf[c]},
          !.claims = @ \cup {c},
          !.resolutions = @ \cup {r.id : r \in {q \in acc.state.resolutions : c \in Classified(q)}}]]

(* A bug it could have: retractions by reference that came before the      *)
(* claim are not looked up.                                                *)
AddClaimByIdOnly(acc, rev, c) == NewClaim(acc, c, c \in acc.state.byId)

AddClaim(acc, rev, c) ==
  NewClaim(acc, c, c \in acc.state.byId \/ RefOf[rev][c] \in acc.state.byRef)

Retract(acc, rev, o) ==
  LET s == acc.state
      named == {o.target} \ {None}
      hit == {c \in s.claims : c = o.target \/ RefOf[rev][c] = o.ref}
  IN [state |-> [s EXCEPT
        !.byId = @ \cup named,
        !.byRef = @ \cup ({o.ref} \ {None}),
        !.inactive = @ \cup named \cup hit,
        !.active = [k \in Key |-> @[k] \ hit]],
      delta |-> [acc.delta EXCEPT
        !.keys = @ \cup {KeyOf[c] : c \in hit},
        !.claims = @ \cup named \cup hit]]

AddResolution(acc, r) ==
  IF r \in acc.state.resolutions THEN acc
  ELSE [state |-> [acc.state EXCEPT !.resolutions = @ \cup {r}],
        delta |-> [acc.delta EXCEPT !.refs = @ \cup {r.lane[1]},
                                    !.resolutions = @ \cup {r.id}]]

AddEvent(acc, e) ==
  IF e \in acc.state.events THEN acc
  ELSE [state |-> [acc.state EXCEPT !.events = @ \cup {e}],
        delta |-> [acc.delta EXCEPT !.refs = @ \cup {e.lane[1]}]]

ApplyOp(acc, rev, o) ==
  CASE o.kind = "source" -> AddSource(acc, o.source)
    [] o.kind = "evidence" -> AddEvidence(acc, o.evidence)
    [] o.kind = "claim" -> AddClaim(acc, rev, o.claim)
    [] o.kind = "retraction" -> Retract(acc, rev, o)
    [] o.kind = "resolution" -> AddResolution(acc, o)
    [] o.kind = "event" -> AddEvent(acc, o)

(* update_direct_conflict_index: drop the pairs of the claims that left,   *)
(* compare those that came with all the others.                            *)
Reindexed(pairs, before, after, rev) ==
  {p \in pairs : p \subseteq after}
    \cup {p \in Apart[rev] : p \subseteq after /\ ~ p \subseteq before}

(* The conflicts of the affected keys and the lanes of the affected refs   *)
(* are replaced; everything else is kept from the state before.            *)
ApplyBatch(old, rev, batch) ==
  LET acc == FoldLeft(LAMBDA a, o : ApplyOp(a, rev, o),
                      [state |-> old, delta |-> NoDelta], batch)
      s == acc.state
      dirty == acc.delta
      pairs == [k \in Key |-> IF k \in dirty.keys
                              THEN Reindexed(old.pairs[k], old.active[k], s.active[k], rev)
                              ELSE old.pairs[k]]
      conflict == [k \in Key |-> IF k \in dirty.keys
                                 THEN Conflict(pairs[k], s.evidence, s.sources)
                                 ELSE old.conflict[k]]
      found == ({old.conflict[k].who : k \in dirty.keys}
                  \cup {conflict[k].who : k \in dirty.keys}) \ {{}}
      refs == dirty.refs \cup {k \in dirty.keys : old.conflict[k].who # {} \/ conflict[k].who # {}}
  IN [state |-> [s EXCEPT
        !.pairs = pairs,
        !.conflict = conflict,
        !.lane = [l \in Lane |->
                    IF l[1] \in refs
                    THEN LaneState(l, s.resolutions, s.events, conflict[l[1]].who)
                    ELSE old.lane[l]]],
      delta |-> [dirty EXCEPT
        !.claims = @ \cup UNION found,
        !.conflicts = found,
        !.refs = refs,
        !.resolutions = @ \cup {r.id : r \in {q \in s.resolutions : q.lane[1] \in refs}}]]

CombinedDelta(deltas) ==
  [f \in DOMAIN NoDelta |-> UNION {deltas[i][f] : i \in DOMAIN deltas}]

-------------------------------------------------------------------------------
(* Retrieval records: project_state and project_state_delta *)

(* A record is its projection id with what its text and metadata tell.     *)
ClaimRecord(s, c) ==
  <<<<"claim", c>>, {w \in {s.conflict[KeyOf[c]].who} : c \in w}>>

StatusOf(s, lane, default) == IF s.lane[lane].status = None THEN default ELSE s.lane[lane].status

ConflictRecord(s, k) ==
  <<<<"conflict", s.conflict[k].who>>,
    <<s.conflict[k].sources, StatusOf(s, <<k, None>>, "open")>>>>

ResolutionRecord(s, r) ==
  <<<<"resolution", r.id>>, StatusOf(s, r.lane, "resolved")>>

InConflict(s) == {k \in Key : s.conflict[k].who # {}}

Retrievable(s) == {r \in s.resolutions : Classified(r) \cap s.claims # {}}

Project(s) ==
  {ClaimRecord(s, c) : c \in s.claims \ s.inactive}
    \cup {ConflictRecord(s, k) : k \in InConflict(s)}
    \cup {ResolutionRecord(s, r) : r \in Retrievable(s)}

ProjectUpserts(s, d) ==
  {ClaimRecord(s, c) : c \in (d.claims \cap s.claims) \ s.inactive}
    \cup {ConflictRecord(s, k) : k \in
            {j \in InConflict(s) : s.conflict[j].who \in d.conflicts \/ j \in d.refs}}
    \cup {ResolutionRecord(s, r) : r \in {q \in Retrievable(s) : q.id \in d.resolutions}}

ProjectDeletes(s, d) ==
  {<<"claim", c>> : c \in d.claims \cap s.claims \cap s.inactive}
    \cup {<<"conflict", w>> : w \in d.conflicts \ {s.conflict[k].who : k \in Key}}

(* What a consumer of the records has after taking in one delta.           *)
Updated(shown, s, d) ==
  LET upserts == ProjectUpserts(s, d)
      gone == {u[1] : u \in upserts} \cup ProjectDeletes(s, d)
  IN {x \in shown : x[1] \notin gone} \cup upserts
===============================================================================
