---------------------------- MODULE AgentViewProofs ----------------------------
(***************************************************************************)
(* What every view shows, for any memory, scope and answers of resolvers.  *)
(***************************************************************************)
EXTENDS AgentView, DetectionProofs, SequenceTheorems

-------------------------------------------------------------------------------
(* The state that a view is built of                                       *)

(* A finite set of operations that the constructors accept.                *)
OpsSound(ops) ==
  /\ IsFiniteSet(ops)
  /\ ops \subseteq Op \cup Decision
  /\ \A o \in Of(ops, "claim") : o.claim \in Claim
  /\ \A r \in Of(ops, "resolution") : ValidResolution(r) /\ r.at \in Nat
  /\ \A e \in Of(ops, "event") : ValidEvent(e) /\ e.at \in Nat

(* The active claims of a key are finitely many claims of that key, and    *)
(* the candidates of its conflict are among them.                          *)
LEMMA StateFacts ==
  ASSUME NEW ops, OpsSound(ops), NEW findings, NEW k \in Key
  PROVE  LET s == StateOf(ops, Registry, findings)
         IN /\ s.rev = Registry /\ s.findings = findings
            /\ s.resolutions = Of(ops, "resolution") /\ s.events = Of(ops, "event")
            /\ s.active[k] \subseteq Claim /\ IsFiniteSet(s.active[k])
            /\ \A c \in s.active[k] : KeyOf[c] = k
            /\ s.conflict[k].who = UNION {p \in Apart[Registry] : p \subseteq s.active[k]}
            /\ s.conflict[k].who \subseteq s.active[k]
            /\ \A scope \in Scope :
                 s.lane[<<k, scope>>]
                   = LaneState(<<k, scope>>, s.resolutions, s.events, s.conflict[k].who)
<1>. DEFINE s == StateOf(ops, Registry, findings)
            claims == {o.claim : o \in Of(ops, "claim")}
            active == s.active
<1>1. claims \subseteq Claim
  BY DEF OpsSound
<1>2. IsFiniteSet(claims)
  <2>. DEFINE f == [o \in Of(ops, "claim") |-> o.claim]
  <2>1. IsFiniteSet(Of(ops, "claim"))
    BY FS_Subset DEF OpsSound, Of
  <2>2. f \in Surjection(Of(ops, "claim"), claims)
    BY DEF Surjection
  <2>. QED  BY <2>1, <2>2, FS_Surjection
<1>3. /\ active[k] \subseteq {c \in claims : KeyOf[c] = k}
      /\ s.conflict[k].who = UNION {p \in Apart[Registry] : p \subseteq active[k]}
      /\ s.resolutions = Of(ops, "resolution") /\ s.events = Of(ops, "event")
      /\ s.rev = Registry /\ s.findings = findings
  BY DEF StateOf, Full, Conflict
<1>4. ASSUME NEW scope \in Scope
      PROVE  s.lane[<<k, scope>>]
               = LaneState(<<k, scope>>, s.resolutions, s.events, s.conflict[k].who)
  <2>1. s.lane = Lanes(s.resolutions, s.events, s.conflict)
    BY DEF StateOf, Full
  <2>2. <<k, scope>> \in Lane /\ <<k, scope>>[1] = k
    BY DEF Lane
  <2>. HIDE DEF s
  <2>. QED  BY <2>1, <2>2 DEF Lanes
<1>5. IsFiniteSet({c \in claims : KeyOf[c] = k})
  BY <1>2, FS_Subset
<1>. HIDE DEF claims, s
<1>6. active[k] \subseteq Claim /\ IsFiniteSet(active[k]) /\ \A c \in active[k] : KeyOf[c] = k
  BY <1>1, <1>3, <1>5, FS_Subset
<1>7. s.conflict[k].who \subseteq active[k]
  BY <1>3
<1>. QED  BY <1>3, <1>4, <1>6, <1>7 DEF s

(* What stands in a lane is one of its resolutions, and its status says    *)
(* that it is resolved only with one.                                      *)
LEMMA StandingFacts ==
  ASSUME NEW ops, OpsSound(ops), NEW lane
  PROVE  LET resolutions == Of(ops, "resolution")
             events == Of(ops, "event")
             st == Standing(lane, resolutions, events)
         IN /\ st.chosen \in resolutions \cup {None}
            /\ Timeline(lane, resolutions, events) = {} => st.chosen = None /\ st.status = None
            /\ Timeline(lane, resolutions, events) # {} => st.status \in Status
            /\ st.chosen = None => st.status # "resolved"
<1>. DEFINE resolutions == Of(ops, "resolution")
            events == Of(ops, "event")
            items == Timeline(lane, resolutions, events)
            last == CHOOSE x \in items : \A y \in items : y.at <= x.at
<1>1. None \notin ops /\ None \notin Status
  BY AgentAssumption DEF OpsSound
<1>2. CASE items = {}
  BY <1>1, <1>2 DEF Standing, Status
<1>3. CASE items # {}
  <2>. DEFINE times == {x.at : x \in items}
              f == [x \in items |-> x.at]
  <2>1. \E x \in items : \A y \in items : y.at <= x.at
    <3>1. IsFiniteSet(items)
      <4>1. items \in SUBSET ops
        BY DEF Timeline, Of
      <4>. QED  BY <4>1, FS_Subset DEF OpsSound
    <3>2. f \in Surjection(items, times)
      BY DEF Surjection
    <3>3. IsFiniteSet(times)
      BY <3>1, <3>2, FS_Surjection
    <3>4. times \in SUBSET Nat /\ times # {}
      BY <1>3 DEF OpsSound, Timeline
    <3>. HIDE DEF times, items
    <3>5. PICK m \in times : \A n \in times : n <= m
      BY <3>3, <3>4, GreatestElement
    <3>. QED  BY <3>5 DEF times
  <2>2. last \in items
    BY <2>1
  <2>. HIDE DEF last
  <2>3. last \in resolutions \cup events
    BY <2>2 DEF Timeline
  <2>4. CASE last.kind = "resolution"
    <3>1. last \in resolutions
      BY <2>3, <2>4 DEF Of
    <3>2. last # None
      BY <1>1, <3>1 DEF Of
    <3>3. Standing(lane, resolutions, events) = ByResolution(last)
      BY <1>3, <2>4 DEF Standing, last
    <3>. QED  BY <1>3, <3>1, <3>2, <3>3 DEF ByResolution, Status
  <2>5. CASE last.kind # "resolution"
    <3>1. last \in events /\ last.status \in Status
      BY <2>3, <2>5 DEF Of, OpsSound, ValidEvent
    <3>2. Standing(lane, resolutions, events) = ByEvent(last, resolutions)
      BY <1>3, <2>5 DEF Standing, last
    <3>. DEFINE cited == {r \in resolutions : r.id = last.resolution /\ r.lane = last.lane
                                               /\ r.seen = last.seen}
                r == CHOOSE x \in cited : TRUE
    <3>3. CASE last.status = "resolved" /\ cited # {}
      <4>1. ByEvent(last, resolutions) = ByResolution(r)
        BY <3>3 DEF ByEvent
      <4>2. r \in cited
        BY <3>3
      <4>. HIDE DEF r
      <4>3. r \in resolutions /\ r # None
        BY <1>1, <4>2 DEF Of
      <4>. QED  BY <1>3, <3>2, <4>1, <4>3 DEF ByResolution, Status
    <3>4. CASE last.status # "resolved"
      BY <1>3, <3>1, <3>2, <3>4 DEF ByEvent
    <3>5. CASE last.status = "resolved" /\ cited = {}
      BY <1>3, <3>1, <3>2, <3>5 DEF ByEvent, Status
    <3>. QED  BY <3>3, <3>4, <3>5
  <2>. QED  BY <2>4, <2>5
<1>. QED  BY <1>2, <1>3

(* A lane is resolved, for the candidates there are, exactly when its      *)
(* resolution is effective.                                                *)
LEMMA LaneFacts ==
  ASSUME NEW ops, OpsSound(ops), NEW lane, NEW who
  PROVE  LET resolutions == Of(ops, "resolution")
             events == Of(ops, "event")
             st == LaneState(lane, resolutions, events, who)
         IN /\ st.chosen \in resolutions \cup {None}
            /\ st.effective \in BOOLEAN
            /\ st.effective => who # {} /\ st.chosen \in resolutions /\ Settles(st.chosen, who)
            /\ who # {} => (st.effective <=> st.status = "resolved")
            /\ who # {} /\ Timeline(lane, resolutions, events) # {} => st.status # None
            /\ who # {} /\ Timeline(lane, resolutions, events) = {} =>
                 st.status = IF lane[2] = None THEN "open" ELSE None
<1>. DEFINE resolutions == Of(ops, "resolution")
            events == Of(ops, "event")
            st == Standing(lane, resolutions, events)
            r == st.chosen
            L == LaneState(lane, resolutions, events, who)
<1>1. /\ r \in resolutions \cup {None}
      /\ Timeline(lane, resolutions, events) = {} => r = None /\ st.status = None
      /\ Timeline(lane, resolutions, events) # {} => st.status \in Status
      /\ r = None => st.status # "resolved"
  BY StandingFacts
<1>2. None \notin Status
  BY AgentAssumption
<1>3. Settles(r, who) \in BOOLEAN
  BY DEF Settles, Covers
<1>. HIDE DEF st
<1>4. CASE who = {}
  BY <1>1, <1>4 DEF LaneState, st
<1>5. CASE who # {} /\ r = None
  <2>1. L = [chosen |-> r, effective |-> FALSE,
             status |-> IF st.status = None /\ lane[2] = None THEN "open" ELSE st.status]
    BY <1>5 DEF LaneState, st
  <2>2. L.status # "resolved"
    BY <1>1, <1>2, <1>5, <2>1 DEF Status
  <2>3. Timeline(lane, resolutions, events) # {} => L.status # None
    BY <1>1, <1>2, <2>1
  <2>4. Timeline(lane, resolutions, events) = {} =>
          L.status = IF lane[2] = None THEN "open" ELSE None
    BY <1>1, <2>1
  <2>5. L.effective = FALSE /\ L.chosen = r
    BY <2>1
  <2>. HIDE DEF L
  <2>. QED  BY <1>1, <1>5, <2>2, <2>3, <2>4, <2>5 DEF L
<1>6. CASE who # {} /\ r # None /\ r.outcome = "abstain"
  <2>1. L = [chosen |-> r, effective |-> FALSE,
             status |-> IF Covers(r, who) THEN "deferred" ELSE "reopened"]
    BY <1>6 DEF LaneState, st
  <2>2. L.status # "resolved" /\ L.status # None
    BY <1>2, <2>1 DEF Status
  <2>3. Timeline(lane, resolutions, events) # {}
    BY <1>1, <1>6
  <2>4. L.effective = FALSE /\ L.chosen = r
    BY <2>1
  <2>. HIDE DEF L
  <2>. QED  BY <1>1, <1>6, <2>2, <2>3, <2>4 DEF L
<1>7. CASE who # {} /\ r # None /\ r.outcome # "abstain"
  <2>1. L = [chosen |-> r, effective |-> Settles(r, who),
             status |-> IF Settles(r, who) THEN "resolved" ELSE "reopened"]
    BY <1>7 DEF LaneState, st
  <2>. QED  BY <1>1, <1>2, <1>3, <1>7, <2>1 DEF Status
<1>. QED  BY <1>4, <1>5, <1>6, <1>7

(* A resolution that is applied classified every candidate there is; it    *)
(* selects one of them, or rejects none.                                   *)
LEMMA CommittedFacts ==
  ASSUME NEW ops, OpsSound(ops), NEW findings, NEW ref, NEW scope,
         NEW who, IsFiniteSet(who)
  PROVE  LET s == StateOf(ops, Registry, findings)
             c == CommittedChoice(s, ref, who, scope)
         IN /\ c.applied \in BOOLEAN
            /\ c.applied =>
                 /\ c.by \in Of(ops, "resolution") /\ c.by # None /\ ValidResolution(c.by)
                 /\ who # {} /\ who \subseteq c.by.seen
                 /\ \/ c.claim = None /\ c.by.selected = {} /\ c.by.rejected = {}
                    \/ c.claim \in who /\ who \cap c.by.selected = {c.claim}
            /\ ~ c.applied => c.claim = None
<1>. DEFINE s == StateOf(ops, Registry, findings)
            lane == ResolutionLane(s, ref, scope)
            st == LaneState(lane, s.resolutions, s.events, who)
            c == CommittedChoice(s, ref, who, scope)
<1>1. s.resolutions = Of(ops, "resolution") /\ s.events = Of(ops, "event")
  BY DEF StateOf, Full
<1>. HIDE DEF s, lane
<1>2. /\ st.effective \in BOOLEAN
      /\ st.effective => who # {} /\ st.chosen \in Of(ops, "resolution") /\ Settles(st.chosen, who)
  BY <1>1, LaneFacts
<1>3. /\ c.applied = st.effective /\ c.by = st.chosen
      /\ c.claim = IF st.effective /\ st.chosen.outcome # "preserve"
                   THEN CHOOSE x \in who \cap st.chosen.selected : TRUE ELSE None
  BY DEF CommittedChoice, ChoiceIn, lane
<1>4. ASSUME st.effective
      PROVE  /\ st.chosen # None /\ ValidResolution(st.chosen)
             /\ who \subseteq st.chosen.seen
             /\ \/ c.claim = None /\ st.chosen.selected = {} /\ st.chosen.rejected = {}
                \/ c.claim \in who /\ who \cap st.chosen.selected = {c.claim}
  <2>1. st.chosen # None /\ ValidResolution(st.chosen)
    BY <1>2, <1>4, AgentAssumption DEF OpsSound, Of
  <2>2. who \subseteq st.chosen.seen
    BY <1>2, <1>4 DEF Settles, Covers
  <2>3. CASE st.chosen.outcome = "preserve"
    <3>1. st.chosen.selected \cup st.chosen.rejected = {}
      BY <2>1, <2>3 DEF ValidResolution
    <3>2. c.claim = None
      BY <1>3, <2>3
    <3>. QED  BY <2>1, <2>2, <3>1, <3>2
  <2>4. CASE st.chosen.outcome # "preserve"
    <3>1. Cardinality(who \cap st.chosen.selected) = 1
      BY <1>2, <1>4, <2>4 DEF Settles
    <3>2. IsFiniteSet(who \cap st.chosen.selected)
      BY FS_Intersection
    <3>3. PICK x : who \cap st.chosen.selected = {x}
      BY <3>1, <3>2, FS_Singleton
    <3>4. c.claim = x
      BY <1>3, <1>4, <2>4, <3>3
    <3>. QED  BY <2>1, <2>2, <3>3, <3>4
  <2>. QED  BY <2>1, <2>2, <2>3, <2>4
<1>5. ~ st.effective => c.claim = None
  BY <1>3
<1>. HIDE DEF st, c
<1>. QED  BY <1>2, <1>3, <1>4, <1>5 DEF s, c

-------------------------------------------------------------------------------
(* Findings and what they exclude                                          *)

Who(s, ref) == CandidatesOf(s)[ref]

Chosen(s, ref, scope) == CommittedChoice(s, ref, Who(s, ref), scope)

(* The reference of a key stands for the conflict between claims of that   *)
(* key.                                                                    *)
LEMMA WhoOfKey ==
  ASSUME NEW s, NEW k \in Key
  PROVE  Who(s, k) = s.conflict[k].who
BY DEF Who, CandidatesOf, Refs

(* The candidates behind a reference: of a key those of its conflict, of a *)
(* finding those it names, of any other reference none; they are finitely  *)
(* many claims.                                                            *)
LEMMA WhoFacts ==
  ASSUME NEW ops, OpsSound(ops), NEW findings \in {{}, Finding}
  PROVE  LET s == StateOf(ops, Registry, findings)
         IN /\ \A k \in Key : Who(s, k) = s.conflict[k].who
            /\ \A f \in Reported(s) : /\ f.ref \in Refs \ Key /\ Who(s, f.ref) = f.who
            /\ \A ref \in Refs \ Key : Who(s, ref) = {} \/ \E f \in Reported(s) : f.ref = ref
            /\ \A ref \in Refs : IsFiniteSet(Who(s, ref)) /\ Who(s, ref) \subseteq Claim
<1>. DEFINE s == StateOf(ops, Registry, findings)
            all == UNION {s.active[k] : k \in Key}
<1>1. all \subseteq Claim /\ IsFiniteSet(all)
  <2>. DEFINE claims == {o.claim : o \in Of(ops, "claim")}
              f == [o \in Of(ops, "claim") |-> o.claim]
  <2>1. IsFiniteSet(Of(ops, "claim"))
    BY FS_Subset DEF OpsSound, Of
  <2>2. f \in Surjection(Of(ops, "claim"), claims)
    BY DEF Surjection
  <2>3. IsFiniteSet(claims) /\ claims \subseteq Claim
    BY <2>1, <2>2, FS_Surjection DEF OpsSound
  <2>4. \A k \in Key : s.active[k] \subseteq claims
    BY DEF StateOf, Full
  <2>5. all \in SUBSET claims
    BY <2>4
  <2>. QED  BY <2>3, <2>5, FS_Subset
<1>2. s.findings = findings
  BY DEF StateOf
<1>3. ASSUME NEW k \in Key
      PROVE  /\ s.conflict[k].who \subseteq Claim /\ IsFiniteSet(s.conflict[k].who)
             /\ Who(s, k) = s.conflict[k].who
  <2>1. /\ s.active[k] \subseteq Claim /\ IsFiniteSet(s.active[k])
        /\ s.conflict[k].who \subseteq s.active[k]
    BY <1>3, StateFacts
  <2>2. Who(s, k) = s.conflict[k].who
    BY <1>3 DEF Who, CandidatesOf, Refs
  <2>. QED  BY <2>1, <2>2, FS_Subset
<1>. HIDE DEF s
<1>4. ASSUME NEW f \in Reported(s)
      PROVE  f \in Finding /\ f.ref \in Refs \ Key /\ f.who \subseteq Claim /\ IsFiniteSet(f.who)
  <2>1. f \in Finding /\ f.who \subseteq all
    BY <1>2, <1>4 DEF Reported
  <2>2. f.ref \in Refs \ Key
    BY <2>1, ViewsAssumption DEF Refs
  <2>. QED  BY <1>1, <2>1, <2>2, FS_Subset
<1>5. ASSUME NEW f \in Reported(s)
      PROVE  Who(s, f.ref) = f.who
  <2>1. {g \in Reported(s) : g.ref = f.ref} = {f}
    BY <1>4, ViewsAssumption
  <2>2. Who(s, f.ref) = UNION {g.who : g \in {h \in Reported(s) : h.ref = f.ref}}
    BY <1>4 DEF Who, CandidatesOf
  <2>. QED  BY <2>1, <2>2
<1>6. ASSUME NEW ref \in Refs \ Key, \A f \in Reported(s) : f.ref # ref
      PROVE  Who(s, ref) = {}
  <2>1. Who(s, ref) = UNION {g.who : g \in {h \in Reported(s) : h.ref = ref}}
    BY DEF Who, CandidatesOf
  <2>. QED  BY <1>6, <2>1
<1>7. ASSUME NEW ref \in Refs
      PROVE  IsFiniteSet(Who(s, ref)) /\ Who(s, ref) \subseteq Claim
  <2>1. CASE ref \in Key
    BY <1>3, <2>1
  <2>2. CASE ref \notin Key /\ \E f \in Reported(s) : f.ref = ref
    BY <1>4, <1>5, <2>2
  <2>3. CASE ref \notin Key /\ \A f \in Reported(s) : f.ref # ref
    BY <1>6, <2>3, FS_EmptySet
  <2>. QED  BY <2>1, <2>2, <2>3
<1>. QED  BY <1>3, <1>4, <1>5, <1>6, <1>7 DEF s

(* What the findings take away is what the applied resolutions of findings *)
(* reject of their candidates.                                             *)
LEMMA ExcludedFacts ==
  ASSUME NEW ops, OpsSound(ops), NEW findings \in {{}, Finding}, NEW scope
  PROVE  LET s == StateOf(ops, Registry, findings)
         IN Excluded(s, scope)
              = UNION {Who(s, ref) \cap Chosen(s, ref, scope).by.rejected
                         : ref \in {r \in Refs \ Key : Chosen(s, r, scope).applied}}
<1>. DEFINE s == StateOf(ops, Registry, findings)
            Cut(f) == LET committed == CommittedChoice(s, f.ref, f.who, scope)
                      IN IF committed.claim = None THEN {} ELSE f.who \cap committed.by.rejected
            Taken(ref) == Who(s, ref) \cap Chosen(s, ref, scope).by.rejected
<1>1. /\ \A f \in Reported(s) : f.ref \in Refs \ Key /\ Who(s, f.ref) = f.who
      /\ \A ref \in Refs \ Key : Who(s, ref) = {} \/ \E f \in Reported(s) : f.ref = ref
      /\ \A ref \in Refs : IsFiniteSet(Who(s, ref)) /\ Who(s, ref) \subseteq Claim
  BY WhoFacts
<1>2. ASSUME NEW ref \in Refs
      PROVE  /\ Chosen(s, ref, scope).applied => Who(s, ref) # {}
                  /\ (Chosen(s, ref, scope).claim = None =>
                        Chosen(s, ref, scope).by.rejected = {})
             /\ Chosen(s, ref, scope).claim # None => Chosen(s, ref, scope).applied
  <2>1. IsFiniteSet(Who(s, ref)) /\ Who(s, ref) \subseteq Claim
    BY <1>1
  <2>2. None \notin Who(s, ref)
    BY <2>1, AgentAssumption
  <2>. QED  BY <2>1, <2>2, CommittedFacts DEF Chosen
<1>3. Excluded(s, scope) = UNION {Cut(f) : f \in Reported(s)}
  BY DEF Excluded
<1>. HIDE DEF s
<1>4. ASSUME NEW f \in Reported(s)
      PROVE  /\ f.ref \in Refs \ Key
             /\ Cut(f) = IF Chosen(s, f.ref, scope).applied THEN Taken(f.ref) ELSE {}
  <2>1. f.ref \in Refs \ Key /\ f.ref \in Refs /\ Who(s, f.ref) = f.who
    BY <1>1, <1>4
  <2>2. Chosen(s, f.ref, scope) = CommittedChoice(s, f.ref, f.who, scope)
    BY <2>1 DEF Chosen
  <2>. DEFINE x == Chosen(s, f.ref, scope)
  <2>3. Cut(f) = IF x.claim = None THEN {} ELSE f.who \cap x.by.rejected
    BY <2>2
  <2>4. Taken(f.ref) = f.who \cap x.by.rejected
    BY <2>1
  <2>5. /\ x.applied => (x.claim = None => x.by.rejected = {})
        /\ x.claim # None => x.applied
    BY <1>2, <2>1
  <2>. HIDE DEF x, Cut, Taken
  <2>6. CASE x.claim = None
    BY <2>1, <2>3, <2>4, <2>5, <2>6 DEF x
  <2>7. CASE x.claim # None
    BY <2>1, <2>3, <2>4, <2>5, <2>7 DEF x
  <2>. QED  BY <2>6, <2>7
<1>5. ASSUME NEW ref \in Refs \ Key, Chosen(s, ref, scope).applied
      PROVE  \E f \in Reported(s) : f.ref = ref
  BY <1>1, <1>2, <1>5
<1>. HIDE DEF Cut, Taken
<1>6. UNION {Cut(f) : f \in Reported(s)}
        = UNION {Taken(ref) : ref \in {r \in Refs \ Key : Chosen(s, r, scope).applied}}
  <2>1. ASSUME NEW x, NEW f \in Reported(s), x \in Cut(f)
        PROVE  x \in UNION {Taken(ref) : ref \in {r \in Refs \ Key : Chosen(s, r, scope).applied}}
    BY <1>4, <2>1
  <2>2. ASSUME NEW x, NEW ref \in Refs \ Key, Chosen(s, ref, scope).applied, x \in Taken(ref)
        PROVE  x \in UNION {Cut(f) : f \in Reported(s)}
    <3>1. PICK f \in Reported(s) : f.ref = ref
      BY <1>5, <2>2
    <3>2. x \in Cut(f)
      BY <1>4, <2>2, <3>1
    <3>. QED  BY <3>2
  <2>. QED  BY <2>1, <2>2
<1>. QED  BY <1>3, <1>6 DEF s, Taken

-------------------------------------------------------------------------------
(* What a key shows                                                        *)

(* The claim that a key shows when nothing is chosen is one of its claims. *)
LEMMA BestFacts ==
  ASSUME NEW claims \in SUBSET Claim, IsFiniteSet(claims), claims # {}
  PROVE  BestClaim(claims) \in claims
<1>. DEFINE f == [c \in claims |-> Rank[c]]
            ranks == {Rank[c] : c \in claims}
<1>1. IsFiniteSet(ranks)
  <2>1. f \in Surjection(claims, ranks)
    BY DEF Surjection
  <2>. QED  BY <2>1, FS_Surjection
<1>2. ranks \in SUBSET Nat /\ ranks # {}
  BY ViewsAssumption
<1>. HIDE DEF ranks
<1>3. PICK m \in ranks : \A n \in ranks : n <= m
  BY <1>1, <1>2, GreatestElement
<1>4. \E c \in claims : \A d \in claims : Rank[d] <= Rank[c]
  BY <1>3 DEF ranks
<1>. QED  BY <1>4 DEF BestClaim

(* An applied resolution is what its key shows, with the claims that are   *)
(* no candidates as alternatives; a key without a conflict shows its best  *)
(* claim, or all.                                                          *)
Shows(v, active, who, c) ==
  /\ v.selected \in active \cup {None}
  /\ v.provisional \in active \cup {None}
  /\ v.alternatives \subseteq active
  /\ c.applied => /\ v.selected = c.claim /\ v.provisional = None
                  /\ v.alternatives = active \ who
  /\ who = {} =>
       \/ v.alternatives = active
       \/ /\ v.selected \in active /\ v.alternatives = {}
          /\ \A x \in active : ValuesEqual(Registry, x, v.selected)

(* One turn of the first loop of build_view leaves the key with the values *)
(* that Shows describes.                                                   *)
LEMMA KeyViewFacts ==
  ASSUME NEW ops, OpsSound(ops), NEW findings \in {{}, Finding},
         NEW k \in Key, NEW scope \in Scope, NEW verdict
  PROVE  LET s == StateOf(ops, Registry, findings)
         IN Shows(KeyView(s, k, scope, verdict), s.active[k], Who(s, k), Chosen(s, k, scope))
<1>. DEFINE s == StateOf(ops, Registry, findings)
            v == KeyView(s, k, scope, verdict)
            active == s.active[k]
            who == s.conflict[k].who
            c == CommittedChoice(s, k, who, scope)
<1>1. s.rev = Registry /\ active \subseteq Claim /\ IsFiniteSet(active) /\ who \subseteq active
  BY StateFacts
<1>2. Who(s, k) = who /\ IsFiniteSet(who)
  <2>1. IsFiniteSet(who)
    BY <1>1, FS_Subset
  <2>2. Who(s, k) = who
    BY WhoOfKey
  <2>. QED  BY <2>1, <2>2
<1>3. Chosen(s, k, scope) = c
  BY <1>2 DEF Chosen
<1>4. /\ c.applied \in BOOLEAN
      /\ c.applied => who # {} /\ c.claim \in who \cup {None}
  BY <1>2, CommittedFacts
<1>5. active # {} => BestClaim(active) \in active
  BY <1>1, BestFacts
<1>6. v = CASE active = {} -> Shown(None, None, None, {})
            [] active # {} /\ who = {} /\ \A x, d \in active : ValuesEqual(s.rev, x, d) ->
                 Shown("deterministic", BestClaim(active), None, {})
            [] who = {} /\ \E x, d \in active : ~ ValuesEqual(s.rev, x, d) ->
                 Shown("abstained", None, None, active)
            [] who # {} /\ c.applied ->
                 Shown("committed", c.claim, None, active \ who)
            [] who # {} /\ ~ c.applied /\ (c.noted \/ verdict[k] \notin who) ->
                 Shown("abstained", None, None, active \ who)
            [] OTHER -> Shown("provisional", None, verdict[k], active \ who)
  BY DEF KeyView
<1>. HIDE DEF v, c, who, active
<1>7. CASE active = {}
  <2>1. v = Shown(None, None, None, {})
    BY <1>1, <1>6, <1>7
  <2>2. v.selected = None /\ v.provisional = None /\ v.alternatives = {}
    BY <2>1 DEF Shown
  <2>3. who = {}
    BY <1>1, <1>7
  <2>. QED  BY <1>2, <1>3, <1>4, <1>7, <2>2, <2>3 DEF Shows, active, v, c
<1>8. CASE active # {} /\ who = {} /\ \A x, d \in active : ValuesEqual(s.rev, x, d)
  <2>1. v = Shown("deterministic", BestClaim(active), None, {})
    BY <1>6, <1>8
  <2>2. v.selected = BestClaim(active) /\ v.provisional = None /\ v.alternatives = {}
    BY <2>1 DEF Shown
  <2>3. \A x \in active : ValuesEqual(Registry, x, v.selected)
    BY <1>1, <1>5, <1>8, <2>2
  <2>. QED  BY <1>2, <1>3, <1>4, <1>5, <1>8, <2>2, <2>3 DEF Shows, active, v, c
<1>9. CASE active # {} /\ who = {} /\ \E x, d \in active : ~ ValuesEqual(s.rev, x, d)
  <2>1. v = Shown("abstained", None, None, active)
    BY <1>6, <1>9
  <2>2. v.selected = None /\ v.provisional = None /\ v.alternatives = active
    BY <2>1 DEF Shown
  <2>. QED  BY <1>2, <1>3, <1>4, <1>9, <2>2 DEF Shows, active, v, c
<1>10. CASE active # {} /\ who # {} /\ c.applied
  <2>1. v = Shown("committed", c.claim, None, active \ who)
    BY <1>6, <1>10
  <2>2. v.selected = c.claim /\ v.provisional = None /\ v.alternatives = active \ who
    BY <2>1 DEF Shown
  <2>. QED  BY <1>1, <1>2, <1>3, <1>4, <1>10, <2>2 DEF Shows, active, v, c
<1>11. CASE active # {} /\ who # {} /\ ~ c.applied /\ (c.noted \/ verdict[k] \notin who)
  <2>1. v = Shown("abstained", None, None, active \ who)
    BY <1>6, <1>11
  <2>2. v.selected = None /\ v.provisional = None /\ v.alternatives = active \ who
    BY <2>1 DEF Shown
  <2>. QED  BY <1>2, <1>3, <1>11, <2>2 DEF Shows, active, v, c
<1>12. CASE active # {} /\ who # {} /\ ~ c.applied /\ ~ (c.noted \/ verdict[k] \notin who)
  <2>1. v = Shown("provisional", None, verdict[k], active \ who)
    BY <1>6, <1>12
  <2>2. v.selected = None /\ v.provisional = verdict[k] /\ v.alternatives = active \ who
    BY <2>1 DEF Shown
  <2>. QED  BY <1>1, <1>2, <1>3, <1>12, <2>2 DEF Shows, active, v, c
<1>. QED  BY <1>7, <1>8, <1>9, <1>10, <1>11, <1>12

(* What is excluded is not shown, and nothing else disappears but what was *)
(* selected when the last alternative takes its place.                     *)
LEMMA AfterExclusionFacts ==
  ASSUME NEW v, IsFiniteSet(v.alternatives), None \notin v.alternatives, NEW out
  PROVE  LET w == AfterExclusion(v, out)
         IN /\ ShownOf(w) \subseteq ShownOf(v) \ out
            /\ v.alternatives \ out \subseteq ShownOf(w)
            /\ v.alternatives \cap out = {} =>
                 w.selected = IF v.selected \in out THEN None ELSE v.selected
<1>. DEFINE left == v.alternatives \ out
            w == AfterExclusion(v, out)
            promoted == Cardinality(v.alternatives) > 1 /\ Cardinality(left) <= 1
            kept(c) == IF c \in out THEN None ELSE c
            last == IF left = {} THEN None ELSE CHOOSE c \in left : TRUE
<1>1. /\ w.selected = IF promoted THEN last ELSE kept(v.selected)
      /\ w.provisional = kept(v.provisional)
      /\ w.alternatives = IF promoted THEN {} ELSE left
  BY DEF AfterExclusion, Left, Shown
<1>2. last \in left \cup {None}
  OBVIOUS
<1>3. promoted => left = {} \/ left = {last}
  <2>1. IsFiniteSet(left)
    BY FS_Subset
  <2>2. CASE Cardinality(left) <= 1
    <3>1. Cardinality(left) = 0 \/ Cardinality(left) = 1
      BY <2>1, <2>2, FS_CardinalityType
    <3>2. CASE Cardinality(left) = 0
      BY <2>1, <3>2, FS_EmptySet
    <3>3. CASE Cardinality(left) = 1
      <4>1. PICK x : left = {x}
        BY <2>1, <3>3, FS_Singleton
      <4>. QED  BY <4>1
    <3>. QED  BY <3>1, <3>2, <3>3
  <2>. QED  BY <2>2
<1>4. v.alternatives \cap out = {} => ~ promoted
  <2>1. SUFFICES ASSUME v.alternatives \cap out = {} PROVE ~ promoted
    OBVIOUS
  <2>2. left = v.alternatives
    BY <2>1
  <2>3. Cardinality(v.alternatives) \in Nat
    BY FS_CardinalityType
  <2>. QED  BY <2>2, <2>3
<1>5. promoted \in BOOLEAN
  OBVIOUS
<1>. HIDE DEF w, promoted, last
<1>. QED  BY <1>1, <1>2, <1>3, <1>4, <1>5 DEF ShownOf, w

-------------------------------------------------------------------------------
(* What a view shows                                                       *)

(* A view of a state: its parts, and what the findings in force exclude.   *)
IsViewOf(v, s, scope, verdict) ==
  /\ v.scope = scope /\ v.active = s.active /\ DOMAIN v.key = Key
  /\ \A k \in Key :
       v.key[k] = AfterExclusion(KeyView(s, k, scope, verdict), Excluded(s, scope))
  /\ v.unresolved = {ref \in Refs : Who(s, ref) # {} /\ ~ Chosen(s, ref, scope).applied}
  /\ \A ref \in Refs : /\ v.who[ref] = Who(s, ref)
                       /\ v.by[ref] = IF Chosen(s, ref, scope).applied
                                      THEN Chosen(s, ref, scope).by ELSE None
                       /\ Chosen(s, ref, scope).applied => Chosen(s, ref, scope).by # None
  /\ Excluded(s, scope)
       = UNION {v.by[ref].rejected \cap v.who[ref] : ref \in {r \in Refs : v.by[r] # None} \ Key}

(* build_view builds what IsViewOf describes, for every state, scope and   *)
(* answer of the resolvers.                                                *)
LEMMA BuiltFacts ==
  ASSUME NEW ops, OpsSound(ops), NEW findings \in {{}, Finding},
         NEW scope \in Scope, NEW verdict
  PROVE  IsViewOf(Built(StateOf(ops, Registry, findings), scope, verdict),
                  StateOf(ops, Registry, findings), scope, verdict)
<1>. DEFINE s == StateOf(ops, Registry, findings)
            v == Built(s, scope, verdict)
            b == BuildView(s, scope, verdict)
            InForceIn == {ref \in Refs : v.by[ref] # None}
<1>1. /\ v.scope = scope /\ v.active = s.active /\ v.who = b.who
      /\ v.by = b.by /\ v.key = b.key /\ v.unresolved = b.unresolved
  BY DEF Built
<1>2. ASSUME NEW ref \in Refs
      PROVE  Chosen(s, ref, scope).applied => Chosen(s, ref, scope).by # None
  <2>1. IsFiniteSet(Who(s, ref))
    BY WhoFacts
  <2>. QED  BY <2>1, CommittedFacts DEF Chosen
<1>3. Excluded(s, scope) = UNION {Who(s, ref) \cap Chosen(s, ref, scope).by.rejected
                                    : ref \in {r \in Refs \ Key : Chosen(s, r, scope).applied}}
  BY ExcludedFacts
<1>. HIDE DEF s
<1>4. /\ b.who = CandidatesOf(s)
      /\ b.by = [ref \in Refs |-> IF Chosen(s, ref, scope).applied
                                  THEN Chosen(s, ref, scope).by ELSE None]
      /\ b.key = [k \in Key |-> AfterExclusion(KeyView(s, k, scope, verdict), Excluded(s, scope))]
      /\ b.unresolved = {ref \in Refs : Who(s, ref) # {} /\ ~ Chosen(s, ref, scope).applied}
  BY DEF BuildView, Who, Chosen
<1>. HIDE DEF v, b
<1>5. \A ref \in Refs : /\ v.who[ref] = Who(s, ref)
                        /\ v.by[ref] = IF Chosen(s, ref, scope).applied
                                       THEN Chosen(s, ref, scope).by ELSE None
  BY <1>1, <1>4 DEF Who
<1>6. InForceIn \ Key = {r \in Refs \ Key : Chosen(s, r, scope).applied}
  BY <1>2, <1>5
<1>7. Excluded(s, scope) = UNION {v.by[ref].rejected \cap v.who[ref] : ref \in InForceIn \ Key}
  BY <1>3, <1>5, <1>6
<1>8. /\ v.scope = scope /\ v.active = s.active /\ DOMAIN v.key = Key
      /\ \A k \in Key :
           v.key[k] = AfterExclusion(KeyView(s, k, scope, verdict), Excluded(s, scope))
      /\ v.unresolved = {ref \in Refs : Who(s, ref) # {} /\ ~ Chosen(s, ref, scope).applied}
  BY <1>1, <1>4
<1>9. \A ref \in Refs : /\ v.who[ref] = Who(s, ref)
                        /\ v.by[ref] = IF Chosen(s, ref, scope).applied
                                       THEN Chosen(s, ref, scope).by ELSE None
                        /\ Chosen(s, ref, scope).applied => Chosen(s, ref, scope).by # None
  BY <1>2, <1>5
<1>. QED  BY <1>7, <1>8, <1>9 DEF s, v, IsViewOf

(* The last view, in the names of the properties.                          *)
LastView(ops, findings, scope, verdict) ==
  view = Built(StateOf(ops, Registry, findings), scope, verdict)

(* What is left of a key once the findings took something away.            *)
ExcludesOnly(w, v, out) ==
  /\ ShownOf(w) \subseteq ShownOf(v) \ out
  /\ v.alternatives \ out \subseteq ShownOf(w)
  /\ v.alternatives \cap out = {} =>
       w.selected = IF v.selected \in out THEN None ELSE v.selected
  /\ v.alternatives = {} => v.selected \in ShownOf(w) \cup out \cup {None}

(* What the second loop of build_view leaves of a key: nothing that a      *)
(* decision on a finding rejects, and all alternatives that none rejects.  *)
LEMMA ViewKey ==
  ASSUME NEW ops, OpsSound(ops), NEW findings \in {{}, Finding},
         NEW scope \in Scope, NEW verdict, LastView(ops, findings, scope, verdict), NEW k \in Key
  PROVE  ExcludesOnly(view.key[k], KeyView(StateOf(ops, Registry, findings), k, scope, verdict),
                      RejectedBy(InForce \ Key))
<1>. DEFINE s == StateOf(ops, Registry, findings)
            v == KeyView(s, k, scope, verdict)
            out == RejectedBy(InForce \ Key)
<1>1. v.alternatives \subseteq s.active[k]
  BY KeyViewFacts DEF Shows
<1>2. s.active[k] \subseteq Claim /\ IsFiniteSet(s.active[k])
  BY StateFacts
<1>3. IsFiniteSet(v.alternatives) /\ None \notin v.alternatives
  BY <1>1, <1>2, FS_Subset, AgentAssumption
<1>4. IsViewOf(view, s, scope, verdict)
  BY BuiltFacts DEF LastView
<1>. HIDE DEF s
<1>5. view.key[k] = AfterExclusion(v, Excluded(s, scope))
  BY <1>4 DEF IsViewOf
<1>6. Excluded(s, scope) = out
  BY <1>4 DEF IsViewOf, RejectedBy, InForce
<1>. HIDE DEF v, out
<1>7. /\ ShownOf(view.key[k]) \subseteq ShownOf(v) \ out
      /\ v.alternatives \ out \subseteq ShownOf(view.key[k])
      /\ v.alternatives \cap out = {} =>
           view.key[k].selected = IF v.selected \in out THEN None ELSE v.selected
  BY <1>3, <1>5, <1>6, AfterExclusionFacts
<1>8. v.alternatives = {} => v.selected \in ShownOf(view.key[k]) \cup out \cup {None}
  BY <1>7 DEF ShownOf
<1>. QED  BY <1>7, <1>8 DEF v, s, out, ExcludesOnly

(* The last view satisfies CommittedStands.                                *)
LEMMA CommittedInView ==
  ASSUME NEW ops, OpsSound(ops), NEW findings \in {{}, Finding},
         NEW scope \in Scope, NEW verdict, LastView(ops, findings, scope, verdict)
  PROVE  CommittedStands
<1>. DEFINE s == StateOf(ops, Registry, findings)
            out == RejectedBy(InForce \ Key)
<1>1. IsViewOf(view, s, scope, verdict)
  BY BuiltFacts DEF LastView
<1>2. ASSUME NEW k \in Key
      PROVE  /\ s.active[k] \subseteq Claim
             /\ \A x \in s.active[k] : KeyOf[x] = k
             /\ Who(s, k) \subseteq s.active[k] /\ IsFiniteSet(Who(s, k))
  <2>1. /\ s.active[k] \subseteq Claim /\ IsFiniteSet(s.active[k])
        /\ \A x \in s.active[k] : KeyOf[x] = k
        /\ s.conflict[k].who \subseteq s.active[k]
    BY StateFacts
  <2>2. Who(s, k) = s.conflict[k].who
    BY <1>2, WhoOfKey
  <2>. QED  BY <2>1, <2>2, FS_Subset
<1>3. ASSUME NEW k \in Key
      PROVE  LET v == KeyView(s, k, scope, verdict)
             IN /\ ShownOf(v) \subseteq s.active[k]
                /\ Chosen(s, k, scope).applied =>
                     /\ v.selected = Chosen(s, k, scope).claim
                     /\ v.alternatives = s.active[k] \ Who(s, k)
                     /\ ShownOf(v) \subseteq {Chosen(s, k, scope).claim} \cup (s.active[k] \ Who(s, k))
  <2>. DEFINE v == KeyView(s, k, scope, verdict)
              c == Chosen(s, k, scope)
  <2>1. Shows(v, s.active[k], Who(s, k), c)
    BY KeyViewFacts
  <2>. HIDE DEF v, c, s
  <2>. QED  BY <2>1 DEF Shows, ShownOf, v, c
<1>4. ASSUME NEW k \in Key, Chosen(s, k, scope).applied
      PROVE  LET c == Chosen(s, k, scope)
             IN /\ c.by.selected \cap c.by.rejected = {}
                /\ \/ c.claim = None /\ c.by.selected = {} /\ c.by.rejected = {}
                   \/ c.claim \in Who(s, k) /\ Who(s, k) \cap c.by.selected = {c.claim}
  <2>. DEFINE c == Chosen(s, k, scope)
  <2>1. /\ ValidResolution(c.by)
        /\ \/ c.claim = None /\ c.by.selected = {} /\ c.by.rejected = {}
           \/ c.claim \in Who(s, k) /\ Who(s, k) \cap c.by.selected = {c.claim}
    BY <1>2, <1>4, CommittedFacts DEF Chosen
  <2>. HIDE DEF c
  <2>. QED  BY <2>1 DEF ValidResolution, c
<1>5. \A k \in Key : ExcludesOnly(view.key[k], KeyView(s, k, scope, verdict), out)
  BY ViewKey
<1>. HIDE DEF s, out
<1>6. ASSUME NEW k \in Key, NEW x \in ShownOf(view.key[k]), NEW ref \in InForce,
             x \in view.by[ref].rejected \cap view.who[ref]
      PROVE  FALSE
  <2>1. x \notin out /\ x \in s.active[k] /\ KeyOf[x] = k
    BY <1>2, <1>3, <1>5, <1>6 DEF ExcludesOnly
  <2>2. CASE ref \notin Key
    BY <1>6, <2>1, <2>2 DEF out, RejectedBy
  <2>3. CASE ref \in Key
    <3>1. ref \in Refs
      BY <2>3 DEF Refs
    <3>2. /\ view.who[ref] = Who(s, ref) /\ Chosen(s, ref, scope).applied
          /\ view.by[ref] = Chosen(s, ref, scope).by
      BY <1>1, <1>6, <3>1 DEF IsViewOf, InForce
    <3>3. ref = k
      BY <1>2, <1>6, <2>1, <2>3, <3>2
    <3>4. x \in {Chosen(s, k, scope).claim} \cup (s.active[k] \ Who(s, k))
      BY <1>3, <1>5, <1>6, <3>2, <3>3 DEF ExcludesOnly
    <3>5. x = Chosen(s, k, scope).claim /\ x \in Who(s, k)
      BY <1>6, <3>2, <3>3, <3>4
    <3>6. x \in Claim
      BY <1>2, <2>1
    <3>. QED  BY <1>4, <1>6, <3>2, <3>3, <3>5, <3>6, AgentAssumption
  <2>. QED  BY <2>2, <2>3
<1>7. ASSUME NEW k \in InForce \cap Key, (view.active[k] \ view.who[k]) \cap out = {}
      PROVE  {view.key[k].selected} \ {None} = (view.by[k].selected \cap view.who[k]) \ out
  <2>1. k \in Refs /\ k \in Key
    BY DEF Refs
  <2>2. /\ view.who[k] = Who(s, k) /\ Chosen(s, k, scope).applied
        /\ view.by[k] = Chosen(s, k, scope).by /\ view.active = s.active
    BY <1>1, <1>7, <2>1 DEF IsViewOf, InForce
  <2>. DEFINE v == KeyView(s, k, scope, verdict)
              c == Chosen(s, k, scope)
  <2>3. /\ v.selected = c.claim /\ v.alternatives = s.active[k] \ Who(s, k)
    BY <1>3, <2>1, <2>2
  <2>4. v.alternatives \cap out = {} =>
          view.key[k].selected = IF v.selected \in out THEN None ELSE v.selected
    BY <1>5, <2>1 DEF ExcludesOnly
  <2>5. view.key[k].selected = IF c.claim \in out THEN None ELSE c.claim
    BY <1>7, <2>2, <2>3, <2>4
  <2>6. \/ c.claim = None /\ c.by.selected = {}
        \/ c.claim \in Who(s, k) /\ Who(s, k) \cap c.by.selected = {c.claim}
    BY <1>4, <2>1, <2>2
  <2>7. None \notin Who(s, k)
    BY <1>2, <2>1, AgentAssumption
  <2>. HIDE DEF v, c
  <2>. QED  BY <2>2, <2>5, <2>6, <2>7 DEF c
<1>8. \A k \in Key : ShownOf(view.key[k]) \cap RejectedBy(InForce) = {}
  BY <1>6 DEF RejectedBy
<1>. QED  BY <1>7, <1>8 DEF CommittedStands, out

(* The last view satisfies UnseenNeverOverruled.                           *)
LEMMA UnseenInView ==
  ASSUME NEW ops, OpsSound(ops), NEW findings \in {{}, Finding},
         NEW scope \in Scope, NEW verdict, LastView(ops, findings, scope, verdict)
  PROVE  UnseenNeverOverruled
<1>. DEFINE s == StateOf(ops, Registry, findings)
            out == RejectedBy(InForce \ Key)
<1>1. IsViewOf(view, s, scope, verdict)
  BY BuiltFacts DEF LastView
<1>2. SUFFICES ASSUME NEW k \in Key \ view.unresolved, NEW c \in view.active[k]
               PROVE  \E d \in view.active[k] \cap (ShownOf(view.key[k])
                                      \cup UNION {view.by[ref].seen : ref \in InForce}) :
                        ValuesEqual(Registry, c, d)
  BY DEF UnseenNeverOverruled
<1>. DEFINE v == KeyView(s, k, scope, verdict)
            chosen == Chosen(s, k, scope)
<1>3. /\ s.active[k] \subseteq Claim /\ IsFiniteSet(Who(s, k))
  <2>1. k \in Refs
    BY DEF Refs
  <2>. QED  BY <2>1, StateFacts, WhoFacts
<1>4. \A ref \in Refs : Chosen(s, ref, scope).applied => Who(s, ref) \subseteq Chosen(s, ref, scope).by.seen
  <2>1. ASSUME NEW ref \in Refs
        PROVE  Chosen(s, ref, scope).applied => Who(s, ref) \subseteq Chosen(s, ref, scope).by.seen
    <3>1. IsFiniteSet(Who(s, ref))
      BY WhoFacts
    <3>. QED  BY <3>1, CommittedFacts DEF Chosen
  <2>. QED  BY <2>1
<1>5. ExcludesOnly(view.key[k], v, out)
  BY ViewKey
<1>6. Shows(v, s.active[k], Who(s, k), chosen)
  BY KeyViewFacts
<1>. HIDE DEF s, out, v, chosen
<1>7. /\ view.active = s.active /\ k \in Refs
      /\ Who(s, k) = {} \/ chosen.applied
  <2>1. k \in Refs
    BY DEF Refs
  <2>. QED  BY <1>1, <2>1 DEF IsViewOf, chosen
<1>8. \A ref \in InForce : view.who[ref] \subseteq view.by[ref].seen
  BY <1>1, <1>4 DEF IsViewOf, InForce
<1>9. out \subseteq UNION {view.by[ref].seen : ref \in InForce}
  BY <1>8 DEF out, RejectedBy
<1>10. CASE chosen.applied /\ c \in Who(s, k)
  <2>1. k \in InForce /\ c \in view.who[k]
    BY <1>1, <1>7, <1>10 DEF IsViewOf, InForce, chosen
  <2>2. c \in UNION {view.by[ref].seen : ref \in InForce}
    BY <1>8, <2>1
  <2>. QED  BY <2>2 DEF ValuesEqual
<1>11. CASE c \in v.alternatives
  <2>1. c \in ShownOf(view.key[k]) \cup UNION {view.by[ref].seen : ref \in InForce}
    BY <1>5, <1>9, <1>11 DEF ExcludesOnly
  <2>. QED  BY <2>1 DEF ValuesEqual
<1>12. CASE /\ v.selected \in s.active[k] /\ v.alternatives = {}
            /\ \A x \in s.active[k] : ValuesEqual(Registry, x, v.selected)
  <2>1. v.selected # None
    BY <1>3, <1>12, AgentAssumption
  <2>2. v.selected \in ShownOf(view.key[k]) \cup UNION {view.by[ref].seen : ref \in InForce}
    BY <1>5, <1>9, <1>12, <2>1 DEF ExcludesOnly
  <2>3. v.selected \in view.active[k] /\ ValuesEqual(Registry, c, v.selected)
    BY <1>7, <1>12
  <2>. QED  BY <2>2, <2>3
<1>. QED  BY <1>6, <1>7, <1>10, <1>11, <1>12 DEF Shows

(* The candidates of a key are the active claims that meet a rival.        *)
LEMMA CandidatesInView ==
  ASSUME NEW ops, OpsSound(ops), NEW findings \in {{}, Finding},
         NEW scope \in Scope, NEW verdict, LastView(ops, findings, scope, verdict), NEW k \in Key
  PROVE  view.who[k] = {c \in view.active[k] : \E d \in view.active[k] : <<c, d>> \in Rivals}
<1>. DEFINE s == StateOf(ops, Registry, findings)
            active == s.active[k]
<1>1. IsViewOf(view, s, scope, verdict)
  BY BuiltFacts DEF LastView
<1>2. /\ active \subseteq Claim /\ \A c \in active : KeyOf[c] = k
      /\ s.conflict[k].who = UNION {p \in Apart[Registry] : p \subseteq active}
  BY StateFacts
<1>. HIDE DEF s
<1>3. view.who[k] = UNION {p \in Apart[Registry] : p \subseteq active} /\ view.active[k] = active
  <2>1. k \in Refs
    BY DEF Refs
  <2>. QED  BY <1>1, <1>2, <2>1, WhoOfKey DEF IsViewOf
<1>4. Apart[Registry] = IncompatiblePairs(Registry, Claim)
  BY ApartAssumption, AgentAssumption
<1>. HIDE DEF active
<1>5. ASSUME NEW c \in active, NEW d \in active
      PROVE  Incompatible(Registry, c, d) <=> <<c, d>> \in Rivals
  <2>1. c \in Claim /\ d \in Claim /\ ShapeOf[c] \in Shape /\ ShapeOf[d] \in Shape
    BY <1>2, <1>5, DetectionAssumption
  <2>2. Overlap(ShapeOf[c], ShapeOf[d]) <=> Together(ShapeOf[c], ShapeOf[d]) # {}
    BY <2>1, OverlapIsTogether
  <2>. QED  BY <2>1, <2>2 DEF Incompatible, Rivals
<1>6. ASSUME NEW c, NEW p \in Apart[Registry], p \subseteq active, c \in p
      PROVE  c \in active /\ \E d \in active : <<c, d>> \in Rivals
  <2>1. PICK x \in Claim, y \in Claim : p = {x, y} /\ Incompatible(Registry, x, y)
    BY <1>4, <1>6 DEF IncompatiblePairs
  <2>2. x \in active /\ y \in active /\ Incompatible(Registry, y, x)
    BY <1>6, <2>1, IncompatibleFacts
  <2>. QED  BY <1>5, <1>6, <2>1, <2>2
<1>7. ASSUME NEW c \in active, NEW d \in active, <<c, d>> \in Rivals
      PROVE  \E p \in Apart[Registry] : p \subseteq active /\ c \in p
  <2>1. {c, d} \in Apart[Registry]
    BY <1>2, <1>4, <1>5, <1>7, PairFacts
  <2>. QED  BY <1>7, <2>1
<1>. QED  BY <1>3, <1>6, <1>7

(* What find_conflicts lists as open is what the view leaves unresolved.   *)
LEMMA OpenInView ==
  ASSUME NEW ops, OpsSound(ops), NEW findings \in {{}, Finding},
         NEW scope \in Scope, NEW verdict, LastView(ops, findings, scope, verdict)
  PROVE  view.open = view.unresolved \cap Key
<1>. DEFINE s == StateOf(ops, Registry, findings)
<1>1. IsViewOf(view, s, scope, verdict)
  BY BuiltFacts DEF LastView
<1>2. view.open = {k \in InConflict(s) : StatusUnder(s, k, scope) # "resolved"}
  BY DEF LastView, Built
<1>3. ASSUME NEW k \in Key
      PROVE  /\ Who(s, k) = s.conflict[k].who
             /\ Who(s, k) # {} =>
                  (StatusUnder(s, k, scope) = "resolved" <=> Chosen(s, k, scope).applied)
  <2>. DEFINE who == s.conflict[k].who
              resolutions == Of(ops, "resolution")
              events == Of(ops, "event")
              scoped == LaneState(<<k, scope>>, resolutions, events, who)
              unscoped == LaneState(<<k, None>>, resolutions, events, who)
  <2>1. /\ s.resolutions = resolutions /\ s.events = events
        /\ s.lane[<<k, scope>>] = scoped /\ s.lane[<<k, None>>] = unscoped
    BY StateFacts, MaterializeAssumption
  <2>2. Who(s, k) = who
    BY <1>3, WhoOfKey
  <2>3. /\ who # {} => (scoped.effective <=> scoped.status = "resolved")
        /\ who # {} => (unscoped.effective <=> unscoped.status = "resolved")
        /\ who # {} /\ Timeline(<<k, scope>>, resolutions, events) # {} => scoped.status # None
        /\ who # {} /\ Timeline(<<k, scope>>, resolutions, events) = {} =>
             scoped.status = IF scope = None THEN "open" ELSE None
    BY LaneFacts
  <2>. HIDE DEF s, who, resolutions, events
  <2>4. Chosen(s, k, scope).applied = IF Timeline(<<k, scope>>, resolutions, events) # {}
                                      THEN scoped.effective ELSE unscoped.effective
    BY <2>1, <2>2 DEF Chosen, CommittedChoice, ChoiceIn, ResolutionLane
  <2>5. StatusUnder(s, k, scope)
          = IF scoped.status # None THEN scoped.status
            ELSE IF unscoped.status = None THEN "open" ELSE unscoped.status
    BY <2>1 DEF StatusUnder, StatusOf
  <2>6. None # "resolved" /\ None # "open"
    BY AgentAssumption DEF Status
  <2>. HIDE DEF scoped, unscoped
  <2>7. CASE who # {} /\ Timeline(<<k, scope>>, resolutions, events) # {}
    BY <2>2, <2>3, <2>4, <2>5, <2>6, <2>7 DEF who
  <2>8. CASE who # {} /\ Timeline(<<k, scope>>, resolutions, events) = {} /\ scope # None
    BY <2>2, <2>3, <2>4, <2>5, <2>6, <2>8 DEF who
  <2>9. CASE who # {} /\ Timeline(<<k, scope>>, resolutions, events) = {} /\ scope = None
    <3>1. scoped = unscoped
      BY <2>9 DEF scoped, unscoped
    <3>. QED  BY <2>2, <2>3, <2>4, <2>5, <2>6, <2>9, <3>1 DEF who
  <2>. QED  BY <2>2, <2>7, <2>8, <2>9 DEF who
<1>. HIDE DEF s
<1>. QED  BY <1>1, <1>2, <1>3 DEF IsViewOf, InConflict, Refs

-------------------------------------------------------------------------------
(* The inductive invariant: the log grows by operations that the           *)
(* constructors accept, a view is of some part of the log, and a call is   *)
(* in one of its phases.                                                   *)

Suggestion == [Key -> Claim \cup {None}]

Asking == UNION {[K -> SUBSET Claim] : K \in SUBSET Key}

Calls ==
  {NoCall}
    \cup [at : {"between"}, log : SUBSET (Op \cup Decision), scope : Scope,
          verdict : Suggestion, left : Asking]
    \cup [at : {"joining", "looking"}, log : SUBSET (Op \cup Decision), scope : Scope,
          verdict : Suggestion, left : Asking, key : Key, asked : SUBSET Claim]

Workers ==
  {NoWorker}
    \cup [at : {"asking"}, api : {"responses", "chat"}]
    \cup [at : {"flushing", "exited"}, answer : Answer \cup {None}]
    \cup [at : {"crashed"}]

LogInv == OpsSound(log) /\ detectors \in {{}, Finding}

ViewInv ==
  view # None =>
    \E ops, scope, verdict :
      ops \subseteq log /\ OpsSound(ops) /\ scope \in Scope /\ LastView(ops, detectors, scope, verdict)

CallInv ==
  /\ call \in Calls
  /\ call # NoCall => OpsSound(call.log) /\ call.log \subseteq log
  /\ worker \in Workers
  /\ worker # NoWorker => call.at \in {"joining", "looking"}

IndexInv ==
  index # None =>
    /\ DOMAIN index = Key
    /\ \A k \in Key : /\ IsFiniteSet(index[k].claims)
                      /\ index[k] = IndexOf(Registry, index[k].claims)

AInv == LogInv /\ ViewInv /\ CallInv /\ IndexInv

(* The invariant holds of the empty memory.                                *)
LEMMA AInit == Init => AInv
<1>. SUFFICES ASSUME Init PROVE AInv
  OBVIOUS
<1>1. PICK x \in Beginnings : log = x[1] /\ detectors = x[2]
  BY DEF Init
<1>2. x[1] \in SUBSET Op /\ x[2] \in {{}, Finding} /\ IsFiniteSet(x[1])
  BY AgentAssumption
<1>3. LogInv
  <2>1. \A kind : Of(log, kind) \subseteq Of(Op, kind)
    BY <1>1, <1>2 DEF Of
  <2>. QED  BY <1>1, <1>2, <2>1, AgentAssumption DEF LogInv, OpsSound
<1>4. ViewInv /\ IndexInv
  BY DEF Init, ViewInv, IndexInv
<1>5. CallInv
  BY DEF Init, CallInv, Calls, Workers
<1>. QED  BY <1>3, <1>4, <1>5 DEF AInv

(* What an agent decides by: candidates that are finitely many claims.     *)
LEMMA ViewTypes ==
  ASSUME LogInv, ViewInv, view # None, NEW ref \in Refs
  PROVE  /\ view.scope \in Scope
         /\ view.who[ref] \subseteq Claim /\ IsFiniteSet(view.who[ref])
<1>1. PICK ops, scope, verdict :
        OpsSound(ops) /\ scope \in Scope /\ LastView(ops, detectors, scope, verdict)
  BY DEF ViewInv
<1>2. PICK findings \in {{}, Finding} : findings = detectors
  BY DEF LogInv
<1>. DEFINE s == StateOf(ops, Registry, findings)
<1>3. IsViewOf(view, s, scope, verdict)
  BY <1>1, <1>2, BuiltFacts DEF LastView
<1>4. IsFiniteSet(Who(s, ref)) /\ Who(s, ref) \subseteq Claim
  BY <1>1, WhoFacts
<1>. HIDE DEF s
<1>. QED  BY <1>1, <1>3, <1>4 DEF IsViewOf

(* An operation or a valid decision joins the log.                         *)
LEMMA LogGrows ==
  ASSUME LogInv, NEW o, log' = log \cup {o}, detectors' = detectors,
         o \in Op \/ /\ o \in Decision
                     /\ o.kind = "resolution" => ValidResolution(o)
  PROVE  LogInv'
<1>1. IsFiniteSet(log \cup {o})
  BY FS_AddElement DEF LogInv, OpsSound
<1>2. log \cup {o} \subseteq Op \cup Decision
  BY DEF LogInv, OpsSound
<1>3. \A x \in Of(log \cup {o}, "claim") : x.claim \in Claim
  BY AgentAssumption DEF LogInv, OpsSound, Of, Decision
<1>4. \A r \in Of(log \cup {o}, "resolution") : ValidResolution(r) /\ r.at \in Nat
  <2>1. CASE o \in Op
    BY <2>1, AgentAssumption DEF LogInv, OpsSound, Of
  <2>2. CASE o \in Decision /\ o.kind = "resolution"
    <3>1. o.at \in Nat
      BY <2>2 DEF Decision
    <3>2. CASE ValidResolution(o)
      BY <3>1, <3>2 DEF LogInv, OpsSound, Of
    <3>3. CASE o \in Op
      BY <3>3, AgentAssumption DEF LogInv, OpsSound, Of
    <3>. QED  BY <2>2, <3>2, <3>3
  <2>3. CASE o.kind # "resolution"
    BY <2>3 DEF LogInv, OpsSound, Of
  <2>. QED  BY <2>1, <2>2, <2>3
<1>5. \A e \in Of(log \cup {o}, "event") : ValidEvent(e) /\ e.at \in Nat
  <2>1. CASE o \in Op
    BY <2>1, AgentAssumption DEF LogInv, OpsSound, Of
  <2>2. CASE o \in Decision /\ o.kind = "event"
    BY <2>2 DEF LogInv, OpsSound, Of, Decision, ValidEvent
  <2>3. CASE o.kind # "event"
    BY <2>3 DEF LogInv, OpsSound, Of
  <2>. QED  BY <2>1, <2>2, <2>3
<1>6. OpsSound(log \cup {o})
  BY <1>1, <1>2, <1>3, <1>4, <1>5 DEF OpsSound
<1>. QED  BY <1>6 DEF LogInv

(* The clock of the memory is a natural number.                            *)
LEMMA NowIsNat == ASSUME LogInv PROVE Now \in Nat
<1>1. Deciding(log) \in SUBSET log
  BY DEF Deciding, Of
<1>2. IsFiniteSet(Deciding(log))
  BY <1>1, FS_Subset DEF LogInv, OpsSound
<1>. QED  BY <1>2, FS_CardinalityType DEF Now

(* What add_resolution writes about a reference of the last view is a      *)
(* resolution that the constructors accept.                                *)
LEMMA RulingIsDecision ==
  ASSUME LogInv, ViewInv, view # None, NEW ref \in Refs, NEW selected \in SUBSET view.who[ref],
         NEW outcome \in Outcome,
         outcome = "select" \/ (outcome \in {"preserve", "abstain"} /\ selected = {})
  PROVE  /\ Ruling(ref, outcome, selected) \in Decision
         /\ ValidResolution(Ruling(ref, outcome, selected))
<1>. DEFINE who == view.who[ref]
            rejected == IF outcome = "select" THEN who \ selected ELSE {}
            retained == IF outcome = "select" THEN {} ELSE who
<1>1. view.scope \in Scope /\ who \subseteq Claim
  BY ViewTypes
<1>2. Now \in Nat
  BY NowIsNat
<1>3. Ruling(ref, outcome, selected)
        = [kind |-> "resolution", id |-> Now, lane |-> <<ref, view.scope>>, seen |-> who,
           outcome |-> outcome, at |-> Now,
           selected |-> selected, rejected |-> rejected, retained |-> retained]
  BY DEF Ruling
<1>4. rejected \in SUBSET Claim /\ retained \in SUBSET Claim /\ selected \in SUBSET Claim
  BY <1>1
<1>5. /\ selected \cap (rejected \cup retained) = {} /\ rejected \cap retained = {}
      /\ outcome \in {"preserve", "abstain"} => selected \cup rejected = {}
      /\ outcome # "merge"
  OBVIOUS
<1>6. <<ref, view.scope>> \in Refs \X Scope
  BY <1>1
<1>. HIDE DEF rejected, retained
<1>7. ValidResolution(Ruling(ref, outcome, selected))
  BY <1>3, <1>5 DEF ValidResolution
<1>. HIDE DEF who
<1>8. Ruling(ref, outcome, selected) \in Decision
  BY <1>1, <1>2, <1>3, <1>4, <1>6 DEF Decision, who
<1>. QED  BY <1>7, <1>8

(* The log and the detectors.                                              *)
LEMMA LogStep == AInv /\ [Next]_vars => LogInv'
<1>. SUFFICES ASSUME AInv, [Next]_vars PROVE LogInv'
  OBVIOUS
<1>1. LogInv /\ ViewInv
  BY DEF AInv
<1>2. CASE log' = log /\ detectors' = detectors
  BY <1>1, <1>2 DEF LogInv
<1>3. ASSUME NEW o \in Op, Write(o) PROVE LogInv'
  BY <1>1, <1>3, LogGrows DEF Write
<1>4. ASSUME NEW ref \in Refs, NEW c \in Claim, Select(ref, c) PROVE LogInv'
  <2>1. /\ view # None /\ {c} \in SUBSET view.who[ref]
        /\ log' = log \cup {Ruling(ref, "select", {c})} /\ detectors' = detectors
    BY <1>4 DEF Select, CanDecide, Decided
  <2>2. "select" \in Outcome
    BY DEF Outcome
  <2>3. /\ Ruling(ref, "select", {c}) \in Decision
        /\ ValidResolution(Ruling(ref, "select", {c}))
    BY <1>1, <2>1, <2>2, RulingIsDecision
  <2>. QED  BY <1>1, <2>1, <2>3, LogGrows
<1>5. ASSUME NEW ref \in Refs, NEW outcome \in {"preserve", "abstain"}, Leave(ref, outcome)
      PROVE  LogInv'
  <2>1. /\ view # None /\ {} \in SUBSET view.who[ref]
        /\ log' = log \cup {Ruling(ref, outcome, {})} /\ detectors' = detectors
    BY <1>5 DEF Leave, CanDecide, Decided
  <2>2. outcome \in Outcome
    BY DEF Outcome
  <2>3. /\ Ruling(ref, outcome, {}) \in Decision
        /\ ValidResolution(Ruling(ref, outcome, {}))
    BY <1>1, <2>1, <2>2, RulingIsDecision
  <2>. QED  BY <1>1, <2>1, <2>3, LogGrows
<1>6. ASSUME NEW ref \in Refs, NEW status \in {"deferred", "reopened"}, Note(ref, status)
      PROVE  LogInv'
  <2>. DEFINE o == [kind |-> "event", id |-> Now, lane |-> <<ref, view.scope>>,
                    seen |-> view.who[ref], status |-> status, resolution |-> None, at |-> Now]
  <2>1. view # None /\ log' = log \cup {o} /\ detectors' = detectors
    BY <1>6 DEF Note, Decided
  <2>2. view.scope \in Scope /\ view.who[ref] \subseteq Claim /\ Now \in Nat
    BY <1>1, <2>1, ViewTypes, NowIsNat
  <2>3. o \in Decision
    BY <2>2 DEF Decision, Status
  <2>4. o.kind # "resolution"
    OBVIOUS
  <2>. HIDE DEF o
  <2>. QED  BY <1>1, <2>1, <2>3, <2>4, LogGrows
<1>. QED
  BY <1>2, <1>3, <1>4, <1>5, <1>6
  DEF Next, vars, View, BeginView, EndView, Ask, Joined, Deadline, TimesOut, WorkerFailed, Answered,
      Returns, Replies, ApiFails, Flushes, Crashes, WorkerStep

(* The last view.                                                          *)
LEMMA ViewStep == AInv /\ [Next]_vars => ViewInv'
<1>. SUFFICES ASSUME AInv, [Next]_vars PROVE ViewInv'
  OBVIOUS
<1>1. LogInv /\ ViewInv /\ CallInv
  BY DEF AInv
<1>2. CASE view' = view /\ detectors' = detectors /\ log \subseteq log'
  <2>1. SUFFICES ASSUME view # None
                 PROVE \E ops, scope, verdict :
                         /\ ops \subseteq log' /\ OpsSound(ops) /\ scope \in Scope
                         /\ view = Built(StateOf(ops, Registry, detectors), scope, verdict)
    BY <1>2 DEF ViewInv, LastView
  <2>2. PICK ops, scope, verdict :
          /\ ops \subseteq log /\ OpsSound(ops) /\ scope \in Scope
          /\ view = Built(StateOf(ops, Registry, detectors), scope, verdict)
    BY <1>1, <2>1 DEF ViewInv, LastView
  <2>3. ops \subseteq log'
    BY <1>2, <2>2
  <2>. QED  BY <2>2, <2>3
<1>3. CASE view' = None
  BY <1>3 DEF ViewInv
<1>4. ASSUME NEW scope \in Scope, NEW resolver \in {"none", "heuristic", "conservative"},
             View(scope, resolver)
      PROVE  ViewInv'
  <2>1. PICK verdict : view' = Built(StateOf(log, Registry, detectors), scope, verdict)
    BY <1>4 DEF View, StateAt
  <2>2. log' = log /\ detectors' = detectors /\ OpsSound(log)
    BY <1>1, <1>4 DEF View, LogInv
  <2>. QED  BY <2>1, <2>2 DEF ViewInv, LastView
<1>5. ASSUME EndView PROVE ViewInv'
  <2>1. /\ view' = Built(StateOf(call.log, Registry, detectors), call.scope, call.verdict)
        /\ log' = log /\ detectors' = detectors /\ call.at = "between"
    BY <1>5 DEF EndView, StateAt
  <2>2. call # NoCall
    BY <2>1 DEF NoCall
  <2>3. OpsSound(call.log) /\ call.log \subseteq log /\ call.scope \in Scope
    BY <1>1, <2>2 DEF CallInv, Calls
  <2>. QED  BY <2>1, <2>3 DEF ViewInv, LastView
<1>. QED
  BY <1>2, <1>3, <1>4, <1>5
  DEF Next, vars, Write, BeginView, Ask, Joined, Deadline, TimesOut, WorkerFailed, Answered,
      Returns, Replies, ApiFails, Flushes, Crashes, WorkerStep, Select, Leave, Note, Decided

(* The indexes.                                                            *)
LEMMA IndexStep == AInv /\ [Next]_vars => IndexInv'
<1>. SUFFICES ASSUME AInv, [Next]_vars PROVE IndexInv'
  OBVIOUS
<1>1. CASE index' = index
  BY <1>1 DEF AInv, IndexInv
<1>2. ASSUME index' = Materialised(StateAt(log))
      PROVE  IndexInv'
  <2>1. PICK findings \in {{}, Finding} : findings = detectors
    BY DEF AInv, LogInv
  <2>. DEFINE s == StateOf(log, Registry, findings)
  <2>2. index' = Materialised(s)
    BY <1>2, <2>1 DEF StateAt
  <2>3. \A k \in Key : IsFiniteSet(s.active[k])
    <3>1. OpsSound(log)
      BY DEF AInv, LogInv
    <3>. QED  BY <3>1, StateFacts
  <2>. HIDE DEF s
  <2>4. ASSUME NEW k \in Key, NEW x, x = IndexOf(Registry, s.active[k])
        PROVE  IsFiniteSet(x.claims) /\ x = IndexOf(Registry, x.claims)
    <3>1. x.claims = s.active[k]
      BY <2>4, IndexOfFacts
    <3>. QED  BY <2>3, <2>4, <3>1
  <2>5. CASE detectors # {}
    BY <2>2, <2>5 DEF Materialised, IndexInv
  <2>6. CASE detectors = {} /\ index = None
    <3>1. index' = [k \in Key |-> IndexOf(Registry, s.active[k])]
      BY <2>2, <2>6 DEF Materialised, IndexOf
    <3>. QED  BY <2>4, <3>1 DEF IndexInv
  <2>7. CASE detectors = {} /\ index # None
    <3>1. index' = [k \in Key |-> UpdatedIndex(index[k], Registry, s.active[k])]
      BY <2>2, <2>7 DEF Materialised
    <3>2. ASSUME NEW k \in Key
          PROVE  UpdatedIndex(index[k], Registry, s.active[k]) = IndexOf(Registry, s.active[k])
      <4>1. IsFiniteSet(index[k].claims) /\ index[k] = IndexOf(Registry, index[k].claims)
        BY <2>7, <3>2 DEF AInv, IndexInv
      <4>2. PICK before : before = index[k].claims
        OBVIOUS
      <4>3. UpdatedIndex(IndexOf(Registry, before), Registry, s.active[k])
              = IndexOf(Registry, s.active[k])
        BY <2>3, <3>2, <4>1, <4>2, IndexUpdateExact
      <4>. QED  BY <4>1, <4>2, <4>3
    <3>3. index' = [k \in Key |-> IndexOf(Registry, s.active[k])]
      BY <3>1, <3>2
    <3>. QED  BY <2>4, <3>3 DEF IndexInv
  <2>. QED  BY <2>5, <2>6, <2>7
<1>. QED
  BY <1>1, <1>2
  DEF Next, vars, View, Write, BeginView, EndView, Ask, Joined, Deadline, TimesOut, WorkerFailed,
      Answered, Returns, Replies, ApiFails, Flushes, Crashes, WorkerStep, Select, Leave, Note,
      Decided

(* The call that asks a model, and its worker.                             *)
Asked == call # NoCall => OpsSound(call.log) /\ call.log \subseteq log

(* A step that leaves the call of the model alone keeps what is known of   *)
(* it.                                                                     *)
LEMMA CallStays ==
  ASSUME CallInv, call' = call, log \subseteq log'
  PROVE  call' \in Calls /\ Asked'
BY DEF CallInv, Asked

(* When resolve returns, with a claim or with none, the invariant of the   *)
(* call holds again.                                                       *)
LEMMA ReturnsFacts ==
  ASSUME CallInv, call.at = "looking", NEW chosen \in Claim \cup {None}, Returns(chosen)
  PROVE  CallInv'
<1>1. call # NoCall
  BY DEF NoCall
<1>2. call \in [at : {"joining", "looking"}, log : SUBSET (Op \cup Decision), scope : Scope,
                verdict : Suggestion, left : Asking, key : Key, asked : SUBSET Claim]
  BY <1>1 DEF CallInv, Calls
<1>3. [call.verdict EXCEPT ![call.key] = chosen] \in Suggestion
  BY <1>2 DEF Suggestion
<1>4. /\ call' = [at |-> "between", log |-> call.log, scope |-> call.scope, left |-> call.left,
                  verdict |-> [call.verdict EXCEPT ![call.key] = chosen]]
      /\ worker' = NoWorker /\ log' = log
  BY DEF Returns
<1>5. call' \in Calls
  BY <1>2, <1>3, <1>4 DEF Calls
<1>6. call'.log = call.log
  BY <1>4
<1>7. Asked'
  BY <1>1, <1>4, <1>6 DEF CallInv, Asked
<1>. QED  BY <1>4, <1>5, <1>7 DEF CallInv, Asked, Workers

(* Every step keeps the invariant of the call.                             *)
LEMMA CallStep == AInv /\ [Next]_vars => CallInv'
<1>. SUFFICES ASSUME AInv, [Next]_vars PROVE CallInv'
  OBVIOUS
<1>1. LogInv /\ CallInv
  BY DEF AInv
<1>2. CASE call' = call /\ worker' = worker /\ log \subseteq log'
  BY <1>1, <1>2 DEF CallInv
<1>3. ASSUME NEW scope \in Scope, BeginView(scope) PROVE CallInv'
  <2>1. PICK findings \in {{}, Finding} : findings = detectors
    BY <1>1 DEF LogInv
  <2>. DEFINE s == StateOf(log, Registry, findings)
              left == [k \in Open(s, scope) |-> s.conflict[k].who]
  <2>2. /\ call' = [at |-> "between", log |-> log, scope |-> scope, verdict |-> NoVerdict,
                    left |-> left]
        /\ call = NoCall /\ worker' = worker /\ log' = log
    BY <1>3, <2>1 DEF BeginView, StateAt
  <2>3. left \in Asking
    <3>1. Open(s, scope) \in SUBSET Key
      BY DEF Open, InConflict
    <3>2. \A k \in Key : s.conflict[k].who \in SUBSET Claim
      <4>1. OpsSound(log)
        BY <1>1 DEF LogInv
      <4>. QED  BY <4>1, StateFacts
    <3>. HIDE DEF s
    <3>3. left \in [Open(s, scope) -> SUBSET Claim]
      BY <3>1, <3>2
    <3>. HIDE DEF left
    <3>. QED  BY <3>1, <3>3 DEF Asking
  <2>. HIDE DEF left
  <2>4. log \in SUBSET (Op \cup Decision) /\ OpsSound(log)
    BY <1>1 DEF LogInv, OpsSound
  <2>5. NoVerdict \in Suggestion
    BY DEF NoVerdict, Suggestion
  <2>6. call' \in Calls
    BY <2>2, <2>3, <2>4, <2>5 DEF Calls
  <2>7. worker = NoWorker
    BY <1>1, <2>2 DEF CallInv, NoCall
  <2>8. call'.log = log
    BY <2>2
  <2>. QED  BY <1>1, <2>2, <2>4, <2>6, <2>7, <2>8 DEF CallInv
<1>4. ASSUME EndView PROVE CallInv'
  <2>1. call' = NoCall /\ call.at = "between" /\ worker' = worker /\ log' = log
    BY <1>4 DEF EndView
  <2>2. worker = NoWorker
    BY <1>1, <2>1 DEF CallInv
  <2>. QED  BY <1>1, <2>1, <2>2 DEF CallInv, Calls
<1>5. ASSUME NEW k \in Key, Ask(k) PROVE CallInv'
  <2>1. /\ call.at = "between" /\ k \in DOMAIN call.left
        /\ call' = [at |-> "joining", log |-> call.log, scope |-> call.scope,
                    verdict |-> call.verdict,
                    left |-> Restrict(call.left, DOMAIN call.left \ {k}),
                    key |-> k, asked |-> call.left[k]]
        /\ worker' = [at |-> "asking", api |-> "responses"] /\ log' = log
    BY <1>5 DEF Ask
  <2>2. call # NoCall
    BY <2>1 DEF NoCall
  <2>3. call \in [at : {"between"}, log : SUBSET (Op \cup Decision), scope : Scope,
                  verdict : Suggestion, left : Asking]
    BY <1>1, <2>1, <2>2 DEF CallInv, Calls
  <2>4. PICK K \in SUBSET Key : call.left \in [K -> SUBSET Claim]
    BY <2>3 DEF Asking
  <2>5. call.left[k] \in SUBSET Claim
    BY <2>1, <2>4
  <2>6. Restrict(call.left, DOMAIN call.left \ {k}) \in [K \ {k} -> SUBSET Claim]
    BY <2>4 DEF Restrict
  <2>7. Restrict(call.left, DOMAIN call.left \ {k}) \in Asking
    BY <2>6 DEF Asking
  <2>8. call' \in Calls
    BY <1>5, <2>1, <2>3, <2>5, <2>7 DEF Calls
  <2>9. call'.log = call.log /\ call'.at = "joining"
    BY <2>1
  <2>10. worker' \in Workers
    BY <2>1 DEF Workers
  <2>. QED  BY <1>1, <2>1, <2>2, <2>8, <2>9, <2>10 DEF CallInv
<1>6. ASSUME call.at = "joining", call' = [call EXCEPT !.at = "looking"],
             worker' = worker, log' = log
      PROVE  CallInv'
  <2>1. call # NoCall
    BY <1>6 DEF NoCall
  <2>2. call \in [at : {"joining", "looking"}, log : SUBSET (Op \cup Decision), scope : Scope,
                  verdict : Suggestion, left : Asking, key : Key, asked : SUBSET Claim]
    BY <1>1, <1>6, <2>1 DEF CallInv, Calls
  <2>3. call'.log = call.log /\ call'.at = "looking" /\ call' \in Calls
    BY <1>6, <2>2 DEF Calls
  <2>. QED  BY <1>1, <1>6, <2>1, <2>3 DEF CallInv
<1>7. ASSUME call.at = "looking", Returns(None) PROVE CallInv'
  BY <1>1, <1>7, ReturnsFacts
<1>8. ASSUME Answered PROVE CallInv'
  <2>1. call.at = "looking" /\ Returns(Parsed(worker.answer, call.asked))
    BY <1>8 DEF Answered
  <2>2. call # NoCall
    BY <2>1 DEF NoCall
  <2>3. call.asked \subseteq Claim
    BY <1>1, <2>1, <2>2 DEF CallInv, Calls
  <2>4. Parsed(worker.answer, call.asked) \in Claim \cup {None}
    BY <2>3 DEF Parsed
  <2>. QED  BY <1>1, <2>1, <2>4, ReturnsFacts
<1>9. ASSUME call' = call, log' = log, worker.at \in {"asking", "flushing"}, worker' \in Workers
      PROVE  CallInv'
  <2>1. worker # NoWorker
    BY <1>9 DEF NoWorker
  <2>. QED  BY <1>1, <1>9, <2>1 DEF CallInv
<1>10. ASSUME NEW answer \in Answer, Replies(answer) PROVE CallInv'
  <2>1. worker' \in Workers
    BY <1>10 DEF Replies, WorkerStep, Workers
  <2>. QED  BY <1>9, <1>10, <2>1 DEF Replies, WorkerStep
<1>11. ASSUME ApiFails PROVE CallInv'
  <2>1. worker.at = "asking" /\ worker # NoWorker
    BY <1>11 DEF ApiFails, NoWorker
  <2>2. worker \in [at : {"asking"}, api : {"responses", "chat"}]
    BY <1>1, <2>1 DEF CallInv, Workers
  <2>3. worker' \in Workers
    BY <1>11, <2>2 DEF ApiFails, WorkerStep, Workers, Failure
  <2>. QED  BY <1>9, <1>11, <2>3 DEF ApiFails, WorkerStep
<1>12. ASSUME Flushes PROVE CallInv'
  <2>1. worker.at = "flushing" /\ worker # NoWorker
    BY <1>12 DEF Flushes, NoWorker
  <2>2. worker \in [at : {"flushing", "exited"}, answer : Answer \cup {None}]
    BY <1>1, <2>1 DEF CallInv, Workers
  <2>3. worker' \in Workers
    BY <1>12, <2>2 DEF Flushes, WorkerStep, Workers
  <2>. QED  BY <1>9, <1>12, <2>3 DEF Flushes, WorkerStep
<1>13. ASSUME Crashes PROVE CallInv'
  <2>1. worker' \in Workers
    BY <1>13 DEF Crashes, WorkerStep, Workers
  <2>. QED  BY <1>9, <1>13, <2>1 DEF Crashes, WorkerStep
<1>14. CASE Joined
  BY <1>6, <1>14 DEF Joined
<1>15. CASE Deadline
  BY <1>6, <1>15 DEF Deadline
<1>16. CASE TimesOut \/ WorkerFailed
  BY <1>7, <1>16 DEF TimesOut, WorkerFailed
<1>. QED
  BY <1>2, <1>3, <1>4, <1>5, <1>8, <1>10, <1>11, <1>12, <1>13, <1>14, <1>15, <1>16
  DEF Next, vars, View, Write, Select, Leave, Note, Decided

-------------------------------------------------------------------------------
(* The invariant holds in every reachable state.                           *)
LEMMA AInvariant == Spec => []AInv
<1>1. AInv /\ [Next]_vars => AInv'
  BY LogStep, ViewStep, CallStep, IndexStep DEF AInv
<1>. QED  BY <1>1, AInit, PTL DEF Spec

(* The log only holds operations that the constructors accept, a view is   *)
(* of a known scope and of resolutions of the log, and a suggestion is     *)
(* never an id that a model made up.                                       *)
THEOREM ViewsTypeCorrect == Spec => []TypeOK
<1>1. AInv => TypeOK
  <2>. SUFFICES ASSUME AInv PROVE TypeOK
    OBVIOUS
  <2>1. /\ log \subseteq Op \cup Decision
        /\ \A r \in Of(log, "resolution") : ValidResolution(r)
        /\ detectors \in {{}, Finding}
    BY DEF AInv, LogInv, OpsSound
  <2>2. index # None => DOMAIN index = Key
    BY DEF AInv, IndexInv
  <2>3. ASSUME view # None
        PROVE  /\ view.scope \in Scope /\ DOMAIN view.key = Key
               /\ \A ref \in Refs : view.by[ref] \in Of(log, "resolution") \cup {None}
    <3>1. PICK ops, scope, verdict :
            /\ ops \subseteq log /\ OpsSound(ops) /\ scope \in Scope
            /\ LastView(ops, detectors, scope, verdict)
      BY <2>3 DEF AInv, ViewInv
    <3>2. PICK findings \in {{}, Finding} : findings = detectors
      BY <2>1
    <3>. DEFINE s == StateOf(ops, Registry, findings)
    <3>3. IsViewOf(view, s, scope, verdict)
      BY <3>1, <3>2, BuiltFacts DEF LastView
    <3>4. ASSUME NEW ref \in Refs, Chosen(s, ref, scope).applied
          PROVE  Chosen(s, ref, scope).by \in Of(ops, "resolution")
      <4>1. IsFiniteSet(Who(s, ref))
        BY <3>1, <3>4, WhoFacts
      <4>. QED  BY <3>1, <3>4, <4>1, CommittedFacts DEF Chosen
    <3>5. Of(ops, "resolution") \subseteq Of(log, "resolution")
      BY <3>1 DEF Of
    <3>. HIDE DEF s
    <3>. QED  BY <3>1, <3>3, <3>4, <3>5 DEF IsViewOf
  <2>4. CallInv
    BY DEF AInv
  <2>5. call.at \in {"idle", "between", "joining", "looking"}
    BY <2>4 DEF CallInv, Calls, NoCall
  <2>6. call # NoCall => call.verdict \in [Key -> Claim \cup {None}]
    BY <2>4 DEF CallInv, Calls, Suggestion
  <2>7. worker.at \in {"none", "asking", "flushing", "exited", "crashed"}
    BY <2>4 DEF CallInv, Workers, NoWorker
  <2>8. worker # NoWorker => call.at \in {"joining", "looking"}
    BY <2>4 DEF CallInv
  <2>. QED  BY <2>1, <2>2, <2>3, <2>5, <2>6, <2>7, <2>8 DEF TypeOK
<1>. QED  BY <1>1, AInvariant, PTL

(* What holds of every view of a part of the log holds of the last view.   *)
LEMMA LastViewFacts ==
  ASSUME AInv, view # None
  PROVE  \E findings \in {{}, Finding} : \E ops, scope, verdict :
           OpsSound(ops) /\ scope \in Scope /\ LastView(ops, findings, scope, verdict)
BY DEF AInv, ViewInv, LogInv

(* A candidate that the resolution in force rejects is shown nowhere, and  *)
(* what the resolution selects is what its key shows: build_view, for any  *)
(* log, scope and suggestions.                                             *)
THEOREM CommittedChoicesStand == Spec => []CommittedStands
<1>1. AInv => CommittedStands
  <2>1. CASE view = None
    BY <2>1 DEF CommittedStands
  <2>2. ASSUME AInv, view # None PROVE CommittedStands
    BY <2>2, LastViewFacts, CommittedInView
  <2>. QED  BY <2>1, <2>2
<1>. QED  BY <1>1, AInvariant, PTL

(* A view leaves an active claim out only for a decision that was made by  *)
(* someone who had its value before them.                                  *)
THEOREM NoDecisionOnTheUnseen == Spec => []UnseenNeverOverruled
<1>1. AInv => UnseenNeverOverruled
  <2>1. CASE view = None
    BY <2>1 DEF UnseenNeverOverruled
  <2>2. ASSUME AInv, view # None PROVE UnseenNeverOverruled
    BY <2>2, LastViewFacts, UnseenInView
  <2>. QED  BY <2>1, <2>2
<1>. QED  BY <1>1, AInvariant, PTL

(* find_conflicts by a context finds what materialising for the context    *)
(* would, and lists as open exactly what the view of the same scope leaves *)
(* unresolved.                                                             *)
THEOREM QueriesAgreeWithViews == Spec => []QueriesExact
<1>1. AInv => QueriesExact
  <2>1. ASSUME AInv, view # None PROVE view.open = view.unresolved \cap Key
    BY <2>1, LastViewFacts, OpenInView
  <2>. QED  BY <2>1, QueriesFindExactly DEF QueriesExact
<1>. QED  BY <1>1, AInvariant, PTL

(* Claims are compared exactly when they apply together somewhere, a       *)
(* conflict is marked aggregate exactly when its candidates never do, and  *)
(* a view names as candidates exactly the active claims that meet one of   *)
(* another value: for any shapes of the claims and any log.                *)
THEOREM CandidatesExact == Spec => []ApplicabilityExact
<1>1. AInv => ApplicabilityExact
  <2>1. ASSUME AInv, view # None, NEW k \in Key
        PROVE  view.who[k] = {c \in view.active[k] : \E d \in view.active[k] : <<c, d>> \in Rivals}
    <3>1. PICK findings \in {{}, Finding} : \E ops, scope, verdict :
            OpsSound(ops) /\ scope \in Scope /\ LastView(ops, findings, scope, verdict)
      BY <2>1, LastViewFacts
    <3>2. PICK ops, scope, verdict :
            OpsSound(ops) /\ scope \in Scope /\ LastView(ops, findings, scope, verdict)
      BY <3>1
    <3>. QED  BY <2>1, <3>2, CandidatesInView
  <2>. QED
    BY <2>1, OverlapsJudgedRightly, AggregatesAnnotatedRightly DEF ApplicabilityExact
<1>. QED  BY <1>1, AInvariant, PTL

(* The indexes that are kept with the materialised state are those that    *)
(* would be made of their claims at once, however the log grew between two *)
(* materialisations: update_direct_conflict_index, for any claims.         *)
THEOREM IndexesStayExact == Spec => []IndexExact
<1>1. AInv => IndexExact
  BY DEF AInv, IndexInv, IndexExact, IndexOf
<1>. QED  BY <1>1, AInvariant, PTL

-------------------------------------------------------------------------------
(* Finite orders                                                            *)

(* A relation on a set U that is irreflexive and transitive.               *)
StrictOrder(R, U) ==
  /\ \A u \in U : <<u, u>> \notin R
  /\ \A u, v, w \in U : <<u, v>> \in R /\ <<v, w>> \in R => <<u, w>> \in R

(* A finite strict order has maximal elements, above any element.          *)
LEMMA MaximalAbove ==
  ASSUME NEW U, IsFiniteSet(U), NEW R, NEW y \in U, StrictOrder(R, U)
  PROVE  \E m \in U : /\ m = y \/ <<m, y>> \in R
                      /\ \A u \in U : <<u, m>> \notin R
<1>. DEFINE Up(z) == {u \in U : <<u, z>> \in R}
            V == {z \in U : z = y \/ <<z, y>> \in R}
            Ups == {Up(z) : z \in V}
            Ord == StrictSubsetOrdering(U)
<1>1. IsWellFoundedOn(Ord, FiniteSubsetsOf(U))
  BY FS_StrictSubsetOrderingWellFounded
<1>2. Ups \subseteq FiniteSubsetsOf(U) /\ Ups # {}
  <2>1. \A z \in V : Up(z) \in SUBSET U /\ IsFiniteSet(Up(z))
    BY FS_Subset
  <2>2. y \in V
    OBVIOUS
  <2>. HIDE DEF Up, V
  <2>. QED  BY <2>1, <2>2 DEF FiniteSubsetsOf
<1>. HIDE DEF Ord, Ups
<1>3. PICK X \in Ups : \A Y \in Ups : ~ (<<Y, X>> \in Ord)
  BY <1>1, <1>2, WFMin
<1>. USE DEF Ups
<1>4. PICK m \in V : X = Up(m)
  BY <1>3
<1>5. ASSUME NEW u \in U, <<u, m>> \in R PROVE FALSE
  <2>1. u \in V
    BY <1>4, <1>5 DEF StrictOrder
  <2>2. Up(u) \subseteq Up(m) /\ u \in Up(m) /\ u \notin Up(u)
    BY <1>4, <1>5 DEF StrictOrder
  <2>3. Up(u) \in SUBSET U /\ Up(m) \in SUBSET U /\ Up(u) # Up(m)
    BY <2>2
  <2>. HIDE DEF Up
  <2>4. <<Up(u), Up(m)>> \in Ord
    BY <2>2, <2>3 DEF Ord, StrictSubsetOrdering
  <2>. QED  BY <1>3, <1>4, <2>1, <2>4
<1>. QED  BY <1>4, <1>5

-------------------------------------------------------------------------------
(* Clocks                                                                  *)

(* A clock counts a natural number for every replica, and zero for one     *)
(* that it does not name.                                                  *)
LEMMA TicksFacts ==
  ASSUME NEW x, Counts(x), NEW p
  PROVE  Ticks(x, p) \in Nat /\ (p \notin DOMAIN x => Ticks(x, p) = 0)
BY DEF Counts, Ticks

(* _dominates compares the replicas that either clock names; the others    *)
(* count zero in both, so it compares all.                                 *)
LEMMA DominatesFacts ==
  ASSUME NEW x, Counts(x), NEW y, Counts(y)
  PROVE  Dominates(x, y) <=>
           /\ \A p : Ticks(x, p) >= Ticks(y, p)
           /\ \E p : Ticks(x, p) > Ticks(y, p)
BY TicksFacts DEF Dominates

(* Domination is a strict order: _dominates, for any three clocks.         *)
LEMMA DominanceIsOrder ==
  ASSUME NEW x, Counts(x), NEW y, Counts(y), NEW z, Counts(z)
  PROVE  /\ ~ Dominates(x, x)
         /\ Dominates(x, y) => ~ Dominates(y, x)
         /\ Dominates(x, y) /\ Dominates(y, z) => Dominates(x, z)
<1>1. /\ ~ Dominates(x, x)
      /\ Dominates(x, y) => ~ Dominates(y, x)
  BY TicksFacts, DominatesFacts
<1>2. ASSUME Dominates(x, y), Dominates(y, z) PROVE Dominates(x, z)
  <2>1. \A p : Ticks(x, p) \in Nat /\ Ticks(y, p) \in Nat /\ Ticks(z, p) \in Nat
    BY TicksFacts
  <2>. QED  BY <1>2, <2>1, DominatesFacts
<1>. QED  BY <1>1, <1>2

(* CausalResolver.resolve: in a finite order, the only write that no other *)
(* one dominates is the one that dominates all the others.                 *)
LEMMA CausalFacts ==
  ASSUME NEW writes, IsFiniteSet(writes), None \notin writes,
         \A x \in writes : Counts(x.clock) /\ DOMAIN x.clock # {},
         \E x, y \in writes : x # y
  PROVE  {Causal(Direct, writes, Sure)} \ {Abstained} = {x \in writes : DominatesAll(x, writes)}
<1>1. Cardinality(writes) > 1
  <2>1. Cardinality(writes) \in Nat /\ Cardinality(writes) # 0 /\ Cardinality(writes) # 1
    BY FS_CardinalityType, FS_EmptySet, FS_Singleton
  <2>. QED  BY <2>1
<1>2. Sure.replacement /\ Sure.causality /\ Direct \in AcceptedTypes
  BY DEF Sure, AcceptedTypes
<1>3. \A x, y, z \in writes :
        /\ ~ Dominates(x.clock, x.clock)
        /\ Dominates(x.clock, y.clock) => ~ Dominates(y.clock, x.clock)
        /\ Dominates(x.clock, y.clock) /\ Dominates(y.clock, z.clock) => Dominates(x.clock, z.clock)
  BY DominanceIsOrder
<1>4. ASSUME NEW x \in writes, DominatesAll(x, writes)
      PROVE  Maximal(writes) = {x}
  BY <1>3, <1>4 DEF Maximal, DominatesAll
<1>5. ASSUME NEW x, Maximal(writes) = {x}
      PROVE  x \in writes /\ DominatesAll(x, writes)
  <2>1. x \in writes
    BY <1>5 DEF Maximal
  <2>2. ASSUME NEW y \in writes, y # x PROVE Dominates(x.clock, y.clock)
    <3>. DEFINE R == {p \in writes \X writes : Dominates(p[1].clock, p[2].clock)}
    <3>1. \A u, v \in writes : <<u, v>> \in R <=> Dominates(u.clock, v.clock)
      OBVIOUS
    <3>. HIDE DEF R
    <3>2. StrictOrder(R, writes)
      BY <1>3, <3>1 DEF StrictOrder
    <3>3. PICK m \in writes : /\ m = y \/ <<m, y>> \in R
                              /\ \A u \in writes : <<u, m>> \notin R
      BY <2>2, <3>2, MaximalAbove
    <3>4. m \in Maximal(writes)
      BY <3>1, <3>3 DEF Maximal
    <3>. QED  BY <1>5, <2>2, <3>1, <3>3, <3>4
  <2>. QED  BY <2>1, <2>2 DEF DominatesAll
<1>6. Maximal(writes) \in SUBSET writes
  BY DEF Maximal
<1>7. CASE \E x \in writes : DominatesAll(x, writes)
  <2>1. PICK x \in writes : DominatesAll(x, writes)
    BY <1>7
  <2>2. Maximal(writes) = {x}
    BY <1>4, <2>1
  <2>3. Cardinality(Maximal(writes)) = 1
    BY <2>2, FS_Singleton
  <2>4. Causal(Direct, writes, Sure) = x
    BY <1>1, <1>2, <2>2, <2>3 DEF Causal
  <2>5. \A y \in writes : DominatesAll(y, writes) => y = x
    BY <1>4, <2>2
  <2>. QED  BY <2>1, <2>4, <2>5 DEF Abstained
<1>8. CASE \A x \in writes : ~ DominatesAll(x, writes)
  <2>1. Cardinality(Maximal(writes)) # 1
    BY <1>5, <1>6, <1>8, FS_Subset, FS_Singleton
  <2>. QED  BY <1>8, <2>1 DEF Causal, Abstained
<1>. QED  BY <1>7, <1>8

(* A clock that dominates another one has counted more.                    *)
LEMMA TotalGrows ==
  ASSUME NEW x, Counts(x), NEW y, Counts(y), Dominates(x, y)
  PROVE  Total(x) \in Nat /\ Total(y) \in Nat /\ Total(y) < Total(x)
<1>. DEFINE Counted(t) == UNION {{p} \X (1 .. t[p]) : p \in DOMAIN t}
<1>1. ASSUME NEW t, Counts(t)
      PROVE  IsFiniteSet(Counted(t)) /\ Total(t) = Cardinality(Counted(t))
  <2>. DEFINE Of1(p) == {p} \X (1 .. t[p])
              f == [p \in DOMAIN t |-> Of1(p)]
              g(p) == [n \in 1 .. t[p] |-> <<p, n>>]
  <2>1. ASSUME NEW p \in DOMAIN t PROVE IsFiniteSet(Of1(p))
    <3>1. t[p] \in Nat
      BY <1>1 DEF Counts
    <3>2. IsFiniteSet(1 .. t[p])
      BY <3>1, FS_Interval
    <3>3. g(p) \in Surjection(1 .. t[p], Of1(p))
      BY DEF Surjection
    <3>. QED  BY <3>2, <3>3, FS_Surjection
  <2>2. IsFiniteSet({Of1(p) : p \in DOMAIN t})
    <3>1. f \in Surjection(DOMAIN t, {Of1(p) : p \in DOMAIN t})
      BY DEF Surjection
    <3>. QED  BY <1>1, <3>1, FS_Surjection DEF Counts
  <2>3. \A T \in {Of1(p) : p \in DOMAIN t} : IsFiniteSet(T)
    BY <2>1
  <2>4. IsFiniteSet(UNION {Of1(p) : p \in DOMAIN t})
    BY <2>2, <2>3, FS_UNION
  <2>. QED  BY <2>4 DEF Total
<1>2. \A t, p, n : Counts(t) => (<<p, n>> \in Counted(t) <=> n \in 1 .. Ticks(t, p))
  <2>. TAKE t, p, n
  <2>. HAVE Counts(t)
  <2>1. p \in DOMAIN t => t[p] \in Nat
    BY DEF Counts
  <2>2. <<p, n>> \in Counted(t) <=> p \in DOMAIN t /\ n \in 1 .. t[p]
    OBVIOUS
  <2>. QED  BY <2>1, <2>2 DEF Ticks
<1>3. \A t : Counts(t) => \A e \in Counted(t) : \E p, n : e = <<p, n>>
  OBVIOUS
<1>. HIDE DEF Counted
<1>4. /\ \A p : Ticks(x, p) \in Nat /\ Ticks(y, p) \in Nat /\ Ticks(x, p) >= Ticks(y, p)
      /\ \E p : Ticks(x, p) > Ticks(y, p)
  BY TicksFacts, DominatesFacts
<1>5. Counted(y) \subseteq Counted(x)
  <2>. SUFFICES ASSUME NEW p, NEW n, <<p, n>> \in Counted(y) PROVE <<p, n>> \in Counted(x)
    BY <1>3
  <2>. QED  BY <1>2, <1>4
<1>6. Counted(y) # Counted(x)
  <2>1. PICK p : Ticks(x, p) > Ticks(y, p)
    BY <1>4
  <2>2. <<p, Ticks(x, p)>> \in Counted(x) /\ <<p, Ticks(x, p)>> \notin Counted(y)
    BY <1>2, <1>4, <2>1
  <2>. QED  BY <2>2
<1>7. Cardinality(Counted(y)) <= Cardinality(Counted(x)) /\ Cardinality(Counted(y)) # Cardinality(Counted(x))
  BY <1>1, <1>5, <1>6, FS_Subset
<1>. QED  BY <1>1, <1>7, FS_CardinalityType

(* The lists of clocks as writes: two or more, of which the causal and the *)
(* latest one are the same where both are chosen.                          *)
THEOREM CausalityRespected == Misordered = {}
<1>1. ASSUME NEW t \in Lists(Clock \ {<<>>})
      PROVE  LET writes == Written(t)
                 x == Routed([type \in {Direct} |-> "causal"], Direct, writes, Sure)
                 latest == LatestWriteWins(Direct, writes, Sure)
             IN /\ {x} \ {Abstained} = {y \in writes : DominatesAll(y, writes)}
                /\ x # Abstained /\ latest # Abstained => x = latest
  <2>. DEFINE writes == Written(t)
              x == Routed([type \in {Direct} |-> "causal"], Direct, writes, Sure)
              latest == LatestWriteWins(Direct, writes, Sure)
  <2>1. /\ DOMAIN t = 1 .. 2 \/ DOMAIN t = 1 .. 3
        /\ \A i \in DOMAIN t : t[i] \in Clock \ {<<>>}
    BY DEF Lists
  <2>2. \A i \in DOMAIN t : Counts(t[i]) /\ DOMAIN t[i] # {}
    <3>. TAKE i \in DOMAIN t
    <3>1. Counts(t[i]) /\ t[i] # <<>>
      BY <2>1, ResolverAssumption
    <3>2. t[i] \in [DOMAIN t[i] -> Nat]
      BY <3>1 DEF Counts
    <3>3. \A g \in [{} -> Nat] : g = <<>>
      OBVIOUS
    <3>. QED  BY <3>1, <3>2, <3>3
  <2>3. IsFiniteSet(writes)
    <3>. DEFINE write(i) == [id |-> i, branch |-> 1, time |-> Total(t[i]), clock |-> t[i]]
                f == [i \in DOMAIN t |-> write(i)]
    <3>1. IsFiniteSet(DOMAIN t)
      <4>1. \A n \in Int : IsFiniteSet(1 .. n)
        BY FS_Interval
      <4>. QED  BY <2>1, <4>1
    <3>2. f \in Surjection(DOMAIN t, {write(i) : i \in DOMAIN t})
      BY DEF Surjection
    <3>. QED  BY <3>1, <3>2, FS_Surjection DEF Written
  <2>4. \A y \in writes : /\ Counts(y.clock) /\ DOMAIN y.clock # {}
                          /\ y.time = Total(y.clock)
    BY <2>2 DEF Written
  <2>5. \E y, z \in writes : y # z
    <3>1. 1 \in DOMAIN t /\ 2 \in DOMAIN t
      BY <2>1
    <3>. DEFINE write(i) == [id |-> i, branch |-> 1, time |-> Total(t[i]), clock |-> t[i]]
    <3>2. write(1) \in writes /\ write(2) \in writes
      BY <3>1 DEF Written
    <3>3. write(1).id = 1 /\ write(2).id = 2
      OBVIOUS
    <3>. HIDE DEF write, writes
    <3>4. write(1) # write(2)
      BY <3>3
    <3>. QED  BY <3>2, <3>4
  <2>6. None \notin writes
    BY <2>1, NoWriteIsNone DEF Lists
  <2>7. x = Causal(Direct, writes, Sure)
    BY DEF Routed
  <2>. HIDE DEF x, writes
  <2>8. {x} \ {Abstained} = {y \in writes : DominatesAll(y, writes)}
    BY <2>3, <2>4, <2>5, <2>6, <2>7, CausalFacts
  <2>9. ASSUME x # Abstained, latest # Abstained PROVE x = latest
    <3>1. x \in writes /\ DominatesAll(x, writes)
      BY <2>8, <2>9
    <3>2. \A y \in writes \ {x} : y.time < x.time /\ y.time \in Nat /\ x.time \in Nat
      BY <2>4, <3>1, TotalGrows DEF DominatesAll
    <3>3. PICK y \in writes : y # x
      BY <2>5, <3>1
    <3>4. latest = CHOOSE z \in writes : \A y1 \in writes : y1.time <= z.time
      BY <2>9 DEF LatestWriteWins
    <3>5. \A y1 \in writes : y1.time <= x.time
      BY <3>2, <3>3
    <3>6. \A z \in writes : (\A y1 \in writes : y1.time <= z.time) => z = x
      BY <3>1, <3>2
    <3>. HIDE DEF latest
    <3>. QED  BY <3>1, <3>4, <3>5, <3>6
  <2>. QED  BY <2>8, <2>9 DEF x, writes
<1>. QED  BY <1>1 DEF Misordered

-------------------------------------------------------------------------------
(* Scores                                                                  *)

(* The order of tuples by which scores are compared is strict and total.   *)
LEMMA LexicographicOrder ==
  ASSUME NEW n \in Nat, NEW x \in [1 .. n -> Int], NEW y \in [1 .. n -> Int],
         NEW z \in [1 .. n -> Int]
  PROVE  /\ ~ Lower(x, x)
         /\ Lower(x, y) => ~ Lower(y, x)
         /\ Lower(x, y) /\ Lower(y, z) => Lower(x, z)
         /\ ~ Lower(x, y) /\ ~ Lower(y, x) => x = y
<1>1. ~ Lower(x, x)
  BY DEF Lower
<1>2. ASSUME Lower(x, y), Lower(y, x) PROVE FALSE
  <2>1. PICK i \in 1 .. n : x[i] < y[i] /\ \A j \in 1 .. (i - 1) : x[j] = y[j]
    BY <1>2 DEF Lower
  <2>2. PICK l \in 1 .. n : y[l] < x[l] /\ \A j \in 1 .. (l - 1) : y[j] = x[j]
    BY <1>2 DEF Lower
  <2>3. i \in Int /\ l \in Int /\ x[i] \in Int /\ y[i] \in Int /\ x[l] \in Int /\ y[l] \in Int
    OBVIOUS
  <2>4. ~ (i < l) /\ ~ (l < i) /\ i # l
    BY <2>1, <2>2, <2>3
  <2>. QED  BY <2>3, <2>4
<1>3. ASSUME Lower(x, y), Lower(y, z) PROVE Lower(x, z)
  <2>1. PICK i \in 1 .. n : x[i] < y[i] /\ \A j \in 1 .. (i - 1) : x[j] = y[j]
    BY <1>3 DEF Lower
  <2>2. PICK l \in 1 .. n : y[l] < z[l] /\ \A j \in 1 .. (l - 1) : y[j] = z[j]
    BY <1>3 DEF Lower
  <2>3. \A j \in 1 .. n : x[j] \in Int /\ y[j] \in Int /\ z[j] \in Int
    OBVIOUS
  <2>4. CASE i <= l
    <3>1. x[i] < z[i] /\ \A j \in 1 .. (i - 1) : x[j] = z[j]
      BY <2>1, <2>2, <2>3, <2>4
    <3>. QED  BY <3>1 DEF Lower
  <2>5. CASE l < i
    <3>1. x[l] < z[l] /\ \A j \in 1 .. (l - 1) : x[j] = z[j]
      BY <2>1, <2>2, <2>3, <2>5
    <3>. QED  BY <3>1 DEF Lower
  <2>. QED  BY <2>4, <2>5
<1>4. ASSUME x # y PROVE Lower(x, y) \/ Lower(y, x)
  <2>. DEFINE D == {i \in 1 .. n : x[i] # y[i]}
  <2>1. D \in SUBSET Int /\ IsFiniteSet(D) /\ D # {}
    <3>1. IsFiniteSet(1 .. n)
      BY FS_Interval
    <3>2. IsFiniteSet(D)
      BY <3>1, FS_Subset
    <3>3. ASSUME D = {} PROVE FALSE
      <4>1. \A i \in 1 .. n : x[i] = y[i]
        BY <3>3
      <4>2. x = [i \in 1 .. n |-> x[i]] /\ y = [i \in 1 .. n |-> y[i]]
        OBVIOUS
      <4>. QED  BY <1>4, <4>1, <4>2, Zenon
    <3>4. D \in SUBSET Int
      OBVIOUS
    <3>. QED  BY <3>2, <3>3, <3>4
  <2>2. Min(D) \in D /\ \A i \in D : Min(D) <= i
    BY <2>1, MinFacts
  <2>3. PICK i \in 1 .. n : x[i] # y[i] /\ \A l \in D : i <= l
    BY <2>2
  <2>4. \A j \in 1 .. (i - 1) : x[j] = y[j]
    BY <2>3
  <2>5. x[i] < y[i] \/ y[i] < x[i]
    BY <2>3
  <2>. QED  BY <2>3, <2>4, <2>5 DEF Lower
<1>. QED  BY <1>1, <1>2, <1>3, <1>4

(* A function on 1 .. n is a tuple of length n.                            *)
LEMMA FunctionIsTuple ==
  ASSUME NEW n \in Nat, NEW f \in [1 .. n -> Int]
  PROVE  f \in Seq(Int) /\ Len(f) = n
<1>1. f \in Seq(Int)
  OBVIOUS
<1>2. DOMAIN f = 1 .. Len(f) /\ DOMAIN f = 1 .. n /\ Len(f) \in Nat
  BY <1>1, LenProperties
<1>. DEFINE l == Len(f)
<1>3. \A i \in Int : i \in 1 .. l <=> i \in 1 .. n
  BY <1>2
<1>. HIDE DEF l
<1>4. l \in Nat
  BY <1>2 DEF l
<1>5. (l \in 1 .. l <=> l \in 1 .. n) /\ (n \in 1 .. l <=> n \in 1 .. n)
  BY <1>3, <1>4
<1>6. l = n
  BY <1>4, <1>5
<1>. QED  BY <1>1, <1>6 DEF l

(* Candidates with scores of equal length.                                 *)
Comparable(X) ==
  /\ \A x \in X : x.rank \in Seq(Int) /\ x.own \in [1 .. 4 -> Int] /\ x.id \in Int
  /\ \A x, y \in X : Len(x.rank) = Len(y.rank)

(* The full scores of two candidates are tuples of equal length, and they  *)
(* are equal exactly when both of their parts are.                         *)
LEMMA ScoreFacts ==
  ASSUME NEW X, Comparable(X), NEW x \in X, NEW y \in X
  PROVE  /\ x.rank \o x.own \in [1 .. Len(x.rank) + 4 -> Int]
         /\ x.rank \o x.own = y.rank \o y.own <=> Equals(x, y)
<1>1. /\ x.rank \in Seq(Int) /\ y.rank \in Seq(Int) /\ Len(x.rank) = Len(y.rank)
      /\ x.own \in [1 .. 4 -> Int] /\ y.own \in [1 .. 4 -> Int]
  BY DEF Comparable
<1>2. \A f \in [1 .. 4 -> Int] : f \in Seq(Int) /\ Len(f) = 4
  BY FunctionIsTuple
<1>3. x.own \in Seq(Int) /\ y.own \in Seq(Int) /\ Len(x.own) = 4 /\ Len(y.own) = 4
  BY <1>1, <1>2
<1>. DEFINE r == Len(x.rank)
<1>4. r \in Nat /\ Len(y.rank) = r
  BY <1>1, LenProperties
<1>. DEFINE Appended(c) ==
              \A i \in 1 .. r + 4 : (c.rank \o c.own)[i] = IF i <= r THEN c.rank[i] ELSE c.own[i - r]
<1>5. ASSUME NEW c \in {x, y}
      PROVE  c.rank \o c.own \in Seq(Int) /\ Len(c.rank \o c.own) = r + 4 /\ Appended(c)
  <2>. DEFINE first == c.rank
              second == c.own
  <2>1. first \in Seq(Int) /\ second \in Seq(Int) /\ Len(first) = r /\ Len(second) = 4
    BY <1>1, <1>3, <1>4, <1>5
  <2>. HIDE DEF first, second, r
  <2>2. /\ first \o second \in Seq(Int) /\ Len(first \o second) = Len(first) + Len(second)
        /\ \A i \in 1 .. Len(first) + Len(second) :
             (first \o second)[i] = IF i <= Len(first) THEN first[i] ELSE second[i - Len(first)]
    BY <2>1, ConcatProperties
  <2>. QED  BY <2>1, <2>2 DEF first, second
<1>6. Appended(x) /\ Appended(y)
  BY <1>5
<1>7. x.rank \o x.own \in [1 .. r + 4 -> Int]
  BY <1>5, LenProperties
<1>8. ASSUME x.rank \o x.own = y.rank \o y.own PROVE Equals(x, y)
  <2>. HIDE DEF r
  <2>1. ASSUME NEW i \in 1 .. r PROVE x.rank[i] = y.rank[i]
    <3>1. i \in 1 .. r + 4 /\ i <= r
      BY <1>4
    <3>. QED  BY <1>6, <1>8, <3>1
  <2>2. ASSUME NEW i \in 1 .. 4 PROVE x.own[i] = y.own[i]
    <3>1. r + i \in 1 .. r + 4 /\ ~ (r + i <= r) /\ (r + i) - r = i
      BY <1>4
    <3>. QED  BY <1>6, <1>8, <3>1
  <2>3. x.rank = y.rank
    BY <1>1, <1>4, <2>1, SeqEqual DEF r
  <2>4. x.own = y.own
    BY <1>3, <2>2, SeqEqual
  <2>. QED  BY <2>3, <2>4 DEF Equals
<1>. QED  BY <1>7, <1>8 DEF Equals

(* To beat is a strict order of candidates; neither of two beats the other *)
(* exactly when their scores are equal.                                    *)
LEMMA BeatsFacts ==
  ASSUME NEW X, Comparable(X), NEW x \in X, NEW y \in X, NEW z \in X
  PROVE  /\ ~ Beats(x, x)
         /\ Beats(x, y) => ~ Beats(y, x)
         /\ Beats(x, y) /\ Beats(y, z) => Beats(x, z)
         /\ ~ Beats(x, y) /\ ~ Beats(y, x) <=> Equals(x, y)
<1>. DEFINE n == Len(x.rank) + 4
            full(c) == c.rank \o c.own
<1>1. n \in Nat /\ Len(y.rank) + 4 = n /\ Len(z.rank) + 4 = n
  <2>1. x.rank \in Seq(Int) /\ Len(y.rank) = Len(x.rank) /\ Len(z.rank) = Len(x.rank)
    BY DEF Comparable
  <2>2. Len(x.rank) \in Nat
    BY <2>1, LenProperties
  <2>. QED  BY <2>1, <2>2
<1>2. full(x) \in [1 .. n -> Int] /\ full(y) \in [1 .. n -> Int] /\ full(z) \in [1 .. n -> Int]
  BY <1>1, ScoreFacts
<1>3. full(x) = full(y) <=> Equals(x, y)
  BY ScoreFacts
<1>4. \A c, d : Beats(c, d) <=> Lower(full(d), full(c))
  BY DEF Beats
<1>. HIDE DEF n, full
<1>. QED  BY <1>1, <1>2, <1>3, <1>4, LexicographicOrder

(* Some candidate has the best score, and all that have it are equal.      *)
LEMMA TopFacts ==
  ASSUME NEW X, IsFiniteSet(X), X # {}, Comparable(X)
  PROVE  Top(X) # {} /\ Top(X) \subseteq X /\ \A x, y \in Top(X) : Equals(x, y)
<1>1. Top(X) # {}
  <2>. DEFINE R == {p \in X \X X : Beats(p[1], p[2])}
  <2>1. \A u, v \in X : <<u, v>> \in R <=> Beats(u, v)
    OBVIOUS
  <2>. HIDE DEF R
  <2>2. StrictOrder(R, X)
    BY <2>1, BeatsFacts DEF StrictOrder
  <2>3. PICK y \in X : TRUE
    OBVIOUS
  <2>4. PICK m \in X : \A u \in X : <<u, m>> \notin R
    BY <2>2, <2>3, MaximalAbove
  <2>. QED  BY <2>1, <2>4 DEF Top
<1>2. Top(X) \subseteq X
  BY DEF Top
<1>3. \A x, y \in Top(X) : Equals(x, y)
  <2>. TAKE x \in Top(X), y \in Top(X)
  <2>1. x \in X /\ y \in X /\ ~ Beats(x, y) /\ ~ Beats(y, x)
    BY DEF Top
  <2>. QED  BY <2>1, BeatsFacts
<1>. QED  BY <1>1, <1>2, <1>3

(* The deterministic heuristic selects a candidate with the best score.    *)
LEMMA HeuristicFacts ==
  ASSUME NEW X, IsFiniteSet(X), X # {}, Comparable(X)
  PROVE  Heuristic(X) \in Top(X)
<1>. DEFINE ids == {x.id : x \in Top(X)}
            f == [x \in Top(X) |-> x.id]
<1>1. IsFiniteSet(Top(X)) /\ Top(X) # {} /\ Top(X) \subseteq X
  BY TopFacts, FS_Subset
<1>2. f \in Surjection(Top(X), ids)
  BY DEF Surjection
<1>3. IsFiniteSet(ids) /\ ids \in SUBSET Int /\ ids # {}
  BY <1>1, <1>2, FS_Surjection DEF Comparable
<1>4. Min(ids) \in ids /\ \A i \in ids : Min(ids) <= i
  BY <1>3, MinFacts
<1>5. PICK x \in Top(X) : \A y \in Top(X) : x.id <= y.id
  BY <1>4
<1>. QED  BY <1>5 DEF Heuristic

(* The conservative heuristic ranks by score and then by id; what it ranks *)
(* first has the best score.                                               *)
LEMMA FirstFacts ==
  ASSUME NEW X, IsFiniteSet(X), X # {}, Comparable(X), \A x, y \in X : x.id = y.id => x = y
  PROVE  First(X) \in Top(X)
<1>1. \A x \in X : x.id \in Int
  BY DEF Comparable
<1>2. \A x, y \in X : x # y => Above(x, y) \/ Above(y, x)
  <2>. TAKE x \in X, y \in X
  <2>. HAVE x # y
  <2>1. Equals(x, y) \/ Beats(x, y) \/ Beats(y, x)
    BY BeatsFacts
  <2>2. x.id > y.id \/ y.id > x.id
    BY <1>1
  <2>3. Equals(x, y) <=> Equals(y, x)
    BY DEF Equals
  <2>. QED  BY <2>1, <2>2, <2>3 DEF Above
<1>3. /\ \A x \in X : ~ Above(x, x)
      /\ \A x, y, z \in X : Above(x, y) /\ Above(y, z) => Above(x, z)
  <2>1. \A x \in X : ~ Above(x, x)
    BY <1>1, BeatsFacts DEF Above
  <2>2. ASSUME NEW x \in X, NEW y \in X, NEW z \in X, Above(x, y), Above(y, z)
        PROVE  Above(x, z)
    <3>1. Beats(x, y) /\ Beats(y, z) => Beats(x, z)
      BY BeatsFacts
    <3>2. Beats(x, y) /\ Equals(y, z) => Beats(x, z)
      BY DEF Beats, Equals
    <3>3. Equals(x, y) /\ Beats(y, z) => Beats(x, z)
      BY DEF Beats, Equals
    <3>4. Equals(x, y) /\ Equals(y, z) => Equals(x, z)
      BY DEF Equals
    <3>5. x.id > y.id /\ y.id > z.id => x.id > z.id
      BY <1>1
    <3>. QED  BY <2>2, <3>1, <3>2, <3>3, <3>4, <3>5 DEF Above
  <2>. QED  BY <2>1, <2>2
<1>4. PICK m \in X : \A y \in X : ~ Above(y, m)
  <2>. DEFINE R == {p \in X \X X : Above(p[1], p[2])}
  <2>1. \A u, v \in X : <<u, v>> \in R <=> Above(u, v)
    OBVIOUS
  <2>. HIDE DEF R
  <2>2. StrictOrder(R, X)
    BY <1>3, <2>1 DEF StrictOrder
  <2>3. PICK y \in X : TRUE
    OBVIOUS
  <2>4. PICK m \in X : \A u \in X : <<u, m>> \notin R
    BY <2>2, <2>3, MaximalAbove
  <2>. QED  BY <2>1, <2>4
<1>5. \A y \in X \ {m} : Above(m, y)
  BY <1>2, <1>4
<1>6. First(X) \in X /\ \A y \in X \ {First(X)} : Above(First(X), y)
  BY <1>4, <1>5 DEF First
<1>7. ASSUME NEW y \in X, Beats(y, First(X)) PROVE FALSE
  <2>1. y # First(X)
    BY <1>6, <1>7, BeatsFacts
  <2>2. Beats(First(X), y) \/ Equals(First(X), y)
    BY <1>6, <2>1 DEF Above
  <2>. QED  BY <1>6, <1>7, <2>2, BeatsFacts
<1>. QED  BY <1>6, <1>7 DEF Top

(* What the conservative heuristic selects has the best score, and every   *)
(* candidate that has it is of the same text.                              *)
LEMMA ConservativeFacts ==
  ASSUME NEW X, IsFiniteSet(X), X # {}, Comparable(X), \A x, y \in X : x.id = y.id => x = y,
         Conservative(X) # Abstained
  PROVE  /\ Conservative(X) \in Top(X)
         /\ \A y \in Top(X) : y.text = Conservative(X).text
<1>1. First(X) \in Top(X)
  BY FirstFacts
<1>2. Conservative(X) = First(X) /\ \A x, y \in Top(X) : x.text = y.text
  BY DEF Conservative
<1>. QED  BY <1>1, <1>2

-------------------------------------------------------------------------------
(* The two heuristics                                                      *)

(* A list of candidates with distinct ids is one the heuristics can rank.  *)
LEMMA ListedFacts ==
  ASSUME NEW t \in Lists(Contender), NEW o \in [DOMAIN t -> Int],
         \A i, l \in DOMAIN t : o[i] = o[l] => i = l
  PROVE  LET X == Numbered(t, o)
         IN /\ IsFiniteSet(X) /\ X # {} /\ Comparable(X)
            /\ \A x, y \in X : x.id = y.id => x = y
<1>. DEFINE X == Numbered(t, o)
            entry(i) == [id |-> o[i], text |-> t[i].text, rank |-> t[i].rank, own |-> t[i].own]
            f == [i \in DOMAIN t |-> entry(i)]
<1>1. DOMAIN t = 1 .. 2 \/ DOMAIN t = 1 .. 3
  BY DEF Lists
<1>8. \A i \in DOMAIN t : t[i] \in Contender
  BY DEF Lists
<1>2. X = {entry(i) : i \in DOMAIN t}
  BY DEF Numbered
<1>3. IsFiniteSet(X)
  <2>1. PICK n \in Int : DOMAIN t = 1 .. n
    <3>1. 2 \in Int /\ 3 \in Int
      OBVIOUS
    <3>. QED  BY <1>1, <3>1, Zenon
  <2>2. IsFiniteSet(DOMAIN t)
    BY <2>1, FS_Interval
  <2>3. f \in Surjection(DOMAIN t, {entry(i) : i \in DOMAIN t})
    BY DEF Surjection
  <2>. QED  BY <1>2, <2>2, <2>3, FS_Surjection
<1>4. X # {}
  <2>1. 1 \in DOMAIN t
    BY <1>1
  <2>. HIDE DEF X, entry
  <2>. QED  BY <1>2, <2>1
<1>5. \A i \in DOMAIN t : /\ entry(i).id = o[i] /\ entry(i).id \in Int
                          /\ entry(i).rank = t[i].rank /\ entry(i).own = t[i].own
  OBVIOUS
<1>. HIDE DEF X, entry
<1>6. Comparable(X)
  <2>1. /\ \A x \in Contender : x.rank \in Seq(Int) /\ x.own \in [1 .. 4 -> Int]
        /\ \A x, y \in Contender : Len(x.rank) = Len(y.rank)
    BY ResolverAssumption
  <2>2. \A x \in X : x.id \in Int /\ \E y \in Contender : x.rank = y.rank /\ x.own = y.own
    BY <1>2, <1>5, <1>8
  <2>. QED  BY <2>1, <2>2 DEF Comparable
<1>7. \A x, y \in X : x.id = y.id => x = y
  BY <1>2, <1>5
<1>. QED  BY <1>3, <1>4, <1>6, <1>7 DEF X

(* What the conservative heuristic selects has the text of what the other  *)
(* heuristic selects, in whatever order the ids are.                       *)
THEOREM IdsNeverDecideTexts == Lucky = {}
<1>. SUFFICES ASSUME NEW t \in Lists(Contender), NEW o \in Orders(t),
                     Conservative(Numbered(t, [i \in DOMAIN t |-> i])) # Abstained
              PROVE  Heuristic(Numbered(t, o)).text
                       = Conservative(Numbered(t, [i \in DOMAIN t |-> i])).text
  BY DEF Lucky
<1>. DEFINE same == [i \in DOMAIN t |-> i]
            X == Numbered(t, same)
            Y == Numbered(t, o)
            entry(q, i) == [id |-> q[i], text |-> t[i].text, rank |-> t[i].rank, own |-> t[i].own]
<1>1. DOMAIN t \subseteq Int
  BY DEF Lists
<1>2. /\ same \in [DOMAIN t -> Int] /\ \A i, l \in DOMAIN t : same[i] = same[l] => i = l
      /\ o \in [DOMAIN t -> Int] /\ \A i, l \in DOMAIN t : o[i] = o[l] => i = l
  BY <1>1 DEF Orders
<1>3. /\ X = {entry(same, i) : i \in DOMAIN t}
      /\ Y = {entry(o, i) : i \in DOMAIN t}
  BY DEF Numbered
<1>4. \A i \in DOMAIN t : \A q \in {same, o} :
        /\ entry(q, i).text = t[i].text
        /\ entry(q, i).rank = t[i].rank /\ entry(q, i).own = t[i].own
  OBVIOUS
<1>. HIDE DEF same, entry
<1>5. Conservative(X) \in Top(X) /\ \A y \in Top(X) : y.text = Conservative(X).text
  BY <1>2, ListedFacts, ConservativeFacts DEF same
<1>6. Heuristic(Y) \in Top(Y)
  BY <1>2, ListedFacts, HeuristicFacts
<1>. HIDE DEF X, Y
<1>7. PICK i \in DOMAIN t : Heuristic(Y) = entry(o, i)
  BY <1>3, <1>6 DEF Top
<1>8. entry(same, i) \in Top(X)
  <2>1. \A j \in DOMAIN t : ~ Beats(entry(o, j), entry(o, i))
    BY <1>3, <1>6, <1>7 DEF Top
  <2>2. \A j \in DOMAIN t : Beats(entry(o, j), entry(o, i)) <=> Beats(entry(same, j), entry(same, i))
    BY <1>4 DEF Beats
  <2>. QED  BY <1>3, <2>1, <2>2 DEF Top
<1>. QED  BY <1>4, <1>5, <1>7, <1>8 DEF X, Y, same

(* Two candidates with equal scores and texts are left to their ids, and   *)
(* the two heuristics look at them from opposite ends: the one selects the *)
(* last id (resolver.py:269), the other one the first (resolver.py:110),   *)
(* whatever values they stand for.                                         *)
THEOREM TextTieLeftToIds ==
  ASSUME NEW x, NEW y, Comparable({x, y}), Equals(x, y), x.text = y.text, x.id > y.id
  PROVE  Conservative({x, y}) = x /\ Heuristic({x, y}) = y
<1>. DEFINE X == {x, y}
<1>1. x.id \in Int /\ y.id \in Int /\ x # y
  BY DEF Comparable
<1>2. Equals(y, x)
  BY DEF Equals
<1>3. ~ Beats(x, y) /\ ~ Beats(y, x) /\ ~ Beats(x, x) /\ ~ Beats(y, y)
  BY BeatsFacts
<1>4. Top(X) = X
  BY <1>3 DEF Top
<1>5. Above(x, y) /\ ~ Above(y, x)
  BY <1>1, <1>3 DEF Above
<1>6. First(X) = x
  BY <1>1, <1>5 DEF First
<1>7. \A u, w \in X : u.text = w.text
  OBVIOUS
<1>8. Conservative(X) = x
  BY <1>4, <1>6, <1>7 DEF Conservative
<1>9. Heuristic(X) = y
  BY <1>1, <1>4 DEF Heuristic
<1>. QED  BY <1>8, <1>9

(* The candidates of a conflict are comparable by their scores.            *)
LEMMA ScoredFacts ==
  ASSUME NEW ops, OpsSound(ops), NEW findings, NEW k \in Key
  PROVE  LET s == StateOf(ops, Registry, findings)
             X == Scored(s, ops, s.conflict[k].who)
         IN /\ IsFiniteSet(X) /\ Comparable(X)
            /\ \A x, y \in X : x.id = y.id => x = y
            /\ \A x \in X : \E c \in s.conflict[k].who : x.id = ClaimId[c] /\ x.text = TextOf[c]
            /\ s.conflict[k].who # {} => X # {}
            /\ s.conflict[k].who \subseteq Claim
<1>. DEFINE s == StateOf(ops, Registry, findings)
            who == s.conflict[k].who
            X == Scored(s, ops, who)
            entry(c) == [text |-> TextOf[c], id |-> ClaimId[c],
                         rank |-> Score(s, ops, c).rank, own |-> Score(s, ops, c).own]
            f == [c \in who |-> entry(c)]
<1>1. s.rev = Registry /\ who \subseteq Claim /\ IsFiniteSet(who)
  <2>1. /\ s.rev = Registry /\ s.active[k] \subseteq Claim /\ IsFiniteSet(s.active[k])
        /\ who \subseteq s.active[k]
    BY StateFacts
  <2>. QED  BY <2>1, FS_Subset
<1>2. IsFiniteSet(s.evidence)
  <2>. DEFINE g == [o \in Of(ops, "evidence") |-> o.evidence]
  <2>1. s.evidence = {o.evidence : o \in Of(ops, "evidence")}
    BY DEF StateOf, Full
  <2>2. IsFiniteSet(Of(ops, "evidence"))
    BY FS_Subset DEF OpsSound, Of
  <2>3. g \in Surjection(Of(ops, "evidence"), {o.evidence : o \in Of(ops, "evidence")})
    BY DEF Surjection
  <2>. QED  BY <2>1, <2>2, <2>3, FS_Surjection
<1>3. X = {entry(c) : c \in who}
  BY DEF Scored
<1>4. IsFiniteSet(X)
  <2>1. f \in Surjection(who, {entry(c) : c \in who})
    BY DEF Surjection
  <2>. QED  BY <1>1, <1>3, <2>1, FS_Surjection
<1>. HIDE DEF s, X
<1>5. ASSUME NEW c \in Claim
      PROVE  SupersedeRank(ops, c) \in Seq(Int) /\ Len(SupersedeRank(ops, c)) = 2
  <2>. DEFINE named == {q \in Of(ops, "retraction") : q \in DOMAIN SupersededAt /\ SupersededAt[q][1] = c}
              times == {SupersededAt[o][2] : o \in named}
              g == [o \in named |-> SupersededAt[o][2]]
  <2>1. IsFiniteSet(named)
    BY FS_Subset DEF OpsSound, Of
  <2>2. g \in Surjection(named, times)
    BY DEF Surjection
  <2>3. IsFiniteSet(times) /\ times \in SUBSET Int
    BY <2>1, <2>2, FS_Surjection, ResolverAssumption
  <2>4. SupersedeRank(ops, c) = IF times = {} THEN <<0, -1>> ELSE <<1, Max(times)>>
    BY DEF SupersedeRank
  <2>. HIDE DEF times
  <2>5. times # {} => Max(times) \in Int
    BY <2>3, MaxFacts
  <2>. QED  BY <2>4, <2>5
<1>6. ASSUME NEW c \in Claim
      PROVE  EvidenceRankings(s, c) \in [1 .. 4 -> Int]
  <2>1. ASSUME NEW i \in 1 .. 4
        PROVE  Max({0} \cup {EvidenceRank[SourceOf[e] \in s.sources][e][i] : e \in EvidenceOf[c] \cap s.evidence}) \in Int
    <3>. DEFINE cited == EvidenceOf[c] \cap s.evidence
                value(e) == EvidenceRank[SourceOf[e] \in s.sources][e][i]
                values == {value(e) : e \in cited}
                g == [e \in cited |-> value(e)]
    <3>1. IsFiniteSet(cited)
      BY <1>2, FS_Subset
    <3>2. g \in Surjection(cited, values)
      BY DEF Surjection
    <3>3. IsFiniteSet(values)
      BY <3>1, <3>2, FS_Surjection
    <3>4. ASSUME NEW e \in cited PROVE value(e) \in Int
      <4>1. e \in Evidence
        BY MaterializeAssumption
      <4>2. (SourceOf[e] \in s.sources) \in BOOLEAN
        OBVIOUS
      <4>3. \A b \in BOOLEAN : \A x \in Evidence : EvidenceRank[b][x][i] \in Int
        BY ResolverAssumption
      <4>. QED  BY <4>1, <4>2, <4>3, Zenon
    <3>5. values \in SUBSET Int
      BY <3>4
    <3>. HIDE DEF values
    <3>6. IsFiniteSet({0} \cup values) /\ {0} \cup values \in SUBSET Int /\ {0} \cup values # {}
      BY <3>3, <3>5, FS_AddElement
    <3>7. Max({0} \cup values) \in Int
      BY <3>6, MaxFacts
    <3>. QED  BY <3>7 DEF values
  <2>. QED  BY <2>1 DEF EvidenceRankings
<1>7. ASSUME NEW c \in who
      PROVE  /\ entry(c).rank \in Seq(Int) /\ Len(entry(c).rank) = 6
             /\ entry(c).own \in [1 .. 4 -> Int]
             /\ entry(c).id = ClaimId[c] /\ entry(c).id \in Int
             /\ entry(c).text = TextOf[c]
  <2>1. c \in Claim
    BY <1>1
  <2>2. /\ EvidenceRankings(s, c) \in Seq(Int) /\ Len(EvidenceRankings(s, c)) = 4
        /\ SupersedeRank(ops, c) \in Seq(Int) /\ Len(SupersedeRank(ops, c)) = 2
    BY <1>5, <1>6, <2>1, FunctionIsTuple
  <2>3. /\ SupersedeRank(ops, c) \o EvidenceRankings(s, c) \in Seq(Int)
        /\ Len(SupersedeRank(ops, c) \o EvidenceRankings(s, c)) = 6
    <3>. DEFINE first == SupersedeRank(ops, c)
                second == EvidenceRankings(s, c)
    <3>1. first \in Seq(Int) /\ Len(first) = 2 /\ second \in Seq(Int) /\ Len(second) = 4
      BY <2>2
    <3>. HIDE DEF first, second
    <3>2. first \o second \in Seq(Int) /\ Len(first \o second) = Len(first) + Len(second)
      BY <3>1, ConcatProperties
    <3>. QED  BY <3>1, <3>2 DEF first, second
  <2>4. OwnScore[c] \in [1 .. 4 -> Int] /\ ClaimId[c] \in Int
    BY <2>1, ResolverAssumption
  <2>. QED  BY <1>1, <2>3, <2>4 DEF Score
<1>. HIDE DEF entry
<1>8. Comparable(X)
  BY <1>3, <1>7 DEF Comparable
<1>9. \A c, d \in who : ClaimId[c] = ClaimId[d] => c = d
  BY <1>1, ResolverAssumption
<1>10. \A x, y \in X : x.id = y.id => x = y
  BY <1>3, <1>7, <1>9
<1>11. \A x \in X : \E c \in who : x.id = ClaimId[c] /\ x.text = TextOf[c]
  BY <1>3, <1>7
<1>12. who # {} => X # {}
  BY <1>3
<1>. QED  BY <1>1, <1>4, <1>8, <1>10, <1>11, <1>12 DEF s, X

(* What the conservative heuristic suggests for a conflict of the log has  *)
(* the text of what the other heuristic suggests, and the value too if no  *)
(* two candidates of the conflict read alike that differ.                  *)
THEOREM HeuristicsAgree == Spec => []ConservativeAgrees
<1>1. ASSUME AInv, NEW k \in Key,
             Verdict("conservative", StateAt(log), k) # None
      PROVE  LET careful == Verdict("conservative", StateAt(log), k)
                 bold    == Verdict("heuristic", StateAt(log), k)
             IN /\ TextOf[careful] = TextOf[bold]
                /\ Legible(StateAt(log).conflict[k].who) => ValuesEqual(Registry, careful, bold)
  <2>. DEFINE s == StateOf(log, Registry, detectors)
              who == s.conflict[k].who
              X == Scored(s, log, who)
              claimOf(x) == CHOOSE c \in who : ClaimId[c] = x.id
  <2>1. OpsSound(log)
    BY <1>1 DEF AInv, LogInv
  <2>2. /\ Verdict("conservative", s, k) = ConservativeVerdict(s, log, who)
        /\ Verdict("heuristic", s, k) = HeuristicVerdict(s, log, who)
    BY DEF Verdict
  <2>. HIDE DEF s
  <2>3. /\ IsFiniteSet(X) /\ Comparable(X)
        /\ \A x, y \in X : x.id = y.id => x = y
        /\ \A x \in X : \E c \in who : x.id = ClaimId[c] /\ x.text = TextOf[c]
        /\ who # {} => X # {}
        /\ who \subseteq Claim
    BY <2>1, ScoredFacts DEF s
  <2>4. ConservativeVerdict(s, log, who) # None
    BY <1>1, <2>2 DEF StateAt, s
  <2>5. Handles(who) /\ Conservative(X) # Abstained
    BY <2>4 DEF ConservativeVerdict
  <2>6. /\ ConservativeVerdict(s, log, who) = claimOf(Conservative(X))
        /\ HeuristicVerdict(s, log, who) = claimOf(Heuristic(X))
    BY <2>5 DEF ConservativeVerdict, HeuristicVerdict
  <2>. HIDE DEF X
  <2>7. X # {}
    BY <2>3, <2>5 DEF Handles
  <2>8. /\ Conservative(X) \in Top(X) /\ \A y \in Top(X) : y.text = Conservative(X).text
        /\ Heuristic(X) \in Top(X)
    BY <2>3, <2>5, <2>7, ConservativeFacts, HeuristicFacts
  <2>9. Conservative(X) \in X /\ Heuristic(X) \in X /\ Heuristic(X).text = Conservative(X).text
    BY <2>8 DEF Top
  <2>10. ASSUME NEW x \in X PROVE claimOf(x) \in who /\ TextOf[claimOf(x)] = x.text
    <3>1. PICK c \in who : x.id = ClaimId[c] /\ x.text = TextOf[c]
      BY <2>3
    <3>2. \A d \in who : ClaimId[d] = x.id => d = c
      BY <2>3, <3>1, ResolverAssumption
    <3>3. claimOf(x) = c
      BY <3>1, <3>2
    <3>. QED  BY <3>1, <3>3
  <2>. DEFINE careful == claimOf(Conservative(X))
              bold == claimOf(Heuristic(X))
  <2>. HIDE DEF claimOf
  <2>11. careful \in who /\ bold \in who /\ TextOf[careful] = TextOf[bold]
    BY <2>9, <2>10
  <2>12. Legible(who) => ValuesEqual(Registry, careful, bold)
    BY <2>11 DEF Legible
  <2>13. Verdict("conservative", s, k) = careful /\ Verdict("heuristic", s, k) = bold
    BY <2>2, <2>6
  <2>. HIDE DEF careful, bold
  <2>. QED  BY <2>11, <2>12, <2>13 DEF StateAt, s
<1>2. AInv => ConservativeAgrees
  BY <1>1, IdsNeverDecideTexts DEF ConservativeAgrees
<1>. QED  BY <1>2, AInvariant, PTL

(* Every claim has a clock that CausalResolver accepts.                    *)
AllClocked == \A c \in Claim : DOMAIN WriteOf[c].clock # {}

(* Of the writes behind an open conflict the causal resolver selects the   *)
(* one that dominates all the others, where all have clocks.               *)
THEOREM CausalityDecides ==
  ASSUME AllClocked
  PROVE  Spec => []CausalDominates
<1>1. ASSUME AInv, view # None, NEW k \in Key
      PROVE  {Causal(Direct, {WriteOf[c] : c \in view.who[k]}, Sure)} \ {Abstained}
               = {x \in {WriteOf[c] : c \in view.who[k]} : DominatesAll(x, {WriteOf[c] : c \in view.who[k]})}
  <2>. DEFINE who == view.who[k]
              writes == {WriteOf[c] : c \in who}
              f == [c \in who |-> WriteOf[c]]
  <2>1. PICK findings \in {{}, Finding} : \E ops, scope, verdict :
          OpsSound(ops) /\ scope \in Scope /\ LastView(ops, findings, scope, verdict)
    BY <1>1, LastViewFacts
  <2>2. PICK ops, scope, verdict :
          OpsSound(ops) /\ scope \in Scope /\ LastView(ops, findings, scope, verdict)
    BY <2>1
  <2>3. who = Who(StateOf(ops, Registry, findings), k)
    <3>1. k \in Refs
      BY DEF Refs
    <3>2. IsViewOf(view, StateOf(ops, Registry, findings), scope, verdict)
      BY <2>2, BuiltFacts DEF LastView
    <3>. QED  BY <3>1, <3>2 DEF IsViewOf
  <2>4. /\ IsFiniteSet(who) /\ who \subseteq Claim
        /\ who = UNION {p \in Apart[Registry] : p \subseteq StateOf(ops, Registry, findings).active[k]}
    <3>. DEFINE s == StateOf(ops, Registry, findings)
    <3>1. /\ s.active[k] \subseteq Claim /\ IsFiniteSet(s.active[k])
          /\ s.conflict[k].who = UNION {p \in Apart[Registry] : p \subseteq s.active[k]}
          /\ s.conflict[k].who \subseteq s.active[k]
      BY <2>2, StateFacts
    <3>. HIDE DEF s
    <3>2. who = s.conflict[k].who
      BY <2>3, WhoOfKey DEF s
    <3>3. IsFiniteSet(s.conflict[k].who)
      BY <3>1, FS_Subset
    <3>. HIDE DEF who
    <3>. QED  BY <3>1, <3>2, <3>3 DEF s
  <2>5. who = {} \/ \E c, d \in who : c # d
    <3>1. ASSUME NEW p \in Apart[Registry] PROVE \E c, d \in Claim : p = {c, d} /\ c # d
      BY MaterializeAssumption, AgentAssumption
    <3>. QED  BY <2>4, <3>1
  <2>6. IsFiniteSet(writes)
    <3>1. f \in Surjection(who, writes)
      BY DEF Surjection
    <3>. QED  BY <2>4, <3>1, FS_Surjection
  <2>7. /\ None \notin writes
        /\ \A x \in writes : Counts(x.clock) /\ DOMAIN x.clock # {}
    BY <2>4, ResolverAssumption DEF AllClocked
  <2>8. CASE who = {}
    <3>1. writes = {}
      BY <2>8
    <3>. HIDE DEF writes
    <3>2. Causal(Direct, writes, Sure) = Abstained
      <4>1. Cardinality(writes) = 0
        BY <3>1, FS_EmptySet
      <4>. QED  BY <4>1 DEF Causal
    <3>. QED  BY <3>1, <3>2 DEF writes
  <2>9. CASE \E c, d \in who : c # d
    <3>1. \E x, y \in writes : x # y
      <4>1. PICK c \in who, d \in who : c # d
        BY <2>9
      <4>2. WriteOf[c] # WriteOf[d]
        BY <2>4, <4>1, ResolverAssumption
      <4>. QED  BY <4>1, <4>2
    <3>. HIDE DEF writes
    <3>2. {Causal(Direct, writes, Sure)} \ {Abstained} = {x \in writes : DominatesAll(x, writes)}
      BY <2>6, <2>7, <3>1, CausalFacts
    <3>. QED  BY <3>2 DEF writes
  <2>. QED  BY <2>5, <2>8, <2>9
<1>2. AInv => CausalDominates
  BY <1>1, CausalityRespected DEF CausalDominates
<1>. QED  BY <1>2, AInvariant, PTL

=================================================================================
