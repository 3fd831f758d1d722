-------------------------------- MODULE AgentView --------------------------------
(***************************************************************************)
(* An agent that reads views of a memory and decides conflicts by what it  *)
(* was shown, while the memory goes on: memory.py, view.py and the         *)
(* resolvers, resolver_llm.py with its worker process among them.          *)
(*                                                                         *)
(* A view is built of the state that was materialised when it was asked    *)
(* for.  A language model is asked for every conflict the view leaves open *)
(* by a process that is given a deadline.  What it answers, and how it     *)
(* fails, is up to it; a big answer is one that the pipe between the       *)
(* processes does not hold.                                                *)
(***************************************************************************)
EXTENDS Resolvers

CONSTANTS
  Registry,      \* the revision of the predicate registry
  Beginnings,    \* what the log may hold at first, with the findings of detectors
  Answer,        \* what the model may answer: an id or none, a reason, its size
  MaxOps,        \* bound on the operations of the log
  MaxDecisions   \* bound on the decisions of the agent

(* What ClaimRetracted, ResolutionRecord and ConflictLifecycleEvent accept. *)
Outcome == {"select", "replace", "preserve", "merge", "abstain"}

Status == {"open", "deferred", "resolved", "reopened", "invalidated"}

ValidRetraction(o) == o.target # None \/ o.ref # None

ValidResolution(r) ==
  /\ r.selected \cap (r.rejected \cup r.retained) = {} /\ r.rejected \cap r.retained = {}
  /\ r.outcome \in Outcome
  /\ r.outcome \in {"preserve", "abstain"} => r.selected \cup r.rejected = {}
  /\ r.outcome = "merge" => Cardinality(r.selected) = 1

ValidEvent(e) == e.status \in Status

(* What the agent writes.                                                  *)
Decision ==
  [kind : {"resolution"}, id : Nat, lane : Refs \X Scope, seen : SUBSET Claim,
   outcome : Outcome, at : Nat,
   selected : SUBSET Claim, rejected : SUBSET Claim, retained : SUBSET Claim]
  \cup [kind : {"event"}, id : Nat, lane : Refs \X Scope, seen : SUBSET Claim,
        status : Status, resolution : {None}, at : Nat]

ASSUME AgentAssumption ==
  /\ Registry \in Revision
  /\ Beginnings \subseteq (SUBSET Op) \X {{}, Finding}
  /\ \A x \in Beginnings : IsFiniteSet(x[1])
  /\ \A o \in Of(Op, "claim") : o.claim \in Claim
  /\ \A o \in Of(Op, "retraction") : ValidRetraction(o)
  /\ \A r \in Of(Op, "resolution") : ValidResolution(r) /\ r.at \in Nat
  /\ \A e \in Of(Op, "event") : ValidEvent(e) /\ e.at \in Nat
  /\ None \notin Op \cup Decision \cup Claim \cup Status
  /\ MaxOps \in Nat /\ MaxDecisions \in Nat

VARIABLES
  log,        \* the operations of the store
  detectors,  \* what the custom detectors of this memory report
  index,      \* the conflict indexes that are kept with the materialised state
  view,       \* the last view, with the scope and the candidates it is of
  call,       \* the view that is being built
  worker      \* the process that asks the model

vars == <<log, detectors, index, view, call, worker>>

StateAt(ops) == StateOf(ops, Registry, detectors)

NoCall == [at |-> "idle"]
NoWorker == [at |-> "none"]

(* What the worker hands over when the model could not be asked.           *)
Failure == None

Init ==
  /\ \E x \in Beginnings : log = x[1] /\ detectors = x[2]
  /\ index = None /\ view = None
  /\ call = NoCall /\ worker = NoWorker

(* Decisions and events of the agent, which come after all it has seen.    *)
Deciding(ops) == Of(ops, "resolution") \cup Of(ops, "event")

Now == Cardinality(Deciding(log)) + 1

Decisions == Cardinality(Deciding(log) \ Op)

-------------------------------------------------------------------------------
(* Any other writer: add_claim, retract_claim, a resolution that arrives.  *)
Write(o) ==
  /\ o \notin log /\ Cardinality(log) < MaxOps
  /\ log' = log \cup {o}
  /\ UNCHANGED <<detectors, index, view, call, worker>>

(* materialize: with custom detectors nothing is kept; else the indexes    *)
(* are made of the conflicts' witnesses at first and updated later.        *)
Materialised(s) ==
  IF detectors # {} THEN None
  ELSE [k \in Key |->
          IF index = None
          THEN Index(s.active[k], IncompatiblePairs(Registry, s.active[k]))
          ELSE UpdatedIndex(index[k], Registry, s.active[k])]

(* The conflicts that build_view asks a resolver about.                    *)
Open(s, scope) ==
  {k \in InConflict(s) :
     LET committed == CommittedChoice(s, k, s.conflict[k].who, scope)
     IN ~ committed.applied /\ ~ committed.noted}

Verdict(resolver, s, k) ==
  LET who == s.conflict[k].who
  IN CASE resolver = "heuristic" -> HeuristicVerdict(s, log, who)
       [] resolver = "conservative" -> ConservativeVerdict(s, log, who)
       [] OTHER -> None

(* A view, and what find_conflicts lists as open at the same time.         *)
Built(s, scope, verdict) ==
  LET v == BuildView(s, scope, verdict)
  IN [scope |-> scope,
      active |-> s.active,
      open |-> {k \in InConflict(s) : StatusUnder(s, k, scope) # "resolved"},
      who |-> v.who, by |-> v.by, key |-> v.key, unresolved |-> v.unresolved]

(* build_view without a resolver or with one that answers at once.         *)
View(scope, resolver) ==
  /\ call = NoCall
  /\ \E s \in {StateAt(log)} :
       /\ index' = Materialised(s)
       /\ view' = Built(s, scope, [k \in Key |->
                      IF k \in Open(s, scope) THEN Verdict(resolver, s, k) ELSE None])
  /\ UNCHANGED <<log, detectors, call, worker>>

(* build_view with an LLMResolver, up to its first call; the view before   *)
(* is not used any more.                                                   *)
BeginView(scope) ==
  /\ call = NoCall
  /\ \E s \in {StateAt(log)} :
       /\ index' = Materialised(s)
       /\ call' = [at |-> "between", log |-> log, scope |-> scope, verdict |-> NoVerdict,
                   left |-> [k \in Open(s, scope) |-> s.conflict[k].who]]
  /\ view' = None
  /\ UNCHANGED <<log, detectors, worker>>

EndView ==
  /\ call.at = "between" /\ DOMAIN call.left = {}
  /\ view' = Built(StateAt(call.log), call.scope, call.verdict)
  /\ call' = NoCall
  /\ UNCHANGED <<log, detectors, index, worker>>

-------------------------------------------------------------------------------
(* _resolve_json_via_subprocess: start, join with the deadline, look       *)
(* whether the worker lives, look how it ended, read its answer.           *)
Ask(k) ==
  /\ call.at = "between" /\ k \in DOMAIN call.left
  /\ call' = [at |-> "joining", log |-> call.log, scope |-> call.scope, verdict |-> call.verdict,
              left |-> Restrict(call.left, DOMAIN call.left \ {k}),
              key |-> k, asked |-> call.left[k]]
  /\ worker' = [at |-> "asking", api |-> "responses"]
  /\ UNCHANGED <<log, detectors, index, view>>

Joined ==
  /\ call.at = "joining" /\ worker.at \in {"exited", "crashed"}
  /\ call' = [call EXCEPT !.at = "looking"]
  /\ UNCHANGED <<log, detectors, index, view, worker>>

(* A bug it could have: the deadline is on the question only, as the       *)
(* timeout of the client is.                                               *)
DeadlineOfQuestion ==
  /\ call.at = "joining" /\ worker.at = "asking"
  /\ call' = [call EXCEPT !.at = "looking"]
  /\ UNCHANGED <<log, detectors, index, view, worker>>

Deadline ==
  /\ call.at = "joining" /\ worker.at \notin {"exited", "crashed"}
  /\ call' = [call EXCEPT !.at = "looking"]
  /\ UNCHANGED <<log, detectors, index, view, worker>>

(* _parse_response: none, or a candidate with a reason.  A bug it could    *)
(* have: any id is taken.                                                  *)
ParsedUnchecked(answer, who) == IF answer.reason THEN answer.chosen ELSE None

Parsed(answer, who) ==
  IF answer.reason /\ answer.chosen \in who THEN answer.chosen ELSE None

(* resolve, when the call returns or raises.                               *)
Returns(chosen) ==
  /\ call' = [at |-> "between", log |-> call.log, scope |-> call.scope, left |-> call.left,
              verdict |-> [call.verdict EXCEPT ![call.key] = chosen]]
  /\ worker' = NoWorker
  /\ UNCHANGED <<log, detectors, index, view>>

TimesOut ==
  /\ call.at = "looking" /\ worker.at \notin {"exited", "crashed"}
  /\ Returns(None)

WorkerFailed ==
  /\ call.at = "looking"
  /\ \/ worker.at = "crashed"
     \/ worker.at = "exited" /\ worker.answer = Failure
  /\ Returns(None)

Answered ==
  /\ call.at = "looking" /\ worker.at = "exited" /\ worker.answer # Failure
  /\ Returns(Parsed(worker.answer, call.asked))

(* _subprocess_resolve_json and resolve_json in the worker: the responses  *)
(* API, then chat completions; the answer or the error goes to the queue,  *)
(* and the process ends once the pipe has taken it.                        *)
WorkerStep(to) ==
  /\ worker' = to
  /\ UNCHANGED <<log, detectors, index, view, call>>

Replies(answer) ==
  /\ worker.at = "asking"
  /\ WorkerStep([at |-> "flushing", answer |-> answer])

ApiFails ==
  /\ worker.at = "asking"
  /\ WorkerStep(IF worker.api = "responses" THEN [worker EXCEPT !.api = "chat"]
                ELSE [at |-> "flushing", answer |-> Failure])

Flushes ==
  /\ worker.at = "flushing"
  /\ worker.answer # Failure => ~ worker.answer.big
  /\ WorkerStep([worker EXCEPT !.at = "exited"])

Crashes ==
  /\ worker.at \in {"asking", "flushing"}
  /\ WorkerStep([at |-> "crashed"])

-------------------------------------------------------------------------------
(* add_resolution, made from what the last view listed as unresolved.      *)
Ruling(ref, outcome, selected) ==
  LET who == view.who[ref]
  IN [kind |-> "resolution", id |-> Now, lane |-> <<ref, view.scope>>, seen |-> who,
      outcome |-> outcome, at |-> Now,
      selected |-> selected,
      rejected |-> IF outcome = "select" THEN who \ selected ELSE {},
      retained |-> IF outcome = "select" THEN {} ELSE who]

CanDecide(ref) ==
  /\ call = NoCall /\ view # None /\ Decisions < MaxDecisions
  /\ ref \in view.unresolved

Decided(item) ==
  /\ log' = log \cup {item}
  /\ UNCHANGED <<detectors, index, view, call, worker>>

Select(ref, c) ==
  /\ CanDecide(ref) /\ c \in view.who[ref]
  /\ Decided(Ruling(ref, "select", {c}))

Leave(ref, outcome) ==
  /\ CanDecide(ref)
  /\ Decided(Ruling(ref, outcome, {}))

(* A ConflictLifecycleEvent that is appended in the lane of the view.      *)
Note(ref, status) ==
  /\ call = NoCall /\ view # None /\ Decisions < MaxDecisions
  /\ view.who[ref] # {}
  /\ Decided([kind |-> "event", id |-> Now, lane |-> <<ref, view.scope>>, seen |-> view.who[ref],
              status |-> status, resolution |-> None, at |-> Now])

Next ==
  \/ \E o \in Op : Write(o)
  \/ \E scope \in Scope, resolver \in {"none", "heuristic", "conservative"} : View(scope, resolver)
  \/ \E scope \in Scope : BeginView(scope)
  \/ EndView
  \/ \E k \in Key : Ask(k)
  \/ Joined
  \/ Deadline
  \/ TimesOut
  \/ WorkerFailed
  \/ Answered
  \/ \E answer \in Answer : Replies(answer)
  \/ ApiFails
  \/ Flushes
  \/ Crashes
  \/ \E ref \in Refs, c \in Claim : Select(ref, c)
  \/ \E ref \in Refs, outcome \in {"preserve", "abstain"} : Leave(ref, outcome)
  \/ \E ref \in Refs, status \in {"deferred", "reopened"} : Note(ref, status)

(* The caller's thread and its timer run; nothing is assumed of the        *)
(* worker, the model or the other writers.                                 *)
CallerStep ==
  (\E k \in Key : Ask(k)) \/ Joined \/ TimesOut \/ WorkerFailed \/ Answered

Spec == Init /\ [][Next]_vars /\ WF_vars(CallerStep) /\ WF_vars(Deadline)

-------------------------------------------------------------------------------
(* Types of all variables; a suggestion is never an id the model made up.  *)
TypeOK ==
  /\ log \subseteq Op \cup Decision
  /\ \A r \in Of(log, "resolution") : ValidResolution(r)
  /\ detectors \in {{}, Finding}
  /\ index # None => DOMAIN index = Key
  /\ view # None => view.scope \in Scope /\ DOMAIN view.key = Key
                     /\ \A ref \in Refs : view.by[ref] \in Of(log, "resolution") \cup {None}
  /\ call.at \in {"idle", "between", "joining", "looking"}
  /\ call # NoCall => call.verdict \in [Key -> Claim \cup {None}]
  /\ worker.at \in {"none", "asking", "flushing", "exited", "crashed"}
  /\ worker # NoWorker => call.at \in {"joining", "looking"}

Rivals ==
  {cd \in Claim \X Claim :
     /\ KeyOf[cd[1]] = KeyOf[cd[2]] /\ KeyOf[cd[1]] \notin MultiValued[Registry]
     /\ ~ ValuesEqual(Registry, cd[1], cd[2])
     /\ Together(ShapeOf[cd[1]], ShapeOf[cd[2]]) # {}}

(* Two claims are compared exactly when there is an instant at which, and  *)
(* a situation in which, both of them apply: half-open intervals that meet *)
(* do not overlap, an empty one overlaps nothing, an absent bound is no    *)
(* bound.  The witness of a pair is exactly where both apply, a conflict   *)
(* is marked aggregate exactly when its candidates never all apply at      *)
(* once, and a view names as candidates exactly the active claims that     *)
(* meet one of another value somewhere.                                    *)
ApplicabilityExact ==
  /\ Misjudged = {} /\ Misannotated = {}
  /\ view # None =>
       \A k \in Key :
         view.who[k] = {c \in view.active[k] : \E d \in view.active[k] : <<c, d>> \in Rivals}

(* The indexes that are updated claim by claim, in any order of additions  *)
(* and retractions, are those that would be made of the claims at once,    *)
(* the neighbours of every claim included.                                 *)
IndexExact ==
  index # None =>
    \A k \in Key :
      index[k] = Index(index[k].claims, IncompatiblePairs(Registry, index[k].claims))

(* A conflict is found by a context exactly when materialising for that    *)
(* context leaves a conflict on its key; it is found as resolved, in a     *)
(* scope or in none, exactly when a view of that scope lists it no longer. *)
QueriesExact ==
  Misfound = {} /\ (view # None => view.open = view.unresolved \cap Key)

ShownOf(v) == ({v.selected, v.provisional} \ {None}) \cup v.alternatives

InForce == {ref \in Refs : view.by[ref] # None}

RejectedBy(refs) == UNION {view.by[ref].rejected \cap view.who[ref] : ref \in refs}

(* A candidate that the resolution in force of its conflict rejects is     *)
(* nowhere in the view, neither as a suggestion nor as an alternative nor  *)
(* through another key; what it selects is what its key shows.  (Left out: *)
(* a claim that is no candidate any more, and a key where a finding's      *)
(* resolution takes an alternative away, see the README.)                  *)
CommittedStands ==
  view # None =>
    /\ \A k \in Key : ShownOf(view.key[k]) \cap RejectedBy(InForce) = {}
    /\ \A k \in InForce \cap Key :
         (view.active[k] \ view.who[k]) \cap RejectedBy(InForce \ Key) = {} =>
           {view.key[k].selected} \ {None} =
             (view.by[k].selected \cap view.who[k]) \ RejectedBy(InForce \ Key)

(* A view leaves an active claim out only when it shows its value, lists   *)
(* its conflict, or a resolution in force was made by someone who had a    *)
(* claim of that value before them: no decision that was made from an      *)
(* outdated view hides what that view did not show.                        *)
UnseenNeverOverruled ==
  view # None =>
    \A k \in Key \ view.unresolved : \A c \in view.active[k] :
      \E d \in view.active[k] \cap (ShownOf(view.key[k])
                                      \cup UNION {view.by[ref].seen : ref \in InForce}) :
        ValuesEqual(Registry, c, d)

(* Among these claims, values that differ have texts that differ.          *)
Legible(who) == \A c, d \in who : ValuesEqual(Registry, c, d) \/ TextOf[c] # TextOf[d]

(* When the conservative heuristic suggests a claim, the other heuristic   *)
(* would suggest one whose value has the same text, whatever the ids of    *)
(* the candidates are, for any candidates and for those of any log: it     *)
(* never lets an id decide between texts, and between values neither where *)
(* their texts tell them apart.  It compares str(claim.value) only         *)
(* (resolver.py:262, 276): between 1 and "1", which are a conflict, an id  *)
(* does decide (TextTieLeftToIds in AgentViewProofs).                      *)
ConservativeAgrees ==
  /\ Lucky = {}
  /\ call = NoCall /\ view = None =>
       \E s \in {StateAt(log)} : \A k \in Key :
         LET careful == Verdict("conservative", s, k)
             bold    == Verdict("heuristic", s, k)
         IN careful # None =>
              /\ TextOf[careful] = TextOf[bold]
              /\ Legible(s.conflict[k].who) => ValuesEqual(Registry, careful, bold)

(* What the causal resolver selects is the one write that dominates all    *)
(* the others, and there is none when it abstains; the latest write is the *)
(* same one when time respects causality.  So it is for any clocks and for *)
(* the writes behind every conflict that a view leaves open.               *)
CausalDominates ==
  /\ Misordered = {}
  /\ view # None =>
       \A k \in Key \cap view.unresolved :
         LET writes == {WriteOf[c] : c \in view.who[k]}
         IN {Causal(Direct, writes, Sure)} \ {Abstained} = {x \in writes : DominatesAll(x, writes)}

AllAsked == call.at = "between" /\ DOMAIN call.left = {}

(* Asking the model about all conflicts always ends, whatever the worker   *)
(* does: it may hang, crash, or have an answer that it cannot hand over    *)
(* before it is read.                                                      *)
CallReturns == call # NoCall ~> (call = NoCall \/ AllAsked)
===============================================================================
