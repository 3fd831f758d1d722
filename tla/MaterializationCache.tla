------------------------ MODULE MaterializationCache ------------------------
(***************************************************************************)
(* The state that memory.py keeps materialised: restored from a checkpoint *)
(* or rebuilt from the log, brought up to date with what was appended      *)
(* since, and handed to a consumer together with what has changed since    *)
(* the cursor the consumer has seen.                                       *)
(*                                                                         *)
(* One process materialises; it and others append to the store at any      *)
(* time.  A call is a rebuild or a restore when either is needed, then one *)
(* read of the store.  The two reads of a rebuild are steps of their own,  *)
(* as the store may grow between them.  Stores here lose no operations and *)
(* cut no batch, so a read never raises and the rebuild that would follow  *)
(* (memory.py:772-774) is left out.  The configuration is the default one, *)
(* so its token is dropped for good once the predicate registry has been   *)
(* changed.                                                                *)
(***************************************************************************)
EXTENDS Materialize

CONSTANTS
  Base,          \* the revision of a new registry
  Starts,        \* logs the store may hold at first
  MaxLog, MaxRestarts,  \* bounds
  HistoryLimit,  \* deltas that are kept
  Interval       \* operations between two checkpoints

ASSUME CacheAssumption ==
  /\ Base \in Revision /\ Revision \subseteq Nat /\ \A r \in Revision : Base <= r
  /\ Starts \subseteq Seq(Op)
  /\ MaxLog \in Nat /\ MaxRestarts \in Nat
  /\ HistoryLimit \in Nat \ {0} /\ Interval \in Nat \ {0}

(* An operation is of one of the six kinds the fold knows, and has what    *)
(* its kind is about.                                                      *)
ASSUME OperationAssumption ==
  /\ None \notin Nat \cup Claim \cup Op
  /\ \A r \in Revision : \A c \in Claim : RefOf[r][c] # None
  /\ \A o \in Op : o.kind \in {"claim", "evidence", "source", "retraction", "resolution", "event"}
  /\ \A o \in Of(Op, "claim") : o.claim \in Claim
  /\ \A o \in Of(Op, "evidence") : o.evidence \in Evidence
  /\ \A o \in Of(Op, "source") : o.source \in Source
  /\ \A o \in Of(Op, "retraction") : o.target \in Claim \cup {None}
  /\ \A o \in Of(Op, "resolution") : o.lane \in Lane
  /\ \A o \in Of(Op, "resolution") \cup Of(Op, "event") : o.at \in Nat

VARIABLES
  log,        \* the operations of the store, in order
  registry,   \* the revision of the predicate registry
  token,      \* may checkpoints be used and saved?
  cache,      \* the materialised state, its registry revision and cursor
  history,    \* the deltas of the last reads
  saved,      \* the checkpoint
  unsaved,    \* operations applied since a checkpoint was saved
  call,       \* how far the call in progress is
  consumer,   \* the records a consumer has, its cursor, the revision it began with
  restarts    \* restarts so far

vars == <<log, registry, token, cache, history, saved, unsaved, call, consumer, restarts>>

(* No call, a rebuild that has read the cursor, or the read that ends it.  *)
Idle == [at |-> "idle"]
Loading(cursor) == [at |-> "loading", cursor |-> cursor]
Reading == [at |-> "reading"]

(* A state is set together with its cursor.                                *)
Nothing == [state |-> None, rev |-> None, cursor |-> None]

Checkpoint(state, cursor) == [state |-> state, cursor |-> cursor]

NewConsumer == [cursor |-> None, shown |-> {}, rev |-> Base]

Init ==
  /\ log \in Starts
  /\ registry = Base /\ token = TRUE
  /\ cache = Nothing /\ history = <<>>
  /\ saved = Checkpoint(None, None) /\ unsaved = 0
  /\ call = Idle /\ consumer = NewConsumer /\ restarts = 0

-------------------------------------------------------------------------------
(* Somebody appends an operation; the store takes an op_id once.           *)
AppendOp(o) ==
  /\ Len(log) < MaxLog
  /\ o \notin Range(log)
  /\ log' = Append(log, o)
  /\ UNCHANGED <<registry, token, cache, history, saved, unsaved, call, consumer, restarts>>

(* The application registers a predicate between two calls.                *)
Register ==
  /\ call = Idle
  /\ registry + 1 \in Revision
  /\ registry' = registry + 1
  /\ UNCHANGED <<log, token, cache, history, saved, unsaved, call, consumer, restarts>>

Since(cursor) == SubSeq(log, cursor + 1, Len(log))

TokenKept == token /\ registry = Base

Materialized == cache.cursor # None

Current == Materialized /\ cache.rev = registry

(* The checkpoint may be used.                                             *)
Usable == saved.cursor # None /\ TokenKept

(* memory_state_from_checkpoint: indexes and lanes are computed anew.      *)
FromCheckpoint(s, rev) ==
  [s EXCEPT
     !.active = [k \in Key |-> {c \in s.claims \ s.inactive : KeyOf[c] = k}],
     !.lane = Lanes(s.resolutions, s.events, s.conflict)]

Cached(state, cursor) == [state |-> state, rev |-> registry, cursor |-> cursor]

(* A bug it could have: deltas are never dropped.                          *)
KeptAll(deltas) == deltas

Kept(deltas) == SubSeq(deltas, IF Len(deltas) > HistoryLimit THEN 2 ELSE 1, Len(deltas))

Remembered(before, delta) ==
  Kept(Append(history, [before |-> before, after |-> Len(log), delta |-> delta]))

(* _restore_or_build_materialized_state, when the checkpoint is usable.    *)
Restore ==
  /\ call = Idle /\ ~ Materialized
  /\ Usable
  /\ LET read == Since(saved.cursor)
         res == ApplyBatch(FromCheckpoint(saved.state, registry), registry, read)
     IN /\ cache' = Cached(res.state, Len(log))
        /\ history' = IF read = <<>> THEN history ELSE Remembered(saved.cursor, res.delta)
        /\ unsaved' = Len(read)
  /\ call' = Reading
  /\ UNCHANGED <<log, registry, token, saved, consumer, restarts>>

(* _rebuild_materialized_state up to the cursor of its read, also where a  *)
(* checkpoint that could be used turns out not to be readable, ...         *)
StartRebuild ==
  /\ call = Idle
  /\ ~ Current
  /\ token' = TokenKept
  /\ call' = Loading(Len(log))
  /\ UNCHANGED <<log, registry, cache, history, saved, unsaved, consumer, restarts>>

(* ... and the rest: the log is loaded and folded.                         *)
FinishRebuild ==
  /\ call.at = "loading"
  /\ LET state == Full(Range(log), registry)
     IN /\ cache' = Cached(state, call.cursor)
        /\ saved' = IF token THEN Checkpoint(state, call.cursor) ELSE saved
  /\ unsaved' = IF token THEN 0 ELSE unsaved
  /\ history' = <<>>
  /\ call' = Reading
  /\ UNCHANGED <<log, registry, token, consumer, restarts>>

(* materialize_with_delta: a consumer that has seen `cursor` of the state  *)
(* c gets the deltas since, or everything if the history does not have     *)
(* them all.  Each delta has to begin where the one before it ended, and   *)
(* the last to end at the state's cursor.                                  *)
Later(h, from) == {i \in DOMAIN h : h[i].after > from}

Expected(h, later, from, j) ==
  LET earlier == {i \in later : i < j}
  IN IF earlier = {} THEN from ELSE h[Max(earlier)].after

(* A bug it could have: a gap in the history goes unnoticed.               *)
ChainedToTheEnd(h, later, from, to) ==
  later # {} /\ Expected(h, later, from, Len(h) + 1) = to

Chained(h, later, from, to) ==
  /\ later # {}
  /\ \A j \in later : h[j].before = Expected(h, later, from, j)
  /\ Expected(h, later, from, Len(h) + 1) = to

Received(c, h) ==
  LET later == Later(h, consumer.cursor)
  IN CASE consumer.cursor = c.cursor -> consumer
       [] consumer.cursor # None /\ consumer.cursor # c.cursor
            /\ Chained(h, later, consumer.cursor, c.cursor) ->
            [consumer EXCEPT
               !.cursor = c.cursor,
               !.shown = Updated(@, c.state, CombinedDelta([i \in later |-> h[i].delta]))]
       [] OTHER -> [cursor |-> c.cursor, shown |-> Project(c.state), rev |-> c.rev]

(* _materialize_canonical_incrementally from its read of the store on, for *)
(* the consumer or for any other caller.                                   *)
Read(consuming) ==
  /\ call.at # "loading" /\ Current
  /\ token' = TokenKept
  /\ call' = Idle
  /\ LET read == Since(cache.cursor)
         res == ApplyBatch(cache.state, registry, read)
     IN IF read = <<>>
        THEN UNCHANGED <<cache, history, saved, unsaved>>
        ELSE /\ cache' = Cached(res.state, Len(log))
             /\ history' = Remembered(cache.cursor, res.delta)
             /\ IF unsaved + Len(read) >= Interval /\ token'
                THEN saved' = Checkpoint(res.state, Len(log)) /\ unsaved' = 0
                ELSE saved' = saved /\ unsaved' = unsaved + Len(read)
  /\ consumer' = IF consuming THEN Received(cache', history') ELSE consumer
  /\ UNCHANGED <<log, registry, restarts>>

(* The process ends, in a call or not, and is started again.               *)
Restart ==
  /\ restarts < MaxRestarts
  /\ restarts' = restarts + 1
  /\ registry' = Base /\ token' = TRUE
  /\ cache' = Nothing /\ history' = <<>> /\ unsaved' = 0
  /\ call' = Idle /\ consumer' = NewConsumer
  /\ UNCHANGED <<log, saved>>

Next ==
  \/ \E o \in Op : AppendOp(o)
  \/ Register
  \/ Restore
  \/ StartRebuild
  \/ FinishRebuild
  \/ \E consuming \in BOOLEAN : Read(consuming)
  \/ Restart

Spec == Init /\ [][Next]_vars

-------------------------------------------------------------------------------
(* Types of all variables, the parts of the materialised state included.   *)
StateType(s) ==
  /\ s.claims \subseteq Claim /\ s.inactive \subseteq Claim /\ s.byId \subseteq Claim
  /\ s.active \in [Key -> SUBSET Claim]
  /\ s.evidence \subseteq Evidence /\ s.sources \subseteq Source
  /\ DOMAIN s.conflict = Key /\ DOMAIN s.lane = Lane

TypeOK ==
  /\ log \in Seq(Op) /\ registry \in Revision /\ token \in BOOLEAN
  /\ Materialized => cache.rev \in Revision /\ cache.cursor \in 0..Len(log) /\ StateType(cache.state)
  /\ Len(history) <= HistoryLimit
  /\ \A i \in DOMAIN history : history[i].before < history[i].after
  /\ saved.cursor # None => saved.cursor \in 0..Len(log) /\ StateType(saved.state)
  /\ unsaved \in Nat
  /\ call.at = "loading" => call.cursor \in 0..Len(log)
  /\ consumer.cursor # None => Materialized /\ consumer.cursor <= cache.cursor
  /\ restarts \in 0..MaxRestarts

(* Between calls the cached state is what the operations up to its cursor  *)
(* fold to at once, however they arrived, were batched, restored from a    *)
(* checkpoint, or applied twice after a rebuild that raced with an append: *)
(* apply_operations_incrementally and materialize agree.                   *)
CacheExact ==
  call = Idle /\ Materialized
    => cache.state = Full({log[i] : i \in 1..cache.cursor}, cache.rev)

(* A consumer that takes in the deltas it is given has exactly the records *)
(* of the state at its cursor, unless the registry changed since it got a  *)
(* full state: project_state_delta leaves nothing stale, nothing out.      *)
ConsumerExact ==
  call = Idle /\ Materialized /\ consumer.cursor = cache.cursor /\ consumer.rev = cache.rev
    => consumer.shown = Project(cache.state)

(* The same after every call, whatever happens to the registry.            *)
ConsumerExactAlways ==
  [][Read(TRUE) => consumer'.shown = Project(cache'.state)]_vars

(* A retracted claim takes part in no conflict and no record shows it,     *)
(* whether the retraction came before the claim or after, by id or by ref. *)
(* What a ref stands for is up to the registry, so that a consumer may     *)
(* still show a claim that only a ref retracts when the registry changed.  *)
RetractedStaysOut ==
  call = Idle /\ Materialized =>
    \A i \in 1..cache.cursor : log[i].kind = "retraction" =>
      \A c \in Claim : c = log[i].target \/ RefOf[cache.rev][c] = log[i].ref =>
        /\ c \notin cache.state.conflict[KeyOf[c]].who
        /\ consumer.cursor = cache.cursor /\ (c = log[i].target \/ consumer.rev = cache.rev) =>
             \A x \in consumer.shown : x[1] # <<"claim", c>>

(* A settled lane stays settled until something is decided about it, the   *)
(* conflict is gone, a candidate appears that its resolution did not       *)
(* weigh, or the candidates are left with none, or with several, of those  *)
(* it selected: retracting a rejected claim reopens no conflict.           *)
SettlementHolds ==
  [][\A l \in Lane :
       LET s == cache.state
           t == cache'.state
           r == s.lane[l].chosen
           who == t.conflict[l[1]].who
       IN /\ Materialized /\ Materialized' /\ cache.rev = cache'.rev
          /\ s.lane[l].effective /\ ~ t.lane[l].effective
          => \/ Timeline(l, s.resolutions, s.events) # Timeline(l, t.resolutions, t.events)
             \/ who = {} \/ ~ who \subseteq Classified(r)
             \/ r.outcome # "preserve" /\ Cardinality(who \cap r.selected) # 1]_cache
===============================================================================
