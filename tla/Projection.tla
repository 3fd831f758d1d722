------------------------------- MODULE Projection -------------------------------
(***************************************************************************)
(* ProjectionService and AsyncProjectionService (integrations/             *)
(* projection.py): keep an external retrieval index equal to the records   *)
(* projected from the memory, through a store of pending deltas and a      *)
(* store of external references.                                           *)
(*                                                                         *)
(* One repository and one namespace.  A record is told apart by its        *)
(* projection id and by its version, which stands for its fingerprint;     *)
(* Absent stands for no record.  Conflict records may disappear and come   *)
(* back with an earlier version: a conflict id is the hash of its claims.  *)
(*                                                                         *)
(* With one caller this is the sync service: the adapter call blocks it.   *)
(* With several it is the async one: a call in progress is suspended only  *)
(* where it awaits the adapter, and the others run in between.             *)
(***************************************************************************)
EXTENDS Naturals, FiniteSets

CONSTANTS
  Id,           \* projection ids
  Version,      \* versions of a record
  Absent,       \* no record
  NoEntry,      \* no pending delta
  Caller,       \* callers of synchronize and search
  Unseen,       \* may a write take effect unseen: a crash before it is
                \* recorded, or a delete that raises after it?
  MaxCommits,   \* bound on the changes of the projected state
  MaxFailures,  \* bound on the adapter calls that raise
  MaxCrashes    \* bound on the restarts of the service

ASSUME ProjectionAssumption ==
  /\ Id \subseteq Nat         \* ids are compared: entries are listed in their order
  /\ Absent \notin Version
  /\ NoEntry \notin Version \cup {Absent}
  /\ Unseen \in BOOLEAN
  /\ MaxCommits \in Nat /\ MaxFailures \in Nat /\ MaxCrashes \in Nat

VARIABLES
  desired,      \* the records project_state(memory.materialize()) yields
  touched,      \* ids in the materialization delta since the service's cursor
  rebuild,      \* that delta is a full rebuild (no cursor, or history gone)
  pending,      \* the delta store: what an entry asks the repository to hold
  reference,    \* the reference store: the version last acknowledged
  external,     \* what the repository holds
  call,         \* each caller's call in progress
  commits, failures, crashes

vars == <<desired, touched, rebuild, pending, reference, external, call,
          commits, failures, crashes>>

Content == Version \cup {Absent}

(* A pending entry is a version to upsert, or Absent for a delete. *)
Entry == Content \cup {NoEntry}

Idle == [kind |-> "idle"]

(* todo: the entries of the snapshot that the loop has not yet handled;    *)
(* known: the references listed at its start; at: the id whose adapter     *)
(* call is awaited, with its outcome.                                      *)
Syncing == [kind : {"sync"}, todo : [Id -> Entry], known : [Id -> Content]]
Awaiting == [kind : {"write"}, todo : [Id -> Entry], known : [Id -> Content],
             at : Id, ok : BOOLEAN]
Searching == [kind : {"search"}, hits : [Id -> Content], asked : [Id -> Content]]

TypeOK ==
  /\ desired \in [Id -> Content]
  /\ touched \subseteq Id
  /\ rebuild \in BOOLEAN
  /\ pending \in [Id -> Entry]
  /\ reference \in [Id -> Content]
  /\ external \in [Id -> Content]
  /\ call \in [Caller -> {Idle} \cup Syncing \cup Awaiting \cup Searching]
  /\ commits \in 0 .. MaxCommits
  /\ failures \in 0 .. MaxFailures
  /\ crashes \in 0 .. MaxCrashes

Init ==
  /\ desired = [i \in Id |-> Absent]
  /\ touched = {}
  /\ rebuild = TRUE
  /\ pending = [i \in Id |-> NoEntry]
  /\ reference = [i \in Id |-> Absent]
  /\ external = [i \in Id |-> Absent]
  /\ call = [c \in Caller |-> Idle]
  /\ commits = 0 /\ failures = 0 /\ crashes = 0

-------------------------------------------------------------------------------
(* The memory *)

(* An operation is committed; id is in its materialization delta, with a   *)
(* record that may be the one it had.                                      *)
Commit(id) ==
  /\ commits < MaxCommits
  /\ \E v \in Content : desired' = [desired EXCEPT ![id] = v]
  /\ touched' = touched \cup {id}
  /\ commits' = commits + 1
  /\ UNCHANGED <<rebuild, pending, reference, external, call, failures, crashes>>

(* The memory rebuilds its state or its bounded history of deltas no       *)
(* longer reaches back to the service's cursor.                            *)
ForgetHistory ==
  /\ touched # {} /\ ~ rebuild
  /\ rebuild' = TRUE
  /\ UNCHANGED <<desired, touched, pending, reference, external, call,
                 commits, failures, crashes>>

-------------------------------------------------------------------------------
(* _refresh_pending_deltas: turn the delta since the cursor into pending   *)
(* entries.  It runs without a suspension point.                           *)

Upserts == {i \in (IF rebuild THEN Id ELSE touched) : desired[i] # Absent}

(* A bug it could have: a rebuild looks for what to delete among the       *)
(* references only.                                                        *)
DeletesOfReferences ==
  IF rebuild
  THEN {i \in Id : desired[i] = Absent /\ reference[i] # Absent}
  ELSE {i \in touched : desired[i] = Absent}

Deletes ==
  IF rebuild
  THEN {i \in Id : desired[i] = Absent
                   /\ (reference[i] # Absent \/ pending[i] # NoEntry)}
  ELSE {i \in touched : desired[i] = Absent}

(* An upsert whose fingerprint the reference already has retires the       *)
(* entry that is pending for it.                                           *)
Refreshed ==
  [i \in Id |->
     CASE i \in Upserts /\ reference[i] = desired[i] -> NoEntry
       [] i \in Upserts /\ reference[i] # desired[i] -> desired[i]
       [] i \in Deletes -> Absent
       [] OTHER -> pending[i]]

-------------------------------------------------------------------------------
(* synchronize *)

(* The loop handles the entries in the order of their ids.  An upsert      *)
(* whose fingerprint is the one of the reference listed when the call      *)
(* started is retired without a write; at the first entry that needs the   *)
(* adapter the call is suspended.                                          *)
IsKnown(todo, known, id) == todo[id] \in Version /\ known[id] = todo[id]

ToWrite(todo, known) == {i \in Id : todo[i] # NoEntry /\ ~ IsKnown(todo, known, i)}

ToRetire(todo, known) ==
  {i \in Id : IsKnown(todo, known, i) /\ \A w \in ToWrite(todo, known) : i < w}

FirstOf(ids) == CHOOSE i \in ids : \A j \in ids : i <= j

Without(entries, ids) == [i \in Id |-> IF i \in ids THEN NoEntry ELSE entries[i]]

(* Run the loop of caller c to its next suspension, or to its end.         *)
RunLoop(c, entries, todo, known) ==
  LET retired == ToRetire(todo, known)
  IN /\ pending' = Without(entries, retired)
     /\ call' = [call EXCEPT ![c] =
          IF ToWrite(todo, known) = {} THEN Idle
          ELSE [kind |-> "sync", todo |-> Without(todo, retired), known |-> known]]

StartSync(c) ==
  /\ call[c] = Idle
  /\ RunLoop(c, Refreshed, Refreshed, reference)
  /\ touched' = {}
  /\ rebuild' = FALSE
  /\ UNCHANGED <<desired, reference, external, commits, failures, crashes>>

(* What a failed adapter call may leave in the repository: what was there, *)
(* what was asked for when the error came after the effect, or, for an     *)
(* upsert that removes the old record before it adds the new one, nothing. *)
AfterFailure(id, wanted) ==
  IF wanted = Absent
  THEN {external[id]} \cup (IF Unseen THEN {Absent} ELSE {})
  ELSE {external[id], wanted, Absent}

(* A bug it could have: the entry is forgotten before the answer is used.  *)
AnsweredAndForgotten(c, id, ok) ==
  [kind |-> "write", todo |-> Without(call[c].todo, {id}), known |-> call[c].known,
   at |-> id, ok |-> ok]

Answered(c, id, ok) ==
  [kind |-> "write", todo |-> call[c].todo, known |-> call[c].known, at |-> id, ok |-> ok]

(* The write that caller c awaits takes effect, or fails.                  *)
Write(c) ==
  /\ call[c].kind = "sync"
  /\ LET id == FirstOf(ToWrite(call[c].todo, call[c].known))
     IN \/ /\ external' = [external EXCEPT ![id] = call[c].todo[id]]
           /\ call' = [call EXCEPT ![c] = Answered(c, id, TRUE)]
           /\ UNCHANGED failures
        \/ /\ failures < MaxFailures
           /\ \E left \in AfterFailure(id, call[c].todo[id]) :
                external' = [external EXCEPT ![id] = left]
           /\ call' = [call EXCEPT ![c] = Answered(c, id, FALSE)]
           /\ failures' = failures + 1
  /\ UNCHANGED <<desired, touched, rebuild, pending, reference, commits, crashes>>

(* A bug it could have: the reference of a failed update stays.            *)
AfterErrorKeep(c) == reference

(* A failed update drops the reference it had, so that the next sync       *)
(* writes the record whatever the repository was left with.                *)
AfterError(c) ==
  IF call[c].todo[call[c].at] \in Version /\ call[c].known[call[c].at] # Absent
  THEN [reference EXCEPT ![call[c].at] = Absent]
  ELSE reference

Acknowledge(c) == [reference EXCEPT ![call[c].at] = call[c].todo[call[c].at]]

(* A bug it could have: the entry is retired whatever the answer.          *)
AnsweredEntry(c) == {call[c].at}

WrittenEntry(c) == IF call[c].ok THEN {call[c].at} ELSE {}

(* The caller runs on from the adapter's answer: a success is recorded and *)
(* the entry of that id retired, a failure leaves the entry.               *)
Resume(c) ==
  /\ call[c].kind = "write"
  /\ reference' = IF call[c].ok THEN Acknowledge(c) ELSE AfterError(c)
  /\ RunLoop(c, Without(pending, WrittenEntry(c)),
             Without(call[c].todo, {call[c].at}), call[c].known)
  /\ UNCHANGED <<desired, touched, rebuild, external, commits, failures, crashes>>

-------------------------------------------------------------------------------
(* search *)

(* The adapter returns some of what matches, at the moment of the call;    *)
(* when it raises the hits are the local ones.                             *)
StartSearch(c) ==
  /\ call[c] = Idle
  /\ pending' = Refreshed
  /\ touched' = {}
  /\ rebuild' = FALSE
  /\ \E found \in SUBSET {i \in Id : external[i] # Absent} :
       call' = [call EXCEPT ![c] =
         [kind |-> "search", asked |-> desired,
          hits |-> [i \in Id |-> IF i \in found THEN external[i] ELSE Absent]]]
  /\ UNCHANGED <<desired, reference, external, commits, failures, crashes>>

(* A bug it could have: a pending entry only adds what the repository did  *)
(* not return.                                                             *)
MergedBehind(c, id) ==
  IF call[c].hits[id] # Absent \/ pending[id] = NoEntry THEN call[c].hits[id] ELSE pending[id]

(* _merge_search_hits: the entries pending when the adapter has answered   *)
(* override or suppress its hits.                                          *)
Merged(c, id) == IF pending[id] # NoEntry THEN pending[id] ELSE call[c].hits[id]

FinishSearch(c) ==
  /\ call[c].kind = "search"
  /\ call' = [call EXCEPT ![c] = Idle]
  /\ UNCHANGED <<desired, touched, rebuild, pending, reference, external,
                 commits, failures, crashes>>

-------------------------------------------------------------------------------
(* The process dies and starts again with the same two stores and no       *)
(* cursor.  It may die in the middle of a refresh, or between the two      *)
(* store writes that follow a successful adapter call.                     *)
Crash ==
  /\ crashes < MaxCrashes
  /\ \/ /\ Unseen \/ \A c \in Caller : call[c].kind # "write"
        /\ \E done \in SUBSET Id :
             pending' = [i \in Id |-> IF i \in done THEN Refreshed[i] ELSE pending[i]]
        /\ UNCHANGED reference
     \/ \E c \in Caller :
          /\ call[c].kind = "write" /\ call[c].ok
          /\ Unseen \/ \A d \in Caller \ {c} : call[d].kind # "write"
          /\ reference' = Acknowledge(c)
          /\ UNCHANGED pending
  /\ call' = [c \in Caller |-> Idle]
  /\ rebuild' = TRUE
  /\ crashes' = crashes + 1
  /\ UNCHANGED <<desired, touched, external, commits, failures>>

Next ==
  \/ \E id \in Id : Commit(id)
  \/ ForgetHistory
  \/ \E c \in Caller : \/ StartSync(c)
                        \/ Write(c)
                        \/ Resume(c)
                        \/ StartSearch(c)
                        \/ FinishSearch(c)
  \/ Crash

Spec == Init /\ [][Next]_vars

(* The host calls synchronize again and again, whatever it searches in     *)
(* between, and a call that has started runs.                              *)
Continue(c) == Write(c) \/ Resume(c) \/ FinishSearch(c)

FairSpec == Spec /\ \A c \in Caller : WF_vars(Continue(c)) /\ SF_vars(StartSync(c))

-------------------------------------------------------------------------------
(* What search shows for an id whose entry overrides the repository.       *)
Overlay(id) == IF pending[id] # NoEntry THEN pending[id] ELSE external[id]

(* Once the delta of an id has been read, its pending entry, or else the   *)
(* repository, holds the record the memory wants there: no entry is        *)
(* retired before its write succeeded, whatever fails, crashes, or changes *)
(* and changes back in between (_refresh_pending_deltas, synchronize).     *)
Accounted ==
  ~ rebuild => \A id \in Id \ touched : Overlay(id) = desired[id]

(* Every record left in the repository can still be found and removed: a   *)
(* reference or a pending entry names it, also after a failed update has   *)
(* dropped the reference and the process has lost its cursor.              *)
NoOrphan ==
  \A id \in Id : external[id] # Absent =>
    \/ reference[id] # Absent
    \/ pending[id] # NoEntry

(* A search that overlaps commits of other processes shows of each record  *)
(* what the memory wanted when the search began, or does not show it: a    *)
(* stale copy in the repository never comes through (search,               *)
(* _merge_search_hits).                                                    *)
SearchFresh ==
  [][\A c \in Caller : FinishSearch(c) =>
       \A id \in Id : Merged(c, id) \in {Absent, call[c].asked[id]}]_vars

(* When the memory and the adapter's failures come to an end, repeated     *)
(* synchronize calls bring the repository to the projected records.        *)
EventuallyIndexed == <>[](external = desired)

(* docs/integrations/architecture.md: "A pending entry is retired only     *)
(* after its matching external write succeeds."  Seen when no call is in   *)
(* progress: what has no entry and no unread change is in the repository.  *)
RetiredWhenWritten == (\A c \in Caller : call[c] = Idle) => Accounted
===============================================================================
