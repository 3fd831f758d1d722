---------------------------- MODULE ProjectionProofs ----------------------------
(***************************************************************************)
(* What the sync projection service guarantees for any records, versions   *)
(* and numbers of commits, failures and crashes: the pending deltas stand  *)
(* between the memory and the external repository without a gap.           *)
(***************************************************************************)
EXTENDS Projection, WellFoundedInduction, TLAPS

(* Every call that waits for the adapter has an entry that it writes.      *)
SyncHasWork ==
  \A c \in Caller :
    /\ call[c].kind = "sync" => ToWrite(call[c].todo, call[c].known) # {}
    /\ call[c].kind = "write" => call[c].todo[call[c].at] # NoEntry

TInv == TypeOK /\ SyncHasWork

(* The reference of an id is the version the repository holds.             *)
Referenced(id) == reference[id] \in {Absent, external[id]}

(* A reference says what the repository holds, except for the id whose     *)
(* answer has not been recorded yet.                                       *)
ReferencesTrue ==
  \A id \in Id : Referenced(id) \/ \E c \in Caller : call[c].kind = "write" /\ call[c].at = id

(* What synchronize has still to do is what is pending, and the references *)
(* are those it has listed.                                                *)
SnapshotHeld ==
  \A c \in Caller : call[c].kind \in {"sync", "write"} =>
    \A id \in Id : call[c].todo[id] # NoEntry =>
      pending[id] = call[c].todo[id] /\ reference[id] = call[c].known[id]

(* An answer tells what has become of the entry that was written.          *)
AnswerHeld ==
  \A c \in Caller : call[c].kind = "write" =>
    /\ call[c].ok => external[call[c].at] = call[c].todo[call[c].at]
    /\ ~ call[c].ok /\ call[c].todo[call[c].at] = Absent => Referenced(call[c].at)

(* What a search in progress is going to show.                             *)
HitsHeld ==
  \A c \in Caller : call[c].kind = "search" =>
    \A id \in Id : Merged(c, id) \in {Absent, call[c].asked[id]}

PInv ==
  /\ TInv
  /\ Accounted /\ NoOrphan
  /\ ReferencesTrue /\ SnapshotHeld /\ AnswerHeld /\ HitsHeld

(* The sync service: a call blocks its host.                               *)
OneCaller == \A c, d \in Caller : c = d

-------------------------------------------------------------------------------
(* Types                                                                   *)

(* What kind of call a task is in tells the parts of its record.           *)
LEMMA CallKinds ==
  ASSUME TypeOK, NEW c \in Caller
  PROVE  /\ call[c].kind = "sync" => call[c] \in Syncing
         /\ call[c].kind = "write" => call[c] \in Awaiting
         /\ call[c].kind = "search" => call[c] \in Searching
         /\ call[c] = Idle => call[c].kind = "idle"
BY DEF TypeOK, Idle, Syncing, Awaiting, Searching

(* The entries after a refresh have their types.                           *)
LEMMA RefreshedType ==
  ASSUME TypeOK
  PROVE  Refreshed \in [Id -> Entry]
BY DEF TypeOK, Refreshed, Entry, Content

(* Entries stay entries when some are retired.                             *)
LEMMA WithoutType ==
  ASSUME NEW entries \in [Id -> Entry], NEW ids
  PROVE  Without(entries, ids) \in [Id -> Entry]
BY DEF Without, Entry

(* Retiring what is known leaves the entries that need the adapter.        *)
LEMMA WorkRemains ==
  ASSUME NEW todo \in [Id -> Entry], NEW known \in [Id -> Content]
  PROVE  ToWrite(Without(todo, ToRetire(todo, known)), known) = ToWrite(todo, known)
<1>. DEFINE rest == Without(todo, ToRetire(todo, known))
<1>1. SUFFICES ASSUME NEW i \in Id
               PROVE  i \in ToWrite(rest, known) <=> i \in ToWrite(todo, known)
  BY DEF ToWrite
<1>2. i \in ToRetire(todo, known) => IsKnown(todo, known, i)
  BY DEF ToRetire
<1>3. rest[i] = IF i \in ToRetire(todo, known) THEN NoEntry ELSE todo[i]
  BY DEF Without
<1>4. CASE i \in ToRetire(todo, known)
  BY <1>2, <1>3, <1>4 DEF ToWrite
<1>5. CASE i \notin ToRetire(todo, known)
  BY <1>3, <1>5 DEF ToWrite, IsKnown
<1>. QED  BY <1>4, <1>5

(* There is a first entry to write.                                        *)
LEMMA FirstIsOne ==
  ASSUME NEW ids \in SUBSET Nat, ids # {}
  PROVE  FirstOf(ids) \in ids
<1>1. PICK i \in ids : \A j \in ids : ~ <<j, i>> \in OpToRel(<, Nat)
  BY NatLessThanWellFounded, WFMin
<1>2. \A j \in ids : i <= j
  <2>1. ASSUME NEW j \in ids, j < i
        PROVE  FALSE
    BY <1>1, <2>1 DEF OpToRel
  <2>. QED  BY <2>1
<1>. QED  BY <1>2 DEF FirstOf

(* The loop of _sync leaves pending entries and a call of their types, and *)
(* a call that goes on has work left.                                      *)
LEMMA LoopType ==
  ASSUME TInv, NEW c \in Caller,
         NEW entries \in [Id -> Entry], NEW todo \in [Id -> Entry],
         NEW known \in [Id -> Content],
         RunLoop(c, entries, todo, known)
  PROVE  /\ pending' \in [Id -> Entry]
         /\ call' \in [Caller -> {Idle} \cup Syncing \cup Awaiting \cup Searching]
         /\ SyncHasWork'
<1>. DEFINE retired == ToRetire(todo, known)
            next == IF ToWrite(todo, known) = {} THEN Idle
                    ELSE [kind |-> "sync", todo |-> Without(todo, retired), known |-> known]
<1>1. pending' = Without(entries, retired) /\ call' = [call EXCEPT ![c] = next]
  BY DEF RunLoop
<1>2. next \in {Idle} \cup Syncing
  BY WithoutType DEF Syncing
<1>3. next.kind # "write" /\ (next.kind = "sync" => ToWrite(next.todo, next.known) # {})
  BY WorkRemains DEF Idle
<1>. HIDE DEF next
<1>4. call \in [Caller -> {Idle} \cup Syncing \cup Awaiting \cup Searching]
  BY DEF TInv, TypeOK
<1>5. \A d \in Caller : call'[d] = IF d = c THEN next ELSE call[d]
  BY <1>1, <1>4
<1>6. SyncHasWork'
  BY <1>3, <1>5 DEF TInv, SyncHasWork
<1>. QED  BY <1>1, <1>2, <1>4, <1>6, WithoutType

(* The types hold of the empty service.                                    *)
LEMMA TypeInit == Init => TInv
BY ProjectionAssumption DEF Init, TInv, TypeOK, SyncHasWork, Content, Entry, Idle

(* Every step keeps the types.                                             *)
LEMMA TypeStep ==
  ASSUME TInv, [Next]_vars
  PROVE  TInv'
<1>. USE DEF TInv
<1>1. ASSUME NEW id \in Id, Commit(id)
      PROVE  TInv'
  BY <1>1, ProjectionAssumption DEF Commit, TypeOK, SyncHasWork, ToWrite, IsKnown
<1>2. ASSUME ForgetHistory
      PROVE  TInv'
  BY <1>2 DEF ForgetHistory, TypeOK, SyncHasWork
<1>3. ASSUME NEW c \in Caller, StartSync(c)
      PROVE  TInv'
  <2>1. RunLoop(c, Refreshed, Refreshed, reference) /\ reference \in [Id -> Content]
    BY <1>3 DEF StartSync, TypeOK
  <2>2. /\ pending' \in [Id -> Entry]
        /\ call' \in [Caller -> {Idle} \cup Syncing \cup Awaiting \cup Searching]
        /\ SyncHasWork'
    BY <2>1, RefreshedType, LoopType
  <2>. QED  BY <1>3, <2>2 DEF StartSync, TypeOK
<1>4. ASSUME NEW c \in Caller, Write(c)
      PROVE  TInv'
  <2>. DEFINE id == FirstOf(ToWrite(call[c].todo, call[c].known))
  <2>1. call[c] \in Syncing
    BY <1>4, CallKinds DEF Write
  <2>2. id \in Id
    <3>1. ToWrite(call[c].todo, call[c].known) # {}
      BY <1>4 DEF Write, SyncHasWork
    <3>2. ToWrite(call[c].todo, call[c].known) \in SUBSET Id /\ Id \subseteq Nat
      BY ProjectionAssumption DEF ToWrite
    <3>3. ToWrite(call[c].todo, call[c].known) \in SUBSET Nat
      BY <3>2
    <3>. QED  BY <3>1, <3>2, <3>3, FirstIsOne
  <2>3. call[c].todo[id] = NoEntry \/ call[c].todo[id] \in Content
    BY <2>1, <2>2 DEF Syncing, Entry
  <2>4. call[c].todo[id] # NoEntry
    <3>1. ToWrite(call[c].todo, call[c].known) # {}
      BY <1>4 DEF Write, SyncHasWork
    <3>2. ToWrite(call[c].todo, call[c].known) \in SUBSET Nat
      BY ProjectionAssumption DEF ToWrite
    <3>3. id \in ToWrite(call[c].todo, call[c].known)
      BY <3>1, <3>2, FirstIsOne
    <3>. QED  BY <3>3 DEF ToWrite
  <2>. HIDE DEF id
  <2>5. PICK ok \in BOOLEAN, left \in Content :
          /\ external' = [external EXCEPT ![id] = left]
          /\ call' = [call EXCEPT ![c] = Answered(c, id, ok)]
    <3>1. AfterFailure(id, call[c].todo[id]) \subseteq Content
      BY <2>2, <2>3, <2>4 DEF AfterFailure, TypeOK, Content
    <3>. QED  BY <1>4, <2>3, <2>4, <3>1 DEF Write, id
  <2>6. failures' \in 0 .. MaxFailures
    <3>1. failures \in 0 .. MaxFailures /\ MaxFailures \in Nat
      BY ProjectionAssumption DEF TypeOK
    <3>2. CASE UNCHANGED failures
      BY <3>1, <3>2
    <3>3. CASE failures < MaxFailures /\ failures' = failures + 1
      BY <3>1, <3>3
    <3>. QED  BY <1>4, <3>2, <3>3, Zenon DEF Write
  <2>7. Answered(c, id, ok) \in Awaiting
    BY <2>1, <2>2 DEF Answered, Awaiting, Syncing
  <2>8. /\ Answered(c, id, ok).kind = "write"
        /\ Answered(c, id, ok).todo[Answered(c, id, ok).at] # NoEntry
    BY <2>4 DEF Answered
  <2>. HIDE DEF TypeOK
  <2>9. call' \in [Caller -> {Idle} \cup Syncing \cup Awaiting \cup Searching]
    BY <2>5, <2>7 DEF TypeOK
  <2>10. SyncHasWork'
    BY <2>5, <2>8, <2>9 DEF SyncHasWork, TypeOK
  <2>. QED  BY <1>4, <2>2, <2>5, <2>6, <2>9, <2>10 DEF Write, TypeOK
<1>5. ASSUME NEW c \in Caller, Resume(c)
      PROVE  TInv'
  <2>1. call[c] \in Awaiting
    BY <1>5, CallKinds DEF Resume
  <2>2. call[c].todo \in [Id -> Entry] /\ call[c].known \in [Id -> Content] /\ call[c].at \in Id
    BY <2>1 DEF Awaiting
  <2>3. reference' \in [Id -> Content]
    <3>1. CASE ~ call[c].ok
      BY <1>5, <2>2, <3>1 DEF Resume, AfterError, TypeOK, Content
    <3>2. CASE call[c].ok
      <4>1. reference' = [reference EXCEPT ![call[c].at] = call[c].todo[call[c].at]]
        BY <1>5, <3>2 DEF Resume, Acknowledge
      <4>2. call[c].todo[call[c].at] \in Content
        BY <1>5, <2>2 DEF Resume, SyncHasWork, Entry
      <4>. QED  BY <4>1, <4>2 DEF TypeOK
    <3>. QED  BY <3>1, <3>2
  <2>4. /\ pending' \in [Id -> Entry]
        /\ call' \in [Caller -> {Idle} \cup Syncing \cup Awaiting \cup Searching]
        /\ SyncHasWork'
    BY <1>5, <2>2, WithoutType, LoopType DEF Resume, TypeOK
  <2>. QED  BY <1>5, <2>3, <2>4 DEF Resume, TypeOK
<1>6. ASSUME NEW c \in Caller, StartSearch(c)
      PROVE  TInv'
  <2>1. PICK hits \in [Id -> Content] :
          call' = [call EXCEPT ![c] = [kind |-> "search", asked |-> desired, hits |-> hits]]
    <3>1. PICK found \in SUBSET Id :
            call' = [call EXCEPT ![c] = [kind |-> "search", asked |-> desired,
              hits |-> [i \in Id |-> IF i \in found THEN external[i] ELSE Absent]]]
      BY <1>6 DEF StartSearch
    <3>2. [i \in Id |-> IF i \in found THEN external[i] ELSE Absent] \in [Id -> Content]
      BY DEF TypeOK, Content
    <3>. QED  BY <3>1, <3>2
  <2>2. [kind |-> "search", asked |-> desired, hits |-> hits] \in Searching
    BY DEF TypeOK, Searching
  <2>3. call' \in [Caller -> {Idle} \cup Syncing \cup Awaiting \cup Searching]
    BY <2>1, <2>2 DEF TypeOK
  <2>4. SyncHasWork'
    BY <2>1 DEF SyncHasWork, TypeOK
  <2>. QED  BY <1>6, <2>3, <2>4, RefreshedType DEF StartSearch, TypeOK
<1>7. ASSUME NEW c \in Caller, FinishSearch(c)
      PROVE  TInv'
  <2>1. call' = [call EXCEPT ![c] = Idle]
    BY <1>7 DEF FinishSearch
  <2>2. call' \in [Caller -> {Idle} \cup Syncing \cup Awaiting \cup Searching]
    BY <2>1 DEF TypeOK
  <2>3. SyncHasWork'
    BY <2>1 DEF SyncHasWork, TypeOK, Idle
  <2>. QED  BY <1>7, <2>2, <2>3 DEF FinishSearch, TypeOK
<1>8. ASSUME Crash
      PROVE  TInv'
  <2>1. pending' \in [Id -> Entry] /\ reference' \in [Id -> Content]
    <3>1. CASE UNCHANGED reference
      <4>1. pending' = pending \/ \E done \in SUBSET Id :
              pending' = [i \in Id |-> IF i \in done THEN Refreshed[i] ELSE pending[i]]
        BY <1>8 DEF Crash
      <4>. QED  BY <3>1, <4>1, RefreshedType DEF TypeOK
    <3>2. ASSUME NEW c \in Caller, call[c].kind = "write", reference' = Acknowledge(c),
                 UNCHANGED pending
          PROVE  pending' \in [Id -> Entry] /\ reference' \in [Id -> Content]
      <4>1. call[c] \in Awaiting
        BY <3>2, CallKinds
      <4>2. call[c].todo[call[c].at] \in Content
        BY <3>2, <4>1 DEF Awaiting, SyncHasWork, Entry
      <4>. QED  BY <3>2, <4>2 DEF Acknowledge, TypeOK
    <3>. QED  BY <1>8, <3>1, <3>2 DEF Crash
  <2>2. call' = [c \in Caller |-> Idle]
    BY <1>8 DEF Crash
  <2>3. SyncHasWork'
    BY <2>2 DEF SyncHasWork, Idle
  <2>. QED  BY <1>8, <2>1, <2>2, <2>3, ProjectionAssumption DEF Crash, TypeOK
<1>9. CASE UNCHANGED vars
  BY <1>9 DEF vars, TypeOK, SyncHasWork
<1>. QED  BY <1>1, <1>2, <1>3, <1>4, <1>5, <1>6, <1>7, <1>8, <1>9 DEF Next

(* Every variable keeps its type, for any number of callers, with or       *)
(* without unseen writes: synchronize always finds an entry to write when  *)
(* it calls the adapter.                                                   *)
THEOREM ProjectionTypeCorrect == Spec => []TypeOK
<1>1. TInv /\ [Next]_vars => TInv'
  BY TypeStep
<1>2. TInv => TypeOK
  BY DEF TInv
<1>. QED  BY TypeInit, <1>1, <1>2, PTL DEF Spec

-------------------------------------------------------------------------------
(* The entries stand between the memory and the repository                 *)

(* What RunLoop needs of the entries it is given, for the state it leads   *)
(* to, and what a call that has recorded an answer or has refreshed the    *)
(* entries knows of them.                                                  *)
LoopReady(entries, todo, known) ==
  \A id \in Id :
    /\ todo[id] # NoEntry => entries[id] = todo[id] /\ reference'[id] = known[id]
    /\ reference'[id] \in {Absent, external[id]}
    /\ external[id] # Absent => reference'[id] # Absent \/ entries[id] # NoEntry
    /\ ~ rebuild' /\ id \notin touched' =>
         (IF entries[id] # NoEntry THEN entries[id] ELSE external[id]) = desired[id]

(* Retiring the entries of known records, up to the next one that needs    *)
(* the adapter, loses nothing.                                             *)
LEMMA LoopKeeps ==
  ASSUME TInv, TInv', OneCaller, NEW c \in Caller,
         NEW entries \in [Id -> Entry], NEW todo \in [Id -> Entry],
         NEW known \in [Id -> Content],
         LoopReady(entries, todo, known),
         RunLoop(c, entries, todo, known), UNCHANGED <<desired, external>>
  PROVE  PInv'
<1>. DEFINE retired == ToRetire(todo, known)
            next == IF ToWrite(todo, known) = {} THEN Idle
                    ELSE [kind |-> "sync", todo |-> Without(todo, retired), known |-> known]
<1>1. pending' = Without(entries, retired) /\ call' = [call EXCEPT ![c] = next]
  BY DEF RunLoop
<1>2. next.kind \in {"idle", "sync"}
  BY DEF Idle
<1>3. next.kind = "sync" => next.todo = Without(todo, retired) /\ next.known = known
  BY DEF Idle
<1>. HIDE DEF next
<1>4. \A d \in Caller : call'[d] = next
  BY <1>1 DEF OneCaller, TInv, TypeOK
<1>5. ASSUME NEW id \in Id, id \in retired
      PROVE  /\ entries[id] = todo[id] /\ todo[id] \in Version
             /\ reference'[id] = todo[id] /\ external[id] = todo[id]
  <2>1. todo[id] \in Version /\ known[id] = todo[id]
    BY <1>5 DEF ToRetire, IsKnown
  <2>2. todo[id] # NoEntry /\ todo[id] # Absent
    BY <2>1, ProjectionAssumption
  <2>. QED  BY <2>1, <2>2 DEF LoopReady
<1>. HIDE DEF retired
<1>6. \A id \in Id : pending'[id] = IF id \in retired THEN NoEntry ELSE entries[id]
  BY <1>1 DEF Without
<1>7. Accounted'
  <2>1. SUFFICES ASSUME ~ rebuild', NEW id \in Id, id \notin touched'
                 PROVE  Overlay(id)' = desired'[id]
    BY DEF Accounted
  <2>2. (IF entries[id] # NoEntry THEN entries[id] ELSE external[id]) = desired[id]
    BY <2>1 DEF LoopReady
  <2>3. todo[id] \in Version => todo[id] # NoEntry
    BY ProjectionAssumption
  <2>. QED  BY <1>5, <1>6, <2>2, <2>3 DEF Overlay
<1>8. NoOrphan'
  <2>1. SUFFICES ASSUME NEW id \in Id, external[id] # Absent
                 PROVE  reference'[id] # Absent \/ pending'[id] # NoEntry
    BY DEF NoOrphan
  <2>2. reference'[id] # Absent \/ entries[id] # NoEntry
    BY <2>1 DEF LoopReady
  <2>3. todo[id] \in Version => todo[id] # Absent
    BY ProjectionAssumption
  <2>. QED  BY <1>5, <1>6, <2>2, <2>3
<1>9. ReferencesTrue'
  BY DEF LoopReady, ReferencesTrue, Referenced
<1>10. SnapshotHeld'
  <2>1. SUFFICES ASSUME NEW d \in Caller, call'[d].kind \in {"sync", "write"},
                        NEW id \in Id, call'[d].todo[id] # NoEntry
                 PROVE  pending'[id] = call'[d].todo[id] /\ reference'[id] = call'[d].known[id]
    BY DEF SnapshotHeld
  <2>2. call'[d].todo = Without(todo, retired) /\ call'[d].known = known
    BY <1>2, <1>3, <1>4, <2>1
  <2>3. id \notin retired /\ call'[d].todo[id] = todo[id]
    BY <2>1, <2>2 DEF Without
  <2>. QED  BY <1>6, <2>1, <2>2, <2>3 DEF LoopReady
<1>11. AnswerHeld' /\ HitsHeld'
  BY <1>2, <1>4 DEF AnswerHeld, HitsHeld
<1>. QED  BY <1>7, <1>8, <1>9, <1>10, <1>11 DEF PInv

(* Reading the delta since the cursor leaves an entry, or the repository   *)
(* itself, for every record, when the call begins.                         *)
LEMMA RefreshAccounts ==
  ASSUME PInv, OneCaller, \A d \in Caller : call[d].kind # "write"
  PROVE  \A id \in Id :
           /\ reference[id] \in {Absent, external[id]}
           /\ external[id] # Absent => reference[id] # Absent \/ Refreshed[id] # NoEntry
           /\ (IF Refreshed[id] # NoEntry THEN Refreshed[id] ELSE external[id]) = desired[id]
<1>1. SUFFICES ASSUME NEW id \in Id
               PROVE  /\ reference[id] \in {Absent, external[id]}
                      /\ external[id] # Absent => reference[id] # Absent \/ Refreshed[id] # NoEntry
                      /\ (IF Refreshed[id] # NoEntry THEN Refreshed[id] ELSE external[id])
                           = desired[id]
  OBVIOUS
<1>2. reference[id] \in {Absent, external[id]}
  BY DEF PInv, ReferencesTrue, Referenced
<1>3. desired[id] # NoEntry /\ Absent # NoEntry
  BY ProjectionAssumption DEF PInv, TInv, TypeOK, Content
<1>4. external[id] # Absent => reference[id] # Absent \/ pending[id] # NoEntry
  BY DEF PInv, NoOrphan
<1>5. ~ rebuild /\ id \notin touched =>
        (IF pending[id] # NoEntry THEN pending[id] ELSE external[id]) = desired[id]
  BY DEF PInv, Accounted, Overlay
<1>6. Refreshed[id] = CASE id \in Upserts /\ reference[id] = desired[id] -> NoEntry
                        [] id \in Upserts /\ reference[id] # desired[id] -> desired[id]
                        [] id \in Deletes -> Absent
                        [] OTHER -> pending[id]
  BY DEF Refreshed
<1>7. CASE id \in Upserts
  <2>1. desired[id] # Absent /\ id \notin Deletes
    BY <1>7 DEF Upserts, Deletes
  <2>2. CASE reference[id] = desired[id]
    BY <1>2, <1>6, <1>7, <2>1, <2>2
  <2>3. CASE reference[id] # desired[id]
    BY <1>2, <1>3, <1>6, <1>7, <2>1, <2>3
  <2>. QED  BY <2>2, <2>3
<1>8. CASE id \in Deletes
  <2>1. desired[id] = Absent /\ id \notin Upserts
    BY <1>8 DEF Upserts, Deletes
  <2>. QED  BY <1>2, <1>3, <1>6, <1>8, <2>1
<1>9. CASE id \notin Upserts /\ id \notin Deletes
  <2>1. Refreshed[id] = pending[id]
    BY <1>6, <1>9
  <2>2. CASE rebuild
    <3>1. desired[id] = Absent /\ reference[id] = Absent /\ pending[id] = NoEntry
      BY <1>9, <2>2 DEF Upserts, Deletes
    <3>. QED  BY <1>4, <2>1, <3>1
  <2>3. CASE ~ rebuild
    <3>1. id \notin touched
      BY <1>9, <2>3 DEF Upserts, Deletes
    <3>. QED  BY <1>2, <1>4, <1>5, <2>1, <2>3, <3>1
  <2>. QED  BY <2>2, <2>3
<1>. QED  BY <1>7, <1>8, <1>9

(* A commit in the memory keeps the account of what is wanted, held and    *)
(* pending.                                                                *)
LEMMA CommitKeeps ==
  ASSUME PInv, TInv', NEW id \in Id, Commit(id)
  PROVE  PInv'
<1>1. UNCHANGED <<rebuild, pending, reference, external, call>>
  BY DEF Commit
<1>2. \A i \in Id : i # id => desired'[i] = desired[i]
  BY DEF Commit, PInv, TInv, TypeOK
<1>3. Accounted'
  BY <1>1, <1>2 DEF Commit, PInv, Accounted, Overlay
<1>4. NoOrphan' /\ ReferencesTrue' /\ SnapshotHeld' /\ AnswerHeld' /\ HitsHeld'
  BY <1>1 DEF PInv, NoOrphan, ReferencesTrue, Referenced, SnapshotHeld, AnswerHeld,
              HitsHeld, Merged
<1>. QED  BY <1>3, <1>4 DEF PInv

(* The refresh and the loop of a sync up to its first write keep the       *)
(* account.                                                                *)
LEMMA StartSyncKeeps ==
  ASSUME PInv, TInv', OneCaller, NEW c \in Caller, StartSync(c)
  PROVE  PInv'
<1>. DEFINE entries == Refreshed
<1>1. entries \in [Id -> Entry] /\ reference \in [Id -> Content]
  BY RefreshedType DEF PInv, TInv, TypeOK
<1>2. \A d \in Caller : call[d].kind # "write"
  BY DEF StartSync, OneCaller, Idle
<1>3. LoopReady(entries, entries, reference)
  BY <1>2, RefreshAccounts DEF StartSync, LoopReady
<1>4. RunLoop(c, entries, entries, reference) /\ UNCHANGED <<desired, external>>
  BY DEF StartSync
<1>. HIDE DEF entries
<1>. QED  BY <1>1, <1>3, <1>4, LoopKeeps DEF PInv

(* An external write, done or failed, keeps the account.                   *)
LEMMA WriteKeeps ==
  ASSUME PInv, TInv', OneCaller, ~ Unseen, NEW c \in Caller, Write(c)
  PROVE  PInv'
<1>. DEFINE todo == call[c].todo
            id == FirstOf(ToWrite(call[c].todo, call[c].known))
<1>1. call[c] \in Syncing /\ call[c].kind = "sync"
  BY CallKinds DEF PInv, TInv, Write
<1>2. id \in Id /\ todo[id] # NoEntry
  <2>1. ToWrite(call[c].todo, call[c].known) # {}
    BY DEF PInv, TInv, SyncHasWork, Write
  <2>2. ToWrite(call[c].todo, call[c].known) \in SUBSET Nat
    BY ProjectionAssumption DEF ToWrite
  <2>3. id \in ToWrite(call[c].todo, call[c].known)
    BY <2>1, <2>2, FirstIsOne
  <2>. QED  BY <2>3 DEF ToWrite
<1>3. /\ UNCHANGED <<desired, touched, rebuild, pending, reference>>
      /\ \E ok \in BOOLEAN, left \in AfterFailure(id, todo[id]) \cup {todo[id]} :
           /\ external' = [external EXCEPT ![id] = left]
           /\ call' = [call EXCEPT ![c] = Answered(c, id, ok)]
           /\ ok => left = todo[id]
           /\ ~ ok => left \in AfterFailure(id, todo[id])
  BY DEF Write
<1>. HIDE DEF id
<1>4. PICK ok \in BOOLEAN, left \in AfterFailure(id, todo[id]) \cup {todo[id]} :
        /\ external' = [external EXCEPT ![id] = left]
        /\ call' = [call EXCEPT ![c] = Answered(c, id, ok)]
        /\ ok => left = todo[id]
        /\ ~ ok => left \in AfterFailure(id, todo[id])
  BY <1>3
<1>5. \A d \in Caller : call'[d] = [kind |-> "write", todo |-> todo, known |-> call[c].known,
                                    at |-> id, ok |-> ok]
  BY <1>4 DEF OneCaller, PInv, TInv, TypeOK, Answered
<1>6. \A i \in Id : external'[i] = IF i = id THEN left ELSE external[i]
  BY <1>4 DEF PInv, TInv, TypeOK
<1>7. \A i \in Id : todo[i] # NoEntry => pending[i] = todo[i] /\ reference[i] = call[c].known[i]
  BY <1>1 DEF PInv, SnapshotHeld
<1>8. \A d \in Caller : call[d].kind # "write"
  BY <1>1 DEF OneCaller
<1>. HIDE DEF todo
<1>9. Accounted' /\ NoOrphan'
  BY <1>2, <1>3, <1>6, <1>7 DEF PInv, Accounted, NoOrphan, Overlay
<1>10. ReferencesTrue'
  BY <1>3, <1>5, <1>6, <1>8 DEF PInv, ReferencesTrue, Referenced
<1>11. SnapshotHeld'
  BY <1>3, <1>5, <1>7 DEF SnapshotHeld
<1>12. AnswerHeld'
  <2>1. ~ ok /\ todo[id] = Absent => external'[id] = external[id]
    BY <1>2, <1>4, <1>6 DEF AfterFailure
  <2>2. reference[id] \in {Absent, external[id]}
    BY <1>2, <1>8 DEF PInv, ReferencesTrue, Referenced
  <2>3. ok => external'[id] = todo[id]
    BY <1>2, <1>4, <1>6
  <2>4. ~ ok /\ todo[id] = Absent => reference'[id] \in {Absent, external'[id]}
    BY <1>3, <2>1, <2>2
  <2>5. SUFFICES ASSUME NEW d \in Caller
                 PROVE  /\ call'[d].ok => external'[call'[d].at] = call'[d].todo[call'[d].at]
                        /\ ~ call'[d].ok /\ call'[d].todo[call'[d].at] = Absent
                             => reference'[call'[d].at] \in {Absent, external'[call'[d].at]}
    BY DEF AnswerHeld, Referenced
  <2>6. call'[d].ok = ok /\ call'[d].at = id /\ call'[d].todo = todo
    BY <1>5
  <2>. QED  BY <2>3, <2>4, <2>6
<1>13. HitsHeld'
  BY <1>5 DEF HitsHeld
<1>. QED  BY <1>9, <1>10, <1>11, <1>12, <1>13 DEF PInv

(* What a sync does after a write, up to the next one, keeps the account.  *)
LEMMA ResumeKeeps ==
  ASSUME PInv, TInv', OneCaller, NEW c \in Caller, Resume(c)
  PROVE  PInv'
<1>. DEFINE at == call[c].at
            todo == call[c].todo
            known == call[c].known
            entries == Without(pending, WrittenEntry(c))
            rest == Without(todo, {at})
<1>1. call[c] \in Awaiting /\ call[c].kind = "write"
  BY CallKinds DEF PInv, TInv, Resume
<1>2. /\ entries \in [Id -> Entry] /\ rest \in [Id -> Entry] /\ known \in [Id -> Content]
      /\ todo \in [Id -> Entry] /\ at \in Id /\ call[c].ok \in BOOLEAN
  BY <1>1, WithoutType DEF PInv, TInv, TypeOK, Awaiting
<1>3. RunLoop(c, entries, rest, known) /\ UNCHANGED <<desired, touched, rebuild, external>>
  BY DEF Resume
<1>4. todo[at] # NoEntry
  BY <1>1 DEF PInv, TInv, SyncHasWork
<1>5. \A i \in Id : todo[i] # NoEntry => pending[i] = todo[i] /\ reference[i] = known[i]
  BY <1>1 DEF PInv, SnapshotHeld
<1>6. \A i \in Id : i # at => reference[i] \in {Absent, external[i]}
  BY <1>1 DEF PInv, ReferencesTrue, Referenced, OneCaller
<1>7. /\ call[c].ok => external[at] = todo[at]
      /\ ~ call[c].ok /\ todo[at] = Absent => reference[at] \in {Absent, external[at]}
  BY <1>1 DEF PInv, AnswerHeld, Referenced
<1>8. /\ \A i \in Id : i # at => reference'[i] = reference[i]
      /\ call[c].ok => reference'[at] = todo[at]
      /\ ~ call[c].ok => reference'[at] =
           IF todo[at] \in Version /\ known[at] # Absent THEN Absent ELSE reference[at]
  BY <1>2 DEF Resume, Acknowledge, AfterError, PInv, TInv, TypeOK
<1>9. /\ \A i \in Id : rest[i] = IF i = at THEN NoEntry ELSE todo[i]
      /\ \A i \in Id : entries[i] = IF i = at /\ call[c].ok THEN NoEntry ELSE pending[i]
  BY DEF Without, WrittenEntry
<1>10. todo[at] \in Version \cup {Absent}
  BY <1>2, <1>4 DEF Entry, Content
<1>11. \A i \in Id :
         /\ external[i] # Absent => reference[i] # Absent \/ pending[i] # NoEntry
         /\ ~ rebuild /\ i \notin touched =>
              (IF pending[i] # NoEntry THEN pending[i] ELSE external[i]) = desired[i]
  BY DEF PInv, NoOrphan, Accounted, Overlay
<1>. HIDE DEF at, todo, known, entries, rest
<1>12. LoopReady(entries, rest, known)
  <2>1. SUFFICES ASSUME NEW i \in Id
                 PROVE  /\ rest[i] # NoEntry => entries[i] = rest[i] /\ reference'[i] = known[i]
                        /\ reference'[i] \in {Absent, external[i]}
                        /\ external[i] # Absent => reference'[i] # Absent \/ entries[i] # NoEntry
                        /\ ~ rebuild /\ i \notin touched =>
                             (IF entries[i] # NoEntry THEN entries[i] ELSE external[i]) = desired[i]
    BY <1>3 DEF LoopReady
  <2>2. CASE i # at
    BY <1>5, <1>6, <1>8, <1>9, <1>11, <2>2
  <2>3. CASE i = at /\ call[c].ok
    <3>1. rest[i] = NoEntry /\ entries[i] = NoEntry
      BY <1>9, <2>3
    <3>2. reference'[i] = external[i] /\ external[i] = todo[i] /\ pending[i] = todo[i]
      BY <1>2, <1>4, <1>5, <1>7, <1>8, <2>3
    <3>. QED  BY <1>2, <1>4, <1>11, <2>3, <3>1, <3>2
  <2>4. CASE i = at /\ ~ call[c].ok
    <3>1. rest[i] = NoEntry /\ entries[i] = todo[i] /\ todo[i] = pending[i]
      BY <1>2, <1>4, <1>5, <1>9, <2>4
    <3>2. reference'[i] \in {Absent, external[i]}
      BY <1>2, <1>4, <1>5, <1>7, <1>8, <1>10, <2>4
    <3>. QED  BY <1>4, <1>11, <2>4, <3>1, <3>2
  <2>. QED  BY <1>2, <2>2, <2>3, <2>4
<1>. QED  BY <1>2, <1>3, <1>12, LoopKeeps DEF PInv

(* The begin of a search keeps the account.                                *)
LEMMA StartSearchKeeps ==
  ASSUME PInv, TInv', OneCaller, NEW c \in Caller, StartSearch(c)
  PROVE  PInv'
<1>1. /\ pending' = Refreshed /\ touched' = {} /\ rebuild' = FALSE
      /\ UNCHANGED <<desired, reference, external>>
  BY DEF StartSearch
<1>2. PICK hits :
        /\ \A d \in Caller : call'[d] = [kind |-> "search", asked |-> desired, hits |-> hits]
        /\ \A id \in Id : hits[id] \in {Absent, external[id]}
  <2>1. PICK found \in SUBSET Id :
          call' = [call EXCEPT ![c] = [kind |-> "search", asked |-> desired,
            hits |-> [i \in Id |-> IF i \in found THEN external[i] ELSE Absent]]]
    BY DEF StartSearch
  <2>2. \A d \in Caller : call'[d] = [kind |-> "search", asked |-> desired,
            hits |-> [i \in Id |-> IF i \in found THEN external[i] ELSE Absent]]
    BY <2>1 DEF PInv, TInv, TypeOK, OneCaller
  <2>3. \A id \in Id : [i \in Id |-> IF i \in found THEN external[i] ELSE Absent][id]
                         \in {Absent, external[id]}
    OBVIOUS
  <2>. QED  BY <2>2, <2>3
<1>3. \A d \in Caller : call[d].kind # "write"
  BY DEF StartSearch, OneCaller, Idle
<1>4. \A id \in Id :
        /\ reference'[id] \in {Absent, external'[id]}
        /\ external'[id] # Absent => reference'[id] # Absent \/ pending'[id] # NoEntry
        /\ (IF pending'[id] # NoEntry THEN pending'[id] ELSE external'[id]) = desired'[id]
  BY <1>1, <1>3, RefreshAccounts
<1>5. Accounted' /\ NoOrphan' /\ ReferencesTrue'
  BY <1>4 DEF Accounted, NoOrphan, ReferencesTrue, Referenced, Overlay
<1>6. SnapshotHeld' /\ AnswerHeld'
  BY <1>2 DEF SnapshotHeld, AnswerHeld
<1>7. HitsHeld'
  BY <1>1, <1>2, <1>4 DEF HitsHeld, Merged
<1>. QED  BY <1>5, <1>6, <1>7 DEF PInv

(* The end of a search keeps the account.                                  *)
LEMMA FinishSearchKeeps ==
  ASSUME PInv, TInv', OneCaller, NEW c \in Caller, FinishSearch(c)
  PROVE  PInv'
<1>1. /\ UNCHANGED <<desired, touched, rebuild, pending, reference, external>>
      /\ call[c].kind = "search"
  BY DEF FinishSearch
<1>2. \A d \in Caller : call'[d] = Idle
  BY DEF FinishSearch, OneCaller, PInv, TInv, TypeOK
<1>3. \A d \in Caller : call[d].kind # "write"
  BY <1>1 DEF OneCaller
<1>4. Accounted' /\ NoOrphan' /\ ReferencesTrue'
  BY <1>1, <1>3 DEF PInv, Accounted, NoOrphan, ReferencesTrue, Referenced, Overlay
<1>5. SnapshotHeld' /\ AnswerHeld' /\ HitsHeld'
  BY <1>2 DEF SnapshotHeld, AnswerHeld, HitsHeld, Idle
<1>. QED  BY <1>4, <1>5 DEF PInv

(* A crash may lose the cursor, part of a refresh and the retirement of an *)
(* entry, and nothing else.                                                *)
LEMMA CrashKeeps ==
  ASSUME PInv, TInv', OneCaller, ~ Unseen, Crash
  PROVE  PInv'
<1>1. rebuild' = TRUE /\ UNCHANGED <<desired, touched, external>>
  BY DEF Crash
<1>2. \A d \in Caller : call'[d] = Idle
  BY DEF Crash
<1>3. Accounted' /\ SnapshotHeld' /\ AnswerHeld' /\ HitsHeld'
  BY <1>1, <1>2 DEF Accounted, SnapshotHeld, AnswerHeld, HitsHeld, Idle
<1>4. CASE (\A d \in Caller : call[d].kind # "write") /\ UNCHANGED reference
  <2>1. \A id \in Id : pending'[id] \in {Refreshed[id], pending[id]}
    <3>1. pending' = pending \/ \E done \in SUBSET Id :
            pending' = [i \in Id |-> IF i \in done THEN Refreshed[i] ELSE pending[i]]
      BY DEF Crash
    <3>. QED  BY <3>1
  <2>2. NoOrphan'
    BY <1>1, <1>4, <2>1, RefreshAccounts DEF PInv, NoOrphan
  <2>3. ReferencesTrue'
    BY <1>1, <1>4 DEF PInv, ReferencesTrue, Referenced
  <2>. QED  BY <1>3, <2>2, <2>3 DEF PInv
<1>5. ASSUME NEW c \in Caller, call[c].kind = "write", call[c].ok,
             reference' = Acknowledge(c), UNCHANGED pending
      PROVE  PInv'
  <2>. DEFINE at == call[c].at
  <2>1. at \in Id /\ call[c].todo[at] # NoEntry /\ external[at] = call[c].todo[at]
    BY <1>5, CallKinds DEF PInv, TInv, SyncHasWork, AnswerHeld, Awaiting
  <2>2. \A id \in Id : reference'[id] = IF id = at THEN external[at] ELSE reference[id]
    BY <1>5, <2>1 DEF PInv, TInv, TypeOK, Acknowledge
  <2>3. \A id \in Id : id # at => reference[id] \in {Absent, external[id]}
    BY <1>5 DEF PInv, ReferencesTrue, Referenced, OneCaller
  <2>. HIDE DEF at
  <2>4. ReferencesTrue'
    BY <1>1, <2>2, <2>3 DEF ReferencesTrue, Referenced
  <2>5. NoOrphan'
    BY <1>1, <1>5, <2>2, <2>3 DEF PInv, NoOrphan
  <2>. QED  BY <1>3, <2>4, <2>5 DEF PInv
<1>. QED  BY <1>4, <1>5 DEF Crash

(* Every step keeps the account.                                           *)
LEMMA AccountingStep ==
  ASSUME PInv, OneCaller, ~ Unseen, [Next]_vars
  PROVE  PInv'
<1>1. TInv'
  BY TypeStep DEF PInv
<1>2. CASE ForgetHistory
  BY <1>1, <1>2 DEF ForgetHistory, PInv, Accounted, NoOrphan, ReferencesTrue, Referenced,
                    SnapshotHeld, AnswerHeld, HitsHeld, Merged
<1>3. CASE UNCHANGED vars
  BY <1>1, <1>3 DEF vars, PInv, Accounted, Overlay, NoOrphan, ReferencesTrue, Referenced,
                    SnapshotHeld, AnswerHeld, HitsHeld, Merged
<1>. QED  BY <1>1, <1>2, <1>3, CommitKeeps, StartSyncKeeps, WriteKeeps, ResumeKeeps,
             StartSearchKeeps, FinishSearchKeeps, CrashKeeps DEF Next

(* The account holds of the empty service.                                 *)
LEMMA AccountingInit == Init => PInv
<1>1. SUFFICES ASSUME Init PROVE PInv
  OBVIOUS
<1>2. \A c \in Caller : call[c].kind = "idle"
  BY <1>1 DEF Init, Idle
<1>. QED  BY <1>1, <1>2, TypeInit DEF Init, PInv, Accounted, NoOrphan, ReferencesTrue,
             Referenced, SnapshotHeld, AnswerHeld, HitsHeld

(* The account holds in every reachable state.                             *)
LEMMA AccountingInvariant ==
  ASSUME OneCaller, ~ Unseen
  PROVE  Spec => []PInv
<1>1. PInv /\ [Next]_vars => PInv'
  BY AccountingStep
<1>. QED  BY AccountingInit, <1>1, PTL DEF Spec

(* With one caller, and no write that takes effect unseen, an entry is     *)
(* retired only when the repository holds what it asked for, whatever      *)
(* commits, fails, crashes or is forgotten in between (synchronize,        *)
(* _refresh_pending_deltas).                                               *)
THEOREM EverythingAccounted ==
  ASSUME OneCaller, ~ Unseen
  PROVE  Spec => []Accounted
<1>1. PInv => Accounted
  BY DEF PInv
<1>. QED  BY AccountingInvariant, <1>1, PTL

(* Under the same conditions nothing is left in the repository that        *)
(* neither a reference nor an entry names: a failed update that drops its  *)
(* reference keeps its entry.                                              *)
THEOREM NothingOrphaned ==
  ASSUME OneCaller, ~ Unseen
  PROVE  Spec => []NoOrphan
<1>1. PInv => NoOrphan
  BY DEF PInv
<1>. QED  BY AccountingInvariant, <1>1, PTL

(* Under the same conditions a search shows of each record what the memory *)
(* wanted when it began, or does not show it (_merge_search_hits).         *)
THEOREM SearchesFresh ==
  ASSUME OneCaller, ~ Unseen
  PROVE  Spec => SearchFresh
<1>1. PInv /\ [Next]_vars =>
        [\A c \in Caller : FinishSearch(c) =>
           \A id \in Id : Merged(c, id) \in {Absent, call[c].asked[id]}]_vars
  BY DEF PInv, HitsHeld, FinishSearch
<1>. QED  BY AccountingInvariant, <1>1, PTL DEF Spec, SearchFresh

=================================================================================
