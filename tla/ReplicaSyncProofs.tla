--------------------------- MODULE ReplicaSyncProofs ---------------------------
(***************************************************************************)
(* Delta synchronisation is sound for any replicas, workers, operations,   *)
(* page sizes and bounds: the inductive invariant and its proof.           *)
(***************************************************************************)
EXTENDS ReplicaSync, ReplicaProgressProofs, SequenceTheorems, FiniteSetTheorems

Stream == Seq(SUBSET Op)

-------------------------------------------------------------------------------
(* The inductive invariant.  It is stated over any streams L, so that its  *)
(* parts can be carried from the streams before a step to those after it.  *)

(* A delta describes a slice of its sender's stream: it adds nothing to a  *)
(* batch, and what it leaves out is among the operations ops.              *)
Accounts(L, d, ops) ==
  /\ d.before <= d.after
  /\ d.after <= Len(L[d.sender])
  /\ Len(d.batches) = d.after - d.before
  /\ \A i \in 1 .. Len(d.batches) :
       /\ d.batches[i] \subseteq L[d.sender][d.before + i]
       /\ L[d.sender][d.before + i] \subseteq d.batches[i] \cup ops

(* A progress record for p's stream covers only batches stored at r.       *)
Sound(L, prog, r, p) ==
  \A i \in Covered(prog) : i \in 1 .. Len(L[p]) /\ L[p][i] \subseteq OpsOf(L[r])

JobSound(L, r, j) ==
  /\ j.phase \in {"filter", "export"} => Accounts(L, j.manifest, {})
  /\ j.phase = "export" => OpsOf(j.manifest.batches) \subseteq j.wanted \cup OpsOf(L[r])
  /\ j.phase \in {"append", "materialize", "save"} =>
       /\ Accounts(L, j.delta, OpsOf(L[r]))
       /\ Sound(L, j.seen, r, j.delta.sender)
       /\ \A i \in 1 .. Len(j.delta.batches) : i < j.next => j.delta.batches[i] \subseteq OpsOf(L[r])
  /\ j.phase \in {"materialize", "save"} => j.next > Len(j.delta.batches)

IInv ==
  /\ TypeOK
  /\ \A d \in net : Accounts(log, d, {})
  /\ \A w \in Worker : JobSound(log, Host[w], job[w])
  /\ \A r, p \in Replica : Sound(log, progress[r][p], r, p)

(* No stream loses or rewrites a batch.                                    *)
Grown(L, M) ==
  \A r \in Replica :
    /\ Len(L[r]) <= Len(M[r])
    /\ \A i \in 1 .. Len(L[r]) : M[r][i] = L[r][i]

-------------------------------------------------------------------------------
(* The operations of a stream are operations.                              *)
LEMMA OpsOfType ==
  ASSUME NEW s \in Stream
  PROVE  OpsOf(s) \in SUBSET Op
BY DEF Stream, OpsOf

(* append_many adds exactly the missing operations, after every batch      *)
(* already stored.                                                         *)
LEMMA ExtendedFacts ==
  ASSUME NEW s \in Stream, NEW ops \in SUBSET Op
  PROVE  /\ Extended(s, ops) \in Stream
         /\ Len(s) <= Len(Extended(s, ops))
         /\ \A i \in 1 .. Len(s) : Extended(s, ops)[i] = s[i]
         /\ OpsOf(Extended(s, ops)) = OpsOf(s) \cup ops
<1>1. CASE ops \subseteq OpsOf(s)
  BY <1>1 DEF Extended, Stream
<1>2. CASE ~ ops \subseteq OpsOf(s)
  <2> DEFINE new == ops \ OpsOf(s)
             t   == Append(s, new)
  <2>1. Extended(s, ops) = t
    BY <1>2 DEF Extended
  <2>2. t \in Stream /\ Len(t) = Len(s) + 1 /\ Len(s) \in Nat
    BY DEF Stream
  <2>3. \A i \in 1 .. Len(s) : t[i] = s[i]
    BY DEF Stream
  <2>4. t[Len(s) + 1] = new
    BY DEF Stream
  <2>5. OpsOf(t) = OpsOf(s) \cup new
    <3>1. ASSUME NEW o \in OpsOf(t) PROVE o \in OpsOf(s) \cup new
      <4>1. PICK i \in 1 .. Len(t) : o \in t[i]
        BY DEF OpsOf
      <4>2. i \in 1 .. Len(s) \/ i = Len(s) + 1
        BY <2>2
      <4>. QED  BY <2>3, <2>4, <4>1, <4>2 DEF OpsOf
    <3>2. ASSUME NEW o \in OpsOf(s) PROVE o \in OpsOf(t)
      <4>1. PICK i \in 1 .. Len(s) : o \in s[i]
        BY <3>2 DEF OpsOf
      <4>2. i \in 1 .. Len(t)
        BY <2>2
      <4>. QED  BY <2>3, <4>1, <4>2 DEF OpsOf
    <3>3. new \subseteq OpsOf(t)
      <4>1. Len(s) + 1 \in 1 .. Len(t)
        BY <2>2
      <4> HIDE DEF new, t
      <4>. QED  BY <2>4, <4>1 DEF OpsOf
    <3>. QED  BY <3>1, <3>2, <3>3
  <2>6. OpsOf(s) \cup new = OpsOf(s) \cup ops
    OBVIOUS
  <2> HIDE DEF new, t
  <2>. QED  BY <2>1, <2>2, <2>3, <2>5, <2>6
<1>. QED  BY <1>1, <1>2

(* A stored batch is part of what the stream holds.                        *)
LEMMA BatchKnown ==
  ASSUME NEW s \in Stream, NEW i \in 1 .. Len(s)
  PROVE  s[i] \subseteq OpsOf(s)
BY DEF OpsOf

(* A replica knows what its stream holds up to any of its batches.         *)
LEMMA BetweenKnown ==
  ASSUME log \in [Replica -> Stream], NEW p \in Replica, NEW n \in 1 .. Len(log[p])
  PROVE  Between(p, 0, n) \subseteq Known(p)
BY DEF Between, Known, OpsOf, Stream

(* A replica whose stream has grown knows no less.                         *)
LEMMA GrownKnown ==
  ASSUME NEW L \in [Replica -> Stream], NEW M \in [Replica -> Stream], Grown(L, M),
         NEW r \in Replica
  PROVE  OpsOf(L[r]) \subseteq OpsOf(M[r])
<1> SUFFICES ASSUME NEW o \in OpsOf(L[r]) PROVE o \in OpsOf(M[r])
  OBVIOUS
<1>1. PICK i \in 1 .. Len(L[r]) : o \in L[r][i]
  BY DEF OpsOf
<1>2. Len(L[r]) \in Nat /\ Len(M[r]) \in Nat
  BY DEF Stream
<1>3. i \in 1 .. Len(M[r]) /\ M[r][i] = L[r][i]
  BY <1>1, <1>2 DEF Grown
<1>. QED  BY <1>1, <1>3 DEF OpsOf

(* The parts of the invariant survive the growth of the streams.           *)
LEMMA AccountsGrown ==
  ASSUME NEW L \in [Replica -> Stream], NEW M \in [Replica -> Stream], Grown(L, M),
         NEW d \in Delta, NEW S, NEW T, S \subseteq T, Accounts(L, d, S)
  PROVE  Accounts(M, d, T)
<1>1. d.sender \in Replica /\ d.before \in Nat /\ d.after \in Nat /\ Len(d.batches) \in Nat
  BY DEF Delta
<1>2. Len(L[d.sender]) \in Nat /\ Len(M[d.sender]) \in Nat
  BY <1>1 DEF Stream
<1>3. ASSUME NEW i \in 1 .. Len(d.batches)
      PROVE  M[d.sender][d.before + i] = L[d.sender][d.before + i]
  <2>1. d.before + i \in 1 .. Len(L[d.sender])
    BY <1>1, <1>2 DEF Accounts
  <2>. QED  BY <1>1, <2>1 DEF Grown
<1>4. d.after <= Len(M[d.sender])
  BY <1>1, <1>2 DEF Accounts, Grown
<1>. QED  BY <1>3, <1>4 DEF Accounts

(* Progress that is sound stays so when streams grow.                      *)
LEMMA SoundGrown ==
  ASSUME NEW L \in [Replica -> Stream], NEW M \in [Replica -> Stream], Grown(L, M),
         NEW prog, NEW r \in Replica, NEW p \in Replica, Sound(L, prog, r, p)
  PROVE  Sound(M, prog, r, p)
<1>1. OpsOf(L[r]) \subseteq OpsOf(M[r])
  BY GrownKnown
<1>2. Len(L[p]) \in Nat /\ Len(M[p]) \in Nat
  BY DEF Stream
<1>. QED  BY <1>1, <1>2 DEF Sound, Grown

(* A job that is sound stays so when streams grow.                         *)
LEMMA JobSoundGrown ==
  ASSUME NEW L \in [Replica -> Stream], NEW M \in [Replica -> Stream], Grown(L, M),
         NEW r \in Replica, NEW j \in {Idle} \cup BeginJob \cup SyncJob \cup ApplyJob, JobSound(L, r, j)
  PROVE  JobSound(M, r, j)
<1>1. OpsOf(L[r]) \subseteq OpsOf(M[r])
  BY GrownKnown
<1>2. CASE j \in {Idle} \cup BeginJob
  BY <1>2 DEF Idle, BeginJob, JobSound
<1>3. CASE j \in SyncJob
  <2>1. j.manifest \in Delta /\ j.phase \in {"filter", "export"}
    BY <1>3 DEF SyncJob
  <2>2. Accounts(M, j.manifest, {})
    BY <2>1, AccountsGrown DEF JobSound
  <2>. QED  BY <1>1, <2>1, <2>2 DEF JobSound
<1>4. CASE j \in ApplyJob
  <2>1. j.delta \in Delta /\ j.delta.sender \in Replica /\ j.phase \in {"append", "materialize", "save"}
    BY <1>4 DEF ApplyJob, Delta
  <2>2. Accounts(M, j.delta, OpsOf(M[r]))
    BY <1>1, <2>1, AccountsGrown DEF JobSound
  <2>3. Sound(M, j.seen, r, j.delta.sender)
    BY <2>1, SoundGrown DEF JobSound
  <2>. QED  BY <1>1, <2>1, <2>2, <2>3 DEF JobSound
<1>. QED  BY <1>2, <1>3, <1>4

-------------------------------------------------------------------------------
(* Deltas built from a stream describe it.                                 *)
LEMMA SliceFacts ==
  ASSUME TypeOK, NEW r \in Replica, NEW from \in Nat, NEW to \in Nat,
         from <= to, to <= Len(log[r])
  PROVE  Slice(r, from, to) \in Delta /\ Accounts(log, Slice(r, from, to), {})
<1> DEFINE n == to - from
           b == [i \in 1 .. n |-> log[r][from + i]]
<1>1. n \in Nat
  OBVIOUS
<1>2. \A i \in 1 .. n : log[r][from + i] \in SUBSET Op
  <2>1. log[r] \in Seq(SUBSET Op) /\ Len(log[r]) \in Nat
    BY DEF TypeOK
  <2>2. \A i \in 1 .. n : from + i \in 1 .. Len(log[r])
    BY <2>1
  <2>. QED  BY <2>1, <2>2
<1>3. b \in [1 .. n -> SUBSET Op]
  BY <1>2
<1>4. b \in Seq(SUBSET Op) /\ Len(b) = n
  BY <1>1, <1>3, SeqDef, LenProperties
<1>5. Slice(r, from, to) = [sender |-> r, before |-> from, after |-> to, batches |-> b]
  BY DEF Slice
<1>6. \A i \in 1 .. Len(b) : log[r][from + i] = b[i]
  BY <1>4
<1> HIDE DEF b
<1>7. Slice(r, from, to) \in Delta
  BY <1>4, <1>5 DEF Delta
<1>. QED  BY <1>4, <1>5, <1>6, <1>7 DEF Accounts

(* A delta that leaves out what the receiver has still accounts for the    *)
(* batches it spans.                                                       *)
LEMMA SelectFacts ==
  ASSUME NEW L \in [Replica -> Stream], NEW d \in Delta, NEW wanted \in SUBSET Op, NEW K,
         Accounts(L, d, {}), OpsOf(d.batches) \subseteq wanted \cup K
  PROVE  /\ Select(d, wanted) \in Delta
         /\ Select(d, wanted).sender = d.sender
         /\ Accounts(L, Select(d, wanted), K)
<1> DEFINE n == Len(d.batches)
           b == [i \in 1 .. n |-> d.batches[i] \cap wanted]
<1>1. d.batches \in Seq(SUBSET Op) /\ n \in Nat
  BY DEF Delta
<1>2. b \in [1 .. n -> SUBSET Op]
  OBVIOUS
<1>3. b \in Seq(SUBSET Op) /\ Len(b) = n
  BY <1>1, <1>2, SeqDef, LenProperties
<1>4. /\ Select(d, wanted) \in Delta
      /\ Select(d, wanted).sender = d.sender
      /\ Select(d, wanted).before = d.before
      /\ Select(d, wanted).after = d.after
      /\ Select(d, wanted).batches = b
  <2> HIDE DEF b, n
  <2>1. Select(d, wanted) = [d EXCEPT !.batches = b]
    BY DEF Select, b, n
  <2>. QED  BY <1>3, <2>1 DEF Delta
<1>5. \A i \in 1 .. n : b[i] \subseteq d.batches[i] /\ d.batches[i] \subseteq b[i] \cup K
  BY DEF OpsOf
<1> HIDE DEF b
<1>. QED  BY <1>3, <1>4, <1>5 DEF Accounts

-------------------------------------------------------------------------------
(* What a step leaves alone stays sound while the streams grow.            *)
LEMMA Carry ==
  ASSUME IInv, NEW M \in [Replica -> Stream], Grown(log, M)
  PROVE  /\ \A d \in net : Accounts(M, d, {})
         /\ \A w \in Worker : JobSound(M, Host[w], job[w])
         /\ \A r, p \in Replica : Sound(M, progress[r][p], r, p)
<1>1. log \in [Replica -> Stream] /\ net \subseteq Delta
  BY DEF IInv, TypeOK, Stream
<1>2. \A d \in net : Accounts(M, d, {})
  BY <1>1, AccountsGrown DEF IInv
<1>3. \A w \in Worker : JobSound(M, Host[w], job[w])
  <2>1. \A w \in Worker : /\ Host[w] \in Replica
                          /\ job[w] \in {Idle} \cup BeginJob \cup SyncJob \cup ApplyJob
                          /\ JobSound(log, Host[w], job[w])
    BY SyncAssumption DEF IInv, TypeOK
  <2>. QED  BY <1>1, <2>1, JobSoundGrown
<1>4. \A r, p \in Replica : Sound(M, progress[r][p], r, p)
  BY <1>1, SoundGrown DEF IInv
<1>. QED  BY <1>2, <1>3, <1>4

(* A stream has grown from itself.                                         *)
LEMMA SameGrown ==
  ASSUME NEW L \in [Replica -> Stream]
  PROVE  Grown(L, L)
BY DEF Grown, Stream

(* An append to one replica's stream.                                      *)
LEMMA AppendGrown ==
  ASSUME NEW L \in [Replica -> Stream], NEW r \in Replica, NEW ops \in SUBSET Op
  PROVE  LET M == [L EXCEPT ![r] = Extended(@, ops)]
         IN  /\ M \in [Replica -> Stream]
             /\ Grown(L, M)
             /\ OpsOf(M[r]) = OpsOf(L[r]) \cup ops
<1> DEFINE M == [L EXCEPT ![r] = Extended(@, ops)]
<1>1. /\ Extended(L[r], ops) \in Stream
      /\ Len(L[r]) <= Len(Extended(L[r], ops))
      /\ \A i \in 1 .. Len(L[r]) : Extended(L[r], ops)[i] = L[r][i]
      /\ OpsOf(Extended(L[r], ops)) = OpsOf(L[r]) \cup ops
  BY ExtendedFacts
<1>2. M[r] = Extended(L[r], ops) /\ \A s \in Replica \ {r} : M[s] = L[s]
  OBVIOUS
<1>3. M \in [Replica -> Stream]
  BY <1>1
<1>4. \A s \in Replica : Len(L[s]) \in Nat
  BY DEF Stream
<1> HIDE DEF M
<1>5. Grown(L, M)
  BY <1>1, <1>2, <1>4 DEF Grown
<1>. QED  BY <1>1, <1>2, <1>3, <1>5 DEF M

(* A worker moves on to job j.                                             *)
LEMMA JobStep ==
  ASSUME IInv, NEW w \in Worker, NEW j \in {Idle} \cup BeginJob \cup SyncJob \cup ApplyJob,
         job' = [job EXCEPT ![w] = j],
         log' \in [Replica -> Stream], Grown(log, log'), JobSound(log', Host[w], j),
         UNCHANGED <<progress, net, resets>>, failures' \in 0 .. MaxFailures
  PROVE  IInv'
<1>1. TypeOK'
  BY DEF IInv, TypeOK, Stream
<1>2. \A v \in Worker : JobSound(log', Host[v], job'[v])
  <2> SUFFICES ASSUME NEW v \in Worker PROVE JobSound(log', Host[v], job'[v])
    OBVIOUS
  <2>1. CASE v = w
    BY <2>1 DEF IInv, TypeOK
  <2>2. CASE v # w
    BY <2>2, Carry DEF IInv, TypeOK
  <2>. QED  BY <2>1, <2>2
<1>. QED  BY <1>1, <1>2, Carry DEF IInv

(* An application appends to a stream.                                     *)
LEMMA AppendStep ==
  ASSUME IInv, NEW r \in Replica, NEW ops \in SUBSET Op,
         log' = [log EXCEPT ![r] = Extended(@, ops)],
         UNCHANGED <<progress, net, job, failures, resets>>
  PROVE  IInv'
<1>1. log' \in [Replica -> Stream] /\ Grown(log, log')
  BY AppendGrown DEF IInv, TypeOK, Stream
<1>2. TypeOK'
  BY <1>1 DEF IInv, TypeOK, Stream
<1>. QED  BY <1>1, <1>2, Carry DEF IInv

-------------------------------------------------------------------------------
(* The phase of a job tells which call it belongs to.                      *)
LEMMA JobKinds ==
  ASSUME TypeOK, NEW w \in Worker
  PROVE  /\ job[w].phase = "manifest" => job[w] \in BeginJob
         /\ job[w].phase \in {"filter", "export"} => job[w] \in SyncJob
         /\ job[w].phase \in {"append", "materialize", "save"} => job[w] \in ApplyJob
<1>1. job[w] = Idle \/ job[w] \in BeginJob \/ job[w] \in SyncJob \/ job[w] \in ApplyJob
  BY DEF TypeOK
<1>2. Idle.phase = "idle" /\ \A j \in BeginJob : j.phase = "manifest"
  BY DEF Idle, BeginJob
<1>3. \A j \in SyncJob : j.phase \in {"filter", "export"}
  BY DEF SyncJob
<1>4. \A j \in ApplyJob : j.phase \in {"append", "materialize", "save"}
  BY DEF ApplyJob
<1>. QED  BY <1>1, <1>2, <1>3, <1>4

(* One lemma per action of a worker.                                       *)
LEMMA SyncBeginStep ==
  ASSUME IInv, NEW w \in Worker, NEW p \in Replica, SyncBegin(w, p)
  PROVE  IInv'
<1> DEFINE j == [phase |-> "manifest", peer |-> p, from |-> progress[Host[w]][p].cursor]
<1>1. TypeOK /\ Host[w] \in Replica /\ log \in [Replica -> Stream]
  BY SyncAssumption DEF IInv, TypeOK, Stream
<1>2. j \in BeginJob
  BY <1>1 DEF TypeOK, ReplicaProgress, BeginJob
<1>3. JobSound(log, Host[w], j)
  BY DEF JobSound
<1>4. /\ job' = [job EXCEPT ![w] = j]
      /\ UNCHANGED <<log, progress, net, failures, resets>>
  BY DEF SyncBegin
<1>5. Grown(log, log') /\ log' \in [Replica -> Stream] /\ failures' \in 0 .. MaxFailures
  BY <1>1, <1>4, SameGrown DEF TypeOK
<1> HIDE DEF j
<1>. QED  BY <1>2, <1>3, <1>4, <1>5, JobStep

(* Reading a manifest and its slice keeps the invariant.                   *)
LEMMA SyncManifestStep ==
  ASSUME IInv, NEW w \in Worker, NEW to \in Nat, NEW limit \in Limit,
         SyncManifest(w, to, limit)
  PROVE  IInv'
<1> DEFINE p    == job[w].peer
           from == job[w].from
           j    == [phase |-> "filter", wanted |-> {}, manifest |-> Slice(p, from, to)]
<1>1. TypeOK /\ Host[w] \in Replica /\ log \in [Replica -> Stream]
  BY SyncAssumption DEF IInv, TypeOK, Stream
<1>2. p \in Replica /\ from \in Nat
  BY <1>1, JobKinds DEF SyncManifest, BeginJob
<1>3. from <= to /\ to <= Len(log[p])
  BY DEF SyncManifest, IsPage
<1>4. Slice(p, from, to) \in Delta /\ Accounts(log, Slice(p, from, to), {})
  BY <1>1, <1>2, <1>3, SliceFacts
<1>5. j \in SyncJob
  BY <1>4 DEF SyncJob
<1>6. JobSound(log, Host[w], j)
  BY <1>4 DEF JobSound
<1>7. /\ job' = [job EXCEPT ![w] = j]
      /\ UNCHANGED <<log, progress, net, failures, resets>>
  BY DEF SyncManifest
<1>8. Grown(log, log') /\ log' \in [Replica -> Stream] /\ failures' \in 0 .. MaxFailures
  BY <1>1, <1>7, SameGrown DEF TypeOK
<1> HIDE DEF j
<1>. QED  BY <1>5, <1>6, <1>7, <1>8, JobStep

(* Choosing the operations that are missing keeps the invariant.           *)
LEMMA SyncFilterStep ==
  ASSUME IInv, NEW w \in Worker, SyncFilter(w)
  PROVE  IInv'
<1> DEFINE listed == OpsOf(job[w].manifest.batches)
           known  == OpsOf(log[Host[w]])
           k      == [phase |-> "export", manifest |-> job[w].manifest, wanted |-> listed \ known]
           j      == IF Collides(listed, known) THEN Idle ELSE k
<1>1. TypeOK /\ Host[w] \in Replica /\ log \in [Replica -> Stream]
  BY SyncAssumption DEF IInv, TypeOK, Stream
<1>2. job[w] \in SyncJob
  BY <1>1, JobKinds DEF SyncFilter
<1>3. job[w].manifest \in Delta /\ Accounts(log, job[w].manifest, {})
  BY <1>2 DEF SyncFilter, SyncJob, IInv, JobSound
<1>4. listed \in SUBSET Op
  BY <1>3, OpsOfType DEF Delta, Stream
<1>5. k \in SyncJob
  BY <1>3, <1>4 DEF SyncJob
<1>6. JobSound(log, Host[w], k)
  BY <1>3 DEF JobSound
<1>7. j \in {Idle} \cup BeginJob \cup SyncJob \cup ApplyJob /\ JobSound(log, Host[w], j)
  BY <1>5, <1>6 DEF JobSound, Idle
<1>8. /\ job' = [job EXCEPT ![w] = j]
      /\ UNCHANGED <<log, progress, net, failures, resets>>
  BY DEF SyncFilter, Known
<1>9. Grown(log, log') /\ log' \in [Replica -> Stream] /\ failures' \in 0 .. MaxFailures
  BY <1>1, <1>8, SameGrown DEF TypeOK
<1> HIDE DEF j
<1>. QED  BY <1>7, <1>8, <1>9, JobStep

(* Entering apply_replica_delta with a delta that accounts for its slice.  *)
LEMMA ApplyingFacts ==
  ASSUME IInv, NEW w \in Worker, NEW d \in Delta, Accounts(log, d, OpsOf(log[Host[w]]))
  PROVE  Applying(w, d) \in ApplyJob /\ JobSound(log, Host[w], Applying(w, d))
<1>1. Host[w] \in Replica /\ d.sender \in Replica
  BY SyncAssumption DEF Delta
<1>2. progress[Host[w]][d.sender] \in ReplicaProgress
  BY <1>1 DEF IInv, TypeOK
<1>3. Applying(w, d) \in ApplyJob
  BY <1>2 DEF Applying, ApplyJob
<1>4. Sound(log, progress[Host[w]][d.sender], Host[w], d.sender)
  BY <1>1 DEF IInv
<1>5. \A i \in 1 .. Len(d.batches) : ~ i < 1
  OBVIOUS
<1>6. JobSound(log, Host[w], Applying(w, d))
  BY <1>4, <1>5 DEF Applying, JobSound
<1>. QED  BY <1>3, <1>6

(* Cutting the delta keeps the invariant.                                  *)
LEMMA SyncExportStep ==
  ASSUME IInv, NEW w \in Worker, SyncExport(w)
  PROVE  IInv'
<1> DEFINE m == job[w].manifest
           d == Select(m, job[w].wanted)
           j == IF Unchanged(m) THEN Applying(w, d) ELSE Idle
<1>1. TypeOK /\ Host[w] \in Replica /\ log \in [Replica -> Stream]
  BY SyncAssumption DEF IInv, TypeOK, Stream
<1>2. job[w] \in SyncJob
  BY <1>1, JobKinds DEF SyncExport
<1>3. /\ m \in Delta /\ Accounts(log, m, {}) /\ job[w].wanted \in SUBSET Op
      /\ OpsOf(m.batches) \subseteq job[w].wanted \cup OpsOf(log[Host[w]])
  BY <1>2 DEF SyncExport, SyncJob, IInv, JobSound
<1>4. d \in Delta /\ Accounts(log, d, OpsOf(log[Host[w]]))
  BY <1>1, <1>3, SelectFacts
<1>5. Applying(w, d) \in ApplyJob /\ JobSound(log, Host[w], Applying(w, d))
  BY <1>4, ApplyingFacts
<1>6. j \in {Idle} \cup BeginJob \cup SyncJob \cup ApplyJob /\ JobSound(log, Host[w], j)
  BY <1>5 DEF JobSound, Idle
<1>7. /\ job' = [job EXCEPT ![w] = j]
      /\ UNCHANGED <<log, progress, net, failures, resets>>
  BY DEF SyncExport
<1>8. Grown(log, log') /\ log' \in [Replica -> Stream] /\ failures' \in 0 .. MaxFailures
  BY <1>1, <1>7, SameGrown DEF TypeOK
<1> HIDE DEF j
<1>. QED  BY <1>6, <1>7, <1>8, JobStep

(* The begin of an application keeps the invariant.                        *)
LEMMA ApplyBeginStep ==
  ASSUME IInv, NEW w \in Worker, NEW d \in net, ApplyBegin(w, d)
  PROVE  IInv'
<1>1. TypeOK /\ Host[w] \in Replica /\ log \in [Replica -> Stream] /\ d \in Delta
  BY SyncAssumption DEF IInv, TypeOK, Stream
<1>2. Accounts(log, d, {})
  BY DEF IInv
<1>3. Accounts(log, d, OpsOf(log[Host[w]]))
  BY <1>1, <1>2, AccountsGrown, SameGrown
<1>4. Applying(w, d) \in ApplyJob /\ JobSound(log, Host[w], Applying(w, d))
  BY <1>1, <1>3, ApplyingFacts
<1>5. /\ job' = [job EXCEPT ![w] = Applying(w, d)]
      /\ UNCHANGED <<log, progress, net, failures, resets>>
  BY DEF ApplyBegin
<1>6. Grown(log, log') /\ log' \in [Replica -> Stream] /\ failures' \in 0 .. MaxFailures
  BY <1>1, <1>5, SameGrown DEF TypeOK
<1>. QED  BY <1>4, <1>5, <1>6, JobStep

(* The facts about a job that is applying a delta.                         *)
LEMMA ApplyJobFacts ==
  ASSUME IInv, NEW w \in Worker, job[w].phase \in {"append", "materialize", "save"}
  PROVE  /\ Host[w] \in Replica /\ log \in [Replica -> Stream]
         /\ job[w] \in ApplyJob
         /\ job[w].delta \in Delta /\ job[w].delta.sender \in Replica
         /\ job[w].seen \in ReplicaProgress /\ job[w].next \in Nat \ {0}
         /\ JobSound(log, Host[w], job[w])
<1>1. TypeOK /\ Host[w] \in Replica /\ log \in [Replica -> Stream]
  BY SyncAssumption DEF IInv, TypeOK, Stream
<1>2. job[w] \in ApplyJob
  BY <1>1, JobKinds
<1>3. job[w].delta \in Delta /\ job[w].seen \in ReplicaProgress /\ job[w].next \in Nat \ {0}
  BY <1>2 DEF ApplyJob
<1>. QED  BY <1>1, <1>2, <1>3 DEF IInv, Delta

(* Appending what is new keeps the invariant.                              *)
LEMMA ApplyAppendStep ==
  ASSUME IInv, NEW w \in Worker, ApplyAppend(w)
  PROVE  IInv'
<1> DEFINE r     == Host[w]
           i     == job[w].next
           batch == job[w].delta.batches[i]
           j     == [job[w] EXCEPT !.next = i + 1]
<1>1. /\ r \in Replica /\ log \in [Replica -> Stream]
      /\ job[w] \in ApplyJob /\ job[w].delta \in Delta /\ job[w].delta.sender \in Replica
      /\ i \in Nat \ {0} /\ JobSound(log, r, job[w])
  BY ApplyJobFacts DEF ApplyAppend
<1>2. job[w].phase = "append" /\ i \in 1 .. Len(job[w].delta.batches)
  BY <1>1 DEF ApplyAppend, Delta
<1>3. batch \in SUBSET Op
  BY <1>1, <1>2 DEF Delta
<1>4. UNCHANGED <<progress, net, failures, resets>> /\ failures' \in 0 .. MaxFailures
  BY DEF ApplyAppend, IInv, TypeOK
<1>5. CASE Collides(batch, Known(r))
  <2>1. job' = [job EXCEPT ![w] = Idle] /\ log' = log
    BY <1>5 DEF ApplyAppend
  <2>2. JobSound(log', r, Idle)
    BY DEF JobSound, Idle
  <2>. QED  BY <1>1, <1>4, <2>1, <2>2, SameGrown, JobStep
<1>6. CASE ~ Collides(batch, Known(r))
  <2>1. /\ log' = [log EXCEPT ![r] = Extended(@, batch)]
        /\ job' = [job EXCEPT ![w].next = i + 1]
    BY <1>6 DEF ApplyAppend
  <2>2. job' = [job EXCEPT ![w] = j]
    BY <1>1, <2>1
  <2>3. /\ log' \in [Replica -> Stream] /\ Grown(log, log')
        /\ OpsOf(log'[r]) = OpsOf(log[r]) \cup batch
    BY <1>1, <1>3, <2>1, AppendGrown
  <2>4. JobSound(log', r, job[w])
    BY <1>1, <2>3, JobSoundGrown
  <2>5. /\ j \in ApplyJob
        /\ j.phase = "append" /\ j.delta = job[w].delta /\ j.seen = job[w].seen /\ j.next = i + 1
    BY <1>1, <1>2 DEF ApplyJob
  <2>6. \A k \in 1 .. Len(j.delta.batches) : k < i + 1 => j.delta.batches[k] \subseteq OpsOf(log'[r])
    <3>1. \A k \in 1 .. Len(j.delta.batches) :
             k < i => j.delta.batches[k] \subseteq OpsOf(log'[r])
      BY <1>2, <2>4, <2>5 DEF JobSound
    <3>2. \A k \in 1 .. Len(j.delta.batches) : k < i + 1 => k < i \/ k = i
      BY <1>1
    <3>. QED  BY <2>3, <2>5, <3>1, <3>2
  <2> HIDE DEF j
  <2>7. JobSound(log', r, j)
    BY <1>2, <2>4, <2>5, <2>6 DEF JobSound
  <2>. QED  BY <1>4, <2>2, <2>3, <2>5, <2>7, JobStep
<1>. QED  BY <1>5, <1>6

(* The return of the append keeps the invariant.                           *)
LEMMA ApplyAppendedStep ==
  ASSUME IInv, NEW w \in Worker, ApplyAppended(w)
  PROVE  IInv'
<1> DEFINE ph == IF OpsOf(job[w].delta.batches) = {} THEN "save" ELSE "materialize"
           j  == [job[w] EXCEPT !.phase = ph]
<1>1. /\ Host[w] \in Replica /\ log \in [Replica -> Stream]
      /\ job[w] \in ApplyJob /\ JobSound(log, Host[w], job[w])
  BY ApplyJobFacts DEF ApplyAppended
<1>2. /\ job[w].phase = "append" /\ job[w].next > Len(job[w].delta.batches)
      /\ job' = [job EXCEPT ![w] = j]
      /\ UNCHANGED <<log, progress, net, failures, resets>>
  BY DEF ApplyAppended
<1>3. /\ j \in ApplyJob /\ j.phase \in {"save", "materialize"}
      /\ j.delta = job[w].delta /\ j.seen = job[w].seen /\ j.next = job[w].next
  BY <1>1 DEF ApplyJob
<1> HIDE DEF j
<1>4. JobSound(log, Host[w], j)
  BY <1>1, <1>2, <1>3 DEF JobSound
<1>5. Grown(log, log') /\ log' \in [Replica -> Stream] /\ failures' \in 0 .. MaxFailures
  BY <1>1, <1>2, SameGrown DEF IInv, TypeOK
<1>. QED  BY <1>2, <1>3, <1>4, <1>5, JobStep

(* The materialisation after it keeps the invariant.                       *)
LEMMA ApplyMaterializeStep ==
  ASSUME IInv, NEW w \in Worker, ApplyMaterialize(w)
  PROVE  IInv'
<1> DEFINE k == [job[w] EXCEPT !.phase = "save"]
           j == IF Materializes(Known(Host[w])) THEN k ELSE Idle
<1>1. /\ Host[w] \in Replica /\ log \in [Replica -> Stream]
      /\ job[w] \in ApplyJob /\ JobSound(log, Host[w], job[w])
  BY ApplyJobFacts DEF ApplyMaterialize
<1>2. /\ job[w].phase = "materialize"
      /\ job' = [job EXCEPT ![w] = j]
      /\ UNCHANGED <<log, progress, net, failures, resets>>
  BY DEF ApplyMaterialize
<1>3. /\ k \in ApplyJob /\ k.phase = "save"
      /\ k.delta = job[w].delta /\ k.seen = job[w].seen /\ k.next = job[w].next
  BY <1>1 DEF ApplyJob
<1>4. JobSound(log, Host[w], k)
  <2> HIDE DEF k
  <2>. QED  BY <1>1, <1>2, <1>3 DEF JobSound
<1>5. j \in {Idle} \cup BeginJob \cup SyncJob \cup ApplyJob /\ JobSound(log, Host[w], j)
  BY <1>3, <1>4 DEF JobSound, Idle
<1>6. Grown(log, log') /\ log' \in [Replica -> Stream] /\ failures' \in 0 .. MaxFailures
  BY <1>1, <1>2, SameGrown DEF IInv, TypeOK
<1> HIDE DEF j
<1>. QED  BY <1>2, <1>5, <1>6, JobStep

(* Saving: every batch of the delta is stored, so the advanced progress    *)
(* covers nothing that is not, whichever record was loaded at the start.   *)
LEMMA ApplySaveStep ==
  ASSUME IInv, NEW w \in Worker, ApplySave(w)
  PROVE  IInv'
<1> DEFINE r    == Host[w]
           d    == job[w].delta
           seen == job[w].seen
           new  == Advance(seen, d.before, d.after)
<1>1. /\ r \in Replica /\ log \in [Replica -> Stream]
      /\ job[w] \in ApplyJob /\ d \in Delta /\ d.sender \in Replica
      /\ seen \in ReplicaProgress /\ job[w].next \in Nat \ {0} /\ JobSound(log, r, job[w])
  BY ApplyJobFacts DEF ApplySave
<1>2. /\ job[w].phase = "save"
      /\ progress' = [progress EXCEPT ![r][d.sender] = new]
      /\ job' = [job EXCEPT ![w] = Idle]
      /\ UNCHANGED <<log, net, failures, resets>>
  BY DEF ApplySave
<1>3. /\ Accounts(log, d, OpsOf(log[r]))
      /\ Sound(log, seen, r, d.sender)
      /\ job[w].next > Len(d.batches)
      /\ \A i \in 1 .. Len(d.batches) : i < job[w].next => d.batches[i] \subseteq OpsOf(log[r])
  BY <1>1, <1>2 DEF JobSound
<1>4. d.before \in Nat /\ d.after \in Nat /\ d.before <= d.after /\ Len(d.batches) \in Nat
  BY <1>1, <1>3 DEF Delta, Accounts
<1>5. new \in ReplicaProgress
  BY <1>1, <1>4, AdvanceType
<1>6. Sound(log, new, r, d.sender)
  <2> SUFFICES ASSUME NEW k \in Covered(new)
               PROVE  k \in 1 .. Len(log[d.sender]) /\ log[d.sender][k] \subseteq OpsOf(log[r])
    BY DEF Sound
  <2>1. k \in Covered(seen) \/ k \in (d.before + 1) .. d.after
    BY <1>1, <1>4, AdvanceSound
  <2>2. CASE k \in Covered(seen)
    BY <1>3, <2>2 DEF Sound
  <2>3. CASE k \in (d.before + 1) .. d.after
    <3> DEFINE i == k - d.before
    <3>1. i \in 1 .. Len(d.batches) /\ d.before + i = k /\ i < job[w].next
      <4>1. Len(d.batches) = d.after - d.before /\ job[w].next \in Nat
        BY <1>1, <1>3 DEF Accounts
      <4> HIDE DEF d
      <4>. QED  BY <1>3, <1>4, <2>3, <4>1
    <3>2. log[d.sender][k] \subseteq d.batches[i] \cup OpsOf(log[r])
      BY <1>3, <3>1 DEF Accounts
    <3>3. d.batches[i] \subseteq OpsOf(log[r])
      BY <1>3, <3>1
    <3>4. k \in 1 .. Len(log[d.sender])
      <4>1. Len(log[d.sender]) \in Nat
        BY <1>1 DEF Stream
      <4>. QED  BY <1>3, <1>4, <2>3, <4>1 DEF Accounts
    <3>. QED  BY <3>2, <3>3, <3>4
  <2>. QED  BY <2>1, <2>2, <2>3
<1>7. TypeOK'
  <2> HIDE DEF new
  <2>. QED  BY <1>1, <1>2, <1>5 DEF IInv, TypeOK
<1>8. \A s, p \in Replica : Sound(log', progress'[s][p], s, p)
  <2> HIDE DEF new
  <2> SUFFICES ASSUME NEW s \in Replica, NEW p \in Replica
               PROVE  Sound(log', progress'[s][p], s, p)
    OBVIOUS
  <2>1. CASE s = r /\ p = d.sender
    BY <1>1, <1>2, <1>6, <2>1 DEF IInv, TypeOK
  <2>2. CASE ~ (s = r /\ p = d.sender)
    <3>1. progress'[s][p] = progress[s][p]
      BY <1>1, <1>2, <2>2 DEF IInv, TypeOK
    <3>. QED  BY <1>2, <3>1 DEF IInv
  <2>. QED  BY <2>1, <2>2
<1>9. \A v \in Worker : JobSound(log', Host[v], job'[v])
  <2> SUFFICES ASSUME NEW v \in Worker PROVE JobSound(log', Host[v], job'[v])
    OBVIOUS
  <2>1. CASE v = w
    <3>1. job'[v] = Idle
      BY <1>2, <2>1 DEF IInv, TypeOK
    <3>. QED  BY <3>1 DEF JobSound, Idle
  <2>2. CASE v # w
    BY <1>2, <2>2 DEF IInv, TypeOK
  <2>. QED  BY <2>1, <2>2
<1>. QED  BY <1>2, <1>7, <1>8, <1>9 DEF IInv

(* A call that fails anywhere keeps the invariant.                         *)
LEMMA FailStep ==
  ASSUME IInv, NEW w \in Worker, Fail(w)
  PROVE  IInv'
<1>1. /\ job' = [job EXCEPT ![w] = Idle]
      /\ UNCHANGED <<log, progress, net, resets>>
      /\ failures' \in 0 .. MaxFailures
  BY SyncAssumption DEF Fail, IInv, TypeOK
<1>2. JobSound(log', Host[w], Idle)
  BY DEF JobSound, Idle
<1>3. log \in [Replica -> Stream]
  BY DEF IInv, TypeOK, Stream
<1>. QED  BY <1>1, <1>2, <1>3, SameGrown, JobStep

(* The actions of applications.                                            *)
LEMMA ApplicationStep ==
  ASSUME IInv, Application
  PROVE  IInv'
<1>1. ASSUME NEW r \in Replica, NEW event \in Event, Commit(r, event)
      PROVE  IInv'
  BY <1>1, SyncAssumption, AppendStep DEF Commit
<1>2. ASSUME NEW r \in Replica, NEW p \in Replica, NEW n \in 1 .. Len(log[p]),
             MergeFrom(r, p, n)
      PROVE  IInv'
  <2>1. Between(p, 0, n) \in SUBSET Op
    BY BetweenKnown, OpsOfType DEF IInv, TypeOK, Stream, Known
  <2>. QED  BY <1>2, <2>1, AppendStep DEF MergeFrom
<1>3. ASSUME NEW r \in Replica, NEW p \in Replica, ResetProgress(r, p)
      PROVE  IInv'
  <2>1. NoProgress \in ReplicaProgress /\ Covered(NoProgress) = {}
    BY DEF NoProgress, ReplicaProgress, Covered, Batches
  <2>2. /\ progress' = [progress EXCEPT ![r][p] = NoProgress]
        /\ resets' \in 0 .. MaxResets
        /\ UNCHANGED <<log, net, job, failures>>
    BY <1>3, SyncAssumption DEF ResetProgress, IInv, TypeOK
  <2>3. TypeOK'
    BY <2>1, <2>2 DEF IInv, TypeOK
  <2>4. \A s, q \in Replica : Sound(log', progress'[s][q], s, q)
    <3> SUFFICES ASSUME NEW s \in Replica, NEW q \in Replica
                 PROVE  Sound(log', progress'[s][q], s, q)
      OBVIOUS
    <3>1. CASE s = r /\ q = p
      <4>1. progress'[s][q] = NoProgress
        BY <2>2, <3>1 DEF IInv, TypeOK
      <4>. QED  BY <2>1, <4>1 DEF Sound
    <3>2. CASE ~ (s = r /\ q = p)
      <4>1. progress'[s][q] = progress[s][q]
        BY <2>2, <3>2 DEF IInv, TypeOK
      <4>. QED  BY <2>2, <4>1 DEF IInv
    <3>. QED  BY <3>1, <3>2
  <2>. QED  BY <2>2, <2>3, <2>4 DEF IInv
<1>4. ASSUME NEW s \in Replica, NEW limit \in Limit, NEW from \in 0 .. Len(log[s]),
             NEW to \in 0 .. Len(log[s]), Export(s, from, to, limit)
      PROVE  IInv'
  <2>1. from \in Nat /\ to \in Nat /\ from <= to /\ to <= Len(log[s])
    BY <1>4 DEF Export, IsPage
  <2>2. Slice(s, from, to) \in Delta /\ Accounts(log, Slice(s, from, to), {})
    BY <2>1, SliceFacts DEF IInv
  <2>3. /\ net' = net \cup {Slice(s, from, to)}
        /\ UNCHANGED <<log, progress, job, failures, resets>>
    BY <1>4 DEF Export
  <2>. QED  BY <2>2, <2>3 DEF IInv, TypeOK
<1>. QED  BY <1>1, <1>2, <1>3, <1>4 DEF Application

-------------------------------------------------------------------------------
(* The invariant holds at the start.                                       *)
LEMMA Initially == Init => IInv
<1> SUFFICES ASSUME Init PROVE IInv
  OBVIOUS
<1>1. NoProgress \in ReplicaProgress /\ Covered(NoProgress) = {}
  BY DEF NoProgress, ReplicaProgress, Covered, Batches
<1>2. TypeOK
  BY <1>1, SyncAssumption DEF Init, TypeOK
<1>3. \A w \in Worker : JobSound(log, Host[w], job[w])
  BY DEF Init, JobSound, Idle
<1>. QED  BY <1>1, <1>2, <1>3 DEF Init, IInv, Sound

(* Every step keeps the invariant.                                         *)
LEMMA Inductive == IInv /\ [Next]_vars => IInv'
<1> SUFFICES ASSUME IInv, [Next]_vars PROVE IInv'
  OBVIOUS
<1>1. CASE Application
  BY <1>1, ApplicationStep
<1>2. ASSUME NEW w \in Worker, Sync(w) PROVE IInv'
  <2>1. CASE Manifest(w)
    BY <2>1, SyncManifestStep DEF Manifest
  <2>. QED  BY <1>2, <2>1, SyncBeginStep, SyncFilterStep, SyncExportStep DEF Sync
<1>3. ASSUME NEW w \in Worker, Apply(w) PROVE IInv'
  BY <1>3, ApplyBeginStep, ApplyAppendStep, ApplyAppendedStep, ApplyMaterializeStep,
     ApplySaveStep DEF Apply
<1>4. ASSUME NEW w \in Worker, Fail(w) PROVE IInv'
  BY <1>4, FailStep
<1>5. CASE UNCHANGED vars
  BY <1>5 DEF vars, IInv, TypeOK
<1>. QED  BY <1>1, <1>2, <1>3, <1>4, <1>5 DEF Next

(* Every reachable state has the types the code's records enforce.         *)
THEOREM TypeCorrect == Spec => []TypeOK
<1>1. IInv => TypeOK
  BY DEF IInv
<1>. QED  BY Initially, Inductive, <1>1, PTL DEF Spec

(* apply_replica_delta and sync_from never record as received a batch that *)
(* the receiver has not stored, for any number of replicas and workers,    *)
(* any interleaving, failure point, duplication or reordering of deltas.   *)
THEOREM SyncSound == Spec => []ProgressSound
<1>1. IInv => ProgressSound
  BY DEF IInv, ProgressSound, Sound, Known
<1>. QED  BY Initially, Inductive, <1>1, PTL DEF Spec
-------------------------------------------------------------------------------
(* Delta synchronisation implements OpSetReplication: the abstract         *)
(* specification follows every step under the refinement mapping that      *)
(* module ReplicaSync gives Promise.                                       *)

KnownMap == [r \in Replica |-> Known(r)]
AckedMap == [r \in Replica |-> [p \in Replica |-> Acknowledged(r, p)]]

(* Progress means the same operations after the streams have grown.        *)
LEMMA AcknowledgedStable ==
  ASSUME IInv, log' \in [Replica -> Stream], Grown(log, log'), progress' = progress
  PROVE  AckedMap' = AckedMap
<1>1. ASSUME NEW r \in Replica, NEW p \in Replica
      PROVE  Acknowledged(r, p)' = Acknowledged(r, p)
  <2>1. Len(log[p]) \in Nat /\ Len(log'[p]) \in Nat /\ Len(log[p]) <= Len(log'[p])
    BY DEF IInv, TypeOK, Stream, Grown
  <2>2. Covered(progress[r][p]) \subseteq 1 .. Len(log[p])
    BY DEF IInv, Sound
  <2>3. \A i \in Covered(progress[r][p]) : log'[p][i] = log[p][i]
    BY <2>2 DEF Grown
  <2>4. Covered(progress[r][p]) \cap 1 .. Len(log'[p]) = Covered(progress[r][p]) \cap 1 .. Len(log[p])
    BY <2>1, <2>2
  <2>. QED  BY <2>2, <2>3, <2>4 DEF Acknowledged
<1>. QED  BY <1>1 DEF AckedMap

(* A stream that gets a batch is an operation of the abstract replica that *)
(* gets its operations.                                                    *)
LEMMA GrowthStep ==
  ASSUME IInv, NEW r \in Replica, NEW ops \in SUBSET Op,
         log' = [log EXCEPT ![r] = Extended(@, ops)], progress' = progress
  PROVE  KnownMap' = [KnownMap EXCEPT ![r] = @ \cup ops] /\ AckedMap' = AckedMap
<1>1. /\ log \in [Replica -> Stream] /\ log' \in [Replica -> Stream] /\ Grown(log, log')
      /\ OpsOf(log'[r]) = OpsOf(log[r]) \cup ops
  BY AppendGrown DEF IInv, TypeOK, Stream
<1>2. \A s \in Replica : s # r => log'[s] = log[s]
  BY <1>1
<1>3. \A s \in Replica : Known(s)' = IF s = r THEN Known(s) \cup ops ELSE Known(s)
  BY <1>1, <1>2 DEF Known
<1>. QED  BY <1>1, <1>3, AcknowledgedStable DEF KnownMap

(* A step that leaves streams and progress alone leaves the abstract       *)
(* replicas alone.                                                         *)
LEMMA QuietStep ==
  ASSUME UNCHANGED <<log, progress>>
  PROVE  KnownMap' = KnownMap /\ AckedMap' = AckedMap
BY DEF KnownMap, AckedMap, Known, Acknowledged

(* Rewriting one progress record is an acknowledgement of stored batches.  *)
LEMMA RecordStep ==
  ASSUME IInv, IInv', NEW r \in Replica, NEW p \in Replica, NEW record,
         progress' = [progress EXCEPT ![r][p] = record], log' = log
  PROVE  Promise!Acknowledge(r, p)
<1> DEFINE ops == Acknowledged(r, p)'
<1>1. KnownMap' = KnownMap
  BY DEF KnownMap, Known
<1>2. ops \in SUBSET (Known(r) \cap Known(p))
  <2> SUFFICES ASSUME NEW o \in ops PROVE o \in Known(r) /\ o \in Known(p)
    OBVIOUS
  <2>1. PICK i \in Covered(progress'[r][p]) \cap 1 .. Len(log[p]) : o \in log[p][i]
    BY DEF Acknowledged
  <2>2. log[p][i] \subseteq OpsOf(log[r])
    BY <2>1 DEF IInv, Sound
  <2>. QED  BY <2>1, <2>2 DEF Known, OpsOf
<1>3. \A s, q \in Replica :
        Acknowledged(s, q)' = IF s = r /\ q = p THEN ops ELSE Acknowledged(s, q)
  <2> SUFFICES ASSUME NEW s \in Replica, NEW q \in Replica
               PROVE  Acknowledged(s, q)' = IF s = r /\ q = p THEN ops ELSE Acknowledged(s, q)
    OBVIOUS
  <2>1. CASE s = r /\ q = p
    BY <2>1
  <2>2. CASE ~ (s = r /\ q = p)
    <3>1. progress'[s][q] = progress[s][q]
      BY <2>2 DEF IInv, TypeOK
    <3>. QED  BY <2>2, <3>1 DEF Acknowledged
  <2>. QED  BY <2>1, <2>2
<1> HIDE DEF ops
<1>4. AckedMap' = [AckedMap EXCEPT ![r][p] = ops]
  BY <1>3, Zenon DEF AckedMap
<1>5. Known(r) = KnownMap[r] /\ Known(p) = KnownMap[p]
  BY DEF KnownMap
<1>. QED  BY <1>1, <1>2, <1>4, <1>5 DEF Promise!Acknowledge, KnownMap, AckedMap

(* Applying a batch is receiving operations its sender holds.              *)
LEMMA BatchFromSender ==
  ASSUME IInv, NEW w \in Worker, job[w].phase = "append",
         job[w].next <= Len(job[w].delta.batches)
  PROVE  /\ job[w].delta.sender \in Replica
         /\ job[w].delta.batches[job[w].next] \in SUBSET Known(job[w].delta.sender)
<1> DEFINE d == job[w].delta
           i == job[w].next
<1>1. /\ d \in Delta /\ d.sender \in Replica /\ i \in Nat \ {0} /\ log \in [Replica -> Stream]
      /\ JobSound(log, Host[w], job[w])
  BY ApplyJobFacts
<1>2. Accounts(log, d, OpsOf(log[Host[w]]))
  BY <1>1 DEF JobSound
<1>3. /\ d.before \in Nat /\ d.after \in Nat /\ Len(d.batches) \in Nat
      /\ Len(log[d.sender]) \in Nat
  BY <1>1 DEF Delta, Stream
<1>4. /\ i \in 1 .. Len(d.batches)
      /\ Len(d.batches) = d.after - d.before /\ d.after <= Len(log[d.sender])
  BY <1>1, <1>2, <1>3 DEF Accounts
<1>5. d.batches[i] \subseteq log[d.sender][d.before + i]
  BY <1>2, <1>4 DEF Accounts
<1>6. d.before + i \in 1 .. Len(log[d.sender])
  <2> HIDE DEF d, i
  <2>. QED  BY <1>1, <1>3, <1>4
<1>. QED  BY <1>1, <1>5, <1>6 DEF Known, OpsOf

-------------------------------------------------------------------------------
(* Every step is one of the abstract replicas or leaves them alone.        *)
LEMMA StepRefines ==
  ASSUME IInv, IInv', [Next]_vars
  PROVE  [Promise!Next]_(Promise!vars)
<1> USE DEF Promise!vars
<1>1. UNCHANGED <<log, progress>> => UNCHANGED Promise!vars
  BY QuietStep DEF KnownMap, AckedMap
<1>2. ASSUME NEW r \in Replica, NEW event \in Event, Commit(r, event)
      PROVE  Promise!Next
  <2>1. Promise!Commit(r, event)
    BY <1>2, SyncAssumption, GrowthStep DEF Commit, Promise!Commit, KnownMap, AckedMap
  <2>. QED  BY <2>1 DEF Promise!Next
<1>3. ASSUME NEW r \in Replica, NEW p \in Replica, NEW ops \in SUBSET Known(p),
             log' = [log EXCEPT ![r] = Extended(@, ops)], progress' = progress
      PROVE  Promise!Next
  <2>1. ops \in SUBSET Op
    BY OpsOfType DEF IInv, TypeOK, Stream, Known
  <2>2. KnownMap' = [KnownMap EXCEPT ![r] = @ \cup ops] /\ AckedMap' = AckedMap
    BY <1>3, <2>1, GrowthStep
  <2>3. ops \in SUBSET KnownMap[p]
    BY DEF KnownMap
  <2>4. Promise!Receive(r, p)
    BY <2>2, <2>3 DEF Promise!Receive, KnownMap, AckedMap
  <2>. QED  BY <2>4 DEF Promise!Next
<1>4. ASSUME NEW r \in Replica, NEW p \in Replica, NEW record,
             progress' = [progress EXCEPT ![r][p] = record], log' = log
      PROVE  Promise!Next
  BY <1>4, RecordStep DEF Promise!Next
<1>5. CASE Application
  <2>1. ASSUME NEW r \in Replica, NEW p \in Replica, NEW n \in 1 .. Len(log[p]),
               MergeFrom(r, p, n)
        PROVE  Promise!Next
    <3>1. Between(p, 0, n) \in SUBSET Known(p)
      BY BetweenKnown DEF IInv, TypeOK, Stream
    <3>. QED  BY <1>3, <2>1, <3>1 DEF MergeFrom
  <2>. QED  BY <1>1, <1>2, <1>4, <1>5, <2>1 DEF Application, ResetProgress, Export
<1>6. ASSUME NEW w \in Worker, Apply(w)
      PROVE  Promise!Next \/ UNCHANGED Promise!vars
  <2>1. CASE ApplyAppend(w)
    <3> DEFINE batch == job[w].delta.batches[job[w].next]
    <3>1. CASE Collides(batch, Known(Host[w]))
      BY <1>1, <2>1, <3>1 DEF ApplyAppend
    <3>2. CASE ~ Collides(batch, Known(Host[w]))
      <4>1. /\ log' = [log EXCEPT ![Host[w]] = Extended(@, batch)] /\ progress' = progress
            /\ job[w].phase = "append" /\ job[w].next <= Len(job[w].delta.batches)
        BY <2>1, <3>2 DEF ApplyAppend
      <4>2. job[w].delta.sender \in Replica /\ batch \in SUBSET Known(job[w].delta.sender)
        BY <4>1, BatchFromSender
      <4>3. Host[w] \in Replica
        BY SyncAssumption
      <4> HIDE DEF batch
      <4>. QED  BY <1>3, <4>1, <4>2, <4>3
    <3>. QED  BY <3>1, <3>2
  <2>2. CASE ApplySave(w)
    <3>1. job[w].delta.sender \in Replica
      BY <2>2, ApplyJobFacts DEF ApplySave
    <3>. QED  BY <1>4, <2>2, <3>1, SyncAssumption DEF ApplySave
  <2>. QED
    BY <1>1, <1>6, <2>1, <2>2 DEF Apply, ApplyBegin, ApplyAppended, ApplyMaterialize
<1>7. ASSUME NEW w \in Worker, Sync(w) \/ Fail(w)
      PROVE  UNCHANGED Promise!vars
  BY <1>1, <1>7 DEF Sync, SyncBegin, Manifest, SyncManifest, SyncFilter, SyncExport, Fail
<1>8. CASE UNCHANGED vars
  BY <1>1, <1>8 DEF vars
<1>. QED  BY <1>5, <1>6, <1>7, <1>8 DEF Next, Application

(* At the start the abstract replicas are at theirs.                       *)
LEMMA InitRefines == Init => Promise!Init
<1> SUFFICES ASSUME Init PROVE Promise!Init
  OBVIOUS
<1>1. \A r \in Replica : Known(r) = {}
  BY DEF Init, Known, OpsOf
<1>2. Covered(NoProgress) = {}
  BY DEF NoProgress, Covered, Batches
<1>3. \A r, p \in Replica : Acknowledged(r, p) = {}
  BY <1>2 DEF Init, Acknowledged
<1>. QED  BY <1>1, <1>3 DEF Promise!Init

(* Streams, cursors, pages, filters, workers and failures together do what *)
(* replication of grow-only operation sets does: sync_from, merge_from and *)
(* apply_replica_delta only ever move operations from a replica that has   *)
(* them, and acknowledge only what both sides hold.                        *)
THEOREM SyncImplementsReplication == Spec => KeepsPromise
<1>1. Init => IInv
  BY Initially
<1>2. IInv /\ [Next]_vars => IInv'
  BY Inductive
<1>3. IInv /\ IInv' /\ [Next]_vars => [Promise!Next]_(Promise!vars)
  BY StepRefines
<1>. QED  BY <1>1, <1>2, <1>3, InitRefines, PTL DEF Spec, KeepsPromise, Promise!Spec

-------------------------------------------------------------------------------
(* What delta synchronisation keeps: every operation once, every event     *)
(* whole, the page a manifest described for as long as it is in use, and,  *)
(* with one worker per replica, the progress once recorded.                *)

(* A call appends to r's stream what is new of ops.                        *)
Stores(r, ops) ==
  /\ ~ Collides(ops, Known(r))
  /\ log' = [log EXCEPT ![r] = Extended(@, ops)]

-------------------------------------------------------------------------------
(* What append_many leaves: the stream itself, or one more batch of        *)
(* operations that no earlier batch holds.                                 *)
LEMMA ExtendedNew ==
  ASSUME NEW s \in Stream, NEW ops \in SUBSET Op
  PROVE  \/ Extended(s, ops) = s
         \/ /\ ops \ OpsOf(s) # {}
            /\ Len(s) \in Nat
            /\ Len(Extended(s, ops)) = Len(s) + 1
            /\ \A i \in 1 .. Len(s) : Extended(s, ops)[i] = s[i]
            /\ Extended(s, ops)[Len(s) + 1] = ops \ OpsOf(s)
<1> DEFINE new == ops \ OpsOf(s)
<1>1. CASE ops \subseteq OpsOf(s)
  BY <1>1 DEF Extended
<1>2. CASE ~ ops \subseteq OpsOf(s)
  <2>1. Extended(s, ops) = Append(s, new) /\ new # {}
    BY <1>2 DEF Extended
  <2>2. s \in Seq(SUBSET Op) /\ new \in SUBSET Op
    BY DEF Stream
  <2> HIDE DEF new
  <2>3. /\ Len(s) \in Nat /\ Len(Append(s, new)) = Len(s) + 1
        /\ \A i \in 1 .. Len(s) : Append(s, new)[i] = s[i]
        /\ Append(s, new)[Len(s) + 1] = new
    BY <2>2
  <2>. QED  BY <2>1, <2>3 DEF new
<1>. QED  BY <1>1, <1>2

(* The three ways in which a step changes a stream: a commit, a merge, the *)
(* next batch of a delta.                                                  *)
LEMMA LogStep ==
  ASSUME IInv, [Next]_vars
  PROVE  \/ log' = log
         \/ \E r \in Replica, event \in Event : Stores(r, event)
         \/ \E r, p \in Replica : \E n \in 1 .. Len(log[p]) : Stores(r, Between(p, 0, n))
         \/ \E w \in Worker :
              /\ job[w].phase = "append"
              /\ job[w].next \in 1 .. Len(job[w].delta.batches)
              /\ Stores(Host[w], job[w].delta.batches[job[w].next])
<1>1. CASE Application
  BY <1>1 DEF Application, Commit, MergeFrom, ResetProgress, Export, Stores
<1>2. ASSUME NEW w \in Worker, ApplyAppend(w)
      PROVE  \/ log' = log
             \/ /\ job[w].phase = "append"
                /\ job[w].next \in 1 .. Len(job[w].delta.batches)
                /\ Stores(Host[w], job[w].delta.batches[job[w].next])
  <2>1. job[w].next \in Nat \ {0} /\ Len(job[w].delta.batches) \in Nat
    BY <1>2, ApplyJobFacts DEF ApplyAppend, Delta
  <2>2. job[w].phase = "append" /\ job[w].next <= Len(job[w].delta.batches)
    BY <1>2 DEF ApplyAppend
  <2>3. CASE Collides(job[w].delta.batches[job[w].next], Known(Host[w]))
    BY <1>2, <2>3 DEF ApplyAppend
  <2>4. CASE ~ Collides(job[w].delta.batches[job[w].next], Known(Host[w]))
    BY <1>2, <2>1, <2>2, <2>4 DEF ApplyAppend, Stores
  <2>. QED  BY <2>3, <2>4
<1>3. ASSUME NEW w \in Worker, Sync(w) \/ Fail(w)
      PROVE  log' = log
  BY <1>3 DEF Sync, SyncBegin, Manifest, SyncManifest, SyncFilter, SyncExport, Fail
<1>4. ASSUME NEW w \in Worker, Apply(w), ~ ApplyAppend(w)
      PROVE  log' = log
  BY <1>4 DEF Apply, ApplyBegin, ApplyAppended, ApplyMaterialize, ApplySave
<1>5. CASE UNCHANGED vars
  BY <1>5 DEF vars
<1>. QED  BY <1>1, <1>2, <1>3, <1>4, <1>5 DEF Next

(* The operations stored in each of the three ways.                        *)
LEMMA StepOps ==
  ASSUME IInv
  PROVE  /\ \A event \in Event : event \in SUBSET Op
         /\ \A p \in Replica : \A n \in 1 .. Len(log[p]) : Between(p, 0, n) \in SUBSET Op
         /\ \A w \in Worker :
              /\ job[w].phase = "append"
              /\ job[w].next \in 1 .. Len(job[w].delta.batches)
              => /\ Host[w] \in Replica
                 /\ job[w].delta.batches[job[w].next] \in SUBSET Op
<1>1. \A event \in Event : event \in SUBSET Op
  BY SyncAssumption
<1>2. \A p \in Replica : \A n \in 1 .. Len(log[p]) : Between(p, 0, n) \in SUBSET Op
  BY BetweenKnown, OpsOfType DEF IInv, TypeOK, Stream, Known
<1>3. ASSUME NEW w \in Worker, job[w].phase = "append",
             job[w].next \in 1 .. Len(job[w].delta.batches)
      PROVE  Host[w] \in Replica /\ job[w].delta.batches[job[w].next] \in SUBSET Op
  BY <1>3, ApplyJobFacts DEF Delta
<1>. QED  BY <1>1, <1>2, <1>3

(* Each of them stores some operations.                                    *)
LEMMA StoresSome ==
  ASSUME IInv, [Next]_vars
  PROVE  log' = log \/ \E r \in Replica, ops \in SUBSET Op : Stores(r, ops)
BY LogStep, StepOps

-------------------------------------------------------------------------------
(* StoredOnce is inductive: a batch is appended without what the stream    *)
(* holds already, and only if it collides with nothing.                    *)
LEMMA StoredOnceStep ==
  ASSUME IInv, StoredOnce, [Next]_vars
  PROVE  StoredOnce'
<1>1. log' = log => StoredOnce'
  BY DEF StoredOnce, Known
<1>2. ASSUME NEW r \in Replica, NEW ops \in SUBSET Op, Stores(r, ops)
      PROVE  StoredOnce'
  <2> DEFINE s == log[r]
             t == Extended(s, ops)
  <2>1. log \in [Replica -> Stream] /\ s \in Stream
    BY DEF IInv, TypeOK, Stream
  <2>2. log' = [log EXCEPT ![r] = t]
    BY <1>2 DEF Stores
  <2>3. /\ \A i, j \in 1 .. Len(s) : i # j => s[i] \cap s[j] = {}
        /\ \A i \in 1 .. Len(s) : s[i] # {}
        /\ \A p \in Collide : ~ p \subseteq OpsOf(s)
    BY DEF StoredOnce, Known
  <2>4. \A i \in 1 .. Len(s) : s[i] \subseteq OpsOf(s)
    BY <2>1, BatchKnown
  <2>5. \/ t = s
        \/ /\ ops \ OpsOf(s) # {}
           /\ Len(s) \in Nat /\ Len(t) = Len(s) + 1
           /\ \A i \in 1 .. Len(s) : t[i] = s[i]
           /\ t[Len(s) + 1] = ops \ OpsOf(s)
    BY <2>1, ExtendedNew
  <2>6. OpsOf(t) = OpsOf(s) \cup ops
    BY <2>1, ExtendedFacts
  <2>7. \A p \in Collide : ~ p \subseteq OpsOf(t)
    BY <1>2, <2>3, <2>6 DEF Stores, Collides, Known
  <2> HIDE DEF s, t
  <2>8. \A i, j \in 1 .. Len(t) : i # j => t[i] \cap t[j] = {}
    <3>1. CASE t = s
      BY <2>3, <3>1
    <3>2. CASE t # s
      <4>1. \A i \in 1 .. Len(t) : i \in 1 .. Len(s) \/ i = Len(s) + 1
        BY <2>5, <3>2
      <4>2. \A i \in 1 .. Len(s) : t[i] \cap t[Len(s) + 1] = {}
        BY <2>4, <2>5, <3>2
      <4>. QED  BY <2>3, <2>5, <3>2, <4>1, <4>2
    <3>. QED  BY <3>1, <3>2
  <2>9. \A i \in 1 .. Len(t) : t[i] # {}
    <3>1. CASE t = s
      BY <2>3, <3>1
    <3>2. CASE t # s
      <4>1. \A i \in 1 .. Len(t) : i \in 1 .. Len(s) \/ i = Len(s) + 1
        BY <2>5, <3>2
      <4>. QED  BY <2>3, <2>5, <3>2, <4>1
    <3>. QED  BY <3>1, <3>2
  <2>10. log'[r] = t /\ \A q \in Replica : q # r => log'[q] = log[q]
    BY <2>1, <2>2
  <2>. QED  BY <2>7, <2>8, <2>9, <2>10 DEF StoredOnce, Known
<1>. QED  BY <1>1, <1>2, StoresSome

(* At the start nothing is stored.                                         *)
LEMMA StoredOnceInit == Init => StoredOnce
<1> SUFFICES ASSUME Init PROVE StoredOnce
  OBVIOUS
<1>1. \A r \in Replica : Len(log[r]) = 0 /\ Known(r) = {}
  BY DEF Init, Known, OpsOf
<1>2. \A p \in Collide : p # {}
  BY SyncAssumption
<1>. QED  BY <1>1, <1>2 DEF StoredOnce

(* Appends by applications, syncs, appliers of old deltas and merges never *)
(* store an operation twice, an empty batch, or two payloads under one     *)
(* op_id, for any number of workers on one store and any interleaving.     *)
THEOREM OperationsStoredOnce == Spec => []StoredOnce
<1>1. Init => IInv /\ StoredOnce
  BY Initially, StoredOnceInit
<1>2. IInv /\ StoredOnce /\ [Next]_vars => IInv' /\ StoredOnce'
  BY Inductive, StoredOnceStep
<1>. QED  BY <1>1, <1>2, PTL DEF Spec

-------------------------------------------------------------------------------
(* Events are atomic because every set of operations on the way from one   *)
(* stream to another treats an event that shares no operation with others  *)
(* as one: batches are never split, and a filter by what is known, itself  *)
(* made of whole batches, takes an event or leaves it.                     *)
Whole(e, ops) == e \subseteq ops \/ e \cap ops = {}

Isolated(e) == \A f \in Event \ {e} : e \cap f = {}

JobWhole(e, j) ==
  /\ j.phase = "export" => Whole(e, j.wanted)
  /\ j.phase \in {"append", "materialize", "save"} =>
       \A i \in 1 .. Len(j.delta.batches) : Whole(e, j.delta.batches[i])

StreamsWhole(e, L) == \A r \in Replica : \A i \in 1 .. Len(L[r]) : Whole(e, L[r][i])

WholeInv ==
  \A e \in Event :
    Isolated(e) => StreamsWhole(e, log) /\ \A w \in Worker : JobWhole(e, job[w])

(* Wholeness passes through unions, filters and differences.               *)
LEMMA WholeUnion ==
  ASSUME NEW e, NEW s, \A i \in 1 .. Len(s) : Whole(e, s[i])
  PROVE  Whole(e, OpsOf(s))
BY DEF Whole, OpsOf

(* The first batches of a stream hold an event whole or not at all.        *)
LEMMA WholeBetween ==
  ASSUME NEW e, StreamsWhole(e, log), log \in [Replica -> Stream],
         NEW p \in Replica, NEW n \in 1 .. Len(log[p])
  PROVE  Whole(e, Between(p, 0, n))
<1>1. Len(log[p]) \in Nat
  BY DEF Stream
<1>2. \A i \in (0 + 1) .. n : Whole(e, log[p][i])
  BY <1>1 DEF StreamsWhole
<1>. QED  BY <1>2 DEF Whole, Between

(* An event that is whole in two sets is whole in what they share and in   *)
(* their difference.                                                       *)
LEMMA WholeParts ==
  ASSUME NEW e, NEW A, NEW B, Whole(e, A), Whole(e, B)
  PROVE  Whole(e, A \cap B) /\ Whole(e, A \ B)
BY DEF Whole

(* A delta cut from the streams holds whole batches.                       *)
LEMMA SliceWhole ==
  ASSUME NEW e, StreamsWhole(e, log), log \in [Replica -> Stream],
         NEW d \in Delta, Accounts(log, d, {})
  PROVE  \A i \in 1 .. Len(d.batches) : Whole(e, d.batches[i])
<1> SUFFICES ASSUME NEW i \in 1 .. Len(d.batches) PROVE Whole(e, d.batches[i])
  OBVIOUS
<1>1. /\ d.sender \in Replica /\ d.before \in Nat /\ d.after \in Nat
      /\ Len(d.batches) \in Nat /\ Len(log[d.sender]) \in Nat
  BY DEF Delta, Stream
<1>2. d.before + i \in 1 .. Len(log[d.sender])
  BY <1>1 DEF Accounts
<1>3. d.batches[i] = log[d.sender][d.before + i]
  BY DEF Accounts
<1>. QED  BY <1>1, <1>2, <1>3 DEF StreamsWhole

-------------------------------------------------------------------------------
(* What is stored is whole, so what the streams hold stays whole.          *)
LEMMA StreamsWholeStep ==
  ASSUME IInv, WholeInv, [Next]_vars, NEW e \in Event, Isolated(e)
  PROVE  StreamsWhole(e, log')
<1>1. /\ log \in [Replica -> Stream] /\ StreamsWhole(e, log)
      /\ \A w \in Worker : JobWhole(e, job[w])
  BY DEF IInv, TypeOK, Stream, WholeInv
<1>2. ASSUME NEW r \in Replica, NEW ops \in SUBSET Op, Stores(r, ops), Whole(e, ops)
      PROVE  StreamsWhole(e, log')
  <2> DEFINE s == log[r]
             t == Extended(s, ops)
  <2>1. s \in Stream /\ \A i \in 1 .. Len(s) : Whole(e, s[i])
    BY <1>1 DEF StreamsWhole
  <2>2. \/ t = s
        \/ /\ Len(s) \in Nat /\ Len(t) = Len(s) + 1
           /\ \A i \in 1 .. Len(s) : t[i] = s[i]
           /\ t[Len(s) + 1] = ops \ OpsOf(s)
    BY <2>1, ExtendedNew
  <2>3. Whole(e, ops \ OpsOf(s))
    BY <1>2, <2>1, WholeUnion, WholeParts
  <2>4. log'[r] = t /\ \A q \in Replica : q # r => log'[q] = log[q]
    BY <1>1, <1>2 DEF Stores
  <2> HIDE DEF s, t
  <2>5. \A i \in 1 .. Len(t) : Whole(e, t[i])
    <3>1. CASE t = s
      BY <2>1, <3>1
    <3>2. CASE t # s
      <4>1. \A i \in 1 .. Len(t) : i \in 1 .. Len(s) \/ i = Len(s) + 1
        BY <2>2, <3>2
      <4>. QED  BY <2>1, <2>2, <2>3, <3>2, <4>1
    <3>. QED  BY <3>1, <3>2
  <2>. QED  BY <1>1, <2>4, <2>5 DEF StreamsWhole
<1>3. ASSUME NEW event \in Event
      PROVE  event \in SUBSET Op /\ Whole(e, event)
  BY StepOps DEF Isolated, Whole
<1>4. ASSUME NEW p \in Replica, NEW n \in 1 .. Len(log[p])
      PROVE  Between(p, 0, n) \in SUBSET Op /\ Whole(e, Between(p, 0, n))
  BY <1>1, StepOps, WholeBetween
<1>5. ASSUME NEW w \in Worker, job[w].phase = "append",
             job[w].next \in 1 .. Len(job[w].delta.batches)
      PROVE  /\ Host[w] \in Replica
             /\ job[w].delta.batches[job[w].next] \in SUBSET Op
             /\ Whole(e, job[w].delta.batches[job[w].next])
  BY <1>1, <1>5, StepOps DEF JobWhole
<1>6. CASE log' = log
  BY <1>1, <1>6 DEF StreamsWhole
<1>. QED  BY <1>2, <1>3, <1>4, <1>5, <1>6, LogStep

(* A worker moves on to job j, whole in every isolated event.              *)
LEMMA JobsWhole ==
  ASSUME IInv, WholeInv, NEW e \in Event, Isolated(e), NEW w \in Worker, NEW j,
         job' = [job EXCEPT ![w] = j], JobWhole(e, j)
  PROVE  \A v \in Worker : JobWhole(e, job'[v])
BY DEF WholeInv, IInv, TypeOK

(* Every step keeps an event whole in what every worker carries.           *)
LEMMA JobsWholeStep ==
  ASSUME IInv, WholeInv, [Next]_vars, NEW e \in Event, Isolated(e)
  PROVE  \A v \in Worker : JobWhole(e, job'[v])
<1>1. /\ log \in [Replica -> Stream] /\ StreamsWhole(e, log)
      /\ \A w \in Worker : JobWhole(e, job[w])
  BY DEF IInv, TypeOK, Stream, WholeInv
<1>2. TypeOK /\ \A w \in Worker : Host[w] \in Replica
  BY SyncAssumption DEF IInv
<1>3. JobWhole(e, Idle)
  BY DEF JobWhole, Idle
<1>4. ASSUME job' = job PROVE \A v \in Worker : JobWhole(e, job'[v])
  BY <1>1, <1>4
<1>5. ASSUME NEW w \in Worker, NEW p \in Replica, SyncBegin(w, p)
      PROVE  \A v \in Worker : JobWhole(e, job'[v])
  <2> DEFINE j == [phase |-> "manifest", peer |-> p, from |-> progress[Host[w]][p].cursor]
  <2>1. JobWhole(e, j) /\ job' = [job EXCEPT ![w] = j]
    BY <1>5 DEF SyncBegin, JobWhole
  <2> HIDE DEF j
  <2>. QED  BY <2>1, JobsWhole
<1>6. ASSUME NEW w \in Worker, Manifest(w)
      PROVE  \A v \in Worker : JobWhole(e, job'[v])
  <2>1. PICK limit \in Limit, to \in 0 .. Len(log[job[w].peer]) : SyncManifest(w, to, limit)
    BY <1>6 DEF Manifest
  <2> DEFINE j == [phase |-> "filter", wanted |-> {},
                   manifest |-> Slice(job[w].peer, job[w].from, to)]
  <2>2. JobWhole(e, j) /\ job' = [job EXCEPT ![w] = j]
    BY <2>1 DEF SyncManifest, JobWhole
  <2> HIDE DEF j
  <2>. QED  BY <2>2, JobsWhole
<1>7. ASSUME NEW w \in Worker, SyncFilter(w)
      PROVE  \A v \in Worker : JobWhole(e, job'[v])
  <2> DEFINE m      == job[w].manifest
             listed == OpsOf(m.batches)
             known  == Known(Host[w])
             k      == [phase |-> "export", manifest |-> m, wanted |-> listed \ known]
             j      == IF Collides(listed, known) THEN Idle ELSE k
  <2>1. job[w] \in SyncJob /\ JobSound(log, Host[w], job[w])
    BY <1>2, <1>7, JobKinds DEF SyncFilter, IInv
  <2>2. m \in Delta /\ Accounts(log, m, {})
    BY <1>7, <2>1 DEF SyncFilter, SyncJob, JobSound
  <2>3. Whole(e, listed)
    BY <1>1, <2>2, SliceWhole, WholeUnion
  <2>4. Whole(e, known)
    BY <1>1, <1>2, WholeUnion DEF StreamsWhole, Known
  <2>5. Whole(e, listed \ known)
    BY <2>3, <2>4, WholeParts
  <2>6. JobWhole(e, k)
    <3> HIDE DEF listed, known, m
    <3>. QED  BY <2>5 DEF JobWhole
  <2>7. JobWhole(e, j) /\ job' = [job EXCEPT ![w] = j]
    BY <1>3, <1>7, <2>6 DEF SyncFilter
  <2> HIDE DEF j
  <2>. QED  BY <2>7, JobsWhole
<1>8. ASSUME NEW w \in Worker, SyncExport(w)
      PROVE  \A v \in Worker : JobWhole(e, job'[v])
  <2> DEFINE m == job[w].manifest
             d == Select(m, job[w].wanted)
             j == IF Unchanged(m) THEN Applying(w, d) ELSE Idle
  <2>1. job[w] \in SyncJob /\ JobSound(log, Host[w], job[w]) /\ Whole(e, job[w].wanted)
    BY <1>1, <1>2, <1>8, JobKinds DEF SyncExport, IInv, JobWhole
  <2>2. m \in Delta /\ Accounts(log, m, {})
    BY <1>8, <2>1 DEF SyncExport, SyncJob, JobSound
  <2>3. \A i \in 1 .. Len(m.batches) : Whole(e, m.batches[i])
    BY <1>1, <2>2, SliceWhole
  <2>4. d.batches = [i \in 1 .. Len(m.batches) |-> m.batches[i] \cap job[w].wanted]
    BY <2>2 DEF Select, Delta
  <2>5. Len(d.batches) = Len(m.batches)
    BY <2>2, <2>4, LenProperties DEF Delta
  <2>6. \A i \in 1 .. Len(d.batches) : Whole(e, d.batches[i])
    <3> SUFFICES ASSUME NEW i \in 1 .. Len(m.batches) PROVE Whole(e, d.batches[i])
      BY <2>5
    <3> HIDE DEF m, d
    <3>1. d.batches[i] = m.batches[i] \cap job[w].wanted
      BY <2>4
    <3>2. Whole(e, m.batches[i]) /\ Whole(e, job[w].wanted)
      BY <2>1, <2>3
    <3>3. Whole(e, m.batches[i] \cap job[w].wanted)
      BY <3>2 DEF Whole
    <3>. QED  BY <3>1, <3>3
  <2> HIDE DEF d
  <2>7. JobWhole(e, Applying(w, d))
    BY <2>6 DEF JobWhole, Applying
  <2>8. JobWhole(e, j) /\ job' = [job EXCEPT ![w] = j]
    BY <1>3, <1>8, <2>7 DEF SyncExport, d
  <2> HIDE DEF j
  <2>. QED  BY <2>8, JobsWhole
<1>9. ASSUME NEW w \in Worker, NEW d \in net, ApplyBegin(w, d)
       PROVE  \A v \in Worker : JobWhole(e, job'[v])
  <2>1. d \in Delta /\ Accounts(log, d, {})
    BY <1>2 DEF TypeOK, IInv
  <2>2. \A i \in 1 .. Len(d.batches) : Whole(e, d.batches[i])
    BY <1>1, <2>1, SliceWhole
  <2>3. JobWhole(e, Applying(w, d)) /\ job' = [job EXCEPT ![w] = Applying(w, d)]
    BY <1>9, <2>2 DEF JobWhole, Applying, ApplyBegin
  <2>. QED  BY <2>3, JobsWhole
<1>10. ASSUME NEW w \in Worker, NEW j \in ApplyJob, job[w] \in ApplyJob, j.delta = job[w].delta
       PROVE  JobWhole(e, j)
  BY <1>1, <1>10 DEF JobWhole, ApplyJob
<1>11. ASSUME NEW w \in Worker,
              ApplyAppend(w) \/ ApplyAppended(w) \/ ApplyMaterialize(w) \/ ApplySave(w) \/ Fail(w)
       PROVE  \A v \in Worker : JobWhole(e, job'[v])
  <2>1. job' = [job EXCEPT ![w] = Idle] => \A v \in Worker : JobWhole(e, job'[v])
    BY <1>3, JobsWhole
  <2>2. ASSUME job[w] \in ApplyJob, NEW j \in ApplyJob, j.delta = job[w].delta,
               job' = [job EXCEPT ![w] = j]
        PROVE  \A v \in Worker : JobWhole(e, job'[v])
    BY <1>10, <2>2, JobsWhole
  <2>3. CASE ApplyAppend(w)
    <3> DEFINE j == [job[w] EXCEPT !.next = job[w].next + 1]
    <3>1. job[w] \in ApplyJob
      BY <2>3, ApplyJobFacts DEF ApplyAppend
    <3>2. j \in ApplyJob /\ j.delta = job[w].delta
      BY <3>1 DEF ApplyJob
    <3>3. job' = [job EXCEPT ![w] = Idle] \/ job' = [job EXCEPT ![w] = j]
      BY <2>3, <3>1 DEF ApplyAppend
    <3> HIDE DEF j
    <3>. QED  BY <2>1, <2>2, <3>1, <3>2, <3>3
  <2>4. CASE ApplyAppended(w)
    <3> DEFINE j == [job[w] EXCEPT !.phase = IF OpsOf(job[w].delta.batches) = {}
                                             THEN "save" ELSE "materialize"]
    <3>1. job[w] \in ApplyJob
      BY <2>4, ApplyJobFacts DEF ApplyAppended
    <3>2. j \in ApplyJob /\ j.delta = job[w].delta
      BY <3>1 DEF ApplyJob
    <3>3. job' = [job EXCEPT ![w] = j]
      BY <2>4 DEF ApplyAppended
    <3> HIDE DEF j
    <3>. QED  BY <2>2, <3>1, <3>2, <3>3
  <2>5. CASE ApplyMaterialize(w)
    <3> DEFINE j == [job[w] EXCEPT !.phase = "save"]
    <3>1. job[w] \in ApplyJob
      BY <2>5, ApplyJobFacts DEF ApplyMaterialize
    <3>2. j \in ApplyJob /\ j.delta = job[w].delta
      BY <3>1 DEF ApplyJob
    <3>3. job' = [job EXCEPT ![w] = Idle] \/ job' = [job EXCEPT ![w] = j]
      BY <2>5, <3>1 DEF ApplyMaterialize
    <3> HIDE DEF j
    <3>. QED  BY <2>1, <2>2, <3>1, <3>2, <3>3
  <2>6. CASE ApplySave(w) \/ Fail(w)
    BY <2>1, <2>6 DEF ApplySave, Fail
  <2>. QED  BY <1>11, <2>3, <2>4, <2>5, <2>6
<1>12. CASE Application
  BY <1>4, <1>12 DEF Application, Commit, MergeFrom, ResetProgress, Export
<1>13. CASE UNCHANGED vars
  BY <1>4, <1>13 DEF vars
<1>. QED
  BY <1>5, <1>6, <1>7, <1>8, <1>9, <1>11, <1>12, <1>13 DEF Next, Sync, Apply

(* An event that shares no operation with another is visible whole or not  *)
(* at all at every replica: neither page boundaries, nor filters, nor      *)
(* failures between batches, nor merges of logs loaded earlier split it.   *)
THEOREM EventsAtomic == Spec => []EventAtomic
<1>1. Init => IInv /\ WholeInv
  <2>1. Init => WholeInv
    BY DEF Init, WholeInv, StreamsWhole, JobWhole, Idle
  <2>. QED  BY <2>1, Initially
<1>2. IInv /\ WholeInv /\ [Next]_vars => IInv' /\ WholeInv'
  <2> SUFFICES ASSUME IInv, WholeInv, [Next]_vars PROVE IInv' /\ WholeInv'
    OBVIOUS
  <2>1. ASSUME NEW e \in Event, Isolated(e)
        PROVE  StreamsWhole(e, log') /\ \A w \in Worker : JobWhole(e, job'[w])
    BY <2>1, StreamsWholeStep, JobsWholeStep
  <2>. QED  BY <2>1, Inductive DEF WholeInv
<1>3. WholeInv => EventAtomic
  <2> SUFFICES ASSUME WholeInv, NEW e \in Event, Isolated(e), NEW r \in Replica
               PROVE  e \subseteq Known(r) \/ e \cap Known(r) = {}
    BY DEF EventAtomic, Isolated
  <2>1. Whole(e, Known(r))
    BY WholeUnion DEF WholeInv, StreamsWhole, Known
  <2>. QED  BY <2>1 DEF Whole
<1>. QED  BY <1>1, <1>2, <1>3, PTL DEF Spec

-------------------------------------------------------------------------------
(* Page sizes count operations, so they only order the ends of a page when *)
(* batches are finite and, as StoredOnce says, new and not empty.          *)
FiniteStored == \A r \in Replica : \A i \in 1 .. Len(log[r]) : IsFiniteSet(log[r][i])

(* A part of a stream holds finitely many operations.                      *)
LEMMA BetweenFinite ==
  ASSUME FiniteStored, log \in [Replica -> Stream], NEW p \in Replica,
         NEW from \in Nat, NEW to \in Nat, to <= Len(log[p])
  PROVE  IsFiniteSet(Between(p, from, to))
<1> DEFINE I == (from + 1) .. to
           S == {log[p][i] : i \in I}
           f == [i \in I |-> log[p][i]]
<1>1. IsFiniteSet(I)
  BY FS_Interval
<1>2. f \in Surjection(I, S)
  BY DEF Surjection
<1>3. IsFiniteSet(S)
  BY <1>1, <1>2, FS_Surjection
<1>4. \A T \in S : IsFiniteSet(T)
  <2>1. Len(log[p]) \in Nat
    BY DEF Stream
  <2>. QED  BY <2>1 DEF FiniteStored
<1> HIDE DEF S
<1>5. IsFiniteSet(UNION S)
  BY <1>3, <1>4, FS_UNION
<1>. QED  BY <1>5 DEF S, Between

(* Every step keeps streams of finite batches.                             *)
LEMMA FiniteStep ==
  ASSUME IInv, FiniteStored, [Next]_vars
  PROVE  FiniteStored'
<1>1. log \in [Replica -> Stream]
  BY DEF IInv, TypeOK, Stream
<1>2. ASSUME NEW r \in Replica, NEW ops \in SUBSET Op, Stores(r, ops), IsFiniteSet(ops)
      PROVE  FiniteStored'
  <2> DEFINE s == log[r]
             t == Extended(s, ops)
  <2>1. s \in Stream /\ \A i \in 1 .. Len(s) : IsFiniteSet(s[i])
    BY <1>1 DEF FiniteStored
  <2>2. \/ t = s
        \/ /\ Len(s) \in Nat /\ Len(t) = Len(s) + 1
           /\ \A i \in 1 .. Len(s) : t[i] = s[i]
           /\ t[Len(s) + 1] = ops \ OpsOf(s)
    BY <2>1, ExtendedNew
  <2>3. IsFiniteSet(ops \ OpsOf(s))
    BY <1>2, FS_Difference
  <2>4. log'[r] = t /\ \A q \in Replica : q # r => log'[q] = log[q]
    BY <1>1, <1>2 DEF Stores
  <2> HIDE DEF s, t
  <2>5. \A i \in 1 .. Len(t) : IsFiniteSet(t[i])
    <3>1. CASE t = s
      BY <2>1, <3>1
    <3>2. CASE t # s
      <4>1. \A i \in 1 .. Len(t) : i \in 1 .. Len(s) \/ i = Len(s) + 1
        BY <2>2, <3>2
      <4>. QED  BY <2>1, <2>2, <2>3, <3>2, <4>1
    <3>. QED  BY <3>1, <3>2
  <2>. QED  BY <2>4, <2>5 DEF FiniteStored
<1>3. ASSUME NEW event \in Event
      PROVE  event \in SUBSET Op /\ IsFiniteSet(event)
  BY StepOps, EventsFinite
<1>4. ASSUME NEW p \in Replica, NEW n \in 1 .. Len(log[p])
      PROVE  Between(p, 0, n) \in SUBSET Op /\ IsFiniteSet(Between(p, 0, n))
  <2>1. n \in Nat /\ n <= Len(log[p])
    BY <1>1 DEF Stream
  <2>. QED  BY <1>1, <2>1, StepOps, BetweenFinite
<1>5. ASSUME NEW w \in Worker, job[w].phase = "append",
             job[w].next \in 1 .. Len(job[w].delta.batches)
      PROVE  /\ Host[w] \in Replica
             /\ job[w].delta.batches[job[w].next] \in SUBSET Op
             /\ IsFiniteSet(job[w].delta.batches[job[w].next])
  <2> DEFINE d == job[w].delta
             i == job[w].next
  <2>1. /\ d \in Delta /\ d.sender \in Replica /\ i \in Nat \ {0}
        /\ Accounts(log, d, OpsOf(log[Host[w]]))
    BY <1>5, ApplyJobFacts DEF JobSound
  <2>2. /\ d.before \in Nat /\ d.after \in Nat /\ Len(d.batches) \in Nat
        /\ Len(log[d.sender]) \in Nat
    BY <1>1, <2>1 DEF Delta, Stream
  <2>3. i \in 1 .. Len(d.batches)
    BY <1>5
  <2>4. Len(d.batches) = d.after - d.before /\ d.after <= Len(log[d.sender])
    BY <2>1 DEF Accounts
  <2>5. d.batches[i] \subseteq log[d.sender][d.before + i]
    BY <2>1, <2>3 DEF Accounts
  <2>6. IsFiniteSet(log[d.sender][d.before + i])
    <3>1. \A a, b, k, l, n \in Nat :
            k \in 1 .. l /\ l = b - a /\ b <= n => a + k \in 1 .. n
      OBVIOUS
    <3>2. i \in Nat
      BY <2>1
    <3>3. d.before + i \in 1 .. Len(log[d.sender])
      <4> HIDE DEF d, i
      <4>. QED  BY <2>2, <2>3, <2>4, <3>1, <3>2
    <3>. QED  BY <2>1, <3>3 DEF FiniteStored
  <2>. QED  BY <1>5, <2>5, <2>6, StepOps, FS_Subset
<1>6. CASE log' = log
  BY <1>6 DEF FiniteStored
<1>. QED  BY <1>2, <1>3, <1>4, <1>5, <1>6, LogStep

(* A longer page holds more operations.                                    *)
LEMMA PageGrows ==
  ASSUME FiniteStored, StoredOnce, log \in [Replica -> Stream], NEW p \in Replica,
         NEW from \in Nat, NEW i \in Nat, NEW to \in Nat,
         from <= i, i < to, to <= Len(log[p])
  PROVE  /\ PageSize(p, from, i) \in Nat /\ PageSize(p, from, to) \in Nat
         /\ PageSize(p, from, i) < PageSize(p, from, to)
<1> DEFINE A == Between(p, from, i)
           B == Between(p, from, to)
<1>1. Len(log[p]) \in Nat
  BY DEF Stream
<1>2. IsFiniteSet(A) /\ IsFiniteSet(B)
  BY <1>1, BetweenFinite
<1>3. A \subseteq B
  <2>1. (from + 1) .. i \subseteq (from + 1) .. to
    OBVIOUS
  <2>. QED  BY <2>1 DEF Between
<1>4. \E o \in B : o \notin A
  <2>1. i + 1 \in 1 .. Len(log[p]) /\ i + 1 \in (from + 1) .. to
    BY <1>1
  <2>2. PICK o \in log[p][i + 1] : TRUE
    BY <2>1 DEF StoredOnce
  <2>3. o \in B
    BY <2>1, <2>2 DEF Between
  <2>4. ASSUME o \in A PROVE FALSE
    <3>1. PICK k \in (from + 1) .. i : o \in log[p][k]
      BY <2>4 DEF Between
    <3>2. k \in 1 .. Len(log[p]) /\ k # i + 1
      BY <1>1, <3>1
    <3>. QED  BY <2>1, <2>2, <3>1, <3>2 DEF StoredOnce
  <2>. QED  BY <2>3, <2>4
<1> HIDE DEF A, B
<1>5. Cardinality(A) \in Nat /\ Cardinality(B) \in Nat /\ Cardinality(A) < Cardinality(B)
  <2>1. Cardinality(A) \in Nat /\ Cardinality(B) \in Nat
    BY <1>2, FS_CardinalityType
  <2>2. Cardinality(A) <= Cardinality(B) /\ (Cardinality(B) = Cardinality(A) => B = A)
    BY <1>2, <1>3, FS_Subset
  <2>. QED  BY <1>4, <2>1, <2>2
<1>. QED  BY <1>5 DEF PageSize, A, B

(* The operations of a delta that leaves nothing out are those between its *)
(* cursors, and the delta is that slice still.                             *)
LEMMA SliceKept ==
  ASSUME log \in [Replica -> Stream], NEW d \in Delta, Accounts(log, d, {})
  PROVE  /\ OpsOf(d.batches) = Between(d.sender, d.before, d.after)
         /\ d = Slice(d.sender, d.before, d.after)
<1> DEFINE s == d.sender
           n == d.after - d.before
           b == d.batches
<1>1. s \in Replica /\ d.before \in Nat /\ d.after \in Nat /\ b \in Seq(SUBSET Op)
  BY DEF Delta
<1>2. d.before <= d.after /\ Len(b) = n /\ n \in Nat
  BY <1>1 DEF Accounts
<1>3. \A i \in 1 .. n : b[i] = log[s][d.before + i]
  <2>1. \A i \in 1 .. Len(b) : /\ b[i] \subseteq log[s][d.before + i]
                               /\ log[s][d.before + i] \subseteq b[i] \cup {}
    BY DEF Accounts
  <2> SUFFICES ASSUME NEW i \in 1 .. n PROVE b[i] = log[s][d.before + i]
    OBVIOUS
  <2>2. b[i] \subseteq log[s][d.before + i] /\ log[s][d.before + i] \subseteq b[i]
    BY <1>2, <2>1
  <2>. QED  BY <2>2
<1>4. b = [i \in 1 .. n |-> log[s][d.before + i]]
  <2>1. b = [i \in 1 .. n |-> b[i]]
    BY <1>1, <1>2, LenProperties
  <2>. QED  BY <1>3, <2>1
<1>5. d = Slice(s, d.before, d.after)
  <2>1. d = [sender |-> s, before |-> d.before, after |-> d.after, batches |-> b]
    BY DEF Delta
  <2> HIDE DEF b, n, s
  <2>. QED  BY <1>4, <2>1 DEF Slice, n
<1>6. OpsOf(b) = Between(s, d.before, d.after)
  <2>1. ASSUME NEW o \in OpsOf(b) PROVE o \in Between(s, d.before, d.after)
    <3>1. PICK i \in 1 .. n : o \in b[i]
      BY <1>2 DEF OpsOf
    <3>2. d.before + i \in (d.before + 1) .. d.after
      BY <1>1
    <3>. QED  BY <1>3, <3>1, <3>2 DEF Between
  <2>2. ASSUME NEW o \in Between(s, d.before, d.after) PROVE o \in OpsOf(b)
    <3>1. PICK k \in (d.before + 1) .. d.after : o \in log[s][k]
      BY DEF Between
    <3>2. k - d.before \in 1 .. n /\ d.before + (k - d.before) = k
      BY <1>1
    <3>. QED  BY <1>2, <1>3, <3>1, <3>2 DEF OpsOf
  <2>. QED  BY <2>1, <2>2
<1>. QED  BY <1>5, <1>6

(* The page of as many operations as the manifest lists ends where the     *)
(* manifest ends, whatever was appended since.                             *)
LEMMA ManifestKept ==
  ASSUME IInv, StoredOnce, FiniteStored
  PROVE  ManifestStable
<1> SUFFICES ASSUME NEW w \in Worker, job[w].phase = "export",
                    OpsOf(job[w].manifest.batches) # {}
             PROVE  /\ IsPage(job[w].manifest.sender, job[w].manifest.before,
                              job[w].manifest.after,
                              Cardinality(OpsOf(job[w].manifest.batches)))
                    /\ job[w].manifest = Slice(job[w].manifest.sender,
                                               job[w].manifest.before, job[w].manifest.after)
  BY DEF ManifestStable, Unchanged
<1> DEFINE m == job[w].manifest
           s == m.sender
           n == Cardinality(OpsOf(m.batches))
<1>1. log \in [Replica -> Stream] /\ TypeOK
  BY DEF IInv, TypeOK, Stream
<1>2. m \in Delta /\ Accounts(log, m, {})
  BY <1>1, JobKinds DEF SyncJob, IInv, JobSound
<1>3. /\ s \in Replica /\ m.before \in Nat /\ m.after \in Nat
      /\ m.before <= m.after /\ m.after <= Len(log[s]) /\ Len(log[s]) \in Nat
  BY <1>1, <1>2 DEF Delta, Accounts, Stream
<1>4. /\ OpsOf(m.batches) = Between(s, m.before, m.after)
      /\ m = Slice(s, m.before, m.after)
  BY <1>1, <1>2, SliceKept
<1> HIDE DEF m, s
<1>5. n = PageSize(s, m.before, m.after)
  BY <1>4 DEF PageSize
<1>6. m.before < m.after
  <2>1. Between(s, m.before, m.after) # {}
    BY <1>4 DEF m
  <2>. QED  BY <1>3, <2>1 DEF Between
<1>7. n \in Nat /\ n # 0
  <2>1. /\ PageSize(s, m.before, m.before) \in Nat
        /\ PageSize(s, m.before, m.before) < PageSize(s, m.before, m.after)
        /\ PageSize(s, m.before, m.after) \in Nat
    BY <1>1, <1>3, <1>6, PageGrows
  <2>. QED  BY <1>5, <2>1
<1>8. \A i \in (m.before + 1) .. (m.after - 1) : PageSize(s, m.before, i) < n
  BY <1>1, <1>3, <1>5, PageGrows
<1>9. IsPage(s, m.before, m.after, n)
  BY <1>3, <1>5, <1>6, <1>7, <1>8 DEF IsPage
<1>. QED  BY <1>4, <1>9 DEF m, s

(* sync_from never finds the stream changed between the manifest and the   *)
(* payload read, although the peer goes on committing and receiving: the   *)
(* error replica slice changed cannot be raised by an append.              *)
THEOREM ManifestsStable == Spec => []ManifestStable
<1>1. Init => IInv /\ StoredOnce /\ FiniteStored
  <2>1. Init => FiniteStored
    BY DEF Init, FiniteStored
  <2>. QED  BY <2>1, Initially, StoredOnceInit
<1>2. IInv /\ StoredOnce /\ FiniteStored /\ [Next]_vars
        => IInv' /\ StoredOnce' /\ FiniteStored'
  BY Inductive, StoredOnceStep, FiniteStep
<1>. QED  BY <1>1, <1>2, ManifestKept, PTL DEF Spec

-------------------------------------------------------------------------------
(* With one worker per replica, nobody else records progress between the   *)
(* moment a call loads it and the moment the call saves it: what is        *)
(* recorded is at most what was loaded, unless it was reset.               *)
OneWorkerEach == \A v, w \in Worker : Host[v] = Host[w] => v = w

Busy(j) == j.phase \in {"append", "materialize", "save"}

SeenInv ==
  \A w \in Worker :
    Busy(job[w]) => Covered(progress[Host[w]][job[w].delta.sender]) \subseteq Covered(job[w].seen)

(* Progress changes by a reset and by a save and by nothing else.          *)
LEMMA ProgressStep ==
  ASSUME [Next]_vars
  PROVE  \/ progress' = progress
         \/ \E r, p \in Replica : ResetProgress(r, p)
         \/ \E w \in Worker : ApplySave(w)
<1>1. CASE Application
  BY <1>1 DEF Application, Commit, MergeFrom, Export
<1>2. ASSUME NEW w \in Worker, Sync(w) \/ Fail(w)
      PROVE  progress' = progress
  BY <1>2 DEF Sync, SyncBegin, Manifest, SyncManifest, SyncFilter, SyncExport, Fail
<1>3. ASSUME NEW w \in Worker, Apply(w), ~ ApplySave(w)
      PROVE  progress' = progress
  BY <1>3 DEF Apply, ApplyBegin, ApplyAppend, ApplyAppended, ApplyMaterialize
<1>. QED  BY <1>1, <1>2, <1>3 DEF Next, vars

(* A call that is applying a delta entered with the progress of that       *)
(* moment, or was applying the same delta before.                          *)
Carries(w, j) ==
  Busy(j) => \/ Busy(job[w]) /\ j.delta = job[w].delta /\ j.seen = job[w].seen
             \/ progress' = progress /\ j.seen = progress[Host[w]][j.delta.sender]

(* One worker whose new job carries what it carried, or what is stored now,*)
(* leaves the jobs of the others as they are.                              *)
LEMMA JobCarries ==
  ASSUME TypeOK, NEW w \in Worker, NEW j, job' = [job EXCEPT ![w] = j], Carries(w, j)
  PROVE  \A v \in Worker : Carries(v, job'[v])
BY DEF TypeOK, Carries

(* In every step a worker goes on with the progress it has read or reads   *)
(* the one that is stored.                                                 *)
LEMMA CarriesStep ==
  ASSUME IInv, [Next]_vars
  PROVE  \A v \in Worker : Carries(v, job'[v])
<1>1. TypeOK
  BY DEF IInv
<1>2. \A w \in Worker : Carries(w, Idle)
  BY DEF Carries, Busy, Idle
<1>3. ASSUME job' = job PROVE \A v \in Worker : Carries(v, job'[v])
  BY <1>3 DEF Carries
<1>4. ASSUME NEW w \in Worker, job' = [job EXCEPT ![w] = Idle]
      PROVE  \A v \in Worker : Carries(v, job'[v])
  BY <1>1, <1>2, <1>4, JobCarries
<1>5. ASSUME NEW w \in Worker, NEW j, ~ Busy(j), job' = [job EXCEPT ![w] = j]
      PROVE  \A v \in Worker : Carries(v, job'[v])
  <2>1. Carries(w, j)
    BY <1>5 DEF Carries
  <2>. QED  BY <1>1, <1>5, <2>1, JobCarries
<1>6. ASSUME NEW w \in Worker, NEW d, job' = [job EXCEPT ![w] = Applying(w, d)],
             progress' = progress
      PROVE  \A v \in Worker : Carries(v, job'[v])
  <2>1. Carries(w, Applying(w, d))
    BY <1>6 DEF Carries, Applying
  <2>. QED  BY <1>1, <1>6, <2>1, JobCarries
<1>7. ASSUME NEW w \in Worker, Busy(job[w]), NEW j, j.delta = job[w].delta,
             j.seen = job[w].seen, job' = [job EXCEPT ![w] = j]
      PROVE  \A v \in Worker : Carries(v, job'[v])
  <2>1. Carries(w, j)
    BY <1>7 DEF Carries
  <2>. QED  BY <1>1, <1>7, <2>1, JobCarries
<1>8. ASSUME NEW w \in Worker, Sync(w)
      PROVE  \A v \in Worker : Carries(v, job'[v])
  <2>1. ASSUME NEW p \in Replica, SyncBegin(w, p)
        PROVE  \A v \in Worker : Carries(v, job'[v])
    <3> DEFINE j == [phase |-> "manifest", peer |-> p, from |-> progress[Host[w]][p].cursor]
    <3>1. ~ Busy(j) /\ job' = [job EXCEPT ![w] = j]
      BY <2>1 DEF SyncBegin, Busy
    <3> HIDE DEF j
    <3>. QED  BY <1>5, <3>1
  <2>2. ASSUME NEW to, NEW limit, SyncManifest(w, to, limit)
        PROVE  \A v \in Worker : Carries(v, job'[v])
    <3> DEFINE j == [phase |-> "filter", wanted |-> {},
                     manifest |-> Slice(job[w].peer, job[w].from, to)]
    <3>1. ~ Busy(j) /\ job' = [job EXCEPT ![w] = j]
      BY <2>2 DEF SyncManifest, Busy
    <3> HIDE DEF j
    <3>. QED  BY <1>5, <3>1
  <2>3. CASE SyncFilter(w)
    <3> DEFINE listed == OpsOf(job[w].manifest.batches)
               k == [phase |-> "export", manifest |-> job[w].manifest,
                     wanted |-> listed \ Known(Host[w])]
               j == IF Collides(listed, Known(Host[w])) THEN Idle ELSE k
    <3>1. ~ Busy(k) /\ ~ Busy(Idle)
      BY DEF Busy, Idle
    <3>2. ~ Busy(j) /\ job' = [job EXCEPT ![w] = j]
      BY <2>3, <3>1 DEF SyncFilter
    <3> HIDE DEF j
    <3>. QED  BY <1>5, <3>2
  <2>4. CASE SyncExport(w)
    <3>1. progress' = progress
      BY <2>4 DEF SyncExport
    <3>2. \/ job' = [job EXCEPT ![w] = Idle]
          \/ job' = [job EXCEPT ![w] = Applying(w, Select(job[w].manifest, job[w].wanted))]
      BY <2>4 DEF SyncExport
    <3>. QED  BY <1>4, <1>6, <3>1, <3>2
  <2>. QED  BY <1>8, <2>1, <2>2, <2>3, <2>4 DEF Sync, Manifest
<1>9. ASSUME NEW w \in Worker, Apply(w)
      PROVE  \A v \in Worker : Carries(v, job'[v])
  <2>1. ASSUME NEW d \in net, ApplyBegin(w, d)
        PROVE  \A v \in Worker : Carries(v, job'[v])
    BY <1>6, <2>1 DEF ApplyBegin
  <2>2. CASE ApplyAppend(w)
    <3> DEFINE j == [job[w] EXCEPT !.next = job[w].next + 1]
    <3>1. job[w] \in ApplyJob /\ Busy(job[w])
      BY <2>2, ApplyJobFacts DEF ApplyAppend, Busy
    <3>2. j.delta = job[w].delta /\ j.seen = job[w].seen
      BY <3>1 DEF ApplyJob
    <3>3. job' = [job EXCEPT ![w] = Idle] \/ job' = [job EXCEPT ![w] = j]
      BY <2>2, <3>1 DEF ApplyAppend
    <3> HIDE DEF j
    <3>. QED  BY <1>4, <1>7, <3>1, <3>2, <3>3
  <2>3. CASE ApplyAppended(w)
    <3> DEFINE j == [job[w] EXCEPT !.phase = IF OpsOf(job[w].delta.batches) = {}
                                             THEN "save" ELSE "materialize"]
    <3>1. job[w] \in ApplyJob /\ Busy(job[w])
      BY <2>3, ApplyJobFacts DEF ApplyAppended, Busy
    <3>2. j.delta = job[w].delta /\ j.seen = job[w].seen
      BY <3>1 DEF ApplyJob
    <3>3. job' = [job EXCEPT ![w] = j]
      BY <2>3 DEF ApplyAppended
    <3> HIDE DEF j
    <3>. QED  BY <1>7, <3>1, <3>2, <3>3
  <2>4. CASE ApplyMaterialize(w)
    <3> DEFINE j == [job[w] EXCEPT !.phase = "save"]
    <3>1. job[w] \in ApplyJob /\ Busy(job[w])
      BY <2>4, ApplyJobFacts DEF ApplyMaterialize, Busy
    <3>2. j.delta = job[w].delta /\ j.seen = job[w].seen
      BY <3>1 DEF ApplyJob
    <3>3. job' = [job EXCEPT ![w] = Idle] \/ job' = [job EXCEPT ![w] = j]
      BY <2>4, <3>1 DEF ApplyMaterialize
    <3> HIDE DEF j
    <3>. QED  BY <1>4, <1>7, <3>1, <3>2, <3>3
  <2>5. CASE ApplySave(w)
    BY <1>4, <2>5 DEF ApplySave
  <2>. QED  BY <1>9, <2>1, <2>2, <2>3, <2>4, <2>5 DEF Apply
<1>10. ASSUME NEW w \in Worker, Fail(w)
       PROVE  \A v \in Worker : Carries(v, job'[v])
  BY <1>4, <1>10 DEF Fail
<1>11. CASE Application
  BY <1>3, <1>11 DEF Application, Commit, MergeFrom, ResetProgress, Export
<1>12. CASE UNCHANGED vars
  BY <1>3, <1>12 DEF vars
<1>. QED  BY <1>8, <1>9, <1>10, <1>11, <1>12 DEF Next

(* Saving an advanced record forgets no batch of the record loaded.        *)
LEMMA SaveKeeps ==
  ASSUME IInv, NEW w \in Worker, ApplySave(w)
  PROVE  /\ progress' = [progress EXCEPT ![Host[w]][job[w].delta.sender] =
                           Advance(job[w].seen, job[w].delta.before, job[w].delta.after)]
         /\ Covered(job[w].seen) \subseteq
              Covered(Advance(job[w].seen, job[w].delta.before, job[w].delta.after))
<1> DEFINE d    == job[w].delta
           seen == job[w].seen
           N    == Len(log[d.sender])
<1>1. /\ d \in Delta /\ d.sender \in Replica /\ log \in [Replica -> Stream]
      /\ seen \in ReplicaProgress /\ JobSound(log, Host[w], job[w])
  BY ApplyJobFacts DEF ApplySave
<1>2. Accounts(log, d, OpsOf(log[Host[w]])) /\ Sound(log, seen, Host[w], d.sender)
  BY <1>1 DEF JobSound, ApplySave
<1>3. N \in Nat /\ d.before \in Nat /\ d.after \in Nat /\ d.before <= d.after /\ d.after <= N
  BY <1>1, <1>2 DEF Delta, Stream, Accounts
<1>4. \A r \in seen.pending : r[2] <= N
  <2> SUFFICES ASSUME NEW r \in seen.pending PROVE r[2] <= N
    OBVIOUS
  <2>1. r[1] \in Nat /\ r[2] \in Nat /\ r[1] < r[2]
    BY <1>1 DEF ReplicaProgress, CursorRange
  <2>2. r[2] \in (r[1] + 1) .. r[2]
    BY <2>1
  <2>3. r[2] \in Covered(seen)
    BY <2>2 DEF Covered, Batches
  <2>. QED  BY <1>2, <1>3, <2>3 DEF Sound
<1>5. Covered(seen) \cup (d.before + 1) .. d.after \subseteq Covered(Advance(seen, d.before, d.after))
  BY <1>1, <1>3, <1>4, AdvanceKeeps
<1>. QED  BY <1>5 DEF ApplySave

(* With one worker per replica every step keeps what each worker has read  *)
(* no older than what is stored.                                           *)
LEMMA SeenStep ==
  ASSUME OneWorkerEach, IInv, SeenInv, [Next]_vars
  PROVE  SeenInv'
<1> SUFFICES ASSUME NEW w \in Worker, Busy(job'[w])
             PROVE  Covered(progress'[Host[w]][job'[w].delta.sender]) \subseteq Covered(job'[w].seen)
  BY DEF SeenInv, Busy
<1>1. Carries(w, job'[w])
  BY CarriesStep
<1>2. CASE progress' = progress /\ job'[w].seen = progress[Host[w]][job'[w].delta.sender]
  BY <1>2
<1>3. CASE Busy(job[w]) /\ job'[w].delta = job[w].delta /\ job'[w].seen = job[w].seen
  <2>1. Covered(progress[Host[w]][job[w].delta.sender]) \subseteq Covered(job[w].seen)
    BY <1>3 DEF SeenInv
  <2>2. CASE progress' = progress
    BY <1>3, <2>1, <2>2
  <2>3. ASSUME NEW r \in Replica, NEW p \in Replica, ResetProgress(r, p)
        PROVE  Covered(progress'[Host[w]][job'[w].delta.sender]) \subseteq Covered(job'[w].seen)
    <3>1. Covered(NoProgress) = {}
      BY DEF NoProgress, Covered, Batches
    <3>2. \/ progress'[Host[w]][job[w].delta.sender] = NoProgress
          \/ progress'[Host[w]][job[w].delta.sender] = progress[Host[w]][job[w].delta.sender]
      <4>1. Host[w] \in Replica /\ job[w].delta.sender \in Replica
        BY <1>3, ApplyJobFacts DEF Busy
      <4>. QED  BY <2>3, <4>1 DEF ResetProgress, IInv, TypeOK
    <3>. QED  BY <1>3, <2>1, <3>1, <3>2
  <2>4. ASSUME NEW v \in Worker, ApplySave(v)
        PROVE  Covered(progress'[Host[w]][job'[w].delta.sender]) \subseteq Covered(job'[w].seen)
    <3>1. v # w
      BY <1>3, <2>4 DEF ApplySave, Busy, Idle, IInv, TypeOK
    <3>2. Host[v] # Host[w]
      BY <3>1 DEF OneWorkerEach
    <3>3. progress'[Host[w]] = progress[Host[w]]
      BY <2>4, <3>2, SyncAssumption DEF ApplySave, IInv, TypeOK
    <3>. QED  BY <1>3, <2>1, <3>3
  <2>. QED  BY <2>2, <2>3, <2>4, ProgressStep
<1>. QED  BY <1>1, <1>2, <1>3 DEF Carries

(* One worker per replica: whatever old, repeated or overlapping deltas it *)
(* applies, a batch once recorded as received stays recorded until the     *)
(* progress is reset.                                                      *)
THEOREM ProgressKept ==
  ASSUME OneWorkerEach
  PROVE  Spec => ProgressMonotone
<1>1. Init => IInv /\ SeenInv
  <2>1. Init => SeenInv
    BY DEF Init, SeenInv, Busy, Idle
  <2>. QED  BY <2>1, Initially
<1>2. IInv /\ SeenInv /\ [Next]_vars => IInv' /\ SeenInv'
  BY Inductive, SeenStep
<1>3. IInv /\ SeenInv /\ [Next]_vars =>
        [\A r, p \in Replica :
           Covered(progress[r][p]) \subseteq Covered(progress[r][p])' \/ resets' # resets]_vars
  <2> SUFFICES ASSUME IInv, SeenInv, [Next]_vars, NEW r \in Replica, NEW p \in Replica
               PROVE  Covered(progress[r][p]) \subseteq Covered(progress'[r][p]) \/ resets' # resets
    BY DEF Covered
  <2>1. CASE progress' = progress
    BY <2>1
  <2>2. ASSUME NEW s \in Replica, NEW q \in Replica, ResetProgress(s, q)
        PROVE  resets' # resets
    BY <2>2, SyncAssumption DEF ResetProgress, IInv, TypeOK
  <2>3. ASSUME NEW w \in Worker, ApplySave(w)
        PROVE  Covered(progress[r][p]) \subseteq Covered(progress'[r][p])
    <3> DEFINE d   == job[w].delta
               new == Advance(job[w].seen, d.before, d.after)
    <3>1. progress' = [progress EXCEPT ![Host[w]][d.sender] = new]
      BY <2>3, SaveKeeps
    <3>2. Covered(job[w].seen) \subseteq Covered(new)
      BY <2>3, SaveKeeps
    <3>3. Covered(progress[Host[w]][d.sender]) \subseteq Covered(job[w].seen)
      BY <2>3 DEF SeenInv, Busy, ApplySave
    <3> HIDE DEF d, new
    <3>4. CASE r = Host[w] /\ p = d.sender
      <4>1. progress'[r][p] = new
        BY <3>1, <3>4 DEF IInv, TypeOK
      <4>. QED  BY <3>2, <3>3, <3>4, <4>1
    <3>5. CASE ~ (r = Host[w] /\ p = d.sender)
      <4>1. progress'[r][p] = progress[r][p]
        BY <3>1, <3>5 DEF IInv, TypeOK
      <4>. QED  BY <4>1
    <3>. QED  BY <3>4, <3>5
  <2>. QED  BY <2>1, <2>2, <2>3, ProgressStep
<1>. QED  BY <1>1, <1>2, <1>3, PTL DEF Spec, ProgressMonotone

================================================================================
