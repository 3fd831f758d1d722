---------------------------- MODULE JsonlStoreProofs ----------------------------
(***************************************************************************)
(* The JSONL file keeps what append_many promises, wherever its writer     *)
(* crashes and whenever it is read: the inductive invariant and its proof, *)
(* for any operations, events, read limits and number of crashes.          *)
(***************************************************************************)
EXTENDS JsonlStore, SequenceTheorems, TLAPS

(* What a writer adds is not in the file yet.                              *)
Unwritten == writer.phase \in {"boundary", "fragment", "payload"}

(* How far the writer has come, seen in the file: it adds a line only      *)
(* after a complete one, fills in the line it has added, and what it is    *)
(* about to write is exactly what the file lacks.                          *)
WriterSound ==
  /\ writer.phase = "fragment" => Readable = Len(file)
  /\ writer.phase \in {"payload", "newline"} => Len(file) > 0 /\ Readable = Len(file) - 1
  /\ writer.phase = "payload" => file[Len(file)].ops = {}
  /\ writer.phase = "newline" => writer.ops \subseteq Visible
  /\ Unwritten => /\ writer.added \cap Visible = {}
                  /\ writer.ops \subseteq writer.added \cup Visible

(* The reader has not read the line that is still open.                    *)
ReaderSound == cursor <= Readable /\ ReaderMissesNothing

(* What a step may do to the file: complete at most one line, and write    *)
(* nothing but what append_many is adding.                                 *)
FileStep ==
  /\ Readable' = Readable \/ Readable' = Readable + 1
  /\ \A i \in 1 .. Readable : file'[i].ops = file[i].ops
  /\ \A i \in 1 .. Len(file') :
       \/ file'[i].ops = {}
       \/ i \in 1 .. Len(file) /\ file'[i].ops = file[i].ops
       \/ Unwritten /\ file'[i].ops = writer.added

JInv == TypeOK /\ WriterSound /\ StoredOnce /\ AcceptedStays /\ ReaderSound

-------------------------------------------------------------------------------
(* The facts about the file that the steps rest on.                        *)
LEMMA FileFacts ==
  ASSUME TypeOK
  PROVE  /\ Len(file) \in Nat /\ Readable \in Nat /\ Readable <= Len(file)
         /\ (file = <<>> <=> Len(file) = 0)
         /\ Len(file) > 0 => Readable = IF file[Len(file)].ended THEN Len(file) ELSE Len(file) - 1
         /\ Len(file) = 0 => Readable = 0
         /\ \A i \in 1 .. Len(file) : file[i] \in Line
<1>1. file \in Seq(Line) /\ Len(file) \in Nat
  BY DEF TypeOK
<1>2. file = <<>> <=> Len(file) = 0
  BY <1>1, EmptySeq
<1>3. \A i \in 1 .. Len(file) : file[i] \in Line
  BY <1>1
<1>. QED  BY <1>1, <1>2, <1>3 DEF Readable

(* The record of a writer that is not idle has the parts of an appending   *)
(* one.                                                                    *)
LEMMA LineKinds ==
  ASSUME TypeOK
  PROVE  /\ writer.phase # "idle" => writer \in Appending
         /\ writer = Idle => writer.phase = "idle"
BY DEF TypeOK, Idle, Appending

(* The last line is replaced.                                              *)
LEMMA Replaced ==
  ASSUME NEW s \in Seq(Line), Len(s) > 0, NEW line \in Line
  PROVE  LET t == [s EXCEPT ![Len(s)] = line]
         IN  /\ t \in Seq(Line) /\ Len(t) = Len(s)
             /\ t[Len(s)] = line
             /\ \A i \in 1 .. Len(s) : i # Len(s) => t[i] = s[i]
<1>1. Len(s) \in Nat /\ Len(s) \in 1 .. Len(s)
  OBVIOUS
<1>. QED  BY <1>1, ExceptSeq

(* A line is added.                                                        *)
LEMMA Added ==
  ASSUME NEW s \in Seq(Line), NEW line \in Line
  PROVE  LET t == Append(s, line)
         IN  /\ t \in Seq(Line) /\ Len(t) = Len(s) + 1
             /\ t[Len(s) + 1] = line
             /\ \A i \in 1 .. Len(s) : t[i] = s[i]
OBVIOUS

(* What the first k lines of a file hold.                                  *)
Upto(L, k) == UNION {L[i].ops : i \in 1 .. k}

(* What a reader sees from the start of the file are its first lines.      *)
LEMMA BetweenUpto ==
  /\ \A k : Between(0, k) = Upto(file, k) /\ Between(0, k)' = Upto(file', k)
  /\ Visible = Upto(file, Len(file)) /\ Visible' = Upto(file', Len(file'))
<1>1. (0 + 1) = 1
  OBVIOUS
<1>. QED  BY <1>1 DEF Between, Upto, Visible

(* Lines with the same operations show the same.                           *)
LEMMA UptoSame ==
  ASSUME NEW L, NEW M, NEW k, \A i \in 1 .. k : M[i].ops = L[i].ops
  PROVE  Upto(M, k) = Upto(L, k)
BY DEF Upto

(* One line more shows its operations more.                                *)
LEMMA UptoNext ==
  ASSUME NEW L, NEW k \in Nat
  PROVE  Upto(L, k + 1) = Upto(L, k) \cup L[k + 1].ops
<1>1. \A i : i \in 1 .. (k + 1) <=> i \in 1 .. k \/ i = k + 1
  OBVIOUS
<1>. QED  BY <1>1 DEF Upto

(* Two pages that meet are one.                                            *)
LEMMA BetweenJoined ==
  ASSUME NEW n \in Nat, NEW to \in Nat, n <= to
  PROVE  Between(0, to) = Between(0, n) \cup Between(n, to)
<1>1. \A i : i \in (0 + 1) .. to <=> i \in (0 + 1) .. n \/ i \in (n + 1) .. to
  OBVIOUS
<1>. QED  BY <1>1 DEF Between

(* Neither a new line that says nothing yet nor a newline changes what the *)
(* file holds.                                                             *)
LEMMA OpsKept ==
  ASSUME TypeOK,
         \/ Len(file') = Len(file)
         \/ Len(file') = Len(file) + 1 /\ file'[Len(file) + 1].ops = {},
         \A i \in 1 .. Len(file) : file'[i].ops = file[i].ops
  PROVE  /\ Visible' = Visible
         /\ StoredOnce => StoredOnce'
         /\ \A n \in Nat : n <= Len(file) => Between(0, n)' = Between(0, n)
<1> DEFINE n == Len(file)
<1>1. n \in Nat
  BY FileFacts
<1>2. \A k \in Nat : k <= n => Between(0, k)' = Between(0, k)
  <2> SUFFICES ASSUME NEW k \in Nat, k <= n PROVE Between(0, k)' = Between(0, k)
    OBVIOUS
  <2>1. \A i \in 1 .. k : file'[i].ops = file[i].ops
    BY <1>1
  <2>. QED  BY <2>1, UptoSame, BetweenUpto
<1> HIDE DEF n
<1>3. CASE Len(file') = n
  <2>1. Visible' = Visible
    BY <1>1, <1>2, <1>3 DEF Visible, n
  <2>2. StoredOnce => StoredOnce'
    BY <1>3 DEF StoredOnce, n
  <2>. QED  BY <1>2, <2>1, <2>2 DEF n
<1>4. CASE Len(file') = n + 1 /\ file'[n + 1].ops = {}
  <2>1. Visible' = Visible
    <3>1. Visible' = Upto(file', n) \cup {} /\ Visible = Upto(file, n)
      BY <1>1, <1>4, UptoNext, BetweenUpto DEF n
    <3>2. \A i \in 1 .. n : file'[i].ops = file[i].ops
      BY DEF n
    <3>3. Upto(file', n) = Upto(file, n)
      BY <3>2, UptoSame
    <3>. QED  BY <3>1, <3>3
  <2>2. StoredOnce => StoredOnce'
    <3>1. \A i \in 1 .. n + 1 : i \in 1 .. n \/ i = n + 1
      BY <1>1
    <3>. QED  BY <1>4, <3>1 DEF StoredOnce, n
  <2>. QED  BY <1>2, <2>1, <2>2 DEF n
<1>. QED  BY <1>2, <1>3, <1>4 DEF n

(* The cursor never leaves the lines that are complete.                    *)
LEMMA ReaderKept ==
  ASSUME TypeOK, ReaderSound, Readable' \in Nat, Readable <= Readable',
         \A n \in Nat : n <= Readable => Between(0, n)' = Between(0, n),
         UNCHANGED <<cursor, received>>
  PROVE  ReaderSound'
<1>1. cursor \in Nat /\ cursor <= Readable /\ Readable \in Nat
  BY FileFacts DEF TypeOK, ReaderSound
<1>2. Between(0, cursor)' = Between(0, cursor)
  BY <1>1
<1>. QED  BY <1>1, <1>2 DEF ReaderSound, ReaderMissesNothing

-------------------------------------------------------------------------------
(* One lemma per action.                                                   *)
LEMMA AppendManyStep ==
  ASSUME JInv, NEW ops \in Event, AppendMany(ops)
  PROVE  JInv'
<1>1. /\ TypeOK /\ StoredOnce /\ AcceptedStays /\ ReaderSound
      /\ ops \in SUBSET Op /\ writer = Idle /\ writer.phase = "idle"
  BY JsonlAssumption, LineKinds DEF JInv, AppendMany
<1>2. UNCHANGED <<file, cursor, received, crashes>>
  BY DEF AppendMany
<1>3. Visible' = Visible /\ Readable' = Readable /\ StoredOnce' /\ ReaderSound'
  BY <1>1, <1>2 DEF Visible, Readable, Between, StoredOnce, ReaderSound, ReaderMissesNothing
<1>4. CASE Missing(ops) = {}
  <2>1. promised' = promised \cup ops /\ writer' = writer /\ ops \subseteq Visible
    BY <1>4 DEF AppendMany, Missing
  <2>2. TypeOK' /\ AcceptedStays'
    BY <1>1, <1>2, <1>3, <2>1 DEF TypeOK, AcceptedStays
  <2>3. WriterSound'
    BY <1>1, <2>1 DEF WriterSound, Unwritten
  <2>. QED  BY <1>3, <2>2, <2>3 DEF JInv
<1>5. CASE Missing(ops) # {}
  <2>1. /\ writer' = [phase |-> "boundary", ops |-> ops, added |-> Missing(ops)]
        /\ promised' = promised
    BY <1>5 DEF AppendMany
  <2>2. TypeOK' /\ AcceptedStays'
    BY <1>1, <1>2, <1>3, <2>1 DEF TypeOK, AcceptedStays, Appending, Missing
  <2>3. WriterSound'
    BY <1>3, <2>1 DEF WriterSound, Unwritten, Missing
  <2>. QED  BY <1>3, <2>2, <2>3 DEF JInv
<1>. QED  BY <1>4, <1>5

(* To end a torn line keeps the invariant and makes at most that line      *)
(* readable.                                                               *)
LEMMA EnsureLineBoundaryStep ==
  ASSUME JInv, EnsureLineBoundary
  PROVE  JInv' /\ FileStep
<1> DEFINE n == Len(file)
           line == [file[n] EXCEPT !.ended = TRUE]
<1>1. /\ TypeOK /\ StoredOnce /\ AcceptedStays /\ ReaderSound
      /\ writer.phase = "boundary" /\ writer \in Appending
      /\ writer.added \cap Visible = {} /\ writer.ops \subseteq writer.added \cup Visible
  BY LineKinds DEF JInv, WriterSound, Unwritten, EnsureLineBoundary
<1>2. /\ writer' = [writer EXCEPT !.phase = "fragment"]
      /\ UNCHANGED <<promised, cursor, received, crashes>>
  BY DEF EnsureLineBoundary
<1>3. /\ n \in Nat /\ Readable \in Nat /\ Readable <= n /\ file \in Seq(Line)
      /\ \A i \in 1 .. n : file[i] \in Line /\ (file[i].ended \/ i = n)
  BY <1>1, FileFacts DEF TypeOK
<1>4. /\ file' \in Seq(Line) /\ Len(file') = n
      /\ \A i \in 1 .. n : file'[i].ops = file[i].ops /\ file'[i].ended
  <2>1. CASE Readable < n
    <3>1. n > 0 /\ line \in Line /\ line.ops = file[n].ops /\ line.ended
      <4>1. n > 0 /\ n \in 1 .. n
        BY <1>3, <2>1
      <4>2. file[n] \in Line
        BY <1>3, <4>1
      <4>. QED  BY <4>1, <4>2 DEF Line
    <3>2. file' = [file EXCEPT ![n] = line]
      BY <2>1 DEF EnsureLineBoundary
    <3> HIDE DEF line
    <3>3. /\ file' \in Seq(Line) /\ Len(file') = n /\ file'[n] = line
          /\ \A i \in 1 .. n : i # n => file'[i] = file[i]
      BY <1>3, <3>1, <3>2, Replaced
    <3>. QED  BY <1>3, <3>1, <3>3
  <2>2. CASE ~ Readable < n
    <3>1. file' = file
      BY <2>2 DEF EnsureLineBoundary
    <3>2. \A i \in 1 .. n : file[i].ended
      BY <1>1, <1>3, <2>2, FileFacts
    <3>. QED  BY <1>3, <3>1, <3>2
  <2>. QED  BY <2>1, <2>2
<1>5. /\ Visible' = Visible /\ StoredOnce'
      /\ \A k \in Nat : k <= n => Between(0, k)' = Between(0, k)
  BY <1>1, <1>4, OpsKept
<1>6. TypeOK'
  BY <1>1, <1>2, <1>3, <1>4 DEF TypeOK, Appending
<1>7. Readable' = n
  <2>1. n = 0 => file' = <<>>
    BY <1>4, EmptySeq
  <2>2. n # 0 => file'[Len(file')].ended
    BY <1>3, <1>4
  <2>. QED  BY <1>3, <1>4, <2>1, <2>2 DEF Readable
<1>8. WriterSound'
  BY <1>1, <1>2, <1>4, <1>5, <1>7 DEF WriterSound, Unwritten, Appending
<1>9. ReaderSound'
  BY <1>1, <1>2, <1>3, <1>5, <1>7, ReaderKept
<1>10. FileStep
  <2>1. Readable = n \/ Readable + 1 = n
    BY <1>1, <1>3, FileFacts
  <2>2. \A i \in 1 .. Readable : i \in 1 .. n
    BY <1>3
  <2>. QED  BY <1>4, <1>7, <2>1, <2>2 DEF FileStep
<1>. QED  BY <1>1, <1>2, <1>5, <1>6, <1>8, <1>9, <1>10 DEF JInv, AcceptedStays

(* A line begun at the end of the file keeps the invariant; nothing of it  *)
(* is readable.                                                            *)
LEMMA WriteFragmentStep ==
  ASSUME JInv, WriteFragment
  PROVE  JInv' /\ FileStep
<1> DEFINE n == Len(file)
           line == [ops |-> {}, ended |-> FALSE]
<1>1. /\ TypeOK /\ StoredOnce /\ AcceptedStays /\ ReaderSound
      /\ writer.phase = "fragment" /\ writer \in Appending /\ Readable = n
      /\ writer.added \cap Visible = {} /\ writer.ops \subseteq writer.added \cup Visible
  BY LineKinds DEF JInv, WriterSound, Unwritten, WriteFragment
<1>2. /\ writer' = [writer EXCEPT !.phase = "payload"]
      /\ UNCHANGED <<promised, cursor, received, crashes>>
  BY DEF WriteFragment
<1>3. /\ n \in Nat /\ file \in Seq(Line)
      /\ \A i \in 1 .. n : file[i].ended
  BY <1>1, FileFacts DEF TypeOK
<1>4. /\ file' \in Seq(Line) /\ Len(file') = n + 1 /\ file'[n + 1] = line
      /\ \A i \in 1 .. n : file'[i] = file[i]
  <2>1. file' = Append(file, line) /\ line \in Line
    BY DEF WriteFragment, Line
  <2> HIDE DEF line
  <2>. QED  BY <1>3, <2>1, Added
<1>5. /\ Visible' = Visible /\ StoredOnce'
      /\ \A k \in Nat : k <= n => Between(0, k)' = Between(0, k)
  BY <1>1, <1>4, OpsKept
<1>6. TypeOK'
  <2>1. \A i \in 1 .. n + 1 : i \in 1 .. n \/ i = n + 1
    BY <1>3
  <2>2. \A i \in 1 .. Len(file') : file'[i].ended \/ i = Len(file')
    BY <1>3, <1>4, <2>1
  <2>3. writer' \in Appending
    BY <1>1, <1>2 DEF Appending
  <2>4. cursor' \in 0 .. Len(file')
    BY <1>1, <1>2, <1>3, <1>4 DEF TypeOK
  <2>. QED  BY <1>1, <1>2, <1>4, <2>2, <2>3, <2>4 DEF TypeOK
<1>7. Readable' = n
  <2>1. file' # <<>> /\ ~ file'[Len(file')].ended
    BY <1>3, <1>4, EmptySeq
  <2>. QED  BY <1>3, <1>4, <2>1 DEF Readable
<1>8. WriterSound'
  BY <1>1, <1>2, <1>3, <1>4, <1>5, <1>7 DEF WriterSound, Unwritten, Appending
<1>9. ReaderSound'
  BY <1>1, <1>2, <1>3, <1>5, <1>7, ReaderKept
<1>10. FileStep
  <2>1. \A i \in 1 .. n + 1 : i \in 1 .. n \/ i = n + 1
    BY <1>3
  <2>. QED  BY <1>1, <1>4, <1>7, <2>1 DEF FileStep
<1>. QED  BY <1>1, <1>2, <1>5, <1>6, <1>8, <1>9, <1>10 DEF JInv, AcceptedStays

(* The line but for its newline keeps the invariant; it has only what is   *)
(* being added.                                                            *)
LEMMA WritePayloadStep ==
  ASSUME JInv, WritePayload
  PROVE  JInv' /\ FileStep
<1> DEFINE n == Len(file)
           line == [file[n] EXCEPT !.ops = writer.added]
<1>1. /\ TypeOK /\ StoredOnce /\ AcceptedStays /\ ReaderSound
      /\ writer.phase = "payload" /\ writer \in Appending /\ n > 0 /\ Readable = n - 1
      /\ writer.added \cap Visible = {} /\ writer.ops \subseteq writer.added \cup Visible
      /\ file[n].ops = {}
  BY LineKinds DEF JInv, WriterSound, Unwritten, WritePayload
<1>2. /\ writer' = [writer EXCEPT !.phase = "newline"]
      /\ UNCHANGED <<promised, cursor, received, crashes>>
  BY DEF WritePayload
<1>3. /\ n \in Nat /\ file \in Seq(Line) /\ n - 1 \in Nat /\ (n - 1) + 1 = n
      /\ \A i \in 1 .. n : file[i] \in Line /\ (file[i].ended \/ i = n)
      /\ ~ file[n].ended
  BY <1>1, FileFacts DEF TypeOK
<1>4. /\ file' \in Seq(Line) /\ Len(file') = n
      /\ file'[n].ops = writer.added /\ ~ file'[n].ended
      /\ \A i \in 1 .. n : i # n => file'[i] = file[i]
  <2>1. file' = [file EXCEPT ![n] = line]
    BY DEF WritePayload
  <2>2. line \in Line /\ line.ops = writer.added /\ line.ended = file[n].ended
    <3>1. n \in 1 .. n
      BY <1>1, <1>3
    <3>2. file[n] \in Line
      BY <1>3, <3>1
    <3>. QED  BY <1>1, <3>2 DEF Line, Appending
  <2> HIDE DEF line
  <2>. QED  BY <1>1, <1>3, <2>1, <2>2, Replaced
<1>5. \A k \in Nat : k <= n - 1 => Between(0, k)' = Between(0, k)
  <2> SUFFICES ASSUME NEW k \in Nat, k <= n - 1 PROVE Between(0, k)' = Between(0, k)
    OBVIOUS
  <2>1. \A i \in 1 .. k : i \in 1 .. n /\ i # n
    <3>1. n \in Nat /\ k \in Nat /\ k <= n - 1
      BY <1>3
    <3> HIDE DEF n
    <3>. QED  BY <3>1
  <2>2. \A i \in 1 .. k : file'[i].ops = file[i].ops
    BY <1>4, <2>1
  <2>. QED  BY <2>2, UptoSame, BetweenUpto
<1>6. Visible' = Visible \cup writer.added
  <2>1. /\ Visible = Upto(file, n - 1) \cup {}
        /\ Visible' = Upto(file', n - 1) \cup writer.added
    <3>1. /\ Visible = Upto(file, (n - 1) + 1)
          /\ Visible' = Upto(file', (n - 1) + 1)
      BY <1>3, <1>4, BetweenUpto
    <3>2. /\ Upto(file, (n - 1) + 1) = Upto(file, n - 1) \cup file[(n - 1) + 1].ops
          /\ Upto(file', (n - 1) + 1) = Upto(file', n - 1) \cup file'[(n - 1) + 1].ops
      BY <1>3, UptoNext
    <3>. QED  BY <1>1, <1>3, <1>4, <3>1, <3>2
  <2>2. \A k \in Nat : k <= n - 1 => Upto(file', k) = Upto(file, k)
    BY <1>5, BetweenUpto
  <2>3. n - 1 \in Nat /\ n - 1 <= n - 1
    <3>1. n \in Nat /\ n - 1 \in Nat
      BY <1>3
    <3> HIDE DEF n
    <3>. QED  BY <3>1
  <2>4. Upto(file', n - 1) = Upto(file, n - 1)
    BY <2>2, <2>3
  <2>. QED  BY <2>1, <2>4
<1>7. StoredOnce'
  <2>1. \A i \in 1 .. n : file[i].ops \subseteq Visible
    BY BetweenUpto DEF Upto
  <2>. QED  BY <1>1, <1>4, <2>1 DEF StoredOnce
<1>8. TypeOK'
  BY <1>1, <1>2, <1>3, <1>4 DEF TypeOK, Appending
<1>9. Readable' = n - 1
  <2>1. file' # <<>>
    BY <1>1, <1>3, <1>4, EmptySeq
  <2>. QED  BY <1>4, <2>1 DEF Readable
<1>10. WriterSound'
  <2>1. writer'.phase = "newline" /\ writer'.ops = writer.ops
    BY <1>1, <1>2 DEF Appending
  <2>. QED  BY <1>1, <1>4, <1>6, <1>9, <2>1 DEF WriterSound, Unwritten
<1>11. ReaderSound'
  BY <1>1, <1>2, <1>3, <1>5, <1>9, ReaderKept
<1>12. FileStep
  <2>1. \A i \in 1 .. n - 1 : i \in 1 .. n /\ i # n
    <3>1. n \in Nat
      BY <1>3
    <3> HIDE DEF n
    <3>. QED  BY <3>1
  <2>2. Unwritten
    BY <1>1 DEF Unwritten
  <2>. QED  BY <1>1, <1>4, <1>9, <2>1, <2>2 DEF FileStep
<1>. QED  BY <1>1, <1>2, <1>6, <1>7, <1>8, <1>10, <1>11, <1>12 DEF JInv, AcceptedStays

(* The end of the line keeps the invariant.                                *)
LEMMA WriteNewlineStep ==
  ASSUME JInv, WriteNewline
  PROVE  JInv' /\ FileStep
<1> DEFINE n == Len(file)
           line == [file[n] EXCEPT !.ended = TRUE]
<1>1. /\ TypeOK /\ StoredOnce /\ AcceptedStays /\ ReaderSound
      /\ writer.phase = "newline" /\ writer \in Appending /\ n > 0 /\ Readable = n - 1
      /\ writer.ops \subseteq Visible
  BY LineKinds DEF JInv, WriterSound, WriteNewline
<1>2. /\ writer' = Idle /\ promised' = promised \cup writer.ops
      /\ UNCHANGED <<cursor, received, crashes>>
  BY DEF WriteNewline
<1>3. /\ n \in Nat /\ n - 1 \in Nat /\ file \in Seq(Line)
      /\ \A i \in 1 .. n : file[i] \in Line /\ (file[i].ended \/ i = n)
  BY <1>1, FileFacts DEF TypeOK
<1>4. /\ file' \in Seq(Line) /\ Len(file') = n
      /\ \A i \in 1 .. n : file'[i].ops = file[i].ops /\ file'[i].ended
  <2>1. file' = [file EXCEPT ![n] = line]
    BY DEF WriteNewline
  <2>2. line \in Line /\ line.ops = file[n].ops /\ line.ended
    <3>1. file[n] \in Line
      BY <1>1, <1>3
    <3>. QED  BY <3>1 DEF Line
  <2> HIDE DEF line
  <2>3. /\ file' \in Seq(Line) /\ Len(file') = n /\ file'[n] = line
        /\ \A i \in 1 .. n : i # n => file'[i] = file[i]
    BY <1>1, <1>3, <2>1, <2>2, Replaced
  <2>. QED  BY <1>3, <2>2, <2>3
<1>5. /\ Visible' = Visible /\ StoredOnce'
      /\ \A k \in Nat : k <= n => Between(0, k)' = Between(0, k)
  BY <1>1, <1>4, OpsKept
<1>6. TypeOK'
  BY <1>1, <1>2, <1>3, <1>4 DEF TypeOK, Appending
<1>7. Readable' = n
  <2>1. file' # <<>> /\ file'[Len(file')].ended
    BY <1>1, <1>3, <1>4, EmptySeq
  <2>. QED  BY <1>4, <2>1 DEF Readable
<1>8. WriterSound' /\ AcceptedStays'
  BY <1>1, <1>2, <1>5 DEF WriterSound, Unwritten, Idle, AcceptedStays
<1>9. ReaderSound'
  BY <1>1, <1>2, <1>3, <1>5, <1>7, ReaderKept
<1>10. FileStep
  <2>1. Readable + 1 = n /\ \A i \in 1 .. Readable : i \in 1 .. n
    BY <1>1, <1>3
  <2>. QED  BY <1>4, <1>7, <2>1 DEF FileStep
<1>. QED  BY <1>5, <1>6, <1>8, <1>9, <1>10 DEF JInv

(* A crash of the writer keeps the invariant.                              *)
LEMMA CrashStep ==
  ASSUME JInv, Crash
  PROVE  JInv'
<1>1. writer' = Idle /\ crashes' \in 0 .. MaxCrashes /\ UNCHANGED <<file, promised, cursor, received>>
  BY JsonlAssumption DEF Crash, JInv, TypeOK
<1>2. TypeOK'
  BY <1>1 DEF JInv, TypeOK
<1>3. WriterSound'
  BY <1>1 DEF WriterSound, Unwritten, Idle
<1>. QED
  BY <1>1, <1>2, <1>3
     DEF JInv, StoredOnce, AcceptedStays, ReaderSound, ReaderMissesNothing, Visible, Between, Readable

(* A page read behind the cursor keeps the invariant.                      *)
LEMMA ReadAfterStep ==
  ASSUME JInv, NEW limit \in Limit, NEW to \in cursor .. Len(file), ReadAfter(to, limit)
  PROVE  JInv'
<1>1. /\ TypeOK /\ Len(file) \in Nat /\ Readable \in Nat /\ Readable <= Len(file)
      /\ cursor \in Nat /\ received = Between(0, cursor)
  BY FileFacts DEF JInv, TypeOK, ReaderSound, ReaderMissesNothing
<1>2. /\ to \in Nat /\ cursor <= to /\ to <= Readable
      /\ cursor' = to /\ received' = received \cup Between(cursor, to)
      /\ UNCHANGED <<file, writer, promised, crashes>>
  BY <1>1 DEF ReadAfter, IsPage
<1>3. received' = Between(0, to)
  BY <1>1, <1>2, BetweenJoined
<1>4. Between(0, to) \in SUBSET Op
  <2>1. \A i \in 1 .. to : file[i].ops \in SUBSET Op
    <3>1. \A i \in 1 .. Len(file) : file[i] \in Line
      BY <1>1, FileFacts
    <3>. QED  BY <1>1, <1>2, <3>1 DEF Line
  <2>. QED  BY <1>2, <2>1 DEF Between
<1>5. TypeOK'
  BY <1>1, <1>2, <1>3, <1>4 DEF TypeOK
<1>6. ReaderSound'
  BY <1>2, <1>3 DEF ReaderSound, ReaderMissesNothing, Between, Readable
<1>. QED
  BY <1>2, <1>5, <1>6
     DEF JInv, WriterSound, Unwritten, StoredOnce, AcceptedStays, Visible, Between, Readable

-------------------------------------------------------------------------------
(* The invariant holds of the empty file.                                  *)
LEMMA JsonlInit == Init => JInv
<1> SUFFICES ASSUME Init PROVE JInv
  OBVIOUS
<1>1. file = <<>> /\ Len(file) = 0 /\ Readable = 0 /\ Between(0, 0) = {}
  BY DEF Init, Readable, Between
<1>2. TypeOK
  BY <1>1, JsonlAssumption DEF Init, TypeOK
<1>3. WriterSound
  BY DEF Init, WriterSound, Unwritten, Idle
<1>. QED
  BY <1>1, <1>2, <1>3 DEF Init, JInv, StoredOnce, AcceptedStays, ReaderSound, ReaderMissesNothing

(* Every step keeps the invariant.                                         *)
LEMMA JsonlInductive == JInv /\ [Next]_vars => JInv'
<1> SUFFICES ASSUME JInv, [Next]_vars PROVE JInv'
  OBVIOUS
<1>1. CASE UNCHANGED vars
  BY <1>1 DEF vars, JInv, TypeOK, WriterSound, Unwritten, StoredOnce, AcceptedStays, ReaderSound,
              ReaderMissesNothing, Visible, Between, Readable
<1>. QED
  BY <1>1, AppendManyStep, EnsureLineBoundaryStep, WriteFragmentStep, WritePayloadStep,
     WriteNewlineStep, CrashStep, ReadAfterStep DEF Next

(* The file, its writer and its reader keep their types: only the last     *)
(* line can lack its newline, and the cursor stays within the file.        *)
THEOREM JsonlTypeCorrect == Spec => []TypeOK
<1>1. JInv => TypeOK
  BY DEF JInv
<1>. QED  BY <1>1, JsonlInit, JsonlInductive, PTL DEF Spec

(* append_many, retried after crashes at any byte, stores no operation on  *)
(* two lines: what a torn write left is found by the next call.            *)
THEOREM JsonlStoredOnce == Spec => []StoredOnce
<1>1. JInv => StoredOnce
  BY DEF JInv
<1>. QED  BY <1>1, JsonlInit, JsonlInductive, PTL DEF Spec

(* What append_many accepted stays in the file through every later crash.  *)
THEOREM JsonlAcceptedStays == Spec => []AcceptedStays
<1>1. JInv => AcceptedStays
  BY DEF JInv
<1>. QED  BY <1>1, JsonlInit, JsonlInductive, PTL DEF Spec

(* A reader that pages through the file while it is written has received   *)
(* exactly what the lines behind its cursor hold, for any page sizes.      *)
THEOREM JsonlReaderComplete == Spec => []ReaderMissesNothing
<1>1. JInv => ReaderMissesNothing
  BY DEF JInv, ReaderSound
<1>. QED  BY <1>1, JsonlInit, JsonlInductive, PTL DEF Spec

-------------------------------------------------------------------------------
(* Every step leaves the readable lines as they are and makes at most one  *)
(* more readable.                                                          *)
LEMMA EveryFileStep ==
  ASSUME JInv, [Next]_vars
  PROVE  FileStep
<1>1. file' = file => FileStep
  <2> SUFFICES ASSUME file' = file PROVE FileStep
    OBVIOUS
  <2>1. Readable' = Readable
    BY DEF Readable
  <2>. QED  BY <2>1 DEF FileStep
<1>. QED
  BY <1>1, EnsureLineBoundaryStep, WriteFragmentStep, WritePayloadStep, WriteNewlineStep
     DEF Next, vars, AppendMany, Crash, ReadAfter

(* An event that shares no operation with another is whole on the line it  *)
(* is written to, and in what a call is about to write: what a crash has   *)
(* left of it is all of it or nothing.                                     *)
Whole(e, ops) == e \subseteq ops \/ e \cap ops = {}

Isolated(e) == \A f \in Event \ {e} : e \cap f = {}

LinesWhole ==
  \A e \in Event :
    Isolated(e) => /\ \A i \in 1 .. Len(file) : Whole(e, file[i].ops)
                   /\ Unwritten => Whole(e, writer.added)

(* An event that is whole in every line is whole in what is visible.       *)
LEMMA VisibleWhole ==
  ASSUME NEW e, \A i \in 1 .. Len(file) : Whole(e, file[i].ops)
  PROVE  Whole(e, Visible)
BY BetweenUpto DEF Whole, Upto

(* A call either goes on with what it has decided to write or decides.     *)
LEMMA WriterStep ==
  ASSUME JInv, [Next]_vars, Unwritten'
  PROVE  \/ Unwritten /\ writer'.added = writer.added
         \/ \E ops \in Event : writer'.added = ops \ Visible
<1>1. CASE UNCHANGED vars
  BY <1>1 DEF vars, Unwritten
<1>2. ASSUME NEW ops \in Event, AppendMany(ops)
      PROVE  \/ Unwritten /\ writer'.added = writer.added
             \/ writer'.added = ops \ Visible
  BY <1>2 DEF AppendMany, Missing, Unwritten
<1>3. CASE EnsureLineBoundary \/ WriteFragment
  <2>1. writer \in Appending /\ Unwritten
    BY <1>3, LineKinds DEF EnsureLineBoundary, WriteFragment, JInv, Unwritten
  <2>. QED  BY <1>3, <2>1 DEF EnsureLineBoundary, WriteFragment, Appending
<1>4. CASE WritePayload
  <2>1. writer \in Appending
    BY <1>4, LineKinds DEF WritePayload, JInv
  <2>2. writer'.phase = "newline"
    BY <1>4, <2>1 DEF WritePayload, Appending
  <2>. QED  BY <2>2 DEF Unwritten
<1>5. CASE WriteNewline \/ Crash
  BY <1>5 DEF WriteNewline, Crash, Unwritten, Idle
<1>6. ASSUME NEW limit \in Limit, NEW to \in cursor .. Len(file), ReadAfter(to, limit)
      PROVE  Unwritten /\ writer'.added = writer.added
  BY <1>6 DEF ReadAfter, Unwritten
<1>. QED  BY <1>1, <1>2, <1>3, <1>4, <1>5, <1>6 DEF Next

(* Every step keeps every event of its own whole in every line.            *)
LEMMA LinesWholeStep ==
  ASSUME JInv, LinesWhole, [Next]_vars
  PROVE  LinesWhole'
<1> SUFFICES ASSUME NEW e \in Event, Isolated(e)
             PROVE  /\ \A i \in 1 .. Len(file') : Whole(e, file'[i].ops)
                    /\ Unwritten' => Whole(e, writer'.added)
  BY DEF LinesWhole, Isolated
<1>1. /\ \A i \in 1 .. Len(file) : Whole(e, file[i].ops)
      /\ Unwritten => Whole(e, writer.added)
  BY DEF LinesWhole
<1>2. Whole(e, {})
  BY DEF Whole
<1>3. \A i \in 1 .. Len(file') : Whole(e, file'[i].ops)
  BY <1>1, <1>2, EveryFileStep DEF FileStep
<1>4. ASSUME NEW ops \in Event
      PROVE  Whole(e, ops \ Visible)
  <2>1. Whole(e, ops) /\ Whole(e, Visible)
    BY <1>1, VisibleWhole DEF Isolated, Whole
  <2>. QED  BY <2>1 DEF Whole
<1>5. Unwritten' => Whole(e, writer'.added)
  BY <1>1, <1>4, WriterStep
<1>. QED  BY <1>3, <1>5

(* A crash at any byte leaves an event that shares no operation with       *)
(* another in the file as a whole or not at all, and so does every retry.  *)
THEOREM JsonlEventAtomic == Spec => []EventAtomic
<1>1. Init => JInv /\ LinesWhole
  <2>1. Init => LinesWhole
    BY DEF Init, LinesWhole, Unwritten, Idle
  <2>. QED  BY <2>1, JsonlInit
<1>2. JInv /\ LinesWhole /\ [Next]_vars => JInv' /\ LinesWhole'
  BY JsonlInductive, LinesWholeStep
<1>3. LinesWhole => EventAtomic
  BY VisibleWhole DEF LinesWhole, EventAtomic, Isolated, Whole
<1>. QED  BY <1>1, <1>2, <1>3, PTL DEF Spec

-------------------------------------------------------------------------------
(* The refinement.  The abstract stream is the complete lines.             *)
Complete == [i \in 1 .. Readable |-> file[i].ops]

(* The stream that the file implements has one batch for each readable     *)
(* line.                                                                   *)
LEMMA CompleteFacts ==
  ASSUME TypeOK
  PROVE  /\ Complete \in Seq(SUBSET Op) /\ Len(Complete) = Readable
         /\ \A i \in 1 .. Readable : Complete[i] = file[i].ops
<1>1. /\ Readable \in Nat /\ Readable <= Len(file) /\ Len(file) \in Nat
      /\ \A i \in 1 .. Len(file) : file[i] \in Line
  BY FileFacts
<1>2. \A i \in 1 .. Readable : file[i].ops \in SUBSET Op
  BY <1>1 DEF Line
<1>3. Complete \in [1 .. Readable -> SUBSET Op]
  BY <1>2 DEF Complete
<1>. QED  BY <1>1, <1>3, SeqDef, LenProperties DEF Complete

(* A step completes a line with new operations or leaves the stream.       *)
LEMMA CompleteStep ==
  ASSUME JInv, JInv', [Next]_vars
  PROVE  \/ Complete' = Complete
         \/ \E batch \in SUBSET Op :
              /\ batch \cap UNION {Complete[i] : i \in 1 .. Len(Complete)} = {}
              /\ Complete' = Append(Complete, batch)
<1> DEFINE n == Readable
           batch == file'[n + 1].ops
<1>1. TypeOK /\ TypeOK' /\ FileStep /\ StoredOnce'
  BY EveryFileStep DEF JInv
<1>2. n \in Nat /\ \A i \in 1 .. n : file'[i].ops = file[i].ops
  BY <1>1, FileFacts DEF FileStep
<1>3. Complete = [i \in 1 .. n |-> file'[i].ops]
  BY <1>2 DEF Complete
<1>4. CASE Readable' = n
  <2>1. Complete' = [i \in 1 .. n |-> file'[i].ops]
    BY <1>4 DEF Complete
  <2>. QED  BY <1>3, <2>1
<1>5. CASE Readable' = n + 1
  <2>1. Len(file') \in Nat /\ n + 1 <= Len(file') /\ \A i \in 1 .. Len(file') : file'[i] \in Line
    <3>1. (Len(file) \in Nat /\ Readable <= Len(file) /\ \A i \in 1 .. Len(file) : file[i] \in Line)'
      BY <1>1, FileFacts, PTL
    <3>. QED  BY <1>5, <3>1
  <2>2. batch \in SUBSET Op
    BY <1>2, <2>1 DEF Line
  <2>3. Complete' = [i \in 1 .. n + 1 |-> file'[i].ops]
    BY <1>5 DEF Complete
  <2>4. Complete \in Seq(SUBSET Op) /\ Len(Complete) = n
    BY <1>1, CompleteFacts
  <2>5. Complete' = Append(Complete, batch)
    <3>1. Append(Complete, batch) = [i \in 1 .. n + 1 |-> IF i <= n THEN Complete[i] ELSE batch]
      BY <1>2, <2>2, <2>4
    <3>2. \A i \in 1 .. n + 1 : (IF i <= n THEN Complete[i] ELSE batch) = file'[i].ops
      BY <1>2, <1>3
    <3>. QED  BY <2>3, <3>1, <3>2
  <2>6. batch \cap UNION {Complete[i] : i \in 1 .. Len(Complete)} = {}
    <3>1. \A i \in 1 .. n : file'[i].ops \cap batch = {}
      BY <1>1, <1>2, <2>1 DEF StoredOnce
    <3>. QED  BY <1>3, <2>4, <3>1
  <2>. QED  BY <2>2, <2>5, <2>6
<1>. QED  BY <1>1, <1>4, <1>5 DEF FileStep

(* Every step is a step of the stream or leaves it alone.                  *)
LEMMA StreamStep ==
  ASSUME JInv, JInv', [Next]_vars
  PROVE  [Stream!Next]_(Stream!vars)
<1> USE DEF Stream!vars
<1>1. ASSUME UNCHANGED <<cursor, received>>
      PROVE  Stream!Next \/ UNCHANGED Stream!vars
  <2>1. CASE Complete' = Complete
    BY <1>1, <2>1 DEF Complete
  <2>2. ASSUME NEW batch \in SUBSET Op,
               batch \cap UNION {Complete[i] : i \in 1 .. Len(Complete)} = {},
               Complete' = Append(Complete, batch)
        PROVE  Stream!Next
    <3>1. Stream!Commit(batch)
      BY <1>1, <2>2 DEF Stream!Commit, Stream!Stored, Complete
    <3>. QED  BY <3>1 DEF Stream!Next
  <2>. QED  BY <2>1, <2>2, CompleteStep
<1>2. ASSUME NEW limit \in Limit, NEW to \in cursor .. Len(file), ReadAfter(to, limit)
      PROVE  Stream!Next
  <2>1. /\ TypeOK /\ cursor \in Nat /\ Readable \in Nat
        /\ to \in Nat /\ cursor <= to /\ to <= Readable
    BY <1>2, FileFacts DEF JInv, TypeOK, ReadAfter, IsPage
  <2>2. /\ cursor' = to /\ received' = received \cup Between(cursor, to)
        /\ file' = file
    BY <1>2 DEF ReadAfter
  <2>3. Complete' = Complete
    BY <2>2 DEF Complete, Readable
  <2>4. Between(cursor, to) = UNION {Complete[i] : i \in (cursor + 1) .. to}
    <3>1. \A i \in (cursor + 1) .. to : i \in 1 .. Readable
      BY <2>1
    <3>2. \A i \in (cursor + 1) .. to : Complete[i] = file[i].ops
      BY <2>1, <3>1, CompleteFacts
    <3>. QED  BY <3>2 DEF Between
  <2>5. to \in cursor .. Len(Complete)
    BY <2>1, CompleteFacts
  <2>6. Stream!Receive(to)
    BY <2>2, <2>3, <2>4 DEF Stream!Receive, Complete
  <2>. QED  BY <2>5, <2>6 DEF Stream!Next, Complete
<1>. QED
  BY <1>1, <1>2 DEF Next, vars, AppendMany, EnsureLineBoundary, WriteFragment, WritePayload,
                    WriteNewline, Crash

(* A JSONL file is the durable stream of whole new batches that the        *)
(* synchronisation of ReplicaSync takes a store to be: crashes, retries    *)
(* and half-written lines are invisible to a reader of complete lines.     *)
THEOREM JsonlImplementsStream == Spec => ImplementsStream
<1>1. Init => Stream!Init
  <2> SUFFICES ASSUME Init PROVE Stream!Init
    OBVIOUS
  <2>1. Readable = 0 /\ cursor = 0 /\ received = {} /\ TypeOK
    BY JsonlInit DEF Init, Readable, JInv
  <2>2. Complete = <<>>
    BY <2>1, CompleteFacts, EmptySeq
  <2>. QED  BY <2>1, <2>2 DEF Stream!Init, Complete
<1>2. JInv /\ JInv' /\ [Next]_vars => [Stream!Next]_(Stream!vars)
  BY StreamStep
<1>. QED
  BY <1>1, <1>2, JsonlInit, JsonlInductive, PTL DEF Spec, ImplementsStream, Stream!Spec

================================================================================
