------------------------------- MODULE JsonlStore -------------------------------
(***************************************************************************)
(* JsonlStore (store.py): an append-only file of lines, one batch a line.  *)
(* One process appends and may crash in the middle of a write; others open *)
(* the same file by its path and read whatever is there.                   *)
(*                                                                         *)
(* A line is the set of operations that decoding it yields, {} when it is  *)
(* torn, and whether its newline has been written.  A cursor, a byte       *)
(* offset in the code, is the number of lines before it.                   *)
(***************************************************************************)
EXTENDS Integers, FiniteSets, Sequences

CONSTANTS
  Op,          \* operations
  Event,       \* the batches applications append
  Collide,     \* pairs of operations with one op_id and different payloads
  Limit,       \* the read limits in use; 0 stands for none
  MaxCrashes   \* bound on crashes of the writer

ASSUME JsonlAssumption ==
  /\ Event \subseteq SUBSET Op
  /\ Limit \subseteq Nat
  /\ MaxCrashes \in Nat

VARIABLES
  file,        \* the lines, oldest first
  writer,      \* what the appending process is in the middle of
  promised,    \* operations of the append_many calls that returned
  cursor,      \* where the reader's next read_after starts
  received,    \* the operations its reads have returned
  crashes      \* crashes so far

vars == <<file, writer, promised, cursor, received, crashes>>

Line == [ops : SUBSET Op, ended : BOOLEAN]

Idle == [phase |-> "idle"]

Appending == [phase : {"boundary", "fragment", "payload", "newline"},
              ops : SUBSET Op, added : SUBSET Op]

TypeOK ==
  /\ file \in Seq(Line)
  /\ \A i \in 1 .. Len(file) : file[i].ended \/ i = Len(file)
  /\ writer \in {Idle} \cup Appending
  /\ promised \subseteq Op
  /\ cursor \in 0 .. Len(file)
  /\ received \subseteq Op
  /\ crashes \in 0 .. MaxCrashes

-------------------------------------------------------------------------------
(* iter_ops decodes every line, one without its newline included, and      *)
(* passes over the lines that do not decode.                               *)
Between(from, to) == UNION {file[i].ops : i \in (from + 1) .. to}

Visible == Between(0, Len(file))

(* read_after stops at a line without its newline.  A bug it could have:   *)
(* the cursor passes that line as well.                                    *)
LinesToEndOfFile == Len(file)

Readable == IF file # <<>> /\ ~ file[Len(file)].ended THEN Len(file) - 1 ELSE Len(file)

(* Lines that do not decode are passed over; the line whose batch fills    *)
(* the page is the last one read.                                          *)
Size(from, to) == Cardinality(Between(from, to))

IsPage(from, to, limit) ==
  /\ from <= to /\ to <= Readable
  /\ \A i \in (from + 1) .. (to - 1) : limit = 0 \/ Size(from, i) < limit
  /\ to < Readable => /\ from < to
                      /\ limit # 0 /\ Size(from, to) >= limit

-------------------------------------------------------------------------------
Init ==
  /\ file = <<>>
  /\ writer = Idle
  /\ promised = {}
  /\ cursor = 0
  /\ received = {}
  /\ crashes = 0

(* append_many finds out which operations the file lacks.  Bugs it could   *)
(* have: only what read_after yields counts as stored; or nothing does.    *)
MissingFromPages(ops) == ops \ Between(0, Readable)

AllOf(ops) == ops

Missing(ops) == ops \ Visible

(* A collision raises before anything is written; with nothing to add the  *)
(* call returns at once.  A bug: it returns before the write is complete.  *)
ReturnEarly(ops) ==
  /\ writer = Idle
  /\ promised' = promised \cup ops
  /\ writer' = [phase |-> "boundary", ops |-> ops, added |-> Missing(ops)]
  /\ UNCHANGED <<file, cursor, received, crashes>>

AppendMany(ops) ==
  /\ writer = Idle
  /\ ~ \E p \in Collide : p \subseteq ops \cup Visible /\ p \cap ops # {}
  /\ IF Missing(ops) = {}
     THEN /\ promised' = promised \cup ops
          /\ UNCHANGED writer
     ELSE /\ writer' = [phase |-> "boundary", ops |-> ops, added |-> Missing(ops)]
          /\ UNCHANGED promised
  /\ UNCHANGED <<file, cursor, received, crashes>>

(* _ensure_line_boundary ends a line that a crash left open.  A bug it     *)
(* could have: it does nothing.                                            *)
NoBoundary ==
  /\ writer.phase = "boundary"
  /\ writer' = [writer EXCEPT !.phase = "fragment"]
  /\ UNCHANGED <<file, promised, cursor, received, crashes>>

EnsureLineBoundary ==
  /\ writer.phase = "boundary"
  /\ file' = IF Readable < Len(file) THEN [file EXCEPT ![Len(file)].ended = TRUE] ELSE file
  /\ writer' = [writer EXCEPT !.phase = "fragment"]
  /\ UNCHANGED <<promised, cursor, received, crashes>>

(* The line reaches the file byte by byte: part of it, then all of it but  *)
(* the newline, then the newline, and append_many returns.  A bug it could *)
(* have: an operation gets a line of its own.                              *)
WriteAnOperationFirst ==
  /\ writer.phase = "fragment"
  /\ LET op == CHOOSE o \in writer.added : TRUE
     IN  file' = file \o <<[ops |-> {op}, ended |-> TRUE], [ops |-> {}, ended |-> FALSE]>>
  /\ writer' = [writer EXCEPT !.phase = "payload"]
  /\ UNCHANGED <<promised, cursor, received, crashes>>

WriteFragment ==
  /\ writer.phase = "fragment"
  /\ file' = Append(file, [ops |-> {}, ended |-> FALSE])
  /\ writer' = [writer EXCEPT !.phase = "payload"]
  /\ UNCHANGED <<promised, cursor, received, crashes>>

WritePayload ==
  /\ writer.phase = "payload"
  /\ file' = [file EXCEPT ![Len(file)].ops = writer.added]
  /\ writer' = [writer EXCEPT !.phase = "newline"]
  /\ UNCHANGED <<promised, cursor, received, crashes>>

WriteNewline ==
  /\ writer.phase = "newline"
  /\ file' = [file EXCEPT ![Len(file)].ended = TRUE]
  /\ promised' = promised \cup writer.ops
  /\ writer' = Idle
  /\ UNCHANGED <<cursor, received, crashes>>

(* The writing process dies; what reached the file stays.                  *)
Crash ==
  /\ writer # Idle
  /\ crashes < MaxCrashes
  /\ crashes' = crashes + 1
  /\ writer' = Idle
  /\ UNCHANGED <<file, promised, cursor, received>>

(* read_after by any process, from where its last read ended.              *)
ReadAfter(to, limit) ==
  /\ IsPage(cursor, to, limit)
  /\ cursor' = to
  /\ received' = received \cup Between(cursor, to)
  /\ UNCHANGED <<file, writer, promised, crashes>>

Next ==
  \/ \E ops \in Event : AppendMany(ops)
  \/ EnsureLineBoundary \/ WriteFragment \/ WritePayload \/ WriteNewline
  \/ Crash
  \/ \E limit \in Limit : \E to \in cursor .. Len(file) : ReadAfter(to, limit)

Spec == Init /\ [][Next]_vars

-------------------------------------------------------------------------------
(* A crash between any two bytes leaves an event, if it shares no          *)
(* operation with another one, in the file as a whole or not at all.  The  *)
(* store's own words are weaker, that a batch "may expose a prefix"        *)
(* (store.py:182-184): one line per batch keeps more than they promise.    *)
EventAtomic ==
  \A e \in Event :
    (\A f \in Event \ {e} : e \cap f = {}) => e \subseteq Visible \/ e \cap Visible = {}

(* A retry after a crash stores each operation once, although the crash    *)
(* may have come before or after its line was complete.                    *)
StoredOnce ==
  \A i, j \in 1 .. Len(file) : i # j => file[i].ops \cap file[j].ops = {}

(* What append_many has accepted is never lost to a later crash.           *)
AcceptedStays == promised \subseteq Visible

(* A reader that pages through the file while it is written and torn gets  *)
(* every batch its cursor has passed: no line it skipped as torn, and none *)
(* it saw half written, becomes a batch behind its back.                   *)
ReaderMissesNothing == received = Between(0, cursor)

(* The complete lines are a stream of whole new batches, as ReplicaSync    *)
(* assumes of every store: each line that is completed, by append_many or  *)
(* by the next call after a crash, appends all of one batch or nothing,    *)
(* and read_after hands out what its cursor passes.                        *)
Stream ==
  INSTANCE BatchStream WITH stream <- [i \in 1 .. Readable |-> file[i].ops]

ImplementsStream == Stream!Spec

(* README.md:60-61: an incomplete final line is ignored, and retrying      *)
(* appends the complete batch.  So what append_many has accepted can be    *)
(* read by a peer.                                                         *)
AcceptedReadable == promised \subseteq Between(0, Readable)

================================================================================
