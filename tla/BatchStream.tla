------------------------------ MODULE BatchStream ------------------------------
(***************************************************************************)
(* What ReplicaSync takes a store to be: a durable stream to which one     *)
(* whole batch of new operations is appended at a time, and a reader that  *)
(* receives exactly the batches its cursor passes.  An entry may be empty: *)
(* a line that was torn before it said anything.                           *)
(***************************************************************************)
EXTENDS Naturals, Sequences

CONSTANT Op

VARIABLES stream,      \* the committed entries, oldest first
          cursor,      \* how many of them the reader has passed
          received     \* the operations it has received

vars == <<stream, cursor, received>>

Stored == UNION {stream[i] : i \in 1 .. Len(stream)}

Init == stream = <<>> /\ cursor = 0 /\ received = {}

Commit(batch) ==
  /\ batch \cap Stored = {}
  /\ stream' = Append(stream, batch)
  /\ UNCHANGED <<cursor, received>>

Receive(n) ==
  /\ cursor' = n
  /\ received' = received \cup UNION {stream[i] : i \in (cursor + 1) .. n}
  /\ UNCHANGED stream

Next ==
  \/ \E batch \in SUBSET Op : Commit(batch)
  \/ \E n \in cursor .. Len(stream) : Receive(n)

Spec == Init /\ [][Next]_vars

================================================================================
