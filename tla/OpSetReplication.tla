---------------------------- MODULE OpSetReplication ----------------------------
(***************************************************************************)
(* What delta synchronisation promises, without streams, cursors, pages or *)
(* workers: replicas hold grow-only sets of operations that are committed  *)
(* locally in whole events or received from a replica that has them, and a *)
(* replica acknowledges to a peer only what both of them hold.             *)
(***************************************************************************)
CONSTANTS Replica, Op, Event

VARIABLES known,   \* known[r]: the operations durable at replica r
          acked    \* acked[r][p]: what r need not ask p for again

vars == <<known, acked>>

Init ==
  /\ known = [r \in Replica |-> {}]
  /\ acked = [r \in Replica |-> [p \in Replica |-> {}]]

Commit(r, event) ==
  /\ known' = [known EXCEPT ![r] = @ \cup event]
  /\ UNCHANGED acked

Receive(r, p) ==
  /\ \E ops \in SUBSET known[p] : known' = [known EXCEPT ![r] = @ \cup ops]
  /\ UNCHANGED acked

Acknowledge(r, p) ==
  /\ \E ops \in SUBSET (known[r] \cap known[p]) : acked' = [acked EXCEPT ![r][p] = ops]
  /\ UNCHANGED known

Next ==
  \E r \in Replica :
    \/ \E event \in Event : Commit(r, event)
    \/ \E p \in Replica : Receive(r, p) \/ Acknowledge(r, p)

Spec == Init /\ [][Next]_vars

================================================================================
