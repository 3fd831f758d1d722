----------------------------- MODULE MCReplicaSync -----------------------------
(* Instances of ReplicaSync for TLC.                                       *)
EXTENDS ReplicaSync, TLC

CONSTANTS a, b, c,          \* replicas
          w1, w2,           \* workers
          v, x, y, z        \* operations

(* Two workers share the store of b.                                       *)
OneSided == w1 :> b @@ w2 :> b

(* One worker pulls for b.                                                 *)
OneWorker == w1 :> b

Two == {{x}, {y, z}}
Three == {{x}, {y}, {z}}
ThreeOfFour == {{v}, {x}, {y, z}}

(* The pair of operations that share an op_id, or an entity id.            *)
XY == {{x, y}}
VX == {{v, x}}

(* Interchangeable: the workers, the operations of the event {y, z}, and   *)
(* the colliding pair.                                                     *)
StoreSymmetry ==
  {f @@ g @@ h : f \in Permutations({w1, w2}), g \in Permutations({y, z}),
                 h \in Permutations({v, x})}

-------------------------------------------------------------------------------
(* b stores only what its worker pulls, neither commits nor merges of its  *)
(* own: what it then acknowledges has been through apply_replica_delta.    *)
PullSpec == Init /\ [][Next /\ (UNCHANGED log[b] \/ ApplyAppend(w1))]_vars

================================================================================
