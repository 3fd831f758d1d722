------------------------------ MODULE CheckedMerge ------------------------------
(***************************************************************************)
(* merge.py and auth.py: merging two logs, keeping collisions of ids and   *)
(* operations that fail authentication out and reporting them.             *)
(*                                                                         *)
(* A log maps ids to operations.  An operation is told apart by its kind,  *)
(* its body, the key that it names and what it was signed with: a pair of  *)
(* a secret and a body, which nobody forges without the secret.            *)
(***************************************************************************)
EXTENDS Naturals, FiniteSets

CONSTANTS
  Id,
  Signed,        \* the operations that logs may hold
  Unsigned,      \* no key, no signature, no reason
  Policy         \* secrets by key, revoked keys, and what is required

(* claim_signature_status, retraction_signature_status.                    *)
SignatureStatus(o, secrets) ==
  CASE o.key = Unsigned \/ o.signature = Unsigned -> "missing"
    [] o.key # Unsigned /\ o.signature # Unsigned /\ o.key \notin DOMAIN secrets -> "unknown_key"
    [] OTHER -> IF o.signature = <<secrets[o.key], o.body>> THEN "verified" ELSE "invalid"

(* _authenticated_reason.                                                  *)
SignatureReason(o, policy) ==
  LET status == SignatureStatus(o, policy.secrets)
  IN CASE o.key \in policy.revoked -> "revoked"
       [] o.key \notin policy.revoked
            /\ status # "verified" /\ (policy.signed \/ status = "invalid") -> status
       [] OTHER -> Unsigned

AuthenticatedReason(o, policy) ==
  CASE policy.timestamps /\ ~ o.dated -> "invalid_timestamp"
    [] (policy.timestamps => o.dated) /\ policy.signed /\ o.kind \in {"resolution", "event"} ->
         "authority_signature_unsupported"
    [] (policy.timestamps => o.dated) /\ o.kind \in {"claim", "retraction"} ->
         SignatureReason(o, policy)
    [] OTHER -> Unsigned

-------------------------------------------------------------------------------
(* merge raises on a collision.                                            *)
Collisions(a, b) == {i \in DOMAIN a \cap DOMAIN b : a[i] # b[i]}

Union(a, b) == [i \in DOMAIN a \cup DOMAIN b |-> IF i \in DOMAIN a THEN a[i] ELSE b[i]]

CanMerge(a, b) == Collisions(a, b) = {}

(* merge_checked.  A bug it could have: what comes in replaces what it     *)
(* collides with.                                                          *)
MergeCheckedReplacing(a, b) ==
  [merged |-> Union(b, a),
   added |-> DOMAIN b \ DOMAIN a,
   duplicate |-> (DOMAIN a \cap DOMAIN b) \ Collisions(a, b),
   quarantined |-> Collisions(a, b)]

MergeChecked(a, b) ==
  [merged |-> Union(a, b),
   added |-> DOMAIN b \ DOMAIN a,
   duplicate |-> (DOMAIN a \cap DOMAIN b) \ Collisions(a, b),
   quarantined |-> Collisions(a, b)]

(* merge_checked_authenticated: an operation that fails is quarantined     *)
(* whether or not its id is known.                                         *)
Rejected(b, policy) == {i \in DOMAIN b : AuthenticatedReason(b[i], policy) # Unsigned}

Accepted(b, policy) == [i \in DOMAIN b \ Rejected(b, policy) |-> b[i]]

MergeAuthenticated(a, b, policy) ==
  LET report == MergeChecked(a, Accepted(b, policy))
  IN [report EXCEPT !.quarantined = @ \cup Rejected(b, policy)]

-------------------------------------------------------------------------------
Logs == UNION {[ids -> Signed] : ids \in SUBSET Id}

Triples == {<<a, b, c>> : a, b, c \in Logs}

InTurn(a, b, c, policy) ==
  MergeAuthenticated(MergeAuthenticated(a, b, policy).merged, c, policy).merged

(* The logs in two orders, apart from the ids that both incoming logs use  *)
(* with different accepted operations.                                     *)
Settled(t, policy) ==
  Id \ Collisions(Accepted(t[2], policy), Accepted(t[3], policy))

Part(log, ids) == [i \in DOMAIN log \cap ids |-> log[i]]

Disagreeing ==
  {tp \in {<<t, p>> : t \in Triples, p \in Policy} :
     LET t == tp[1]
         one == InTurn(t[1], t[2], t[3], tp[2])
         other == InTurn(t[1], t[3], t[2], tp[2])
     IN \/ DOMAIN one # DOMAIN other
        \/ Part(one, Settled(t, tp[2])) # Part(other, Settled(t, tp[2]))
        \/ Part(one, DOMAIN t[1]) # t[1]}

(* A plain merge that goes through gives what the checked one gives, with  *)
(* nothing quarantined, in either direction; and a report names every      *)
(* incoming id exactly once.                                               *)
Misreported ==
  {ab \in Logs \X Logs :
     LET r == MergeChecked(ab[1], ab[2])
     IN \/ CanMerge(ab[1], ab[2]) # (r.merged = MergeChecked(ab[2], ab[1]).merged)
        \/ CanMerge(ab[1], ab[2]) # (r.quarantined = {})
        \/ r.added \cup r.duplicate \cup r.quarantined # DOMAIN ab[2]
        \/ r.added \cap (r.duplicate \cup r.quarantined) # {}}
===============================================================================
