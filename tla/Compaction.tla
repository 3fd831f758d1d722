------------------------------- MODULE Compaction -------------------------------
(***************************************************************************)
(* compaction.py: the operations that a compacted log keeps, and what its  *)
(* report compares before and after.  Custom detectors are not used: with  *)
(* one, all evidence is kept.                                              *)
(***************************************************************************)
EXTENDS Views

CONSTANT CitedBy   \* the evidence that a retraction or a resolution cites

ASSUME CompactionAssumption ==
  \A o \in Of(Op, "retraction") \cup Of(Op, "resolution") : CitedBy[o] \subseteq Evidence

Needed(ops, rev) ==
  LET s == Full(ops, rev)
  IN UNION {EvidenceOf[c] : c \in UNION {s.active[k] : k \in Key}}
       \cup UNION {CitedBy[o] : o \in Of(ops, "retraction") \cup Of(ops, "resolution")}

(* compact_projection_equivalent_with_report.  A bug it could have: a      *)
(* retraction that no claim of the log is about goes with the claims.      *)
CompactedKnownTargets(ops, rev) ==
  LET s == Full(ops, rev)
  IN {o \in ops :
        CASE o.kind = "evidence" -> o.evidence \in Needed(ops, rev)
          [] o.kind = "claim" -> o.claim \notin s.inactive
          [] o.kind = "retraction" ->
               \E c \in s.claims : c = o.target \/ RefOf[rev][c] = o.ref
          [] OTHER -> TRUE}

Compacted(ops, rev) ==
  LET s == Full(ops, rev)
  IN {o \in ops : /\ o.kind = "evidence" => o.evidence \in Needed(ops, rev)
                  /\ o.kind = "claim" => o.claim \notin s.inactive}

(* What the report compares: the active claims, the conflicts and the view *)
(* under a scope without a resolver.  The sources behind a conflict are a  *)
(* part of it; they are told apart because evidence may be dropped.        *)
Seen(ops, rev) ==
  LET s == StateOf(ops, rev, {})
  IN [active |-> s.active,
      conflict |-> [k \in Key |-> s.conflict[k].who],
      lane |-> s.lane,
      view |-> [scope \in Scope |-> BuildView(s, scope, NoVerdict)]]

SourcesSeen(ops, rev) == [k \in Key |-> Full(ops, rev).conflict[k].sources]
===============================================================================
