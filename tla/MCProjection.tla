------------------------------ MODULE MCProjection ------------------------------
(* Instances of Projection: two records of two versions, one or two callers. *)
EXTENDS Projection

CONSTANTS v1, v2, host, first, second

OneRecord == {1}
TwoRecords == {1, 2}
TwoVersions == {v1, v2}
OneHost == {host}
TwoTasks == {first, second}
===============================================================================
