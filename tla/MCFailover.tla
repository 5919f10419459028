------------------------------ MODULE MCFailover ------------------------------
(* Small instances of Failover for TLC: invocations of the Lambda race     *)
(* for a replication group.  No symmetry: liveness is checked too.         *)
EXTENDS Failover

===============================================================================
