----------------------------- MODULE RedisCleanup -----------------------------
(***************************************************************************)
(* The cleanup Lambda (elasticache-stress-test/src/cleanup.py) beside      *)
(* writers that may still be running: threads a memory or mixed-workload   *)
(* Lambda left behind, or another stress test.                             *)
(***************************************************************************)
EXTENDS UnlinkScan

CONSTANTS
  StressKeys,   (* the keys under KEY_PREFIX that the stress tests write    *)
  FirstNode,    (* those of the node the plain client is connected to       *)
  ClusterMode,  (* whether the deployment is a cluster                      *)
  MaxWrites     (* bound: keys written while the cleanup runs               *)

ASSUME CleanupAssumption ==
  /\ FirstNode \subseteq StressKeys
  /\ ClusterMode \in BOOLEAN
  /\ ~ClusterMode => FirstNode = StressKeys
  /\ MaxWrites \in Nat

VARIABLES
  stage,        (* where the handler is                                     *)
  answer,       (* status and keys_deleted of the response                  *)
  writes        (* keys written so far                                      *)

cleanupVars == <<keys, scan, stage, answer, writes>>

NoAnswer == [status |-> "none", keys_deleted |-> 0]

CleanupInit ==
  /\ keys \in SUBSET StressKeys
  /\ scan = ScanIdle
  /\ stage = "connect"
  /\ answer = NoAnswer
  /\ writes = 0

-------------------------------------------------------------------------------
(* Valkey and the writers. *)

Write(k) ==
  /\ writes < MaxWrites
  /\ keys' = keys \cup {k}
  /\ writes' = writes + 1
  /\ UNCHANGED <<scan, stage, answer>>

(* Expiry or eviction. *)
Expire(k) ==
  /\ k \in keys
  /\ keys' = keys \ {k}
  /\ scan' = Keyspace(scan, keys')
  /\ UNCHANGED <<stage, answer, writes>>

-------------------------------------------------------------------------------
(* The handler. *)

(* get_redis_client, ping, _is_cluster_enabled: an INFO that fails counts  *)
(* as "not a cluster".  The plain client scans one node.                   *)
Connect ==
  /\ stage = "connect"
  /\ stage' = "sweep"
  /\ \E cluster_enabled \in {ClusterMode, FALSE} :
       ScanStart(IF cluster_enabled THEN StressKeys ELSE FirstNode)
  /\ UNCHANGED <<answer, writes>>

ScanStep ==
  /\ stage = "sweep"
  /\ Scan
  /\ UNCHANGED <<stage, answer, writes>>

(* Any exception: 500. *)
Error ==
  /\ stage = "connect" \/ (stage = "sweep" /\ scan.state = "error")
  /\ stage' = "answered"
  /\ answer' = [status |-> "error", keys_deleted |-> 0]
  /\ UNCHANGED <<keys, scan, writes>>

(* Whether the loop ended or gave up, the response says "complete". *)
Respond ==
  /\ stage = "sweep" /\ scan.state \in {"complete", "stopped"}
  /\ stage' = "answered"
  /\ answer' = [status |-> "complete", keys_deleted |-> scan.deleted]
  /\ UNCHANGED <<keys, scan, writes>>

CleanupNext ==
  \/ \E k \in StressKeys : Write(k) \/ Expire(k)
  \/ Connect \/ ScanStep \/ Error \/ Respond

CleanupSpec == CleanupInit /\ [][CleanupNext]_cleanupVars

-------------------------------------------------------------------------------
(* Properties. *)

TypeOK ==
  /\ keys \in SUBSET StressKeys
  /\ scan \in ScanType(StressKeys) /\ Len(scan.batch) < BatchSize
  /\ stage \in {"connect", "sweep", "answered"}
  /\ answer \in [status : {"none", "complete", "error"}, keys_deleted : Nat]
  /\ writes \in 0..MaxWrites

Complete == answer.status = "complete"

(* An iteration that saw every node and was not cut short removes every    *)
(* key that was there when it began, whatever is written meanwhile.        *)
FullSweepRemovesOldKeys ==
  Complete /\ scan.state = "complete" /\ scan.scope = StressKeys => scan.old = {}

(* keys_deleted never understates what this invocation removed, and what   *)
(* it overstates are keys returned twice or gone before their UNLINK.      *)
DeletedCoversUnlinked == Complete => answer.keys_deleted >= scan.unlinked

===============================================================================
