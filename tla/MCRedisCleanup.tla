---------------------------- MODULE MCRedisCleanup ----------------------------
(* Small instances of RedisCleanup for TLC: four keys, the first two on   *)
(* the node the plain client sees when the deployment is a cluster.        *)
EXTENDS RedisCleanup

MCKeys == 1..4
MCFirstNode == IF ClusterMode THEN {1, 2} ELSE MCKeys

===============================================================================
