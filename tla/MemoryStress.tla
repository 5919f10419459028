----------------------------- MODULE MemoryStress -----------------------------
(***************************************************************************)
(* One invocation of the Valkey memory-stress Lambda                       *)
(* (elasticache-stress-test/src/memory_stress.py), phased and flat mode.   *)
(*                                                                         *)
(* The handler starts the writers of a phase, joins each with a timeout,   *)
(* then tops the memory up with further writers until used_memory reaches  *)
(* the phase's target, and at the end unlinks every key under the prefix.  *)
(* A writer whose join timed out keeps writing, into later phases and into *)
(* the clean-up, for as long as the handler runs.                          *)
(*                                                                         *)
(* Memory is counted in bytes: a write is planned by the size of its       *)
(* value, and costs what the server takes for it.  A key that is written   *)
(* again takes no more.  All the keys of a writer share a hash tag, so     *)
(* they live on one node.                                                  *)
(***************************************************************************)
EXTENDS UnlinkScan, Functions

CONSTANTS
  Configs,       (* the environments to consider, records: see ConfigType   *)
  MaxFills,      (* top-up attempts of a phase, 5 in the code               *)
  MaxMemory,     (* maxmemory: a write beyond it is refused                 *)
  MaxFaults,     (* bound: clients and pipelines that raise                 *)
  MaxTimeouts    (* bound: joins that time out                              *)

(* flat: no MEMORY_PHASE_TARGET_PERCENT, so _legacy_run; one phase then.   *)
(* targets: target_bytes of each phase.                                    *)
(* workers: MEMORY_PHASE_WORKERS, or <<MEMORY_WORKERS>>.                   *)
(* keys_per_worker: MEMORY_KEYS_PER_WORKER (flat mode).                    *)
(* pipeline: MEMORY_PIPELINE_SIZE.                                         *)
(* value: value_size_bytes; cost: what a stored key adds to used_memory.   *)
(* before: used_memory that is not stress keys.                            *)
(* leftover: stress keys that an earlier invocation has left.              *)
(* cleanup: MEMORY_CLEANUP_AFTER_STRESS.                                   *)
(* near: the writers whose keys live on the node that answers INFO, which  *)
(* is also the one a plain client is connected to.                         *)
(* plain: CLUSTER_MODE is "false", the workers' clients are plain.         *)
(* expiry: keys may go by themselves, by a TTL or an eviction policy.      *)
ConfigType ==
  [flat : BOOLEAN, targets : Seq(1..MaxMemory), workers : Seq(Nat \ {0}),
   keys_per_worker : Nat, pipeline : Nat \ {0}, value : Nat \ {0},
   cost : Nat, before : 0..MaxMemory, leftover : SUBSET (Nat \X Nat),
   cleanup : BOOLEAN, near : SUBSET Nat, plain : BOOLEAN, expiry : BOOLEAN]

ASSUME MemoryAssumption ==
  /\ {MaxMemory, MaxFaults, MaxTimeouts} \subseteq Nat
  /\ MaxFills \in 2..10
  /\ \A c \in Configs :
       /\ c \in ConfigType /\ Len(c.workers) > 0 /\ c.value <= c.cost
       /\ IF c.flat THEN Len(c.workers) = 1 ELSE Len(c.targets) = Len(c.workers)

VARIABLES
  config,        (* the environment of this invocation, never changed       *)
  writer,        (* the threads, a record for each: see Writers             *)
  pc,            (* where the handler is                                    *)
  phase,         (* phase_idx + 1                                           *)
  current_used,  (* used_memory read at the end of the last phase           *)
  joining,       (* index of the worker being joined                        *)
  attempt,       (* fill_attempt                                            *)
  keys_written,  (* the sum of keys_written of the phases so far            *)
  write_errors,  (* the sum of their errors                                 *)
  abandoned,     (* writers whose join timed out                            *)
  faults         (* exceptions so far                                       *)

threadVars == <<config, writer, faults>>
handlerVars == <<pc, phase, current_used, joining, attempt,
                 keys_written, write_errors, abandoned>>
vars == <<keys, scan, threadVars, handlerVars>>

Phases == 1..Len(config.workers)

(* Mutant: the number of a top-up does not depend on the phase. *)
FillId_NoPhase(p, a) == 900 + a

FillId(p, a) == 900 + 10 * (p - 1) + a

WorkerIds(p) == 0..(config.workers[p] - 1)

(* A thread is <<phase, id, attempt>>: a phase's worker has attempt 0, the *)
(* top-ups count from 1.  The key it writes depends on id alone.           *)
WorkersOf(c, p) == {<<p, id, 0>> : id \in 0..(c.workers[p] - 1)}
FillsOf(p) == {<<p, FillId(p, a), a + 1>> : a \in 0..(MaxFills - 1)}
PhaseWriters(p) == WorkersOf(config, p)

(* Every thread of an invocation, whatever its environment. *)
Writers ==
  UNION {UNION {WorkersOf(c, p) \cup FillsOf(p) : p \in DOMAIN c.workers} : c \in Configs}

Indexes == UNION {0..(MaxMemory + c.keys_per_worker) : c \in Configs}
Keys == {w[2] : w \in Writers} \X Indexes

ASSUME LeftoverAssumption ==
  \A c \in Configs : c.leftover \subseteq Keys /\ IsFiniteSet(c.leftover)

NodeOf(id) == id \in config.near
OnNode(K, b) == Cardinality({k \in K : NodeOf(k[1]) = b})

(* used_memory, as INFO of one node tells it. *)
Used == config.before + config.cost * OnNode(keys, TRUE)
Room(K) == \A b \in BOOLEAN : config.before + config.cost * OnNode(K, b) <= MaxMemory

Unstarted == [state |-> "none", quota |-> 0, i |-> 0, written |-> 0, errors |-> 0]
Started(n) == [Unstarted EXCEPT !.state = "opening", !.quota = n]
Finished == {"complete", "error"}

Init ==
  /\ config \in Configs
  /\ keys = config.leftover
  /\ scan = ScanIdle
  /\ writer = [w \in Writers |-> Unstarted]
  /\ pc = "phase"
  /\ phase = 1
  /\ current_used = Used
  /\ joining = 0
  /\ attempt = 0
  /\ keys_written = 0
  /\ write_errors = 0
  /\ abandoned = {}
  /\ faults = 0

-------------------------------------------------------------------------------
(* memory_worker, one thread.  After the handler's return the sandbox is   *)
(* frozen.                                                                 *)

HandlerRuns == pc \notin {"returned", "failed"}

Fault == faults < MaxFaults /\ faults' = faults + 1

WriterOpen(w) ==
  /\ HandlerRuns /\ writer[w].state = "opening"
  /\ \/ /\ writer' = [writer EXCEPT ![w].state = "writing"]
        /\ UNCHANGED faults
     \/ /\ Fault
        /\ writer' = [writer EXCEPT ![w].state = "error", ![w].errors = 1]
  /\ UNCHANGED <<keys, scan, config, handlerVars>>

Batch(w) == LET b == writer[w] IN
  IF b.quota - b.i < config.pipeline THEN b.quota - b.i ELSE config.pipeline

(* The first n keys of the batch. *)
BatchPrefix(w, n) == {<<w[2], writer[w].i + j>> : j \in 0..(n - 1)}

(* A MOVED error for a plain client whose key lives on another node. *)
Reachable(w) == config.plain => NodeOf(w[2])

(* Mutant: a pipeline that raises is not counted as an error. *)
WriterBatch_ErrorNotCounted(w) ==
  /\ HandlerRuns /\ writer[w].state = "writing" /\ writer[w].i < writer[w].quota
  /\ \E m \in 0..Batch(w) :
       /\ m > 0 => Reachable(w) /\ Room(keys \cup BatchPrefix(w, m))
       /\ keys' = keys \cup BatchPrefix(w, m)
       /\ IF m = Batch(w)
          THEN /\ writer' = [writer EXCEPT ![w].i = @ + m, ![w].written = @ + m]
               /\ UNCHANGED faults
          ELSE /\ Fault
               /\ writer' = [writer EXCEPT ![w].i = @ + Batch(w)]
  /\ UNCHANGED <<scan, config, handlerVars>>

(* pipe.execute(): every SET of the batch is applied; or it raises, after  *)
(* applying some of them, and the batch counts as one error.  It raises    *)
(* when memory runs out.  The next batch goes on behind it either way.     *)
WriterBatch(w) ==
  /\ HandlerRuns /\ writer[w].state = "writing" /\ writer[w].i < writer[w].quota
  /\ LET n == Batch(w)
         fits == Reachable(w) /\ Room(keys \cup BatchPrefix(w, n))
     IN \/ /\ fits
           /\ keys' = keys \cup BatchPrefix(w, n)
           /\ writer' = [writer EXCEPT ![w].i = @ + n, ![w].written = @ + n]
           /\ UNCHANGED faults
        \/ /\ IF fits THEN Fault ELSE UNCHANGED faults
           /\ \E m \in 0..n :
                /\ m > 0 => Reachable(w) /\ Room(keys \cup BatchPrefix(w, m))
                /\ keys' = keys \cup BatchPrefix(w, m)
           /\ writer' = [writer EXCEPT ![w].i = @ + n, ![w].errors = @ + 1]
  /\ UNCHANGED <<scan, config, handlerVars>>

(* results[idx] is set when every batch is done. *)
WriterEnd(w) ==
  /\ HandlerRuns /\ writer[w].state = "writing" /\ writer[w].i >= writer[w].quota
  /\ writer' = [writer EXCEPT ![w].state = "complete"]
  /\ UNCHANGED <<keys, scan, config, faults, handlerVars>>

Writer(w) == WriterOpen(w) \/ WriterBatch(w) \/ WriterEnd(w)

(* A key expires or is evicted. *)
Vanish(k) ==
  /\ HandlerRuns /\ config.expiry /\ k \in keys
  /\ keys' = keys \ {k}
  /\ scan' = Keyspace(scan, keys')
  /\ UNCHANGED <<threadVars, handlerVars>>

-------------------------------------------------------------------------------
(* _run_phased and _legacy_run. *)

Shortfall(target, used) == IF used < target THEN target - used ELSE 0

(* The share of worker j: the rest goes one by one to the first ones. *)
Share(n, workers, j) == (n \div workers) + (IF j < n % workers THEN 1 ELSE 0)

(* A phase starts a writer for each share of the values that fit into the  *)
(* shortfall, as far as it is not empty; a worker without one has a result *)
(* at once.                                                                *)
PhaseStart ==
  /\ pc = "phase" /\ phase \in Phases
  /\ LET n == IF config.flat THEN 0
              ELSE Shortfall(config.targets[phase], current_used) \div config.value
         share(j) == IF config.flat THEN config.keys_per_worker ELSE Share(n, config.workers[phase], j)
     IN writer' = [w \in Writers |->
          IF w \notin PhaseWriters(phase) THEN writer[w]
          ELSE IF share(w[2]) > 0 \/ config.flat THEN Started(share(w[2]))
          ELSE [Unstarted EXCEPT !.state = "complete"]]
  /\ pc' = "join"
  /\ joining' = 0
  /\ attempt' = 0
  /\ UNCHANGED <<keys, scan, config, faults, phase, current_used, keys_written,
                 write_errors, abandoned>>

(* t.join(timeout): the thread has ended, or it is left behind. *)
Joined(w) ==
  \/ writer[w].state \in Finished /\ UNCHANGED abandoned
  \/ /\ writer[w].state \notin Finished
     /\ Cardinality(abandoned) < MaxTimeouts
     /\ abandoned' = abandoned \cup {w}

(* Mutant: the threads are not waited for. *)
Join_NotWaited ==
  /\ pc = "join" /\ joining \in WorkerIds(phase)
  /\ joining' = joining + 1
  /\ UNCHANGED <<keys, scan, threadVars, pc, phase, current_used, attempt,
                 keys_written, write_errors, abandoned>>

Join ==
  /\ pc = "join" /\ joining \in WorkerIds(phase)
  /\ Joined(<<phase, joining, 0>>)
  /\ joining' = joining + 1
  /\ UNCHANGED <<keys, scan, threadVars, pc, phase, current_used, attempt,
                 keys_written, write_errors>>

(* The results that are there: the keys of the complete ones, the errors   *)
(* of all.                                                                 *)
WithState(states) == {w \in PhaseWriters(phase) : writer[w].state \in states}
Written == [w \in Writers |-> writer[w].written]
Errors == [w \in Writers |-> writer[w].errors]

Sum ==
  /\ pc = "join" /\ joining \notin WorkerIds(phase)
  /\ keys_written' = keys_written + SumFunctionOnSet(Written, WithState({"complete"}))
  /\ write_errors' = write_errors + SumFunctionOnSet(Errors, WithState(Finished))
  /\ IF config.flat THEN pc' = "phase" /\ phase' = phase + 1
                    ELSE pc' = "check" /\ UNCHANGED phase
  /\ UNCHANGED <<keys, scan, threadVars, current_used, joining, attempt, abandoned>>

FillWriter == <<phase, FillId(phase, attempt), attempt + 1>>

(* fill_keys: the values that fit into the gap, at least one. *)
FillKeys(gap) == IF gap < config.value THEN 1 ELSE gap \div config.value

(* Mutant: the gap is computed from the memory before the phase. *)
FillCheck_StaleUsed ==
  /\ pc = "check"
  /\ IF attempt < MaxFills /\ Used < config.targets[phase]
     THEN /\ writer' = [writer EXCEPT ![FillWriter] =
                          Started(FillKeys(config.targets[phase] - current_used))]
          /\ pc' = "fill"
     ELSE pc' = "next" /\ UNCHANGED writer
  /\ UNCHANGED <<keys, scan, config, faults, phase, current_used, joining, attempt,
                 keys_written, write_errors, abandoned>>

(* The head of the top-up loop: used_memory is read again, and a writer is *)
(* started for the gap.                                                    *)
FillCheck ==
  /\ pc = "check"
  /\ IF attempt < MaxFills /\ Used < config.targets[phase]
     THEN /\ writer' = [writer EXCEPT ![FillWriter] =
                          Started(FillKeys(config.targets[phase] - Used))]
          /\ pc' = "fill"
     ELSE pc' = "next" /\ UNCHANGED writer
  /\ UNCHANGED <<keys, scan, config, faults, phase, current_used, joining, attempt,
                 keys_written, write_errors, abandoned>>

(* The top-up's join; only a complete one that wrote something is followed *)
(* by another attempt.                                                     *)
FillJoin ==
  /\ pc = "fill"
  /\ Joined(FillWriter)
  /\ LET r == writer[FillWriter] IN
     IF r.state = "complete"
     THEN /\ keys_written' = keys_written + r.written
          /\ write_errors' = write_errors + r.errors
          /\ pc' = IF r.written = 0 THEN "next" ELSE "check"
          /\ attempt' = IF r.written = 0 THEN attempt ELSE attempt + 1
     ELSE pc' = "next" /\ UNCHANGED <<keys_written, write_errors, attempt>>
  /\ UNCHANGED <<keys, scan, threadVars, phase, current_used, joining>>

(* used_memory for the next phase, the summary, and the wait for the       *)
(* phase's end.                                                            *)
PhaseEnd ==
  /\ pc = "next"
  /\ current_used' = Used
  /\ phase' = phase + 1
  /\ pc' = "phase"
  /\ UNCHANGED <<keys, scan, threadVars, joining, attempt, keys_written,
                 write_errors, abandoned>>

(* After the last phase. *)
Finish ==
  /\ pc = "phase" /\ phase \notin Phases
  /\ pc' = IF config.cleanup THEN "cleanup" ELSE "returned"
  /\ UNCHANGED <<keys, scan, threadVars, phase, current_used, joining, attempt,
                 keys_written, write_errors, abandoned>>

(* _cleanup_stress_keys: a cluster client, which sees every node, or the   *)
(* plain one when that cannot be made.                                     *)
CleanupStart ==
  /\ pc = "cleanup"
  /\ \E scope \in {Keys, {k \in Keys : NodeOf(k[1])}} : ScanStart(scope)
  /\ pc' = "sweep"
  /\ UNCHANGED <<threadVars, phase, current_used, joining, attempt, keys_written,
                 write_errors, abandoned>>

Sweep ==
  /\ pc = "sweep"
  /\ Scan
  /\ UNCHANGED <<threadVars, handlerVars>>

(* The response, also when the loop stopped early. *)
Return ==
  /\ pc = "sweep" /\ scan.state \in {"complete", "stopped"}
  /\ pc' = "returned"
  /\ UNCHANGED <<keys, scan, threadVars, phase, current_used, joining, attempt,
                 keys_written, write_errors, abandoned>>

(* INFO, a client or the clean-up raises: so does the handler, and nothing *)
(* is cleaned up.                                                          *)
Raise ==
  /\ \/ pc \in {"check", "next", "cleanup"} /\ Fault
     \/ pc = "sweep" /\ scan.state = "error" /\ UNCHANGED faults
  /\ pc' = "failed"
  /\ UNCHANGED <<keys, scan, config, writer, phase, current_used, joining, attempt,
                 keys_written, write_errors, abandoned>>

Handler ==
  \/ PhaseStart \/ Join \/ Sum \/ FillCheck \/ FillJoin \/ PhaseEnd \/ Finish
  \/ CleanupStart \/ Sweep \/ Return \/ Raise

Next ==
  \/ \E w \in Writers : Writer(w)
  \/ \E k \in keys : Vanish(k)
  \/ Handler

Spec == Init /\ [][Next]_vars

-------------------------------------------------------------------------------
(* Properties. *)

(* Every top-up of the phase so far has written all its keys, in time. *)
OneNode == {w[2] : w \in Writers} \subseteq config.near
FillsClean ==
  \A w \in Writers : w[1] = phase /\ w[3] > 0 =>
    writer[w].state \in {"none", "complete"} /\ writer[w].errors = 0 /\ w \notin abandoned

(* The ids of the top-ups begin at 900: a top-up's keys are new if no      *)
(* worker has such an id, and no earlier invocation has left some.         *)
IdsApart ==
  /\ \A p \in Phases : config.workers[p] <= 900
  /\ \A k \in config.leftover : k[1] < 900

(* A phase ends at its target, whatever happened to its workers: although  *)
(* they write again over the keys of earlier phases, and may fail or be    *)
(* left behind, and the values never fit the gap exactly, the top-ups fill *)
(* the rest, unless one of them failed.  (INFO answers for one node: with  *)
(* several the target is missed.)                                          *)
PhaseReachesTarget ==
  pc = "next" /\ FillsClean /\ OneNode /\ IdsApart /\ ~config.expiry
    => Used >= config.targets[phase]

(* The ramp passes the highest target so far by less than one value and    *)
(* what the stored keys cost beyond their values, as long as no thread was *)
(* left behind, whatever failed and whatever was stored before.            *)
Payload == config.before + config.value * OnNode(keys, TRUE)
Within(n) ==
  \/ n <= config.before + config.value * OnNode(config.leftover, TRUE)
  \/ \E p \in Phases : p <= phase /\ n < config.targets[p] + config.value
RampWithinTarget == ~config.flat /\ abandoned = {} => Within(Payload)

(* When every thread was joined and nothing failed, the keys the response  *)
(* tells of cover the keys that this invocation has stored.                *)
ReportCoversKeys ==
  pc \in {"cleanup", "sweep", "returned"} /\ abandoned = {} /\ write_errors = 0
    => Cardinality(keys \ config.leftover) <= keys_written

(* A clean-up that saw every node and ran to its end leaves nothing under  *)
(* the prefix when every thread was joined.                                *)
NothingLeftBehind ==
  pc = "returned" /\ scan.state = "complete" /\ scan.scope = Keys /\ abandoned = {}
    => keys = {}

(* "automatically unlinks all stress keys before returning" (violated by a *)
(* thread left behind, see README).                                        *)
NoKeysAfterReturn == pc = "returned" /\ scan.state = "complete" => keys = {}

===============================================================================
