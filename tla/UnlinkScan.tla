------------------------------ MODULE UnlinkScan ------------------------------
(***************************************************************************)
(* The loop that removes the stress keys, written three times in the code: *)
(* _cleanup_with_cluster and _cleanup_with_standalone of cleanup.py and    *)
(* _cleanup_stress_keys of memory_stress.py.  It iterates over SCAN,       *)
(* collects a batch, UNLINKs every full batch and the rest at the end, and *)
(* gives up after a full batch when the Lambda is short of time.           *)
(*                                                                         *)
(* SCAN is external and is modelled by its guarantee: a key that is there  *)
(* from the beginning of the iteration to its end is returned; any other   *)
(* key may be returned or not, and a key may be returned again.            *)
(***************************************************************************)
EXTENDS Integers, Sequences, FiniteSets

CONSTANTS
  BatchSize,    (* batch_size                                               *)
  MaxRepeats    (* bound: keys one iteration returns beyond the guarantee   *)

ASSUME UnlinkScanAssumption == BatchSize \in Nat \ {0} /\ MaxRepeats \in Nat

VARIABLES
  keys,         (* the stress keys in Valkey                                *)
  scan          (* the state of the loop, a record: see ScanType            *)

(* state: where the loop is.  scope: the keys its client can see.          *)
(* owed: keys the iteration must still return.  batch: keys_batch.         *)
(* deleted: the counter of that name.  unlinked: how many keys it really   *)
(* removed.  old: keys that have been there since it began.                *)
ScanType(K) ==
  [state : {"idle", "scanning", "complete", "stopped", "error"},
   scope : SUBSET K, owed : SUBSET K, batch : Seq(K),
   repeats : 0..MaxRepeats, deleted : Nat, unlinked : Nat, old : SUBSET K]

ScanIdle == [state |-> "idle", scope |-> {}, owed |-> {}, batch |-> << >>,
             repeats |-> 0, deleted |-> 0, unlinked |-> 0, old |-> {}]

(* What any change of the keyspace to K means for a running iteration: a   *)
(* key that is removed is no longer owed.                                  *)
Keyspace(s, K) == [s EXCEPT !.owed = @ \cap K, !.old = @ \cap K]

ScanStart(scope) ==
  /\ scan.state = "idle"
  /\ scan' = [ScanIdle EXCEPT !.state = "scanning", !.scope = scope,
                              !.owed = keys \cap scope, !.old = keys]
  /\ UNCHANGED keys

BatchKeys == {scan.batch[i] : i \in DOMAIN scan.batch}

(* _unlink_keys_safely on the keys of b, n of them counted as deleted. *)
Unlink(s, b, n, next) ==
  /\ keys' = keys \ b
  /\ scan' = [Keyspace(s, keys \ b) EXCEPT
                !.state = next, !.batch = << >>, !.deleted = @ + n,
                !.unlinked = @ + Cardinality(b \cap keys)]

(* SCAN returns key k. *)
Returned(k) ==
  [scan EXCEPT !.owed = @ \ {k}, !.batch = Append(@, k),
               !.repeats = IF k \in scan.owed THEN @ ELSE @ + 1]

MayReturn(k) ==
  /\ scan.state = "scanning"
  /\ k \in keys \cap scan.scope
  /\ k \in scan.owed \/ scan.repeats < MaxRepeats

(* Mutant: the batch is unlinked when it is over its size. *)
ScanCollect_Overfull(k) ==
  /\ MayReturn(k) /\ Len(scan.batch) + 1 <= BatchSize
  /\ scan' = Returned(k)
  /\ UNCHANGED keys

ScanCollect(k) ==
  /\ MayReturn(k) /\ Len(scan.batch) + 1 < BatchSize
  /\ scan' = Returned(k)
  /\ UNCHANGED keys

(* A full batch is unlinked and counted; then the remaining time is read.  *)
ScanFlush(k) ==
  /\ MayReturn(k) /\ Len(scan.batch) + 1 >= BatchSize
  /\ \E next \in {"scanning", "stopped"} :
       Unlink(Returned(k), BatchKeys \cup {k}, BatchSize, next)

(* Mutants: what is left of the last batch is forgotten; it is unlinked    *)
(* but not counted.                                                        *)
ScanEnd_LastBatchKept ==
  /\ scan.state = "scanning" /\ scan.owed = {}
  /\ scan' = [scan EXCEPT !.state = "complete"]
  /\ UNCHANGED keys

ScanEnd_LastBatchNotCounted ==
  /\ scan.state = "scanning" /\ scan.owed = {}
  /\ Unlink(scan, BatchKeys, 0, "complete")

(* The iteration is over: the rest of the batch is unlinked. *)
ScanEnd ==
  /\ scan.state = "scanning" /\ scan.owed = {}
  /\ Unlink(scan, BatchKeys, Len(scan.batch), "complete")

(* SCAN or the pipeline raises; part of the batch may have been unlinked.  *)
ScanError ==
  /\ scan.state = "scanning"
  /\ \E b \in SUBSET BatchKeys : Unlink(scan, b, 0, "error")

Scan == \/ \E k \in keys : ScanCollect(k) \/ ScanFlush(k)
        \/ ScanEnd \/ ScanError

===============================================================================
