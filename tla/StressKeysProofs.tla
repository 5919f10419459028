--------------------------- MODULE StressKeysProofs -----------------------------
(***************************************************************************)
(* Theorems about the Lambdas that remove the stress keys, RedisCleanup    *)
(* and MemoryStress, for any keys, nodes, batch sizes, environments,       *)
(* faults and joins that time out.  First what the loop of UnlinkScan,     *)
(* which both run, preserves.                                              *)
(***************************************************************************)
EXTENDS RedisCleanup, MemoryStress, SumLemmas, SequenceTheorems

ScanTyped(K) ==
  /\ keys \in SUBSET K
  /\ scan \in ScanType(K)
  /\ Len(scan.batch) < BatchSize

(* A key that is there since the iteration began, on a node it can see, is *)
(* still to be returned or in the batch; at the end there is none.         *)
OldKeysFound ==
  /\ scan.state = "scanning" => scan.old \cap scan.scope \subseteq scan.owed \cup BatchKeys
  /\ scan.state = "complete" => scan.old \cap scan.scope = {}

CountCovers == scan.state # "error" => scan.deleted >= scan.unlinked

ScanInv(K) == ScanTyped(K) /\ OldKeysFound /\ CountCovers

(* The elements of a sequence are a finite set of keys, no larger than it. *)
LEMMA ElementsBound ==
  ASSUME NEW K, NEW s \in Seq(K)
  PROVE  LET S == {s[i] : i \in DOMAIN s}
         IN  S \in SUBSET K /\ IsFiniteSet(S) /\ Cardinality(S) <= Len(s)
<1> DEFINE S == {s[i] : i \in DOMAIN s}
<1>1. /\ Len(s) \in Nat
      /\ s \in [1..Len(s) -> K]
      /\ DOMAIN s = 1..Len(s)
  BY LenProperties
<1>2. S \in SUBSET K
  BY <1>1
<1>3. s \in Surjection(1..Len(s), S)
  BY <1>1 DEF Surjection
<1>4. IsFiniteSet(S)
  BY <1>1, <1>3, FS_Interval, FS_Surjection
<1>5. Cardinality(S) <= Len(s)
  BY <1>1, <1>3, FS_SurjCardinalityBound DEF ExistsSurjection
<1> QED
  BY <1>2, <1>4, <1>5

(* The loop begins. *)
LEMMA StartKeeps ==
  ASSUME NEW K, ScanInv(K), NEW scope \in SUBSET K, ScanStart(scope)
  PROVE  ScanInv(K)'
<1>1. << >> \in Seq(K) /\ Len(<< >>) = 0
  BY EmptySeq
<1>2. scan' = [state |-> "scanning", scope |-> scope, owed |-> keys \cap scope,
               batch |-> << >>, repeats |-> 0, deleted |-> 0, unlinked |-> 0,
               old |-> keys]
  BY DEF ScanStart, ScanIdle
<1>3. keys' = keys /\ keys \in SUBSET K
  BY DEF ScanStart, ScanInv, ScanTyped
<1>4. ScanTyped(K)'
  <2>1. scan' \in ScanType(K)
    BY <1>1, <1>2, <1>3, UnlinkScanAssumption DEF ScanType
  <2> QED
    BY <1>1, <1>2, <1>3, <2>1, UnlinkScanAssumption DEF ScanTyped
<1>5. OldKeysFound' /\ CountCovers'
  BY <1>2, <1>3 DEF OldKeysFound, CountCovers
<1> QED
  BY <1>4, <1>5 DEF ScanInv

(* Appending the key SCAN returned. *)
LEMMA ReturnedKey ==
  ASSUME NEW K, ScanTyped(K), NEW k, MayReturn(k)
  PROVE  /\ k \in K
         /\ Returned(k) \in ScanType(K)
         /\ Returned(k).batch = Append(scan.batch, k)
         /\ Returned(k).owed = scan.owed \ {k}
         /\ Returned(k).state = scan.state
         /\ Returned(k).scope = scan.scope
         /\ Returned(k).old = scan.old
         /\ Returned(k).deleted = scan.deleted
         /\ Returned(k).unlinked = scan.unlinked
         /\ {Returned(k).batch[i] : i \in DOMAIN Returned(k).batch} = BatchKeys \cup {k}
         /\ Len(Returned(k).batch) = Len(scan.batch) + 1
<1>1. k \in K
  BY DEF MayReturn, ScanTyped
<1>2. scan.batch \in Seq(K)
  BY DEF ScanTyped, ScanType
<1>3. /\ Append(scan.batch, k) \in Seq(K)
      /\ Len(Append(scan.batch, k)) = Len(scan.batch) + 1
  BY <1>1, <1>2
<1>4. {Append(scan.batch, k)[i] : i \in DOMAIN Append(scan.batch, k)} = BatchKeys \cup {k}
  <2>1. /\ DOMAIN Append(scan.batch, k) = 1..(Len(scan.batch) + 1)
        /\ DOMAIN scan.batch = 1..Len(scan.batch)
        /\ Len(scan.batch) \in Nat
    BY <1>2, <1>3, LenProperties
  <2>2. /\ \A i \in 1..Len(scan.batch) : Append(scan.batch, k)[i] = scan.batch[i]
        /\ Append(scan.batch, k)[Len(scan.batch) + 1] = k
    BY <1>1, <1>2
  <2> QED
    BY <2>1, <2>2 DEF BatchKeys
<1>5. Returned(k) \in ScanType(K)
  <2> DEFINE n == IF k \in scan.owed THEN scan.repeats ELSE scan.repeats + 1
             r == [state |-> scan.state, scope |-> scan.scope, owed |-> scan.owed \ {k},
                   batch |-> Append(scan.batch, k), repeats |-> n,
                   deleted |-> scan.deleted, unlinked |-> scan.unlinked, old |-> scan.old]
  <2>1. Returned(k) = r
    <3> HIDE DEF n
    <3>1. Returned(k) = [scan EXCEPT !.owed = @ \ {k}, !.batch = Append(@, k), !.repeats = n]
      BY DEF Returned, n
    <3> QED
      BY <3>1 DEF ScanTyped, ScanType
  <2>2. n \in 0..MaxRepeats
    BY UnlinkScanAssumption DEF MayReturn, ScanTyped, ScanType
  <2>3. /\ scan.state \in {"idle", "scanning", "complete", "stopped", "error"}
        /\ scan.scope \in SUBSET K /\ scan.owed \ {k} \in SUBSET K
        /\ scan.deleted \in Nat /\ scan.unlinked \in Nat /\ scan.old \in SUBSET K
    BY DEF ScanTyped, ScanType
  <2> QED
    BY <1>3, <2>1, <2>2, <2>3 DEF ScanType
<1> QED
  BY <1>1, <1>3, <1>4, <1>5 DEF Returned, ScanTyped, ScanType

LEMMA CollectKeeps ==
  ASSUME NEW K, ScanInv(K), NEW k, ScanCollect(k)
  PROVE  ScanInv(K)'
<1>1. MayReturn(k) /\ ScanTyped(K)
  BY DEF ScanCollect, ScanInv
<1>2. /\ scan' = Returned(k) /\ keys' = keys
      /\ Len(scan.batch) + 1 < BatchSize
  BY DEF ScanCollect
<1>3. ScanTyped(K)'
  BY <1>1, <1>2, ReturnedKey DEF ScanTyped
<1>4. BatchKeys' = BatchKeys \cup {k}
  BY <1>1, <1>2, ReturnedKey DEF BatchKeys
<1>5. OldKeysFound'
  BY <1>1, <1>2, <1>4, ReturnedKey DEF OldKeysFound, ScanInv, MayReturn
<1>6. CountCovers'
  BY <1>1, <1>2, ReturnedKey DEF CountCovers, ScanInv
<1> QED
  BY <1>3, <1>5, <1>6 DEF ScanInv

(* Unlinking the finite set b, counted as n, from the loop's state s: what *)
(* the fields are afterwards.                                              *)
LEMMA UnlinkResult ==
  ASSUME NEW K, keys \in SUBSET K, NEW STATE s, s \in ScanType(K),
         NEW STATE b, IsFiniteSet(b), NEW STATE n, n \in Nat,
         NEW next \in {"scanning", "complete", "stopped", "error"},
         Unlink(s, b, n, next)
  PROVE  /\ keys' = keys \ b
         /\ scan' = [state |-> next, scope |-> s.scope, owed |-> s.owed \cap (keys \ b),
                     batch |-> << >>, repeats |-> s.repeats, deleted |-> s.deleted + n,
                     unlinked |-> s.unlinked + Cardinality(b \cap keys),
                     old |-> s.old \cap (keys \ b)]
         /\ ScanTyped(K)'
         /\ BatchKeys' = {}
<1> DEFINE c == Cardinality(b \cap keys)
<1>1. c \in Nat
  BY FS_CardinalityType, FS_Subset
<1>2. /\ keys' = keys \ b
      /\ scan' = [state |-> next, scope |-> s.scope, owed |-> s.owed \cap (keys \ b),
                  batch |-> << >>, repeats |-> s.repeats, deleted |-> s.deleted + n,
                  unlinked |-> s.unlinked + c, old |-> s.old \cap (keys \ b)]
  BY DEF Unlink, Keyspace, ScanType
<1>3. << >> \in Seq(K) /\ Len(<< >>) = 0
  BY EmptySeq
<1>4. scan' \in ScanType(K)
  <2> HIDE DEF c
  <2>1. /\ s.scope \in SUBSET K /\ s.owed \in SUBSET K /\ s.repeats \in 0..MaxRepeats
        /\ s.deleted + n \in Nat /\ s.unlinked + c \in Nat /\ s.old \in SUBSET K
    BY <1>1 DEF ScanType
  <2> QED
    BY <1>2, <1>3, <2>1 DEF ScanType
<1>5. ScanTyped(K)'
  BY <1>2, <1>3, <1>4, UnlinkScanAssumption DEF ScanTyped
<1>6. BatchKeys' = {}
  BY <1>2 DEF BatchKeys
<1> QED
  BY <1>2, <1>5, <1>6

LEMMA FlushKeeps ==
  ASSUME NEW K, ScanInv(K), NEW k, ScanFlush(k)
  PROVE  ScanInv(K)'
<1> DEFINE b == BatchKeys \cup {k}
<1>1. MayReturn(k) /\ ScanTyped(K) /\ keys \in SUBSET K
  BY DEF ScanFlush, ScanInv, ScanTyped
<1>2. PICK next \in {"scanning", "stopped"} : Unlink(Returned(k), b, BatchSize, next)
  BY DEF ScanFlush
<1>3. /\ scan.batch \in Seq(K) /\ Len(scan.batch) \in Nat
      /\ Len(scan.batch) + 1 = BatchSize
  <2>1. scan.batch \in Seq(K) /\ Len(scan.batch) < BatchSize
    BY <1>1 DEF ScanTyped, ScanType
  <2>2. Len(scan.batch) + 1 >= BatchSize
    BY DEF ScanFlush
  <2> QED
    BY <2>1, <2>2, LenProperties, UnlinkScanAssumption
<1>4. /\ IsFiniteSet(b)
      /\ Cardinality(b) \in Nat /\ Cardinality(b) <= BatchSize
  <2>1. IsFiniteSet(BatchKeys) /\ Cardinality(BatchKeys) <= Len(scan.batch)
    BY <1>3, ElementsBound DEF BatchKeys
  <2>2. /\ IsFiniteSet(b)
        /\ Cardinality(b) = Cardinality(BatchKeys)
             \/ Cardinality(b) = Cardinality(BatchKeys) + 1
    BY <2>1, FS_AddElement
  <2>3. Cardinality(BatchKeys) \in Nat /\ Cardinality(b) \in Nat
    BY <2>1, <2>2, FS_CardinalityType
  <2> QED
    BY <1>3, <2>1, <2>2, <2>3, UnlinkScanAssumption
<1>5. /\ Cardinality(b \cap keys) \in Nat
      /\ Cardinality(b \cap keys) <= BatchSize
  <2>1. IsFiniteSet(b \cap keys) /\ Cardinality(b \cap keys) <= Cardinality(b)
    BY <1>4, FS_Subset
  <2> QED
    BY <1>4, <2>1, FS_CardinalityType, UnlinkScanAssumption
<1>6. BatchSize \in Nat
  BY UnlinkScanAssumption
<1>7. Returned(k) \in ScanType(K)
  BY <1>1, ReturnedKey
<1>8. /\ keys' = keys \ b
      /\ scan' = [state |-> next, scope |-> Returned(k).scope,
                  owed |-> Returned(k).owed \cap (keys \ b),
                  batch |-> << >>, repeats |-> Returned(k).repeats,
                  deleted |-> Returned(k).deleted + BatchSize,
                  unlinked |-> Returned(k).unlinked + Cardinality(b \cap keys),
                  old |-> Returned(k).old \cap (keys \ b)]
      /\ ScanTyped(K)'
      /\ BatchKeys' = {}
  <2> HIDE DEF b
  <2>1. next \in {"scanning", "complete", "stopped", "error"}
    OBVIOUS
  <2> QED
    BY <1>1, <1>2, <1>4, <1>6, <1>7, <2>1, UnlinkResult, Zenon
<1>9. /\ scan'.state = next /\ scan'.scope = scan.scope
      /\ scan'.owed = (scan.owed \ {k}) \cap (keys \ b)
      /\ scan'.old = scan.old \cap (keys \ b)
      /\ scan'.deleted = scan.deleted + BatchSize
      /\ scan'.unlinked = scan.unlinked + Cardinality(b \cap keys)
  BY <1>1, <1>8, ReturnedKey
<1>10. OldKeysFound'
  BY <1>1, <1>8, <1>9 DEF OldKeysFound, ScanInv, MayReturn
<1>11. CountCovers'
  <2>1. scan.deleted \in Nat /\ scan.unlinked \in Nat /\ scan.deleted >= scan.unlinked
    BY <1>1 DEF ScanInv, CountCovers, MayReturn, ScanTyped, ScanType
  <2> QED
    BY <1>5, <1>6, <1>9, <2>1 DEF CountCovers
<1> QED
  BY <1>8, <1>10, <1>11 DEF ScanInv

LEMMA EndKeeps ==
  ASSUME NEW K, ScanInv(K), ScanEnd
  PROVE  ScanInv(K)'
<1>1. /\ keys \in SUBSET K /\ scan \in ScanType(K) /\ scan.batch \in Seq(K)
      /\ scan.state = "scanning" /\ scan.owed = {}
      /\ Unlink(scan, BatchKeys, Len(scan.batch), "complete")
  BY DEF ScanEnd, ScanInv, ScanTyped, ScanType
<1>2. /\ Len(scan.batch) \in Nat
      /\ IsFiniteSet(BatchKeys) /\ Cardinality(BatchKeys) <= Len(scan.batch)
  <2>1. Len(scan.batch) \in Nat
    BY <1>1, LenProperties
  <2> QED
    BY <1>1, <2>1, ElementsBound DEF BatchKeys
<1>3. /\ keys' = keys \ BatchKeys
      /\ scan' = [state |-> "complete", scope |-> scan.scope,
                  owed |-> scan.owed \cap (keys \ BatchKeys),
                  batch |-> << >>, repeats |-> scan.repeats,
                  deleted |-> scan.deleted + Len(scan.batch),
                  unlinked |-> scan.unlinked + Cardinality(BatchKeys \cap keys),
                  old |-> scan.old \cap (keys \ BatchKeys)]
      /\ ScanTyped(K)'
  BY <1>1, <1>2, UnlinkResult
<1>4. OldKeysFound'
  BY <1>1, <1>3 DEF OldKeysFound, ScanInv
<1>5. CountCovers'
  <2>1. /\ Cardinality(BatchKeys) \in Nat /\ IsFiniteSet(BatchKeys \cap keys)
        /\ Cardinality(BatchKeys \cap keys) <= Cardinality(BatchKeys)
    BY <1>2, FS_Subset, FS_CardinalityType
  <2>2. Cardinality(BatchKeys \cap keys) \in Nat
    BY <2>1, FS_CardinalityType
  <2>3. scan.deleted \in Nat /\ scan.unlinked \in Nat /\ scan.deleted >= scan.unlinked
    BY <1>1 DEF ScanInv, CountCovers, ScanType
  <2>4. /\ scan'.deleted = scan.deleted + Len(scan.batch)
        /\ scan'.unlinked = scan.unlinked + Cardinality(BatchKeys \cap keys)
    BY <1>3
  <2> QED
    BY <1>2, <2>1, <2>2, <2>3, <2>4 DEF CountCovers
<1> QED
  BY <1>3, <1>4, <1>5 DEF ScanInv

LEMMA ErrorKeeps ==
  ASSUME NEW K, ScanInv(K), ScanError
  PROVE  ScanInv(K)'
<1>1. /\ keys \in SUBSET K /\ scan \in ScanType(K) /\ scan.batch \in Seq(K)
  BY DEF ScanInv, ScanTyped, ScanType
<1>2. PICK b \in SUBSET BatchKeys : Unlink(scan, b, 0, "error")
  BY DEF ScanError
<1>3. IsFiniteSet(b)
  BY <1>1, ElementsBound, FS_Subset DEF BatchKeys
<1>4. ScanTyped(K)' /\ scan'.state = "error"
  <2>1. 0 \in Nat /\ "error" \in {"scanning", "complete", "stopped", "error"}
    OBVIOUS
  <2>2. /\ ScanTyped(K)'
        /\ scan' = [state |-> "error", scope |-> scan.scope,
                    owed |-> scan.owed \cap (keys \ b),
                    batch |-> << >>, repeats |-> scan.repeats, deleted |-> scan.deleted + 0,
                    unlinked |-> scan.unlinked + Cardinality(b \cap keys),
                    old |-> scan.old \cap (keys \ b)]
    BY <1>1, <1>2, <1>3, <2>1, UnlinkResult, Zenon
  <2> QED
    BY <2>2
<1> QED
  BY <1>4 DEF ScanInv, OldKeysFound, CountCovers

(* Every step of the loop keeps its invariant. *)
LEMMA ScanKeeps ==
  ASSUME NEW K, ScanInv(K), Scan
  PROVE  ScanInv(K)'
BY CollectKeeps, FlushKeeps, EndKeeps, ErrorKeeps DEF Scan

(* So does a key that is written while the loop runs ... *)
LEMMA WrittenKeeps ==
  ASSUME NEW K, ScanInv(K), keys' \in SUBSET K, UNCHANGED scan
  PROVE  ScanInv(K)'
BY DEF ScanInv, ScanTyped, OldKeysFound, CountCovers, BatchKeys

(* ... and one that vanishes. *)
LEMMA VanishedKeeps ==
  ASSUME NEW K, ScanInv(K), keys' \in SUBSET keys, scan' = Keyspace(scan, keys')
  PROVE  ScanInv(K)'
<1>1. scan' = [state |-> scan.state, scope |-> scan.scope, owed |-> scan.owed \cap keys',
               batch |-> scan.batch, repeats |-> scan.repeats,
               deleted |-> scan.deleted, unlinked |-> scan.unlinked,
               old |-> scan.old \cap keys']
  BY DEF Keyspace, ScanInv, ScanTyped, ScanType
<1>2. /\ scan.scope \in SUBSET K /\ scan.owed \cap keys' \in SUBSET K
      /\ scan.old \cap keys' \in SUBSET K
  BY DEF ScanInv, ScanTyped, ScanType
<1>3. scan' \in ScanType(K)
  BY <1>1, <1>2 DEF ScanInv, ScanTyped, ScanType
<1>4. ScanTyped(K)'
  BY <1>1, <1>3 DEF ScanInv, ScanTyped
<1>5. OldKeysFound' /\ CountCovers'
  <2>1. BatchKeys' = BatchKeys
    BY <1>1 DEF BatchKeys
  <2> QED
    BY <1>1, <2>1 DEF ScanInv, OldKeysFound, CountCovers
<1> QED
  BY <1>4, <1>5 DEF ScanInv

-------------------------------------------------------------------------------
(* The clean-up. *)

(* What the response says is what the loop's record still says. *)
AnswerInv ==
  /\ stage # "answered" => ~Complete
  /\ Complete => /\ scan.state \in {"complete", "stopped"}
                 /\ answer.keys_deleted = scan.deleted

CleanupInv == TypeOK /\ ScanInv(StressKeys) /\ AnswerInv

LEMMA InitCleanupInv == CleanupInit => CleanupInv
<1> SUFFICES ASSUME CleanupInit PROVE CleanupInv
  OBVIOUS
<1>1. << >> \in Seq(StressKeys) /\ Len(<< >>) = 0
  BY EmptySeq
<1>2. scan \in ScanType(StressKeys) /\ Len(scan.batch) < BatchSize
  BY <1>1, UnlinkScanAssumption DEF CleanupInit, ScanIdle, ScanType
<1> QED
  BY <1>2, CleanupAssumption
     DEF CleanupInit, CleanupInv, TypeOK, ScanInv, ScanTyped, OldKeysFound, CountCovers,
         AnswerInv, Complete, NoAnswer, ScanIdle

(* One step keeps the invariant: the loop and the environment by the       *)
(* lemmas about the scan, the handler because it answers from the loop's   *)
(* final state.                                                            *)
LEMMA NextCleanupInv == CleanupInv /\ [CleanupNext]_cleanupVars => CleanupInv'
<1> SUFFICES ASSUME CleanupInv, [CleanupNext]_cleanupVars PROVE CleanupInv'
  OBVIOUS
<1> USE CleanupAssumption
<1>0. /\ keys \in SUBSET StressKeys /\ ScanInv(StressKeys) /\ AnswerInv
      /\ stage \in {"connect", "sweep", "answered"}
      /\ answer \in [status : {"none", "complete", "error"}, keys_deleted : Nat]
      /\ writes \in 0..MaxWrites
  BY DEF CleanupInv, TypeOK
<1>1. ASSUME ScanInv(StressKeys)', AnswerInv',
             stage' \in {"connect", "sweep", "answered"},
             answer' \in [status : {"none", "complete", "error"}, keys_deleted : Nat],
             writes' \in 0..MaxWrites
      PROVE  CleanupInv'
  BY <1>1 DEF CleanupInv, TypeOK, ScanInv, ScanTyped
<1>2. ASSUME NEW k \in StressKeys, Write(k) PROVE CleanupInv'
  <2>1. keys' \in SUBSET StressKeys /\ UNCHANGED <<scan, stage, answer>> /\ writes' \in 0..MaxWrites
    BY <1>0, <1>2 DEF Write
  <2>2. ScanInv(StressKeys)'
    BY <1>0, <2>1, WrittenKeeps
  <2> QED
    BY <1>0, <1>1, <2>1, <2>2 DEF AnswerInv, Complete
<1>3. ASSUME NEW k \in StressKeys, Expire(k) PROVE CleanupInv'
  <2>1. /\ keys' \in SUBSET keys /\ scan' = Keyspace(scan, keys')
        /\ UNCHANGED <<stage, answer, writes>>
    BY <1>3 DEF Expire
  <2>2. ScanInv(StressKeys)'
    BY <1>0, <2>1, VanishedKeeps
  <2>3. scan'.state = scan.state /\ scan'.deleted = scan.deleted
    BY <1>0, <2>1 DEF Keyspace, ScanInv, ScanTyped, ScanType
  <2> QED
    BY <1>0, <1>1, <2>1, <2>2, <2>3 DEF AnswerInv, Complete
<1>4. CASE Connect
  <2>1. PICK scope \in SUBSET StressKeys : ScanStart(scope)
    BY <1>4 DEF Connect
  <2>2. ScanInv(StressKeys)'
    BY <1>0, <2>1, StartKeeps
  <2> QED
    BY <1>0, <1>1, <1>4, <2>2 DEF Connect, AnswerInv, Complete
<1>5. CASE ScanStep
  <2>1. ScanInv(StressKeys)'
    BY <1>0, <1>5, ScanKeeps DEF ScanStep
  <2> QED
    BY <1>0, <1>1, <1>5, <2>1 DEF ScanStep, AnswerInv, Complete
<1>6. CASE Error
  <2>1. ScanInv(StressKeys)'
    BY <1>0, <1>6, WrittenKeeps DEF Error
  <2> QED
    BY <1>0, <1>1, <1>6, <2>1 DEF Error, AnswerInv, Complete
<1>7. CASE Respond
  <2>1. ScanInv(StressKeys)'
    BY <1>0, <1>7, WrittenKeeps DEF Respond
  <2>2. scan.deleted \in Nat
    BY <1>0 DEF ScanInv, ScanTyped, ScanType
  <2> QED
    BY <1>0, <1>1, <1>7, <2>1, <2>2 DEF Respond, AnswerInv, Complete
<1>8. CASE UNCHANGED cleanupVars
  <2>1. ScanInv(StressKeys)'
    BY <1>0, <1>8, WrittenKeeps DEF cleanupVars
  <2> QED
    BY <1>0, <1>1, <1>8, <2>1 DEF cleanupVars, AnswerInv, Complete
<1> QED
  BY <1>2, <1>3, <1>4, <1>5, <1>6, <1>7, <1>8 DEF CleanupNext

LEMMA CleanupInvariance == CleanupSpec => []CleanupInv
BY InitCleanupInv, NextCleanupInv, PTL DEF CleanupSpec

(* Every variable keeps its type, and the batch never reaches its size     *)
(* without being unlinked.                                                 *)
THEOREM CleanupTypeCorrect == CleanupSpec => []TypeOK
<1>1. CleanupInv => TypeOK
  BY DEF CleanupInv
<1> QED
  BY <1>1, CleanupInvariance, PTL

(* A clean-up that ran to its end with a client that sees every node has   *)
(* removed every key that was there when it began, whatever was written,   *)
(* evicted or returned twice meanwhile.                                    *)
THEOREM SweepIsComplete == CleanupSpec => []FullSweepRemovesOldKeys
<1>1. CleanupInv => FullSweepRemovesOldKeys
  BY DEF CleanupInv, ScanInv, ScanTyped, ScanType, OldKeysFound, FullSweepRemovesOldKeys
<1> QED
  BY <1>1, CleanupInvariance, PTL

(* keys_deleted of a complete response covers the keys this invocation     *)
(* removed.                                                                *)
THEOREM CountIsCovering == CleanupSpec => []DeletedCoversUnlinked
<1>1. CleanupInv => DeletedCoversUnlinked
  BY DEF CleanupInv, ScanInv, CountCovers, AnswerInv, DeletedCoversUnlinked
<1> QED
  BY <1>1, CleanupInvariance, PTL


-------------------------------------------------------------------------------
(* The memory stress: its threads, and the numbers of its environment.     *)

(* What the assumption says of an environment, in one place. *)
LEMMA ConfigNumbers ==
  ASSUME config \in Configs
  PROVE  /\ Phases = DOMAIN config.workers
         /\ Len(config.workers) \in Nat \ {0}
         /\ \A p \in Phases : p \in Nat \ {0} /\ config.workers[p] \in Nat \ {0}
         /\ config.keys_per_worker \in Nat /\ config.pipeline \in Nat \ {0}
         /\ config.before \in Nat
         /\ config.value \in Nat \ {0} /\ config.cost \in Nat /\ config.value <= config.cost
         /\ config.leftover \in SUBSET Keys /\ IsFiniteSet(config.leftover)
         /\ config.flat \in BOOLEAN /\ config.cleanup \in BOOLEAN
         /\ config.flat => Phases = {1}
         /\ ~config.flat => \A p \in Phases : config.targets[p] \in 1..MaxMemory
         /\ MaxMemory \in Nat
<1>1. /\ config \in ConfigType /\ Len(config.workers) > 0 /\ MaxMemory \in Nat
      /\ config.value <= config.cost
      /\ IF config.flat THEN Len(config.workers) = 1
         ELSE Len(config.targets) = Len(config.workers)
  BY MemoryAssumption
<1>2. /\ config.workers \in Seq(Nat \ {0}) /\ config.targets \in Seq(1..MaxMemory)
      /\ config.keys_per_worker \in Nat /\ config.pipeline \in Nat \ {0}
      /\ config.before \in Nat /\ config.flat \in BOOLEAN /\ config.cleanup \in BOOLEAN
      /\ config.value \in Nat \ {0} /\ config.cost \in Nat
  BY <1>1 DEF ConfigType
<1>3. /\ Len(config.workers) \in Nat \ {0}
      /\ DOMAIN config.workers = 1..Len(config.workers)
      /\ DOMAIN config.targets = 1..Len(config.targets)
      /\ \A p \in 1..Len(config.workers) : config.workers[p] \in Nat \ {0}
      /\ \A p \in 1..Len(config.targets) : config.targets[p] \in 1..MaxMemory
  <2> DEFINE workers == config.workers
             targets == config.targets
  <2>1. workers \in Seq(Nat \ {0}) /\ targets \in Seq(1..MaxMemory) /\ Len(workers) > 0
    BY <1>1, <1>2
  <2> HIDE DEF workers, targets
  <2>2. /\ Len(workers) \in Nat \ {0} /\ DOMAIN workers = 1..Len(workers)
        /\ \A p \in 1..Len(workers) : workers[p] \in Nat \ {0}
    BY <2>1, LenProperties
  <2>3. /\ DOMAIN targets = 1..Len(targets)
        /\ \A p \in 1..Len(targets) : targets[p] \in 1..MaxMemory
    BY <2>1, LenProperties
  <2> QED BY <2>2, <2>3 DEF workers, targets
<1>4. Phases = DOMAIN config.workers /\ Phases = 1..Len(config.workers)
  BY <1>3 DEF Phases
<1>5. config.flat => Phases = {1}
  <2>1. config.flat => Len(config.workers) = 1
    BY <1>1
  <2>2. 1..1 = {1}
    OBVIOUS
  <2> QED BY ONLY <1>4, <2>1, <2>2
<1>6. ~config.flat => \A p \in Phases : config.targets[p] \in 1..MaxMemory
  BY <1>1, <1>3, <1>4
<1>7. \A p \in Phases : p \in Nat \ {0} /\ config.workers[p] \in Nat \ {0}
  BY <1>3, <1>4
<1>8. config.leftover \in SUBSET Keys /\ IsFiniteSet(config.leftover)
  BY LeftoverAssumption
<1> QED BY <1>1, <1>2, <1>3, <1>4, <1>5, <1>6, <1>7, <1>8

(* A thread's name is its phase, its id and its attempt. *)
LEMMA ThreadNames ==
  ASSUME NEW w \in Writers
  PROVE  /\ w = <<w[1], w[2], w[3]>> /\ w[2] \in Nat /\ w[3] \in Nat
         /\ w[1] \in Nat \ {0}
         /\ w[3] > 0 => w \in FillsOf(w[1])
<1>0. PICK c \in Configs : \E p \in DOMAIN c.workers : w \in WorkersOf(c, p) \cup FillsOf(p)
  BY DEF Writers
<1>1. PICK p \in DOMAIN c.workers : w \in WorkersOf(c, p) \cup FillsOf(p)
  BY <1>0
<1>2. p \in Nat \ {0} /\ c.workers[p] \in Nat \ {0}
  <2>1. c.workers \in Seq(Nat \ {0})
    BY MemoryAssumption DEF ConfigType
  <2> QED BY <1>1, <2>1, LenProperties
<1>3. MaxFills \in 1..10
  BY MemoryAssumption
<1>4. CASE w \in WorkersOf(c, p)
  BY <1>2, <1>4 DEF WorkersOf
<1>5. CASE w \in FillsOf(p)
  <2>1. PICK a \in 0..(MaxFills - 1) : w = <<p, FillId(p, a), a + 1>>
    BY <1>5 DEF FillsOf
  <2>2. FillId(p, a) \in Nat
    BY <1>2, <1>3, <2>1 DEF FillId
  <2> QED BY <1>2, <1>3, <1>5, <2>1, <2>2
<1> QED BY <1>1, <1>4, <1>5

LEMMA ThreadsOfPhase ==
  ASSUME config \in Configs, NEW p \in Phases
  PROVE  /\ PhaseWriters(p) \subseteq Writers /\ FillsOf(p) \subseteq Writers
         /\ IsFiniteSet(PhaseWriters(p))
         /\ Cardinality(PhaseWriters(p)) = config.workers[p]
         /\ PhaseWriters(p) = {<<p, id, 0>> : id \in WorkerIds(p)}
<1>1. p \in DOMAIN config.workers /\ config.workers[p] \in Nat \ {0}
  BY ConfigNumbers
<1>2. WorkersOf(config, p) \cup FillsOf(p) \subseteq Writers
  BY <1>1 DEF Writers
<1>3. PhaseWriters(p) = {<<p, id, 0>> : id \in WorkerIds(p)}
  BY DEF PhaseWriters, WorkersOf, WorkerIds
<1> DEFINE f == [id \in WorkerIds(p) |-> <<p, id, 0>>]
<1>4. ExistsBijection(WorkerIds(p), PhaseWriters(p))
  <2>1. f \in Bijection(WorkerIds(p), PhaseWriters(p))
    BY <1>3 DEF Bijection, Injection, Surjection, IsInjective
  <2> QED BY <2>1 DEF ExistsBijection
<1>5. /\ IsFiniteSet(WorkerIds(p))
      /\ Cardinality(WorkerIds(p)) = config.workers[p]
  <2>1. PICK n \in Nat : n = config.workers[p] - 1
    BY <1>1
  <2>2. WorkerIds(p) = 0..n /\ n + 1 = config.workers[p]
    BY <1>1, <2>1 DEF WorkerIds
  <2>3. IsFiniteSet(0..n) /\ Cardinality(0..n) = n + 1
    BY FS_Interval
  <2> QED BY <2>2, <2>3
<1> QED BY <1>2, <1>3, <1>4, <1>5, FS_Bijection DEF PhaseWriters

LEMMA FillWriterIn ==
  ASSUME config \in Configs, phase \in Phases, attempt \in Nat, attempt < MaxFills
  PROVE  FillWriter \in FillsOf(phase) /\ FillWriter \in Writers
<1>1. attempt \in 0..(MaxFills - 1)
  BY MemoryAssumption
<1>2. FillWriter \in FillsOf(phase)
  BY <1>1 DEF FillsOf, FillWriter
<1> QED BY <1>2, ThreadsOfPhase

(* The ids of two top-ups differ, and no worker has one when IdsApart.     *)
LEMMA FillIdsDiffer ==
  ASSUME NEW p \in Nat \ {0}, NEW q \in Nat \ {0},
         NEW v \in FillsOf(p), NEW w \in FillsOf(q), v[2] = w[2]
  PROVE  v = w
<1>1. MaxFills \in 1..10
  BY MemoryAssumption
<1>2. PICK a \in 0..(MaxFills - 1) : v = <<p, FillId(p, a), a + 1>>
  BY DEF FillsOf
<1>3. PICK b \in 0..(MaxFills - 1) : w = <<q, FillId(q, b), b + 1>>
  BY DEF FillsOf
<1>4. 900 + 10 * (p - 1) + a = 900 + 10 * (q - 1) + b
  BY <1>2, <1>3 DEF FillId
<1>5. a \in 0..9 /\ b \in 0..9
  BY <1>1
<1>6. a = b /\ p = q
  BY <1>4, <1>5
<1> QED BY <1>2, <1>3, <1>6

(* The keys of a batch are as many as its length. *)
LEMMA PrefixSize ==
  ASSUME NEW w, writer[w].i \in Nat, NEW m \in Nat
  PROVE  IsFiniteSet(BatchPrefix(w, m)) /\ Cardinality(BatchPrefix(w, m)) = m
<1>0. PICK id, i, P : id = w[2] /\ i = writer[w].i /\ P = BatchPrefix(w, m)
  OBVIOUS
<1>00. P = {<<id, i + j>> : j \in 0..(m - 1)} /\ i \in Nat
  BY <1>0 DEF BatchPrefix
<1> DEFINE f == [j \in 0..(m - 1) |-> <<id, i + j>>]
<1>1. f \in Bijection(0..(m - 1), P)
  <2>1. f \in [0..(m - 1) -> P] /\ \A k \in P : \E j \in 0..(m - 1) : f[j] = k
    BY <1>00
  <2>2. \A j, l \in 0..(m - 1) : f[j] = f[l] => j = l
    <3>1. \A j, l \in 0..(m - 1) : <<id, i + j>> = <<id, i + l>> => i + j = i + l
      OBVIOUS
    <3>2. \A a, j, l \in Int : a + j = a + l => j = l
      OBVIOUS
    <3> QED BY <1>00, <3>1, <3>2
  <2> QED BY <2>1, <2>2 DEF Bijection, Injection, Surjection, IsInjective
<1>2. ExistsBijection(0..(m - 1), P)
  BY <1>1 DEF ExistsBijection
<1>3. IsFiniteSet(0..(m - 1)) /\ Cardinality(0..(m - 1)) = m
  <2>1. PICK n \in Int : n = m - 1
    OBVIOUS
  <2>2. IsFiniteSet(0..n) /\ Cardinality(0..n) = IF 0 > n THEN 0 ELSE n - 0 + 1
    BY FS_Interval
  <2> QED BY <2>1, <2>2
<1> QED BY <1>0, <1>2, <1>3, FS_Bijection

(* The keys on the node that INFO asks. *)
Near(K) == Cardinality({k \in K : NodeOf(k[1])})

(* The keys that no earlier invocation has left. *)
Fresh(K) == Cardinality(K \ config.leftover)

(* What a change of the keys means for the memory they use. *)
LEMMA KeysCounted ==
  ASSUME NEW K, IsFiniteSet(K)
  PROVE  /\ Near(K) \in Nat /\ Cardinality(K) \in Nat /\ Near(K) <= Cardinality(K)
         /\ Fresh(K) \in Nat
<1> DEFINE N == {k \in K : NodeOf(k[1])}
<1>1. IsFiniteSet(N) /\ Cardinality(N) <= Cardinality(K)
  BY FS_Subset
<1> HIDE DEF N
<1>2. Cardinality(N) \in Nat /\ Cardinality(K) \in Nat
  BY <1>1, FS_CardinalityType
<1>3. Near(K) = Cardinality(N)
  BY DEF Near, N
<1>4. Fresh(K) \in Nat
  <2>1. IsFiniteSet(K \ config.leftover)
    BY FS_Subset
  <2> QED BY <2>1, FS_CardinalityType DEF Fresh
<1> QED BY <1>1, <1>2, <1>3, <1>4

LEMMA FewerKeys ==
  ASSUME NEW K, IsFiniteSet(K), NEW L \in SUBSET K
  PROVE  /\ IsFiniteSet(L) /\ Cardinality(L) <= Cardinality(K) /\ Near(L) <= Near(K)
         /\ Fresh(L) <= Fresh(K)
<1> DEFINE N == {k \in K : NodeOf(k[1])}
           M == {k \in L : NodeOf(k[1])}
<1>1. IsFiniteSet(L) /\ Cardinality(L) <= Cardinality(K)
  BY FS_Subset
<1>2. IsFiniteSet(N)
  BY FS_Subset
<1>3. M \in SUBSET N
  OBVIOUS
<1>4. Near(L) = Cardinality(M) /\ Near(K) = Cardinality(N)
  BY DEF Near
<1>5. Fresh(L) <= Fresh(K)
  <2>1. IsFiniteSet(K \ config.leftover) /\ L \ config.leftover \in SUBSET (K \ config.leftover)
    BY FS_Subset
  <2> QED BY <2>1, FS_Subset DEF Fresh
<1> HIDE DEF M, N
<1> QED BY <1>1, <1>2, <1>3, <1>4, <1>5, FS_Subset

LEMMA MoreKeys ==
  ASSUME NEW K, IsFiniteSet(K), NEW P, IsFiniteSet(P)
  PROVE  /\ IsFiniteSet(K \cup P)
         /\ Cardinality(K \cup P) <= Cardinality(K) + Cardinality(P)
         /\ Near(K \cup P) <= Near(K) + Cardinality(P)
         /\ Fresh(K \cup P) <= Fresh(K) + Cardinality(P)
         /\ K \cap P = {} => Cardinality(K \cup P) = Cardinality(K) + Cardinality(P)
<1>1. /\ IsFiniteSet(K \cup P) /\ IsFiniteSet(K \cap P)
      /\ Cardinality(K \cup P) = Cardinality(K) + Cardinality(P) - Cardinality(K \cap P)
  BY FS_Union, FS_Subset
<1>2. /\ Cardinality(K) \in Nat /\ Cardinality(P) \in Nat /\ Cardinality(K \cap P) \in Nat
      /\ Cardinality(K \cup P) \in Nat
  BY <1>1, FS_CardinalityType
<1>3. K \cap P = {} => Cardinality(K \cap P) = 0
  BY FS_EmptySet
<1> DEFINE N == {k \in K : NodeOf(k[1])}
           M == {k \in P : NodeOf(k[1])}
           U == {k \in K \cup P : NodeOf(k[1])}
<1>4. /\ IsFiniteSet(N) /\ IsFiniteSet(M) /\ Cardinality(M) <= Cardinality(P)
  BY FS_Subset
<1>5. U = N \cup M
  OBVIOUS
<1>6. Near(K) = Cardinality(N) /\ Near(K \cup P) = Cardinality(U)
  BY DEF Near
<1> HIDE DEF M, N, U
<1>7. /\ Cardinality(U) = Cardinality(N) + Cardinality(M) - Cardinality(N \cap M)
      /\ IsFiniteSet(N \cap M)
  BY <1>4, <1>5, FS_Union, FS_Subset
<1>8. /\ Cardinality(N) \in Nat /\ Cardinality(M) \in Nat /\ Cardinality(N \cap M) \in Nat
  BY <1>4, <1>7, FS_CardinalityType
<1>9. Fresh(K \cup P) <= Fresh(K) + Cardinality(P)
  <2> DEFINE A == K \ config.leftover
             B == P \ config.leftover
  <2>1. /\ IsFiniteSet(A) /\ IsFiniteSet(B) /\ Cardinality(B) <= Cardinality(P)
        /\ (K \cup P) \ config.leftover = A \cup B
    BY FS_Subset
  <2>2. Fresh(K) = Cardinality(A) /\ Fresh(K \cup P) = Cardinality(A \cup B)
    BY <2>1 DEF Fresh
  <2> HIDE DEF A, B
  <2>3. /\ Cardinality(A \cup B) = Cardinality(A) + Cardinality(B) - Cardinality(A \cap B)
        /\ IsFiniteSet(A \cap B)
    BY <2>1, FS_Union, FS_Subset
  <2>4. /\ Cardinality(A) \in Nat /\ Cardinality(B) \in Nat /\ Cardinality(A \cap B) \in Nat
    BY <2>1, <2>3, FS_CardinalityType
  <2> QED BY <1>2, <2>1, <2>2, <2>3, <2>4
<1> QED BY <1>1, <1>2, <1>3, <1>4, <1>6, <1>7, <1>8, <1>9

-------------------------------------------------------------------------------
(* Bytes and values. *)

LEMMA Scaled ==
  ASSUME NEW v \in Nat, NEW a \in Nat, NEW b \in Nat, a <= b
  PROVE  v * a \in Nat /\ v * b \in Nat /\ v * a <= v * b
OBVIOUS

LEMMA Costlier ==
  ASSUME NEW v \in Nat, NEW c \in Nat, v <= c, NEW a \in Nat
  PROVE  v * a \in Nat /\ c * a \in Nat /\ v * a <= c * a
OBVIOUS

(* m of q values have been written at a cost of c each. *)
LEMMA Spread ==
  ASSUME NEW v \in Nat, NEW c \in Nat, v <= c, NEW q \in Nat, NEW m \in Nat, m <= q
  PROVE  v * q <= v * (q - m) + c * m
<1>1. v * m \in Nat /\ c * m \in Nat /\ v * m <= c * m
  BY Costlier
<1>2. v * q \in Int /\ v * (q - m) \in Int /\ v * (q - m) = v * q - v * m
  OBVIOUS
<1> QED BY <1>1, <1>2

LEMMA Divided ==
  ASSUME NEW v \in Nat \ {0}, NEW n \in Nat
  PROVE  /\ n \div v \in Nat /\ n \div v <= n
         /\ v * (n \div v) \in Nat /\ v * (n \div v) <= n /\ n < v * (n \div v) + v
<1>1. n \div v \in Nat /\ n % v \in 0..(v - 1) /\ n = v * (n \div v) + (n % v)
  OBVIOUS
<1>2. PICK q \in Nat, r \in 0..(v - 1) : q = n \div v /\ r = n % v
  BY <1>1
<1>3. \A x \in Nat, d \in Nat \ {0} : d * x \in Nat /\ d * x >= x
  OBVIOUS
<1>4. PICK t \in Nat : t = v * q
  BY <1>3
<1>5. n = t + r /\ t >= q
  BY <1>1, <1>2, <1>3, <1>4
<1> QED BY <1>2, <1>4, <1>5

(* fill_keys: at least one value, and no more than fit into the gap if any *)
(* does; what it leaves of the gap is less than a value.                   *)
LEMMA FillNumbers ==
  ASSUME config.value \in Nat \ {0}, NEW g \in Nat \ {0}
  PROVE  /\ FillKeys(g) \in Nat \ {0} /\ FillKeys(g) <= g
         /\ config.value * FillKeys(g) \in Nat
         /\ config.value * FillKeys(g) < g + config.value
         /\ g < config.value * FillKeys(g) + config.value
         /\ g < config.value => g <= config.value * FillKeys(g)
<1>1. PICK v \in Nat \ {0} : v = config.value
  OBVIOUS
<1>2. CASE g < v
  <2>1. FillKeys(g) = 1 /\ v * 1 = v
    BY <1>1, <1>2 DEF FillKeys
  <2> QED BY <1>1, <1>2, <2>1
<1>3. CASE ~(g < v)
  <2>1. PICK q \in Nat : q = g \div v /\ q <= g
    BY Divided
  <2>2. PICK t \in Nat : t = v * q /\ t <= g /\ g < t + v
    BY <2>1, Divided
  <2>3. q # 0
    <3>1. v * 0 = 0
      OBVIOUS
    <3> QED BY <1>3, <2>2, <3>1
  <2>4. FillKeys(g) = q
    BY <1>1, <1>3, <2>1 DEF FillKeys
  <2> QED BY <1>1, <1>3, <2>1, <2>2, <2>3, <2>4
<1> QED BY <1>2, <1>3

(* The shares of a phase's workers add up to its shortfall at most.        *)
LEMMA ShareNumbers ==
  ASSUME NEW n \in Nat, NEW W \in Nat \ {0}, NEW j \in 0..(W - 1)
  PROVE  Share(n, W, j) \in Nat /\ Share(n, W, j) <= n
<1>1. n \div W \in Nat /\ n % W \in 0..(W - 1) /\ n = W * (n \div W) + (n % W)
  OBVIOUS
<1>2. W * (n \div W) >= n \div W
  <2>1. \A q \in Nat, d \in Nat \ {0} : d * q >= q
    OBVIOUS
  <2> QED BY <1>1, <2>1
<1>3. PICK q \in Nat, r \in Nat : q = n \div W /\ r = n % W
  BY <1>1
<1>4. PICK t \in Nat : t = W * (n \div W)
  BY <1>1
<1>5. n = t + r /\ t >= q
  BY <1>1, <1>2, <1>3, <1>4
<1> QED BY <1>3, <1>5 DEF Share

LEMMA SharesAddUp ==
  ASSUME config \in Configs, NEW p \in Phases, NEW n \in Nat,
         NEW f, \A id \in WorkerIds(p) : f[<<p, id, 0>>] = Share(n, config.workers[p], id)
  PROVE  SumFunctionOnSet(f, PhaseWriters(p)) <= n
<1> DEFINE S == PhaseWriters(p)
           W == config.workers[p]
           q == n \div W
           r == n % W
           R == {w \in S : w[2] < r}
           one == [w \in S |-> 1]
           e == [w \in S |-> IF w[2] < r THEN 1 ELSE 0]
<1>1. /\ W \in Nat \ {0} /\ IsFiniteSet(S) /\ Cardinality(S) = W
      /\ S = {<<p, id, 0>> : id \in WorkerIds(p)}
  BY ThreadsOfPhase, ConfigNumbers
<1>2. q \in Nat /\ r \in 0..(W - 1) /\ n = W * q + r
  <2>1. \A d \in Nat \ {0} : n \div d \in Nat /\ n % d \in 0..(d - 1) /\ n = d * (n \div d) + (n % d)
    OBVIOUS
  <2> HIDE DEF W
  <2> QED BY <1>1, <2>1
<1>3. \A w \in S : w[2] \in 0..(W - 1) /\ f[w] = q + (IF w[2] < r THEN 1 ELSE 0)
  BY <1>1 DEF WorkerIds, Share
<1>4. SumFunctionOnSet(f, S) = q * SumFunctionOnSet(one, S) + SumFunctionOnSet(e, S)
  <2>1. \A w \in S : one[w] \in Int /\ e[w] \in Int /\ f[w] = q * one[w] + e[w]
    BY <1>2, <1>3
  <2>2. q \in Int
    BY <1>2
  <2> HIDE DEF S, one, e, q
  <2> QED BY <1>1, <2>1, <2>2, SumCombine
<1>5. SumFunctionOnSet(one, S) <= 1 * Cardinality(S) /\ SumFunctionOnSet(one, S) \in Nat
  <2>1. \A w \in S : one[w] \in Nat /\ one[w] \in Int /\ one[w] <= 1
    OBVIOUS
  <2> HIDE DEF S, one
  <2> QED BY <1>1, <2>1, SumBound, SumNat
<1>6. IsFiniteSet(R) /\ Cardinality(R) <= r /\ Cardinality(R) \in Nat
  <2> DEFINE g == [w \in R |-> w[2]]
  <2>0. r \in Nat
    <3> HIDE DEF r, W
    <3> QED BY <1>1, <1>2
  <2>1. g \in Injection(R, 0..(r - 1))
    <3>1. \A w \in R : w[2] \in Nat /\ w[2] < r
      <4> HIDE DEF r
      <4> QED BY <1>3 DEF R
    <3> HIDE DEF r
    <3>2. \A w \in R : w[2] \in 0..(r - 1)
      BY <2>0, <3>1
    <3>3. \A v, w \in R : v[2] = w[2] => v = w
      BY <1>1 DEF R
    <3> HIDE DEF R
    <3> QED BY <3>2, <3>3 DEF Injection, IsInjective
  <2>2. IsFiniteSet(0..(r - 1)) /\ Cardinality(0..(r - 1)) = r
    <3> HIDE DEF r
    <3>1. PICK m \in Int : m = r - 1
      BY <2>0
    <3>2. IsFiniteSet(0..m) /\ Cardinality(0..m) = IF 0 > m THEN 0 ELSE m - 0 + 1
      BY FS_Interval
    <3> QED BY <2>0, <3>1, <3>2
  <2>3. IsFiniteSet(R)
    BY <1>1, FS_Subset
  <2> HIDE DEF R, g, r
  <2> QED BY <2>1, <2>2, <2>3, FS_Injection, FS_CardinalityType
<1>7. SumFunctionOnSet(e, S) <= r /\ SumFunctionOnSet(e, S) \in Int
  <2>1. /\ \A w \in S : e[w] \in Int
        /\ \A w \in R : e[w] \in Int /\ e[w] <= 1
        /\ \A w \in S \ R : e[w] = 0
        /\ R \in SUBSET S
    OBVIOUS
  <2> HIDE DEF S, R, e
  <2>2. SumFunctionOnSet(e, S) = SumFunctionOnSet(e, R)
    BY <1>1, <2>1, SumOfSupport
  <2>3. SumFunctionOnSet(e, R) <= 1 * Cardinality(R) /\ SumFunctionOnSet(e, R) \in Int
    BY <1>6, <2>1, SumBound, SumInt
  <2>4. r \in Int
    BY <1>2
  <2> HIDE DEF r
  <2> QED BY <1>6, <2>2, <2>3, <2>4
<1>8. q * SumFunctionOnSet(one, S) <= q * W
  <2>1. \A k, a, b \in Nat : a <= b => k * a <= k * b
    OBVIOUS
  <2>2. SumFunctionOnSet(one, S) <= W
    <3> HIDE DEF S, one, W
    <3> QED BY <1>1, <1>5
  <2> HIDE DEF S, one, W, q
  <2> QED BY <1>1, <1>2, <1>5, <2>1, <2>2
<1>9. PICK x \in Int, y \in Int : x = q * SumFunctionOnSet(one, S) /\ y = q * W /\ y = W * q
  <2>1. \A a, b \in Nat : a * b \in Int /\ a * b = b * a
    OBVIOUS
  <2> HIDE DEF S, one, W, q
  <2> QED BY <1>1, <1>2, <1>5, <2>1
<1> HIDE DEF S, one, W, q, r, e
<1> QED BY <1>2, <1>4, <1>7, <1>8, <1>9 DEF S

-------------------------------------------------------------------------------
(* Types, and what a thread's record says where it is.                     *)

Live(w) == writer[w].state \in {"opening", "writing"}
MaxQuota == MaxMemory + config.keys_per_worker
WriterType ==
  [state : {"none", "opening", "writing"} \cup Finished,
   quota : 0..MaxQuota, i : Nat, written : Nat, errors : Nat]
Looping == {"join", "check", "fill", "next"}

RecordOK(r) ==
  /\ r \in WriterType
  /\ r.i <= r.quota
  /\ r.state \in {"none", "opening", "error"} => r.i = 0 /\ r.written = 0
  /\ r.state = "complete" => r.i = r.quota
  /\ r.state \in {"none", "opening"} => r.errors = 0
  /\ r.state = "error" => r.errors = 1

Planned(w) == w[1] \in Phases /\ w \in PhaseWriters(w[1]) \cup FillsOf(w[1])

HandlerTypes ==
  /\ pc \in Looping \cup {"phase", "cleanup", "sweep", "returned", "failed"}
  /\ phase \in 1..(Len(config.workers) + 1)
  /\ pc \in Looping => phase \in Phases
  /\ pc \in Looping \ {"join"} => ~config.flat
  /\ joining \in Nat
  /\ attempt \in 0..MaxFills
  /\ pc = "fill" => attempt < MaxFills
  /\ keys_written \in Nat /\ write_errors \in Nat /\ current_used \in Nat
  /\ IsFiniteSet(abandoned)

MemTypes ==
  /\ config \in Configs
  /\ keys \in SUBSET Keys /\ IsFiniteSet(keys)
  /\ DOMAIN writer = Writers /\ writer = [w \in Writers |-> writer[w]]
  /\ \A w \in Writers : RecordOK(writer[w]) /\ (writer[w].state # "none" => Planned(w))
  /\ HandlerTypes
  /\ faults \in Nat

LEMMA FaultCounts == ASSUME faults \in Nat, Fault PROVE faults' \in Nat
BY DEF Fault

LEMMA UsedNumbers ==
  ASSUME MemTypes
  PROVE  /\ Used = config.before + config.cost * Near(keys)
         /\ Payload = config.before + config.value * Near(keys)
         /\ config.before \in Nat /\ config.value \in Nat \ {0} /\ config.cost \in Nat
         /\ config.value <= config.cost
         /\ Used \in Nat /\ Payload \in Nat /\ Payload <= Used
         /\ Cardinality(keys) \in Nat /\ Near(keys) \in Nat /\ Near(keys) <= Cardinality(keys)
         /\ Fresh(keys) \in Nat
<1>1. IsFiniteSet(keys) /\ config \in Configs
  BY DEF MemTypes
<1>2. /\ Cardinality(keys) \in Nat /\ Near(keys) \in Nat /\ Near(keys) <= Cardinality(keys)
      /\ Fresh(keys) \in Nat
  BY <1>1, KeysCounted
<1>3. /\ config.before \in Nat /\ config.value \in Nat \ {0} /\ config.cost \in Nat
      /\ config.value <= config.cost
  BY <1>1, ConfigNumbers
<1>4. OnNode(keys, TRUE) = Near(keys)
  <2>1. {k \in keys : NodeOf(k[1]) = TRUE} = {k \in keys : NodeOf(k[1])}
    BY DEF NodeOf
  <2> QED BY <2>1, Zenon DEF OnNode, Near
<1>5. /\ Used = config.before + config.cost * Near(keys)
      /\ Payload = config.before + config.value * Near(keys)
  BY <1>4 DEF Used, Payload
<1>6. /\ config.value * Near(keys) \in Nat /\ config.cost * Near(keys) \in Nat
      /\ config.value * Near(keys) <= config.cost * Near(keys)
  BY <1>2, <1>3, Costlier
<1> QED BY <1>2, <1>3, <1>5, <1>6

(* memory_worker: what each step of a thread does to its record. *)
LEMMA OpenEffect ==
  ASSUME MemTypes, NEW w \in Writers, WriterOpen(w)
  PROVE  /\ writer[w].state = "opening" /\ faults' \in Nat
         /\ UNCHANGED <<keys, scan, config, handlerVars>>
         /\ \E r : /\ writer' = [writer EXCEPT ![w] = r]
                   /\ RecordOK(r) /\ r.quota = writer[w].quota /\ r.i = 0 /\ r.written = 0
                   /\ r.state \in {"writing", "error"}
                   /\ r.errors = (IF r.state = "error" THEN 1 ELSE writer[w].errors)
<1>1. /\ writer[w].state = "opening"
      /\ UNCHANGED <<keys, scan, config, handlerVars>>
  BY DEF WriterOpen
<1>2. RecordOK(writer[w]) /\ faults \in Nat
  BY DEF MemTypes
<1>3. PICK old : old = writer[w]
  OBVIOUS
<1>4. CASE writer' = [writer EXCEPT ![w].state = "writing"] /\ UNCHANGED faults
  <2>1. PICK r : r = [old EXCEPT !.state = "writing"]
    OBVIOUS
  <2>2. writer' = [writer EXCEPT ![w] = r]
    BY <1>3, <1>4, <2>1
  <2>3. /\ RecordOK(r) /\ r.quota = old.quota /\ r.i = 0 /\ r.written = 0
        /\ r.state = "writing" /\ r.errors = old.errors
    BY <1>1, <1>2, <1>3, <2>1 DEF RecordOK, WriterType
  <2> QED BY <1>1, <1>2, <1>3, <1>4, <2>2, <2>3
<1>5. CASE Fault /\ writer' = [writer EXCEPT ![w].state = "error", ![w].errors = 1]
  <2>1. PICK r : r = [old EXCEPT !.state = "error", !.errors = 1]
    OBVIOUS
  <2>2. writer' = [writer EXCEPT ![w] = r]
    BY <1>3, <1>5, <2>1
  <2>3. /\ RecordOK(r) /\ r.quota = old.quota /\ r.i = 0 /\ r.written = 0
        /\ r.state = "error" /\ r.errors = 1
    BY <1>1, <1>2, <1>3, <2>1 DEF RecordOK, WriterType, Finished
  <2> QED BY <1>1, <1>2, <1>3, <1>5, <2>2, <2>3, FaultCounts
<1> QED BY <1>4, <1>5 DEF WriterOpen

LEMMA BatchNumbers ==
  ASSUME MemTypes, NEW w \in Writers, writer[w].i < writer[w].quota
  PROVE  /\ Batch(w) \in Nat \ {0} /\ writer[w].i + Batch(w) <= writer[w].quota
<1>1. writer[w] \in WriterType /\ config \in Configs
  BY DEF MemTypes, RecordOK
<1>2. /\ writer[w].i \in Nat /\ writer[w].quota \in 0..MaxQuota
      /\ config.keys_per_worker \in Nat /\ MaxMemory \in Nat /\ config.pipeline \in Nat \ {0}
  BY <1>1, ConfigNumbers DEF WriterType
<1>3. PICK i \in Nat, q \in Nat, n \in Nat \ {0} :
        i = writer[w].i /\ q = writer[w].quota /\ n = config.pipeline
  BY <1>2 DEF MaxQuota
<1>4. Batch(w) = IF q - i < n THEN q - i ELSE n
  BY <1>3 DEF Batch
<1> QED BY <1>3, <1>4

LEMMA BatchEffect ==
  ASSUME MemTypes, NEW w \in Writers, WriterBatch(w)
  PROVE  /\ writer[w].state = "writing" /\ faults' \in Nat
         /\ UNCHANGED <<scan, config, handlerVars>>
         /\ \E r, m :
              /\ writer' = [writer EXCEPT ![w] = r]
              /\ keys' = keys \cup BatchPrefix(w, m)
              /\ RecordOK(r) /\ r.state = "writing" /\ r.quota = writer[w].quota
              /\ m \in Nat /\ writer[w].i + m <= r.i /\ writer[w].i < r.i
              /\ \/ /\ r.errors = writer[w].errors /\ r.written = writer[w].written + m
                    /\ r.i = writer[w].i + m
                 \/ r.errors = writer[w].errors + 1 /\ r.written = writer[w].written
<1>1. /\ writer[w].state = "writing" /\ writer[w].i < writer[w].quota
      /\ UNCHANGED <<scan, config, handlerVars>>
  BY DEF WriterBatch
<1>2. RecordOK(writer[w]) /\ faults \in Nat
  BY DEF MemTypes
<1>3. PICK n \in Nat \ {0} : n = Batch(w) /\ writer[w].i + n <= writer[w].quota
  BY <1>1, BatchNumbers
<1>4. PICK old : old = writer[w]
  OBVIOUS
<1>5. CASE /\ keys' = keys \cup BatchPrefix(w, n)
           /\ writer' = [writer EXCEPT ![w].i = @ + n, ![w].written = @ + n]
           /\ UNCHANGED faults
  <2>0. PICK a, b : a = old.i + n /\ b = old.written + n
    OBVIOUS
  <2>1. PICK r : r = [old EXCEPT !.i = a, !.written = b]
    OBVIOUS
  <2>2. writer' = [writer EXCEPT ![w] = r]
    BY <1>4, <1>5, <2>0, <2>1
  <2>3. /\ old \in WriterType /\ old.i \in Nat /\ old.quota \in Nat
        /\ old.written \in Nat /\ old.errors \in Nat /\ old.state = "writing"
    <3>1. \A x \in 0..MaxQuota : x \in Nat
      OBVIOUS
    <3> QED BY <1>1, <1>2, <1>4, <3>1 DEF RecordOK, WriterType
  <2>4. /\ r.state = "writing" /\ r.quota = old.quota /\ r.i = old.i + n
        /\ r.written = old.written + n /\ r.errors = old.errors
        /\ r \in WriterType
    <3>1. a \in Nat /\ b \in Nat
      BY <1>3, <2>0, <2>3
    <3> QED BY <2>0, <2>1, <2>3, <3>1 DEF WriterType
  <2>5. RecordOK(r) /\ old.i < r.i /\ old.i + n <= r.i
    BY <1>3, <1>4, <2>3, <2>4 DEF RecordOK
  <2> QED BY <1>1, <1>2, <1>3, <1>4, <1>5, <2>2, <2>4, <2>5
<1>6. ASSUME NEW m \in 0..n, keys' = keys \cup BatchPrefix(w, m),
             writer' = [writer EXCEPT ![w].i = @ + n, ![w].errors = @ + 1],
             faults' \in Nat
      PROVE  \E r :
              /\ writer' = [writer EXCEPT ![w] = r]
              /\ RecordOK(r) /\ r.state = "writing" /\ r.quota = writer[w].quota
              /\ m \in Nat /\ writer[w].i + m <= r.i /\ writer[w].i < r.i
              /\ r.errors = writer[w].errors + 1 /\ r.written = writer[w].written
  <2>0. PICK a, b : a = old.i + n /\ b = old.errors + 1
    OBVIOUS
  <2>1. PICK r : r = [old EXCEPT !.i = a, !.errors = b]
    OBVIOUS
  <2>2. writer' = [writer EXCEPT ![w] = r]
    BY <1>4, <1>6, <2>0, <2>1
  <2>3. /\ old \in WriterType /\ old.i \in Nat /\ old.quota \in Nat
        /\ old.written \in Nat /\ old.errors \in Nat /\ old.state = "writing"
    <3>1. \A x \in 0..MaxQuota : x \in Nat
      OBVIOUS
    <3> QED BY <1>1, <1>2, <1>4, <3>1 DEF RecordOK, WriterType
  <2>4. /\ r.state = "writing" /\ r.quota = old.quota /\ r.i = old.i + n
        /\ r.written = old.written /\ r.errors = old.errors + 1
        /\ r \in WriterType
    <3>1. a \in Nat /\ b \in Nat
      BY <1>3, <2>0, <2>3
    <3> QED BY <2>0, <2>1, <2>3, <3>1 DEF WriterType
  <2>5. RecordOK(r) /\ old.i < r.i /\ old.i + m <= r.i
    BY <1>3, <1>4, <2>3, <2>4 DEF RecordOK
  <2>6. m \in Nat
    BY <1>3
  <2> QED BY <1>4, <2>2, <2>4, <2>5, <2>6
<1>7. \/ /\ keys' = keys \cup BatchPrefix(w, n)
         /\ writer' = [writer EXCEPT ![w].i = @ + n, ![w].written = @ + n]
         /\ UNCHANGED faults
      \/ /\ \E m \in 0..n : keys' = keys \cup BatchPrefix(w, m)
         /\ writer' = [writer EXCEPT ![w].i = @ + n, ![w].errors = @ + 1]
         /\ faults' \in Nat
  BY <1>2, <1>3, FaultCounts DEF WriterBatch
<1> QED BY <1>1, <1>5, <1>6, <1>7

LEMMA EndEffect ==
  ASSUME MemTypes, NEW w \in Writers, WriterEnd(w)
  PROVE  /\ writer[w].state = "writing"
         /\ UNCHANGED <<keys, scan, config, faults, handlerVars>>
         /\ \E r : /\ writer' = [writer EXCEPT ![w] = r]
                   /\ RecordOK(r) /\ r.state = "complete" /\ r.quota = writer[w].quota
                   /\ r.i = writer[w].i /\ r.written = writer[w].written
                   /\ r.errors = writer[w].errors
<1>1. RecordOK(writer[w])
  BY DEF MemTypes
<1>2. /\ writer[w].state = "writing" /\ writer[w].i >= writer[w].quota
      /\ UNCHANGED <<keys, scan, config, faults, handlerVars>>
      /\ writer' = [writer EXCEPT ![w].state = "complete"]
  BY DEF WriterEnd
<1>3. PICK old : old = writer[w]
  OBVIOUS
<1>4. PICK r : r = [old EXCEPT !.state = "complete"]
  OBVIOUS
<1>5. writer' = [writer EXCEPT ![w] = r]
  BY <1>2, <1>3, <1>4
<1>6. /\ RecordOK(r) /\ r.state = "complete" /\ r.quota = old.quota
      /\ r.i = old.i /\ r.written = old.written /\ r.errors = old.errors
  BY <1>1, <1>2, <1>3, <1>4 DEF RecordOK, WriterType, Finished
<1> QED BY <1>2, <1>3, <1>5, <1>6

LEMMA PrefixKeys ==
  ASSUME MemTypes, NEW w \in Writers, NEW m \in Nat, writer[w].i + m <= writer[w].quota
  PROVE  /\ BatchPrefix(w, m) \in SUBSET Keys
         /\ IsFiniteSet(BatchPrefix(w, m)) /\ Cardinality(BatchPrefix(w, m)) = m
<1>1. /\ config \in Configs /\ writer[w].i \in Nat /\ writer[w].quota \in Nat
      /\ writer[w].quota <= MaxQuota /\ MaxQuota \in Nat
  <2>1. config \in Configs /\ RecordOK(writer[w])
    BY DEF MemTypes
  <2>2. MaxQuota \in Nat
    BY <2>1, ConfigNumbers DEF MaxQuota
  <2> QED BY <2>1, <2>2 DEF RecordOK, WriterType
<1>2. 0..MaxQuota \subseteq Indexes
  BY <1>1 DEF Indexes, MaxQuota
<1>3. \A j \in 0..(m - 1) : writer[w].i + j \in 0..MaxQuota
  BY <1>1
<1>4. BatchPrefix(w, m) \in SUBSET Keys
  BY <1>2, <1>3 DEF BatchPrefix, Keys
<1> QED BY <1>1, <1>4, PrefixSize

(* A step that replaces the record of one thread. *)
LEMMA TouchKeepsTypes ==
  ASSUME MemTypes, NEW w \in Writers, writer[w].state # "none",
         NEW r, writer' = [writer EXCEPT ![w] = r], RecordOK(r),
         UNCHANGED <<config, handlerVars>>, faults' \in Nat,
         keys' \in SUBSET Keys, IsFiniteSet(keys')
  PROVE  MemTypes'
<1>1. /\ config' = config /\ phase' = phase /\ Keys' = Keys /\ Writers' = Writers
      /\ Phases' = Phases
  BY DEF handlerVars, Keys, Writers, Indexes, Phases
<1>2. HandlerTypes'
  BY <1>1 DEF MemTypes, HandlerTypes, handlerVars
<1>3. RecordOK(r)'
  BY <1>1 DEF RecordOK, WriterType, MaxQuota
<1>4. ASSUME NEW v \in Writers
      PROVE  RecordOK(writer[v])' /\ (writer[v].state # "none" => Planned(v))'
  <2>1. RecordOK(writer[v]) /\ (writer[v].state # "none" => Planned(v)) /\ Planned(w)
    BY DEF MemTypes
  <2>2. Planned(v)' <=> Planned(v)
    BY <1>1 DEF Planned, PhaseWriters
  <2>3. CASE v = w
    <3>1. writer'[v] = r
      BY <2>3 DEF MemTypes
    <3>2. RecordOK(writer[v])'
      BY <1>3, <3>1 DEF RecordOK, WriterType, MaxQuota
    <3> QED BY <2>1, <2>2, <2>3, <3>2
  <2>4. CASE v # w
    <3>1. writer'[v] = writer[v]
      BY <2>4 DEF MemTypes
    <3> QED BY <1>1, <2>1, <2>2, <3>1 DEF RecordOK, WriterType, MaxQuota
  <2> QED BY <2>3, <2>4
<1>5. DOMAIN writer' = Writers /\ writer' = [v \in Writers |-> writer'[v]]
  BY DEF MemTypes
<1> QED BY <1>1, <1>2, <1>4, <1>5 DEF MemTypes

LEMMA WriterKeepsTypes ==
  ASSUME MemTypes, NEW w \in Writers, Writer(w)
  PROVE  MemTypes'
<1>0. keys \in SUBSET Keys /\ IsFiniteSet(keys)
  BY DEF MemTypes
<1>1. CASE WriterOpen(w)
  BY <1>0, <1>1, OpenEffect, TouchKeepsTypes
<1>2. CASE WriterBatch(w)
  <2>1. PICK r, m :
          /\ writer' = [writer EXCEPT ![w] = r]
          /\ keys' = keys \cup BatchPrefix(w, m)
          /\ RecordOK(r) /\ r.quota = writer[w].quota
          /\ m \in Nat /\ writer[w].i + m <= r.i
    BY <1>2, BatchEffect
  <2>2. /\ writer[w].state = "writing" /\ faults' \in Nat
        /\ UNCHANGED <<scan, config, handlerVars>>
    BY <1>2, BatchEffect
  <2>3. writer[w].i + m <= writer[w].quota
    <3>1. RecordOK(writer[w])
      BY DEF MemTypes
    <3>2. writer[w].i \in Nat /\ r.i \in Nat /\ r.i <= r.quota /\ r.quota \in Int
      BY <2>1, <3>1 DEF RecordOK, WriterType
    <3> QED BY <2>1, <3>2
  <2>4. IsFiniteSet(BatchPrefix(w, m)) /\ BatchPrefix(w, m) \in SUBSET Keys
    BY <2>1, <2>3, PrefixKeys
  <2>5. IsFiniteSet(keys') /\ keys' \in SUBSET Keys
    BY <1>0, <2>1, <2>4, FS_Union
  <2> QED BY <2>1, <2>2, <2>5, TouchKeepsTypes
<1>3. CASE WriterEnd(w)
  <2>1. PICK r : /\ writer' = [writer EXCEPT ![w] = r] /\ RecordOK(r)
    BY <1>3, EndEffect
  <2>2. /\ writer[w].state = "writing" /\ UNCHANGED <<keys, scan, config, faults, handlerVars>>
    BY <1>3, EndEffect
  <2>3. faults' \in Nat
    BY <2>2 DEF MemTypes
  <2> QED BY <1>0, <2>1, <2>2, <2>3, TouchKeepsTypes
<1> QED BY <1>1, <1>2, <1>3 DEF Writer

LEMMA SweepShrinks == Scan => keys' \in SUBSET keys
BY DEF Scan, ScanCollect, ScanFlush, ScanEnd, ScanError, Unlink

(* Steps that start no thread and write no key. *)
LEMMA QuietKeepsTypes ==
  ASSUME MemTypes, UNCHANGED <<config, writer>>, keys' \in SUBSET keys, HandlerTypes',
         faults' \in Nat
  PROVE  MemTypes'
<1>1. /\ Keys' = Keys /\ Writers' = Writers /\ Phases' = Phases
  BY DEF Keys, Writers, Indexes, Phases
<1>2. keys' \in SUBSET Keys /\ IsFiniteSet(keys')
  BY FS_Subset DEF MemTypes
<1>3. \A w \in Writers : RecordOK(writer[w])' /\ (writer[w].state # "none" => Planned(w))'
  BY <1>1 DEF MemTypes, RecordOK, WriterType, MaxQuota, Planned, PhaseWriters
<1> QED BY <1>1, <1>2, <1>3 DEF MemTypes

LEMMA JoinedCounts ==
  ASSUME MemTypes, NEW w, Joined(w)
  PROVE  /\ IsFiniteSet(abandoned') /\ (abandoned' = {} => abandoned = {})
         /\ abandoned' = {} => writer[w].state \in Finished
<1>0. IsFiniteSet(abandoned)
  BY DEF MemTypes, HandlerTypes
<1>1. CASE writer[w].state \in Finished /\ UNCHANGED abandoned
  BY <1>0, <1>1
<1>2. CASE abandoned' = abandoned \cup {w}
  <2>1. IsFiniteSet(abandoned')
    BY <1>0, <1>2, FS_AddElement
  <2> QED BY <1>2, <2>1
<1> QED BY <1>1, <1>2 DEF Joined

LEMMA SumsCount ==
  ASSUME MemTypes, phase \in Phases, NEW T
  PROVE  /\ IsFiniteSet(WithState(T)) /\ WithState(T) \in SUBSET Writers
         /\ SumFunctionOnSet(Written, WithState(T)) \in Nat
         /\ SumFunctionOnSet(Errors, WithState(T)) \in Nat
<1>1. IsFiniteSet(PhaseWriters(phase)) /\ PhaseWriters(phase) \subseteq Writers
  BY ThreadsOfPhase DEF MemTypes
<1>2. IsFiniteSet(WithState(T)) /\ WithState(T) \in SUBSET Writers
  BY <1>1, FS_Subset DEF WithState
<1>3. \A w \in Writers : Written[w] \in Nat /\ Errors[w] \in Nat
  BY DEF MemTypes, RecordOK, WriterType, Written, Errors
<1> QED BY <1>2, <1>3, SumNat

LEMMA HandlerKeepsTypes ==
  ASSUME MemTypes,
         \/ Join \/ Sum \/ FillJoin \/ PhaseEnd \/ Finish \/ CleanupStart \/ Sweep
         \/ Return \/ Raise \/ UNCHANGED vars \/ (\E k \in keys : Vanish(k))
  PROVE  MemTypes'
<1>0. /\ HandlerTypes /\ faults \in Nat /\ config \in Configs
      /\ Phases = 1..Len(config.workers) /\ Len(config.workers) \in Nat
  BY ConfigNumbers DEF MemTypes, Phases
<1> USE DEF HandlerTypes, Looping
<1>1. CASE Join
  <2>1. IsFiniteSet(abandoned')
    BY <1>1, JoinedCounts DEF Join
  <2> QED BY <1>0, <1>1, <2>1, QuietKeepsTypes DEF Join, threadVars, Phases
<1>2. CASE Sum
  <2>1. keys_written' \in Nat /\ write_errors' \in Nat
    <3>1. keys_written \in Nat /\ write_errors \in Nat /\ phase \in Phases
      BY <1>0, <1>2 DEF Sum
    <3>2. /\ keys_written' = keys_written + SumFunctionOnSet(Written, WithState({"complete"}))
          /\ write_errors' = write_errors + SumFunctionOnSet(Errors, WithState(Finished))
      BY <1>2 DEF Sum
    <3>3. /\ SumFunctionOnSet(Written, WithState({"complete"})) \in Nat
          /\ SumFunctionOnSet(Errors, WithState(Finished)) \in Nat
      BY <3>1, SumsCount
    <3> HIDE DEF HandlerTypes, Looping
    <3> QED BY <3>1, <3>2, <3>3
  <2> QED BY <1>0, <1>2, <2>1, QuietKeepsTypes DEF Sum, threadVars, Phases
<1>3. CASE FillJoin
  <2>1. IsFiniteSet(abandoned')
    BY <1>3, JoinedCounts DEF FillJoin
  <2>2. FillWriter \in Writers
    BY <1>0, <1>3, FillWriterIn, MemoryAssumption DEF FillJoin
  <2>3. writer[FillWriter].written \in Nat /\ writer[FillWriter].errors \in Nat
    BY <2>2 DEF MemTypes, RecordOK, WriterType
  <2>4. keys_written' \in Nat /\ write_errors' \in Nat /\ attempt' \in 0..MaxFills
    <3>1. PICK r : r = writer[FillWriter]
      OBVIOUS
    <3>2. \/ /\ keys_written' = keys_written + r.written
             /\ write_errors' = write_errors + r.errors
             /\ attempt' \in {attempt, attempt + 1}
          \/ UNCHANGED <<keys_written, write_errors, attempt>>
      BY <1>3, <3>1 DEF FillJoin
    <3>3. attempt + 1 \in 0..MaxFills
      BY <1>0, <1>3, MemoryAssumption DEF FillJoin
    <3>4. /\ keys_written \in Nat /\ write_errors \in Nat /\ attempt \in 0..MaxFills
          /\ r.written \in Nat /\ r.errors \in Nat
      BY <1>0, <2>3, <3>1
    <3>5. keys_written' \in Nat /\ write_errors' \in Nat
      <4> HIDE DEF HandlerTypes
      <4> QED BY <3>2, <3>4
    <3>6. attempt' \in 0..MaxFills
      BY <3>2, <3>3, <3>4
    <3> QED BY <3>5, <3>6
  <2>5. pc' \in {"next", "check"} /\ UNCHANGED <<keys, config, writer, faults, phase, current_used, joining>>
    BY <1>3 DEF FillJoin, threadVars
  <2> QED BY <1>0, <1>3, <2>1, <2>4, <2>5, QuietKeepsTypes DEF FillJoin, Phases
<1>4. CASE PhaseEnd
  BY <1>0, <1>4, UsedNumbers, QuietKeepsTypes DEF PhaseEnd, threadVars, Phases
<1>5. CASE Finish
  BY <1>0, <1>5, QuietKeepsTypes DEF Finish, threadVars, Phases
<1>6. CASE CleanupStart
  BY <1>0, <1>6, QuietKeepsTypes DEF CleanupStart, ScanStart, threadVars, Phases
<1>7. CASE Sweep
  BY <1>0, <1>7, SweepShrinks, QuietKeepsTypes DEF Sweep, threadVars, handlerVars, Phases
<1>8. CASE Return
  BY <1>0, <1>8, QuietKeepsTypes DEF Return, threadVars, Phases
<1>9. CASE Raise
  BY <1>0, <1>9, FaultCounts, QuietKeepsTypes DEF Raise, Phases
<1>10. CASE UNCHANGED vars
  BY <1>0, <1>10, QuietKeepsTypes DEF vars, threadVars, handlerVars, Phases
<1>11. CASE \E k \in keys : Vanish(k)
  BY <1>0, <1>11, QuietKeepsTypes DEF Vanish, threadVars, handlerVars, Phases
<1> QED
  BY <1>1, <1>2, <1>3, <1>4, <1>5, <1>6, <1>7, <1>8, <1>9, <1>10, <1>11


LEMMA StartedRecord ==
  ASSUME NEW n \in Nat
  PROVE  /\ Started(n) = [state |-> "opening", quota |-> n, i |-> 0, written |-> 0, errors |-> 0]
         /\ [Unstarted EXCEPT !.state = "complete"] =
              [state |-> "complete", quota |-> 0, i |-> 0, written |-> 0, errors |-> 0]
<1>1. Started(n) = [state |-> "opening", quota |-> n, i |-> 0, written |-> 0, errors |-> 0]
  <2>1. PICK u : u = [state |-> "none", quota |-> 0, i |-> 0, written |-> 0, errors |-> 0]
    OBVIOUS
  <2>2. Started(n) = [u EXCEPT !.state = "opening", !.quota = n]
    BY <2>1 DEF Started, Unstarted
  <2>3. [u EXCEPT !.state = "opening", !.quota = n] \in
          [state : {"opening"}, quota : {n}, i : {0}, written : {0}, errors : {0}]
    BY <2>1
  <2> QED BY <2>1, <2>2, <2>3
<1>2. [Unstarted EXCEPT !.state = "complete"] =
        [state |-> "complete", quota |-> 0, i |-> 0, written |-> 0, errors |-> 0]
  BY DEF Unstarted
<1> QED BY <1>1, <1>2

(* The keys a worker of the phase is to write. *)
Quota(w) ==
  IF config.flat THEN config.keys_per_worker
  ELSE Share(Shortfall(config.targets[phase], current_used) \div config.value,
             config.workers[phase], w[2])

LEMMA QuotaNumbers ==
  ASSUME MemTypes, phase \in Phases, NEW w \in PhaseWriters(phase)
  PROVE  Quota(w) \in 0..MaxQuota
<1>1. /\ config \in Configs /\ current_used \in Nat
      /\ config.workers[phase] \in Nat \ {0} /\ config.keys_per_worker \in Nat
      /\ MaxMemory \in Nat /\ config.flat \in BOOLEAN
      /\ ~config.flat => config.targets[phase] \in 1..MaxMemory
      /\ config.value \in Nat \ {0}
  BY ConfigNumbers DEF MemTypes, HandlerTypes
<1>2. w[2] \in 0..(config.workers[phase] - 1)
  BY DEF PhaseWriters, WorkersOf
<1>3. CASE config.flat
  BY <1>1, <1>3 DEF Quota, MaxQuota
<1>4. CASE ~config.flat
  <2>0. PICK b \in Nat : b = Shortfall(config.targets[phase], current_used) /\ b <= MaxMemory
    BY <1>1, <1>4 DEF Shortfall
  <2>1. PICK n \in Nat : n = b \div config.value /\ n <= MaxMemory
    BY <1>1, <2>0, Divided
  <2>2. PICK d \in Nat \ {0}, j \in Int : d = config.workers[phase] /\ j = w[2] /\ j \in 0..(d - 1)
    BY <1>1, <1>2
  <2>3. Share(n, d, j) \in Nat /\ Share(n, d, j) <= n
    BY <2>2, ShareNumbers
  <2>4. Quota(w) = Share(n, d, j)
    BY <1>4, <2>0, <2>1, <2>2 DEF Quota
  <2> QED BY <1>1, <2>1, <2>3, <2>4 DEF MaxQuota
<1> QED BY <1>3, <1>4

(* What a phase's start does to its threads: each has its share before it, *)
(* or nothing to do.                                                       *)
LEMMA PhaseStartEffect ==
  ASSUME MemTypes, PhaseStart
  PROVE  /\ phase \in Phases
         /\ DOMAIN writer' = Writers /\ writer' = [v \in Writers |-> writer'[v]]
         /\ \A w \in Writers \ PhaseWriters(phase) : writer'[w] = writer[w]
         /\ \A w \in PhaseWriters(phase) :
              /\ writer'[w].state \in {"opening", "complete"} /\ writer'[w].quota = Quota(w)
              /\ writer'[w].i = 0 /\ writer'[w].written = 0 /\ writer'[w].errors = 0
              /\ RecordOK(writer'[w])
<1>1. phase \in Phases /\ config \in Configs
  BY DEF PhaseStart, MemTypes
<1>2. writer' = [w \in Writers |->
          IF w \notin PhaseWriters(phase) THEN writer[w]
          ELSE IF Quota(w) > 0 \/ config.flat THEN Started(Quota(w))
          ELSE [Unstarted EXCEPT !.state = "complete"]]
  <2>1. PICK n : n = (IF config.flat THEN 0
                      ELSE Shortfall(config.targets[phase], current_used) \div config.value)
    OBVIOUS
  <2>2. \A w : Quota(w) = IF config.flat THEN config.keys_per_worker
                          ELSE Share(n, config.workers[phase], w[2])
    BY <2>1 DEF Quota
  <2>3. writer' = [w \in Writers |->
          IF w \notin PhaseWriters(phase) THEN writer[w]
          ELSE IF (IF config.flat THEN config.keys_per_worker
                   ELSE Share(n, config.workers[phase], w[2])) > 0 \/ config.flat
          THEN Started(IF config.flat THEN config.keys_per_worker
                       ELSE Share(n, config.workers[phase], w[2]))
          ELSE [Unstarted EXCEPT !.state = "complete"]]
    BY <2>1 DEF PhaseStart
  <2> QED BY <2>2, <2>3
<1>3. PhaseWriters(phase) \subseteq Writers
  BY <1>1, ThreadsOfPhase
<1>4. ASSUME NEW w \in PhaseWriters(phase)
      PROVE  /\ writer'[w].state \in {"opening", "complete"} /\ writer'[w].quota = Quota(w)
             /\ writer'[w].i = 0 /\ writer'[w].written = 0 /\ writer'[w].errors = 0
             /\ RecordOK(writer'[w])
  <2>1. PICK n \in 0..MaxQuota : n = Quota(w)
    BY <1>1, QuotaNumbers
  <2>2. n \in Nat
    BY <2>1
  <2>3. writer'[w] = IF n > 0 \/ config.flat THEN Started(n)
                     ELSE [Unstarted EXCEPT !.state = "complete"]
    BY <1>2, <1>3, <2>1
  <2>4. \/ writer'[w] = [state |-> "opening", quota |-> n, i |-> 0, written |-> 0, errors |-> 0]
        \/ /\ writer'[w] = [state |-> "complete", quota |-> 0, i |-> 0, written |-> 0, errors |-> 0]
           /\ n = 0
    BY <2>2, <2>3, StartedRecord
  <2>5. PICK r : r = writer'[w]
    OBVIOUS
  <2>6. /\ r.state \in {"opening", "complete"} /\ r.quota = n
        /\ r.i = 0 /\ r.written = 0 /\ r.errors = 0
        /\ r \in WriterType /\ (r.state = "complete" => n = 0)
    BY <2>1, <2>2, <2>4, <2>5 DEF WriterType, Finished
  <2>7. RecordOK(r)
    BY <2>2, <2>6 DEF RecordOK
  <2> QED BY <2>1, <2>5, <2>6, <2>7
<1> QED BY <1>1, <1>2, <1>3, <1>4

LEMMA PhaseStartKeepsTypes ==
  ASSUME MemTypes, PhaseStart
  PROVE  MemTypes'
<1>1. /\ config' = config /\ Keys' = Keys /\ Writers' = Writers /\ Phases' = Phases
      /\ UNCHANGED <<keys, scan, config, faults, phase, current_used, keys_written,
                     write_errors, abandoned>>
      /\ pc' = "join" /\ joining' = 0 /\ attempt' = 0
  BY DEF PhaseStart, Keys, Writers, Indexes, Phases
<1>2. phase \in Phases
  BY PhaseStartEffect
<1>3. HandlerTypes'
  <2>1. HandlerTypes /\ phase' \in Phases'
    BY <1>1, <1>2 DEF MemTypes
  <2>2. 0 \in 0..MaxFills
    BY MemoryAssumption
  <2> QED BY <1>1, <2>1, <2>2 DEF HandlerTypes, Looping
<1>4. ASSUME NEW v \in Writers
      PROVE  RecordOK(writer[v])' /\ (writer[v].state # "none" => Planned(v))'
  <2>1. RecordOK(writer[v]) /\ (writer[v].state # "none" => Planned(v))
    BY DEF MemTypes
  <2>2. Planned(v)' <=> Planned(v)
    BY <1>1 DEF Planned, PhaseWriters
  <2>3. CASE v \in PhaseWriters(phase)
    <3>1. v[1] = phase
      BY <2>3 DEF PhaseWriters, WorkersOf
    <3>2. Planned(v)
      BY <1>2, <2>3, <3>1 DEF Planned
    <3>3. RecordOK(writer'[v])
      BY <2>3, PhaseStartEffect
    <3>4. RecordOK(writer[v])'
      BY <1>1, <3>3 DEF RecordOK, WriterType, MaxQuota
    <3> QED BY <2>2, <3>2, <3>4
  <2>4. CASE v \notin PhaseWriters(phase)
    <3>1. writer'[v] = writer[v]
      BY <2>4, PhaseStartEffect
    <3> QED BY <1>1, <2>1, <2>2, <3>1 DEF RecordOK, WriterType, MaxQuota
  <2> QED BY <2>3, <2>4
<1>5. DOMAIN writer' = Writers /\ writer' = [v \in Writers |-> writer'[v]]
  BY PhaseStartEffect
<1> QED BY <1>1, <1>3, <1>4, <1>5 DEF MemTypes

(* A top-up is started for the gap, or the phase ends. *)
LEMMA FillCheckEffect ==
  ASSUME MemTypes, FillCheck
  PROVE  /\ phase \in Phases /\ ~config.flat /\ pc = "check"
         /\ UNCHANGED <<keys, scan, config, faults, phase, current_used, joining, attempt,
                        keys_written, write_errors, abandoned>>
         /\ \/ /\ pc' = "next" /\ UNCHANGED writer
               /\ attempt >= MaxFills \/ Used >= config.targets[phase]
            \/ /\ pc' = "fill" /\ attempt < MaxFills
               /\ FillWriter \in Writers /\ FillWriter \in FillsOf(phase)
               /\ \E r : /\ writer' = [writer EXCEPT ![FillWriter] = r]
                         /\ r.state = "opening"
                         /\ r.quota = FillKeys(config.targets[phase] - Used)
                         /\ config.targets[phase] - Used \in Nat \ {0}
                         /\ r.i = 0 /\ r.written = 0 /\ r.errors = 0
                         /\ RecordOK(r) /\ r.quota \in Nat \ {0}
<1>1. /\ phase \in Phases /\ ~config.flat /\ pc = "check"
      /\ UNCHANGED <<keys, scan, config, faults, phase, current_used, joining, attempt,
                     keys_written, write_errors, abandoned>>
  BY DEF FillCheck, MemTypes, HandlerTypes, Looping
<1>2. config \in Configs /\ attempt \in Nat /\ attempt \in Int /\ MaxFills \in Int
  <2>1. MaxFills \in 2..10
    BY MemoryAssumption
  <2>2. attempt \in 0..MaxFills
    BY DEF MemTypes, HandlerTypes
  <2>3. config \in Configs
    BY DEF MemTypes
  <2> QED BY ONLY <2>1, <2>2, <2>3
<1>3. config.targets[phase] \in Nat /\ config.targets[phase] <= MaxMemory /\ MaxMemory \in Nat
  <2>1. config.targets[phase] \in 1..MaxMemory /\ MaxMemory \in Nat
    BY <1>1, <1>2, ConfigNumbers
  <2> QED BY <2>1
<1>4. Used \in Nat
  BY UsedNumbers
<1>5. CASE attempt < MaxFills /\ Used < config.targets[phase]
  <2>0. PICK g \in Nat \ {0} : g = config.targets[phase] - Used /\ g <= MaxMemory
    BY <1>3, <1>4, <1>5
  <2>1. PICK n \in Nat \ {0} : n = FillKeys(g) /\ n \in 0..MaxQuota
    <3>1. config.keys_per_worker \in Nat /\ config.value \in Nat \ {0}
      BY <1>2, ConfigNumbers
    <3>2. FillKeys(g) \in Nat \ {0} /\ FillKeys(g) <= g
      BY <3>1, FillNumbers
    <3> QED BY <1>3, <2>0, <3>1, <3>2 DEF MaxQuota
  <2>2. /\ writer' = [writer EXCEPT ![FillWriter] = Started(FillKeys(config.targets[phase] - Used))]
        /\ pc' = "fill"
    BY <1>5 DEF FillCheck
  <2>3. n = FillKeys(config.targets[phase] - Used)
    BY <2>0, <2>1
  <2>4. PICK r : r = Started(n)
    OBVIOUS
  <2>5. r = [state |-> "opening", quota |-> n, i |-> 0, written |-> 0, errors |-> 0]
    BY <2>4, StartedRecord
  <2>6. RecordOK(r)
    BY <2>1, <2>5 DEF RecordOK, WriterType
  <2>7. FillWriter \in Writers /\ FillWriter \in FillsOf(phase)
    BY <1>1, <1>2, <1>5, FillWriterIn
  <2>8. writer' = [writer EXCEPT ![FillWriter] = r]
    BY <2>2, <2>3, <2>4
  <2>9. /\ r.state = "opening" /\ r.quota = FillKeys(config.targets[phase] - Used)
        /\ config.targets[phase] - Used \in Nat \ {0}
        /\ r.i = 0 /\ r.written = 0 /\ r.errors = 0 /\ r.quota \in Nat \ {0}
    BY <2>0, <2>1, <2>3, <2>5
  <2> QED BY <1>1, <1>5, <2>2, <2>6, <2>7, <2>8, <2>9
<1>6. CASE ~ (attempt < MaxFills /\ Used < config.targets[phase])
  <2>1. pc' = "next" /\ UNCHANGED writer
    BY <1>6 DEF FillCheck
  <2> QED BY <1>1, <1>2, <1>3, <1>4, <1>6, <2>1
<1> QED BY <1>5, <1>6

LEMMA FillCheckKeepsTypes ==
  ASSUME MemTypes, FillCheck
  PROVE  MemTypes'
<1>1. /\ phase \in Phases /\ ~config.flat
      /\ UNCHANGED <<keys, scan, config, faults, phase, current_used, joining, attempt,
                     keys_written, write_errors, abandoned>>
      /\ config' = config /\ Keys' = Keys /\ Writers' = Writers /\ Phases' = Phases
  BY FillCheckEffect DEF Keys, Writers, Indexes, Phases
<1>2. HandlerTypes'
  <2>1. pc' = "next" \/ (pc' = "fill" /\ attempt < MaxFills)
    BY FillCheckEffect
  <2> QED BY <1>1, <2>1 DEF MemTypes, HandlerTypes, Looping
<1>3. CASE UNCHANGED writer
  BY <1>1, <1>2, <1>3, QuietKeepsTypes DEF MemTypes
<1>4. CASE writer' # writer
  <2>0. /\ FillWriter \in Writers /\ FillWriter \in FillsOf(phase)
        /\ \E r : writer' = [writer EXCEPT ![FillWriter] = r] /\ RecordOK(r)
    BY <1>4, FillCheckEffect
  <2>1. PICK w, r : w = FillWriter /\ writer' = [writer EXCEPT ![w] = r] /\ RecordOK(r)
    BY <2>0
  <2>2. w \in Writers /\ w \in FillsOf(phase) /\ w[1] = phase
    BY <2>0, <2>1 DEF FillWriter
  <2>3. Planned(w)
    BY <1>1, <2>2 DEF Planned
  <2>4. ASSUME NEW v \in Writers
        PROVE  RecordOK(writer[v])' /\ (writer[v].state # "none" => Planned(v))'
    <3>1. RecordOK(writer[v]) /\ (writer[v].state # "none" => Planned(v))
      BY DEF MemTypes
    <3>2. Planned(v)' <=> Planned(v)
      BY <1>1 DEF Planned, PhaseWriters
    <3>3. CASE v = w
      <4>1. writer'[v] = r
        BY <2>1, <2>2, <3>3 DEF MemTypes
      <4>2. RecordOK(writer[v])'
        BY <1>1, <2>1, <4>1 DEF RecordOK, WriterType, MaxQuota
      <4> QED BY <2>3, <3>2, <3>3, <4>2
    <3>4. CASE v # w
      <4>1. writer'[v] = writer[v]
        BY <2>1, <3>4 DEF MemTypes
      <4> QED BY <1>1, <3>1, <3>2, <4>1 DEF RecordOK, WriterType, MaxQuota
    <3> QED BY <3>3, <3>4
  <2>5. DOMAIN writer' = Writers /\ writer' = [v \in Writers |-> writer'[v]]
    BY <2>1 DEF MemTypes
  <2> QED BY <1>1, <1>2, <2>4, <2>5 DEF MemTypes
<1> QED BY <1>3, <1>4

LEMMA InitTypes == Init => MemTypes
<1> SUFFICES ASSUME Init PROVE MemTypes
  OBVIOUS
<1>1. /\ config \in Configs /\ Len(config.workers) \in Nat \ {0}
      /\ keys \in SUBSET Keys /\ IsFiniteSet(keys)
      /\ config.before \in Nat /\ config.cost \in Nat
  BY ConfigNumbers DEF Init
<1>0. Used \in Nat
  <2>1. OnNode(keys, TRUE) \in Nat
    <3>1. IsFiniteSet({k \in keys : NodeOf(k[1]) = TRUE})
      BY <1>1, FS_Subset
    <3> QED BY <3>1, FS_CardinalityType DEF OnNode
  <2>2. \A a, b \in Nat : a * b \in Nat
    BY ONLY SMT
  <2>3. config.cost * OnNode(keys, TRUE) \in Nat
    BY ONLY <1>1, <2>1, <2>2
  <2>4. \A a, b \in Nat : a + b \in Nat
    BY ONLY SMT
  <2> QED BY ONLY <1>1, <2>3, <2>4 DEF Used
<1>2. HandlerTypes
  BY <1>0, <1>1, FS_EmptySet, MemoryAssumption DEF Init, HandlerTypes, Looping
<1>3. ASSUME NEW w \in Writers
      PROVE  RecordOK(writer[w]) /\ writer[w].state = "none"
  <2>1. writer[w] = [state |-> "none", quota |-> 0, i |-> 0, written |-> 0, errors |-> 0]
    BY DEF Init, Unstarted
  <2>2. 0 \in 0..MaxQuota
    BY <1>1, ConfigNumbers DEF MaxQuota
  <2> QED BY <2>1, <2>2 DEF RecordOK, WriterType
<1> QED BY <1>1, <1>2, <1>3, FS_EmptySet DEF Init, MemTypes

LEMMA StepKeepsTypes == MemTypes /\ [Next]_vars => MemTypes'
BY WriterKeepsTypes, HandlerKeepsTypes, PhaseStartKeepsTypes, FillCheckKeepsTypes
   DEF Next, Handler


(* What any step of a thread does: it was at work, it stores the first m   *)
(* keys of a batch, and its record tells of them, or of an error.          *)
LEMMA ThreadStep ==
  ASSUME MemTypes, NEW w \in Writers, Writer(w)
  PROVE  /\ Live(w) /\ HandlerRuns
         /\ UNCHANGED <<scan, config, handlerVars>>
         /\ \A v \in Writers \ {w} : writer'[v] = writer[v]
         /\ RecordOK(writer'[w])
         /\ writer'[w].state \in {"writing"} \cup Finished
         /\ writer'[w].quota = writer[w].quota
         /\ \E m \in Nat :
              /\ keys' = keys \cup BatchPrefix(w, m)
              /\ writer[w].i + m <= writer'[w].i
              /\ \/ /\ writer'[w].state \in {"writing", "complete"}
                    /\ writer'[w].i = writer[w].i + m
                    /\ writer'[w].written = writer[w].written + m
                    /\ writer'[w].errors = writer[w].errors
                 \/ /\ writer[w].state = "opening" /\ writer'[w].state = "error" /\ m = 0
                    /\ writer'[w].i = writer[w].i
                    /\ writer'[w].written = writer[w].written
                 \/ /\ writer'[w].state = "writing"
                    /\ writer'[w].written = writer[w].written
                    /\ writer'[w].errors = writer[w].errors + 1
<1>0. /\ RecordOK(writer[w])
      /\ writer[w].i \in Nat /\ writer[w].written \in Nat /\ writer[w].quota \in Nat
  <2>1. RecordOK(writer[w])
    BY DEF MemTypes
  <2>2. writer[w].quota \in Nat
    BY <2>1 DEF RecordOK, WriterType
  <2> QED BY <2>1, <2>2 DEF RecordOK, WriterType
<1>00. BatchPrefix(w, 0) = {}
  BY DEF BatchPrefix
<1>000. DOMAIN writer = Writers
  BY DEF MemTypes
<1>1. CASE WriterOpen(w)
  <2>1. PICK r : /\ writer' = [writer EXCEPT ![w] = r]
                 /\ RecordOK(r) /\ r.quota = writer[w].quota /\ r.i = 0 /\ r.written = 0
                 /\ r.state \in {"writing", "error"}
                 /\ r.errors = (IF r.state = "error" THEN 1 ELSE writer[w].errors)
    BY <1>1, OpenEffect
  <2>2. /\ writer[w].state = "opening"
        /\ UNCHANGED <<keys, scan, config, handlerVars>> /\ HandlerRuns
    BY <1>1 DEF WriterOpen
  <2>3. writer[w].i = 0 /\ writer[w].written = 0
    BY <1>0, <2>2 DEF RecordOK
  <2>4. writer'[w] = r /\ \A v \in Writers \ {w} : writer'[v] = writer[v]
    BY <1>000, <2>1
  <2>5. keys' = keys \cup BatchPrefix(w, 0) /\ 0 \in Nat /\ writer[w].i + 0 <= r.i
    BY <1>0, <1>00, <2>1, <2>2, <2>3
  <2>6. \/ /\ r.state \in {"writing", "complete"} /\ r.i = writer[w].i + 0
           /\ r.written = writer[w].written + 0 /\ r.errors = writer[w].errors
        \/ /\ writer[w].state = "opening" /\ r.state = "error" /\ 0 = 0
           /\ r.i = writer[w].i /\ r.written = writer[w].written
    BY <2>1, <2>2, <2>3
  <2> QED BY <2>1, <2>2, <2>4, <2>5, <2>6 DEF Live, Finished
<1>2. CASE WriterBatch(w)
  <2>1. PICK r, m :
          /\ writer' = [writer EXCEPT ![w] = r]
          /\ keys' = keys \cup BatchPrefix(w, m)
          /\ RecordOK(r) /\ r.state = "writing" /\ r.quota = writer[w].quota
          /\ m \in Nat /\ writer[w].i + m <= r.i
          /\ \/ /\ r.errors = writer[w].errors /\ r.written = writer[w].written + m
                /\ r.i = writer[w].i + m
             \/ r.errors = writer[w].errors + 1 /\ r.written = writer[w].written
    BY <1>2, BatchEffect
  <2>2. /\ writer[w].state = "writing"
        /\ UNCHANGED <<scan, config, handlerVars>> /\ HandlerRuns
    BY <1>2, BatchEffect DEF WriterBatch
  <2>3. writer'[w] = r /\ \A v \in Writers \ {w} : writer'[v] = writer[v]
    BY <1>000, <2>1
  <2> QED BY <2>1, <2>2, <2>3 DEF Live, Finished
<1>3. CASE WriterEnd(w)
  <2>1. PICK r : /\ writer' = [writer EXCEPT ![w] = r]
                 /\ RecordOK(r) /\ r.state = "complete" /\ r.quota = writer[w].quota
                 /\ r.i = writer[w].i /\ r.written = writer[w].written
                 /\ r.errors = writer[w].errors
    BY <1>3, EndEffect
  <2>2. /\ writer[w].state = "writing"
        /\ UNCHANGED <<keys, scan, config, handlerVars>> /\ HandlerRuns
    BY <1>3 DEF WriterEnd
  <2>3. writer'[w] = r /\ \A v \in Writers \ {w} : writer'[v] = writer[v]
    BY <1>000, <2>1
  <2>4. keys' = keys \cup BatchPrefix(w, 0) /\ 0 \in Nat /\ writer[w].i + 0 <= r.i
    BY <1>0, <1>00, <2>1, <2>2
  <2>5. /\ r.state \in {"writing", "complete"} /\ r.i = writer[w].i + 0
        /\ r.written = writer[w].written + 0 /\ r.errors = writer[w].errors
    BY <1>0, <2>1
  <2> QED BY <2>1, <2>2, <2>3, <2>4, <2>5 DEF Live, Finished
<1> QED BY <1>1, <1>2, <1>3 DEF Writer

-------------------------------------------------------------------------------
(* The invariant.                                                          *)

(* The threads the handler waits for; while no join has timed out, no      *)
(* other is at work.                                                       *)
Awaited == IF pc = "join" THEN PhaseWriters(phase)
           ELSE IF pc = "fill" THEN {FillWriter} ELSE {}

JoinInv ==
  abandoned = {} =>
    \A w \in Writers : Live(w) => w \in Awaited /\ (pc = "join" => w[2] >= joining)

(* The values stored, with those the threads at work are still to write,   *)
(* stay within the targets.                                                *)
Fits(n) == Within(config.before + config.value * n)
Remaining == [w \in Writers |-> IF Live(w) THEN writer[w].quota - writer[w].i ELSE 0]
RampInv ==
  ~config.flat /\ abandoned = {} =>
    /\ pc # "failed" => Fits(Near(keys) + SumFunctionOnSet(Remaining, Awaited))
    /\ Fits(Near(keys))
    /\ pc = "phase" => Payload <= current_used

(* The new keys are those told of so far and those the awaited threads     *)
(* count.                                                                  *)
Untold == \E w \in Awaited : writer[w].errors > 0 /\ writer[w].state # "error"
ReportInv ==
  abandoned = {} /\ write_errors = 0 /\ pc # "failed" /\ ~Untold
    => Fresh(keys) <= keys_written + SumFunctionOnSet(Written, Awaited)

(* The awaited threads are threads of the current phase. *)
LEMMA AwaitedThreads ==
  ASSUME MemTypes
  PROVE  /\ IsFiniteSet(Awaited) /\ Awaited \in SUBSET Writers
         /\ \A w \in Awaited : w[1] = phase
         /\ pc = "fill" => FillWriter \in FillsOf(phase)
<1>1. CASE pc = "join"
  <2>1. phase \in Phases /\ config \in Configs
    BY <1>1 DEF MemTypes, HandlerTypes, Looping
  <2>2. \A w \in PhaseWriters(phase) : w[1] = phase
    BY DEF PhaseWriters, WorkersOf
  <2> QED BY <1>1, <2>1, <2>2, ThreadsOfPhase DEF Awaited
<1>2. CASE pc = "fill"
  <2>1. phase \in Phases /\ config \in Configs /\ attempt \in Nat /\ attempt < MaxFills
    BY <1>2 DEF MemTypes, HandlerTypes, Looping
  <2>2. FillWriter \in Writers /\ FillWriter \in FillsOf(phase)
    BY <2>1, FillWriterIn
  <2>3. FillWriter[1] = phase
    BY DEF FillWriter
  <2>4. IsFiniteSet({FillWriter})
    BY FS_Singleton
  <2> QED BY <1>2, <2>2, <2>3, <2>4 DEF Awaited
<1>3. CASE pc \notin {"join", "fill"}
  BY <1>3, FS_EmptySet DEF Awaited
<1> QED BY <1>1, <1>2, <1>3

LEMMA AwaitedSame ==
  ASSUME UNCHANGED <<config, pc, phase, attempt>>
  PROVE  Awaited' = Awaited
BY DEF Awaited, PhaseWriters, WorkersOf, FillWriter, FillId

LEMMA ThreadCounts ==
  ASSUME MemTypes
  PROVE  /\ \A w \in Writers : Remaining[w] \in Nat /\ Remaining[w] \in Int
         /\ \A w \in Writers : Written[w] \in Nat /\ Written[w] \in Int
         /\ SumFunctionOnSet(Remaining, Awaited) \in Nat
         /\ SumFunctionOnSet(Written, Awaited) \in Nat
<1>1. ASSUME NEW w \in Writers
      PROVE  Remaining[w] \in Nat /\ Written[w] \in Nat
  <2>1. RecordOK(writer[w])
    BY DEF MemTypes
  <2>2. writer[w].quota \in Nat
    BY <2>1 DEF RecordOK, WriterType
  <2>3. writer[w].i \in Nat /\ writer[w].i <= writer[w].quota /\ writer[w].written \in Nat
    BY <2>1, <2>2 DEF RecordOK, WriterType
  <2> QED BY <2>2, <2>3 DEF Remaining, Written
<1>2. IsFiniteSet(Awaited) /\ Awaited \in SUBSET Writers
  BY AwaitedThreads
<1>3. SumFunctionOnSet(Remaining, Awaited) \in Nat
  BY <1>1, <1>2, SumNat
<1>4. SumFunctionOnSet(Written, Awaited) \in Nat
  BY <1>1, <1>2, SumNat
<1> QED BY <1>1, <1>3, <1>4

(* When every join has returned, no thread is at work. *)
LEMMA AllJoined ==
  ASSUME MemTypes, JoinInv, abandoned = {}, pc = "join", joining \notin WorkerIds(phase),
         NEW v \in Writers
  PROVE  ~Live(v)
<1> SUFFICES ASSUME Live(v) PROVE FALSE
  OBVIOUS
<1>1. config.workers[phase] \in Nat /\ joining \in Nat
  BY ConfigNumbers DEF MemTypes, HandlerTypes, Looping
<1>2. joining >= config.workers[phase]
  BY <1>1 DEF WorkerIds
<1>3. v \in PhaseWriters(phase) /\ v[2] >= joining /\ v[2] \in Nat
  BY ThreadNames DEF JoinInv, Awaited
<1>4. v[2] < config.workers[phase]
  BY <1>1, <1>3 DEF PhaseWriters, WorkersOf
<1> QED BY <1>1, <1>2, <1>3, <1>4

LEMMA InitJoin == Init => JoinInv
<1> SUFFICES ASSUME Init, NEW w \in Writers PROVE ~Live(w)
  BY DEF JoinInv
<1> QED BY DEF Init, Live, Unstarted

(* The joins go up to the last worker of a phase, the top-ups are joined  *)
(* one by one: who was joined has ended, or is counted as abandoned.       *)
LEMMA JoinKept ==
  ASSUME MemTypes, JoinInv, [Next]_vars
  PROVE  JoinInv'
<1> SUFFICES ASSUME abandoned' = {}, NEW v \in Writers, Live(v)'
             PROVE  (v \in Awaited /\ (pc = "join" => v[2] >= joining))'
  <2>1. Writers' = Writers
    BY DEF Writers
  <2> QED BY <2>1 DEF JoinInv
<1>0. /\ v[2] \in Nat /\ v[3] \in Nat
      /\ Live(v) /\ abandoned = {} => v \in Awaited /\ (pc = "join" => v[2] >= joining)
  BY ThreadNames DEF JoinInv
<1>00. joining \in Nat /\ config \in Configs /\ DOMAIN writer = Writers
  BY DEF MemTypes, HandlerTypes
<1>1. ASSUME NEW w \in Writers, Writer(w)
      PROVE  (v \in Awaited /\ (pc = "join" => v[2] >= joining))'
  <2>1. /\ UNCHANGED <<config, handlerVars>> /\ Live(w)
        /\ v # w => writer'[v] = writer[v]
    BY <1>1, ThreadStep
  <2>2. Live(v)
    BY <2>1 DEF Live
  <2>3. Awaited' = Awaited
    BY <2>1, AwaitedSame DEF handlerVars
  <2> QED BY <1>0, <2>1, <2>2, <2>3 DEF handlerVars
<1>2. CASE PhaseStart
  <2>1. /\ phase \in Phases /\ pc' = "join" /\ joining' = 0 /\ pc = "phase"
        /\ UNCHANGED <<config, phase, abandoned>>
        /\ v \notin PhaseWriters(phase) => writer'[v] = writer[v]
    BY <1>2, PhaseStartEffect DEF PhaseStart
  <2>2. v \in PhaseWriters(phase)
    <3>1. ~Live(v)
      BY <1>0, <2>1 DEF Awaited
    <3> QED BY <2>1, <3>1 DEF Live
  <2>3. v \in PhaseWriters(phase)'
    BY <2>1, <2>2 DEF PhaseWriters
  <2> QED BY <1>0, <2>1, <2>3 DEF Awaited
<1>3. CASE Join
  <2>1. /\ pc = "join" /\ joining \in WorkerIds(phase) /\ joining' = joining + 1
        /\ UNCHANGED <<threadVars, pc, phase, attempt>>
        /\ Joined(<<phase, joining, 0>>)
    BY <1>3 DEF Join
  <2>2. abandoned = {} /\ writer[<<phase, joining, 0>>].state \in Finished
    BY <2>1, JoinedCounts
  <2>3. Live(v)
    BY <2>1 DEF Live, threadVars
  <2>4. v \in Awaited /\ v[2] >= joining
    BY <1>0, <2>1, <2>2, <2>3
  <2>5. v[2] # joining
    <3> SUFFICES ASSUME v[2] = joining PROVE FALSE
      OBVIOUS
    <3>1. v = <<phase, joining, 0>>
      BY <2>1, <2>4 DEF Awaited, PhaseWriters, WorkersOf
    <3> QED BY <2>2, <2>3, <3>1 DEF Live, Finished
  <2>6. Awaited' = Awaited
    BY <2>1, AwaitedSame DEF threadVars
  <2> QED BY <1>0, <1>00, <2>1, <2>4, <2>5, <2>6
<1>4. CASE Sum
  <2>1. /\ pc = "join" /\ joining \notin WorkerIds(phase) /\ UNCHANGED <<threadVars, abandoned>>
        /\ phase \in Phases
    BY <1>4 DEF Sum, MemTypes, HandlerTypes, Looping
  <2>2. ~Live(v)
    BY <2>1, AllJoined
  <2> QED BY <2>1, <2>2 DEF Live, threadVars
<1>5. CASE FillCheck
  <2>1. /\ pc = "check" /\ UNCHANGED <<config, phase, attempt, abandoned>>
        /\ \/ UNCHANGED writer
           \/ /\ pc' = "fill" /\ FillWriter \in Writers
              /\ \E r : writer' = [writer EXCEPT ![FillWriter] = r]
    BY <1>5, FillCheckEffect
  <2>2. ~Live(v)
    BY <1>0, <2>1 DEF Awaited
  <2>3. CASE UNCHANGED writer
    BY <2>2, <2>3 DEF Live
  <2>4. CASE pc' = "fill" /\ \E r : writer' = [writer EXCEPT ![FillWriter] = r]
    <3>1. v = FillWriter
      BY <1>00, <2>2, <2>4 DEF Live
    <3>2. FillWriter' = FillWriter
      BY <2>1 DEF FillWriter, FillId
    <3> QED BY <2>4, <3>1, <3>2 DEF Awaited
  <2> QED BY <2>1, <2>3, <2>4
<1>6. CASE FillJoin
  <2>1. pc = "fill" /\ Joined(FillWriter) /\ UNCHANGED threadVars
    BY <1>6 DEF FillJoin
  <2>2. abandoned = {} /\ writer[FillWriter].state \in Finished
    BY <2>1, JoinedCounts
  <2>3. Live(v)
    BY <2>1 DEF Live, threadVars
  <2>4. v = FillWriter
    BY <1>0, <2>1, <2>2, <2>3 DEF Awaited
  <2> QED BY <2>2, <2>3, <2>4 DEF Live, Finished
<1>7. CASE PhaseEnd \/ Finish \/ CleanupStart \/ Sweep \/ Return \/ Raise
  <2>1. /\ pc \in {"phase", "next", "check", "cleanup", "sweep"}
        /\ UNCHANGED <<writer, abandoned>>
    BY <1>7 DEF PhaseEnd, Finish, CleanupStart, Sweep, Return, Raise, threadVars, handlerVars
  <2>2. ~Live(v)
    BY <1>0, <2>1 DEF Awaited
  <2> QED BY <2>1, <2>2 DEF Live
<1>8. CASE UNCHANGED vars \/ \E k \in keys : Vanish(k)
  <2>1. UNCHANGED <<writer, config, handlerVars>>
    BY <1>8 DEF vars, Vanish, threadVars
  <2>2. Live(v) /\ Awaited' = Awaited
    BY <2>1, AwaitedSame DEF Live, handlerVars
  <2> QED BY <1>0, <2>1, <2>2 DEF handlerVars
<1> QED BY <1>1, <1>2, <1>3, <1>4, <1>5, <1>6, <1>7, <1>8 DEF Next, Handler

(* The same numbers, in a form that also tells of the next state. *)
Numbers ==
  /\ Used = config.before + config.cost * Near(keys) /\ Used \in Nat
  /\ Payload = config.before + config.value * Near(keys)
  /\ Payload \in Nat /\ Payload <= Used
  /\ Near(keys) \in Nat /\ Fresh(keys) \in Nat
  /\ \A w \in Writers : Remaining[w] \in Int /\ Written[w] \in Int
  /\ SumFunctionOnSet(Remaining, Awaited) \in Nat
  /\ SumFunctionOnSet(Written, Awaited) \in Nat

LEMMA NumbersHold == MemTypes => Numbers
BY UsedNumbers, ThreadCounts DEF Numbers

LEMMA NextNumbers == ASSUME MemTypes' PROVE Numbers'
BY NumbersHold, PTL

(* The sums over the awaited threads after one of them has made a step. *)
LEMMA ThreadSums ==
  ASSUME MemTypes, MemTypes', NEW w \in Awaited, Writer(w)
  PROVE  /\ SumFunctionOnSet(Remaining, Awaited)' =
              SumFunctionOnSet(Remaining, Awaited) + (Remaining[w]' - Remaining[w])
         /\ SumFunctionOnSet(Written, Awaited)' =
              SumFunctionOnSet(Written, Awaited) + (Written[w]' - Written[w])
<1>1. IsFiniteSet(Awaited) /\ Awaited \in SUBSET Writers /\ w \in Writers /\ Writers' = Writers
  BY AwaitedThreads DEF Writers
<1>2. /\ \A v \in Writers \ {w} : writer'[v] = writer[v]
      /\ Awaited' = Awaited
  BY <1>1, ThreadStep, AwaitedSame DEF handlerVars
<1>3. PICK f, e : f = Remaining /\ e = Remaining'
  OBVIOUS
<1>4. PICK g, h : g = Written /\ h = Written'
  OBVIOUS
<1>5. /\ \A v \in Awaited : f[v] \in Int /\ g[v] \in Int
      /\ \A v \in Awaited : e[v] \in Int /\ h[v] \in Int
  <2>1. \A v \in Writers : f[v] \in Int /\ g[v] \in Int
    BY <1>3, <1>4, ThreadCounts
  <2>2. \A v \in Writers' : Remaining'[v] \in Int /\ Written'[v] \in Int
    BY NextNumbers DEF Numbers
  <2> QED BY <1>1, <1>3, <1>4, <2>1, <2>2
<1>6. \A v \in Awaited \ {w} : e[v] = f[v] /\ h[v] = g[v]
  BY <1>1, <1>2, <1>3, <1>4 DEF Remaining, Written, Live
<1>7. SumFunctionOnSet(e, Awaited) = SumFunctionOnSet(f, Awaited) + (e[w] - f[w])
  BY <1>1, <1>5, <1>6, SumChange
<1>8. SumFunctionOnSet(h, Awaited) = SumFunctionOnSet(g, Awaited) + (h[w] - g[w])
  BY <1>1, <1>5, <1>6, SumChange
<1>9. /\ SumFunctionOnSet(Remaining, Awaited)' = SumFunctionOnSet(e, Awaited)
      /\ SumFunctionOnSet(Written, Awaited)' = SumFunctionOnSet(h, Awaited)
      /\ Remaining[w]' = e[w] /\ Written[w]' = h[w]
  BY <1>2, <1>3, <1>4
<1> QED BY <1>3, <1>4, <1>7, <1>8, <1>9

(* A step of a thread stores at most as many keys as it had left to write, *)
(* and the new ones are no more than those it counts, unless a batch has   *)
(* failed.                                                                 *)
LEMMA ThreadGain ==
  ASSUME MemTypes, MemTypes', NEW w \in Writers, Writer(w)
  PROVE  /\ Used <= Used' /\ Near(keys)' + Remaining[w]' <= Near(keys) + Remaining[w]
         /\ \/ Fresh(keys)' + Written[w] <= Fresh(keys) + Written[w]'
            \/ writer'[w].errors > 0 /\ writer'[w].state # "error"
<1>1. PICK m \in Nat :
              /\ keys' = keys \cup BatchPrefix(w, m)
              /\ writer[w].i + m <= writer'[w].i
              /\ \/ /\ writer'[w].state \in {"writing", "complete"}
                    /\ writer'[w].i = writer[w].i + m
                    /\ writer'[w].written = writer[w].written + m
                    /\ writer'[w].errors = writer[w].errors
                 \/ /\ writer[w].state = "opening" /\ writer'[w].state = "error" /\ m = 0
                    /\ writer'[w].i = writer[w].i
                    /\ writer'[w].written = writer[w].written
                 \/ /\ writer'[w].state = "writing"
                    /\ writer'[w].written = writer[w].written
                    /\ writer'[w].errors = writer[w].errors + 1
  BY ThreadStep
<1>2. /\ Live(w) /\ RecordOK(writer'[w]) /\ writer'[w].quota = writer[w].quota
      /\ config' = config /\ Writers' = Writers
  BY ThreadStep DEF Writers
<1>3. /\ writer[w].i \in Nat /\ writer[w].quota \in Nat /\ writer[w].written \in Nat
      /\ writer[w].errors \in Nat
      /\ writer'[w].i \in Nat /\ writer'[w].written \in Nat /\ writer'[w].errors \in Nat
      /\ writer'[w].i <= writer'[w].quota
      /\ writer'[w].state = "complete" => writer'[w].i = writer'[w].quota
  <2>1. RecordOK(writer[w])
    BY DEF MemTypes
  <2>2. writer[w].quota \in Nat
    BY <2>1 DEF RecordOK, WriterType
  <2> QED BY <1>2, <2>1, <2>2 DEF RecordOK, WriterType
<1>4. IsFiniteSet(BatchPrefix(w, m)) /\ Cardinality(BatchPrefix(w, m)) = m
  BY <1>3, PrefixSize
<1>5. /\ Fresh(keys)' <= Fresh(keys) + m
      /\ Near(keys)' <= Near(keys) + m /\ Near(keys) <= Near(keys)'
  <2>1. IsFiniteSet(keys)
    BY DEF MemTypes
  <2>2. PICK P : P = BatchPrefix(w, m)
    OBVIOUS
  <2>3. /\ IsFiniteSet(keys \cup P) /\ Fresh(keys \cup P) <= Fresh(keys) + m
        /\ Near(keys \cup P) <= Near(keys) + m
    BY <1>4, <2>1, <2>2, MoreKeys
  <2>4. keys \in SUBSET (keys \cup P)
    OBVIOUS
  <2>5. Near(keys) <= Near(keys \cup P)
    BY <2>3, <2>4, FewerKeys
  <2>6. Near(keys)' = Near(keys \cup P) /\ Fresh(keys)' = Fresh(keys \cup P)
    BY <1>1, <1>2, <2>2 DEF Near, NodeOf, Fresh
  <2> QED BY <2>3, <2>5, <2>6
<1>6. /\ config.cost \in Nat /\ config.before \in Nat
      /\ Used = config.before + config.cost * Near(keys)
      /\ Fresh(keys) \in Nat /\ Near(keys) \in Nat
  BY UsedNumbers
<1>7. /\ Used' = config.before + config.cost * Near(keys)'
      /\ Fresh(keys)' \in Nat /\ Near(keys)' \in Nat
  BY <1>2, NextNumbers DEF Numbers
<1>8. Used <= Used'
  <2>1. PICK c, a, b \in Nat : c = config.cost /\ a = Near(keys) /\ b = Near(keys)' /\ a <= b
    BY <1>5, <1>6, <1>7
  <2>2. c * a \in Nat /\ c * b \in Nat /\ c * a <= c * b
    BY <2>1, Scaled
  <2> QED BY <1>6, <1>7, <2>1, <2>2
<1>9. /\ Remaining[w] = writer[w].quota - writer[w].i
      /\ Written[w] = writer[w].written /\ Written[w]' = writer'[w].written
      /\ Remaining[w]' <= writer'[w].quota - writer'[w].i /\ Remaining[w]' \in Int
  <2>1. Remaining[w]' = IF Live(w)' THEN writer'[w].quota - writer'[w].i ELSE 0
    BY <1>2 DEF Remaining
  <2>2. Remaining[w] = writer[w].quota - writer[w].i
    BY <1>2 DEF Remaining
  <2>3. Written[w] = writer[w].written /\ Written[w]' = writer'[w].written
    BY <1>2 DEF Written
  <2> QED BY <1>2, <1>3, <2>1, <2>2, <2>3
<1>10. Near(keys)' + Remaining[w]' <= Near(keys) + Remaining[w]
  BY <1>1, <1>2, <1>3, <1>5, <1>6, <1>7, <1>9
<1>11. \/ Fresh(keys)' + Written[w] <= Fresh(keys) + Written[w]'
       \/ writer'[w].errors > 0 /\ writer'[w].state # "error"
  BY <1>1, <1>3, <1>5, <1>6, <1>7, <1>9
<1> QED BY <1>8, <1>10, <1>11

(* Less memory, or a later phase, is within the targets too. *)
LEMMA LessIsWithin ==
  ASSUME MemTypes, NEW n \in Nat, Within(n), NEW m \in Nat, m <= n,
         ~config.flat, config' = config, phase' \in {phase, phase + 1}
  PROVE  Within(m)'
<1>1. /\ phase \in Nat /\ config \in Configs /\ Phases' = Phases
      /\ config.value \in Nat
  BY ConfigNumbers DEF MemTypes, HandlerTypes, Phases
<1> DEFINE first == config.before + config.value * OnNode(config.leftover, TRUE)
<1>0. first \in Nat /\ first' = first
  <2>1. IsFiniteSet({k \in config.leftover : NodeOf(k[1]) = TRUE})
    BY <1>1, ConfigNumbers, FS_Subset
  <2>2. OnNode(config.leftover, TRUE) \in Nat
    BY <2>1, FS_CardinalityType DEF OnNode
  <2>3. config.before \in Nat /\ config.value * OnNode(config.leftover, TRUE) \in Nat
    <3>1. PICK v, a \in Nat : v = config.value /\ a = OnNode(config.leftover, TRUE)
      BY <1>1, <2>2
    <3>2. v * a \in Nat
      OBVIOUS
    <3>3. config.before \in Nat
      BY <1>1, ConfigNumbers
    <3> QED BY <3>1, <3>2, <3>3
  <2>4. OnNode(config.leftover, TRUE)' = OnNode(config.leftover, TRUE)
    BY DEF OnNode, NodeOf
  <2>5. first \in Nat
    <3>1. \A a, b \in Nat : a + b \in Nat
      OBVIOUS
    <3> QED BY <2>3, <3>1
  <2>6. first' = first
    BY <2>4
  <2> QED BY <2>5, <2>6
<1>00. \A x : Within(x) <=> x <= first \/ \E p \in Phases : p <= phase /\ x < config.targets[p] + config.value
  BY DEF Within
<1>000. Within(m)' <=> m <= first \/ \E p \in Phases : p <= phase' /\ m < config.targets[p] + config.value
  BY <1>0, <1>1 DEF Within
<1> HIDE DEF first
<1>2. CASE n <= first
  BY <1>0, <1>000, <1>2
<1>3. CASE \E p \in Phases : p <= phase /\ n < config.targets[p] + config.value
  <2>1. PICK p \in Phases : p <= phase /\ n < config.targets[p] + config.value
    BY <1>3
  <2>2. p \in Nat
    BY DEF Phases
  <2>3. p <= phase'
    BY <1>1, <2>1, <2>2
  <2>4. m < config.targets[p] + config.value
    <3>1. config.targets[p] \in 1..MaxMemory /\ MaxMemory \in Nat
      BY <1>1, ConfigNumbers
    <3> QED BY <1>1, <2>1, <3>1
  <2> QED BY <1>000, <2>3, <2>4
<1> QED BY <1>00, <1>2, <1>3

LEMMA SumSingle ==
  ASSUME NEW f, NEW w, f[w] \in Int
  PROVE  SumFunctionOnSet(f, {w}) = f[w]
<1>1. IsFiniteSet({w}) /\ w \in {w} /\ {w} \ {w} = {} /\ \A x \in {w} : f[x] \in Int
  BY FS_Singleton
<1>2. SumFunctionOnSet(f, {w}) = f[w] + SumFunctionOnSet(f, {w} \ {w})
  BY <1>1, SumRemove
<1> QED BY <1>1, <1>2, SumEmpty

LEMMA NothingAwaited ==
  Awaited = {} => /\ SumFunctionOnSet(Remaining, Awaited) = 0
                  /\ SumFunctionOnSet(Written, Awaited) = 0
BY SumEmpty

LEMMA NothingAwaitedNext ==
  ASSUME pc' \notin {"join", "fill"}
  PROVE  /\ SumFunctionOnSet(Remaining, Awaited)' = 0
         /\ SumFunctionOnSet(Written, Awaited)' = 0
<1>1. Awaited' = {}
  BY DEF Awaited
<1>2. SumFunctionOnSet(Remaining', {}) = 0 /\ SumFunctionOnSet(Written', {}) = 0
  <2>1. \A f : SumFunctionOnSet(f, {}) = 0
    BY SumEmpty
  <2> QED BY <2>1
<1> QED BY <1>1, <1>2

LEMMA FewerUsed ==
  ASSUME MemTypes, MemTypes', config' = config, keys' \in SUBSET keys
  PROVE  Used' <= Used /\ Near(keys)' <= Near(keys) /\ Fresh(keys)' <= Fresh(keys)
<1>1. Near(keys') <= Near(keys) /\ Fresh(keys') <= Fresh(keys)
  BY FewerKeys DEF MemTypes
<1>2. Near(keys)' = Near(keys') /\ Fresh(keys)' = Fresh(keys')
  BY DEF Near, NodeOf, Fresh
<1>3. /\ Used = config.before + config.cost * Near(keys)
      /\ config.before \in Nat /\ config.cost \in Nat /\ Near(keys) \in Nat
  BY UsedNumbers
<1>4. Used' = config.before + config.cost * Near(keys)' /\ Near(keys)' \in Nat
  BY NextNumbers DEF Numbers
<1>5. PICK c, a, b \in Nat : c = config.cost /\ a = Near(keys)' /\ b = Near(keys) /\ a <= b
  BY <1>1, <1>2, <1>3, <1>4
<1>6. c * a \in Nat /\ c * b \in Nat /\ c * a <= c * b
  BY <1>5, Scaled
<1> QED BY <1>1, <1>2, <1>3, <1>4, <1>5, <1>6

(* The memory after a step is within the targets if what it comes from is. *)
LEMMA StaysWithin ==
  ASSUME MemTypes, MemTypes', ~config.flat, config' = config, phase' \in {phase, phase + 1},
         NEW n \in Nat, Fits(n), Near(keys)' + SumFunctionOnSet(Remaining, Awaited)' <= n
  PROVE  /\ Fits(Near(keys) + SumFunctionOnSet(Remaining, Awaited))'
         /\ Fits(Near(keys))'
<1>1. PICK m, u : /\ m = Near(keys)' + SumFunctionOnSet(Remaining, Awaited)'
                  /\ u = Near(keys)'
  OBVIOUS
<1>2. m \in Nat /\ u \in Nat /\ m <= n /\ u <= n
  <2>1. SumFunctionOnSet(Remaining, Awaited)' \in Nat
    BY NextNumbers DEF Numbers
  <2>2. Near(keys)' \in Nat
    BY NextNumbers DEF Numbers
  <2> QED BY <1>1, <2>1, <2>2
<1>3. PICK v, before \in Nat : v = config.value /\ before = config.before
  BY UsedNumbers
<1>4. /\ v * m \in Nat /\ v * u \in Nat /\ v * n \in Nat
      /\ v * m <= v * n /\ v * u <= v * n
  BY <1>2, <1>3, Scaled
<1>5. PICK x, y, z \in Nat : /\ x = before + v * n /\ y = before + v * m /\ z = before + v * u
                             /\ y <= x /\ z <= x
  <2>1. \A a, b, c \in Nat :
          b <= a /\ c <= a => \E x, y, z \in Nat :
            x = before + a /\ y = before + b /\ z = before + c /\ y <= x /\ z <= x
    BY <1>3
  <2> QED BY <1>4, <2>1
<1>6. Within(x)
  BY <1>3, <1>5 DEF Fits
<1>7. Within(y)' /\ Within(z)'
  BY <1>5, <1>6, LessIsWithin
<1>8. y = config'.before + config'.value * m /\ z = config'.before + config'.value * u
  BY <1>3, <1>5
<1> QED BY <1>1, <1>7, <1>8 DEF Fits

LEMMA InitRamp == Init => RampInv
<1> SUFFICES ASSUME Init PROVE RampInv
  OBVIOUS
<1>1. MemTypes
  BY InitTypes
<1>2. Payload = config.before + config.value * Near(keys) /\ Payload <= current_used
  <2>1. current_used = Used
    BY DEF Init
  <2> QED BY <1>1, <2>1, UsedNumbers
<1>3. SumFunctionOnSet(Remaining, Awaited) = 0 /\ Near(keys) \in Nat
  BY <1>1, NothingAwaited, UsedNumbers DEF Init, Awaited
<1>4. Fits(Near(keys))
  <2>1. Payload = config.before + config.value * OnNode(config.leftover, TRUE)
    BY DEF Init, Payload
  <2>2. Payload \in Nat /\ Payload <= Payload
    BY <1>1, UsedNumbers
  <2>3. Within(Payload)
    BY <2>1, <2>2 DEF Within
  <2> QED BY <1>2, <2>3 DEF Fits
<1>5. Near(keys) + SumFunctionOnSet(Remaining, Awaited) = Near(keys)
  BY <1>3
<1> QED BY <1>2, <1>4, <1>5 DEF RampInv

LEMMA TargetOf ==
  ASSUME config \in Configs, phase \in Phases, ~config.flat
  PROVE  config.targets[phase] \in Nat
<1>1. config.targets[phase] \in 1..MaxMemory /\ MaxMemory \in Nat
  BY ConfigNumbers
<1> QED BY <1>1

(* The ramp: a phase's workers share the gap, a top-up gets it whole, and  *)
(* each of their steps uses up at most what it had left.                   *)
LEMMA RampKept ==
  ASSUME MemTypes, MemTypes', JoinInv, RampInv, [Next]_vars
  PROVE  RampInv'
<1> DEFINE S == SumFunctionOnSet(Remaining, Awaited)
           N == Near(keys)
           Goal == /\ pc # "failed" => Fits(N + S)
                   /\ Fits(N)
                   /\ pc = "phase" => Payload <= current_used
<1> SUFFICES ASSUME ~config'.flat, abandoned' = {} PROVE Goal'
  BY DEF RampInv
<1>0. N \in Nat /\ S \in Nat /\ phase \in Nat
  <2>1. N \in Nat
    BY UsedNumbers
  <2>2. S \in Nat
    BY ThreadCounts
  <2>3. phase \in Nat
    <3>1. HandlerTypes
      BY DEF MemTypes
    <3>2. phase \in 1..Len(config.workers) + 1
      BY <3>1 DEF HandlerTypes
    <3> QED BY <3>2
  <2> QED BY <2>1, <2>2, <2>3
<1>00. ASSUME ~config.flat, abandoned = {} PROVE Goal
  BY <1>00 DEF RampInv
<1>01. N' \in Nat /\ S' \in Nat
  BY NextNumbers DEF Numbers
<1> HIDE DEF S, N
<1>1. ASSUME NEW w \in Writers, Writer(w)
      PROVE  Goal'
  <2>1. /\ UNCHANGED <<config, handlerVars>> /\ Live(w) /\ HandlerRuns
    BY <1>1, ThreadStep
  <2>2. w \in Awaited /\ pc # "phase" /\ pc # "failed"
    BY <2>1 DEF JoinInv, Awaited, handlerVars, HandlerRuns
  <2>3. Goal
    BY <1>00, <2>1 DEF handlerVars
  <2>4. S' = S + (Remaining[w]' - Remaining[w])
    BY <1>1, <2>2, ThreadSums DEF S, N
  <2>5. N' + Remaining[w]' <= N + Remaining[w]
    BY <1>1, ThreadGain DEF N
  <2>6. Remaining[w]' \in Int /\ Remaining[w] \in Int
    <3>1. Writers' = Writers
      BY DEF Writers
    <3> QED BY <3>1, ThreadCounts, NextNumbers DEF Numbers
  <2>7. N' + S' <= N + S
    BY <1>0, <1>01, <2>4, <2>5, <2>6
  <2>8. PICK n \in Nat : n = N + S
    BY <1>0
  <2>9. Fits(n)
    BY <2>2, <2>3, <2>8
  <2>10. /\ Fits(N + S)' /\ Fits(N)'
    BY <2>1, <2>7, <2>8, <2>9, StaysWithin DEF S, N, handlerVars
  <2> QED BY <2>1, <2>2, <2>10 DEF handlerVars
<1>2. CASE PhaseStart
  <2>1. /\ phase \in Phases /\ pc' = "join" /\ joining' = 0 /\ pc = "phase"
        /\ UNCHANGED <<keys, config, phase, current_used, abandoned>>
    BY <1>2, PhaseStartEffect DEF PhaseStart
  <2>2. Fits(N) /\ Payload <= current_used /\ ~config.flat
    BY <1>00, <2>1
  <2>3. Awaited' = PhaseWriters(phase)
    BY <2>1 DEF Awaited, PhaseWriters
  <2>40. config.targets[phase] \in Nat /\ current_used \in Nat
    <3>1. config \in Configs /\ current_used \in Nat
      BY DEF MemTypes, HandlerTypes
    <3>2. config.targets[phase] \in 1..MaxMemory /\ MaxMemory \in Nat
      BY <2>1, <2>2, <3>1, ConfigNumbers
    <3> QED BY <3>1, <3>2
  <2>41. config.value \in Nat \ {0}
    BY UsedNumbers
  <2>42. PICK gap \in Nat : gap = Shortfall(config.targets[phase], current_used)
    BY <2>40 DEF Shortfall
  <2>4. PICK n \in Nat : /\ n = gap \div config.value
                         /\ config.value * n \in Nat /\ config.value * n <= gap /\ n <= gap
    BY <2>41, Divided
  <2>5. PICK f : f = Remaining'
    OBVIOUS
  <2>6. ASSUME NEW id \in WorkerIds(phase)
        PROVE  f[<<phase, id, 0>>] = Share(n, config.workers[phase], id)
    <3>1. PICK w : w = <<phase, id, 0>>
      OBVIOUS
    <3>2. w \in PhaseWriters(phase) /\ w[2] = id
      BY <3>1 DEF PhaseWriters, WorkersOf, WorkerIds
    <3>3. w \in Writers /\ Writers' = Writers
      BY <2>1, <3>2, ThreadsOfPhase DEF Writers, MemTypes
    <3>4. /\ writer'[w].state \in {"opening", "complete"} /\ writer'[w].quota = Quota(w)
          /\ writer'[w].i = 0 /\ RecordOK(writer'[w])
      BY <1>2, <3>2, PhaseStartEffect
    <3>5. Quota(w) = Share(n, config.workers[phase], id) /\ Quota(w) \in 0..MaxQuota
      BY <2>1, <2>2, <2>4, <2>42, <3>2, QuotaNumbers DEF Quota
    <3>6. f[w] = IF Live(w)' THEN writer'[w].quota - writer'[w].i ELSE 0
      BY <2>5, <3>3 DEF Remaining
    <3>7. f[w] = Quota(w)
      <4>1. CASE writer'[w].state = "complete"
        BY <3>4, <3>6, <4>1 DEF RecordOK, Live
      <4>2. CASE writer'[w].state = "opening"
        BY <3>4, <3>5, <3>6, <4>2 DEF Live
      <4> QED BY <3>4, <4>1, <4>2
    <3> QED BY <3>1, <3>5, <3>7
  <2>7. SumFunctionOnSet(f, PhaseWriters(phase)) <= n
    BY <2>1, <2>6, SharesAddUp DEF MemTypes
  <2>8. S' <= n /\ S' \in Nat
    BY <2>3, <2>5, <2>7, NextNumbers DEF S, Numbers
  <2>9. N' = N
    BY <2>1 DEF N, Near, NodeOf
  <2>11. PICK t \in Nat : Fits(t) /\ N' + S' <= t
    <3>1. CASE n = 0
      <4>1. \A u, z \in Nat : z <= 0 => u + z <= u
        OBVIOUS
      <4>2. N' + S' <= N
        BY <1>0, <2>8, <2>9, <3>1, <4>1
      <4> QED BY <1>0, <2>2, <4>2
    <3>2. CASE n # 0
      <4>1. gap = config.targets[phase] - current_used
        BY <2>4, <2>40, <2>42, <3>2 DEF Shortfall
      <4>2. PICK v, before, x, y \in Nat :
               /\ v = config.value /\ before = config.before
               /\ x = v * N /\ y = v * n /\ y <= gap /\ v * (N + n) = x + y
               /\ before + x <= current_used
        <5>1. PICK v, before \in Nat : v = config.value /\ before = config.before /\ v > 0
          BY UsedNumbers
        <5>2. v * N \in Nat /\ v * n \in Nat /\ v * (N + n) = v * N + v * n
          BY <1>0, <2>4, <5>1
        <5>3. Payload = before + v * N
          BY <5>1, UsedNumbers DEF N
        <5> QED BY <2>2, <2>4, <5>1, <5>2, <5>3
      <4>3. before + (x + y) < config.targets[phase] + v
        <5>1. v > 0
          BY <2>41, <4>2
        <5> QED BY <2>40, <4>1, <4>2, <5>1
      <4>4. Fits(N + n)
        <5>1. config.before + config.value * (N + n) = before + (x + y)
          BY <4>2
        <5>2. phase <= phase /\ before + (x + y) < config.targets[phase] + config.value
          BY <1>0, <4>2, <4>3
        <5>3. Within(before + (x + y))
          BY ONLY <2>1, <5>2 DEF Within
        <5> QED BY <5>1, <5>3 DEF Fits
      <4>5. N' + S' <= N + n /\ N + n \in Nat
        BY <1>0, <2>4, <2>8, <2>9
      <4> QED BY <4>4, <4>5
    <3> QED BY <3>1, <3>2
  <2>12. Fits(N + S)' /\ Fits(N)'
    BY <2>1, <2>2, <2>11, StaysWithin DEF S, N
  <2> QED BY <2>1, <2>12
<1>3. CASE Join \/ UNCHANGED vars
  <2>1. /\ UNCHANGED <<config, writer, keys, pc, phase, attempt, current_used>>
    BY <1>3 DEF Join, threadVars, vars, handlerVars
  <2>2. abandoned = {}
    BY <1>3, JoinedCounts DEF Join, vars, handlerVars
  <2>3. Awaited' = Awaited /\ Remaining' = Remaining
    BY <2>1, AwaitedSame DEF Remaining, Live, Writers
  <2>4. N' = N /\ S' = S /\ Payload' = Payload
    BY <2>1, <2>3 DEF N, Near, Payload, OnNode, NodeOf, S
  <2>5. Goal
    BY <1>00, <2>1, <2>2
  <2>6. ASSUME NEW n \in Nat, Fits(n) PROVE Fits(n)'
    BY <2>1, <2>6 DEF Fits, Within, Phases, OnNode, NodeOf
  <2>7. N + S \in Nat
    BY <1>0
  <2>8. (pc # "failed" => Fits(N + S)') /\ Fits(N)'
    <3>1. PICK m, n : m = N + S /\ n = N
      OBVIOUS
    <3>2. m' = m
      OBVIOUS
    <3> QED BY <1>0, <2>4, <2>5, <2>6, <2>7
  <2> QED BY <2>1, <2>4, <2>5, <2>8
<1>4. CASE FillCheck
  <2>1. /\ pc = "check" /\ UNCHANGED <<keys, config, phase, attempt, abandoned>>
        /\ phase \in Phases /\ ~config.flat
    BY <1>4, FillCheckEffect
  <2>2. Fits(N)
    BY <1>00, <2>1
  <2>3. N' = N
    BY <2>1 DEF N, Near, NodeOf
  <2>4. CASE pc' = "next"
    <3>1. S' = 0
      BY <2>4, NothingAwaitedNext DEF S, N
    <3>2. Fits(N + S)' /\ Fits(N)'
      BY <1>0, <2>1, <2>2, <2>3, <3>1, StaysWithin DEF S, N
    <3> QED BY <2>4, <3>2
  <2>5. CASE pc' # "next"
    <3>1. PICK r : /\ writer' = [writer EXCEPT ![FillWriter] = r]
                   /\ r.state = "opening" /\ r.quota = FillKeys(config.targets[phase] - Used)
                   /\ config.targets[phase] - Used \in Nat \ {0}
                   /\ r.i = 0 /\ r.quota \in Nat \ {0}
      BY <1>4, <2>5, FillCheckEffect
    <3>2. pc' = "fill" /\ FillWriter \in Writers
      BY <1>4, <2>5, FillCheckEffect
    <3>3. PICK w : w = FillWriter
      OBVIOUS
    <3>4. Awaited' = {w}
      BY <2>1, <3>2, <3>3 DEF Awaited, FillWriter, FillId
    <3>5. PICK f : f = Remaining'
      OBVIOUS
    <3>6. writer'[w] = r
      BY <3>1, <3>2, <3>3 DEF MemTypes
    <3>7. f[w] = r.quota /\ f[w] \in Int
      <4>1. f[w] = IF Live(w)' THEN writer'[w].quota - writer'[w].i ELSE 0
        BY <3>2, <3>3, <3>5 DEF Remaining, Writers
      <4>2. Live(w)'
        BY <3>1, <3>6 DEF Live
      <4> QED BY <3>1, <3>6, <4>1, <4>2
    <3>8. SumFunctionOnSet(f, {w}) = f[w]
      BY <3>7, SumSingle
    <3>9. S' = r.quota
      BY <3>4, <3>5, <3>7, <3>8 DEF S
    <3>10. PICK g \in Nat \ {0} : g = config.targets[phase] - Used
      BY <3>1
    <3>11. PICK q \in Nat : q = r.quota /\ config.value * q < g + config.value
      BY <3>1, <3>10, UsedNumbers, FillNumbers
    <3>12. Fits(N + q)
      <4>1. PICK v, before, u \in Nat : /\ v = config.value /\ before = config.before /\ u = Used
                                        /\ before + v * N <= u
        BY UsedNumbers DEF N
      <4>2. v * N \in Nat /\ v * q \in Nat /\ v * (N + q) = v * N + v * q
        BY <1>0, <3>11, <4>1
      <4>3. PICK x, y \in Nat : x = v * N /\ y = v * q /\ v * (N + q) = x + y
        BY <4>2
      <4>4. PICK t \in Nat : t = config.targets[phase]
        BY <2>1, TargetOf DEF MemTypes
      <4>5. before + (x + y) < t + v
        BY <3>10, <3>11, <4>1, <4>3, <4>4
      <4>6. config.before + config.value * (N + q) = before + (x + y)
        BY <4>1, <4>3
      <4>7. phase <= phase /\ before + (x + y) < config.targets[phase] + config.value
        BY <1>0, <4>1, <4>4, <4>5
      <4>8. Within(before + (x + y))
        BY ONLY <2>1, <4>7 DEF Within
      <4> QED BY <4>6, <4>8 DEF Fits
    <3>13. Fits(N + S)' /\ Fits(N)'
      <4>1. N' + S' <= N + q /\ N + q \in Nat
        BY <1>0, <2>3, <3>9, <3>11
      <4> QED BY <2>1, <3>12, <4>1, StaysWithin DEF S, N
    <3> QED BY <3>2, <3>13
  <2> QED BY <2>4, <2>5
<1>5. CASE \/ Sum \/ FillJoin \/ PhaseEnd \/ Finish \/ CleanupStart \/ Sweep \/ Return \/ Raise
  <2>1. /\ UNCHANGED config
        /\ phase' \in {phase, phase + 1} /\ pc' \notin {"join", "fill"}
    BY <1>5 DEF Sum, FillJoin, PhaseEnd, Finish, CleanupStart, Sweep, Return, Raise,
                threadVars, handlerVars
  <2>2. abandoned = {}
    BY <1>5, JoinedCounts DEF Sum, FillJoin, PhaseEnd, Finish, CleanupStart, Sweep, Return,
                Raise, threadVars, handlerVars
  <2>3. keys' \in SUBSET keys
    BY <1>5, SweepShrinks DEF Sum, FillJoin, PhaseEnd, Finish, CleanupStart, ScanStart, Sweep,
                Return, Raise
  <2>4. Fits(N) /\ ~config.flat
    BY <1>00, <2>1, <2>2
  <2>5. Used' <= Used /\ N' <= N
    BY <2>1, <2>3, FewerUsed DEF N
  <2>6. S' = 0
    BY <2>1, NothingAwaitedNext DEF S
  <2>7. Fits(N + S)' /\ Fits(N)'
    <3>1. PICK v, z, u : v = N' /\ z = S' /\ u = N
      OBVIOUS
    <3>2. z = 0 /\ v \in Int /\ u \in Int /\ v <= u
      BY <1>0, <1>01, <2>5, <2>6, <3>1
    <3>3. v + z <= u
      BY <3>2
    <3>4. N' + S' <= N
      BY <3>1, <3>3
    <3> QED BY <1>0, <2>1, <2>4, <3>4, StaysWithin DEF S, N
  <2>8. pc' = "phase" => Payload' <= current_used'
    <3> SUFFICES ASSUME pc' = "phase" PROVE Payload' <= current_used'
      OBVIOUS
    <3>1. PhaseEnd
      BY <1>5, <2>1, <2>4 DEF Sum, FillJoin, PhaseEnd, Finish, CleanupStart, Sweep, Return,
                Raise, threadVars, handlerVars
    <3>2. current_used' = Used /\ Payload' = Payload /\ Payload <= Used
      BY <3>1, UsedNumbers DEF PhaseEnd, Payload, OnNode, NodeOf, threadVars
    <3> QED BY <3>2
  <2> QED BY <2>7, <2>8
<1>6. CASE \E k \in keys : Vanish(k)
  <2>1. /\ UNCHANGED <<config, writer, pc, phase, attempt, current_used, abandoned>>
        /\ keys' \in SUBSET keys
    BY <1>6 DEF Vanish, threadVars, handlerVars
  <2>2. Awaited' = Awaited /\ Remaining' = Remaining
    BY <2>1, AwaitedSame DEF Remaining, Live, Writers
  <2>3. S' = S /\ N' <= N /\ Goal /\ ~config.flat
    BY <1>00, <2>1, <2>2, FewerUsed DEF S, N
  <2>4. pc # "failed"
    BY <1>6 DEF Vanish, HandlerRuns
  <2>5. PICK n \in Nat : n = N + S /\ Fits(n)
    BY <1>0, <2>3, <2>4
  <2>7. Fits(N + S)' /\ Fits(N)'
    <3>1. PICK v, z, u : v = N' /\ z = S /\ u = N
      OBVIOUS
    <3>2. z \in Int /\ v \in Int /\ u \in Int /\ v <= u /\ S' = z /\ n = u + z
      BY <1>0, <1>01, <2>3, <2>5, <3>1
    <3>3. v + z <= n
      BY <3>2
    <3>4. N' + S' <= n
      BY <3>1, <3>2, <3>3
    <3> QED BY <2>1, <2>3, <2>5, <3>4, StaysWithin DEF S, N
  <2>8. pc' = "phase" => Payload' <= current_used'
    <3>1. PICK v, before \in Nat : v = config.value /\ before = config.before
      BY UsedNumbers
    <3>2. Payload = before + v * N /\ Payload' = before + v * N'
      BY <2>1, <3>1, UsedNumbers, NextNumbers DEF Numbers, N
    <3>3. v * N' \in Nat /\ v * N \in Nat /\ v * N' <= v * N
      BY <1>0, <1>01, <2>3, <3>1, Scaled
    <3>4. pc = "phase" => Payload <= current_used
      BY <2>3
    <3>5. current_used \in Nat
      BY DEF MemTypes, HandlerTypes
    <3> QED BY <2>1, <3>1, <3>2, <3>3, <3>4, <3>5
  <2> QED BY <2>7, <2>8
<1> QED BY <1>1, <1>2, <1>3, <1>4, <1>5, <1>6 DEF Next, Handler

LEMMA InitReport == Init => ReportInv
<1> SUFFICES ASSUME Init PROVE ReportInv
  OBVIOUS
<1>1. Fresh(keys) = 0 /\ keys_written = 0
  <2>1. keys \ config.leftover = {} /\ keys_written = 0
    BY DEF Init
  <2> QED BY <2>1, FS_EmptySet DEF Fresh
<1>2. SumFunctionOnSet(Written, Awaited) = 0
  BY NothingAwaited DEF Init, Awaited
<1> QED BY <1>1, <1>2 DEF ReportInv

(* The results of a phase: without an error among them, no thread of the   *)
(* phase has had one, and the complete ones wrote what there is.           *)
LEMMA SumTells ==
  ASSUME MemTypes, JoinInv, abandoned = {}, Sum, write_errors' = 0
  PROVE  /\ write_errors = 0 /\ ~Untold
         /\ keys_written' = keys_written + SumFunctionOnSet(Written, Awaited)
<1>0. /\ pc = "join" /\ joining \notin WorkerIds(phase) /\ phase \in Phases
      /\ Awaited = PhaseWriters(phase)
      /\ keys_written' = keys_written + SumFunctionOnSet(Written, WithState({"complete"}))
      /\ write_errors' = write_errors + SumFunctionOnSet(Errors, WithState(Finished))
  BY DEF Sum, MemTypes, HandlerTypes, Looping, Awaited
<1>1. PICK C, F : C = WithState({"complete"}) /\ F = WithState(Finished)
  OBVIOUS
<1>2. /\ SumFunctionOnSet(Errors, F) \in Nat /\ write_errors \in Nat
      /\ IsFiniteSet(C) /\ IsFiniteSet(F) /\ C \in SUBSET Awaited /\ F \in SUBSET Writers
      /\ IsFiniteSet(Awaited) /\ Awaited \in SUBSET Writers
  BY <1>0, <1>1, SumsCount, AwaitedThreads DEF MemTypes, HandlerTypes, WithState
<1>3. write_errors = 0 /\ SumFunctionOnSet(Errors, F) = 0
  BY <1>0, <1>1, <1>2
<1>4. ASSUME NEW w \in Awaited
      PROVE  /\ writer[w].errors = 0
             /\ w \notin C => Written[w] = 0
  <2>1. ~Live(w) /\ RecordOK(writer[w]) /\ w \in Writers
    BY <1>0, <1>2, AllJoined DEF MemTypes
  <2>2. writer[w].state \in {"none"} \cup Finished /\ writer[w].errors \in Nat
    BY <2>1 DEF RecordOK, WriterType, Live
  <2>3. writer[w].errors = 0
    <3>1. CASE writer[w].state = "none"
      BY <2>1, <3>1 DEF RecordOK
    <3>2. CASE writer[w].state \in Finished
      <4>1. w \in F
        BY <1>0, <1>1, <3>2 DEF WithState
      <4>2. \A v \in F : Errors[v] \in Nat
        BY <1>2 DEF MemTypes, RecordOK, WriterType, Errors
      <4>3. Errors[w] <= SumFunctionOnSet(Errors, F)
        BY <1>2, <4>1, <4>2, SumPart
      <4>4. Errors[w] = writer[w].errors
        BY <2>1 DEF Errors
      <4> QED BY <1>3, <2>2, <4>3, <4>4
    <3> QED BY <2>2, <3>1, <3>2
  <2>4. ASSUME w \notin C PROVE Written[w] = 0
    <3>1. writer[w].state # "complete"
      BY <1>0, <1>1, <2>4 DEF WithState
    <3>2. writer[w].written = 0
      BY <2>1, <2>2, <3>1 DEF RecordOK, Finished
    <3> QED BY <2>1, <3>2 DEF Written
  <2> QED BY <2>3, <2>4
<1>5. ~Untold
  BY <1>4 DEF Untold
<1>6. SumFunctionOnSet(Written, Awaited) = SumFunctionOnSet(Written, C)
  <2>1. \A w \in Awaited : Written[w] \in Int
    BY <1>2, ThreadCounts
  <2>2. \A w \in Awaited \ C : Written[w] = 0
    BY <1>4
  <2> QED BY <1>2, <2>1, <2>2, SumOfSupport
<1> QED BY <1>0, <1>1, <1>3, <1>5, <1>6

(* The report: a thread counts what it stores, or an error.                *)
LEMMA ReportKept ==
  ASSUME MemTypes, MemTypes', JoinInv, ReportInv, [Next]_vars
  PROVE  ReportInv'
<1> DEFINE W == SumFunctionOnSet(Written, Awaited)
<1> SUFFICES ASSUME abandoned' = {}, write_errors' = 0, pc' # "failed", ~Untold'
             PROVE  Fresh(keys)' <= keys_written' + W'
  BY DEF ReportInv
<1>0. /\ Fresh(keys) \in Nat /\ W \in Nat /\ keys_written \in Nat
      /\ write_errors \in Nat /\ Writers' = Writers
  BY UsedNumbers, ThreadCounts DEF MemTypes, HandlerTypes, Writers
<1>00. Fresh(keys)' \in Nat /\ W' \in Nat
  BY NextNumbers DEF Numbers
<1>000. ASSUME abandoned = {}, write_errors = 0, pc # "failed", ~Untold
        PROVE  Fresh(keys) <= keys_written + W
  BY <1>000 DEF ReportInv
<1> HIDE DEF W
<1>1. ASSUME NEW w \in Writers, Writer(w)
      PROVE  Fresh(keys)' <= keys_written' + W'
  <2>1. /\ UNCHANGED <<config, handlerVars>> /\ Live(w) /\ HandlerRuns
        /\ \A v \in Writers \ {w} : writer'[v] = writer[v]
    BY <1>1, ThreadStep
  <2>2. w \in Awaited /\ pc # "failed" /\ abandoned = {} /\ write_errors = 0
        /\ UNCHANGED <<keys_written, write_errors>>
    BY <2>1 DEF JoinInv, handlerVars, HandlerRuns
  <2>3. Awaited' = Awaited /\ Awaited \in SUBSET Writers
    BY <2>1, AwaitedSame, AwaitedThreads DEF handlerVars
  <2>4. ~ (writer'[w].errors > 0 /\ writer'[w].state # "error")
    BY <2>2, <2>3 DEF Untold
  <2>5. ~Untold
    <3> SUFFICES ASSUME NEW v \in Awaited, writer[v].errors > 0, writer[v].state # "error"
                 PROVE  FALSE
      BY DEF Untold
    <3>1. CASE v # w
      BY <2>1, <2>3, <3>1 DEF Untold
    <3>2. CASE v = w
      <4>1. RecordOK(writer[w])
        BY DEF MemTypes
      <4>2. writer[w].errors \in Nat /\ (writer[w].state = "opening" => writer[w].errors = 0)
        BY <4>1 DEF RecordOK, WriterType
      <4>3. \/ /\ writer'[w].state \in {"writing", "complete"}
               /\ writer'[w].errors = writer[w].errors
            \/ writer[w].state = "opening"
            \/ /\ writer'[w].state = "writing"
               /\ writer'[w].errors = writer[w].errors + 1
        BY <1>1, ThreadStep
      <4> QED BY <2>4, <3>2, <4>2, <4>3
    <3> QED BY <3>1, <3>2
  <2>6. Fresh(keys)' + Written[w] <= Fresh(keys) + Written[w]'
    BY <1>1, <2>4, ThreadGain
  <2>7. W' = W + (Written[w]' - Written[w])
    BY <1>1, <2>2, ThreadSums DEF W
  <2>8. Written[w] \in Int /\ Written[w]' \in Int
    BY <1>0, ThreadCounts, NextNumbers DEF Numbers
  <2>9. Fresh(keys) <= keys_written + W
    BY <1>000, <2>2, <2>5
  <2> QED BY <1>0, <1>00, <2>2, <2>6, <2>7, <2>8, <2>9
<1>2. CASE /\ keys' \in SUBSET keys /\ Awaited = {} /\ abandoned = {} /\ pc # "failed"
           /\ UNCHANGED <<config, keys_written, write_errors>>
  <2>1. ~Untold /\ W = 0
    BY <1>2, NothingAwaited DEF Untold, W
  <2>2. Fresh(keys) <= keys_written + W
    BY <1>000, <1>2, <2>1
  <2>3. Fresh(keys)' <= Fresh(keys)
    BY <1>2, FewerUsed
  <2> QED BY <1>0, <1>00, <1>2, <2>1, <2>2, <2>3
<1>3. CASE PhaseStart \/ FillCheck \/ PhaseEnd \/ Finish \/ CleanupStart \/ Sweep \/ Return \/ Raise
  <2>1. keys' \in SUBSET keys
    BY <1>3, SweepShrinks, FillCheckEffect
       DEF PhaseStart, PhaseEnd, Finish, CleanupStart, ScanStart, Sweep, Return, Raise
  <2>2. /\ pc \notin {"join", "fill", "failed"} /\ abandoned' = abandoned
        /\ UNCHANGED <<config, keys_written, write_errors>>
    BY <1>3, FillCheckEffect
       DEF PhaseStart, PhaseEnd, Finish, CleanupStart, Sweep, Return, Raise, threadVars,
           handlerVars
  <2> QED BY <1>2, <2>1, <2>2 DEF Awaited
<1>4. CASE Join \/ UNCHANGED vars \/ \E k \in keys : Vanish(k)
  <2>1. /\ UNCHANGED <<config, writer, pc, phase, attempt, keys_written, write_errors>>
        /\ keys' \in SUBSET keys
    BY <1>4 DEF Join, Vanish, threadVars, vars, handlerVars
  <2>2. abandoned = {}
    BY <1>4, JoinedCounts DEF Join, Vanish, vars, handlerVars
  <2>3. Awaited' = Awaited /\ Written' = Written
    BY <2>1, AwaitedSame DEF Written, Writers
  <2>4. ~Untold /\ W' = W
    BY <2>1, <2>3 DEF Untold, W
  <2>5. Fresh(keys) <= keys_written + W
    BY <1>000, <2>1, <2>2, <2>4
  <2>6. Fresh(keys)' <= Fresh(keys)
    BY <2>1, FewerUsed
  <2> QED BY <1>0, <1>00, <2>1, <2>4, <2>5, <2>6
<1>5. CASE Sum
  <2>1. /\ pc = "join" /\ pc' \notin {"join", "fill"} /\ UNCHANGED <<keys, abandoned>>
        /\ Fresh(keys)' = Fresh(keys)
    BY <1>5 DEF Sum, threadVars, Fresh
  <2>2. /\ write_errors = 0 /\ ~Untold
        /\ keys_written' = keys_written + W
    BY <1>5, <2>1, SumTells DEF W
  <2>3. Fresh(keys) <= keys_written + W
    BY <1>000, <2>1, <2>2
  <2> QED BY <1>0, <1>00, <2>1, <2>2, <2>3
<1>6. CASE FillJoin
  <2>1. PICK w, r : w = FillWriter /\ r = writer[w]
    OBVIOUS
  <2>0. Fresh(keys)' = Fresh(keys)
    BY <1>6 DEF FillJoin, threadVars, Fresh
  <2>2. /\ pc = "fill" /\ UNCHANGED <<keys, writer>> /\ Joined(w)
        /\ \/ /\ r.state = "complete" /\ keys_written' = keys_written + r.written
              /\ write_errors' = write_errors + r.errors
           \/ r.state # "complete" /\ UNCHANGED <<keys_written, write_errors>>
    BY <1>6, <2>1 DEF FillJoin, threadVars
  <2>3. abandoned = {} /\ r.state \in Finished
    BY <2>1, <2>2, JoinedCounts
  <2>4. Awaited = {w} /\ w \in Writers
    BY <2>1, <2>2, AwaitedThreads DEF Awaited
  <2>5. RecordOK(r) /\ r.errors \in Nat /\ r.written \in Nat
    BY <2>1, <2>4 DEF MemTypes, RecordOK, WriterType
  <2>6. W = r.written
    <3>1. Written[w] = r.written
      BY <2>1, <2>4 DEF Written
    <3>2. Written[w] \in Int
      BY <2>5, <3>1
    <3>3. SumFunctionOnSet(Written, {w}) = Written[w]
      BY <3>2, SumSingle
    <3> QED BY <2>4, <3>1, <3>3 DEF W
  <2>7. CASE r.state = "complete"
    <3>1. r.errors = 0 /\ write_errors = 0
      BY <1>0, <2>2, <2>5, <2>7
    <3>2. ~Untold
      BY <2>1, <2>4, <3>1 DEF Untold
    <3>3. Fresh(keys) <= keys_written + W
      BY <1>000, <2>2, <2>3, <3>1, <3>2
    <3> QED BY <1>0, <1>00, <2>0, <2>2, <2>6, <2>7, <3>3
  <2>8. CASE r.state = "error"
    <3>1. r.written = 0 /\ write_errors = 0
      BY <2>2, <2>5, <2>8 DEF RecordOK
    <3>2. ~Untold
      BY <2>1, <2>4, <2>8 DEF Untold
    <3>3. Fresh(keys) <= keys_written + W
      BY <1>000, <2>2, <2>3, <3>1, <3>2
    <3> QED BY <1>0, <1>00, <2>0, <2>2, <2>6, <2>8, <3>1, <3>3
  <2> QED BY <2>3, <2>7, <2>8 DEF Finished
<1> QED BY <1>1, <1>3, <1>4, <1>5, <1>6 DEF Next, Handler

-------------------------------------------------------------------------------
(* The clean-up at the end. *)

(* The loop has the keys before it from its beginning on: no thread is at  *)
(* work beside it.                                                         *)
SweepInv ==
  /\ ScanInv(Keys)
  /\ pc \notin {"sweep", "returned", "failed"} => scan.state = "idle"
  /\ pc \in {"sweep", "returned"} /\ abandoned = {}
       => keys \subseteq scan.old \/ scan.state = "idle"

LEMMA InitSweep == Init => SweepInv
<1> SUFFICES ASSUME Init PROVE SweepInv
  OBVIOUS
<1>1. << >> \in Seq(Keys) /\ Len(<< >>) = 0
  BY EmptySeq
<1>2. scan \in ScanType(Keys) /\ Len(scan.batch) < BatchSize
  BY <1>1, UnlinkScanAssumption DEF Init, ScanIdle, ScanType
<1>3. keys \in SUBSET Keys
  BY ConfigNumbers DEF Init
<1> QED
  BY <1>2, <1>3 DEF Init, SweepInv, ScanInv, ScanTyped, OldKeysFound, CountCovers, ScanIdle

(* The loop's own steps keep all the keys among the old ones.              *)
LEMMA OldKeysStay ==
  ASSUME ScanInv(Keys), keys \subseteq scan.old, Scan
  PROVE  keys' \subseteq scan'.old /\ scan.state = "scanning"
<1>1. scan.state = "scanning"
  BY DEF Scan, ScanCollect, ScanFlush, ScanEnd, ScanError, MayReturn
<1>2. scan \in ScanType(Keys) /\ ScanTyped(Keys)
  BY DEF ScanInv, ScanTyped
<1>3. ASSUME NEW k \in keys, ScanCollect(k) PROVE keys' \subseteq scan'.old
  BY <1>2, <1>3, ReturnedKey DEF ScanCollect
<1>4. ASSUME NEW s, s.old = scan.old, s \in ScanType(Keys), NEW b, NEW n, NEW next,
             Unlink(s, b, n, next)
      PROVE  keys' \subseteq scan'.old
  BY <1>4 DEF Unlink, Keyspace, ScanType
<1>5. ASSUME NEW k \in keys, ScanFlush(k) PROVE keys' \subseteq scan'.old
  <2>1. PICK next : Unlink(Returned(k), BatchKeys \cup {k}, BatchSize, next)
    BY <1>5 DEF ScanFlush
  <2>2. PICK s, b : s = Returned(k) /\ b = BatchKeys \cup {k}
    OBVIOUS
  <2>3. MayReturn(k)
    BY <1>5 DEF ScanFlush
  <2>4. s.old = scan.old /\ s \in ScanType(Keys)
    BY <1>2, <2>2, <2>3, ReturnedKey
  <2> QED BY <1>4, <2>1, <2>2, <2>4
<1>6. ASSUME ScanEnd \/ ScanError PROVE keys' \subseteq scan'.old
  <2>1. PICK s, b, n, next : s = scan /\ Unlink(s, b, n, next)
    BY <1>6 DEF ScanEnd, ScanError
  <2> QED BY <1>2, <1>4, <2>1
<1> QED BY <1>1, <1>3, <1>5, <1>6 DEF Scan

(* Nothing is written beside the loop when every thread was joined.        *)
LEMMA SweepKept ==
  ASSUME MemTypes, MemTypes', JoinInv, SweepInv, [Next]_vars
  PROVE  SweepInv'
<1>0. Keys' = Keys /\ keys' \in SUBSET Keys /\ ScanInv(Keys)
  BY DEF MemTypes, Keys, Writers, Indexes, SweepInv
<1>1. ASSUME NEW w \in Writers, Writer(w) PROVE SweepInv'
  <2>1. /\ UNCHANGED <<scan, handlerVars>> /\ Live(w)
    BY <1>1, ThreadStep
  <2>2. abandoned = {} => pc \in {"join", "fill"}
    BY <2>1 DEF JoinInv, Awaited
  <2>3. ScanInv(Keys)'
    BY <1>0, <2>1, WrittenKeeps
  <2> QED BY <1>0, <2>1, <2>2, <2>3 DEF SweepInv, handlerVars
<1>2. CASE \/ PhaseStart \/ Join \/ Sum \/ FillCheck \/ FillJoin \/ PhaseEnd \/ Finish
           \/ Return \/ Raise \/ UNCHANGED vars
  <2>1. UNCHANGED <<keys, scan>> /\ (abandoned' = {} => abandoned = {})
    BY <1>2, JoinedCounts, FillCheckEffect
       DEF PhaseStart, Join, Sum, FillJoin, PhaseEnd, Finish, Return, Raise, vars, handlerVars
  <2>2. ScanInv(Keys)'
    BY <1>0, <2>1, WrittenKeeps
  <2>3. \/ pc' = pc \/ pc' = "failed"
        \/ pc' = "returned" /\ pc \in {"sweep", "phase"}
        \/ pc' \notin {"sweep", "returned"} /\ pc \notin {"sweep", "returned", "failed"}
    BY <1>2, FillCheckEffect
       DEF PhaseStart, Join, Sum, FillJoin, PhaseEnd, Finish, Return, Raise, vars, handlerVars
  <2> QED BY <2>1, <2>2, <2>3 DEF SweepInv
<1>3. CASE CleanupStart
  <2>1. PICK scope \in SUBSET Keys : ScanStart(scope)
    BY <1>3 DEF CleanupStart
  <2>2. ScanInv(Keys)'
    BY <1>0, <2>1, StartKeeps
  <2>3. keys' = keys /\ scan'.old = keys
    BY <2>1 DEF ScanStart, ScanIdle
  <2> QED BY <1>3, <2>2, <2>3 DEF SweepInv, CleanupStart
<1>4. CASE Sweep
  <2>1. pc = "sweep" /\ Scan /\ UNCHANGED handlerVars
    BY <1>4 DEF Sweep
  <2>2. ScanInv(Keys)'
    BY <1>0, <2>1, ScanKeeps
  <2>3. scan.state = "scanning"
    BY <2>1 DEF Scan, ScanCollect, ScanFlush, ScanEnd, ScanError, MayReturn
  <2>4. abandoned = {} => keys' \subseteq scan'.old
    BY <1>0, <2>1, <2>3, OldKeysStay DEF SweepInv
  <2> QED BY <2>1, <2>2, <2>4 DEF SweepInv, handlerVars
<1>5. CASE \E k \in keys : Vanish(k)
  <2>1. /\ UNCHANGED handlerVars /\ keys' \in SUBSET keys /\ scan' = Keyspace(scan, keys')
    BY <1>5 DEF Vanish
  <2>2. ScanInv(Keys)'
    BY <1>0, <2>1, VanishedKeeps
  <2>3. scan'.state = scan.state /\ scan'.old = scan.old \cap keys'
    BY <1>0, <2>1 DEF Keyspace, ScanInv, ScanTyped, ScanType
  <2> QED BY <2>1, <2>2, <2>3 DEF SweepInv, handlerVars
<1> QED BY <1>1, <1>2, <1>3, <1>4, <1>5 DEF Next, Handler

-------------------------------------------------------------------------------
(* The top-ups. *)

FillStarted(w) == w \in Writers /\ w[3] > 0 /\ writer[w].state # "none"

(* A top-up of this phase has failed, or is left behind. *)
FillFailed ==
  \E w \in Writers :
    FillStarted(w) /\ w[1] = phase /\ (writer[w].errors > 0 \/ w \in abandoned)

(* Where the handler is when a top-up has started. *)
FillPlace ==
  \A w \in Writers : FillStarted(w) =>
    \/ w[1] < phase
    \/ w[1] = phase /\ pc \in {"check", "fill", "next", "failed"} /\ w[3] <= attempt
    \/ w[1] = phase /\ pc \in {"fill", "next", "failed"} /\ w[3] <= attempt + 1

(* A key was left earlier or bears the id of a thread that has started, and *)
(* a top-up's keys are those of the batches behind it.                     *)
KeyOwners ==
  /\ \A k \in keys : \/ k \in config.leftover
                     \/ \E w \in Writers : writer[w].state # "none" /\ k[1] = w[2]
  /\ IdsApart => \A w \in Writers : FillStarted(w) =>
       \A k \in keys : k[1] = w[2] => k[2] < writer[w].i

(* A top-up has keys to write, and counts them if none has failed. *)
FillWrites ==
  \A w \in Writers : FillStarted(w) =>
    writer[w].quota > 0 /\ (writer[w].errors = 0 => writer[w].written = writer[w].i)

(* The phase ends with its target reached or after a second top-up, if     *)
(* none fails ...                                                          *)
FillTried ==
  /\ pc = "join" => attempt = 0
  /\ pc = "check" /\ attempt > 0 => \E w \in Writers :
       FillStarted(w) /\ w[1] = phase /\ w[3] = attempt /\ writer[w].state = "complete"
  /\ pc = "fill" => FillStarted(FillWriter)
  /\ pc = "next" /\ ~config.expiry =>
       \/ Used >= config.targets[phase] \/ FillFailed
       \/ \E w \in Writers : FillStarted(w) /\ w[1] = phase /\ w[3] >= 2

(* ... and the target is less than one value further away than what a      *)
(* top-up has yet to write; the second one writes it.                      *)
Left(w) == config.value * (writer[w].quota - writer[w].i)
FillEnough ==
  IdsApart /\ OneNode /\ ~config.expiry /\ pc \in Looping /\ ~FillFailed =>
    \A w \in Writers : FillStarted(w) /\ w[1] = phase =>
      /\ config.targets[phase] < Used + Left(w) + config.value
      /\ w[3] >= 2 => config.targets[phase] <= Used + Left(w)

FillInv == FillPlace /\ KeyOwners /\ FillWrites /\ FillTried /\ FillEnough

(* The ids of top-ups begin at 900. *)
LEMMA FillIdHigh ==
  ASSUME NEW w \in Writers, w[3] > 0
  PROVE  w[2] \in Nat /\ w[2] >= 900
<1>1. w \in FillsOf(w[1]) /\ w[1] \in Nat \ {0}
  BY ThreadNames
<1>2. PICK a \in 0..(MaxFills - 1) : w = <<w[1], FillId(w[1], a), a + 1>>
  BY <1>1 DEF FillsOf
<1>3. w[2] = 900 + 10 * (w[1] - 1) + a /\ a \in Nat
  BY <1>2, MemoryAssumption DEF FillId
<1> QED BY <1>1, <1>3

(* A top-up shares its id with no other thread that has started. *)
LEMMA FillIdsAlone ==
  ASSUME MemTypes, IdsApart, NEW w \in Writers, w[3] > 0,
         NEW v \in Writers, writer[v].state # "none", v[2] = w[2]
  PROVE  v = w
<1>1. w \in FillsOf(w[1]) /\ w[1] \in Nat \ {0} /\ v[1] \in Nat \ {0}
  BY ThreadNames
<1>2. v[1] \in Phases /\ v \in PhaseWriters(v[1]) \cup FillsOf(v[1])
  BY DEF MemTypes, Planned
<1>3. CASE v \in FillsOf(v[1])
  BY <1>1, <1>3, FillIdsDiffer
<1>4. CASE v \in PhaseWriters(v[1])
  <2>1. config.workers[v[1]] <= 900 /\ config.workers[v[1]] \in Nat
    BY <1>2, ConfigNumbers DEF IdsApart, MemTypes
  <2>2. v[2] \in 0..(config.workers[v[1]] - 1)
    BY <1>4 DEF PhaseWriters, WorkersOf
  <2>3. PICK a \in 0..(MaxFills - 1) : w = <<w[1], FillId(w[1], a), a + 1>>
    BY <1>1 DEF FillsOf
  <2>4. w[2] = 900 + 10 * (w[1] - 1) + a /\ a \in Nat
    BY <2>3, MemoryAssumption DEF FillId
  <2> QED BY <1>1, <2>1, <2>2, <2>4
<1> QED BY <1>2, <1>3, <1>4

(* With every id on the node INFO asks, used_memory counts all the keys.   *)
LEMMA AllNear ==
  ASSUME OneNode, NEW K \in SUBSET Keys
  PROVE  Near(K) = Cardinality(K)
<1>1. \A k \in K : NodeOf(k[1])
  BY DEF Keys, OneNode, NodeOf
<1>2. {k \in K : NodeOf(k[1])} = K
  BY <1>1
<1> QED BY <1>2 DEF Near

LEMMA TargetNumbers ==
  ASSUME MemTypes
  PROVE  /\ phase \in Nat /\ attempt \in Nat
         /\ pc \in {"check", "fill", "next"} =>
              phase \in Phases /\ ~config.flat /\ config.targets[phase] \in Nat
<1>1. /\ config \in Configs /\ HandlerTypes /\ Len(config.workers) \in Nat
  BY ConfigNumbers DEF MemTypes
<1>2. phase \in Nat /\ attempt \in Nat
  BY <1>1 DEF HandlerTypes
<1>3. ASSUME pc \in {"check", "fill", "next"}
      PROVE  phase \in Phases /\ ~config.flat
  BY <1>1, <1>3 DEF HandlerTypes, Looping
<1>4. ASSUME phase \in Phases, ~config.flat
      PROVE  config.targets[phase] \in Nat
  <2>1. config.targets[phase] \in 1..MaxMemory /\ MaxMemory \in Nat
    BY <1>1, <1>4, ConfigNumbers
  <2> QED BY <2>1
<1> QED BY <1>2, <1>3, <1>4

LEMMA InitFill == Init => FillInv
<1> SUFFICES ASSUME Init PROVE FillInv
  OBVIOUS
<1>1. \A w \in Writers : ~FillStarted(w)
  BY DEF Init, FillStarted, Unstarted
<1>2. pc = "phase" /\ keys = config.leftover
  BY DEF Init
<1> QED BY <1>1, <1>2
        DEF FillInv, FillPlace, KeyOwners, FillWrites, FillTried, FillEnough, Looping

(* What a top-up is yet to write, in bytes. *)
LEMMA LeftNumbers ==
  ASSUME MemTypes, NEW w \in Writers
  PROVE  /\ writer[w].quota \in Nat /\ writer[w].i \in Nat /\ writer[w].i <= writer[w].quota
         /\ writer[w].errors \in Nat
         /\ config.value \in Nat \ {0} /\ Left(w) \in Nat
<1>1. RecordOK(writer[w])
  BY DEF MemTypes
<1>2. writer[w].quota \in Nat
  BY <1>1 DEF RecordOK, WriterType
<1>3. /\ writer[w].i \in Nat /\ writer[w].i <= writer[w].quota /\ writer[w].errors \in Nat
      /\ config.value \in Nat \ {0}
  BY <1>1, <1>2, UsedNumbers DEF RecordOK, WriterType
<1>4. PICK v, n \in Nat : v = config.value /\ n = writer[w].quota - writer[w].i
  BY <1>2, <1>3
<1>5. v * n \in Nat
  OBVIOUS
<1> QED BY <1>2, <1>3, <1>4, <1>5 DEF Left

(* A thread's step. *)
LEMMA ThreadKeepsFills ==
  ASSUME MemTypes, MemTypes', FillInv, NEW v \in Writers, Writer(v)
  PROVE  FillInv'
<1>0. /\ Writers' = Writers /\ Phases' = Phases /\ UNCHANGED <<config, handlerVars>> /\ Live(v)
      /\ \A w \in Writers \ {v} : writer'[w] = writer[w]
      /\ writer'[v].state \in {"writing"} \cup Finished /\ writer'[v].quota = writer[v].quota
  BY ThreadStep DEF Writers, Phases
<1>00. /\ pc' = pc /\ phase' = phase /\ attempt' = attempt
  BY <1>0 DEF handlerVars
<1>1. PICK m \in Nat :
              /\ keys' = keys \cup BatchPrefix(v, m)
              /\ writer[v].i + m <= writer'[v].i
              /\ \/ /\ writer'[v].state \in {"writing", "complete"}
                    /\ writer'[v].i = writer[v].i + m
                    /\ writer'[v].written = writer[v].written + m
                    /\ writer'[v].errors = writer[v].errors
                 \/ /\ writer[v].state = "opening" /\ writer'[v].state = "error" /\ m = 0
                    /\ writer'[v].i = writer[v].i
                    /\ writer'[v].written = writer[v].written
                 \/ /\ writer'[v].state = "writing"
                    /\ writer'[v].written = writer[v].written
                    /\ writer'[v].errors = writer[v].errors + 1
  BY ThreadStep
<1>2. /\ writer[v].i \in Nat /\ writer[v].quota \in Nat /\ writer[v].errors \in Nat
      /\ writer[v].written \in Nat
      /\ writer'[v].i \in Nat /\ writer'[v].errors \in Nat
      /\ writer[v].i <= writer[v].quota /\ writer'[v].i <= writer'[v].quota
      /\ writer'[v].state = "error" => writer'[v].errors = 1
  <2>1. RecordOK(writer[v]) /\ RecordOK(writer'[v])
    BY ThreadStep DEF MemTypes
  <2>2. writer[v].quota \in Nat
    BY <2>1 DEF RecordOK, WriterType
  <2> QED BY <1>0, <2>1, <2>2 DEF RecordOK, WriterType
<1>3. writer[v].state # "none" /\ writer'[v].state # "none"
  BY <1>0 DEF Live, Finished
<1>4. \A w : FillStarted(w)' <=> FillStarted(w)
  BY <1>0, <1>3 DEF FillStarted
<1>5. FillPlace'
  BY <1>0, <1>00, <1>4 DEF FillInv, FillPlace
<1>6. KeyOwners'
  <2>1. ASSUME NEW k \in keys'
        PROVE  \/ k \in config.leftover
               \/ \E w \in Writers : writer'[w].state # "none" /\ k[1] = w[2]
    <3>1. CASE k \in keys
      BY <1>0, <1>3, <3>1 DEF FillInv, KeyOwners
    <3>2. CASE k \in BatchPrefix(v, m)
      BY <1>3, <3>2 DEF BatchPrefix
    <3> QED BY <1>1, <3>1, <3>2
  <2>2. ASSUME IdsApart, NEW w \in Writers, FillStarted(w), NEW k \in keys', k[1] = w[2]
        PROVE  k[2] < writer'[w].i
    <3>1. CASE k \in keys
      <4>1. k[2] < writer[w].i
        BY <2>2, <3>1 DEF FillInv, KeyOwners
      <4>2. CASE w # v
        BY <1>0, <4>1, <4>2
      <4>3. CASE w = v
        <5>1. k[2] \in Int
          <6>1. k \in Keys
            BY <3>1 DEF MemTypes
          <6>2. k[2] \in Indexes
            BY <6>1 DEF Keys
          <6> QED BY <6>2 DEF Indexes
        <5> QED BY <1>1, <1>2, <4>1, <4>3, <5>1
      <4> QED BY <4>2, <4>3
    <3>2. CASE k \in BatchPrefix(v, m)
      <4>1. PICK j \in 0..(m - 1) : k = <<v[2], writer[v].i + j>>
        BY <3>2 DEF BatchPrefix
      <4>2. v = w
        BY <1>3, <2>2, <4>1, FillIdsAlone DEF FillStarted
      <4>3. k[2] = writer[v].i + j
        BY <4>1
      <4> QED BY <1>1, <1>2, <4>1, <4>2, <4>3
    <3> QED BY <1>1, <3>1, <3>2
  <2>3. IdsApart' <=> IdsApart
    BY <1>0 DEF IdsApart
  <2> QED BY <1>0, <1>4, <2>1, <2>2, <2>3 DEF KeyOwners
<1>7. Used \in Nat /\ Used' \in Nat /\ Used <= Used'
  BY UsedNumbers, NextNumbers, ThreadGain DEF Numbers
<1>10. FillWrites'
  <2>1. ASSUME NEW w \in Writers, FillStarted(w)
        PROVE  writer'[w].quota > 0 /\ (writer'[w].errors = 0 => writer'[w].written = writer'[w].i)
    <3>1. writer[w].quota > 0 /\ (writer[w].errors = 0 => writer[w].written = writer[w].i)
      BY <2>1 DEF FillInv, FillWrites
    <3>2. CASE w # v
      BY <1>0, <3>1, <3>2
    <3>3. CASE w = v
      <4>1. writer'[v].errors = 0 => /\ writer'[v].i = writer[v].i + m /\ writer[v].errors = 0
                                     /\ writer'[v].written = writer[v].written + m
        BY <1>1, <1>2
      <4> QED BY <1>0, <3>1, <3>3, <4>1
    <3> QED BY <3>2, <3>3
  <2> QED BY <1>0, <1>4, <2>1 DEF FillWrites
<1>11. FillFailed => FillFailed'
  <2> SUFFICES ASSUME NEW w \in Writers, FillStarted(w), w[1] = phase,
                      writer[w].errors > 0 \/ w \in abandoned
               PROVE  FillFailed'
    BY DEF FillFailed
  <2>1. abandoned' = abandoned
    BY <1>0 DEF handlerVars
  <2>2. writer[w].errors > 0 => writer'[w].errors > 0
    <3>1. CASE w # v
      BY <1>0, <3>1
    <3>2. CASE w = v
      BY <1>1, <1>2, <3>2
    <3> QED BY <3>1, <3>2
  <2> QED BY <1>0, <1>00, <1>4, <2>1, <2>2 DEF FillFailed
<1>8. FillTried'
  <2>1. FillWriter' = FillWriter /\ config' = config
    BY <1>0, <1>00 DEF FillWriter, FillId
  <2>2. pc = "next" => config.targets[phase] \in Nat
    BY TargetNumbers
  <2>3. \A w \in Writers : writer[w].state = "complete" => writer'[w].state = "complete"
    BY <1>0 DEF Live
  <2>4. ASSUME pc = "next", ~config.expiry
        PROVE  \/ Used' >= config.targets[phase] \/ FillFailed'
               \/ \E w \in Writers : FillStarted(w) /\ w[1] = phase /\ w[3] >= 2
    BY <1>7, <1>11, <2>2, <2>4 DEF FillInv, FillTried
  <2>5. ASSUME pc = "check", attempt > 0
        PROVE  \E w \in Writers :
                 FillStarted(w) /\ w[1] = phase /\ w[3] = attempt /\ writer'[w].state = "complete"
    BY <2>3, <2>5 DEF FillInv, FillTried
  <2>6. (pc = "join" => attempt = 0) /\ (pc = "fill" => FillStarted(FillWriter))
    BY DEF FillInv, FillTried
  <2> QED BY <1>0, <1>00, <1>4, <2>1, <2>4, <2>5, <2>6 DEF FillTried
<1>9. FillEnough'
  <2>1. SUFFICES ASSUME IdsApart, OneNode, ~config.expiry, pc \in Looping, ~FillFailed',
                        NEW w \in Writers, FillStarted(w), w[1] = phase
                 PROVE  /\ config.targets[phase] < Used' + Left(w)' + config.value
                        /\ w[3] >= 2 => config.targets[phase] <= Used' + Left(w)'
    <3>1. (IdsApart' <=> IdsApart) /\ (OneNode' <=> OneNode)
      BY <1>0 DEF IdsApart, OneNode
    <3> QED BY <1>0, <1>00, <1>4, <3>1 DEF FillEnough
  <2>2. config.targets[phase] \in Nat /\ phase \in Phases
    <3>1. phase \in Nat
      BY TargetNumbers
    <3>2. pc \in {"check", "fill", "next"}
      BY <2>1, <3>1 DEF FillInv, FillPlace, Looping
    <3> QED BY <3>2, TargetNumbers
  <2>3. /\ config.targets[phase] < Used + Left(w) + config.value
        /\ w[3] >= 2 => config.targets[phase] <= Used + Left(w)
    BY <1>11, <2>1 DEF FillInv, FillEnough
  <2>4. Left(w) \in Nat /\ config.value \in Nat
    BY LeftNumbers
  <2>5. Left(w)' \in Nat /\ Used + Left(w) <= Used' + Left(w)'
    <3>1. CASE w # v
      <4>1. Left(w)' = Left(w)
        BY <1>0, <3>1 DEF Left
      <4> QED BY <1>7, <2>4, <4>1
    <3>2. CASE w = v
      <4>1. writer'[v].i = writer[v].i + m
        <5>1. writer'[v].errors = 0
          BY <1>0, <1>00, <1>2, <1>4, <2>1, <3>2 DEF FillFailed
        <5> QED BY <1>1, <1>2, <5>1
      <4>2. PICK q, c, u \in Nat : /\ q = writer[v].quota - writer[v].i /\ c = config.cost
                                   /\ u = config.value /\ u <= c /\ m <= q
        BY <1>0, <1>2, <4>1, UsedNumbers
      <4>3. Left(v) = u * q /\ Left(v)' = u * (q - m)
        <5>1. writer'[v].quota - writer'[v].i = q - m
          BY <1>0, <1>2, <4>1, <4>2
        <5> QED BY <1>0, <4>2, <5>1 DEF Left
      <4>4. PICK P : P = BatchPrefix(v, m)
        OBVIOUS
      <4>5. keys \cap P = {}
        <5> SUFFICES ASSUME NEW k \in keys, k \in P PROVE FALSE
          OBVIOUS
        <5>1. PICK j \in 0..(m - 1) : k = <<v[2], writer[v].i + j>>
          BY <4>4 DEF BatchPrefix
        <5>2. k[1] = v[2] /\ k[2] = writer[v].i + j
          BY <5>1
        <5>3. k[2] < writer[v].i
          BY <2>1, <3>2, <5>2 DEF FillInv, KeyOwners
        <5> QED BY <1>2, <5>1, <5>2, <5>3
      <4>6. Cardinality(keys \cup P) = Cardinality(keys) + m
        <5>1. IsFiniteSet(P) /\ Cardinality(P) = m
          BY <1>2, <4>4, PrefixSize
        <5>2. IsFiniteSet(keys)
          BY DEF MemTypes
        <5> QED BY <4>5, <5>1, <5>2, MoreKeys
      <4>7. Near(keys) = Cardinality(keys) /\ Near(keys') = Cardinality(keys')
        <5>1. keys \in SUBSET Keys /\ keys' \in SUBSET Keys
          <6>1. Keys' = Keys
            BY DEF Keys, Writers, Indexes
          <6> QED BY <6>1 DEF MemTypes
        <5> QED BY <2>1, <5>1, AllNear
      <4>8. Near(keys)' = Near(keys) + m
        <5>1. Near(keys)' = Near(keys')
          BY <1>0 DEF Near, NodeOf
        <5> QED BY <1>1, <4>4, <4>6, <4>7, <5>1
      <4>9. PICK n, before \in Nat : /\ n = Near(keys) /\ before = config.before
                                     /\ Used = before + c * n /\ Used' = before + c * (n + m)
        <5>1. Used' = config.before + config.cost * Near(keys)'
          BY <1>0, NextNumbers DEF Numbers
        <5> QED BY <4>2, <4>8, <5>1, UsedNumbers
      <4>10. c * n \in Nat /\ c * m \in Nat /\ c * (n + m) = c * n + c * m
        OBVIOUS
      <4>11. u * q <= u * (q - m) + c * m
        BY <4>2, Spread
      <4>12. u * q \in Nat /\ u * (q - m) \in Nat
        <5>1. q - m \in Nat
          BY <4>2
        <5>2. \A a, b \in Nat : a * b \in Nat
          OBVIOUS
        <5> QED BY <5>1, <5>2
      <4> QED BY <3>2, <4>3, <4>9, <4>10, <4>11, <4>12
    <3> QED BY <3>1, <3>2
  <2> QED BY <1>7, <2>2, <2>3, <2>4, <2>5
<1> QED BY <1>5, <1>6, <1>8, <1>9, <1>10 DEF FillInv

(* A step that starts no thread and writes no key leaves the owners of the *)
(* keys, and the top-ups, as they are.                                     *)
LEMMA OwnersStay ==
  ASSUME FillInv, UNCHANGED <<config, writer>>, keys' \in SUBSET keys
  PROVE  /\ KeyOwners' /\ FillWrites' /\ Writers' = Writers
         /\ \A w : FillStarted(w)' <=> FillStarted(w)
         /\ \A w : Left(w)' = Left(w)
         /\ (phase' = phase /\ abandoned \subseteq abandoned' /\ FillFailed) => FillFailed'
<1>1. Writers' = Writers /\ (IdsApart' <=> IdsApart)
  BY DEF Writers, IdsApart, Phases
<1>2. \A w : FillStarted(w)' <=> FillStarted(w)
  BY <1>1 DEF FillStarted
<1>3. KeyOwners'
  BY <1>1, <1>2 DEF FillInv, KeyOwners
<1>4. FillWrites'
  BY <1>1, <1>2 DEF FillInv, FillWrites
<1>5. phase' = phase /\ abandoned \subseteq abandoned' /\ FillFailed => FillFailed'
  BY <1>1, <1>2 DEF FillFailed
<1>6. \A w : Left(w)' = Left(w)
  BY DEF Left
<1> QED BY <1>1, <1>2, <1>3, <1>4, <1>5, <1>6

(* The top-ups when a phase begins, and when the phases are over. *)
LEMMA BeforePhase ==
  ASSUME MemTypes, FillInv, pc \notin {"check", "fill", "next", "failed"},
         NEW w, FillStarted(w)
  PROVE  w[1] < phase /\ w[1] \in Nat
<1>1. w \in Writers /\ w[1] \in Nat
  BY ThreadNames DEF FillStarted
<1> QED BY <1>1 DEF FillInv, FillPlace

(* When a top-up's number comes, no thread with it has started. *)
LEMMA FillIsNew ==
  ASSUME MemTypes, FillInv, pc = "check"
  PROVE  ~FillStarted(FillWriter)
<1> SUFFICES ASSUME FillStarted(FillWriter) PROVE FALSE
  OBVIOUS
<1>1. PICK w : w = FillWriter
  OBVIOUS
<1>2. w[1] = phase /\ w[3] = attempt + 1 /\ phase \in Nat /\ attempt \in Nat /\ w \in Writers
  BY <1>1, TargetNumbers DEF FillWriter, FillStarted
<1>3. \/ w[1] < phase
      \/ w[3] <= attempt
  BY <1>1, <1>2 DEF FillInv, FillPlace
<1> QED BY <1>2, <1>3

(* Every step keeps what is known of the top-ups.                          *)
LEMMA FillsKept ==
  ASSUME MemTypes, MemTypes', FillInv, [Next]_vars
  PROVE  FillInv'
<1>0. phase \in Nat /\ attempt \in Nat
  BY TargetNumbers
<1>00. \A w \in Writers : w[1] \in Nat /\ w[3] \in Nat
  BY ThreadNames
<1>1. ASSUME NEW v \in Writers, Writer(v) PROVE FillInv'
  BY <1>1, ThreadKeepsFills
<1>2. CASE PhaseStart
  <2>1. /\ pc = "phase" /\ pc' = "join" /\ attempt' = 0
        /\ UNCHANGED <<keys, config, phase>> /\ phase \in Phases
    BY <1>2 DEF PhaseStart
  <2>2. Writers' = Writers /\ (IdsApart' <=> IdsApart)
    BY <2>1 DEF Writers, IdsApart, Phases
  <2>3. ASSUME NEW w \in Writers, w[3] > 0 PROVE writer'[w] = writer[w]
    <3>1. w \notin PhaseWriters(phase)
      BY <2>3 DEF PhaseWriters, WorkersOf
    <3> QED BY <1>2, <3>1, PhaseStartEffect
  <2>4. \A w : FillStarted(w)' <=> FillStarted(w)
    BY <2>2, <2>3 DEF FillStarted
  <2>5. \A w : FillStarted(w) => w[1] < phase /\ w[1] # phase
    BY <1>0, <2>1, BeforePhase
  <2>6. FillPlace'
    BY <2>1, <2>2, <2>4, <2>5 DEF FillPlace
  <2>7. KeyOwners'
    <3>1. ASSUME NEW k \in keys
          PROVE  \/ k \in config.leftover
                 \/ \E w \in Writers : writer'[w].state # "none" /\ k[1] = w[2]
      <4>1. CASE k \notin config.leftover
        <5>1. PICK w \in Writers : writer[w].state # "none" /\ k[1] = w[2]
          BY <4>1 DEF FillInv, KeyOwners
        <5>2. writer'[w].state # "none"
          BY <1>2, <5>1, PhaseStartEffect
        <5> QED BY <5>1, <5>2
      <4> QED BY <4>1
    <3>2. ASSUME IdsApart, NEW w \in Writers, FillStarted(w), NEW k \in keys, k[1] = w[2]
          PROVE  k[2] < writer'[w].i
      <4>1. writer'[w] = writer[w]
        BY <2>3, <3>2 DEF FillStarted
      <4> QED BY <3>2, <4>1 DEF FillInv, KeyOwners
    <3> QED BY <2>1, <2>2, <2>4, <3>1, <3>2 DEF KeyOwners
  <2>8. FillTried'
    BY <2>1 DEF FillTried
  <2>9. FillEnough'
    BY <2>1, <2>2, <2>4, <2>5 DEF FillEnough
  <2>10. FillWrites'
    BY <2>2, <2>3, <2>4 DEF FillInv, FillWrites, FillStarted
  <2> QED BY <2>6, <2>7, <2>8, <2>9, <2>10 DEF FillInv
<1>3. CASE Join
  <2>1. UNCHANGED <<config, writer, keys, pc, phase, attempt>> /\ pc = "join"
    BY <1>3 DEF Join, threadVars
  <2>2. /\ KeyOwners' /\ FillWrites' /\ Writers' = Writers
        /\ \A w : FillStarted(w)' <=> FillStarted(w)
    BY <2>1, OwnersStay
  <2>3. \A w : FillStarted(w) => w[1] < phase /\ w[1] # phase
    BY <1>0, <2>1, BeforePhase
  <2>4. FillPlace'
    BY <2>1, <2>2 DEF FillInv, FillPlace
  <2>5. FillTried'
    BY <2>1 DEF FillInv, FillTried
  <2>6. FillEnough'
    BY <2>1, <2>2, <2>3 DEF FillEnough
  <2> QED BY <2>2, <2>4, <2>5, <2>6 DEF FillInv
<1>9. CASE UNCHANGED vars
  <2>1. UNCHANGED <<config, writer, keys, pc, phase, attempt, abandoned>>
    BY <1>9 DEF vars, threadVars, handlerVars
  <2>2. /\ KeyOwners' /\ FillWrites' /\ Writers' = Writers
        /\ \A w : FillStarted(w)' <=> FillStarted(w)
        /\ \A w : Left(w)' = Left(w)
    BY <2>1, OwnersStay
  <2>3. FillWriter' = FillWriter /\ Used' = Used /\ (IdsApart' <=> IdsApart)
        /\ (OneNode' <=> OneNode) /\ (FillFailed' <=> FillFailed)
    BY <2>1, <2>2 DEF FillWriter, FillId, Used, OnNode, NodeOf, IdsApart, OneNode, Phases, FillFailed
  <2>4. FillPlace'
    BY <2>1, <2>2 DEF FillInv, FillPlace
  <2>5. FillTried'
    BY <2>1, <2>2, <2>3 DEF FillInv, FillTried
  <2>6. FillEnough'
    BY <2>1, <2>2, <2>3 DEF FillInv, FillEnough
  <2> QED BY <2>2, <2>4, <2>5, <2>6 DEF FillInv
<1>4. CASE Sum
  <2>1. /\ pc = "join" /\ UNCHANGED <<config, writer, keys, attempt>>
        /\ \/ pc' = "phase" /\ phase' = phase + 1
           \/ pc' = "check" /\ phase' = phase
    BY <1>4 DEF Sum, threadVars
  <2>2. /\ KeyOwners' /\ FillWrites' /\ Writers' = Writers
        /\ \A w : FillStarted(w)' <=> FillStarted(w)
    BY <2>1, OwnersStay
  <2>3. \A w : FillStarted(w) => w[1] < phase /\ w[1] \in Nat
    BY <2>1, BeforePhase
  <2>4. \A w : FillStarted(w) => w[1] < phase' /\ w[1] # phase'
    BY <1>0, <2>1, <2>3
  <2>5. FillPlace'
    BY <2>2, <2>4 DEF FillPlace
  <2>6. FillTried'
    BY <2>1 DEF FillInv, FillTried
  <2>7. FillEnough'
    BY <2>2, <2>4 DEF FillEnough
  <2> QED BY <2>2, <2>5, <2>6, <2>7 DEF FillInv
<1>5. CASE FillCheck
  <2>1. /\ phase \in Phases /\ ~config.flat /\ pc = "check"
        /\ UNCHANGED <<keys, config, phase, attempt, abandoned>>
    BY <1>5, FillCheckEffect
  <2>0. FillWriter' = FillWriter /\ Used' = Used /\ (IdsApart' <=> IdsApart)
        /\ (OneNode' <=> OneNode) /\ Writers' = Writers
    BY <2>1 DEF FillWriter, FillId, Used, OnNode, NodeOf, IdsApart, OneNode, Phases, Writers
  <2>2. CASE pc' = "next" /\ UNCHANGED writer
    <3>1. /\ KeyOwners' /\ FillWrites' /\ \A w : FillStarted(w)' <=> FillStarted(w)
          /\ \A w : Left(w)' = Left(w)
      BY <2>1, <2>2, OwnersStay
    <3>0. FillFailed' <=> FillFailed
      BY <2>0, <2>1, <2>2, <3>1 DEF FillFailed
    <3>2. FillPlace'
      BY <2>0, <2>1, <2>2, <3>1 DEF FillInv, FillPlace
    <3>3. FillTried'
      <4>1. attempt >= MaxFills \/ Used >= config.targets[phase]
        BY <1>5, <2>2, FillCheckEffect
      <4>2. attempt >= MaxFills => \E w \in Writers : FillStarted(w) /\ w[1] = phase /\ w[3] >= 2
        <5> SUFFICES ASSUME attempt >= MaxFills
                     PROVE  \E w \in Writers : FillStarted(w) /\ w[1] = phase /\ w[3] >= 2
          OBVIOUS
        <5>1. attempt >= 2
          BY <1>0, MemoryAssumption
        <5> QED BY <1>0, <2>1, <5>1 DEF FillInv, FillTried
      <4> QED BY <2>0, <2>1, <2>2, <3>1, <4>1, <4>2 DEF FillTried
    <3>4. FillEnough'
      BY <2>0, <2>1, <2>2, <3>0, <3>1 DEF FillInv, FillEnough, Looping
    <3> QED BY <3>1, <3>2, <3>3, <3>4 DEF FillInv
  <2>3. CASE pc' = "fill"
    <3>1. PICK r : /\ writer' = [writer EXCEPT ![FillWriter] = r]
                   /\ r.state = "opening" /\ r.quota = FillKeys(config.targets[phase] - Used)
                   /\ config.targets[phase] - Used \in Nat \ {0}
                   /\ r.i = 0 /\ r.written = 0 /\ r.errors = 0 /\ r.quota \in Nat \ {0}
      BY <1>5, <2>3, FillCheckEffect
    <3>2. PICK v : v = FillWriter /\ v \in Writers
      BY <1>5, <2>3, FillCheckEffect
    <3>3. /\ writer'[v] = r /\ \A w \in Writers \ {v} : writer'[w] = writer[w]
          /\ v[1] = phase /\ v[3] = attempt + 1 /\ v[3] > 0
      BY <1>0, <3>1, <3>2 DEF MemTypes, FillWriter
    <3>4. ~FillStarted(v) /\ writer[v].state = "none"
      BY <2>1, <3>2, <3>3, FillIsNew DEF FillStarted
    <3>5. \A w : FillStarted(w)' <=> FillStarted(w) \/ w = v
      BY <2>0, <3>1, <3>2, <3>3 DEF FillStarted
    <3>6. FillPlace'
      BY <1>0, <2>0, <2>1, <2>3, <3>3, <3>5 DEF FillInv, FillPlace
    <3>7. KeyOwners'
      <4>1. ASSUME NEW k \in keys
            PROVE  \/ k \in config.leftover
                   \/ \E w \in Writers : writer'[w].state # "none" /\ k[1] = w[2]
        <5>1. CASE k \notin config.leftover
          <6>1. PICK w \in Writers : writer[w].state # "none" /\ k[1] = w[2]
            BY <5>1 DEF FillInv, KeyOwners
          <6>2. writer'[w].state # "none"
            BY <3>1, <3>3, <6>1
          <6> QED BY <6>1, <6>2
        <5> QED BY <5>1
      <4>2. ASSUME IdsApart, NEW w \in Writers, FillStarted(w) \/ w = v, NEW k \in keys,
                   k[1] = w[2]
            PROVE  k[2] < writer'[w].i
        <5>1. CASE w # v
          BY <3>3, <4>2, <5>1 DEF FillInv, KeyOwners
        <5>2. CASE w = v
          <6>0. k \notin config.leftover
            <7>1. v[2] \in Nat /\ v[2] >= 900
              BY <3>2, <3>3, FillIdHigh
            <7> QED BY <4>2, <5>2, <7>1 DEF IdsApart
          <6>1. PICK x \in Writers : writer[x].state # "none" /\ k[1] = x[2]
            BY <6>0 DEF FillInv, KeyOwners
          <6>2. x = v
            BY <3>2, <3>3, <4>2, <5>2, <6>1, FillIdsAlone
          <6> QED BY <3>4, <6>1, <6>2
        <5> QED BY <5>1, <5>2
      <4> QED BY <2>0, <2>1, <3>5, <4>1, <4>2 DEF KeyOwners
    <3>8. FillTried'
      <4>1. FillStarted(FillWriter)'
        BY <2>0, <3>2, <3>5
      <4> QED BY <2>3, <4>1 DEF FillTried
    <3>10. FillWrites'
      <4>1. writer'[v].quota > 0 /\ writer'[v].written = writer'[v].i
        BY <3>1, <3>3
      <4>2. \A w \in Writers : w # v => writer'[w] = writer[w]
        BY <3>3
      <4> QED BY <2>0, <3>5, <4>1, <4>2 DEF FillInv, FillWrites
    <3>11. FillFailed => FillFailed'
      <4> SUFFICES ASSUME NEW w \in Writers, FillStarted(w), w[1] = phase,
                          writer[w].errors > 0 \/ w \in abandoned
                   PROVE  FillFailed'
        BY DEF FillFailed
      <4>1. w # v /\ writer'[w] = writer[w]
        BY <3>3, <3>4
      <4> QED BY <2>0, <2>1, <3>5, <4>1 DEF FillFailed
    <3>9. FillEnough'
      <4>1. SUFFICES ASSUME IdsApart, OneNode, ~config.expiry, ~FillFailed,
                            NEW w \in Writers, FillStarted(w) \/ w = v, w[1] = phase
                     PROVE  /\ config.targets[phase] < Used + Left(w)' + config.value
                            /\ w[3] >= 2 => config.targets[phase] <= Used + Left(w)'
        BY <2>0, <2>1, <3>5, <3>11 DEF FillEnough
      <4>2. CASE w # v
        <5>1. Left(w)' = Left(w)
          BY <2>1, <3>3, <4>2 DEF Left
        <5> QED BY <2>1, <4>1, <4>2, <5>1 DEF FillInv, FillEnough, Looping
      <4>3. CASE w = v
        <5>1. PICK g \in Nat \ {0} : g = config.targets[phase] - Used
          BY <3>1
        <5>2. PICK u \in Nat : u = config.value
          BY UsedNumbers
        <5>3. PICK x \in Nat : /\ x = u * FillKeys(g) /\ g < x + u
                               /\ g < u => g <= x
          BY <5>2, UsedNumbers, FillNumbers
        <5>4. Left(v)' = x
          <6>1. writer'[v].quota = FillKeys(g) /\ writer'[v].i = 0 /\ FillKeys(g) \in Nat
            BY <3>1, <3>3, <5>1
          <6>2. writer'[v].quota - writer'[v].i = FillKeys(g)
            BY <6>1
          <6> QED BY <2>1, <5>2, <5>3, <6>2 DEF Left
        <5>5. config.targets[phase] \in Nat /\ Used \in Nat
          BY <2>1, TargetNumbers, UsedNumbers
        <5>6. v[3] >= 2 => g < u
          <6> SUFFICES ASSUME attempt > 0 PROVE g < u
            BY <1>0, <3>3
          <6>1. PICK x1 \in Writers : FillStarted(x1) /\ x1[1] = phase /\ writer[x1].state = "complete"
            BY <2>1 DEF FillInv, FillTried
          <6>2. config.targets[phase] < Used + Left(x1) + config.value
            BY <2>1, <4>1, <6>1 DEF FillInv, FillEnough, Looping
          <6>3. Left(x1) = 0
            <7>1. RecordOK(writer[x1])
              BY <6>1 DEF MemTypes
            <7>2. writer[x1].i = writer[x1].quota /\ writer[x1].quota \in Nat
              BY <6>1, <7>1, LeftNumbers DEF RecordOK
            <7>3. writer[x1].quota - writer[x1].i = 0 /\ u * 0 = 0
              BY <7>2
            <7> QED BY <5>2, <7>3 DEF Left
          <6> QED BY <5>1, <5>2, <5>5, <6>2, <6>3
        <5> QED BY <4>3, <5>1, <5>2, <5>3, <5>4, <5>5, <5>6
      <4> QED BY <4>2, <4>3
    <3> QED BY <3>6, <3>7, <3>8, <3>9, <3>10 DEF FillInv
  <2> QED BY <1>5, <2>2, <2>3, FillCheckEffect
<1>6. CASE FillJoin
  <2>1. /\ pc = "fill" /\ UNCHANGED <<config, writer, keys, phase>>
        /\ \/ pc' = "next" /\ attempt' = attempt
           \/ pc' = "check" /\ attempt' = attempt + 1
    BY <1>6 DEF FillJoin, threadVars
  <2>2. /\ KeyOwners' /\ FillWrites' /\ Writers' = Writers
        /\ \A w : FillStarted(w)' <=> FillStarted(w)
        /\ \A w : Left(w)' = Left(w)
    BY <2>1, OwnersStay
  <2>3. Used' = Used /\ (IdsApart' <=> IdsApart) /\ (OneNode' <=> OneNode)
    BY <2>1, <2>2 DEF Used, OnNode, NodeOf, IdsApart, OneNode, Phases
  <2>4. FillStarted(FillWriter) /\ FillWriter[1] = phase /\ FillWriter \in Writers
    BY <2>1 DEF FillInv, FillTried, FillWriter, FillStarted
  <2>5. FillPlace'
    <3>1. ASSUME NEW w \in Writers, FillStarted(w)
          PROVE  w[1] < phase \/ (w[1] = phase /\ w[3] <= attempt + 1)
      BY <1>0, <1>00, <2>1, <3>1 DEF FillInv, FillPlace
    <3> QED BY <1>0, <1>00, <2>1, <2>2, <3>1 DEF FillPlace
  <2>8. FillFailed => FillFailed'
    <3>1. abandoned \subseteq abandoned'
      BY <1>6 DEF FillJoin, Joined
    <3> QED BY <2>1, <2>2, <3>1, OwnersStay
  <2>6. FillTried'
    <3>1. PICK x \in Writers : x = FillWriter
      BY <2>4
    <3>2. FillStarted(x) /\ x[1] = phase /\ x[3] = attempt + 1 /\ RecordOK(writer[x])
      BY <2>4, <3>1 DEF FillWriter, MemTypes
    <3>3. CASE pc' = "check"
      <4>1. writer[x].state = "complete" /\ attempt' = x[3]
        BY <1>6, <2>1, <3>1, <3>2, <3>3 DEF FillJoin
      <4> QED BY <2>1, <2>2, <3>2, <3>3, <4>1 DEF FillTried
    <3>4. CASE pc' = "next"
      <4>1. CASE writer[x].state = "complete"
        <5>1. writer[x].written = 0
          BY <1>6, <3>1, <3>4, <4>1 DEF FillJoin
        <5>2. writer[x].quota > 0 /\ (writer[x].errors = 0 => writer[x].written = writer[x].i)
          BY <3>2 DEF FillInv, FillWrites
        <5>3. writer[x].i = writer[x].quota /\ writer[x].errors \in Nat
          BY <3>2, <4>1, LeftNumbers DEF RecordOK
        <5>4. writer[x].errors > 0
          BY <5>1, <5>2, <5>3
        <5>5. FillFailed'
          BY <2>1, <2>2, <3>2, <5>4 DEF FillFailed
        <5> QED BY <3>4, <5>5 DEF FillTried
      <4>2. CASE writer[x].state # "complete"
        <5>1. writer[x].state = "error" \/ x \in abandoned'
          BY <1>6, <3>1, <4>2 DEF FillJoin, Joined, Finished
        <5>2. writer[x].errors > 0 \/ x \in abandoned'
          BY <3>2, <5>1 DEF RecordOK
        <5>3. FillFailed'
          BY <2>1, <2>2, <3>2, <5>2 DEF FillFailed
        <5> QED BY <3>4, <5>3 DEF FillTried
      <4> QED BY <4>1, <4>2
    <3> QED BY <2>1, <3>3, <3>4
  <2>7. FillEnough'
    BY <2>1, <2>2, <2>3, <2>8 DEF FillInv, FillEnough, Looping
  <2> QED BY <2>2, <2>5, <2>6, <2>7 DEF FillInv
<1>7. CASE PhaseEnd \/ Finish \/ CleanupStart \/ Sweep \/ Return \/ Raise
  <2>1. UNCHANGED <<config, writer, attempt>> /\ keys' \in SUBSET keys
    BY <1>7, SweepShrinks
       DEF PhaseEnd, Finish, CleanupStart, ScanStart, Sweep, Return, Raise, threadVars, handlerVars
  <2>2. /\ KeyOwners' /\ FillWrites' /\ Writers' = Writers
        /\ \A w : FillStarted(w)' <=> FillStarted(w)
    BY <2>1, OwnersStay
  <2>3. \/ pc = "next" /\ pc' = "phase" /\ phase' = phase + 1
        \/ /\ pc \notin {"check", "fill", "next", "failed"} /\ phase' = phase
           /\ pc' \in {"cleanup", "returned", "sweep", "failed"}
        \/ pc \in {"check", "next"} /\ pc' = "failed" /\ phase' = phase
    BY <1>7 DEF PhaseEnd, Finish, CleanupStart, Sweep, Return, Raise, handlerVars
  <2>4. FillPlace'
    <3>1. CASE pc = "next" /\ pc' = "phase" /\ phase' = phase + 1
      <4>1. \A w \in Writers : FillStarted(w) => w[1] <= phase
        BY <1>0, <1>00, <3>1 DEF FillInv, FillPlace
      <4> QED BY <1>0, <1>00, <2>2, <3>1, <4>1 DEF FillPlace
    <3>2. CASE pc \notin {"check", "fill", "next", "failed"} /\ phase' = phase
      <4>1. \A w : FillStarted(w) => w[1] < phase
        BY <3>2, BeforePhase
      <4> QED BY <2>2, <3>2, <4>1 DEF FillPlace
    <3>3. CASE pc \in {"check", "next"} /\ pc' = "failed" /\ phase' = phase
      BY <2>1, <2>2, <3>3 DEF FillInv, FillPlace
    <3> QED BY <2>3, <3>1, <3>2, <3>3
  <2>5. FillTried' /\ FillEnough'
    BY <2>3 DEF FillTried, FillEnough, Looping
  <2> QED BY <2>2, <2>4, <2>5 DEF FillInv
<1>8. CASE \E k \in keys : Vanish(k)
  <2>1. UNCHANGED <<config, writer, handlerVars>> /\ keys' \in SUBSET keys /\ config.expiry
    BY <1>8 DEF Vanish, threadVars
  <2>2. /\ KeyOwners' /\ FillWrites' /\ Writers' = Writers
        /\ \A w : FillStarted(w)' <=> FillStarted(w)
    BY <2>1, OwnersStay
  <2>3. /\ FillWriter' = FillWriter /\ pc' = pc /\ phase' = phase /\ attempt' = attempt
    BY <2>1 DEF FillWriter, FillId, handlerVars
  <2>4. FillPlace'
    BY <2>2, <2>3 DEF FillInv, FillPlace
  <2>5. FillTried'
    BY <2>1, <2>2, <2>3 DEF FillInv, FillTried
  <2>6. FillEnough'
    BY <2>1 DEF FillEnough
  <2> QED BY <2>2, <2>4, <2>5, <2>6 DEF FillInv
<1> QED BY <1>1, <1>2, <1>3, <1>4, <1>5, <1>6, <1>7, <1>8, <1>9 DEF Next, Handler

-------------------------------------------------------------------------------
(* The theorems. *)

MemoryInv == MemTypes /\ JoinInv /\ RampInv /\ ReportInv /\ SweepInv /\ FillInv

LEMMA InitMemory == Init => MemoryInv
BY InitTypes, InitJoin, InitRamp, InitReport, InitSweep, InitFill DEF MemoryInv

LEMMA NextMemory == MemoryInv /\ [Next]_vars => MemoryInv'
<1> SUFFICES ASSUME MemoryInv, [Next]_vars PROVE MemoryInv'
  OBVIOUS
<1>1. MemTypes'
  BY StepKeepsTypes DEF MemoryInv
<1>2. JoinInv'
  BY JoinKept DEF MemoryInv
<1>3. RampInv'
  BY <1>1, RampKept DEF MemoryInv
<1>4. ReportInv'
  BY <1>1, ReportKept DEF MemoryInv
<1>5. SweepInv'
  BY <1>1, SweepKept DEF MemoryInv
<1>6. FillInv'
  BY <1>1, FillsKept DEF MemoryInv
<1> QED BY <1>1, <1>2, <1>3, <1>4, <1>5, <1>6 DEF MemoryInv

LEMMA MemoryInvariance == Spec => []MemoryInv
BY InitMemory, NextMemory, PTL DEF Spec

(* memory_stress.py: a phase of the ramp ends with used_memory at its      *)
(* target, whatever became of its workers, unless a top-up failed or was   *)
(* left behind, keys expire, or INFO answers for one of several nodes.     *)
THEOREM TargetIsReached == Spec => []PhaseReachesTarget
<1>1. MemoryInv => PhaseReachesTarget
  <2> SUFFICES ASSUME MemoryInv, pc = "next", FillsClean, OneNode, IdsApart, ~config.expiry
               PROVE  Used >= config.targets[phase]
    BY DEF PhaseReachesTarget
  <2>1. MemTypes /\ FillInv
    BY DEF MemoryInv
  <2>2. ~FillFailed
    <3>1. ASSUME NEW w \in Writers, FillStarted(w), w[1] = phase
          PROVE  writer[w].errors = 0 /\ w \notin abandoned
      BY <3>1 DEF FillsClean, FillStarted
    <3> QED BY <3>1 DEF FillFailed
  <2>3. ASSUME NEW w \in Writers, FillStarted(w), w[1] = phase, w[3] >= 2
        PROVE  Used >= config.targets[phase]
    <3>1. writer[w].state = "complete"
      BY <2>3 DEF FillsClean, FillStarted
    <3>2. writer[w].i = writer[w].quota /\ writer[w].quota \in Nat /\ config.value \in Nat
      BY <2>1, <3>1, LeftNumbers DEF MemTypes, RecordOK
    <3>3. Left(w) = 0
      <4>1. writer[w].quota - writer[w].i = 0 /\ config.value * 0 = 0
        BY <3>2
      <4> QED BY <4>1 DEF Left
    <3>4. config.targets[phase] <= Used + Left(w)
      BY <2>1, <2>2, <2>3 DEF FillInv, FillEnough, Looping
    <3>5. Used \in Nat /\ config.targets[phase] \in Nat
      BY <2>1, UsedNumbers, TargetNumbers
    <3> QED BY <3>3, <3>4, <3>5
  <2> QED BY <2>1, <2>2, <2>3 DEF FillInv, FillTried
<1> QED BY <1>1, MemoryInvariance, PTL

(* While every thread was joined, the values stored pass the highest       *)
(* target so far by less than one, whatever failed and whatever expired.   *)
THEOREM RampStaysWithin == Spec => []RampWithinTarget
<1>1. MemoryInv => RampWithinTarget
  <2> SUFFICES ASSUME MemoryInv, ~config.flat, abandoned = {} PROVE Within(Payload)
    BY DEF RampWithinTarget
  <2>1. Fits(Near(keys)) /\ Payload = config.before + config.value * Near(keys)
    BY UsedNumbers DEF MemoryInv, RampInv
  <2> QED BY <2>1 DEF Fits
<1> QED BY <1>1, MemoryInvariance, PTL

(* The keys_written of a response without errors covers the keys stored.   *)
THEOREM ReportCovers == Spec => []ReportCoversKeys
<1>1. MemoryInv => ReportCoversKeys
  <2> SUFFICES ASSUME MemoryInv, pc \in {"cleanup", "sweep", "returned"}, abandoned = {},
                      write_errors = 0
               PROVE  Fresh(keys) <= keys_written
    BY DEF ReportCoversKeys, Fresh
  <2>1. Awaited = {} /\ pc # "failed"
    BY DEF Awaited
  <2>2. ~Untold
    BY <2>1 DEF Untold
  <2>3. Fresh(keys) <= keys_written + SumFunctionOnSet(Written, Awaited)
    BY <2>1, <2>2 DEF MemoryInv, ReportInv
  <2>4. SumFunctionOnSet(Written, Awaited) = 0 /\ keys_written \in Nat
    BY <2>1, NothingAwaited DEF MemoryInv, MemTypes, HandlerTypes
  <2>5. Fresh(keys) \in Nat
    BY UsedNumbers DEF MemoryInv
  <2> QED BY <2>3, <2>4, <2>5
<1> QED BY <1>1, MemoryInvariance, PTL

(* A clean-up that saw every node and ran to its end leaves no key behind  *)
(* if every thread was joined before it.                                   *)
THEOREM NothingStays == Spec => []NothingLeftBehind
<1>1. MemoryInv => NothingLeftBehind
  BY DEF MemoryInv, SweepInv, ScanInv, ScanTyped, ScanType, OldKeysFound, NothingLeftBehind
<1> QED BY <1>1, MemoryInvariance, PTL

===============================================================================
