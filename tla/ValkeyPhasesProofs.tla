-------------------------- MODULE ValkeyPhasesProofs --------------------------
(***************************************************************************)
(* Theorems about ValkeyPhases, for every environment: any phases, threads,*)
(* jitter, intervals and sizes of batches.                                 *)
(***************************************************************************)
EXTENDS ValkeyPhases, SumLemmas

RunTypes ==
  /\ env \in Environments
  /\ pc = [t \in Threads |-> pc[t]]
  /\ ops = [t \in Threads |-> ops[t]]
  /\ slot = [t \in Threads |-> slot[t]]

(* Before it connects a thread has no result and has counted nothing; when *)
(* it is over, its result is final.                                        *)
ResultInv(t) ==
  /\ pc[t] \in {"unborn", "connect"} => slot[t] = Empty
  /\ pc[t] \in {"unborn", "connect", "wait"} => ops[t] = 0
  /\ pc[t] = "dead" => env.fn = "flat" /\ slot[t] = Empty
  /\ pc[t] = "done" =>
       IF env.fn = "flat" THEN slot[t].kind = "ok" => slot[t].ops = ops[t]
       ELSE slot[t].kind # "none" /\ slot[t].ops = ops[t]

ResultsInv ==
  /\ RunTypes
  /\ handler \in {"ping", "launch"} => \A t \in Threads : pc[t] = "unborn"
  /\ \A t \in Threads : ResultInv(t)

(* What the step of one thread may change. *)
ThreadStep(t) ==
  /\ UNCHANGED <<env, handler>>
  /\ handler \notin {"ping", "launch"}
  /\ \E p : pc' = [pc EXCEPT ![t] = p]
  /\ ops' = ops \/ \E n : ops' = [ops EXCEPT ![t] = n]
  /\ slot' = slot \/ \E r : slot' = [slot EXCEPT ![t] = r]
  /\ ResultInv(t)'

LEMMA InitResultsInv == Init => ResultsInv
BY DEF Init, RunInit, ResultsInv, RunTypes, ResultInv, Threads

LEMMA ThreadKeeps ==
  ASSUME ResultsInv, NEW t \in Threads, ThreadStep(t)
  PROVE  ResultsInv'
<1>1. Threads' = Threads
  BY DEF ThreadStep, Threads
<1>2. RunTypes'
  <2>1. pc' = [u \in Threads |-> pc'[u]]
    BY DEF ThreadStep, ResultsInv, RunTypes
  <2>2. ops' = [u \in Threads |-> ops'[u]]
    BY DEF ThreadStep, ResultsInv, RunTypes
  <2>3. slot' = [u \in Threads |-> slot'[u]]
    BY DEF ThreadStep, ResultsInv, RunTypes
  <2> QED
    BY <1>1, <2>1, <2>2, <2>3 DEF ThreadStep, ResultsInv, RunTypes
<1>3. ASSUME NEW u \in Threads \ {t} PROVE ResultInv(u)'
  <2>1. pc'[u] = pc[u] /\ ops'[u] = ops[u] /\ slot'[u] = slot[u]
    BY DEF ThreadStep, ResultsInv, RunTypes
  <2> QED
    BY <2>1 DEF ThreadStep, ResultsInv, ResultInv
<1> QED
  BY <1>1, <1>2, <1>3 DEF ThreadStep, ResultsInv

(* A thread that takes a step has been started. *)
LEMMA Started ==
  ASSUME ResultsInv, NEW t \in Threads, NEW l, AtStep(t, l), l # "unborn"
  PROVE  handler \notin {"ping", "launch"}
BY DEF AtStep, ResultsInv

LEMMA ConnectStep ==
  ASSUME ResultsInv, NEW t \in Threads,
         ConnectOk(t) \/ ConnectFails(t) \/ PhaseBegins(t)
  PROVE  ThreadStep(t)
<1> USE DEF ResultsInv, RunTypes, ResultInv, Goto, AtStep, Empty, ErrorSlot, handlerVars
<1>1. CASE ConnectOk(t)
  BY <1>1, Started DEF ConnectOk, ThreadStep
<1>2. CASE ConnectFails(t)
  BY <1>2, Started DEF ConnectFails, ThreadStep
<1>3. CASE PhaseBegins(t)
  BY <1>3, Started DEF PhaseBegins, ThreadStep
<1> QED
  BY <1>1, <1>2, <1>3

LEMMA BurnStep ==
  ASSUME ResultsInv, NEW t \in Threads, CpuThread(t)
  PROVE  ThreadStep(t)
<1> USE DEF ResultsInv, RunTypes, ResultInv, Goto, AtStep, Empty, ErrorSlot, handlerVars
<1>1. CASE BurnBegins(t) \/ LoopEnds(t)
  BY <1>1, Started DEF BurnBegins, LoopEnds, ThreadStep
<1>2. CASE BurnOk(t) \/ BurnFails(t)
  BY <1>2, Started DEF BurnOk, BurnFails, ThreadStep
<1>3. CASE DutySleep(t) \/ SleepRaises(t) \/ Resume(t)
  BY <1>3, Started DEF DutySleep, SleepRaises, Resume, ThreadStep
<1>4. CASE Except(t)
  BY <1>4, Started DEF Except, ThreadStep
<1>5. CASE Store(t)
  BY <1>5, Started DEF Store, ThreadStep
<1> QED
  BY <1>1, <1>2, <1>3, <1>4, <1>5, ConnectStep DEF CpuThread

LEMMA OpenLoopStep ==
  ASSUME ResultsInv, env.fn = "mixed", NEW t \in Threads, MixedThread(t)
  PROVE  ThreadStep(t)
<1> USE DEF ResultsInv, RunTypes, ResultInv, Goto, AtStep, handlerVars
<1>1. CASE LoopBegins(t) \/ LoopTest(t) \/ Send(t)
  BY <1>1, Started DEF LoopBegins, LoopTest, Send, ThreadStep
<1>2. CASE BatchOk(t) \/ BatchFails(t)
  BY <1>2, Started DEF BatchOk, BatchFails, Sample, ThreadStep
<1>3. CASE Extend(t)
  BY <1>3, Started DEF Extend, ThreadStep
<1>4. CASE StoreCounts(t)
  BY <1>4, Started DEF StoreCounts, ThreadStep
<1> QED
  BY <1>1, <1>2, <1>3, <1>4, ConnectStep DEF MixedThread

LEMMA HandlerKeepsResults ==
  ASSUME ResultsInv,
         \/ Ping \/ Launch \/ Join \/ JoinsOver("returned") \/ JoinsOver("ops")
         \/ Tick \/ CountOps \/ CountErrors \/ CountSamples \/ UNCHANGED vars
  PROVE  ResultsInv'
<1> USE DEF ResultsInv, RunTypes, ResultInv, Threads, threadVars, handlerVars
<1>1. CASE Ping
  BY <1>1 DEF Ping
<1>2. CASE Launch
  BY <1>2 DEF Launch
<1>3. CASE Join
  BY <1>3 DEF Join, JoinReady
<1>4. CASE JoinsOver("returned") \/ JoinsOver("ops")
  BY <1>4 DEF JoinsOver, JoinReady
<1>5. CASE Tick
  BY <1>5 DEF Tick
<1>6. CASE CountOps \/ CountErrors \/ CountSamples
  BY <1>6 DEF CountOps, CountErrors, CountSamples
<1>7. CASE UNCHANGED vars
  BY <1>7 DEF vars, runVars
<1> QED
  BY <1>1, <1>2, <1>3, <1>4, <1>5, <1>6, <1>7

LEMMA NextKeepsResults == ResultsInv /\ [Next]_vars => ResultsInv'
<1> SUFFICES ASSUME ResultsInv, [Next]_vars PROVE ResultsInv'
  OBVIOUS
<1>1. CASE CpuHandler \/ MixedHandler \/ Tick \/ Returned \/ UNCHANGED vars
  BY <1>1, HandlerKeepsResults DEF CpuHandler, MixedHandler, Returned
<1>2. CASE env.fn # "mixed" /\ \E t \in Threads : CpuThread(t)
  BY <1>2, BurnStep, ThreadKeeps
<1>3. CASE env.fn = "mixed" /\ \E t \in Threads : MixedThread(t)
  BY <1>3, OpenLoopStep, ThreadKeeps
<1> QED
  BY <1>1, <1>2, <1>3 DEF Next, CpuNext, MixedNext

(* cpu_stress._phase_worker, its flat worker and mixed_workload._worker:   *)
(* whatever fails and wherever, a thread of a phase that is over has       *)
(* reported every operation that it counted.                               *)
THEOREM ResultsAlwaysSayWhatRan == Spec => []ResultsSayWhatRan
<1>1. ResultsInv => ResultsSayWhatRan
  BY DEF ResultsInv, ResultInv, ResultsSayWhatRan, ThreadOver, Empty
<1> QED
  BY <1>1, InitResultsInv, NextKeepsResults, PTL DEF Spec

-------------------------------------------------------------------------------
(* The schedule of an open-loop thread. *)

PaceTypes ==
  /\ env \in Environments /\ now \in Nat
  /\ pc = [t \in Threads |-> pc[t]]
  /\ next_send \in [Threads -> Nat]
  /\ stall \in [Threads -> [at : Nat, sent : Nat]]

(* next_send is never before what one batch per interval since the last    *)
(* stall would make it: of the batch not yet sent in the loop, of the      *)
(* batch that is under way after Send.                                     *)
Pace(t) ==
  /\ stall[t].at <= now
  /\ (stall[t].sent - 1) * env.interval <= now - stall[t].at
  /\ env.fn = "mixed" =>
       /\ pc[t] \in {"loop", "due"} =>
            next_send[t] >= stall[t].at + stall[t].sent * env.interval
       /\ pc[t] = "sent" =>
            next_send[t] >= stall[t].at + (stall[t].sent - 1) * env.interval

PaceInv == PaceTypes /\ \A t \in Threads : Pace(t)

(* What the step of one thread may change of it. *)
PaceStep(t) ==
  /\ UNCHANGED <<env, now>>
  /\ \E p : pc' = [pc EXCEPT ![t] = p]
  /\ next_send' = next_send \/ \E n \in Nat : next_send' = [next_send EXCEPT ![t] = n]
  /\ stall' = stall \/ \E s \in [at : Nat, sent : Nat] : stall' = [stall EXCEPT ![t] = s]
  /\ Pace(t)'

LEMMA IntervalType == env \in Environments => env.interval \in Nat
BY MixedAssumption

LEMMA Times ==
  /\ \A s, i \in Nat : (s + 1) * i = s * i + i
  /\ \A s, i \in Nat : s * i = (s - 1) * i + i
  /\ \A s, i \in Nat : (s + 1 - 1) * i = s * i
  /\ \A i \in Nat : 0 * i = 0 /\ (0 - 1) * i <= 0
  /\ \A s, i \in Nat : s * i \in Nat /\ (s - 1) * i \in Int
OBVIOUS

LEMMA InitPace == Init => PaceInv
<1> SUFFICES ASSUME Init PROVE PaceInv
  OBVIOUS
<1>1. PaceTypes
  BY DEF Init, RunInit, MixedInit, PaceTypes, Threads
<1>2. ASSUME NEW t \in Threads PROVE Pace(t)
  BY IntervalType, Times DEF Init, RunInit, MixedInit, Pace, Threads
<1> QED
  BY <1>1, <1>2 DEF PaceInv

LEMMA ThreadKeepsPace ==
  ASSUME PaceInv, NEW t \in Threads, PaceStep(t)
  PROVE  PaceInv'
<1>1. Threads' = Threads
  BY DEF PaceStep, Threads
<1>2. PaceTypes'
  <2>1. pc' = [u \in Threads |-> pc'[u]]
    BY DEF PaceStep, PaceInv, PaceTypes
  <2>2. next_send' \in [Threads -> Nat]
    BY DEF PaceStep, PaceInv, PaceTypes
  <2>3. stall' \in [Threads -> [at : Nat, sent : Nat]]
    BY DEF PaceStep, PaceInv, PaceTypes
  <2> QED
    BY <1>1, <2>1, <2>2, <2>3 DEF PaceStep, PaceInv, PaceTypes
<1>3. ASSUME NEW u \in Threads \ {t} PROVE Pace(u)'
  <2>1. pc'[u] = pc[u] /\ next_send'[u] = next_send[u] /\ stall'[u] = stall[u]
    BY DEF PaceStep, PaceInv, PaceTypes
  <2> QED
    BY <2>1 DEF PaceStep, PaceInv, Pace
<1> QED
  BY <1>1, <1>2, <1>3 DEF PaceStep, PaceInv

(* The steps that leave the schedule alone and end where nothing is asked. *)
LEMMA QuietKeepsPace ==
  ASSUME PaceInv, NEW t \in Threads, NEW p, pc' = [pc EXCEPT ![t] = p],
         UNCHANGED <<env, now, next_send, stall>>,
         env.fn = "mixed" /\ p \in {"loop", "due"} => pc[t] \in {"loop", "due"},
         env.fn = "mixed" => p # "sent"
  PROVE  PaceInv'
<1>1. PaceStep(t)
  BY DEF PaceStep, PaceInv, PaceTypes, Pace
<1> QED
  BY <1>1, ThreadKeepsPace

LEMMA BurnKeepsPace ==
  ASSUME PaceInv, env.fn # "mixed", NEW t \in Threads, CpuThread(t), UNCHANGED mixedVars
  PROVE  PaceInv'
<1>1. UNCHANGED <<env, now, next_send, stall>>
  BY DEF CpuThread, ConnectOk, ConnectFails, PhaseBegins, BurnBegins, LoopEnds,
         BurnOk, BurnFails, DutySleep, SleepRaises, Resume, Except, Store,
         mixedVars, openLoopVars
<1>2. PICK p : pc' = [pc EXCEPT ![t] = p]
  BY DEF CpuThread, ConnectOk, ConnectFails, PhaseBegins, BurnBegins, LoopEnds,
         BurnOk, BurnFails, DutySleep, SleepRaises, Resume, Except, Store, Goto
<1> QED
  BY <1>1, <1>2, QuietKeepsPace

LEMMA OpenLoopKeepsPace ==
  ASSUME PaceInv, env.fn = "mixed", NEW t \in Threads, MixedThread(t)
  PROVE  PaceInv'
<1> DEFINE i == env.interval
           s == stall[t].sent
           at == stall[t].at
<1>t. /\ now \in Nat /\ i \in Nat /\ s \in Nat /\ at \in Nat /\ next_send[t] \in Nat
      /\ Pace(t)
  BY IntervalType DEF PaceInv, PaceTypes
<1>1. CASE ConnectOk(t) /\ UNCHANGED mixedVars
  BY <1>1, QuietKeepsPace DEF ConnectOk, Goto, mixedVars, openLoopVars
<1>2. CASE (ConnectFails(t) \/ PhaseBegins(t)) /\ UNCHANGED mixedVars
  BY <1>2, QuietKeepsPace DEF ConnectFails, PhaseBegins, Goto, mixedVars, openLoopVars
<1>3. CASE LoopBegins(t)
  <2>1. next_send'[t] = now /\ stall'[t].at = now /\ stall'[t].sent = 0 /\ pc'[t] = "loop"
    BY <1>3 DEF LoopBegins, Goto, PaceInv, PaceTypes
  <2>2. Pace(t)'
    BY <1>3, <1>t, <2>1, Times DEF LoopBegins, Pace
  <2>3. PaceStep(t)
    BY <1>3, <1>t, <2>2 DEF LoopBegins, Goto, PaceStep
  <2> QED
    BY <2>3, ThreadKeepsPace
<1>4. CASE LoopTest(t)
  BY <1>4, QuietKeepsPace DEF LoopTest, AtStep, Goto, mixedVars, openLoopVars
<1>5. CASE Send(t)
  <2>1. /\ UNCHANGED <<env, now, next_send>> /\ now >= next_send[t]
        /\ pc[t] = "due" /\ pc' = [pc EXCEPT ![t] = "sent"]
    BY <1>5 DEF Send, AtStep, Goto
  <2>2. stall' = [stall EXCEPT ![t] = [at |-> at, sent |-> s + 1]]
    <3>1. stall[t] = [at |-> at, sent |-> s]
      BY DEF PaceInv, PaceTypes
    <3>2. stall' = [stall EXCEPT ![t] = [stall[t] EXCEPT !.sent = s + 1]]
      BY <1>5 DEF Send
    <3>3. [stall[t] EXCEPT !.sent = s + 1] = [at |-> at, sent |-> s + 1]
      BY <3>1
    <3> QED
      BY <3>2, <3>3
  <2>3. next_send[t] >= at + s * i
    BY <1>t, <2>1 DEF Pace
  <2>4. Pace(t)'
    <3>1. stall'[t].at = at /\ stall'[t].sent = s + 1 /\ pc'[t] = "sent"
      BY <2>1, <2>2 DEF PaceInv, PaceTypes
    <3>2. (s + 1 - 1) * i = s * i /\ s * i \in Nat
      BY <1>t, Times
    <3> QED
      BY <1>t, <2>1, <2>3, <3>1, <3>2 DEF Pace
  <2>5. PaceStep(t)
    <3>1. [at |-> at, sent |-> s + 1] \in [at : Nat, sent : Nat]
      BY <1>t
    <3>2. \E r \in [at : Nat, sent : Nat] : stall' = [stall EXCEPT ![t] = r]
      BY <2>2, <3>1
    <3> QED
      BY <2>1, <2>4, <3>2 DEF PaceStep
  <2> QED
    BY <2>5, ThreadKeepsPace
<1>6. CASE BatchOk(t) \/ BatchFails(t)
  <2> DEFINE next == Schedule(t)
  <2>1. /\ UNCHANGED <<env, now>> /\ pc[t] = "sent" /\ pc' = [pc EXCEPT ![t] = "loop"]
        /\ next_send' = [next_send EXCEPT ![t] = next]
        /\ \/ stall' = stall
           \/ stall' = [stall EXCEPT ![t] = [at |-> now, sent |-> 0]]
    BY <1>6 DEF BatchOk, BatchFails, Sample, AtStep, Goto
  <2>2. next \in Nat /\ next >= now /\ next >= next_send[t] + i
    BY <1>t DEF Schedule, Later
  <2>3. next_send[t] >= at + (s - 1) * i
    BY <1>t, <2>1 DEF Pace
  <2>4. Pace(t)'
    <3>1. next_send'[t] = next /\ pc'[t] = "loop"
      BY <2>1 DEF PaceInv, PaceTypes
    <3>2. CASE stall' = stall
      <4>1. s * i = (s - 1) * i + i /\ (s - 1) * i \in Int
        BY <1>t, Times
      <4> QED
        BY <1>t, <2>1, <2>2, <2>3, <3>1, <3>2, <4>1 DEF Pace
    <3>3. CASE stall' = [stall EXCEPT ![t] = [at |-> now, sent |-> 0]]
      <4>1. stall'[t].at = now /\ stall'[t].sent = 0
        BY <3>3 DEF PaceInv, PaceTypes
      <4> QED
        BY <1>t, <2>1, <2>2, <3>1, <4>1, Times DEF Pace
    <3> QED
      BY <2>1, <3>2, <3>3
  <2>5. PaceStep(t)
    <3> HIDE DEF next
    <3> QED
      BY <1>t, <2>1, <2>2, <2>4 DEF PaceStep
  <2> QED
    BY <2>5, ThreadKeepsPace
<1>7. CASE Extend(t) \/ StoreCounts(t)
  BY <1>7, QuietKeepsPace DEF Extend, StoreCounts, Goto, mixedVars, openLoopVars
<1> QED
  BY <1>1, <1>2, <1>3, <1>4, <1>5, <1>6, <1>7 DEF MixedThread

LEMMA TickKeepsPace ==
  ASSUME PaceInv, now' = now + 1, UNCHANGED <<env, pc, next_send, stall>>
  PROVE  PaceInv'
<1>1. now \in Nat /\ stall \in [Threads -> [at : Nat, sent : Nat]] /\ env \in Environments
  BY DEF PaceInv, PaceTypes
<1>2. ASSUME NEW t \in Threads PROVE Pace(t)'
  <2> DEFINE at == stall[t].at
             due == (stall[t].sent - 1) * env.interval
  <2>1. at \in Nat /\ due \in Int
    BY <1>1, IntervalType, Times
  <2>2. at <= now /\ due <= now - at
    BY DEF PaceInv, Pace
  <2>3. at <= now' /\ due <= now' - at
    <3> HIDE DEF at, due
    <3> QED
      BY <1>1, <2>1, <2>2
  <2> QED
    BY <2>3 DEF PaceInv, Pace
<1> QED
  BY <1>1, <1>2 DEF PaceInv, PaceTypes, Threads

LEMMA HandlerKeepsPace ==
  ASSUME PaceInv,
         \/ (Ping \/ Launch \/ Join \/ JoinsOver("returned") \/ JoinsOver("ops") \/ Tick)
            /\ UNCHANGED mixedVars
         \/ CountOps \/ CountErrors \/ CountSamples \/ UNCHANGED vars
  PROVE  PaceInv'
<1> USE DEF PaceInv, PaceTypes, Pace, Threads, threadVars, mixedVars, openLoopVars
<1>1. CASE (Ping \/ Join \/ JoinsOver("returned") \/ JoinsOver("ops")) /\ UNCHANGED mixedVars
  BY <1>1 DEF Ping, Join, JoinsOver
<1>2. CASE Launch /\ UNCHANGED mixedVars
  BY <1>2 DEF Launch
<1>3. CASE Tick /\ UNCHANGED mixedVars
  BY <1>3, TickKeepsPace DEF Tick
<1>4. CASE CountOps \/ CountErrors \/ CountSamples
  BY <1>4 DEF CountOps, CountErrors, CountSamples
<1>5. CASE UNCHANGED vars
  BY <1>5 DEF vars, runVars
<1> QED
  BY <1>1, <1>2, <1>3, <1>4, <1>5

LEMMA NextKeepsPace == PaceInv /\ [Next]_vars => PaceInv'
<1> SUFFICES ASSUME PaceInv, [Next]_vars PROVE PaceInv'
  OBVIOUS
<1>1. CASE \/ (CpuHandler \/ Tick) /\ UNCHANGED mixedVars
           \/ MixedHandler \/ Returned \/ UNCHANGED vars
  BY <1>1, HandlerKeepsPace DEF CpuHandler, MixedHandler, Returned
<1>2. CASE env.fn # "mixed" /\ (\E t \in Threads : CpuThread(t)) /\ UNCHANGED mixedVars
  BY <1>2, BurnKeepsPace
<1>3. CASE env.fn = "mixed" /\ \E t \in Threads : MixedThread(t)
  BY <1>3, OpenLoopKeepsPace
<1> QED
  BY <1>1, <1>2, <1>3 DEF Next, CpuNext, MixedNext

(* mixed_workload._worker: next_send is brought up to the time of a late   *)
(* answer, so that a thread never sends the batches it has missed.         *)
THEOREM NeverCatchesUp == Spec => []NoCatchUp
<1>1. PaceInv => NoCatchUp
  BY DEF PaceInv, Pace, NoCatchUp
<1> QED
  BY <1>1, InitPace, NextKeepsPace, PTL DEF Spec

-------------------------------------------------------------------------------
(* The deadline of the joins. *)

Joins == IF env.fn = "flat" THEN Len(env.phaseOf) ELSE 1

(* The handler waits for the thread numbered joining until joinBy, which   *)
(* the joins share, or, of a flat run, which each of them moves on.        *)
TimeInv ==
  /\ env \in Environments
  /\ now \in Nat /\ joining \in Nat \ {0} /\ joinBy \in Nat
  /\ handler \in {"ping", "launch"} => now = 0 /\ joining = 1
  /\ handler = "join" =>
       /\ now <= Deadline * Joins /\ now <= joinBy
       /\ joinBy <= (IF env.fn = "flat" THEN Deadline * joining ELSE Deadline)

LEMMA DeadlineType == env \in Environments => Deadline \in Nat
<1> SUFFICES ASSUME env \in Environments PROVE Deadline \in Nat
  OBVIOUS
<1>1. env.durations \in Seq(Nat) /\ Grace \in Nat
  BY RunAssumption
<1>2. Len(env.durations) \in Nat
      /\ \A p \in 1..(Len(env.durations) + 1 - 1) : env.durations[p] \in Nat
  BY <1>1
<1>3. IsFiniteSet(1..(Len(env.durations) + 1 - 1))
  BY <1>2, FS_Interval
<1>4. TotalDuration \in Nat
  BY <1>2, <1>3, SumNat DEF TotalDuration, PhaseStart
<1> QED BY <1>1, <1>4 DEF Deadline

LEMMA InitTime == Init => TimeInv
BY DEF Init, RunInit, TimeInv

LEMMA Multiples ==
  /\ \A d, n \in Nat : d * n \in Nat
  /\ \A d, m, n \in Nat : m <= n => d * m <= d * n
  /\ \A d, n \in Nat : d * (n + 1) = d * n + d
  /\ \A d \in Nat : d * 1 = d
OBVIOUS

LEMMA NextTime == TimeInv /\ [Next]_vars => TimeInv'
<1> SUFFICES ASSUME TimeInv, [Next]_vars PROVE TimeInv'
  OBVIOUS
<1> DEFINE D == Deadline
           N == Len(env.phaseOf)
<1>1. /\ D \in Nat /\ N \in Nat /\ Threads = 1..N
      /\ now \in Nat /\ joining \in Nat \ {0} /\ joinBy \in Nat /\ env \in Environments
  BY DeadlineType, RunAssumption DEF TimeInv, Threads
<1>2. env' = env
  BY DEF Next, CpuNext, CpuHandler, MixedNext, MixedHandler, Returned, vars, runVars, Tick,
         Ping, Launch, Join, JoinsOver, CountOps, CountErrors, CountSamples,
         CpuThread, ConnectOk, ConnectFails, PhaseBegins, BurnBegins, LoopEnds,
         BurnOk, BurnFails, DutySleep, SleepRaises, Resume, Except, Store,
         MixedThread, LoopBegins, LoopTest, Send, BatchOk, BatchFails, Extend, StoreCounts
<1>3. Deadline' = D /\ Joins' = Joins /\ Threads' = Threads
  BY <1>2 DEF Deadline, TotalDuration, PhaseStart, Joins, Threads
<1>4. CASE UNCHANGED <<now, handler, joining, joinBy>>
  BY <1>2, <1>3, <1>4 DEF TimeInv
<1>5. CASE Ping
  BY <1>2, <1>5 DEF Ping, TimeInv
<1>6. CASE Launch
  <2>1. now' = 0 /\ joining' = 1 /\ joinBy' = D /\ handler' = "join"
    BY <1>6 DEF Launch, TimeInv
  <2>2. 0 <= D * Joins /\ D * 1 = D
    BY <1>1, Multiples DEF Joins
  <2> QED BY <1>1, <1>2, <1>3, <2>1, <2>2 DEF TimeInv
<1>7. CASE Join
  <2>1. now' = now /\ joining' = joining + 1 /\ handler' = "join" /\ joinBy' = NextJoinBy
        /\ handler = "join"
    BY <1>7 DEF Join, JoinReady
  <2>2. now <= D * Joins /\ now <= joinBy
        /\ joinBy <= (IF env.fn = "flat" THEN D * joining ELSE D)
    BY <2>1 DEF TimeInv
  <2>3. /\ joinBy' \in Nat /\ now' <= joinBy'
        /\ joinBy' <= (IF env.fn = "flat" THEN D * (joining + 1) ELSE D)
    <3>1. CASE env.fn = "flat"
      <4>1. D * (joining + 1) = D * joining + D /\ D * joining \in Nat
        BY <1>1, Multiples
      <4>2. joinBy' = now + D /\ joinBy <= D * joining
        BY <2>1, <2>2, <3>1 DEF NextJoinBy
      <4> HIDE DEF D
      <4> QED BY <1>1, <2>1, <2>2, <3>1, <4>1, <4>2
    <3>2. CASE env.fn # "flat"
      BY <1>1, <2>1, <2>2, <3>2 DEF NextJoinBy
    <3> QED BY <3>1, <3>2
  <2> HIDE DEF D
  <2> QED BY <1>1, <1>2, <1>3, <2>1, <2>2, <2>3 DEF TimeInv
<1>8. CASE Tick
  <2>1. now' = now + 1 /\ UNCHANGED <<handler, joining, joinBy>> /\ handler = "join"
        /\ joining \in Threads /\ now < joinBy
    BY <1>1, <1>8 DEF Tick, JoinReady, handlerVars
  <2>2. joinBy <= (IF env.fn = "flat" THEN D * joining ELSE D)
    BY <2>1 DEF TimeInv
  <2>3. joinBy <= D * Joins
    <3>1. CASE env.fn = "flat"
      <4>1. joining \in Nat /\ joining <= N /\ Joins = N
        BY <1>1, <2>1, <3>1 DEF Joins
      <4>2. D * joining <= D * N /\ D * joining \in Nat /\ D * N \in Nat
        BY <1>1, <4>1, Multiples
      <4> HIDE DEF D, N
      <4> QED BY <1>1, <2>2, <3>1, <4>1, <4>2
    <3>2. CASE env.fn # "flat"
      BY <1>1, <2>2, <3>2, Multiples DEF Joins
    <3> QED BY <3>1, <3>2
  <2>4. D * Joins \in Nat
    BY <1>1, Multiples DEF Joins
  <2>5. now' <= joinBy' /\ now' <= D * Joins /\ now' \in Nat
    <3> DEFINE c == D * Joins
    <3> HIDE DEF c
    <3> QED BY <1>1, <2>1, <2>3, <2>4 DEF c
  <2> QED BY <1>1, <1>2, <1>3, <2>1, <2>2, <2>5 DEF TimeInv
<1>9. CASE JoinsOver("returned") \/ JoinsOver("ops")
  BY <1>2, <1>9 DEF JoinsOver, TimeInv
<1>10. CASE CountOps \/ CountErrors \/ CountSamples
  BY <1>2, <1>10 DEF CountOps, CountErrors, CountSamples, TimeInv
<1>11. CASE Returned \/ UNCHANGED vars
  BY <1>4, <1>11 DEF Returned, vars, runVars, handlerVars
<1>12. ASSUME NEW t \in Threads, CpuThread(t) \/ MixedThread(t)
       PROVE  TimeInv'
  <2>1. UNCHANGED <<now, handler, joining, joinBy>>
    BY <1>12
    DEF CpuThread, ConnectOk, ConnectFails, PhaseBegins, BurnBegins, LoopEnds,
        BurnOk, BurnFails, DutySleep, SleepRaises, Resume, Except, Store,
        MixedThread, LoopBegins, LoopTest, Send, BatchOk, BatchFails, Extend, StoreCounts,
        handlerVars
  <2> QED BY <1>4, <2>1
<1> QED
  BY <1>5, <1>6, <1>7, <1>8, <1>9, <1>10, <1>11, <1>12
  DEF Next, CpuNext, CpuHandler, MixedNext, MixedHandler

(* lambda_handler of cpu_stress and mixed_workload: the threads of the     *)
(* phases are joined within one deadline however many of them hang; those  *)
(* of the flat mode within one for each.                                   *)
THEOREM HandlerReturnsInTime == Spec => []ReturnsInTime
<1>1. TimeInv => ReturnsInTime
  BY DEF TimeInv, ReturnsInTime, Joins
<1> QED BY <1>1, InitTime, NextTime, PTL DEF Spec

-------------------------------------------------------------------------------
(* The report of the mixed workload. *)

Slots == [kind : {"none", "ok", "error"}, ops : Nat, errs : Nat]
Reports == [ops : Nat, errs : Nat, samples : Nat]
Reporting == {"ops", "errors", "samples"}

MixTypes ==
  /\ env \in Environments
  /\ handler \in {"ping", "launch", "join", "returned"} \cup Reporting
  /\ pc = [t \in Threads |-> pc[t]]
  /\ {ops, errs, kept} \subseteq [Threads -> Nat]
  /\ slot \in [Threads -> Slots]
  /\ extended \in [Phases -> Nat]
  /\ report \in [Phases -> Reports]
  /\ reporting \in Nat \ {0}

Batches(t) == ops[t] \div env.pipeline

(* A sample for each batch that was counted, up to the limit; what a       *)
(* thread has counted is in its slot when it is over, and nothing before;  *)
(* while the report is made only the late threads still run.               *)
CountInv(t) ==
  /\ ops[t] = env.pipeline * Batches(t)
  /\ kept[t] = Fewer(Batches(t) + errs[t], MaxSamples)
  /\ pc[t] \in {"unborn", "connect", "wait", "pause"} => ops[t] = 0 /\ errs[t] = 0
  /\ slot[t].ops = (IF pc[t] = "done" THEN ops[t] ELSE 0)
  /\ slot[t].errs = (IF pc[t] = "done" THEN errs[t] ELSE 0)
  /\ pc[t] # "dead"
  /\ handler \in Reporting => t \in late \/ pc[t] = "done"

(* The samples a thread has handed over. *)
Handed(t) == IF pc[t] \in {"finally", "done"} THEN kept[t] ELSE 0

OpsOf(p) == SumFunctionOnSet(ops, InPhase(p))
ErrsOf(p) == SumFunctionOnSet(errs, InPhase(p))
KeptOf(p) == SumFunctionOnSet(kept, InPhase(p))
HandedOf(p) == SumFunctionOnSet([t \in Threads |-> Handed(t)], InPhase(p))
SlotOps(p) == SumFunctionOnSet([t \in Threads |-> slot[t].ops], InPhase(p))
SlotErrs(p) == SumFunctionOnSet([t \in Threads |-> slot[t].errs], InPhase(p))

NoneLate(p) == InPhase(p) \cap late = {}

(* A phase whose report is made, and one whose report is being made.       *)
Accounted(p) ==
  /\ Fewer(report[p].ops \div env.pipeline + report[p].errs, MaxSamples) <= report[p].samples
  /\ NoneLate(p) => report[p] = [ops |-> OpsOf(p), errs |-> ErrsOf(p), samples |-> KeptOf(p)]

PhaseInv(p) ==
  /\ extended[p] = HandedOf(p)
  /\ p < reporting => Accounted(p)
  /\ p = reporting /\ handler \in {"errors", "samples"} =>
       report[p].ops <= SlotOps(p) /\ (NoneLate(p) => report[p].ops = OpsOf(p))
  /\ p = reporting /\ handler = "samples" =>
       report[p].errs <= SlotErrs(p) /\ (NoneLate(p) => report[p].errs = ErrsOf(p))

MixInv ==
  /\ MixTypes
  /\ handler \in {"ping", "launch"} => \A t \in Threads : pc[t] = "unborn"
  /\ handler \in {"ping", "launch", "join"} => reporting = 1
  /\ handler \in Reporting => reporting \in Phases
  /\ \A t \in Threads : CountInv(t)
  /\ \A p \in Phases : PhaseInv(p)

ReportInv == IF env.fn = "mixed" THEN MixInv ELSE env \in Environments /\ reporting = 1

LEMMA Settings ==
  ASSUME env \in Environments
  PROVE  /\ env.pipeline \in Nat \ {0} /\ MaxSamples \in Nat
         /\ 1 \in Phases
         /\ \A t \in Threads : env.phaseOf[t] \in Phases
         /\ \A p : IsFiniteSet(InPhase(p)) /\ InPhase(p) \subseteq Threads
<1>1. /\ env.pipeline \in Nat \ {0} /\ MaxSamples \in Nat
      /\ env.durations \in Seq(Nat) /\ env.durations # <<>>
      /\ env.phaseOf \in Seq(DOMAIN env.durations)
  BY RunAssumption, MixedAssumption
<1>2. Len(env.phaseOf) \in Nat /\ Threads = 1..Len(env.phaseOf)
  BY <1>1 DEF Threads
<1>3. IsFiniteSet(Threads)
  BY <1>2, FS_Interval
<1>4. \A p : IsFiniteSet(InPhase(p)) /\ InPhase(p) \subseteq Threads
  BY <1>3, FS_Subset DEF InPhase
<1>5. 1 \in Phases
  BY <1>1 DEF Phases
<1>6. \A t \in Threads : env.phaseOf[t] \in Phases
  BY <1>1 DEF Threads, Phases
<1> QED BY <1>1, <1>4, <1>5, <1>6

LEMMA PhaseNumbers ==
  ASSUME env \in Environments
  PROVE  \A p \in Phases : p \in Nat \ {0}
<1>1. env.durations \in Seq(Nat)
  BY RunAssumption
<1>2. Phases = 1..Len(env.durations) /\ Len(env.durations) \in Nat
  BY <1>1 DEF Phases
<1> QED BY <1>2

(* What the step of one thread may change. *)
MixStep(t) ==
  /\ UNCHANGED <<env, handler, late, report, reporting>>
  /\ handler # "returned" /\ pc[t] \notin {"unborn", "done"}
  /\ \E p : pc' = [pc EXCEPT ![t] = p]
  /\ ops' = ops \/ \E n \in Nat : ops' = [ops EXCEPT ![t] = n]
  /\ errs' = errs \/ \E n \in Nat : errs' = [errs EXCEPT ![t] = n]
  /\ kept' = kept \/ \E n \in Nat : kept' = [kept EXCEPT ![t] = n]
  /\ slot' = slot \/ \E r \in Slots : slot' = [slot EXCEPT ![t] = r]
  /\ \/ extended' = extended /\ Handed(t)' = Handed(t)
     \/ /\ extended' = [extended EXCEPT ![env.phaseOf[t]] = @ + kept[t]]
        /\ Handed(t)' = Handed(t) + kept[t]
  /\ CountInv(t)'

LEMMA MixFrame ==
  ASSUME MixInv, NEW t \in Threads, MixStep(t)
  PROVE  /\ MixTypes' /\ Threads' = Threads /\ \A p : InPhase(p)' = InPhase(p)
         /\ \A u \in Threads \ {t} :
              /\ pc'[u] = pc[u] /\ ops'[u] = ops[u] /\ errs'[u] = errs[u] /\ kept'[u] = kept[u]
              /\ slot'[u] = slot[u]
<1>1. Threads' = Threads /\ Phases' = Phases /\ \A p : InPhase(p)' = InPhase(p)
  BY DEF MixStep, Threads, Phases, InPhase
<1>2. /\ env \in Environments /\ pc = [u \in Threads |-> pc[u]]
      /\ ops \in [Threads -> Nat] /\ errs \in [Threads -> Nat] /\ kept \in [Threads -> Nat]
      /\ slot \in [Threads -> Slots] /\ extended \in [Phases -> Nat]
  BY DEF MixInv, MixTypes
<1>3. env.phaseOf[t] \in Phases /\ kept[t] \in Nat
  BY <1>2, Settings
<1>4. pc' = [u \in Threads |-> pc'[u]] /\ \A u \in Threads \ {t} : pc'[u] = pc[u]
  BY <1>2 DEF MixStep
<1>5. ops' \in [Threads -> Nat] /\ \A u \in Threads \ {t} : ops'[u] = ops[u]
  BY <1>2 DEF MixStep
<1>6. errs' \in [Threads -> Nat] /\ \A u \in Threads \ {t} : errs'[u] = errs[u]
  BY <1>2 DEF MixStep
<1>7. kept' \in [Threads -> Nat] /\ \A u \in Threads \ {t} : kept'[u] = kept[u]
  BY <1>2 DEF MixStep
<1>8. slot' \in [Threads -> Slots] /\ \A u \in Threads \ {t} : slot'[u] = slot[u]
  BY <1>2 DEF MixStep
<1>9. extended' \in [Phases -> Nat]
  <2>1. extended[env.phaseOf[t]] + kept[t] \in Nat
    BY <1>2, <1>3
  <2> QED BY <1>2, <1>3, <2>1 DEF MixStep
<1>10. /\ env' \in Environments
       /\ handler' \in {"ping", "launch", "join", "returned"} \cup Reporting
       /\ report' \in [Phases -> Reports] /\ reporting' \in Nat \ {0}
  BY DEF MixInv, MixTypes, MixStep
<1>11. MixTypes'
  BY <1>1, <1>4, <1>5, <1>6, <1>7, <1>8, <1>9, <1>10 DEF MixTypes
<1> QED BY <1>1, <1>4, <1>5, <1>6, <1>7, <1>8, <1>11

(* A phase none of whose threads takes a step keeps its sums. *)
LEMMA SameSums ==
  ASSUME MixInv, NEW t \in Threads, MixStep(t), NEW p \in Phases, t \notin InPhase(p)
  PROVE  /\ OpsOf(p)' = OpsOf(p) /\ ErrsOf(p)' = ErrsOf(p) /\ KeptOf(p)' = KeptOf(p)
         /\ HandedOf(p)' = HandedOf(p)
         /\ SlotOps(p)' = SlotOps(p) /\ SlotErrs(p)' = SlotErrs(p)
<1>1. env \in Environments
  BY DEF MixInv, MixTypes
<1>2. /\ IsFiniteSet(InPhase(p)) /\ InPhase(p)' = InPhase(p) /\ Threads' = Threads
      /\ InPhase(p) \subseteq Threads
  BY <1>1, Settings, MixFrame
<1>3. \A u \in InPhase(p) :
        /\ ops'[u] = ops[u] /\ errs'[u] = errs[u] /\ kept'[u] = kept[u]
        /\ slot'[u] = slot[u] /\ pc'[u] = pc[u]
  BY <1>2, MixFrame
<1>4. OpsOf(p)' = OpsOf(p)
  BY <1>2, <1>3, SumAgree DEF OpsOf
<1>5. ErrsOf(p)' = ErrsOf(p)
  BY <1>2, <1>3, SumAgree DEF ErrsOf
<1>6. KeptOf(p)' = KeptOf(p)
  BY <1>2, <1>3, SumAgree DEF KeptOf
<1>7. HandedOf(p)' = HandedOf(p)
  <2> DEFINE f == [u \in Threads |-> Handed(u)]
             e == [u \in Threads' |-> Handed(u)']
  <2>1. \A u \in InPhase(p) : e[u] = f[u]
    BY <1>2, <1>3 DEF Handed
  <2>2. SumFunctionOnSet(e, InPhase(p)) = SumFunctionOnSet(f, InPhase(p))
    <3> HIDE DEF e, f
    <3> QED BY <1>2, <2>1, SumAgree
  <2> QED BY <1>2, <2>2 DEF HandedOf
<1>8. SlotOps(p)' = SlotOps(p)
  <2> DEFINE f == [u \in Threads |-> slot[u].ops]
             e == [u \in Threads' |-> slot'[u].ops]
  <2>1. \A u \in InPhase(p) : e[u] = f[u]
    BY <1>2, <1>3
  <2>2. SumFunctionOnSet(e, InPhase(p)) = SumFunctionOnSet(f, InPhase(p))
    <3> HIDE DEF e, f
    <3> QED BY <1>2, <2>1, SumAgree
  <2> QED BY <1>2, <2>2 DEF SlotOps
<1>9. SlotErrs(p)' = SlotErrs(p)
  <2> DEFINE f == [u \in Threads |-> slot[u].errs]
             e == [u \in Threads' |-> slot'[u].errs]
  <2>1. \A u \in InPhase(p) : e[u] = f[u]
    BY <1>2, <1>3
  <2>2. SumFunctionOnSet(e, InPhase(p)) = SumFunctionOnSet(f, InPhase(p))
    <3> HIDE DEF e, f
    <3> QED BY <1>2, <2>1, SumAgree
  <2> QED BY <1>2, <2>2 DEF SlotErrs
<1> QED BY <1>4, <1>5, <1>6, <1>7, <1>8, <1>9

(* In its own phase it adds what it hands over, and its slot only grows. *)
LEMMA OwnSums ==
  ASSUME MixInv, NEW t \in Threads, MixStep(t), NEW p \in Phases, t \in InPhase(p)
  PROVE  /\ HandedOf(p)' = HandedOf(p) + (Handed(t)' - Handed(t))
         /\ SlotOps(p)' \in Nat /\ SlotOps(p) \in Nat /\ SlotOps(p)' >= SlotOps(p)
         /\ SlotErrs(p)' \in Nat /\ SlotErrs(p) \in Nat /\ SlotErrs(p)' >= SlotErrs(p)
<1>1. /\ env \in Environments /\ kept \in [Threads -> Nat]
      /\ kept' \in [Threads' -> Nat] /\ slot \in [Threads -> Slots]
      /\ slot' \in [Threads' -> Slots]
  <2>1. MixTypes'
    BY MixFrame
  <2> QED BY <2>1 DEF MixInv, MixTypes
<1>2. /\ IsFiniteSet(InPhase(p)) /\ InPhase(p)' = InPhase(p) /\ Threads' = Threads
      /\ InPhase(p) \subseteq Threads
  BY <1>1, Settings, MixFrame
<1>3. \A u \in InPhase(p) \ {t} :
        slot'[u] = slot[u] /\ pc'[u] = pc[u] /\ kept'[u] = kept[u]
  BY <1>2, MixFrame
<1>4. HandedOf(p)' = HandedOf(p) + (Handed(t)' - Handed(t))
  <2> DEFINE f == [u \in Threads |-> Handed(u)]
             e == [u \in Threads' |-> Handed(u)']
  <2>1. \A u \in InPhase(p) : f[u] \in Int /\ e[u] \in Int
    BY <1>1, <1>2 DEF Handed
  <2>2. \A u \in InPhase(p) \ {t} : e[u] = f[u]
    BY <1>2, <1>3 DEF Handed
  <2>3. f[t] = Handed(t) /\ e[t] = Handed(t)'
    BY <1>2
  <2>4. SumFunctionOnSet(e, InPhase(p)) = SumFunctionOnSet(f, InPhase(p)) + (e[t] - f[t])
    <3> HIDE DEF e, f
    <3> QED BY <1>2, <2>1, <2>2, SumChange
  <2> QED BY <1>2, <2>3, <2>4 DEF HandedOf
<1>5. slot[t].ops = 0 /\ slot[t].errs = 0
  BY DEF MixInv, CountInv, MixStep
<1>6. \A u \in Threads : /\ slot[u].ops \in Nat /\ slot[u].errs \in Nat
                         /\ slot'[u].ops \in Nat /\ slot'[u].errs \in Nat
  BY <1>1, <1>2 DEF Slots
<1>7. SlotOps(p)' \in Nat /\ SlotOps(p) \in Nat /\ SlotOps(p)' >= SlotOps(p)
  <2> DEFINE f == [u \in Threads |-> slot[u].ops]
             e == [u \in Threads' |-> slot'[u].ops]
  <2>1. \A u \in InPhase(p) : f[u] \in Nat /\ e[u] \in Nat /\ f[u] <= e[u]
    BY <1>2, <1>3, <1>5, <1>6
  <2>2. /\ SumFunctionOnSet(e, InPhase(p)) \in Nat /\ SumFunctionOnSet(f, InPhase(p)) \in Nat
        /\ SumFunctionOnSet(f, InPhase(p)) <= SumFunctionOnSet(e, InPhase(p))
    <3> HIDE DEF e, f
    <3>1. \A u \in InPhase(p) : f[u] \in Int /\ e[u] \in Int /\ f[u] <= e[u]
      BY <2>1
    <3> QED BY <1>2, <2>1, <3>1, SumMonotone, SumNat
  <2>3. SlotOps(p) = SumFunctionOnSet(f, InPhase(p)) /\ SlotOps(p)' = SumFunctionOnSet(e, InPhase(p))
    BY <1>2 DEF SlotOps
  <2> HIDE DEF e, f
  <2> QED BY <2>2, <2>3
<1>8. SlotErrs(p)' \in Nat /\ SlotErrs(p) \in Nat /\ SlotErrs(p)' >= SlotErrs(p)
  <2> DEFINE f == [u \in Threads |-> slot[u].errs]
             e == [u \in Threads' |-> slot'[u].errs]
  <2>1. \A u \in InPhase(p) : f[u] \in Nat /\ e[u] \in Nat /\ f[u] <= e[u]
    BY <1>2, <1>3, <1>5, <1>6
  <2>2. /\ SumFunctionOnSet(e, InPhase(p)) \in Nat /\ SumFunctionOnSet(f, InPhase(p)) \in Nat
        /\ SumFunctionOnSet(f, InPhase(p)) <= SumFunctionOnSet(e, InPhase(p))
    <3> HIDE DEF e, f
    <3>1. \A u \in InPhase(p) : f[u] \in Int /\ e[u] \in Int /\ f[u] <= e[u]
      BY <2>1
    <3> QED BY <1>2, <2>1, <3>1, SumMonotone, SumNat
  <2>3. SlotErrs(p) = SumFunctionOnSet(f, InPhase(p)) /\ SlotErrs(p)' = SumFunctionOnSet(e, InPhase(p))
    BY <1>2 DEF SlotErrs
  <2> HIDE DEF e, f
  <2> QED BY <2>2, <2>3
<1> QED BY <1>4, <1>7, <1>8

LEMMA MixKeeps ==
  ASSUME env.fn = "mixed", MixInv, NEW t \in Threads, MixStep(t)
  PROVE  MixInv'
<1>1. /\ MixTypes' /\ Threads' = Threads /\ Phases' = Phases
      /\ \A p : InPhase(p)' = InPhase(p)
      /\ UNCHANGED <<env, handler, late, report, reporting>>
  BY MixFrame DEF MixStep, Phases
<1>2. handler \notin {"ping", "launch"}
  BY DEF MixInv, MixStep
<1>3. \A u \in Threads : CountInv(u)'
  <2>1. ASSUME NEW u \in Threads \ {t}
        PROVE  CountInv(u)'
    <3>1. /\ pc'[u] = pc[u] /\ ops'[u] = ops[u] /\ errs'[u] = errs[u] /\ kept'[u] = kept[u]
          /\ slot'[u] = slot[u]
      BY MixFrame
    <3>2. CountInv(u)
      BY DEF MixInv
    <3> QED BY <1>1, <3>1, <3>2 DEF CountInv, Batches
  <2> QED BY <2>1 DEF MixStep
<1>4. ASSUME NEW p \in Phases
      PROVE  PhaseInv(p)'
  <2>1. PhaseInv(p) /\ NoneLate(p)' = NoneLate(p) /\ extended[p] \in Nat
        /\ env.phaseOf[t] \in Phases /\ kept[t] \in Nat /\ extended \in [Phases -> Nat]
    <3>1. env \in Environments
      BY DEF MixInv, MixTypes
    <3> QED BY <1>1, <3>1, Settings DEF MixInv, MixTypes, NoneLate
  <2>2. CASE t \notin InPhase(p)
    <3>1. extended'[p] = extended[p]
      BY <2>1, <2>2 DEF MixStep, InPhase
    <3> QED BY <1>1, <2>1, <2>2, <3>1, SameSums DEF PhaseInv, Accounted
  <2>3. CASE t \in InPhase(p)
    <3>1. extended'[p] = HandedOf(p)'
      <4>1. env.phaseOf[t] = p
        BY <2>3 DEF InPhase
      <4>2. extended[p] = HandedOf(p)
        BY <2>1 DEF PhaseInv
      <4>3. HandedOf(p)' = HandedOf(p) + (Handed(t)' - Handed(t))
        BY <2>3, OwnSums
      <4>4. Handed(t) \in Nat
        BY <2>1 DEF Handed
      <4>5. extended'[p] = extended[p] + (Handed(t)' - Handed(t))
        BY <2>1, <4>1, <4>4 DEF MixStep
      <4> QED BY <4>2, <4>3, <4>5
    <3>2. handler \in Reporting => ~ NoneLate(p)
      <4> SUFFICES ASSUME handler \in Reporting PROVE ~ NoneLate(p)
        OBVIOUS
      <4>1. t \in late \/ pc[t] = "done"
        BY DEF MixInv, CountInv
      <4>2. pc[t] # "done"
        BY DEF MixStep
      <4> QED BY <2>3, <4>1, <4>2 DEF NoneLate
    <3>3. handler \in Reporting \/ reporting = 1
      BY DEF MixInv, MixTypes, MixStep
    <3>4. p \in Nat /\ p >= 1
      <4>1. env \in Environments
        BY DEF MixInv, MixTypes
      <4>2. p \in Nat \ {0}
        BY <4>1, PhaseNumbers
      <4> QED BY <4>2
    <3>5. p < reporting => Accounted(p)'
      <4> SUFFICES ASSUME p < reporting PROVE Accounted(p)'
        OBVIOUS
      <4>1. Accounted(p) /\ ~ NoneLate(p)'
        <5>1. reporting # 1
          BY <3>4
        <5>2. ~ NoneLate(p)
          BY <3>2, <3>3, <5>1
        <5> QED BY <2>1, <5>2 DEF PhaseInv
      <4>2. UNCHANGED <<report, env>>
        BY <1>1
      <4> QED BY <4>1, <4>2 DEF Accounted
    <3>6. p = reporting /\ handler \in {"errors", "samples"} => report[p].ops <= SlotOps(p)'
      <4>1. report[p].ops \in Nat
        BY DEF MixInv, MixTypes, Reports
      <4> QED BY <2>1, <2>3, <4>1, OwnSums DEF PhaseInv
    <3>7. p = reporting /\ handler = "samples" => report[p].errs <= SlotErrs(p)'
      <4>1. report[p].errs \in Nat
        BY DEF MixInv, MixTypes, Reports
      <4> QED BY <2>1, <2>3, <4>1, OwnSums DEF PhaseInv
    <3> QED BY <1>1, <2>1, <3>1, <3>2, <3>5, <3>6, <3>7 DEF PhaseInv, Reporting
  <2> QED BY <2>2, <2>3
<1> QED BY <1>1, <1>2, <1>3, <1>4 DEF MixInv
(* The arithmetic of batches. *)
LEMMA BatchArithmetic ==
  ASSUME NEW k \in Nat \ {0}
  PROVE  /\ \A a \in Nat : a \div k \in Nat
         /\ \A a, b \in Nat : a = k * b => a \div k = b
         /\ \A a, b \in Nat : a <= b => a \div k <= b \div k
         /\ \A a, b \in Nat : a <= k * b => a \div k <= b
         /\ \A b \in Nat : k * b + k = k * (b + 1)
OBVIOUS

LEMMA MixFacts ==
  ASSUME MixInv, NEW t \in Threads
  PROVE  /\ pc = [u \in Threads |-> pc[u]]
         /\ ops \in [Threads -> Nat] /\ errs \in [Threads -> Nat]
         /\ kept \in [Threads -> Nat] /\ slot \in [Threads -> Slots]
         /\ ops[t] \in Nat /\ errs[t] \in Nat /\ kept[t] \in Nat
         /\ env.pipeline \in Nat \ {0} /\ MaxSamples \in Nat /\ env \in Environments
         /\ CountInv(t)
         /\ pc[t] # "unborn" => handler \notin {"ping", "launch"}
BY Settings DEF MixInv, MixTypes

(* A step that moves the thread on and counts nothing. *)
LEMMA QuietMixStep ==
  ASSUME MixInv, NEW t \in Threads,
         pc[t] \notin {"unborn", "extend", "finally", "done"}, handler # "returned",
         NEW l, pc' = [pc EXCEPT ![t] = l], l \notin {"unborn", "finally", "done", "dead"},
         l \in {"connect", "wait", "pause"} => pc[t] \in {"connect", "wait", "pause"},
         UNCHANGED <<env, handler, late, report, reporting, ops, errs, kept, slot, extended>>
  PROVE  MixStep(t)
<1>1. pc'[t] = l
  BY MixFacts
<1>2. Handed(t)' = Handed(t)
  BY <1>1 DEF Handed
<1>3. CountInv(t)'
  BY <1>1, MixFacts DEF CountInv, Batches, Reporting
<1> QED BY <1>2, <1>3 DEF MixStep

LEMMA QuietThreads ==
  ASSUME env.fn = "mixed", MixInv, NEW t \in Threads,
         \/ (ConnectOk(t) \/ PhaseBegins(t)) /\ UNCHANGED mixedVars
         \/ LoopBegins(t) \/ LoopTest(t) \/ Send(t)
  PROVE  MixStep(t)
<1> USE DEF AtStep, Goto, handlerVars, mixedVars, openLoopVars, reportVars
<1>1. CASE ConnectOk(t) /\ UNCHANGED mixedVars
  BY <1>1, QuietMixStep DEF ConnectOk
<1>2. CASE PhaseBegins(t) /\ UNCHANGED mixedVars
  BY <1>2, QuietMixStep DEF PhaseBegins
<1>3. CASE LoopBegins(t)
  BY <1>3, QuietMixStep DEF LoopBegins
<1>4. CASE LoopTest(t)
  <2>1. PICK l : l = IF now < EndOf(t) THEN "due" ELSE "extend"
    OBVIOUS
  <2>2. l \in {"due", "extend"} /\ pc' = [pc EXCEPT ![t] = l]
    BY <1>4, <2>1 DEF LoopTest
  <2> QED BY <1>4, <2>2, QuietMixStep DEF LoopTest
<1>5. CASE Send(t)
  BY <1>5, QuietMixStep DEF Send
<1> QED BY <1>1, <1>2, <1>3, <1>4, <1>5

LEMMA FailedConnect ==
  ASSUME env.fn = "mixed", MixInv, NEW t \in Threads,
         ConnectFails(t), UNCHANGED mixedVars
  PROVE  MixStep(t)
<1> USE DEF handlerVars, mixedVars, openLoopVars, reportVars
<1>1. /\ pc[t] = "connect" /\ handler # "returned" /\ pc' = [pc EXCEPT ![t] = "done"]
      /\ slot' = [slot EXCEPT ![t] = ErrorSlot]
      /\ UNCHANGED <<env, handler, late, report, reporting, ops, errs, kept, extended>>
  BY DEF ConnectFails, AtStep, Goto
<1>2. pc'[t] = "done" /\ slot'[t] = ErrorSlot /\ ErrorSlot \in Slots
  BY <1>1, MixFacts DEF ErrorSlot, Slots
<1>3. ops[t] = 0 /\ errs[t] = 0
  BY <1>1, MixFacts DEF CountInv
<1>4. kept[t] = 0
  <2>1. 0 \div env.pipeline = 0
    <3>1. env.pipeline \in Nat \ {0} /\ 0 = env.pipeline * 0
      BY MixFacts
    <3> QED BY <3>1, BatchArithmetic
  <2> QED BY <1>3, <2>1, MixFacts DEF CountInv, Batches, Fewer
<1>5. Handed(t)' = Handed(t)
  BY <1>1, <1>2, <1>4 DEF Handed
<1>6. CountInv(t)'
  BY <1>1, <1>2, <1>3, MixFacts DEF CountInv, Batches, ErrorSlot, Reporting
<1> QED BY <1>1, <1>2, <1>5, <1>6 DEF MixStep

LEMMA SampleStep ==
  ASSUME MixInv, NEW t \in Threads, BatchOk(t) \/ BatchFails(t)
  PROVE  MixStep(t)
<1> USE DEF handlerVars, reportVars
<1>1. /\ pc[t] = "sent" /\ handler # "returned" /\ pc' = [pc EXCEPT ![t] = "loop"]
      /\ kept' = [kept EXCEPT ![t] = Fewer(kept[t] + 1, MaxSamples)]
      /\ UNCHANGED <<env, handler, late, report, reporting, slot, extended>>
  BY DEF BatchOk, BatchFails, AtStep, Goto, Sample
<1>2. /\ ops[t] \in Nat /\ errs[t] \in Nat /\ kept[t] \in Nat /\ Batches(t) \in Nat
      /\ env.pipeline \in Nat \ {0} /\ MaxSamples \in Nat
  BY MixFacts, BatchArithmetic DEF Batches
<1>3. pc'[t] = "loop" /\ kept'[t] = Fewer(kept[t] + 1, MaxSamples) /\ kept'[t] \in Nat
  BY <1>1, <1>2, MixFacts DEF Fewer
<1>4. Handed(t)' = Handed(t)
  BY <1>1, <1>3 DEF Handed
<1>5. PICK n \in Nat : n = Fewer(kept[t] + 1, MaxSamples)
  BY <1>2 DEF Fewer
<1>6. \E k \in Nat : kept' = [kept EXCEPT ![t] = k]
  BY <1>1, <1>5
<1>7. CASE BatchOk(t)
  <2>1. ops' = [ops EXCEPT ![t] = ops[t] + env.pipeline] /\ errs' = errs
    BY <1>7 DEF BatchOk
  <2>2. ops'[t] = ops[t] + env.pipeline /\ ops[t] + env.pipeline \in Nat
    BY <1>2, <2>1, MixFacts
  <2>3. ops'[t] = env.pipeline * (Batches(t) + 1)
    BY <1>2, <2>2, MixFacts, BatchArithmetic DEF CountInv
  <2>4. Batches(t)' = Batches(t) + 1
    <3>1. \A a, b \in Nat : a = env.pipeline * b => a \div env.pipeline = b
      BY <1>2, BatchArithmetic
    <3>2. ops'[t] \div env.pipeline = Batches(t) + 1
      BY <1>2, <2>2, <2>3, <3>1
    <3> QED BY <1>1, <3>2 DEF Batches
  <2>5. CountInv(t)'
    <3>1. (ops[t] = env.pipeline * Batches(t))'
      BY <1>1, <2>3, <2>4
    <3>2. (kept[t] = Fewer(Batches(t) + errs[t], MaxSamples))'
      BY <1>2, <1>3, <2>1, <2>4, MixFacts DEF CountInv, Fewer
    <3> QED BY <1>1, <1>3, <3>1, <3>2, MixFacts DEF CountInv, Reporting
  <2>6. \E k \in Nat : ops' = [ops EXCEPT ![t] = k]
    BY <2>1, <2>2
  <2> QED BY <1>1, <1>4, <1>6, <2>1, <2>5, <2>6 DEF MixStep
<1>8. CASE BatchFails(t)
  <2>1. errs' = [errs EXCEPT ![t] = errs[t] + 1] /\ ops' = ops
    BY <1>8 DEF BatchFails
  <2>2. errs'[t] = errs[t] + 1 /\ errs[t] + 1 \in Nat
    BY <1>2, <2>1, MixFacts
  <2>3. Batches(t)' = Batches(t)
    BY <1>1, <2>1 DEF Batches
  <2>4. CountInv(t)'
    BY <1>1, <1>2, <1>3, <2>1, <2>2, <2>3, MixFacts DEF CountInv, Fewer, Reporting
  <2>5. \E k \in Nat : errs' = [errs EXCEPT ![t] = k]
    BY <2>1, <2>2
  <2> QED BY <1>1, <1>4, <1>6, <2>1, <2>4, <2>5 DEF MixStep
<1> QED BY <1>7, <1>8

LEMMA LastSteps ==
  ASSUME MixInv, NEW t \in Threads, Extend(t) \/ StoreCounts(t)
  PROVE  MixStep(t)
<1> USE DEF handlerVars, mixedVars, openLoopVars, reportVars
<1>1. CASE Extend(t)
  <2>1. /\ pc[t] = "extend" /\ handler # "returned" /\ pc' = [pc EXCEPT ![t] = "finally"]
        /\ extended' = [extended EXCEPT ![env.phaseOf[t]] = @ + kept[t]]
        /\ UNCHANGED <<env, handler, late, report, reporting, ops, errs, kept, slot>>
    BY <1>1 DEF Extend, AtStep, Goto
  <2>2. pc'[t] = "finally"
    BY <2>1, MixFacts
  <2>3. Handed(t)' = Handed(t) + kept[t]
    BY <2>1, <2>2, MixFacts DEF Handed
  <2>4. CountInv(t)'
    BY <2>1, <2>2, MixFacts DEF CountInv, Batches, Reporting
  <2> QED BY <2>1, <2>3, <2>4 DEF MixStep
<1>2. CASE StoreCounts(t)
  <2>1. PICK r : r = [kind |-> "ok", ops |-> ops[t], errs |-> errs[t]]
    OBVIOUS
  <2>2. /\ pc[t] = "finally" /\ handler # "returned" /\ pc' = [pc EXCEPT ![t] = "done"]
        /\ slot' = [slot EXCEPT ![t] = r]
        /\ UNCHANGED <<env, handler, late, report, reporting, ops, errs, kept, extended>>
    BY <1>2, <2>1 DEF StoreCounts, AtStep, Goto
  <2>3. pc'[t] = "done" /\ slot'[t] = r /\ r \in Slots
    BY <2>1, <2>2, MixFacts DEF Slots
  <2>4. Handed(t)' = Handed(t)
    BY <2>2, <2>3 DEF Handed
  <2>5. CountInv(t)'
    BY <2>1, <2>2, <2>3, MixFacts DEF CountInv, Batches, Reporting
  <2> QED BY <2>2, <2>3, <2>4, <2>5 DEF MixStep
<1> QED BY <1>1, <1>2

LEMMA MixedThreadStep ==
  ASSUME env.fn = "mixed", MixInv, NEW t \in Threads, MixedThread(t)
  PROVE  MixStep(t)
BY QuietThreads, FailedConnect, SampleStep, LastSteps DEF MixedThread

(* What the handler adds up, and what the threads counted. *)
LEMMA PhaseSums ==
  ASSUME MixInv, NEW p \in Phases
  PROVE  /\ SumOf(Reported, InPhase(p)) = SlotOps(p)
         /\ SumOf(ReportedErrs, InPhase(p)) = SlotErrs(p)
         /\ SlotOps(p) \in Nat /\ SlotErrs(p) \in Nat /\ HandedOf(p) \in Nat
         /\ SumOf(Operations, InPhase(p)) = OpsOf(p)
         /\ SumOf(Errors, InPhase(p)) = ErrsOf(p)
         /\ SumOf(Sampled, InPhase(p)) = KeptOf(p)
<1> DEFINE S == InPhase(p)
<1>1. /\ IsFiniteSet(S) /\ S \subseteq Threads
      /\ kept \in [Threads -> Nat] /\ slot \in [Threads -> Slots]
  BY Settings DEF MixInv, MixTypes
<1>2. SumOf(Reported, InPhase(p)) = SlotOps(p) /\ SlotOps(p) \in Nat
  <2> DEFINE f == [t \in Threads |-> slot[t].ops]
             e == [t \in S |-> slot[t].ops]
  <2>1. \A t \in S : e[t] = f[t] /\ f[t] \in Nat
    BY <1>1 DEF Slots
  <2>2. SumFunctionOnSet(e, S) = SumFunctionOnSet(f, S) /\ SumFunctionOnSet(f, S) \in Nat
    <3> HIDE DEF e, f, S
    <3> QED BY <1>1, <2>1, SumAgree, SumNat
  <2> QED BY <2>2 DEF SumOf, Reported, SlotOps
<1>3. SumOf(ReportedErrs, InPhase(p)) = SlotErrs(p) /\ SlotErrs(p) \in Nat
  <2> DEFINE f == [t \in Threads |-> slot[t].errs]
             e == [t \in S |-> slot[t].errs]
  <2>1. \A t \in S : e[t] = f[t] /\ f[t] \in Nat
    BY <1>1 DEF Slots
  <2>2. SumFunctionOnSet(e, S) = SumFunctionOnSet(f, S) /\ SumFunctionOnSet(f, S) \in Nat
    <3> HIDE DEF e, f, S
    <3> QED BY <1>1, <2>1, SumAgree, SumNat
  <2> QED BY <2>2 DEF SumOf, ReportedErrs, SlotErrs
<1>4. HandedOf(p) \in Nat
  <2> DEFINE f == [t \in Threads |-> Handed(t)]
  <2>1. \A t \in S : f[t] \in Nat
    BY <1>1 DEF Handed
  <2>2. SumFunctionOnSet(f, S) \in Nat
    <3> HIDE DEF f, S
    <3> QED BY <1>1, <2>1, SumNat
  <2> QED BY <2>2 DEF HandedOf
<1>5. SumOf(Operations, InPhase(p)) = OpsOf(p)
  <2> DEFINE e == [t \in S |-> ops[t]]
  <2>1. \A t \in S : e[t] = ops[t]
    OBVIOUS
  <2>2. SumFunctionOnSet(e, S) = SumFunctionOnSet(ops, S)
    <3> HIDE DEF e, S
    <3> QED BY <1>1, <2>1, SumAgree
  <2> QED BY <2>2 DEF SumOf, Operations, OpsOf
<1>6. SumOf(Errors, InPhase(p)) = ErrsOf(p)
  <2> DEFINE e == [t \in S |-> errs[t]]
  <2>1. \A t \in S : e[t] = errs[t]
    OBVIOUS
  <2>2. SumFunctionOnSet(e, S) = SumFunctionOnSet(errs, S)
    <3> HIDE DEF e, S
    <3> QED BY <1>1, <2>1, SumAgree
  <2> QED BY <2>2 DEF SumOf, Errors, ErrsOf
<1>7. SumOf(Sampled, InPhase(p)) = KeptOf(p)
  <2> DEFINE e == [t \in S |-> Fewer(ops[t] \div env.pipeline + errs[t], MaxSamples)]
  <2>1. \A t \in S : e[t] = kept[t]
    BY <1>1 DEF MixInv, CountInv, Batches
  <2>2. SumFunctionOnSet(e, S) = SumFunctionOnSet(kept, S)
    <3> HIDE DEF e, S
    <3> QED BY <1>1, <2>1, SumAgree
  <2> QED BY <2>2 DEF SumOf, Sampled, KeptOf
<1> QED BY <1>2, <1>3, <1>4, <1>5, <1>6, <1>7

(* Without late threads the slots and the lists are complete ... *)
LEMMA CompleteSums ==
  ASSUME MixInv, handler \in Reporting, NEW p \in Phases, NoneLate(p)
  PROVE  SlotOps(p) = OpsOf(p) /\ SlotErrs(p) = ErrsOf(p) /\ HandedOf(p) = KeptOf(p)
<1> DEFINE S == InPhase(p)
<1>1. IsFiniteSet(S) /\ S \subseteq Threads
  BY Settings DEF MixInv, MixTypes
<1>2. \A t \in S : /\ pc[t] = "done"
                   /\ slot[t].ops = ops[t] /\ slot[t].errs = errs[t] /\ Handed(t) = kept[t]
  BY <1>1 DEF MixInv, CountInv, NoneLate, Handed
<1>3. SlotOps(p) = OpsOf(p)
  <2> DEFINE f == [t \in Threads |-> slot[t].ops]
  <2>1. \A t \in S : f[t] = ops[t]
    BY <1>1, <1>2
  <2>2. SumFunctionOnSet(f, S) = SumFunctionOnSet(ops, S)
    <3> HIDE DEF f, S
    <3> QED BY <1>1, <2>1, SumAgree
  <2> QED BY <2>2 DEF SlotOps, OpsOf
<1>4. SlotErrs(p) = ErrsOf(p)
  <2> DEFINE f == [t \in Threads |-> slot[t].errs]
  <2>1. \A t \in S : f[t] = errs[t]
    BY <1>1, <1>2
  <2>2. SumFunctionOnSet(f, S) = SumFunctionOnSet(errs, S)
    <3> HIDE DEF f, S
    <3> QED BY <1>1, <2>1, SumAgree
  <2> QED BY <2>2 DEF SlotErrs, ErrsOf
<1>5. HandedOf(p) = KeptOf(p)
  <2> DEFINE f == [t \in Threads |-> Handed(t)]
  <2>1. \A t \in S : f[t] = kept[t]
    BY <1>1, <1>2
  <2>2. SumFunctionOnSet(f, S) = SumFunctionOnSet(kept, S)
    <3> HIDE DEF f, S
    <3> QED BY <1>1, <2>1, SumAgree
  <2> QED BY <2>2 DEF HandedOf, KeptOf
<1> QED BY <1>3, <1>4, <1>5

(* ... and with them, what is in the slots has been handed over before. *)
LEMMA SlotsAreCovered ==
  ASSUME MixInv, NEW p \in Phases
  PROVE  Fewer((SlotOps(p) \div env.pipeline) + SlotErrs(p), MaxSamples) <= HandedOf(p)
<1> DEFINE S == InPhase(p)
           k == env.pipeline
           b == [t \in S |-> IF pc[t] = "done" THEN Batches(t) ELSE 0]
           r == [t \in S |-> slot[t].errs]
           z == [t \in S |-> 0]
           o == [t \in Threads |-> slot[t].ops]
           q == [t \in Threads |-> slot[t].errs]
           h == [t \in Threads |-> Handed(t)]
           c == [t \in S |-> b[t] + r[t]]
<1>1. /\ IsFiniteSet(S) /\ S \subseteq Threads
      /\ k \in Nat \ {0} /\ MaxSamples \in Nat
      /\ kept \in [Threads -> Nat] /\ slot \in [Threads -> Slots]
      /\ ops \in [Threads -> Nat] /\ errs \in [Threads -> Nat]
  BY Settings DEF MixInv, MixTypes
<1>2. \A t \in S :
        /\ b[t] \in Nat /\ r[t] \in Nat /\ c[t] = b[t] + r[t] /\ c[t] \in Nat
        /\ h[t] \in Nat /\ z[t] = 0 /\ q[t] = r[t] /\ o[t] \in Nat
  <2>1. \A t \in S : b[t] \in Nat
    <3>1. \A a \in Nat : a \div k \in Nat
      BY <1>1, BatchArithmetic
    <3> QED BY <1>1, <3>1 DEF Batches
  <2>2. \A t \in S : r[t] \in Nat /\ h[t] \in Nat /\ q[t] = r[t] /\ o[t] \in Nat
    BY <1>1 DEF Slots, Handed
  <2>3. \A t \in S : c[t] = b[t] + r[t] /\ z[t] = 0
    OBVIOUS
  <2> HIDE DEF b, r, c, h, z, q, o
  <2> QED BY <2>1, <2>2, <2>3
<1>3. \A t \in S : o[t] = k * b[t] + z[t]
  <2> TAKE t \in S
  <2>1. CountInv(t) /\ t \in Threads
    BY <1>1 DEF MixInv
  <2>2. CASE pc[t] = "done"
    <3>1. o[t] = ops[t] /\ b[t] = Batches(t) /\ ops[t] = k * Batches(t) /\ ops[t] \in Nat
      BY <1>1, <2>1, <2>2 DEF CountInv
    <3> HIDE DEF k, b, o
    <3> QED BY <3>1, <1>2
  <2>3. CASE pc[t] # "done"
    <3>1. o[t] = 0 /\ b[t] = 0
      BY <2>1, <2>3 DEF CountInv
    <3>2. k * 0 = 0
      BY <1>1
    <3> QED BY <3>1, <3>2
  <2> QED BY <2>2, <2>3
<1>4. \A t \in S : h[t] >= c[t] \/ h[t] >= MaxSamples
  <2> TAKE t \in S
  <2>1. CountInv(t) /\ t \in Threads
    BY <1>1 DEF MixInv
  <2>2. CASE pc[t] = "done"
    <3>1. h[t] = kept[t] /\ c[t] = Batches(t) + errs[t]
      BY <2>1, <2>2 DEF CountInv, Handed
    <3>2. kept[t] = Fewer(Batches(t) + errs[t], MaxSamples)
      BY <2>1 DEF CountInv
    <3> HIDE DEF b, c, h, r
    <3> QED BY <1>1, <1>2, <3>1, <3>2 DEF Fewer
  <2>3. CASE pc[t] # "done"
    <3>1. c[t] = 0
      BY <2>1, <2>3 DEF CountInv
    <3>2. h[t] \in Nat
      BY <1>2
    <3> HIDE DEF b, c, h, r
    <3> QED BY <3>1, <3>2
  <2> QED BY <2>2, <2>3
<1>5. /\ SlotOps(p) = SumFunctionOnSet(o, S) /\ SlotErrs(p) = SumFunctionOnSet(q, S)
      /\ HandedOf(p) = SumFunctionOnSet(h, S)
  BY DEF SlotOps, SlotErrs, HandedOf
<1>6. /\ SumFunctionOnSet(o, S) = k * SumFunctionOnSet(b, S)
      /\ SumFunctionOnSet(c, S) = SumFunctionOnSet(b, S) + SumFunctionOnSet(q, S)
      /\ SumFunctionOnSet(b, S) \in Nat /\ SumFunctionOnSet(q, S) \in Nat
      /\ SumFunctionOnSet(h, S) \in Nat
      /\ \/ SumFunctionOnSet(h, S) >= SumFunctionOnSet(c, S)
         \/ SumFunctionOnSet(h, S) >= MaxSamples
  <2> HIDE DEF S, k, b, r, z, o, q, h, c
  <2>1. k \in Int /\ 1 \in Int
    BY <1>1
  <2>2. SumFunctionOnSet(o, S) = k * SumFunctionOnSet(b, S) + SumFunctionOnSet(z, S)
    <3>1. \A t \in S : b[t] \in Int /\ z[t] \in Int /\ o[t] = k * b[t] + z[t]
      BY <1>2, <1>3
    <3> QED BY <1>1, <2>1, <3>1, SumCombine
  <2>3. SumFunctionOnSet(c, S) = 1 * SumFunctionOnSet(b, S) + SumFunctionOnSet(q, S)
    <3>1. PICK j \in Int : j = 1
      OBVIOUS
    <3>2. \A t \in S : b[t] \in Int /\ q[t] \in Int /\ c[t] = j * b[t] + q[t]
      BY <1>2, <3>1
    <3>3. SumFunctionOnSet(c, S) = j * SumFunctionOnSet(b, S) + SumFunctionOnSet(q, S)
      BY <1>1, <3>2, SumCombine
    <3> QED BY <3>1, <3>3
  <2>4. SumFunctionOnSet(z, S) = 0
    BY <1>1, <1>2, SumZero
  <2>5. /\ SumFunctionOnSet(b, S) \in Nat /\ SumFunctionOnSet(q, S) \in Nat
        /\ SumFunctionOnSet(h, S) \in Nat
    BY <1>1, <1>2, SumNat
  <2>6. \/ SumFunctionOnSet(h, S) >= SumFunctionOnSet(c, S)
        \/ SumFunctionOnSet(h, S) >= MaxSamples
    BY <1>1, <1>2, <1>4, SumCapped
  <2>7. \A m \in Nat : k * m + 0 = k * m
    BY <1>1
  <2> QED BY <2>2, <2>3, <2>4, <2>5, <2>6, <2>7
<1>7. SlotOps(p) \div k = SumFunctionOnSet(b, S)
  <2>1. \A a, n \in Nat : a = k * n => a \div k = n
    BY <1>1, BatchArithmetic
  <2>2. SlotOps(p) \in Nat
    BY PhaseSums
  <2> HIDE DEF S, b, k, o, c, q, h
  <2> QED BY <1>5, <1>6, <2>1, <2>2
<1> HIDE DEF S, b, o, c, q, h
<1> QED BY <1>1, <1>5, <1>6, <1>7 DEF Fewer

(* The handler, when it counts, leaves the threads alone. *)
Untouched == UNCHANGED <<env, pc, ops, slot, errs, kept, extended>>

LEMMA SumsUntouched ==
  ASSUME Untouched
  PROVE  /\ Threads' = Threads /\ Phases' = Phases
         /\ \A p : /\ InPhase(p)' = InPhase(p)
                  /\ OpsOf(p)' = OpsOf(p) /\ ErrsOf(p)' = ErrsOf(p) /\ KeptOf(p)' = KeptOf(p)
                  /\ HandedOf(p)' = HandedOf(p)
                  /\ SlotOps(p)' = SlotOps(p) /\ SlotErrs(p)' = SlotErrs(p)
         /\ \A t : Batches(t)' = Batches(t)
BY DEF Untouched, Threads, Phases, InPhase, OpsOf, ErrsOf, KeptOf, HandedOf, Handed,
       SlotOps, SlotErrs, Batches

LEMMA EarlyKeeps ==
  ASSUME env.fn = "mixed", MixInv, Untouched, UNCHANGED <<report, reporting>>,
         handler \in {"ping", "launch", "join"}, handler' \in {"ping", "launch", "join"},
         handler' \in {"ping", "launch"} => handler \in {"ping", "launch"}
  PROVE  MixInv'
<1>1. reporting = 1
  BY DEF MixInv
<1>2. MixTypes'
  BY SumsUntouched DEF MixInv, MixTypes, Untouched
<1>3. \A t \in Threads : CountInv(t)'
  <2> TAKE t \in Threads
  <2>1. CountInv(t)
    BY DEF MixInv
  <2> QED BY <2>1, SumsUntouched DEF CountInv, Untouched, Reporting
<1>4. \A p \in Phases : PhaseInv(p)'
  <2> TAKE p \in Phases
  <2>1. PhaseInv(p)
    BY DEF MixInv
  <2>2. ~ (p < reporting)
    BY <1>1, RunAssumption DEF MixInv, MixTypes, Phases
  <2> QED BY <2>1, <2>2, SumsUntouched DEF PhaseInv, Untouched
<1> QED
  BY <1>1, <1>2, <1>3, <1>4, SumsUntouched DEF MixInv, Reporting, Untouched

LEMMA LaunchKeeps ==
  ASSUME env.fn = "mixed", MixInv, Launch, UNCHANGED mixedVars
  PROVE  MixInv'
<1> USE DEF mixedVars, openLoopVars, reportVars
<1>1. /\ handler = "launch" /\ handler' = "join" /\ pc' = [t \in Threads |-> "connect"]
      /\ UNCHANGED <<env, late, ops, slot, errs, kept, extended, report, reporting>>
  BY DEF Launch
<1>2. Threads' = Threads /\ Phases' = Phases /\ \A p : InPhase(p)' = InPhase(p)
  BY <1>1 DEF Threads, Phases, InPhase
<1>3. reporting = 1 /\ \A t \in Threads : pc[t] = "unborn" /\ pc'[t] = "connect"
  BY <1>1 DEF MixInv
<1>4. MixTypes'
  BY <1>1, <1>2 DEF MixInv, MixTypes
<1>5. \A t \in Threads : CountInv(t)'
  <2> TAKE t \in Threads
  <2>1. CountInv(t)
    BY DEF MixInv
  <2> QED BY <1>1, <1>3, <2>1 DEF CountInv, Batches, Reporting
<1>6. \A p \in Phases : PhaseInv(p)'
  <2> TAKE p \in Phases
  <2>1. PhaseInv(p)
    BY DEF MixInv
  <2>2. ~ (p < reporting)
    BY <1>3, RunAssumption DEF MixInv, MixTypes, Phases
  <2>3. HandedOf(p)' = HandedOf(p)
    <3>1. \A t \in Threads : Handed(t)' = Handed(t)
      BY <1>3 DEF Handed
    <3>2. [t \in Threads |-> Handed(t)]' = [t \in Threads |-> Handed(t)]
      BY <1>2, <3>1
    <3> QED BY <1>2, <3>2 DEF HandedOf
  <2> QED BY <1>1, <2>1, <2>2, <2>3 DEF PhaseInv
<1> QED BY <1>1, <1>2, <1>3, <1>4, <1>5, <1>6 DEF MixInv, Reporting

(* The joins are over: whoever is not done from now on is late. *)
LEMMA JoinsOverKeeps ==
  ASSUME env.fn = "mixed", MixInv, JoinsOver("ops"), UNCHANGED mixedVars
  PROVE  MixInv'
<1> USE DEF mixedVars, openLoopVars, reportVars
<1>1. /\ handler = "join" /\ handler' = "ops"
      /\ late' = {t \in Threads : ~ ThreadOver(t)}
      /\ Untouched /\ UNCHANGED <<report, reporting>>
  BY DEF JoinsOver, JoinReady, threadVars, Untouched
<1>2. reporting = 1 /\ reporting \in Phases /\ env \in Environments
  BY <1>1, Settings DEF MixInv, MixTypes
<1>3. MixTypes'
  BY <1>1, SumsUntouched DEF MixInv, MixTypes, Untouched, Reporting
<1>4. \A t \in Threads : CountInv(t)'
  <2> TAKE t \in Threads
  <2>1. CountInv(t)
    BY DEF MixInv
  <2> QED BY <1>1, <2>1, SumsUntouched DEF CountInv, Untouched, Reporting, ThreadOver
<1>5. \A p \in Phases : PhaseInv(p)'
  <2> TAKE p \in Phases
  <2>1. PhaseInv(p)
    BY DEF MixInv
  <2>2. ~ (p < reporting)
    BY <1>2, RunAssumption DEF MixInv, MixTypes, Phases
  <2> QED BY <1>1, <2>1, <2>2, SumsUntouched DEF PhaseInv, Untouched
<1> QED
  BY <1>1, <1>2, <1>3, <1>4, <1>5, SumsUntouched DEF MixInv, Untouched

(* The three countings of a phase. *)
LEMMA CountingKeeps ==
  ASSUME env.fn = "mixed", MixInv, CountOps \/ CountErrors
  PROVE  MixInv'
<1> USE DEF openLoopVars, threadVars, Reporting
<1>1. /\ Untouched /\ UNCHANGED <<late, reporting>>
      /\ handler \in {"ops", "errors"} /\ handler' \in Reporting
      /\ \A p \in Phases \ {reporting} : report'[p] = report[p]
  BY DEF CountOps, CountErrors, Untouched, MixInv, MixTypes
<1>2. /\ reporting \in Phases /\ reporting \in Nat /\ report[reporting] \in Reports
      /\ report \in [Phases -> Reports]
  BY <1>1 DEF MixInv, MixTypes
<1>3. /\ SumOf(Reported, InPhase(reporting)) = SlotOps(reporting)
      /\ SumOf(ReportedErrs, InPhase(reporting)) = SlotErrs(reporting)
      /\ SlotOps(reporting) \in Nat /\ SlotErrs(reporting) \in Nat
  BY <1>2, PhaseSums
<1>4. PhaseInv(reporting)
  BY <1>2 DEF MixInv
<1>5. NoneLate(reporting) =>
        SlotOps(reporting) = OpsOf(reporting) /\ SlotErrs(reporting) = ErrsOf(reporting)
  BY <1>1, <1>2, CompleteSums
<1>6. report' \in [Phases -> Reports] /\ PhaseInv(reporting)'
  <2>1. extended'[reporting] = HandedOf(reporting)' /\ NoneLate(reporting)' = NoneLate(reporting)
    BY <1>1, <1>4, SumsUntouched DEF PhaseInv, Untouched, NoneLate
  <2>2. CASE CountOps
    <3>1. /\ handler' = "errors"
          /\ report' = [report EXCEPT ![reporting].ops = SlotOps(reporting)]
      BY <1>3, <2>2 DEF CountOps
    <3>2. report' \in [Phases -> Reports] /\ report'[reporting].ops = SlotOps(reporting)
      BY <1>2, <1>3, <3>1 DEF Reports
    <3> QED BY <1>1, <1>2, <1>3, <1>5, <2>1, <3>1, <3>2, SumsUntouched DEF PhaseInv
  <2>3. CASE CountErrors
    <3>1. /\ handler = "errors" /\ handler' = "samples"
          /\ report' = [report EXCEPT ![reporting].errs = SlotErrs(reporting)]
      BY <1>3, <2>3 DEF CountErrors
    <3>2. /\ report' \in [Phases -> Reports] /\ report'[reporting].errs = SlotErrs(reporting)
          /\ report'[reporting].ops = report[reporting].ops
      BY <1>2, <1>3, <3>1 DEF Reports
    <3> QED BY <1>1, <1>2, <1>3, <1>4, <1>5, <2>1, <3>1, <3>2, SumsUntouched DEF PhaseInv
  <2> QED BY <2>2, <2>3
<1>7. MixTypes'
  BY <1>1, <1>6, SumsUntouched DEF MixInv, MixTypes, Untouched
<1>8. \A t \in Threads : CountInv(t)'
  <2> TAKE t \in Threads
  <2>1. CountInv(t)
    BY DEF MixInv
  <2> QED BY <1>1, <2>1, SumsUntouched DEF CountInv, Untouched
<1>9. \A p \in Phases \ {reporting} : PhaseInv(p)'
  <2> TAKE p \in Phases \ {reporting}
  <2>1. PhaseInv(p) /\ NoneLate(p)' = NoneLate(p)
    BY <1>1, SumsUntouched DEF MixInv, NoneLate
  <2> QED BY <1>1, <2>1, SumsUntouched DEF PhaseInv, Accounted, Untouched
<1> QED
  BY <1>1, <1>2, <1>6, <1>7, <1>8, <1>9, SumsUntouched DEF MixInv

LEMMA SamplesKeep ==
  ASSUME env.fn = "mixed", MixInv, CountSamples
  PROVE  MixInv'
<1> USE DEF openLoopVars, threadVars, Reporting
<1>1. /\ Untouched /\ late' = late /\ handler = "samples" /\ reporting' = reporting + 1
      /\ handler' = IF reporting + 1 \in Phases THEN "ops" ELSE "returned"
      /\ report' = [report EXCEPT ![reporting].samples = extended[reporting]]
  BY DEF CountSamples, Untouched
<1>2. /\ reporting \in Phases /\ reporting \in Nat \ {0} /\ report[reporting] \in Reports
      /\ report \in [Phases -> Reports] /\ Phases \subseteq Nat
      /\ env.pipeline \in Nat \ {0} /\ MaxSamples \in Nat
  <2>1. /\ reporting \in Phases /\ reporting \in Nat \ {0}
        /\ report \in [Phases -> Reports] /\ env \in Environments
    BY <1>1 DEF MixInv, MixTypes
  <2>2. Phases \subseteq Nat
    BY <2>1, PhaseNumbers
  <2> QED BY <2>1, <2>2, Settings
<1>3. /\ SlotOps(reporting) \in Nat /\ SlotErrs(reporting) \in Nat
      /\ HandedOf(reporting) \in Nat
  BY <1>2, PhaseSums
<1>4. PhaseInv(reporting)
  BY <1>2 DEF MixInv
<1>5. /\ extended[reporting] = HandedOf(reporting)
      /\ report[reporting].ops <= SlotOps(reporting)
      /\ report[reporting].errs <= SlotErrs(reporting)
      /\ NoneLate(reporting) => /\ report[reporting].ops = OpsOf(reporting)
                               /\ report[reporting].errs = ErrsOf(reporting)
  BY <1>1, <1>4 DEF PhaseInv
<1>6. NoneLate(reporting) => HandedOf(reporting) = KeptOf(reporting)
  BY <1>1, <1>2, CompleteSums
<1>7. /\ report' \in [Phases -> Reports]
      /\ report'[reporting] = [ops |-> report[reporting].ops, errs |-> report[reporting].errs,
                               samples |-> HandedOf(reporting)]
      /\ \A p \in Phases \ {reporting} : report'[p] = report[p]
  BY <1>1, <1>2, <1>3, <1>5 DEF Reports
<1>8. Fewer((report[reporting].ops \div env.pipeline) + report[reporting].errs, MaxSamples)
        <= HandedOf(reporting)
  <2> DEFINE o == report[reporting].ops
             e == report[reporting].errs
             k == env.pipeline
  <2>1. Fewer((SlotOps(reporting) \div k) + SlotErrs(reporting), MaxSamples)
          <= HandedOf(reporting)
    BY <1>2, SlotsAreCovered
  <2>2. o \in Nat /\ e \in Nat /\ k \in Nat \ {0}
    BY <1>2 DEF Reports
  <2>3. o <= SlotOps(reporting) /\ e <= SlotErrs(reporting)
    BY <1>5
  <2> HIDE DEF o, e, k
  <2>4. /\ o \div k \in Nat /\ SlotOps(reporting) \div k \in Nat
        /\ o \div k <= SlotOps(reporting) \div k
    BY <1>3, <2>2, <2>3, BatchArithmetic
  <2>5. Fewer((o \div k) + e, MaxSamples) <= HandedOf(reporting)
    BY <1>2, <1>3, <2>1, <2>2, <2>3, <2>4 DEF Fewer
  <2> QED BY <2>5 DEF o, e, k
<1>9. PICK r \in Phases : r = reporting
  BY <1>2
<1>10. Accounted(r)'
  <2>1. NoneLate(r) => report'[r] =
          [ops |-> OpsOf(r), errs |-> ErrsOf(r), samples |-> KeptOf(r)]
    BY <1>5, <1>6, <1>7, <1>9
  <2>2. /\ report'[r].ops = report[r].ops /\ report'[r].errs = report[r].errs
        /\ report'[r].samples = HandedOf(r)
    BY <1>7, <1>9
  <2>3. NoneLate(r)' = NoneLate(r)
    BY <1>1, SumsUntouched DEF NoneLate
  <2>4. Fewer((report'[r].ops \div env'.pipeline) + report'[r].errs, MaxSamples)
          <= report'[r].samples
    BY <1>1, <1>8, <1>9, <2>2 DEF Untouched
  <2> QED BY <2>1, <2>3, <2>4, SumsUntouched, <1>1 DEF Accounted
<1>11. \A p \in Phases : PhaseInv(p)'
  <2> TAKE p \in Phases
  <2>1. /\ PhaseInv(p) /\ NoneLate(p)' = NoneLate(p)
        /\ extended'[p] = HandedOf(p)'
    BY <1>1, SumsUntouched DEF MixInv, NoneLate, PhaseInv, Untouched
  <2>2. handler' \notin {"errors", "samples"}
    BY <1>1
  <2>3. p < reporting' => p = r \/ p < reporting
    BY <1>1, <1>2, <1>9
  <2>4. p < reporting => Accounted(p)'
    <3>1. p < reporting => p # reporting /\ Accounted(p)
      BY <1>2, <2>1 DEF PhaseInv
    <3> QED BY <1>1, <1>7, <2>1, <3>1, SumsUntouched DEF Accounted, Untouched
  <2> QED BY <1>10, <2>1, <2>2, <2>3, <2>4 DEF PhaseInv
<1>12. MixTypes'
  BY <1>1, <1>2, <1>7, SumsUntouched DEF MixInv, MixTypes, Untouched
<1>13. \A t \in Threads : CountInv(t)'
  <2> TAKE t \in Threads
  <2>1. CountInv(t)
    BY DEF MixInv
  <2> QED BY <1>1, <2>1, SumsUntouched DEF CountInv, Untouched
<1> QED
  BY <1>1, <1>11, <1>12, <1>13, SumsUntouched DEF MixInv

LEMMA InitReport == Init => ReportInv
<1> SUFFICES ASSUME Init, env.fn = "mixed" PROVE MixInv
  BY DEF Init, RunInit, MixedInit, ReportInv
<1>1. /\ env \in Environments /\ handler = "ping" /\ reporting = 1
      /\ pc = [t \in Threads |-> "unborn"] /\ ops = [t \in Threads |-> 0]
      /\ errs = [t \in Threads |-> 0] /\ kept = [t \in Threads |-> 0]
      /\ slot = [t \in Threads |-> Empty] /\ extended = [p \in Phases |-> 0]
      /\ report = [p \in Phases |-> [ops |-> 0, errs |-> 0, samples |-> 0]]
  BY DEF Init, RunInit, MixedInit
<1>2. MixTypes
  BY <1>1 DEF MixTypes, Empty, Slots, Reports
<1>3. env.pipeline \in Nat \ {0} /\ MaxSamples \in Nat
      /\ \A p \in Phases : p \in Nat \ {0}
  BY <1>1, Settings, PhaseNumbers
<1>4. 0 \div env.pipeline = 0 /\ env.pipeline * 0 = 0
  <2>1. 0 = env.pipeline * 0
    BY <1>3
  <2> QED BY <1>3, <2>1, BatchArithmetic
<1>5. \A t \in Threads : CountInv(t)
  BY <1>1, <1>3, <1>4 DEF CountInv, Batches, Fewer, Empty, Reporting
<1>6. \A p \in Phases : PhaseInv(p)
  <2> TAKE p \in Phases
  <2> DEFINE f == [t \in Threads |-> Handed(t)]
  <2>1. IsFiniteSet(InPhase(p)) /\ InPhase(p) \subseteq Threads
    BY <1>1, Settings
  <2>2. \A t \in InPhase(p) : f[t] = 0
    BY <1>1, <2>1 DEF Handed
  <2>3. SumFunctionOnSet(f, InPhase(p)) = 0
    <3> HIDE DEF f
    <3> QED BY <2>1, <2>2, SumZero
  <2>4. extended[p] = HandedOf(p)
    BY <1>1, <2>3 DEF HandedOf
  <2> QED BY <1>1, <1>3, <2>4 DEF PhaseInv
<1> QED BY <1>1, <1>2, <1>5, <1>6 DEF MixInv, Reporting

LEMMA NextReport == ReportInv /\ [Next]_vars => ReportInv'
<1> SUFFICES ASSUME ReportInv, [Next]_vars PROVE ReportInv'
  OBVIOUS
<1> USE DEF mixedVars, openLoopVars, reportVars
<1>1. CASE UNCHANGED vars
  <2>1. Untouched /\ UNCHANGED <<handler, late, report, reporting>>
    BY <1>1 DEF vars, runVars, handlerVars, threadVars, Untouched
  <2>2. CASE env.fn # "mixed"
    BY <2>1, <2>2 DEF ReportInv, Untouched
  <2>3. CASE env.fn = "mixed"
    <3>1. MixInv
      BY <2>3 DEF ReportInv
    <3>2. MixTypes'
      BY <2>1, <3>1, SumsUntouched DEF MixInv, MixTypes, Untouched
    <3>3. \A t \in Threads : CountInv(t)'
      <4> TAKE t \in Threads
      <4> QED BY <2>1, <3>1, SumsUntouched DEF MixInv, CountInv, Untouched
    <3>4. \A p \in Phases : PhaseInv(p)'
      <4> TAKE p \in Phases
      <4>1. NoneLate(p)' = NoneLate(p)
        BY <2>1, SumsUntouched DEF NoneLate
      <4> QED BY <2>1, <3>1, <4>1, SumsUntouched DEF MixInv, PhaseInv, Accounted, Untouched
    <3> QED
      BY <2>1, <2>3, <3>1, <3>2, <3>3, <3>4, SumsUntouched DEF ReportInv, MixInv, Untouched
  <2> QED BY <2>2, <2>3
<1>2. CASE env.fn # "mixed" /\ CpuNext /\ UNCHANGED mixedVars
  <2>1. env' = env
    BY <1>2 DEF CpuNext, CpuHandler, CpuThread, Ping, Launch, Join, JoinsOver, Tick, ConnectOk,
                ConnectFails, PhaseBegins, BurnBegins, LoopEnds, BurnOk, BurnFails, DutySleep,
                SleepRaises, Resume, Except, Store
  <2> QED BY <1>2, <2>1 DEF ReportInv
<1>3. CASE env.fn = "mixed" /\ MixedNext
  <2>1. MixInv
    BY <1>3 DEF ReportInv
  <2>2. MixInv' /\ env' = env
    <3>1. CASE (Ping \/ Join \/ Tick) /\ UNCHANGED mixedVars
      BY <1>3, <2>1, <3>1, EarlyKeeps
         DEF Ping, Join, Tick, JoinReady, Untouched, threadVars, handlerVars
    <3>2. CASE Launch /\ UNCHANGED mixedVars
      BY <1>3, <2>1, <3>2, LaunchKeeps DEF Launch
    <3>3. CASE JoinsOver("ops") /\ UNCHANGED mixedVars
      BY <1>3, <2>1, <3>3, JoinsOverKeeps DEF JoinsOver
    <3>4. CASE CountOps \/ CountErrors
      BY <1>3, <2>1, <3>4, CountingKeeps DEF CountOps, CountErrors
    <3>5. CASE CountSamples
      BY <1>3, <2>1, <3>5, SamplesKeep DEF CountSamples
    <3>6. CASE \E t \in Threads : MixedThread(t)
      BY <1>3, <2>1, <3>6, MixedThreadStep, MixKeeps DEF MixStep
    <3> QED BY <1>3, <3>1, <3>2, <3>3, <3>4, <3>5, <3>6 DEF MixedNext, MixedHandler
  <2> QED BY <1>3, <2>2 DEF ReportInv
<1> QED BY <1>1, <1>2, <1>3 DEF Next, Returned

(* mixed_workload._run_mixed reads the results of a phase and then the     *)
(* list of its latencies, while threads that were not joined still run:    *)
(* every reported operation has its sample all the same, because a thread  *)
(* hands its latencies over before it stores its result; and without late  *)
(* threads the report is exactly what the threads counted.                 *)
THEOREM ReportAlwaysAddsUp == Spec => []ReportAddsUp
<1>1. ReportInv => ReportAddsUp
  <2> SUFFICES ASSUME ReportInv, NEW p \in Phases, reporting > p
               PROVE  /\ Fewer((report[p].ops \div env.pipeline) + report[p].errs, MaxSamples)
                           <= report[p].samples
                      /\ InPhase(p) \cap late = {} =>
                           report[p] = [ops |-> SumOf(Operations, InPhase(p)),
                                        errs |-> SumOf(Errors, InPhase(p)),
                                        samples |-> SumOf(Sampled, InPhase(p))]
    BY DEF ReportAddsUp
  <2>1. CASE env.fn # "mixed"
    <3>1. reporting = 1 /\ env \in Environments
      BY <2>1 DEF ReportInv
    <3>2. p \in Nat /\ p >= 1
      BY <3>1, PhaseNumbers
    <3> QED BY <3>1, <3>2
  <2>2. CASE env.fn = "mixed"
    <3>1. MixInv
      BY <2>2 DEF ReportInv
    <3>2. Accounted(p)
      BY <3>1, RunAssumption DEF MixInv, PhaseInv, MixTypes, Phases
    <3> QED BY <3>1, <3>2, PhaseSums DEF Accounted, NoneLate
  <2> QED BY <2>1, <2>2
<1> QED BY <1>1, InitReport, NextReport, PTL DEF Spec
===============================================================================
