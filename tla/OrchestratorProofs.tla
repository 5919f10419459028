--------------------------- MODULE OrchestratorProofs ---------------------------
(***************************************************************************)
(* Theorems about ConnectionOrchestrator, for any number of workers,       *)
(* copies, delays and settings of the test.                                *)
(***************************************************************************)
EXTENDS ConnectionOrchestrator, SumLemmas

LEMMA WorkerNumbers ==
  /\ WorkerTarget \in Nat /\ WorkerTarget <= MaxPerWorker
  /\ WorkerCapacity \in Nat /\ SleepSeconds \in Nat
<1>1. CeilDiv(Desired, WorkerCount) \in Nat
  BY OrchestratorAssumption DEF CeilDiv
<1>2. WorkerTarget \in Nat /\ WorkerTarget <= MaxPerWorker
  BY <1>1, OrchestratorAssumption DEF WorkerTarget
<1> QED
  BY <1>2, OrchestratorAssumption DEF WorkerCapacity, SleepSeconds

LEMMA RunsFinite ==
  IsFiniteSet(Runs) /\ IsFiniteSet(Indexes) /\ Cardinality(Indexes) = WorkerCount
<1>0. WorkerCount \in Nat \ {0} /\ MaxCopies \in Nat \ {0}
  BY OrchestratorAssumption
<1>1. IsFiniteSet(1..WorkerCount) /\ Cardinality(1..WorkerCount) = WorkerCount
  BY <1>0, FS_Interval
<1>2. IsFiniteSet(1..MaxCopies)
  BY <1>0, FS_Interval
<1> QED
  BY <1>1, <1>2, FS_Product DEF Runs, Indexes

LEMMA FirstRun ==
  ASSUME NEW i \in Indexes
  PROVE  <<i, 1>> \in Runs
<1>1. 1 \in 1..MaxCopies
  BY OrchestratorAssumption
<1> QED
  BY <1>1 DEF Runs

FleetTypes ==
  /\ now \in Nat /\ next \in Nat \ {0} /\ sleepFrom \in Nat
  /\ pc \in {"before", "invoke", "sleep", "after", "returned"}
  /\ connected \in Int
  /\ report \in [Indexes -> {"none", "ok", "error"}]
  /\ run \in [Runs -> {"none", "queued", "running", "over"}]
  /\ due \in [Runs -> Nat]
  /\ held \in [Runs -> Nat]

(* The worker holds connections only while it runs, within the time Lambda *)
(* and the test give it, and at most its pool.                             *)
RunInv(r) ==
  /\ held[r] # 0 => run[r] = "running"
  /\ held[r] <= WorkerCapacity
  /\ run[r] \in {"queued", "running"} => now <= due[r]
  /\ run[r] # "none" => r[1] < next /\ pc # "before"
  /\ run[r] = "queued" =>
       due[r] <= (IF pc = "invoke" THEN now ELSE sleepFrom) + MaxLate

(* What was open when INFO was read is still there to see later: a queued  *)
(* run, or one whose time ends after the sleep.                            *)
LateRun(r) == run[r] = "queued" \/ (HasRun(r) /\ due[r] >= sleepFrom + SleepSeconds)

HandlerInv ==
  /\ pc = "before" => next = 1
  /\ pc \in {"after", "returned"} => now >= sleepFrom + SleepSeconds
  /\ pc \in {"sleep", "after", "returned"} => next > WorkerCount
  /\ pc # "returned" => connected = -1
  /\ connected \notin {-1, 0} => \E r \in Runs : LateRun(r)

FleetInv ==
  /\ FleetTypes
  /\ HandlerInv
  /\ \A i \in Indexes : report[i] = "ok" => run[<<i, 1>>] # "none"
  /\ \A r \in Runs : RunInv(r)

LEMMA InitFleet == Init => FleetInv
<1> SUFFICES ASSUME Init PROVE FleetInv
  OBVIOUS
<1> QED
  BY WorkerNumbers DEF Init, FleetInv, FleetTypes, HandlerInv, RunInv, Runs

(* The steps of the handler and of the clock that start no run. *)
LEMMA HandlerKeepsFleet ==
  ASSUME FleetInv,
         \/ InfoBefore \/ InfoFails \/ InfoGivesUp \/ InvokeRefused
         \/ Sleep \/ Wake \/ Tick \/ Ended \/ UNCHANGED vars
  PROVE  FleetInv'
<1> USE WorkerNumbers
    DEF FleetInv, FleetTypes, HandlerInv, RunInv, LateRun, HasRun, runVars
<1>0. MaxLate \in Nat /\ WorkerCount \in Nat
  BY OrchestratorAssumption
<1>1. CASE InfoBefore
  BY <1>1 DEF InfoBefore, InfoPhase
<1>2. CASE InfoFails
  BY <1>2 DEF InfoFails
<1>3. CASE InfoGivesUp
  BY <1>3 DEF InfoGivesUp, InfoPhase
<1>4. CASE InvokeRefused
  <2>1. next \in Indexes /\ next' = next + 1 /\ report' = [report EXCEPT ![next] = "error"]
    BY <1>0, <1>4 DEF InvokeRefused, InvokeStep, Indexes
  <2>2. UNCHANGED <<now, pc, sleepFrom, connected, run, due, held>> /\ pc = "invoke"
    BY <1>4 DEF InvokeRefused, InvokeStep
  <2>3. FleetTypes'
    BY <2>1, <2>2
  <2>4. \A r \in Runs : RunInv(r)'
    <3>1. \A r \in Runs : r[1] \in Nat
      BY DEF Runs, Indexes
    <3> QED BY <2>1, <2>2, <3>1
  <2>5. \A i \in Indexes : report'[i] = "ok" => run'[<<i, 1>>] # "none"
    BY <2>1, <2>2
  <2> QED BY <2>1, <2>2, <2>3, <2>4, <2>5
<1>5. CASE Sleep
  BY <1>0, <1>5 DEF Sleep
<1>6. CASE Wake
  BY <1>6 DEF Wake
<1>7. CASE Tick
  <2>1. UNCHANGED <<pc, next, sleepFrom, connected, report, run, due, held>> /\ now' = now + 1
    BY <1>7 DEF Tick, handlerVars
  <2>2. \A r \in Runs : run[r] \in {"queued", "running"} => now < due[r]
    BY <1>7 DEF Tick
  <2> QED BY <1>0, <2>1, <2>2
<1>8. CASE Ended \/ UNCHANGED vars
  BY <1>8 DEF Ended, vars, handlerVars
<1> QED
  BY <1>1, <1>2, <1>3, <1>4, <1>5, <1>6, <1>7, <1>8

(* Lambda takes the event: its runs are new. *)
LEMMA EnqueueKeepsFleet ==
  ASSUME FleetInv, NEW answer \in {"ok", "error"}, InvokeStep(answer), Enqueue(next)
  PROVE  FleetInv'
<1> USE WorkerNumbers DEF FleetInv, FleetTypes, HandlerInv, RunInv
<1>0. MaxLate \in Nat /\ WorkerCount \in Nat /\ MaxCopies \in Nat \ {0}
  BY OrchestratorAssumption
<1>1. /\ next \in Indexes /\ next' = next + 1 /\ pc = "invoke"
      /\ report' = [report EXCEPT ![next] = answer]
      /\ UNCHANGED <<now, pc, sleepFrom, connected, held>>
  BY <1>0 DEF InvokeStep, Enqueue, Indexes
<1>2. PICK copies \in 1..MaxCopies :
        /\ run' = [r \in Runs |-> IF r[1] = next /\ r[2] <= copies THEN "queued" ELSE run[r]]
        /\ due' = [r \in Runs |-> IF r[1] = next /\ r[2] <= copies THEN now + MaxLate ELSE due[r]]
  BY DEF Enqueue
<1>3. FleetTypes'
  BY <1>0, <1>1, <1>2
<1>4. ASSUME NEW r \in Runs PROVE RunInv(r)'
  <2>1. r[1] \in Nat
    BY DEF Runs, Indexes
  <2>2. CASE r[1] = next /\ r[2] <= copies
    <3>1. run[r] = "none"
      BY <1>0, <2>2
    <3> QED BY <1>0, <1>1, <1>2, <2>1, <2>2, <3>1
  <2>3. CASE ~ (r[1] = next /\ r[2] <= copies)
    <3>1. run'[r] = run[r] /\ due'[r] = due[r]
      BY <1>2, <2>3
    <3> QED BY <1>0, <1>1, <2>1, <3>1
  <2> QED BY <2>2, <2>3
<1>5. ASSUME NEW i \in Indexes, report'[i] = "ok" PROVE run'[<<i, 1>>] # "none"
  <2>1. <<i, 1>> \in Runs
    BY FirstRun
  <2>2. CASE i = next
    BY <1>0, <1>2, <2>1, <2>2
  <2>3. CASE i # next
    BY <1>1, <1>2, <1>5, <2>1, <2>3
  <2> QED BY <2>2, <2>3
<1>6. HandlerInv'
  BY <1>0, <1>1
<1> QED BY <1>3, <1>4, <1>5, <1>6

(* INFO answers: what it counts is held by runs that will be late. *)
LEMMA InfoKeepsFleet ==
  ASSUME FleetInv, InfoAfter
  PROVE  FleetInv'
<1> USE WorkerNumbers DEF FleetInv, FleetTypes, HandlerInv, RunInv
<1>1. /\ pc = "after" /\ pc' = "returned" /\ connected' = Fleet
      /\ UNCHANGED <<now, next, report, sleepFrom, run, due, held>>
  BY DEF InfoAfter, InfoPhase, runVars
<1>2. Fleet = SumFunctionOnSet(held, Runs)
  BY DEF Fleet, SumFunction
<1>3. Fleet \in Nat
  BY <1>2, RunsFinite, SumNat
<1>4. ASSUME Fleet # 0 PROVE \E r \in Runs : LateRun(r)'
  <2>1. PICK r \in Runs : held[r] # 0
    BY <1>2, <1>4, RunsFinite, SumZero
  <2>2. LateRun(r)'
    BY <1>1, <2>1 DEF LateRun, HasRun
  <2> QED BY <2>2
<1>5. HandlerInv'
  BY <1>1, <1>3, <1>4
<1>6. FleetTypes'
  BY <1>1, <1>3
<1> QED BY <1>1, <1>5, <1>6

LEMMA StartKeepsFleet ==
  ASSUME FleetInv, NEW r \in Runs, Start(r)
  PROVE  FleetInv'
<1> USE WorkerNumbers DEF FleetInv, FleetTypes, HandlerInv, RunInv
<1>0. Duration \in Nat /\ WindDown \in Nat /\ MaxCopies \in Nat \ {0}
  BY OrchestratorAssumption
<1>1. /\ run[r] = "queued" /\ run' = [run EXCEPT ![r] = "running"]
      /\ due' = [due EXCEPT ![r] = now + Duration + WindDown]
      /\ UNCHANGED <<now, held, pc, next, report, sleepFrom, connected>>
  BY DEF Start, handlerVars
<1>2. FleetTypes'
  BY <1>0, <1>1
<1>3. \A q \in Runs : RunInv(q)'
  BY <1>0, <1>1
<1>4. ASSUME NEW q \in Runs, LateRun(q), connected # -1 PROVE LateRun(q)'
  <2>1. pc = "returned" /\ now >= sleepFrom + SleepSeconds
    BY <1>4
  <2> QED BY <1>0, <1>1, <1>4, <2>1 DEF LateRun, HasRun
<1>5. HandlerInv'
  BY <1>1, <1>4
<1>6. \A i \in Indexes : report'[i] = "ok" => run'[<<i, 1>>] # "none"
  <2>1. \A i \in Indexes : <<i, 1>> \in Runs
    BY FirstRun
  <2> QED BY <1>1, <2>1
<1> QED BY <1>2, <1>3, <1>5, <1>6

LEMMA WorkerKeepsFleet ==
  ASSUME FleetInv, NEW r \in Runs, WorkerStep(r)
  PROVE  FleetInv'
<1> USE WorkerNumbers DEF FleetInv, FleetTypes, HandlerInv, RunInv
<1>0. MaxCopies \in Nat \ {0}
  BY OrchestratorAssumption
<1>1. run[r] = "running" /\ UNCHANGED <<now, due, pc, next, report, sleepFrom, connected>>
  BY DEF WorkerStep, handlerVars
<1>2. PICK h \in 0..WorkerCapacity :
        /\ held' = [held EXCEPT ![r] = h]
        /\ run' = run \/ (h = 0 /\ run' = [run EXCEPT ![r] = "over"])
  BY DEF WorkerStep
<1>3. FleetTypes'
  BY <1>1, <1>2
<1>4. \A q \in Runs : RunInv(q)'
  BY <1>1, <1>2
<1>5. ASSUME NEW q \in Runs, LateRun(q) PROVE LateRun(q)'
  BY <1>1, <1>2, <1>5 DEF LateRun, HasRun
<1>6. HandlerInv'
  BY <1>1, <1>5
<1>7. \A i \in Indexes : report'[i] = "ok" => run'[<<i, 1>>] # "none"
  <2>1. \A i \in Indexes : <<i, 1>> \in Runs
    BY FirstRun
  <2> QED BY <1>1, <1>2, <2>1
<1> QED BY <1>3, <1>4, <1>6, <1>7

LEMMA NextKeepsFleet == FleetInv /\ [Next]_vars => FleetInv'
<1> SUFFICES ASSUME FleetInv, [Next]_vars PROVE FleetInv'
  OBVIOUS
<1>1. CASE InvokeOk \/ InvokeLost
  BY <1>1, EnqueueKeepsFleet DEF InvokeOk, InvokeLost
<1>2. CASE \E r \in Runs : Start(r) \/ WorkerStep(r)
  BY <1>2, StartKeepsFleet, WorkerKeepsFleet
<1> QED
  BY <1>1, <1>2, HandlerKeepsFleet, InfoKeepsFleet DEF Next, Handler

(* connection_orchestrator.lambda_handler: connected_after is read when    *)
(* the runs that were on time have wound down.                             *)
THEOREM ReadsDrained == Spec => []AfterReadsDrained
<1>1. FleetInv => AfterReadsDrained
  <2> SUFFICES ASSUME FleetInv, connected # -1, connected # 0 PROVE ~ OnTime
    BY DEF AfterReadsDrained
  <2>1. PICK r \in Runs : LateRun(r)
    BY DEF FleetInv, HandlerInv
  <2>2. due[r] \in Nat /\ sleepFrom \in Nat /\ Duration \in Nat /\ Grace \in Nat
    BY OrchestratorAssumption DEF FleetInv, FleetTypes
  <2>3. run[r] = "queued" \/ (HasRun(r) /\ ~ (due[r] < sleepFrom + Duration + Grace))
    BY <2>1, <2>2 DEF LateRun, SleepSeconds
  <2> QED
    BY <2>3 DEF OnTime
<1> QED
  BY <1>1, InitFleet, NextKeepsFleet, PTL DEF Spec

(* connection_orchestrator.lambda_handler: a worker in the response        *)
(* without an error did run, if its event was delivered within the sleep.  *)
THEOREM ListedRan == Spec => []ListedWorkersRan
<1>1. FleetInv => ListedWorkersRan
  <2> SUFFICES ASSUME FleetInv, pc = "returned", MaxLate < Duration + Grace,
                      NEW i \in Indexes, report[i] = "ok"
               PROVE  Executions(i) # {}
    BY DEF ListedWorkersRan
  <2>1. <<i, 1>> \in Runs /\ run[<<i, 1>>] # "none"
    BY FirstRun DEF FleetInv
  <2>2. run[<<i, 1>>] # "queued"
    <3> DEFINE d == due[<<i, 1>>]
    <3>1. now \in Nat /\ sleepFrom \in Nat /\ d \in Nat /\ MaxLate \in Nat /\ SleepSeconds \in Nat
      BY <2>1, WorkerNumbers, OrchestratorAssumption DEF FleetInv, FleetTypes
    <3>2. now >= sleepFrom + SleepSeconds /\ SleepSeconds > MaxLate
      BY DEF FleetInv, HandlerInv, SleepSeconds
    <3>3. run[<<i, 1>>] = "queued" => now <= d /\ d <= sleepFrom + MaxLate
      BY <2>1 DEF FleetInv, RunInv
    <3> HIDE DEF d
    <3> QED BY <3>1, <3>2, <3>3
  <2>3. HasRun(<<i, 1>>)
    BY <2>1, <2>2 DEF FleetInv, FleetTypes, HasRun
  <2> QED BY <2>1, <2>3 DEF Executions
<1> QED
  BY <1>1, InitFleet, NextKeepsFleet, PTL DEF Spec

LEMMA FleetOfSingleRuns ==
  ASSUME FleetInv, \A i \in Indexes : \A r, s \in Executions(i) : r = s
  PROVE  Fleet <= WorkerCapacity * WorkerCount
<1> DEFINE ran == {r \in Runs : HasRun(r)}
<1>1. held \in [Runs -> Nat] /\ IsFiniteSet(Runs) /\ IsFiniteSet(ran)
  BY RunsFinite, FS_Subset DEF FleetInv, FleetTypes
<1>2. \A r \in Runs \ ran : held[r] = 0
  BY DEF FleetInv, RunInv, HasRun
<1>3. Fleet = SumFunctionOnSet(held, ran)
  <2>1. Fleet = SumFunctionOnSet(held, Runs)
    BY <1>1 DEF Fleet, SumFunction
  <2> HIDE DEF ran
  <2>2. ran \in SUBSET Runs
    BY DEF ran
  <2> QED BY <1>1, <1>2, <2>1, <2>2, SumOfSupport
<1>4. Cardinality(ran) <= WorkerCount /\ Cardinality(ran) \in Nat
  <2> DEFINE f == [r \in ran |-> r[1]]
  <2>1. f \in Injection(ran, Indexes)
    <3>1. \A r \in ran : r[1] \in Indexes
      BY DEF Runs
    <3>2. \A r, s \in ran : r[1] = s[1] => r = s
      BY <3>1 DEF Executions
    <3> QED BY <3>1, <3>2 DEF Injection, IsInjective
  <2> HIDE DEF f, ran
  <2> QED BY <1>1, <2>1, RunsFinite, FS_Injection, FS_CardinalityType
<1>5. WorkerCapacity \in Nat /\ WorkerCount \in Nat
  BY WorkerNumbers, OrchestratorAssumption DEF FleetInv
<1>6. SumFunctionOnSet(held, ran) <= WorkerCapacity * Cardinality(ran)
  <2>1. \A r \in ran : held[r] \in Int /\ held[r] <= WorkerCapacity
    BY <1>1 DEF FleetInv, RunInv
  <2> HIDE DEF ran
  <2> QED BY <1>1, <1>5, <2>1, SumBound
<1>7. SumFunctionOnSet(held, ran) \in Int
  BY <1>1, SumInt
<1>8. WorkerCapacity * Cardinality(ran) <= WorkerCapacity * WorkerCount
  <2>1. \A c, m, n \in Nat : m <= n => c * m <= c * n
    OBVIOUS
  <2> HIDE DEF ran
  <2> QED BY <1>4, <1>5, <2>1
<1>9. WorkerCapacity * Cardinality(ran) \in Int /\ WorkerCapacity * WorkerCount \in Int
  <2> HIDE DEF ran
  <2> QED BY <1>4, <1>5
<1> HIDE DEF ran
<1> QED BY <1>3, <1>6, <1>7, <1>8, <1>9

(* connection_orchestrator.lambda_handler and                              *)
(* connection_exhaustion.lambda_handler: the cap of a worker's target and  *)
(* the fleet's effective total hold on the server, however the runs of the *)
(* workers overlap.                                                        *)
THEOREM FleetIsBounded == Spec => []FleetBound
<1>1. FleetInv => FleetBound
  <2> SUFFICES ASSUME FleetInv PROVE FleetBound
    OBVIOUS
  <2>1. ASSUME NEW r \in Runs PROVE held[r] <= MaxPerWorker + WorkerThreads - 1
    <3>1. held[r] \in Nat /\ held[r] <= WorkerCapacity
      BY DEF FleetInv, FleetTypes, RunInv
    <3>2. WorkerThreads \in Nat /\ MaxPerWorker \in Nat
      BY OrchestratorAssumption
    <3> QED BY <3>1, <3>2, WorkerNumbers DEF WorkerCapacity
  <2>2. WorkerCapacity * WorkerCount = EffectiveTotal + WorkerCount * (WorkerThreads - 1)
    <3>1. WorkerThreads \in Nat /\ WorkerCount \in Nat /\ WorkerTarget \in Nat
      BY WorkerNumbers, OrchestratorAssumption
    <3>2. \A a, b, c \in Nat : (a + b - 1) * c = a * c + c * (b - 1)
      OBVIOUS
    <3> QED BY <3>1, <3>2 DEF WorkerCapacity, EffectiveTotal
  <2> QED BY <2>1, <2>2, FleetOfSingleRuns DEF FleetBound
<1> QED
  BY <1>1, InitFleet, NextKeepsFleet, PTL DEF Spec

-------------------------------------------------------------------------------
(* How many steps the handler takes. *)

(* The calls and sleeps between the handler and its return. *)
CallsLeft ==
  CASE pc = "before" -> (Attempts - attempt) + WorkerCount + Attempts + 3
    [] pc = "invoke" -> (WorkerCount + 1 - next) + Attempts + 2
    [] pc = "sleep" -> Attempts + 1
    [] pc = "after" -> Attempts + 1 - attempt
    [] OTHER -> 0

(* Whatever a call answers, the handler is one step nearer to its return;  *)
(* the queue, the workers and the clock do not set it back.                *)
CallCounts == CallsLeft' <= CallsLeft /\ (Handler => CallsLeft' < CallsLeft)

(* Only a handler that has returned has no call left. *)
CallsBounded ==
  /\ CallsLeft \in 0..(WorkerCount + 2 * Attempts + 2)
  /\ CallsLeft = 0 <=> pc = "returned"

(* An attempt is one of those allowed; nothing is invoked before INFO.     *)
CallsInv ==
  /\ pc \in {"before", "invoke", "sleep", "after", "returned"}
  /\ attempt \in 1..Attempts /\ next \in 1..(WorkerCount + 1)
  /\ pc = "before" => next = 1

LEMMA CallsInvBounded == CallsInv => CallsBounded
BY OrchestratorAssumption DEF CallsInv, CallsBounded, CallsLeft

LEMMA HandlerCounts ==
  ASSUME CallsInv, Handler
  PROVE  CallsInv' /\ CallsLeft' < CallsLeft
<1>0. Attempts \in Nat \ {0} /\ WorkerCount \in Nat \ {0}
  BY OrchestratorAssumption
<1>1. ASSUME pc = "before", pc' = "invoke", attempt' = 1, next' = next
      PROVE  CallsInv' /\ CallsLeft' < CallsLeft
  BY <1>0, <1>1 DEF CallsInv, CallsLeft
<1>2. ASSUME pc = "after", pc' = "returned", attempt' = 1, next' = next
      PROVE  CallsInv' /\ CallsLeft' < CallsLeft
  BY <1>0, <1>2 DEF CallsInv, CallsLeft
<1>3. CASE InfoBefore
  BY <1>1, <1>3 DEF InfoBefore, InfoPhase
<1>4. CASE InfoAfter
  BY <1>2, <1>4 DEF InfoAfter, InfoPhase
<1>5. CASE InfoGivesUp
  BY <1>1, <1>2, <1>5 DEF InfoGivesUp, InfoPhase
<1>6. CASE InfoFails
  <2>1. /\ pc \in {"before", "after"} /\ attempt < Attempts
        /\ attempt' = attempt + 1 /\ pc' = pc /\ next' = next
    BY <1>6 DEF InfoFails
  <2> QED BY <1>0, <2>1 DEF CallsInv, CallsLeft
<1>7. CASE InvokeOk \/ InvokeRefused \/ InvokeLost
  <2>1. /\ pc = "invoke" /\ pc' = pc /\ next <= WorkerCount
        /\ next' = next + 1 /\ attempt' = attempt
    BY <1>7 DEF InvokeOk, InvokeRefused, InvokeLost, InvokeStep
  <2> QED BY <1>0, <2>1 DEF CallsInv, CallsLeft
<1>8. CASE Sleep
  <2>1. /\ pc = "invoke" /\ pc' = "sleep" /\ next > WorkerCount
        /\ next' = next /\ attempt' = attempt
    BY <1>8 DEF Sleep
  <2> QED BY <1>0, <2>1 DEF CallsInv, CallsLeft
<1>9. CASE Wake
  <2>1. /\ pc = "sleep" /\ pc' = "after" /\ next' = next /\ attempt' = attempt
    BY <1>9 DEF Wake
  <2> QED BY <1>0, <2>1 DEF CallsInv, CallsLeft
<1> QED
  BY <1>3, <1>4, <1>5, <1>6, <1>7, <1>8, <1>9 DEF Handler

(* connection_orchestrator.lambda_handler: however often INFO and the      *)
(* invokes fail, the handler makes at most worker_count invokes, twice the *)
(* attempts of _info_with_retry and one sleep, and then it has returned.   *)
THEOREM ReturnsWithinCalls == Spec => []CallsBounded /\ [][CallCounts]_vars
<1>1. Init => CallsInv
  BY OrchestratorAssumption DEF Init, CallsInv
<1>2. CallsInv /\ [Next]_vars => CallsInv' /\ [CallCounts]_vars
  <2> SUFFICES ASSUME CallsInv, [Next]_vars PROVE CallsInv' /\ CallCounts
    OBVIOUS
  <2>1. CASE Handler
    <3>1. CallsInv' /\ CallsLeft' < CallsLeft
      BY <2>1, HandlerCounts
    <3>2. CallsLeft \in Nat /\ CallsLeft' \in Nat
      BY <3>1, OrchestratorAssumption DEF CallsInv, CallsLeft
    <3> QED BY <3>1, <3>2 DEF CallCounts
  <2>2. CASE ~Handler
    <3>1. pc' = pc /\ attempt' = attempt /\ next' = next
      BY <2>2 DEF Next, Start, WorkerStep, Tick, Ended, vars, handlerVars
    <3>2. CallsInv' /\ CallsLeft' = CallsLeft
      BY <3>1 DEF CallsInv, CallsLeft
    <3>3. CallsLeft \in Nat
      BY OrchestratorAssumption DEF CallsInv, CallsLeft
    <3> QED BY <2>2, <3>2, <3>3 DEF CallCounts
  <2> QED BY <2>1, <2>2
<1> QED
  BY <1>1, <1>2, CallsInvBounded, PTL DEF Spec

=============================================================================
