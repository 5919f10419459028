------------------------ MODULE ConnectionOrchestrator ------------------------
(***************************************************************************)
(* The orchestrator of the connection test                                 *)
(* (elasticache-stress-test/src/connection_orchestrator.py): it divides    *)
(* the connections wanted among worker Lambdas, invokes the workers one    *)
(* after the other without waiting for them (InvocationType Event), sleeps *)
(* for a fixed time and reads INFO.  It composes one HeldPool per worker   *)
(* that runs.  An Event invocation is queued by Lambda: it starts late, it *)
(* may start more than once, and the answer to the call may be lost.       *)
(***************************************************************************)
EXTENDS Integers, Functions

CONSTANTS
  WorkerCount,    (* worker_count                                           *)
  Desired,        (* desired_total                                          *)
  MaxPerWorker,   (* max_per_worker                                         *)
  EventTarget,    (* worker_target_total of the event (0: not given)        *)
  WorkerThreads,  (* worker_threads                                         *)
  Duration,       (* duration                                               *)
  Grace,          (* the 60 of sleep_seconds = duration + 60                *)
  Attempts,       (* attempts of _info_with_retry                           *)
  MaxCopies,      (* bound: times Lambda runs one accepted event            *)
  MaxLate,        (* bound: seconds an accepted event waits in the queue    *)
  WindDown,       (* seconds a worker may need after its end_time           *)
  MaxLag          (* bound: seconds the orchestrator spends invoking,       *)
                  (* and again reading INFO                                 *)

ASSUME OrchestratorAssumption ==
  /\ WorkerCount \in Nat \ {0} /\ WorkerThreads \in Nat \ {0}
  /\ Desired \in Nat /\ MaxPerWorker \in Nat /\ EventTarget \in Nat
  /\ Duration \in Nat /\ Grace \in Nat
  /\ Attempts \in Nat \ {0} /\ MaxCopies \in Nat \ {0}
  /\ MaxLate \in Nat /\ WindDown \in Nat /\ MaxLag \in Nat

(* math.ceil of an integer quotient. *)
CeilDiv(a, b) == (a + b - 1) \div b

(* Mutant: the cap is not applied. *)
WorkerTarget_NoCap == IF EventTarget > 0 THEN EventTarget ELSE CeilDiv(Desired, WorkerCount)

(* worker_target_total, after the cap. *)
WorkerTarget ==
  LET wanted == IF EventTarget > 0 THEN EventTarget ELSE CeilDiv(Desired, WorkerCount)
  IN  IF wanted > MaxPerWorker THEN MaxPerWorker ELSE wanted

EffectiveTotal == WorkerTarget * WorkerCount

(* What one worker may hold: HeldPool's capacity for the payload sent      *)
(* (rapid_churn is False).                                                 *)
WorkerCapacity == WorkerTarget + WorkerThreads - 1

Indexes == 1..WorkerCount
Runs == Indexes \X (1..MaxCopies)

VARIABLES
  now,        (* time                                                      *)
  pc,         (* where lambda_handler is                                   *)
  attempt,    (* attempt of _info_with_retry                               *)
  next,       (* i of the invoke loop                                      *)
  report,     (* invocation_results: "ok", "error", "none" before          *)
  sleepFrom,  (* when time.sleep was called                                *)
  connected,  (* connected_after (-1: "?")                                 *)
  run,        (* what became of each run of an event                       *)
  due,        (* when a queued run must have started, a started one ended  *)
  held        (* connections it holds                                      *)

handlerVars == <<pc, attempt, next, report, sleepFrom, connected>>
runVars == <<run, due, held>>
vars == <<now, handlerVars, runVars>>

Pool(r) == INSTANCE HeldPool WITH
  Capacity <- WorkerCapacity, held <- held[r], ended <- run[r] = "over"

Init ==
  /\ now = 0 /\ pc = "before" /\ attempt = 1 /\ next = 1
  /\ report = [i \in Indexes |-> "none"]
  /\ sleepFrom = 0 /\ connected = -1
  /\ run = [r \in Runs |-> "none"]
  /\ due = [r \in Runs |-> 0]
  /\ held = [r \in Runs |-> 0]

Fleet == SumFunction(held)

-------------------------------------------------------------------------------
(* The handler. *)

InfoPhase(p, then) ==
  /\ pc = p
  /\ pc' = then
  /\ attempt' = 1
  /\ UNCHANGED <<now, next, report, sleepFrom, runVars>>

(* An attempt that answers. *)
InfoBefore == InfoPhase("before", "invoke") /\ UNCHANGED connected
InfoAfter == InfoPhase("after", "returned") /\ connected' = Fleet

(* Mutant: after the last attempt they start again. *)
InfoFails_StartsAgain ==
  /\ pc \in {"before", "after"}
  /\ attempt' = IF attempt < Attempts THEN attempt + 1 ELSE 1
  /\ UNCHANGED <<now, pc, next, report, sleepFrom, connected, runVars>>

(* An attempt that raises: the next one, unless it was the last. *)
InfoFails ==
  /\ pc \in {"before", "after"} /\ attempt < Attempts
  /\ attempt' = attempt + 1
  /\ UNCHANGED <<now, pc, next, report, sleepFrom, connected, runVars>>

(* All attempts failed: "?" is reported and the handler goes on. *)
InfoGivesUp ==
  /\ attempt = Attempts
  /\ \/ InfoPhase("before", "invoke")
     \/ InfoPhase("after", "returned")
  /\ UNCHANGED connected

(* Lambda queues the event, to run once or several times. *)
Enqueue(i) ==
  \E copies \in 1..MaxCopies :
    /\ run' = [r \in Runs |-> IF r[1] = i /\ r[2] <= copies THEN "queued" ELSE run[r]]
    /\ due' = [r \in Runs |-> IF r[1] = i /\ r[2] <= copies THEN now + MaxLate ELSE due[r]]
    /\ UNCHANGED held

InvokeStep(answer) ==
  /\ pc = "invoke" /\ next <= WorkerCount
  /\ report' = [report EXCEPT ![next] = answer]
  /\ next' = next + 1
  /\ UNCHANGED <<now, pc, attempt, sleepFrom, connected>>

(* Mutant: a failed invoke is recorded like the others. *)
InvokeRefused_Ok == InvokeStep("ok") /\ UNCHANGED runVars

InvokeOk == InvokeStep("ok") /\ Enqueue(next)
(* invoke raises: refused, or queued and the answer was lost. *)
InvokeRefused == InvokeStep("error") /\ UNCHANGED runVars
InvokeLost == InvokeStep("error") /\ Enqueue(next)

(* Mutant: the sleep lasts as long as the test. *)
SleepSeconds_NoGrace == Duration

(* sleep_seconds = duration + 60 *)
SleepSeconds == Duration + Grace

(* time.sleep(sleep_seconds), from the last invoke. *)
Sleep ==
  /\ pc = "invoke" /\ next > WorkerCount
  /\ pc' = "sleep" /\ sleepFrom' = now
  /\ UNCHANGED <<now, attempt, next, report, connected, runVars>>

Wake ==
  /\ pc = "sleep" /\ now >= sleepFrom + SleepSeconds
  /\ pc' = "after"
  /\ UNCHANGED <<now, attempt, next, report, sleepFrom, connected, runVars>>

Handler ==
  \/ InfoBefore \/ InfoAfter \/ InfoFails \/ InfoGivesUp
  \/ InvokeOk \/ InvokeRefused \/ InvokeLost \/ Sleep \/ Wake

-------------------------------------------------------------------------------
(* Lambda's queue, the workers, the clock. *)

Start(r) ==
  /\ run[r] = "queued"
  /\ run' = [run EXCEPT ![r] = "running"]
  /\ due' = [due EXCEPT ![r] = now + Duration + WindDown]
  /\ UNCHANGED <<now, held, handlerVars>>

WorkerStep(r) ==
  /\ run[r] = "running"
  /\ \/ \E h \in 0..WorkerCapacity :
          /\ held' = [held EXCEPT ![r] = h]
          /\ UNCHANGED run
          /\ Pool(r)!Grow \/ Pool(r)!Drop
     \/ /\ held' = [held EXCEPT ![r] = 0]
        /\ run' = [run EXCEPT ![r] = "over"]
        /\ Pool(r)!End
  /\ UNCHANGED <<now, due, handlerVars>>

Tick ==
  /\ CASE pc = "sleep" -> now < sleepFrom + SleepSeconds
       [] pc = "after" -> now < sleepFrom + SleepSeconds + MaxLag
       [] pc = "returned" -> \E r \in Runs : run[r] \in {"queued", "running"}
       [] OTHER -> now < MaxLag
  /\ \A r \in Runs : run[r] \in {"queued", "running"} => now < due[r]
  /\ now' = now + 1
  /\ UNCHANGED <<handlerVars, runVars>>

Ended ==
  /\ pc = "returned" /\ \A r \in Runs : run[r] \in {"none", "over"}
  /\ UNCHANGED vars

Next ==
  \/ Handler
  \/ \E r \in Runs : Start(r) \/ WorkerStep(r)
  \/ Tick \/ Ended

Spec == Init /\ [][Next]_vars

(* Each call of the handler answers or raises, and the clock goes on: the  *)
(* queue delivers and the workers end in time (due).                       *)
Fairness ==
  /\ WF_vars(Handler) /\ WF_vars(Tick)
  /\ \A r \in Runs : WF_vars(Start(r))
                     /\ WF_vars(WorkerStep(r) /\ run'[r] = "over")

FairSpec == Spec /\ Fairness

-------------------------------------------------------------------------------
(* Properties. *)

HasRun(r) == run[r] \in {"running", "over"}
Executions(i) == {r \in Runs : r[1] = i /\ HasRun(r)}

(* The server never sees more connections than the safe limit of a worker, *)
(* with its threads' overshoot, for every run Lambda has started; that is  *)
(* the effective total and the overshoot when no event ran twice.          *)
FleetBound ==
  /\ \A r \in Runs : held[r] <= MaxPerWorker + WorkerThreads - 1
  /\ (\A i \in Indexes : \A r, s \in Executions(i) : r = s) =>
       Fleet <= EffectiveTotal + WorkerCount * (WorkerThreads - 1)

(* connected_after shows the server without the test's connections, if     *)
(* every worker that runs started early enough: the grace must cover both  *)
(* the delay of its start and the time it needs to wind down.  (It never   *)
(* shows the plateau, which is over by then.)                              *)
OnTime ==
  \A r \in Runs :
    /\ run[r] # "queued"
    /\ HasRun(r) => due[r] < sleepFrom + Duration + Grace
AfterReadsDrained == pc = "returned" /\ connected # -1 /\ OnTime => connected = 0

(* A worker the response lists without an error did run, even when the     *)
(* events were delivered late, as long as the delay was under the sleep.   *)
ListedWorkersRan ==
  pc = "returned" /\ MaxLate < Duration + Grace =>
    \A i \in Indexes : report[i] = "ok" => Executions(i) # {}

(* Whatever the invokes and the INFO calls answer, the handler returns. *)
OrchestratorReturns == <>(pc = "returned")

===============================================================================
