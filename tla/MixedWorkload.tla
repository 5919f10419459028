----------------------------- MODULE MixedWorkload -----------------------------
(***************************************************************************)
(* The mixed-workload Lambda                                               *)
(* (elasticache-stress-test/src/mixed_workload.py): open-loop threads that *)
(* send a batch each interval, keep the latencies in lists of their own,   *)
(* and hand them to the list of their phase when they end; the handler     *)
(* reports from the results and from the phases' lists, while threads that *)
(* it no longer waits for may still add to both.  Of a list of latencies   *)
(* the model keeps the length.  env.pipeline is the size of a batch and    *)
(* env.interval the time between two.                                      *)
(***************************************************************************)
EXTENDS PhasedRun

CONSTANT MaxSamples    (* _MAX_LATENCY_SAMPLES *)

ASSUME MixedAssumption ==
  /\ MaxSamples \in Nat
  /\ \A e \in Environments : e.interval \in Nat /\ e.pipeline \in Nat \ {0}

VARIABLES
  next_send,  (* when a thread may send next                               *)
  errs,       (* its local counter of errors                               *)
  kept,       (* length of its local_latencies                             *)
  extended,   (* length of each phase_latencies                            *)
  stall,      (* history: when the thread's last late answer came (or its  *)
              (* loop began), and the batches it has sent since            *)
  reporting,  (* the phase the handler reports                             *)
  report      (* of each phase                                             *)

openLoopVars == <<next_send, errs, kept, stall>>
reportVars == <<reporting, report>>
mixedVars == <<openLoopVars, extended, reportVars>>

Phases == DOMAIN env.durations

MixedInit ==
  /\ next_send = [t \in Threads |-> 0]
  /\ errs = [t \in Threads |-> 0]
  /\ kept = [t \in Threads |-> 0]
  /\ stall = [t \in Threads |-> [at |-> 0, sent |-> 0]]
  /\ extended = [p \in Phases |-> 0]
  /\ reporting = 1
  /\ report = [p \in Phases |-> [ops |-> 0, errs |-> 0, samples |-> 0]]

-------------------------------------------------------------------------------
(* A thread. *)

(* After the jitter: next_send = time.time() *)
LoopBegins(t) ==
  /\ AtStep(t, "pause") /\ now >= timer[t]
  /\ Goto(t, "loop")
  /\ next_send' = [next_send EXCEPT ![t] = now]
  /\ stall' = [stall EXCEPT ![t] = [at |-> now, sent |-> 0]]
  /\ UNCHANGED <<env, now, handlerVars, timer, ops, slot,
                 errs, kept, extended, reportVars>>

(* while time.time() < phase_end *)
LoopTest(t) ==
  /\ AtStep(t, "loop")
  /\ Goto(t, IF now < EndOf(t) THEN "due" ELSE "extend")
  /\ UNCHANGED <<env, now, handlerVars, timer, ops, slot, mixedVars>>

(* The sleep until next_send, which may be past phase_end, and the batch. *)
Send(t) ==
  /\ AtStep(t, "due") /\ now >= next_send[t]
  /\ Goto(t, "sent")
  /\ timer' = [timer EXCEPT ![t] = now]
  /\ stall' = [stall EXCEPT ![t].sent = @ + 1]
  /\ UNCHANGED <<env, now, handlerVars, ops, slot,
                 next_send, errs, kept, extended, reportVars>>

Later(a, b) == IF a > b THEN a ELSE b
Fewer(a, b) == IF a < b THEN a ELSE b

(* Mutant: a thread that is behind its schedule catches up. *)
Schedule_CatchesUp(t) == next_send[t] + env.interval

(* next_send += interval; if next_send < time.time(): next_send = time.time() *)
Schedule(t) == Later(next_send[t] + env.interval, now)

(* The inner finally: a sample, whatever became of the batch; when there   *)
(* are enough, it may replace another one.                                 *)
Sample(t) ==
  /\ Goto(t, "loop")
  /\ kept' = [kept EXCEPT ![t] = Fewer(@ + 1, MaxSamples)]
  /\ next_send' = [next_send EXCEPT ![t] = Schedule(t)]
  /\ stall' = IF now - timer[t] >= env.interval
              THEN [stall EXCEPT ![t] = [at |-> now, sent |-> 0]] ELSE stall

BatchOk(t) ==
  /\ AtStep(t, "sent")
  /\ Sample(t)
  /\ ops' = [ops EXCEPT ![t] = @ + env.pipeline]
  /\ UNCHANGED <<env, now, handlerVars, timer, slot,
                 errs, extended, reportVars>>

(* Mutant: a failed batch is counted without a sample. *)
BatchFails_NoSample(t) ==
  /\ AtStep(t, "sent")
  /\ Goto(t, "loop")
  /\ errs' = [errs EXCEPT ![t] = @ + 1]
  /\ next_send' = [next_send EXCEPT ![t] = Schedule(t)]
  /\ UNCHANGED <<env, now, handlerVars, timer, ops, slot,
                 kept, stall, extended, reportVars>>

(* Refused, broken, timed out: one error for the whole batch. *)
BatchFails(t) ==
  /\ AtStep(t, "sent")
  /\ Sample(t)
  /\ errs' = [errs EXCEPT ![t] = @ + 1]
  /\ UNCHANGED <<env, now, handlerVars, timer, ops, slot,
                 extended, reportVars>>

(* The outer finally: phase_latencies.extend(local_latencies) ... *)
Extend(t) ==
  /\ AtStep(t, "extend")
  /\ Goto(t, "finally")
  /\ extended' = [extended EXCEPT ![env.phaseOf[t]] = @ + kept[t]]
  /\ UNCHANGED <<env, now, handlerVars, timer, ops, slot,
                 openLoopVars, reportVars>>

(* ... and then the result. *)
StoreCounts(t) ==
  /\ AtStep(t, "finally")
  /\ Goto(t, "done")
  /\ slot' = [slot EXCEPT ![t] = [kind |-> "ok", ops |-> ops[t], errs |-> errs[t]]]
  /\ UNCHANGED <<env, now, handlerVars, timer, ops, mixedVars>>

MixedThread(t) ==
  \/ (ConnectOk(t) \/ ConnectFails(t) \/ PhaseBegins(t)) /\ UNCHANGED mixedVars
  \/ LoopBegins(t) \/ LoopTest(t) \/ Send(t) \/ BatchOk(t) \/ BatchFails(t)
  \/ Extend(t) \/ StoreCounts(t)

-------------------------------------------------------------------------------
(* The report, phase by phase: the results are added up, operations first, *)
(* and then the samples counted.                                           *)

InPhase(p) == {t \in Threads : env.phaseOf[t] = p}
SumOf(f(_), S) == SumFunctionOnSet([t \in S |-> f(t)], S)

Reported(t) == slot[t].ops
ReportedErrs(t) == slot[t].errs

CountOps ==
  /\ handler = "ops" /\ handler' = "errors"
  /\ report' = [report EXCEPT ![reporting].ops = SumOf(Reported, InPhase(reporting))]
  /\ UNCHANGED <<env, now, attempt, joining, joinBy, late, threadVars,
                 openLoopVars, extended, reporting>>

CountErrors ==
  /\ handler = "errors" /\ handler' = "samples"
  /\ report' = [report EXCEPT ![reporting].errs = SumOf(ReportedErrs, InPhase(reporting))]
  /\ UNCHANGED <<env, now, attempt, joining, joinBy, late, threadVars,
                 openLoopVars, extended, reporting>>

CountSamples ==
  /\ handler = "samples"
  /\ handler' = IF reporting + 1 \in Phases THEN "ops" ELSE "returned"
  /\ report' = [report EXCEPT ![reporting].samples = extended[reporting]]
  /\ reporting' = reporting + 1
  /\ UNCHANGED <<env, now, attempt, joining, joinBy, late, threadVars,
                 openLoopVars, extended>>

MixedHandler ==
  \/ (Ping \/ Launch \/ Join \/ JoinsOver("ops")) /\ UNCHANGED mixedVars
  \/ CountOps \/ CountErrors \/ CountSamples

MixedNext ==
  \/ MixedHandler
  \/ Tick /\ UNCHANGED mixedVars
  \/ \E t \in Threads : MixedThread(t)

-------------------------------------------------------------------------------
(* Properties. *)

(* A server that stalls is not flooded when it is back: however late its   *)
(* answers were, a thread sends one batch at once and the next ones at     *)
(* least an interval apart.                                                *)
NoCatchUp ==
  \A t \in Threads : (stall[t].sent - 1) * env.interval <= now - stall[t].at

Sampled(t) == Fewer(ops[t] \div env.pipeline + errs[t], MaxSamples)
Errors(t) == errs[t]
Operations(t) == ops[t]

(* The three numbers of a phase's report come from two lists read one      *)
(* after the other.  When no thread of the phase was left behind, they are *)
(* exactly what its threads counted; and even when some were, and end      *)
(* while the report is made, no operation is reported without its sample.  *)
ReportAddsUp ==
  \A p \in Phases : reporting > p =>
    /\ Fewer(report[p].ops \div env.pipeline + report[p].errs, MaxSamples)
         <= report[p].samples
    /\ InPhase(p) \cap late = {} =>
         report[p] = [ops |-> SumOf(Operations, InPhase(p)),
                      errs |-> SumOf(Errors, InPhase(p)),
                      samples |-> SumOf(Sampled, InPhase(p))]

===============================================================================
