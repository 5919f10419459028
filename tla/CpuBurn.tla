-------------------------------- MODULE CpuBurn --------------------------------
(***************************************************************************)
(* The CPU stress Lambda (elasticache-stress-test/src/cpu_stress.py): the  *)
(* threads of a phase, which run a script on the server and sleep between  *)
(* two runs when their duty is below one, and those of the flat mode.      *)
(* env.duty says of each phase whether its duty is below one.              *)
(***************************************************************************)
EXTENDS PhasedRun

CpuHandler == Ping \/ Launch \/ Join \/ JoinsOver("returned")

(* while time.time() < phase_end: the script is sent. *)
BurnBegins(t) ==
  /\ AtStep(t, "loop") /\ now < EndOf(t)
  /\ Goto(t, "sent")
  /\ timer' = [timer EXCEPT ![t] = now]
  /\ UNCHANGED <<env, now, handlerVars, ops, slot>>

LoopEnds(t) ==
  /\ AtStep(t, "loop") /\ now >= EndOf(t)
  /\ Goto(t, "finally")
  /\ UNCHANGED <<env, now, handlerVars, timer, ops, slot>>

Paused(t) == env.fn = "phased" /\ env.duty[env.phaseOf[t]]

(* The script burns the server's CPU: it takes time.  Then the operation   *)
(* is counted; a failed one is logged by a phase's thread, and ends a      *)
(* thread of the flat mode.                                                *)
BurnOk(t) ==
  /\ AtStep(t, "sent") /\ now > timer[t]
  /\ Goto(t, IF Paused(t) THEN "duty" ELSE "loop")
  /\ ops' = [ops EXCEPT ![t] = @ + 1]
  /\ UNCHANGED <<env, now, handlerVars, timer, slot>>

BurnFails(t) ==
  /\ AtStep(t, "sent") /\ now > timer[t]
  /\ Goto(t, IF env.fn = "flat" THEN "except" ELSE IF Paused(t) THEN "duty" ELSE "loop")
  /\ UNCHANGED <<env, now, handlerVars, timer, ops, slot>>

(* time.sleep(min(sleep_for, remaining)) *)
DutySleep(t) ==
  /\ AtStep(t, "duty") /\ now <= EndOf(t)
  /\ Goto(t, "pause")
  /\ \E s \in now..EndOf(t) : timer' = [timer EXCEPT ![t] = s]
  /\ UNCHANGED <<env, now, handlerVars, ops, slot>>

(* The request ended after the phase: sleep raises ValueError. *)
SleepRaises(t) ==
  /\ AtStep(t, "duty") /\ now > EndOf(t)
  /\ Goto(t, "except")
  /\ UNCHANGED <<env, now, handlerVars, timer, ops, slot>>

Resume(t) ==
  /\ AtStep(t, "pause") /\ now >= timer[t]
  /\ Goto(t, "loop")
  /\ UNCHANGED <<env, now, handlerVars, timer, ops, slot>>

(* Mutant: the phase's thread keeps the error it stored. *)
Except_Last(t) ==
  /\ AtStep(t, "except")
  /\ slot' = [slot EXCEPT ![t] = ErrorSlot]
  /\ Goto(t, "done")
  /\ UNCHANGED <<env, now, handlerVars, timer, ops>>

(* except: an error result; a phase's finally stores a normal one over it. *)
Except(t) ==
  /\ AtStep(t, "except")
  /\ slot' = [slot EXCEPT ![t] = ErrorSlot]
  /\ Goto(t, IF env.fn = "flat" THEN "done" ELSE "finally")
  /\ UNCHANGED <<env, now, handlerVars, timer, ops>>

(* The client is closed and the result stored. *)
Store(t) ==
  /\ AtStep(t, "finally")
  /\ slot' = [slot EXCEPT ![t] = [Empty EXCEPT !.kind = "ok", !.ops = ops[t]]]
  /\ Goto(t, "done")
  /\ UNCHANGED <<env, now, handlerVars, timer, ops>>

CpuThread(t) ==
  \/ ConnectOk(t) \/ ConnectFails(t) \/ PhaseBegins(t)
  \/ BurnBegins(t) \/ LoopEnds(t) \/ BurnOk(t) \/ BurnFails(t)
  \/ DutySleep(t) \/ SleepRaises(t) \/ Resume(t)
  \/ Except(t) \/ Store(t)

CpuNext == CpuHandler \/ Tick \/ \E t \in Threads : CpuThread(t)

===============================================================================
