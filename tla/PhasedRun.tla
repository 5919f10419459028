------------------------------- MODULE PhasedRun -------------------------------
(***************************************************************************)
(* A run of phases, as the CPU and the mixed-workload Lambda of the Valkey *)
(* module make it (elasticache-stress-test/src/cpu_stress.py and           *)
(* mixed_workload.py): the handler checks the connection, starts all       *)
(* threads of all phases at once, and joins them one after the other; each *)
(* thread makes its client, and waits for its phase.  What a thread does   *)
(* in its phase is in CpuBurn and MixedWorkload.                           *)
(*                                                                         *)
(* Time counts from start_ts.  A thread may be delayed and its requests    *)
(* may take as long as they like, for ever included; the handler, who only *)
(* waits, goes on within the tick.  When it has returned, Lambda freezes   *)
(* the threads that are left.                                              *)
(***************************************************************************)
EXTENDS Integers, Sequences, Functions

CONSTANTS
  Environments,  (* the settings the Lambda is deployed with: the function *)
                 (* fn ("flat", "phased" or "mixed"), the durations of the *)
                 (* phases, the phase of each thread, and what the         *)
                 (* functions add                                          *)
  Grace,         (* what the joins wait beyond the phases                  *)
  Attempts,      (* of the connectivity check                              *)
  MaxJitter      (* the longest random delay after the phase has begun     *)

(* No handler takes an empty list of phases. *)
ASSUME RunAssumption ==
  /\ {Grace, Attempts, MaxJitter} \subseteq Nat
  /\ \A e \in Environments :
       /\ e.fn \in {"flat", "phased", "mixed"}
       /\ e.durations \in Seq(Nat) /\ e.durations # <<>>
       /\ e.phaseOf \in Seq(DOMAIN e.durations)

VARIABLES
  env,      (* the settings of this run                                    *)
  now,      (* ticks since start_ts                                        *)
  handler,  (* "ping", "launch", "join", then "returned"; MixedWorkload    *)
            (* reports before it returns                                   *)
  attempt,  (* of the connectivity check                                   *)
  joining,  (* the thread the handler waits for                            *)
  joinBy,   (* when it stops waiting for it                                *)
  late,     (* history: threads not over when the last join was            *)
  pc,       (* of each thread                                              *)
  timer,    (* when its sleep ends, or when its request was sent           *)
  ops,      (* its local counter of operations                             *)
  slot      (* its entry in the results                                    *)

handlerVars == <<handler, attempt, joining, joinBy, late>>
threadVars == <<pc, timer, ops, slot>>
runVars == <<env, now, handlerVars, threadVars>>

Threads == DOMAIN env.phaseOf
PhaseStart(p) == SumFunctionOnSet(env.durations, 1..(p - 1))
StartOf(t) == PhaseStart(env.phaseOf[t])
EndOf(t) == PhaseStart(env.phaseOf[t] + 1)
TotalDuration == PhaseStart(Len(env.durations) + 1)

(* What the joins may wait from the start of the run. *)
Deadline == TotalDuration + Grace

Empty == [kind |-> "none", ops |-> 0, errs |-> 0]
ErrorSlot == [kind |-> "error", ops |-> 0, errs |-> 0]

RunInit ==
  /\ env \in Environments
  /\ now = 0
  /\ handler = IF env.fn = "flat" THEN "launch" ELSE "ping"
  /\ attempt = 1 /\ joining = 1 /\ joinBy = 0 /\ late = {}
  /\ pc = [t \in Threads |-> "unborn"]
  /\ timer = [t \in Threads |-> 0]
  /\ ops = [t \in Threads |-> 0]
  /\ slot = [t \in Threads |-> Empty]

-------------------------------------------------------------------------------
(* The handler. *)

(* _ping_with_retry: the run goes on whether or not an attempt succeeds. *)
Ping ==
  /\ handler = "ping"
  /\ \/ handler' = "launch" /\ UNCHANGED attempt
     \/ /\ attempt < Attempts
        /\ attempt' = attempt + 1 /\ UNCHANGED handler
  /\ UNCHANGED <<env, now, joining, joinBy, late, threadVars>>

(* The threads of all phases start together. *)
Launch ==
  /\ handler = "launch"
  /\ handler' = "join"
  /\ joinBy' = Deadline
  /\ pc' = [t \in Threads |-> "connect"]
  /\ UNCHANGED <<env, now, attempt, joining, late, timer, ops, slot>>

ThreadOver(t) == pc[t] \in {"done", "dead"}

JoinReady ==
  /\ handler = "join"
  /\ joining \in Threads => ThreadOver(joining) \/ now >= joinBy

(* Mutant: each join has the whole timeout. *)
NextJoinBy_Afresh == now + Deadline

(* The phases' joins share one deadline; in the flat mode each of them has *)
(* a timeout of its own.                                                   *)
NextJoinBy == IF env.fn = "flat" THEN now + Deadline ELSE joinBy

Join ==
  /\ JoinReady /\ joining \in Threads
  /\ joining' = joining + 1
  /\ joinBy' = NextJoinBy
  /\ UNCHANGED <<env, now, handler, attempt, late, threadVars>>

JoinsOver(next) ==
  /\ JoinReady /\ joining \notin Threads
  /\ handler' = next
  /\ late' = {t \in Threads : ~ThreadOver(t)}
  /\ UNCHANGED <<env, now, attempt, joining, joinBy, threadVars>>

Tick ==
  /\ handler = "join" /\ ~JoinReady
  /\ now' = now + 1
  /\ UNCHANGED <<env, handlerVars, threadVars>>

-------------------------------------------------------------------------------
(* A thread, until its loop. *)

Goto(t, l) == pc' = [pc EXCEPT ![t] = l]
AtStep(t, l) == pc[t] = l /\ handler # "returned"

(* client_factory(): the flat mode calls it outside its try, and the       *)
(* thread dies without a result.                                           *)
ConnectOk(t) ==
  /\ AtStep(t, "connect")
  /\ Goto(t, IF env.fn = "flat" THEN "loop" ELSE "wait")
  /\ UNCHANGED <<env, now, handlerVars, timer, ops, slot>>

ConnectFails(t) ==
  /\ AtStep(t, "connect")
  /\ Goto(t, IF env.fn = "flat" THEN "dead" ELSE "done")
  /\ slot' = IF env.fn = "flat" THEN slot ELSE [slot EXCEPT ![t] = ErrorSlot]
  /\ UNCHANGED <<env, now, handlerVars, timer, ops>>

(* The sleep to the start of the phase, then the jitter. *)
PhaseBegins(t) ==
  /\ AtStep(t, "wait") /\ now >= StartOf(t)
  /\ Goto(t, "pause")
  /\ \E jitter \in 0..MaxJitter : timer' = [timer EXCEPT ![t] = now + jitter]
  /\ UNCHANGED <<env, now, handlerVars, ops, slot>>

-------------------------------------------------------------------------------
(* Properties. *)

(* However many threads hang, the handler does not wait for them beyond    *)
(* the deadline that all joins share; a flat run may wait that long for    *)
(* each of its threads.                                                    *)
ReturnsInTime ==
  handler = "join" =>
    now <= Deadline * (IF env.fn = "flat" THEN Len(env.phaseOf) ELSE 1)

(* The clients of the phases are made inside the worker's try, and its     *)
(* finally stores a result on every path: a thread that is over has        *)
(* reported all the operations it counted, even when an exception ended    *)
(* it; the flat mode may lose them, but then reports an error or nothing.  *)
ResultsSayWhatRan ==
  \A t \in Threads : ThreadOver(t) =>
    IF env.fn = "flat"
    THEN slot[t].kind = "ok" => slot[t].ops = ops[t]
    ELSE slot[t].kind # "none" /\ slot[t].ops = ops[t]

===============================================================================
