------------------------------- MODULE StagedRun -------------------------------
(***************************************************************************)
(* A staged stress run, as the CPU, connection and memory Lambdas of the   *)
(* Aurora module make it (aurora-fault-injection/src/stress_test): the     *)
(* handler starts the threads of its phases, joins them one after the      *)
(* other, each with a timeout of its own, and adds up what they left in    *)
(* the phases' slots.  Which threads a phase has and what they do is in    *)
(* StagedCpu, StagedConnections and StagedMemory.                          *)
(*                                                                         *)
(* Time counts from "now" of the handler.  A thread may be delayed, and    *)
(* its statements may take as long as they like, for ever included; the    *)
(* handler, who only waits, goes on within the tick.                       *)
(***************************************************************************)
EXTENDS Integers, Sequences, Functions

CONSTANTS
  Settings,      (* what the Lambda is deployed with: the function fn, the *)
                 (* durations of the phases, and what the function adds    *)
  Grace,         (* what a join waits beyond the run's duration            *)
  LambdaLimit    (* the function's timeout                                 *)

(* A list split at commas is not empty. *)
ASSUME StagedRunAssumption ==
  /\ Grace \in Nat /\ LambdaLimit \in Nat
  /\ \A s \in Settings :
       /\ s.fn \in {"connections", "memory", "cpu"}
       /\ s.durations \in Seq(Nat) /\ s.durations # <<>>

(* A list of numbers with one for each phase. *)
PerPhase(s, list) == list \in Seq(Nat) /\ DOMAIN s.durations \subseteq DOMAIN list

VARIABLES
  env,       (* the settings of this run                                   *)
  now,       (* ticks since the start                                      *)
  handler,   (* "stage", "idle" (it opens idle connections), "join",       *)
             (* "returned" or "killed"                                     *)
  threads,   (* all_threads: of each its phase, kind and slot, its pc, its *)
             (* counter, its errors, its attempts to connect, its open     *)
             (* connections and the end of its sleep                       *)
  results,   (* all_results: the slots of each phase                       *)
  idle,      (* all_idle_conns of the memory stress: how many              *)
  toOpen,    (* the idle connections the phase still has to open           *)
  joining,   (* the thread the handler waits for                           *)
  joinBy,    (* when it stops waiting                                      *)
  report     (* the totals of the response                                 *)

runVars == <<env, now, handler, joining, joinBy, report, idle, toOpen>>
stagesVars == <<runVars, threads, results>>

Phases == DOMAIN env.durations
PhaseStart(p) == SumFunctionOnSet(env.durations, 1..(p - 1))
PhaseEnd(p) == PhaseStart(p + 1)
TotalDuration == PhaseEnd(Len(env.durations))
JoinTimeout == TotalDuration + Grace

(* What a thread leaves: its operations, connections or sessions, and its  *)
(* errors.                                                                 *)
Amounts == {"count", "errors"}

StagesInit ==
  /\ env \in Settings
  /\ now = 0 /\ handler = "stage"
  /\ threads = <<>> /\ results = <<>> /\ idle = 0 /\ toOpen = 0
  /\ joining = 1 /\ joinBy = 0 /\ report = [f \in Amounts |-> 0]

-------------------------------------------------------------------------------
(* The handler. *)

NextPhase == Len(results) + 1
None == [status |-> "none", count |-> 0, errors |-> 0]

Thread(p, kind, slot) ==
  [phase |-> p, kind |-> kind, slot |-> slot,
   pc |-> "start", count |-> 0, errors |-> 0, tried |-> 0, open |-> 0, timer |-> 0]

(* A round of the handler's loop over the phases ends: a slot for each     *)
(* thread of the plan, and the threads are started.                        *)
LaunchPhase(plan) ==
  /\ results' = Append(results, [s \in DOMAIN plan |-> None])
  /\ threads' = threads \o plan
  /\ handler' = IF NextPhase = Len(env.durations) THEN "join" ELSE "stage"
  /\ joinBy' = now + JoinTimeout
  /\ UNCHANGED <<env, now, joining, report, idle, toOpen>>

ThreadOver(t) == t.pc \in {"done", "dead"}

JoinReady ==
  /\ handler = "join"
  /\ joining \in DOMAIN threads => ThreadOver(threads[joining]) \/ now >= joinBy

(* t.join(timeout=total_duration + 60) *)
Join ==
  /\ JoinReady /\ joining \in DOMAIN threads
  /\ joining' = joining + 1
  /\ joinBy' = now + JoinTimeout
  /\ UNCHANGED <<env, now, handler, report, idle, toOpen, threads, results>>

(* What the slots hold, a phase at a time. *)
PhaseTotal(p, f) ==
  SumFunction([s \in DOMAIN results[p] |-> results[p][s][f]])

(* The idle connections are closed, the response is made. *)
HandlerReturns ==
  /\ JoinReady /\ joining \notin DOMAIN threads
  /\ handler' = "returned"
  /\ idle' = 0
  /\ report' = [f \in Amounts |-> SumFunction([p \in DOMAIN results |-> PhaseTotal(p, f)])]
  /\ UNCHANGED <<env, now, toOpen, joining, joinBy, threads, results>>

(* In join(), in the sleep before a phase, or in connect().                *)
Waiting ==
  \/ handler = "join" /\ ~JoinReady
  \/ handler = "stage" /\ env.fn # "cpu" /\ now < PhaseStart(NextPhase)
  \/ handler = "idle" /\ toOpen > 0

Tick ==
  /\ Waiting /\ now < LambdaLimit
  /\ now' = now + 1
  /\ UNCHANGED <<env, handler, threads, results, idle, toOpen, joining, joinBy, report>>

(* The function's timeout: its connections die with it. *)
TimesOut ==
  /\ Waiting /\ now = LambdaLimit
  /\ handler' = "killed"
  /\ idle' = 0
  /\ threads' = [i \in DOMAIN threads |-> [threads[i] EXCEPT !.open = 0]]
  /\ UNCHANGED <<env, now, results, toOpen, joining, joinBy, report>>

-------------------------------------------------------------------------------
(* A thread: how it takes a step, and how it leaves its result. *)

AtStep(i, kinds, l) ==
  /\ handler \in {"stage", "idle", "join"}
  /\ threads[i].kind \in kinds /\ threads[i].pc = l

Become(i, t) == threads' = [threads EXCEPT ![i] = t]
MoveTo(i, l) == Become(i, [threads[i] EXCEPT !.pc = l])

Leave(i, status, n, errors) ==
  results' = [results EXCEPT ![threads[i].phase][threads[i].slot] =
                [status |-> status, count |-> n, errors |-> errors]]

(* The thread closes its connections and leaves n and its errors.          *)
EndThread(i, status, n, errors) ==
  /\ Become(i, [threads[i] EXCEPT !.pc = "done", !.count = n, !.errors = errors, !.open = 0])
  /\ Leave(i, status, n, errors)
  /\ UNCHANGED runVars

-------------------------------------------------------------------------------
(* Properties. *)

(* A thread that left a result; a session that is still held did.          *)
HasLeft(i) == threads[i].pc \in {"done", "holding"}

Counted(i, f) == IF HasLeft(i) THEN threads[i][f] ELSE 0

(* The totals of the response are those of the threads that left a result: *)
(* each has a slot of its own, whatever mix of threads a phase has and     *)
(* whatever ends them, failed ones included.  What the others did is       *)
(* missing, the connections they opened too; there are two kinds: a thread *)
(* whose join ran out, and not before the whole run and the grace are      *)
(* over, and one that died of a negative sleep without leaving anything.   *)
ReportIsComplete ==
  handler = "returned" =>
    /\ \A f \in Amounts : report[f] = SumFunction([i \in DOMAIN threads |-> Counted(i, f)])
    /\ \A i \in DOMAIN threads : HasLeft(i) \/ threads[i].pc = "dead" \/ now >= JoinTimeout

===============================================================================
