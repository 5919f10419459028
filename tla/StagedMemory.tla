------------------------------ MODULE StagedMemory ------------------------------
(***************************************************************************)
(* The memory-stress Lambda of the Aurora module                           *)
(* (aurora-fault-injection/src/stress_test/memory_stress.py).  The counts  *)
(* env.idle and env.targets are cumulative; a phase opens the missing idle *)
(* connections and starts, per missing session, a thread that fills a      *)
(* temporary table and one that builds env.arrays arrays.  Both sleep in   *)
(* the database for what is left of the run.  Sizes are left out.          *)
(***************************************************************************)
EXTENDS StagedConnections

ASSUME StagedMemoryAssumption ==
  \A s \in Settings : s.fn = "memory" =>
    PerPhase(s, s.targets) /\ PerPhase(s, s.idle) /\ s.arrays \in Nat

Sessions == {"temp", "agg"}

StartIdle ==
  /\ handler = "stage" /\ now >= PhaseStart(NextPhase)
  /\ handler' = "idle" /\ toOpen' = NewThreads(env.idle, NextPhase)
  /\ UNCHANGED <<env, now, threads, results, idle, joining, joinBy, report>>

(* One after the other; one that fails is logged. *)
OpenIdle ==
  /\ handler = "idle" /\ toOpen > 0
  /\ toOpen' = toOpen - 1
  /\ idle' \in {idle, idle + 1}
  /\ UNCHANGED <<env, now, handler, threads, results, joining, joinBy, report>>

LaunchSessions ==
  LET new == NewThreads(env.targets, NextPhase)
  IN  /\ handler = "idle" /\ toOpen = 0
      /\ LaunchPhase([j \in 1..(2 * new) |->
                        Thread(NextPhase, IF j <= new THEN "temp" ELSE "agg", j)])

(* Mutant: a session is held for the phase it belongs to. *)
HoldDuration_OfPhase(p) == env.durations[p]

(* remaining_hold *)
HoldDuration(p) == TotalDuration - PhaseStart(p)

(* Connected, set up and built: the temporary table's thread says so at    *)
(* once, and sleeps.                                                       *)
BuildTable(i) ==
  /\ AtStep(i, {"temp"}, "start")
  /\ Become(i, [threads[i] EXCEPT !.pc = "holding", !.count = 1, !.open = 1,
                                  !.timer = now + HoldDuration(threads[i].phase)])
  /\ Leave(i, "holding", 1, threads[i].errors)
  /\ UNCHANGED runVars

(* The declarations of the block are joined by commas and never ended: the *)
(* server takes the block only if there is no array to declare, and with   *)
(* one the thread can but fail.                                            *)
BuildArrays(i) ==
  /\ AtStep(i, {"agg"}, "start") /\ env.arrays = 0
  /\ Become(i, [threads[i] EXCEPT !.pc = "asleep", !.open = 1,
                                  !.timer = now + HoldDuration(threads[i].phase)])
  /\ UNCHANGED <<runVars, results>>

Awake(i) ==
  /\ AtStep(i, {"temp"}, "holding") \/ AtStep(i, {"agg"}, "asleep")
  /\ now >= threads[i].timer
  /\ EndThread(i, IF threads[i].kind = "temp" THEN "holding" ELSE "complete", 1, 0)

(* Any statement may fail, the one that holds included: the error replaces *)
(* what the slot held.                                                     *)
SessionFails(i) ==
  /\ \E l \in {"start", "holding", "asleep"} : AtStep(i, Sessions, l)
  /\ EndThread(i, "error", 0, 1)

Session(i) == BuildTable(i) \/ BuildArrays(i) \/ Awake(i) \/ SessionFails(i)

===============================================================================
