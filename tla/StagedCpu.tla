------------------------------- MODULE StagedCpu -------------------------------
(***************************************************************************)
(* The CPU-stress Lambda of the Aurora module                              *)
(* (aurora-fault-injection/src/stress_test/cpu_stress.py).  A phase has    *)
(* env.legacy threads (TPC-B, series or pure CPU), env.full boost threads, *)
(* env.fraction of another one (0 or 1), and env.extra more; all threads   *)
(* of all phases are started at once and wait for their phase.  An         *)
(* operation is a statement or, in TPC-B, the transaction of module TpcB.  *)
(***************************************************************************)
EXTENDS StagedRun

CONSTANT MaxOps    (* bound: operations of a thread *)

ASSUME StagedCpuAssumption ==
  /\ MaxOps \in Nat
  /\ \A s \in Settings : s.fn = "cpu" =>
       /\ PerPhase(s, s.legacy) /\ PerPhase(s, s.full)
       /\ PerPhase(s, s.fraction) /\ PerPhase(s, s.extra)

Burners == {"legacy", "boost"}

(* Mutant: the fraction's slot is forgotten. *)
FirstExtra_NoFraction(p) == env.legacy[p] + env.full[p]

(* num_threads + num_extra *)
FirstExtra(p) == env.legacy[p] + env.full[p] + env.fraction[p]

(* The threads of a phase in the order they are started. *)
CpuPlan(p) ==
  LET legacy == [j \in 1..env.legacy[p] |-> Thread(p, "legacy", j)]
      full == [j \in 1..env.full[p] |-> Thread(p, "boost", env.legacy[p] + j)]
      fraction == [j \in 1..env.fraction[p] |->
                     Thread(p, "boost", env.legacy[p] + env.full[p] + j)]
      extra == [j \in 1..env.extra[p] |-> Thread(p, "boost", FirstExtra(p) + j)]
  IN  legacy \o full \o fraction \o extra

LaunchBurners == handler = "stage" /\ LaunchPhase(CpuPlan(NextPhase))

(* The sleep until the phase begins; then the connection. *)
PhaseBegins(i) ==
  /\ AtStep(i, Burners, "start") /\ now >= PhaseStart(threads[i].phase)
  /\ Become(i, [threads[i] EXCEPT !.pc = "loop", !.open = 1])
  /\ UNCHANGED <<runVars, results>>

(* while time.time() < phase_end *)
Operate(i) ==
  /\ AtStep(i, Burners, "loop") /\ now < PhaseEnd(threads[i].phase)
  /\ threads[i].count < MaxOps
  /\ MoveTo(i, "operation")
  /\ UNCHANGED <<runVars, results>>

Operated(i) ==
  /\ AtStep(i, Burners, "operation")
  /\ Become(i, [threads[i] EXCEPT !.pc = "loop", !.count = @ + 1])
  /\ UNCHANGED <<runVars, results>>

PhaseOver(i) ==
  /\ AtStep(i, Burners, "loop") /\ now >= PhaseEnd(threads[i].phase)
  /\ EndThread(i, "ok", threads[i].count, 0)

(* The connection or a statement fails, closing does, or a sleep computed  *)
(* after the end of the phase is negative: the error is stored with the    *)
(* counter.                                                                *)
BurnerFails(i) ==
  /\ \/ AtStep(i, Burners, "start") /\ now >= PhaseStart(threads[i].phase)
     \/ AtStep(i, Burners, "operation")
     \/ AtStep(i, Burners, "loop") /\ now >= PhaseEnd(threads[i].phase)
  /\ EndThread(i, "error", threads[i].count, 1)

Burner(i) ==
  PhaseBegins(i) \/ Operate(i) \/ Operated(i) \/ PhaseOver(i) \/ BurnerFails(i)

===============================================================================
