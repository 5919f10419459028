--------------------------- MODULE StagedConnections ---------------------------
(***************************************************************************)
(* The connection-exhaustion Lambda of the Aurora module                   *)
(* (aurora-fault-injection/src/stress_test/connection_exhaustion.py).  The *)
(* thread counts of the phases, env.targets, are cumulative: a phase       *)
(* starts what the one before lacks.  A thread opens env.batch             *)
(* connections and holds them to the end of the run; hold_seconds is       *)
(* passed to it and not read.  The pauses of its ramp are among the delays *)
(* any thread may have.                                                    *)
(***************************************************************************)
EXTENDS StagedRun

ASSUME StagedConnectionsAssumption ==
  \A s \in Settings : s.fn = "connections" => PerPhase(s, s.targets) /\ s.batch \in Nat

(* Mutant: the counts are taken for the phase's own. *)
NewThreads_NotCumulative(targets, p) == targets[p]

(* Fewer threads than before: range() of a negative number is empty. *)
NewThreads(targets, p) ==
  LET new == targets[p] - (IF p > 1 THEN targets[p - 1] ELSE 0)
  IN  IF new > 0 THEN new ELSE 0

LaunchHolders ==
  /\ handler = "stage" /\ now >= PhaseStart(NextPhase)
  /\ LaunchPhase([j \in 1..NewThreads(env.targets, NextPhase) |->
                    Thread(NextPhase, "holder", j)])

(* time.time() >= end_time, or the batch is open: no more connections. *)
BatchTest(i) ==
  /\ AtStep(i, {"holder"}, "start")
  /\ LET t == threads[i]
     IN  MoveTo(i, IF now < TotalDuration /\ t.tried < env.batch THEN "connect" ELSE "hold")
  /\ UNCHANGED <<runVars, results>>

(* The thread keeps the connection, and drops the one before if its SELECT *)
(* had failed.                                                             *)
Opened(i) ==
  /\ AtStep(i, {"holder"}, "connect")
  /\ LET held == threads[i].count + 1
     IN  Become(i, [threads[i] EXCEPT !.pc = "start", !.tried = @ + 1,
                                     !.count = held, !.open = held])
  /\ UNCHANGED <<runVars, results>>

(* connect() fails, or the SELECT does: then the connection stays open, in *)
(* no list, until the next one takes its variable.                         *)
NotOpened(i) ==
  /\ AtStep(i, {"holder"}, "connect")
  /\ \E open \in {threads[i].open, threads[i].count + 1} :
       Become(i, [threads[i] EXCEPT !.pc = "start", !.tried = @ + 1,
                                    !.errors = @ + 1, !.open = open])
  /\ UNCHANGED <<runVars, results>>

(* while time.time() < end_time: time.sleep(... - time.time()): the clock  *)
(* is read twice.                                                          *)
HoldTest(i) ==
  /\ AtStep(i, {"holder"}, "hold") /\ now < TotalDuration
  /\ MoveTo(i, "nap")
  /\ UNCHANGED <<runVars, results>>

Nap(i) ==
  /\ AtStep(i, {"holder"}, "nap") /\ now <= TotalDuration
  /\ MoveTo(i, "hold")
  /\ UNCHANGED <<runVars, results>>

(* A negative sleep raises: the thread is gone, with its connections, and  *)
(* its slot stays empty.                                                   *)
NapRaises(i) ==
  /\ AtStep(i, {"holder"}, "nap") /\ now > TotalDuration
  /\ Become(i, [threads[i] EXCEPT !.pc = "dead", !.open = 0])
  /\ UNCHANGED <<runVars, results>>

Release(i) ==
  /\ AtStep(i, {"holder"}, "hold") /\ now >= TotalDuration
  /\ EndThread(i, "ok", threads[i].count, threads[i].errors)

Holder(i) ==
  \/ BatchTest(i) \/ Opened(i) \/ NotOpened(i)
  \/ HoldTest(i) \/ Nap(i) \/ NapRaises(i) \/ Release(i)

-------------------------------------------------------------------------------
(* Properties. *)

NonDecreasing(targets) == \A p, q \in DOMAIN targets : p <= q => targets[p] <= targets[q]

(* What the response calls peak_concurrent: as long as no phase asks for   *)
(* fewer threads than the one before, the connections open at any time are *)
(* at most the threads the current phase asks for times the batch.         *)
PeakAsReported ==
  env.fn = "connections" /\ NonDecreasing(env.targets) /\ results # <<>> =>
    SumFunction([i \in DOMAIN threads |-> threads[i].open])
      <= env.targets[Len(results)] * env.batch

===============================================================================
