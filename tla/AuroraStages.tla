------------------------------ MODULE AuroraStages ------------------------------
(***************************************************************************)
(* The three staged stress Lambdas of the Aurora module: the settings of   *)
(* the run say which one it is.                                            *)
(***************************************************************************)
EXTENDS StagedMemory, StagedCpu

Over == handler \in {"returned", "killed"} /\ UNCHANGED stagesVars

StagesNext ==
  \/ env.fn = "connections" /\ LaunchHolders
  \/ env.fn = "memory" /\ (StartIdle \/ OpenIdle \/ LaunchSessions)
  \/ env.fn = "cpu" /\ LaunchBurners
  \/ Join \/ HandlerReturns \/ Tick \/ TimesOut \/ Over
  \/ \E i \in DOMAIN threads : Holder(i) \/ Session(i) \/ Burner(i)

StagesSpec == StagesInit /\ [][StagesNext]_stagesVars

(* The load of a run lasts: a thread that ends without an error does so at *)
(* the end of the run, in whichever phase it was started (a CPU thread, of *)
(* its phase); not even the thread that dies of a negative sleep ends      *)
(* before.  Connections are kept as long, whatever conn_hold_seconds says; *)
(* its description (variables.tf) has them closed after that time.         *)
LoadIsKept ==
  \A i \in DOMAIN threads :
    LET t == threads[i]
    IN  ThreadOver(t) /\ (t.pc = "done" => results[t.phase][t.slot].status # "error") =>
          now >= (IF t.kind \in Burners THEN PhaseEnd(t.phase) ELSE TotalDuration)

===============================================================================
