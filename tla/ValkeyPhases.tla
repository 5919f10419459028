------------------------------ MODULE ValkeyPhases ------------------------------
(***************************************************************************)
(* The CPU and the mixed-workload Lambda of the Valkey module: the         *)
(* environment of the run says which one it is.                            *)
(***************************************************************************)
EXTENDS CpuBurn, MixedWorkload

vars == <<runVars, mixedVars>>

Init == RunInit /\ MixedInit

Returned == handler = "returned" /\ UNCHANGED vars

Next ==
  \/ env.fn # "mixed" /\ CpuNext /\ UNCHANGED mixedVars
  \/ env.fn = "mixed" /\ MixedNext
  \/ Returned

Spec == Init /\ [][Next]_vars

===============================================================================
