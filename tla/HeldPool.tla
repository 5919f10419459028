------------------------------- MODULE HeldPool -------------------------------
(***************************************************************************)
(* What one worker Lambda promises to those who size a connection test by  *)
(* it: a pool of connections that grows by one connection at a time, never *)
(* beyond Capacity, and that is empty for good once the worker has ended.  *)
(* ConnectionExhaustion implements it; ConnectionOrchestrator is built on  *)
(* it.                                                                     *)
(***************************************************************************)
EXTENDS Integers

CONSTANT Capacity   (* a natural number *)

VARIABLES
  held,     (* connections the worker has open *)
  ended     (* the worker is over              *)

Init == held = 0 /\ ended = FALSE

Grow ==
  /\ ~ended /\ held < Capacity
  /\ held' = held + 1
  /\ UNCHANGED ended

(* One socket closed, or all that a thread held. *)
Drop ==
  /\ ~ended
  /\ held' \in 0..(held - 1)
  /\ UNCHANGED ended

End ==
  /\ ~ended
  /\ ended' = TRUE
  /\ held' = 0

Next == Grow \/ Drop \/ End

Spec == Init /\ [][Next]_<<held, ended>>

===============================================================================
