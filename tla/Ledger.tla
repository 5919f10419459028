-------------------------------- MODULE Ledger --------------------------------
(***************************************************************************)
(* What the TPC-B tables are meant to be: four books in which a transfer   *)
(* is entered at once or not at all, and which are thrown away one by one. *)
(* TpcB implements it.                                                     *)
(***************************************************************************)
EXTENDS Integers

CONSTANT Deltas    (* the amounts of a transfer, natural numbers *)

Tables == {"accounts", "tellers", "branches", "history"}

VARIABLES
  tables,   (* the tables that exist                                   *)
  total     (* sum of the balances of a table, of the deltas of history *)

Init == tables = Tables /\ total = [x \in Tables |-> 0]

Transfer(d) ==
  /\ tables = Tables
  /\ total' = [x \in Tables |-> total[x] + d]
  /\ UNCHANGED tables

Discard(x) ==
  /\ x \in tables
  /\ tables' = tables \ {x}
  /\ UNCHANGED total

Next == (\E d \in Deltas : Transfer(d)) \/ (\E x \in Tables : Discard(x))

Spec == Init /\ [][Next]_<<tables, total>>

(* The tables that exist have entered the same transfers. *)
Agree == \A x, y \in tables : total[x] = total[y]
===============================================================================
