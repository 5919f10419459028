--------------------------------- MODULE TpcB ---------------------------------
(***************************************************************************)
(* The transaction of tpcb_staged_worker                                   *)
(* (aurora-fault-injection/src/stress_test/cpu_stress.py), run by several  *)
(* connections at once, beside the Lambda that drops the tables            *)
(* (stress_test/cleanup.py).  PostgreSQL is external: a statement locks    *)
(* its table in a shared mode, then its row; both are kept until the       *)
(* transaction ends; DROP waits for the transactions that use the table,   *)
(* and who comes later waits behind the DROP.  All balances are changed by *)
(* increments made in the database, so a table is here the sum of its      *)
(* balances.                                                               *)
(***************************************************************************)
EXTENDS Integers, FiniteSets

CONSTANTS
  Workers,      (* connections of the phase                                *)
  Accounts, Tellers, Branches,   (* rows the workers draw                  *)
  Deltas,       (* amounts they draw                                       *)
  MaxTx         (* bound: transactions a worker begins                     *)

ASSUME TpcBAssumption ==
  /\ IsFiniteSet(Workers) /\ Workers # {}
  /\ Accounts # {} /\ Tellers # {} /\ Branches # {} /\ Deltas # {}
  /\ Deltas \subseteq Nat /\ MaxTx \in Nat

Tables == {"accounts", "tellers", "branches", "history"}

VARIABLES
  tables,        (* tables that exist                                      *)
  total,         (* committed sum of each table                            *)
  pc,            (* the table of the worker's next statement, or ...       *)
  tx,            (* what it drew: a row of each table and delta            *)
  touched,       (* tables its transaction has locked                      *)
  rows,          (* rows its transaction has written, and so locked        *)
  begun,         (* transactions begun                                     *)
  transactions,  (* its local counter                                      *)
  committed,     (* history: transactions the server committed             *)
  outcome,       (* results[idx]: "none", "ok" or "error"                  *)
  phaseOver,     (* time.time() >= phase_end                               *)
  cleaned,       (* tables the cleanup is done with                        *)
  dropping       (* its DROP waits for this table ("none": for no table)   *)

bookVars == <<tables, total>>
workerVars == <<pc, tx, touched, rows, begun, transactions, committed, outcome>>
cleanVars == <<cleaned, dropping>>
vars == <<bookVars, workerVars, phaseOver, cleanVars>>

Draws == [accounts : Accounts, tellers : Tellers, branches : Branches,
          history : Workers, delta : Deltas]

Init ==
  /\ tables = Tables /\ total = [x \in Tables |-> 0]
  /\ pc = [w \in Workers |-> "loop"]
  /\ tx = [w \in Workers |-> CHOOSE t \in Draws : TRUE]
  /\ touched = [w \in Workers |-> {}]
  /\ rows = [w \in Workers |-> {}]
  /\ begun = [w \in Workers |-> 0]
  /\ transactions = [w \in Workers |-> 0]
  /\ committed = [w \in Workers |-> 0]
  /\ outcome = [w \in Workers |-> "none"]
  /\ phaseOver = FALSE
  /\ cleaned = {} /\ dropping = "none"

-------------------------------------------------------------------------------
(* A worker. *)

(* while time.time() < phase_end: draw a transaction. *)
Draw(w) ==
  /\ pc[w] = "loop" /\ ~phaseOver /\ begun[w] < MaxTx
  /\ \E t \in Draws : t.history = w /\ tx' = [tx EXCEPT ![w] = t]
  /\ pc' = [pc EXCEPT ![w] = "accounts"]
  /\ begun' = [begun EXCEPT ![w] = @ + 1]
  /\ UNCHANGED <<bookVars, touched, rows, transactions, committed, outcome,
                 phaseOver, cleanVars>>

(* The loop ends with the phase; the connection is closed. *)
Finish(w) ==
  /\ pc[w] = "loop" /\ phaseOver
  /\ pc' = [pc EXCEPT ![w] = "done"]
  /\ outcome' = [outcome EXCEPT ![w] = "ok"]
  /\ UNCHANGED <<bookVars, tx, touched, rows, begun, transactions, committed,
                 phaseOver, cleanVars>>

(* A statement first locks its table: it waits behind a DROP. *)
LockTable(w) ==
  LET x == pc[w]
  IN  /\ x \in tables /\ x \notin touched[w] /\ dropping # x
      /\ touched' = [touched EXCEPT ![w] = @ \cup {x}]
      /\ UNCHANGED <<bookVars, pc, tx, rows, begun, transactions, committed,
                     outcome, phaseOver, cleanVars>>

(* Mutant: the history is not written. *)
After_NoHistory(x) ==
  CASE x = "accounts" -> "tellers"
    [] x = "tellers" -> "branches"
    [] OTHER -> "commit"

(* The order of the statements. *)
After(x) ==
  CASE x = "accounts" -> "tellers"
    [] x = "tellers" -> "branches"
    [] x = "branches" -> "history"
    [] OTHER -> "commit"

RowOf(w, x) == <<x, tx[w][x]>>

(* Then it waits until no other transaction holds its row. *)
WriteRow(w) ==
  LET x == pc[w]
  IN  /\ x \in Tables /\ x \in touched[w]
      /\ \A v \in Workers \ {w} : RowOf(w, x) \notin rows[v]
      /\ rows' = [rows EXCEPT ![w] = @ \cup {RowOf(w, x)}]
      /\ pc' = [pc EXCEPT ![w] = After(x)]
      /\ UNCHANGED <<bookVars, tx, touched, begun, transactions, committed,
                     outcome, phaseOver, cleanVars>>

(* The transaction is over on the server: its locks are free. *)
Release(w) ==
  /\ touched' = [touched EXCEPT ![w] = {}]
  /\ rows' = [rows EXCEPT ![w] = {}]

Written(w) == {r[1] : r \in rows[w]}

(* The server makes the writes of w visible. *)
Enter(w) ==
  /\ total' = [x \in Tables |->
                 IF x \in Written(w) THEN total[x] + tx[w].delta ELSE total[x]]
  /\ committed' = [committed EXCEPT ![w] = @ + 1]

(* Mutant: no commit between the transactions of a connection. *)
Commit_Forgotten(w) ==
  /\ pc[w] = "commit"
  /\ transactions' = [transactions EXCEPT ![w] = @ + 1]
  /\ pc' = [pc EXCEPT ![w] = "loop"]
  /\ UNCHANGED <<bookVars, tx, touched, rows, begun, committed, outcome,
                 phaseOver, cleanVars>>

(* conn.commit(); transactions += 1 *)
Commit(w) ==
  /\ pc[w] = "commit"
  /\ Enter(w) /\ Release(w)
  /\ transactions' = [transactions EXCEPT ![w] = @ + 1]
  /\ pc' = [pc EXCEPT ![w] = "loop"]
  /\ UNCHANGED <<tables, tx, begun, outcome, phaseOver, cleanVars>>

(* except: the worker ends with an error. *)
EndWithError(w) ==
  /\ pc' = [pc EXCEPT ![w] = "done"]
  /\ outcome' = [outcome EXCEPT ![w] = "error"]
  /\ UNCHANGED <<tables, tx, begun, transactions, phaseOver, cleanVars>>

(* Mutant: the worker tries the next transaction. *)
CommitLost_GoesOn(w) ==
  /\ pc[w] = "commit"
  /\ Enter(w) /\ Release(w)
  /\ pc' = [pc EXCEPT ![w] = "loop"]
  /\ UNCHANGED <<tables, tx, begun, transactions, outcome, phaseOver, cleanVars>>

(* The connection breaks after the server committed: commit raises. *)
CommitLost(w) ==
  /\ pc[w] = "commit"
  /\ Enter(w) /\ Release(w)
  /\ EndWithError(w)

Failing(w) == pc[w] \in Tables \cup {"commit"}

(* Mutants: what was written is committed; nothing is rolled back.         *)
Fail_Commits(w) ==
  /\ Failing(w)
  /\ Enter(w) /\ Release(w)
  /\ EndWithError(w)

Fail_NoRollback(w) ==
  /\ Failing(w)
  /\ EndWithError(w)
  /\ UNCHANGED <<total, committed, touched, rows>>

(* A statement raises, be it for a table that is gone or for a connection  *)
(* that broke: rollback, by the worker or by the server, and raise.        *)
Fail(w) ==
  /\ Failing(w)
  /\ Release(w)
  /\ EndWithError(w)
  /\ UNCHANGED <<total, committed>>

Worker(w) ==
  \/ Draw(w) \/ Finish(w) \/ LockTable(w) \/ WriteRow(w)
  \/ Commit(w) \/ CommitLost(w) \/ Fail(w)

-------------------------------------------------------------------------------
(* The clean-up and the clock. *)

(* The order in which cleanup.py drops. *)
Turn(x) ==
  /\ x \notin cleaned /\ dropping = "none"
  /\ x = "tellers" => "history" \in cleaned
  /\ x = "accounts" => "tellers" \in cleaned
  /\ x = "branches" => "accounts" \in cleaned

(* SELECT count( * ) has answered: the DROP is in the queue. *)
IssueDrop(x) ==
  /\ Turn(x) /\ x \in tables
  /\ dropping' = x
  /\ UNCHANGED <<bookVars, workerVars, phaseOver, cleaned>>

(* DROP TABLE ... CASCADE, committed on its own. *)
Drop ==
  /\ dropping # "none"
  /\ \A w \in Workers : dropping \notin touched[w]
  /\ tables' = tables \ {dropping}
  /\ cleaned' = cleaned \cup {dropping} /\ dropping' = "none"
  /\ UNCHANGED <<total, workerVars, phaseOver>>

(* Any psycopg2.Error counts as a table that does not exist. *)
SkipTable(x) ==
  /\ Turn(x) \/ dropping = x
  /\ cleaned' = cleaned \cup {x} /\ dropping' = "none"
  /\ UNCHANGED <<bookVars, workerVars, phaseOver>>

PhaseEnd ==
  /\ ~phaseOver /\ phaseOver' = TRUE
  /\ UNCHANGED <<bookVars, workerVars, cleanVars>>

Ended ==
  /\ \A w \in Workers : pc[w] = "done"
  /\ cleaned = Tables
  /\ UNCHANGED vars

Next ==
  \/ \E w \in Workers : Worker(w)
  \/ \E x \in Tables : IssueDrop(x) \/ SkipTable(x)
  \/ Drop \/ PhaseEnd \/ Ended

Spec == Init /\ [][Next]_vars

(* The phase ends, and a statement or a DROP that can be carried out is.   *)
(* A statement on a table that is gone raises; no other error is assumed,  *)
(* nor is the clean-up ever invoked.                                       *)
Progress(w) ==
  \/ Finish(w) \/ LockTable(w) \/ WriteRow(w) \/ Commit(w)
  \/ Fail(w) /\ pc[w] \in Tables \ tables

Fairness ==
  /\ WF_vars(PhaseEnd) /\ WF_vars(Drop)
  /\ \A w \in Workers : WF_vars(Progress(w))

FairSpec == Spec /\ Fairness

-------------------------------------------------------------------------------
(* Properties. *)

TypeOK ==
  /\ tables \subseteq Tables
  /\ total \in [Tables -> Nat]
  /\ pc \in [Workers -> Tables \cup {"loop", "commit", "done"}]
  /\ tx \in [Workers -> Draws]
  /\ touched \in [Workers -> SUBSET Tables]
  /\ rows \in [Workers -> SUBSET (Tables \X (Accounts \cup Tellers \cup Branches \cup Workers))]
  /\ begun \in [Workers -> 0..MaxTx]
  /\ transactions \in [Workers -> 0..MaxTx]
  /\ committed \in [Workers -> Nat]
  /\ outcome \in [Workers -> {"none", "ok", "error"}]
  /\ phaseOver \in BOOLEAN
  /\ cleaned \subseteq Tables
  /\ dropping \in Tables \cup {"none"}

(* Whatever transactions overlap, break or find a table gone, the tables   *)
(* that are still there have entered the same transfers.                   *)
BooksAgree == \A x, y \in tables : total[x] = total[y]

(* How far a worker is in its transaction: the statements whose row it     *)
(* holds count two, the one whose table it has locked one.                 *)
Stage(w) ==
  CASE pc[w] = "accounts" -> 0 [] pc[w] = "tellers" -> 2
    [] pc[w] = "branches" -> 4 [] pc[w] = "history" -> 6
    [] pc[w] = "commit" -> 8 [] OTHER -> 0
Rank(w) == Stage(w) + (IF pc[w] \in touched[w] THEN 1 ELSE 0)

(* w cannot go on before v does: v holds its row, or a DROP that w waits   *)
(* behind waits for v.                                                     *)
WaitsFor(w, v) ==
  /\ v # w /\ pc[w] \in Tables
  /\ \/ pc[w] \in touched[w] /\ RowOf(w, pc[w]) \in rows[v]
     \/ pc[w] \notin touched[w] /\ dropping = pc[w] /\ pc[w] \in touched[v]

(* Nobody waits in a circle, not even through the clean-up: who waits,     *)
(* waits for a transaction that is further on than its own.                *)
WaitsForward == \A w, v \in Workers : WaitsFor(w, v) => Rank(w) < Rank(v)

(* A worker's result counts what the server committed for it; it may miss  *)
(* one transaction, its last, and then it reports an error.                *)
ResultMatchesServer ==
  \A w \in Workers :
    \/ committed[w] = transactions[w]
    \/ committed[w] = transactions[w] + 1 /\ outcome[w] = "error"

(* The four statements and the commit of a worker are one transfer of the  *)
(* ledger: the commit is, the rest is invisible.                           *)
Books == INSTANCE Ledger
EntersAtOnce == Books!Spec

(* Each worker ends, with a result, when its phase has: no transaction     *)
(* waits for ever, for another one or for the clean-up.                    *)
WorkersEnd == \A w \in Workers : <>(outcome[w] # "none")

===============================================================================
