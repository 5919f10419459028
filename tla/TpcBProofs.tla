------------------------------ MODULE TpcBProofs ------------------------------
(***************************************************************************)
(* Theorems about TpcB, for any number of connections, any rows and        *)
(* amounts: a transaction that is under way has locked and written the     *)
(* tables before its next statement, and a locked table cannot be dropped. *)
(* So a commit enters all four books at once, and who waits, waits for a   *)
(* transaction that is further on.                                         *)
(***************************************************************************)
EXTENDS TpcB, SumLemmas

(* The tables whose statements come before that of x. *)
Before(x) ==
  CASE x = "tellers" -> {"accounts"}
    [] x = "branches" -> {"accounts", "tellers"}
    [] x = "history" -> {"accounts", "tellers", "branches"}
    [] x = "commit" -> Tables
    [] OTHER -> {}

(* The locks of a transaction are those of the statements it has made. *)
LockInv(w) ==
  /\ Written(w) = Before(pc[w])
  /\ Before(pc[w]) \subseteq touched[w]
  /\ touched[w] \subseteq Before(pc[w]) \cup {pc[w]}
  /\ touched[w] \subseteq tables

(* Its counters: a transaction under way is begun and not yet counted.     *)
CountInv(w) ==
  /\ transactions[w] <= begun[w]
  /\ pc[w] \in Tables \cup {"commit"} => transactions[w] < begun[w]
  /\ pc[w] # "done" => outcome[w] = "none" /\ committed[w] = transactions[w]
  /\ \/ committed[w] = transactions[w]
     \/ committed[w] = transactions[w] + 1 /\ outcome[w] = "error"

DropInv == dropping # "none" => dropping \in tables

TpcBInv ==
  /\ TypeOK
  /\ \A w \in Workers : LockInv(w) /\ CountInv(w)
  /\ DropInv /\ BooksAgree

-------------------------------------------------------------------------------
(* Lemmas about the order of the statements. *)

LEMMA AfterBefore ==
  ASSUME NEW x \in Tables
  PROVE  /\ Before(After(x)) = Before(x) \cup {x}
         /\ After(x) \in Tables \cup {"commit"}
         /\ x \notin Before(x)
BY DEF Before, After, Tables

LEMMA DrawnRow ==
  ASSUME NEW t \in Draws, NEW x \in Tables
  PROVE  t[x] \in Accounts \cup Tellers \cup Branches \cup Workers
BY DEF Draws, Tables

LEMMA DrawnDelta ==
  ASSUME NEW t \in Draws
  PROVE  t.delta \in Deltas /\ t.delta \in Nat
BY TpcBAssumption DEF Draws

LEMMA OneMoreRow ==
  ASSUME NEW S, NEW x, NEW y
  PROVE  {r[1] : r \in S \cup {<<x, y>>}} = {r[1] : r \in S} \cup {x}
<1>1. <<x, y>>[1] = x
  OBVIOUS
<1> QED
  BY <1>1

LEMMA InitTpcBInv == Init => TpcBInv
<1> SUFFICES ASSUME Init PROVE TpcBInv
  OBVIOUS
<1>1. (CHOOSE t \in Draws : TRUE) \in Draws
  <2>1. PICK a \in Accounts, b \in Tellers, c \in Branches, w \in Workers, d \in Deltas : TRUE
    BY TpcBAssumption
  <2>2. [accounts |-> a, tellers |-> b, branches |-> c, history |-> w, delta |-> d] \in Draws
    BY DEF Draws
  <2> QED
    BY <2>2
<1>2. TypeOK
  <2>1. /\ total \in [Tables -> Nat] /\ tx \in [Workers -> Draws]
        /\ begun \in [Workers -> 0..MaxTx] /\ transactions \in [Workers -> 0..MaxTx]
        /\ committed \in [Workers -> Nat]
    BY <1>1, TpcBAssumption DEF Init
  <2> QED
    BY <2>1 DEF Init, TypeOK
<1>3. \A w \in Workers : LockInv(w) /\ CountInv(w)
  BY DEF Init, LockInv, CountInv, Before, Written, Tables
<1> QED
  BY <1>2, <1>3 DEF Init, TpcBInv, DropInv, BooksAgree, Tables

-------------------------------------------------------------------------------
(* What a step of one worker leaves alone. *)

(* The worker w has moved, and nothing of the others or of the tables. *)
OnlyWorker(w) ==
  /\ UNCHANGED <<tables, phaseOver, cleanVars>>
  /\ \A u \in Workers \ {w} :
       /\ pc'[u] = pc[u] /\ touched'[u] = touched[u] /\ rows'[u] = rows[u]
       /\ begun'[u] = begun[u] /\ transactions'[u] = transactions[u]
       /\ committed'[u] = committed[u] /\ outcome'[u] = outcome[u]

LEMMA OnlyWorkerKeeps ==
  ASSUME TpcBInv, NEW w \in Workers, OnlyWorker(w), TypeOK',
         LockInv(w)', CountInv(w)', BooksAgree'
  PROVE  TpcBInv'
<1>1. \A u \in Workers : LockInv(u)' /\ CountInv(u)'
  <2> SUFFICES ASSUME NEW u \in Workers, u # w PROVE LockInv(u)' /\ CountInv(u)'
    OBVIOUS
  <2>1. LockInv(u) /\ CountInv(u)
    BY DEF TpcBInv
  <2> QED
    BY <2>1 DEF OnlyWorker, LockInv, CountInv, Written
<1> QED
  BY <1>1 DEF TpcBInv, DropInv, OnlyWorker, cleanVars

LEMMA SameTotals ==
  ASSUME TpcBInv, UNCHANGED <<tables, total>>
  PROVE  BooksAgree'
BY DEF TpcBInv, BooksAgree

(* A commit finds every table locked, and so there. *)
LEMMA CommitEntersAll ==
  ASSUME TpcBInv, NEW w \in Workers, pc[w] = "commit", Enter(w)
  PROVE  /\ tables = Tables
         /\ tx[w].delta \in Deltas
         /\ total' = [x \in Tables |-> total[x] + tx[w].delta]
         /\ total' \in [Tables -> Nat]
         /\ \A x, y \in Tables : total'[x] = total'[y]
         /\ committed' = [committed EXCEPT ![w] = @ + 1]
<1>1. /\ LockInv(w) /\ tables \subseteq Tables /\ total \in [Tables -> Nat]
      /\ tx[w] \in Draws
  BY DEF TpcBInv, TypeOK
<1>2. Before("commit") = Tables
  BY DEF Before, Tables
<1>3. Written(w) = Tables /\ tables = Tables
  BY <1>1, <1>2 DEF LockInv
<1>4. tx[w].delta \in Deltas /\ tx[w].delta \in Nat
  BY <1>1, DrawnDelta
<1>5. total' = [x \in Tables |-> total[x] + tx[w].delta]
  BY <1>3 DEF Enter
<1>6. \A x, y \in Tables : total[x] = total[y]
  BY <1>3 DEF TpcBInv, BooksAgree
<1> QED
  BY <1>1, <1>3, <1>4, <1>5, <1>6 DEF Enter

-------------------------------------------------------------------------------
(* Every step keeps the invariant. *)

LEMMA DrawKeeps ==
  ASSUME TpcBInv, NEW w \in Workers, Draw(w)
  PROVE  TpcBInv'
<1>0. TypeOK /\ LockInv(w) /\ CountInv(w)
  BY DEF TpcBInv
<1>1. OnlyWorker(w)
  BY <1>0 DEF Draw, OnlyWorker, TypeOK, bookVars, cleanVars
<1>2. TypeOK'
  BY <1>0, TpcBAssumption DEF Draw, TypeOK, bookVars, cleanVars, Tables
<1>3. LockInv(w)'
  BY <1>0 DEF Draw, LockInv, Written, Before, TypeOK, Tables, bookVars
<1>4. CountInv(w)'
  BY <1>0 DEF Draw, CountInv, TypeOK, Tables
<1>5. BooksAgree'
  BY SameTotals DEF Draw, bookVars
<1> QED
  BY <1>1, <1>2, <1>3, <1>4, <1>5, OnlyWorkerKeeps

LEMMA FinishKeeps ==
  ASSUME TpcBInv, NEW w \in Workers, Finish(w)
  PROVE  TpcBInv'
<1>0. TypeOK /\ LockInv(w) /\ CountInv(w)
  BY DEF TpcBInv
<1>1. OnlyWorker(w)
  BY <1>0 DEF Finish, OnlyWorker, TypeOK, bookVars, cleanVars
<1>2. TypeOK'
  BY <1>0 DEF Finish, TypeOK, bookVars, cleanVars
<1>3. LockInv(w)'
  BY <1>0 DEF Finish, LockInv, Written, Before, TypeOK, Tables, bookVars
<1>4. CountInv(w)'
  BY <1>0 DEF Finish, CountInv, TypeOK, Tables
<1>5. BooksAgree'
  BY SameTotals DEF Finish, bookVars
<1> QED
  BY <1>1, <1>2, <1>3, <1>4, <1>5, OnlyWorkerKeeps

LEMMA LockTableKeeps ==
  ASSUME TpcBInv, NEW w \in Workers, LockTable(w)
  PROVE  TpcBInv'
<1>0. TypeOK /\ LockInv(w) /\ CountInv(w)
  BY DEF TpcBInv
<1>1. OnlyWorker(w)
  BY <1>0 DEF LockTable, OnlyWorker, TypeOK, bookVars, cleanVars
<1>2. TypeOK'
  BY <1>0 DEF LockTable, TypeOK, bookVars, cleanVars
<1>3. LockInv(w)'
  BY <1>0 DEF LockTable, LockInv, Written, TypeOK, bookVars
<1>4. CountInv(w)'
  BY <1>0 DEF LockTable, CountInv, TypeOK
<1>5. BooksAgree'
  BY SameTotals DEF LockTable, bookVars
<1> QED
  BY <1>1, <1>2, <1>3, <1>4, <1>5, OnlyWorkerKeeps

LEMMA WriteRowKeeps ==
  ASSUME TpcBInv, NEW w \in Workers, WriteRow(w)
  PROVE  TpcBInv'
<1>0. TypeOK /\ LockInv(w) /\ CountInv(w)
  BY DEF TpcBInv
<1> DEFINE x == pc[w]
<1>1. /\ x \in Tables /\ x \in touched[w]
      /\ rows' = [rows EXCEPT ![w] = @ \cup {RowOf(w, x)}]
      /\ pc' = [pc EXCEPT ![w] = After(x)]
      /\ UNCHANGED <<tables, total, tx, touched, begun, transactions, committed,
                     outcome, phaseOver, cleaned, dropping>>
  BY DEF WriteRow, bookVars, cleanVars
<1>2. /\ Before(After(x)) = Before(x) \cup {x}
      /\ After(x) \in Tables \cup {"commit"}
  BY <1>1, AfterBefore
<1>3. OnlyWorker(w)
  BY <1>0, <1>1 DEF OnlyWorker, TypeOK, cleanVars
<1>4. RowOf(w, x) \in Tables \X (Accounts \cup Tellers \cup Branches \cup Workers)
  BY <1>0, <1>1, DrawnRow DEF RowOf, TypeOK
<1>5. TypeOK'
  BY <1>0, <1>1, <1>2, <1>4 DEF TypeOK
<1>6. LockInv(w)'
  <2>1. pc'[w] = After(x) /\ rows'[w] = rows[w] \cup {RowOf(w, x)}
    BY <1>0, <1>1 DEF TypeOK
  <2>2. Written(w)' = {r[1] : r \in rows[w] \cup {<<x, tx[w][x]>>}}
    BY <2>1 DEF Written, RowOf
  <2>3. Written(w)' = Written(w) \cup {x}
    BY <2>2, OneMoreRow DEF Written
  <2> QED
    BY <1>0, <1>1, <1>2, <2>1, <2>3 DEF LockInv
<1>7. CountInv(w)'
  BY <1>0, <1>1, <1>2 DEF CountInv, TypeOK, Tables
<1>8. BooksAgree'
  BY <1>1, SameTotals
<1> QED
  BY <1>3, <1>5, <1>6, <1>7, <1>8, OnlyWorkerKeeps

LEMMA CommitKeeps ==
  ASSUME TpcBInv, NEW w \in Workers, Commit(w)
  PROVE  TpcBInv'
<1>0. TypeOK /\ LockInv(w) /\ CountInv(w) /\ pc[w] = "commit" /\ Enter(w)
  BY DEF TpcBInv, Commit
<1>1. /\ total' \in [Tables -> Nat]
      /\ tables = Tables /\ \A x, y \in Tables : total'[x] = total'[y]
      /\ committed' = [committed EXCEPT ![w] = @ + 1]
  BY <1>0, CommitEntersAll
<1>2. /\ pc' = [pc EXCEPT ![w] = "loop"]
      /\ transactions' = [transactions EXCEPT ![w] = @ + 1]
      /\ touched' = [touched EXCEPT ![w] = {}]
      /\ rows' = [rows EXCEPT ![w] = {}]
      /\ UNCHANGED <<tables, tx, begun, outcome, phaseOver, cleaned, dropping>>
  BY DEF Commit, Release, cleanVars
<1>3. OnlyWorker(w)
  BY <1>0, <1>1, <1>2 DEF OnlyWorker, TypeOK, cleanVars
<1>4. TypeOK'
  BY <1>0, <1>1, <1>2, TpcBAssumption DEF TypeOK, CountInv
<1>5. LockInv(w)'
  BY <1>0, <1>2 DEF LockInv, Written, Before, TypeOK, Tables
<1>6. CountInv(w)'
  BY <1>0, <1>1, <1>2, TpcBAssumption DEF CountInv, TypeOK, Tables
<1>7. BooksAgree'
  BY <1>1, <1>2 DEF BooksAgree
<1> QED
  BY <1>3, <1>4, <1>5, <1>6, <1>7, OnlyWorkerKeeps

(* An error ends the transaction, whether or not the server committed it. *)
LEMMA EndedKeeps ==
  ASSUME TpcBInv, NEW w \in Workers, Failing(w), Release(w), EndWithError(w),
         total' \in [Tables -> Nat], BooksAgree',
         \/ committed' = committed
         \/ committed' = [committed EXCEPT ![w] = @ + 1]
  PROVE  TpcBInv'
<1>0. TypeOK /\ LockInv(w) /\ CountInv(w)
  BY DEF TpcBInv
<1>2. /\ pc' = [pc EXCEPT ![w] = "done"]
      /\ outcome' = [outcome EXCEPT ![w] = "error"]
      /\ touched' = [touched EXCEPT ![w] = {}]
      /\ rows' = [rows EXCEPT ![w] = {}]
      /\ UNCHANGED <<tables, tx, begun, transactions, phaseOver, cleaned, dropping>>
  BY DEF EndWithError, Release, cleanVars
<1>3. OnlyWorker(w)
  BY <1>0, <1>2 DEF OnlyWorker, TypeOK, cleanVars
<1>4. TypeOK'
  BY <1>0, <1>2 DEF TypeOK
<1>5. LockInv(w)'
  BY <1>0, <1>2 DEF LockInv, Written, Before, TypeOK, Tables
<1>6. CountInv(w)'
  BY <1>0, <1>2 DEF CountInv, TypeOK, Tables, Failing
<1> QED
  BY <1>3, <1>4, <1>5, <1>6, OnlyWorkerKeeps

LEMMA CommitLostKeeps ==
  ASSUME TpcBInv, NEW w \in Workers, CommitLost(w)
  PROVE  TpcBInv'
<1>1. pc[w] = "commit" /\ Enter(w) /\ Release(w) /\ EndWithError(w) /\ Failing(w)
  BY DEF CommitLost, Failing
<1>2. /\ total' \in [Tables -> Nat]
      /\ tables = Tables /\ \A x, y \in Tables : total'[x] = total'[y]
      /\ committed' = [committed EXCEPT ![w] = @ + 1]
  BY <1>1, CommitEntersAll
<1>3. BooksAgree'
  BY <1>1, <1>2 DEF BooksAgree, EndWithError
<1> QED
  BY <1>1, <1>2, <1>3, EndedKeeps

LEMMA FailKeeps ==
  ASSUME TpcBInv, NEW w \in Workers, Fail(w)
  PROVE  TpcBInv'
<1>1. Failing(w) /\ Release(w) /\ EndWithError(w) /\ UNCHANGED <<total, committed, tables>>
  BY DEF Fail, EndWithError
<1>2. total' \in [Tables -> Nat]
  BY <1>1 DEF TpcBInv, TypeOK
<1> QED
  BY <1>1, <1>2, SameTotals, EndedKeeps

(* A DROP waits for every transaction that has locked its table. *)
LEMMA DropKeeps ==
  ASSUME TpcBInv, Drop
  PROVE  TpcBInv'
<1>0. TypeOK /\ \A w \in Workers : LockInv(w) /\ CountInv(w)
  BY DEF TpcBInv
<1>1. /\ dropping \in tables
      /\ tables' = tables \ {dropping}
      /\ cleaned' = cleaned \cup {dropping} /\ dropping' = "none"
      /\ \A w \in Workers : dropping \notin touched[w]
      /\ UNCHANGED <<total, pc, tx, touched, rows, begun, transactions, committed,
                     outcome, phaseOver>>
  BY DEF Drop, TpcBInv, DropInv, workerVars
<1>2. TypeOK'
  BY <1>0, <1>1 DEF TypeOK
<1>3. \A w \in Workers : LockInv(w)' /\ CountInv(w)'
  BY <1>0, <1>1 DEF LockInv, CountInv, Written
<1>4. DropInv' /\ BooksAgree'
  BY <1>1 DEF TpcBInv, DropInv, BooksAgree
<1> QED
  BY <1>2, <1>3, <1>4 DEF TpcBInv

(* The other steps of the clean-up and of the clock move nothing else. *)
LEMMA CleanerKeeps ==
  ASSUME TpcBInv, UNCHANGED <<bookVars, workerVars>>,
         phaseOver' \in BOOLEAN, cleaned' \subseteq Tables,
         dropping' \in tables \cup {"none"}
  PROVE  TpcBInv'
<1>0. TypeOK /\ \A w \in Workers : LockInv(w) /\ CountInv(w)
  BY DEF TpcBInv
<1>1. UNCHANGED <<tables, total, pc, tx, touched, rows, begun, transactions, committed, outcome>>
  BY DEF bookVars, workerVars
<1>2. TypeOK'
  BY <1>0, <1>1 DEF TypeOK
<1>3. \A w \in Workers : LockInv(w)' /\ CountInv(w)'
  BY <1>0, <1>1 DEF LockInv, CountInv, Written
<1> QED
  BY <1>1, <1>2, <1>3, SameTotals DEF TpcBInv, DropInv

LEMMA NextTpcBInv == TpcBInv /\ [Next]_vars => TpcBInv'
<1> SUFFICES ASSUME TpcBInv, [Next]_vars PROVE TpcBInv'
  OBVIOUS
<1>0. TypeOK /\ DropInv
  BY DEF TpcBInv
<1>1. ASSUME NEW w \in Workers, Worker(w) PROVE TpcBInv'
  BY <1>1, DrawKeeps, FinishKeeps, LockTableKeeps, WriteRowKeeps, CommitKeeps,
     CommitLostKeeps, FailKeeps DEF Worker
<1>2. ASSUME NEW x \in Tables, IssueDrop(x) PROVE TpcBInv'
  BY <1>0, <1>2, CleanerKeeps DEF IssueDrop, TypeOK
<1>3. ASSUME NEW x \in Tables, SkipTable(x) PROVE TpcBInv'
  BY <1>0, <1>3, CleanerKeeps DEF SkipTable, TypeOK
<1>4. CASE PhaseEnd
  BY <1>0, <1>4, CleanerKeeps DEF PhaseEnd, TypeOK, DropInv, cleanVars
<1>5. CASE UNCHANGED vars
  BY <1>0, <1>5, CleanerKeeps DEF vars, TypeOK, DropInv, cleanVars
<1> QED
  BY <1>1, <1>2, <1>3, <1>4, <1>5, DropKeeps DEF Next, Ended

(* What the transactions of cpu_stress and the clean-up keep between them: *)
(* the locks, the pending writes and the books of each worker agree.       *)
THEOREM TpcBInvariant == Spec => []TpcBInv
BY InitTpcBInv, NextTpcBInv, PTL DEF Spec

-------------------------------------------------------------------------------
(* The theorems a reader looks for. *)

(* Whatever transactions overlap, break or find a table gone, the tables   *)
(* that are still there have entered the same transfers.                   *)
THEOREM BooksAlwaysAgree == Spec => []BooksAgree
<1>1. TpcBInv => BooksAgree
  BY DEF TpcBInv
<1> QED
  BY <1>1, TpcBInvariant, PTL

(* Every variable keeps its type, and no worker counts more transactions   *)
(* than it began.                                                          *)
THEOREM TpcBTypeCorrect == Spec => []TypeOK
<1>1. TpcBInv => TypeOK
  BY DEF TpcBInv
<1> QED
  BY <1>1, TpcBInvariant, PTL

(* A worker's result counts what the server committed for it; it may miss  *)
(* its last transaction, and then reports an error.                        *)
THEOREM ResultsAlwaysMatch == Spec => []ResultMatchesServer
<1>1. TpcBInv => ResultMatchesServer
  BY DEF TpcBInv, CountInv, ResultMatchesServer
<1> QED
  BY <1>1, TpcBInvariant, PTL

(* The statement of x comes before whatever follows it. *)
LEMMA StageOfBefore ==
  ASSUME NEW w \in Workers, NEW v \in Workers, TypeOK,
         pc[w] \in Tables, pc[w] \in Before(pc[v])
  PROVE  Stage(w) + 2 <= Stage(v) /\ Stage(w) \in Nat /\ Stage(v) \in Nat
BY DEF TypeOK, Stage, Before, Tables

LEMMA InvWaitsForward == TpcBInv => WaitsForward
<1> SUFFICES ASSUME TpcBInv, NEW w \in Workers, NEW v \in Workers, WaitsFor(w, v)
             PROVE  Rank(w) < Rank(v)
  BY DEF WaitsForward
<1>0. TypeOK /\ LockInv(v) /\ pc[w] \in Tables
  BY DEF TpcBInv, WaitsFor
<1>1. CASE pc[w] \in Before(pc[v])
  BY <1>0, <1>1, StageOfBefore DEF Rank
<1>2. CASE pc[w] \in touched[w] /\ RowOf(w, pc[w]) \in rows[v]
  <2>1. pc[w] \in Written(v)
    BY <1>2 DEF Written, RowOf
  <2> QED
    BY <1>0, <1>1, <2>1 DEF LockInv
<1>3. CASE pc[w] \notin touched[w] /\ pc[w] \in touched[v]
  <2>1. CASE pc[w] \in Before(pc[v])
    BY <1>1, <2>1
  <2>2. CASE pc[w] = pc[v]
    <3>1. Stage(w) = Stage(v) /\ Stage(w) \in Nat
      BY <1>0, <2>2 DEF Stage, Tables
    <3> QED
      BY <1>3, <2>2, <3>1 DEF Rank
  <2> QED
    BY <1>0, <1>3, <2>1, <2>2 DEF LockInv
<1> QED
  BY <1>2, <1>3 DEF WaitsFor

(* Who waits, waits for a transaction that is further on: the four tables  *)
(* are written in one order, the clean-up drops one table at a time, and   *)
(* so nobody ever waits in a circle.                                       *)
THEOREM NobodyWaitsInACircle == Spec => []WaitsForward
BY InvWaitsForward, TpcBInvariant, PTL

-------------------------------------------------------------------------------
(* TpcB implements Ledger. *)

LEMMA InitIsLedgerInit == Init => Books!Init
BY DEF Init, Books!Init, Tables, Books!Tables

LEMMA StepIsLedgerStep ==
  TpcBInv /\ [Next]_vars => [Books!Next]_<<tables, total>>
<1> SUFFICES ASSUME TpcBInv, [Next]_vars
             PROVE  Books!Next \/ UNCHANGED <<tables, total>>
  OBVIOUS
<1>0. Books!Tables = Tables /\ tables \subseteq Tables
  BY DEF Books!Tables, Tables, TpcBInv, TypeOK
<1>1. ASSUME NEW w \in Workers, pc[w] = "commit", Enter(w), UNCHANGED tables
      PROVE  Books!Next
  <2>1. /\ tables = Tables /\ tx[w].delta \in Deltas
        /\ total' = [x \in Tables |-> total[x] + tx[w].delta]
    BY <1>1, CommitEntersAll
  <2>2. Books!Transfer(tx[w].delta)
    BY <1>0, <1>1, <2>1 DEF Books!Transfer
  <2> QED
    BY <2>1, <2>2 DEF Books!Next
<1>2. ASSUME NEW w \in Workers, Worker(w)
      PROVE  Books!Next \/ UNCHANGED <<tables, total>>
  <2>1. CASE Commit(w) \/ CommitLost(w)
    BY <1>1, <2>1 DEF Commit, CommitLost, EndWithError
  <2>2. CASE Draw(w) \/ Finish(w) \/ LockTable(w) \/ WriteRow(w) \/ Fail(w)
    BY <2>2 DEF Draw, Finish, LockTable, WriteRow, Fail, EndWithError, bookVars
  <2> QED
    BY <1>2, <2>1, <2>2 DEF Worker
<1>3. CASE Drop
  <2>1. dropping \in tables /\ tables' = tables \ {dropping} /\ UNCHANGED total
    BY <1>3 DEF Drop, TpcBInv, DropInv
  <2> QED
    BY <1>0, <2>1 DEF Books!Next, Books!Discard
<1>4. ASSUME NEW x \in Tables, IssueDrop(x) \/ SkipTable(x)
      PROVE  UNCHANGED <<tables, total>>
  BY <1>4 DEF IssueDrop, SkipTable, bookVars
<1>5. CASE PhaseEnd \/ Ended \/ UNCHANGED vars
  BY <1>5 DEF PhaseEnd, Ended, vars, bookVars
<1> QED
  BY <1>2, <1>3, <1>4, <1>5 DEF Next

(* The four statements and the commit of a worker are one transfer of the  *)
(* ledger, for any number of workers.                                      *)
THEOREM TransactionsAreTransfers == Spec => EntersAtOnce
BY InitIsLedgerInit, StepIsLedgerStep, TpcBInvariant, PTL
   DEF Spec, EntersAtOnce, Books!Spec

-------------------------------------------------------------------------------
(* Why every worker ends. *)

(* What w may do next without waiting for anybody: the guards of its       *)
(* steps, and of a statement on a table that is gone.                      *)
CanGoOn(w) ==
  \/ pc[w] = "loop" /\ phaseOver
  \/ pc[w] = "commit"
  \/ pc[w] \in Tables \ tables
  \/ pc[w] \in tables \ touched[w] /\ dropping # pc[w]
  \/ /\ pc[w] \in touched[w]
     /\ \A v \in Workers \ {w} : RowOf(w, pc[w]) \notin rows[v]

DropCanRun == dropping # "none" /\ \A w \in Workers : dropping \notin touched[w]

HasWork(w) == pc[w] \in Tables \cup {"commit"} \/ (pc[w] = "loop" /\ phaseOver)

(* As long as a worker has something to do, one of them can do it or the   *)
(* DROP can be carried out.                                                *)
SomeoneGoesOn ==
  (\E w \in Workers : HasWork(w)) => DropCanRun \/ \E w \in Workers : CanGoOn(w)

(* The steps of w before it ends, once the phase is over. *)
StepsLeft(w) ==
  CASE pc[w] = "done" -> 0
    [] pc[w] = "loop" -> 1
    [] OTHER -> 10 - Rank(w)

(* When the phase is over each step of a worker brings it nearer to its    *)
(* end, and neither the others nor the clean-up set it back.               *)
StepCounts ==
  phaseOver =>
    \A w \in Workers :
      /\ StepsLeft(w)' <= StepsLeft(w)
      /\ Worker(w) => StepsLeft(w)' < StepsLeft(w)

(* Only a worker that is done has no step left. *)
StepsBounded ==
  \A w \in Workers :
    /\ StepsLeft(w) \in 0..10
    /\ StepsLeft(w) = 0 <=> pc[w] = "done"

LEMMA RankBounded ==
  ASSUME TypeOK, NEW w \in Workers
  PROVE  /\ Stage(w) \in {0, 2, 4, 6, 8}
         /\ Rank(w) \in Stage(w)..(Stage(w) + 1)
         /\ pc[w] \in {"loop", "commit", "done"} => Rank(w) = Stage(w)
         /\ pc[w] \in {"loop", "done"} => Rank(w) = 0
         /\ pc[w] \in Tables => Stage(w) <= 6
<1>1. /\ pc[w] \in {"accounts", "tellers", "branches", "history", "loop", "commit", "done"}
      /\ touched[w] \subseteq Tables
  BY DEF TypeOK, Tables
<1>2. /\ Stage(w) \in {0, 2, 4, 6, 8}
      /\ pc[w] \in {"loop", "done"} => Stage(w) = 0
      /\ pc[w] \in Tables => Stage(w) <= 6
  BY <1>1 DEF Stage, Tables
<1>3. pc[w] \in {"loop", "commit", "done"} => pc[w] \notin touched[w]
  BY <1>1 DEF Tables
<1> QED
  BY <1>2, <1>3 DEF Rank

RanksInOrder ==
  \A w \in Workers : Rank(w) \in 0..9 /\ Rank(w) \in Stage(w)..(Stage(w) + 1)

LEMMA AllRanksInOrder == TypeOK => RanksInOrder
<1> SUFFICES ASSUME TypeOK, NEW w \in Workers
             PROVE  Rank(w) \in 0..9 /\ Rank(w) \in Stage(w)..(Stage(w) + 1)
  BY DEF RanksInOrder
<1>1. Stage(w) \in {0, 2, 4, 6, 8} /\ Rank(w) \in Stage(w)..(Stage(w) + 1)
  BY RankBounded
<1> QED
  BY <1>1

LEMMA StepsLeftBounded == TypeOK => StepsBounded
<1> SUFFICES ASSUME TypeOK, NEW w \in Workers
             PROVE  StepsLeft(w) \in 0..10 /\ (StepsLeft(w) = 0 <=> pc[w] = "done")
  BY DEF StepsBounded
<1>1. Rank(w) \in 0..9
  BY RankBounded
<1> QED
  BY <1>1 DEF StepsLeft

(* A worker that waits for nobody who is further on can go on. *)
LEMMA FurthestGoesOn ==
  ASSUME TpcBInv, NEW w \in Workers, pc[w] \in Tables \cup {"commit"},
         ~DropCanRun, \A v \in Workers : ~WaitsFor(w, v)
  PROVE  CanGoOn(w)
<1>1. CASE pc[w] = "commit" \/ pc[w] \in Tables \ tables
  BY <1>1 DEF CanGoOn
<1>2. CASE pc[w] \in touched[w]
  <2>1. pc[w] \in Tables
    BY <1>2 DEF TpcBInv, TypeOK
  <2>2. \A v \in Workers \ {w} : RowOf(w, pc[w]) \notin rows[v]
    BY <1>2, <2>1 DEF WaitsFor
  <2> QED BY <1>2, <2>2 DEF CanGoOn
<1>3. CASE pc[w] \in tables \ touched[w]
  <2>1. CASE dropping = pc[w]
    <3>1. pc[w] \in Tables /\ dropping # "none"
      BY <1>3, <2>1 DEF TpcBInv, TypeOK, Tables
    <3>2. PICK v \in Workers : dropping \in touched[v]
      BY <3>1 DEF DropCanRun
    <3>3. v # w
      BY <1>3, <2>1, <3>2
    <3>4. WaitsFor(w, v)
      BY <1>3, <2>1, <3>1, <3>2, <3>3 DEF WaitsFor
    <3> QED BY <3>4
  <2>2. CASE dropping # pc[w]
    BY <1>3, <2>2 DEF CanGoOn
  <2> QED BY <2>1, <2>2
<1> QED
  BY <1>1, <1>2, <1>3

(* tpcb_staged_worker and cleanup.lambda_handler: locks are taken by       *)
(* several transactions, and a DROP queues among them, but the one that is *)
(* furthest on waits for nobody.                                           *)
THEOREM SomeoneAlwaysGoesOn == Spec => []SomeoneGoesOn
<1>1. TpcBInv => SomeoneGoesOn
  <2> SUFFICES ASSUME TpcBInv, ~DropCanRun, NEW a \in Workers, HasWork(a)
               PROVE  \E w \in Workers : CanGoOn(w)
    BY DEF SomeoneGoesOn
  <2>0. TypeOK /\ WaitsForward
    BY InvWaitsForward DEF TpcBInv
  <2> DEFINE Busy == {w \in Workers : pc[w] \in Tables \cup {"commit"}}
             Behind == {9 - Rank(w) : w \in Busy}
  <2>1. CASE Busy = {}
    <3>1. pc[a] = "loop" /\ phaseOver
      BY <2>1 DEF HasWork
    <3> QED BY <3>1 DEF CanGoOn
  <2>2. CASE Busy # {}
    <3>1. \A w \in Workers : Rank(w) \in 0..9
      BY <2>0, RankBounded
    <3>2. Behind \in SUBSET Nat /\ Behind # {}
      BY <2>2, <3>1
    <3>3. PICK n \in Behind : \A m \in Behind : n <= m
      BY <3>2, LeastNumber
    <3>4. PICK w \in Busy : n = 9 - Rank(w)
      BY <3>3
    <3>5. ASSUME NEW v \in Workers, WaitsFor(w, v)
          PROVE  FALSE
      <4>1. Rank(w) < Rank(v)
        BY <2>0, <3>5 DEF WaitsForward
      <4>2. Rank(v) # 0
        BY <3>1, <4>1
      <4>3. pc[v] \in Tables \cup {"commit"}
        <5>1. pc[v] \notin {"loop", "done"}
          BY <2>0, <4>2, RankBounded
        <5> QED BY <2>0, <5>1 DEF TypeOK
      <4>4. 9 - Rank(v) \in Behind
        BY <4>3
      <4>5. 9 - Rank(w) <= 9 - Rank(v)
        BY <3>3, <3>4, <4>4
      <4> QED BY <3>1, <3>4, <4>1, <4>5
    <3>6. CanGoOn(w)
      BY <3>4, <3>5, FurthestGoesOn
    <3> QED BY <3>4, <3>6
  <2> QED BY <2>1, <2>2
<1> QED
  BY <1>1, TpcBInvariant, PTL

(* A step of a worker moves nobody else. *)
LEMMA OthersStay ==
  ASSUME TypeOK, NEW w \in Workers, Worker(w), NEW v \in Workers, v # w
  PROVE  pc'[v] = pc[v] /\ touched'[v] = touched[v]
<1> USE DEF TypeOK
<1>1. CASE Draw(w) \/ Finish(w) \/ LockTable(w) \/ WriteRow(w)
  BY <1>1 DEF Draw, Finish, LockTable, WriteRow
<1>2. CASE Commit(w) \/ CommitLost(w) \/ Fail(w)
  BY <1>2 DEF Commit, CommitLost, Fail, EndWithError, Release
<1> QED
  BY <1>1, <1>2 DEF Worker

LEMMA WorkerCounts ==
  ASSUME TypeOK, TypeOK', phaseOver, NEW w \in Workers, Worker(w)
  PROVE  StepsLeft(w)' < StepsLeft(w)
<1>0. /\ Rank(w) \in 0..9 /\ Rank(w) \in Stage(w)..(Stage(w) + 1)
      /\ Rank(w)' \in 0..9 /\ Rank(w)' \in Stage(w)'..(Stage(w)' + 1)
  <2>1. RanksInOrder
    BY AllRanksInOrder
  <2>2. RanksInOrder'
    BY AllRanksInOrder, PTL
  <2> QED BY <2>1, <2>2 DEF RanksInOrder
<1>1. CASE Finish(w)
  <2>1. pc[w] = "loop" /\ pc'[w] = "done"
    BY <1>1 DEF Finish, TypeOK
  <2> QED BY <2>1 DEF StepsLeft
<1>2. CASE LockTable(w)
  <2>1. /\ pc[w] \in Tables /\ pc' = pc /\ pc[w] \notin touched[w]
        /\ pc'[w] \in touched'[w]
    BY <1>2 DEF LockTable, TypeOK
  <2>2. Stage(w)' = Stage(w) /\ Stage(w) \in Nat
    BY <2>1, RankBounded DEF Stage
  <2>3. Rank(w) = Stage(w) /\ Rank(w)' = Stage(w) + 1
    BY <2>1, <2>2 DEF Rank
  <2>4. StepsLeft(w) = 10 - Rank(w) /\ StepsLeft(w)' = 10 - Rank(w)'
    BY <2>1 DEF StepsLeft, Tables
  <2> QED BY <2>2, <2>3, <2>4
<1>3. CASE WriteRow(w)
  <2>1. pc[w] \in Tables /\ pc'[w] = After(pc[w])
    BY <1>3 DEF WriteRow, TypeOK
  <2>2. pc'[w] \in {"tellers", "branches", "history", "commit"} /\ Stage(w)' = Stage(w) + 2
    BY <2>1 DEF Stage, After, Tables
  <2>3. Stage(w) \in {0, 2, 4, 6, 8}
    BY RankBounded
  <2>4. StepsLeft(w) = 10 - Rank(w) /\ StepsLeft(w)' = 10 - Rank(w)'
    BY <2>1, <2>2 DEF StepsLeft, Tables
  <2> QED BY <1>0, <2>2, <2>3, <2>4
<1>4. CASE Commit(w)
  <2>1. pc[w] = "commit" /\ pc'[w] = "loop"
    BY <1>4 DEF Commit, TypeOK
  <2>2. Rank(w) = 8
    BY <2>1, RankBounded DEF Stage
  <2> QED BY <2>1, <2>2 DEF StepsLeft
<1>5. CASE CommitLost(w) \/ Fail(w)
  <2>1. pc[w] \in Tables \cup {"commit"} /\ pc'[w] = "done"
    BY <1>5 DEF CommitLost, Fail, Failing, EndWithError, TypeOK
  <2>2. StepsLeft(w) = 10 - Rank(w)
    BY <2>1 DEF StepsLeft, Tables
  <2>3. StepsLeft(w)' = 0
    BY <2>1 DEF StepsLeft
  <2> QED BY <1>0, <2>2, <2>3
<1>6. ~Draw(w)
  BY DEF Draw
<1> QED
  BY <1>1, <1>2, <1>3, <1>4, <1>5, <1>6 DEF Worker

(* tpcb_staged_worker: when its phase is over a worker makes at most ten   *)
(* steps, whatever the other transactions and the clean-up do meanwhile,   *)
(* and then it has ended.                                                  *)
THEOREM EndsWithinSteps == Spec => []StepsBounded /\ [][StepCounts]_vars
<1>1. TypeOK /\ TypeOK' /\ [Next]_vars => [StepCounts]_vars
  <2> SUFFICES ASSUME TypeOK, TypeOK', [Next]_vars, phaseOver, NEW w \in Workers
               PROVE  /\ StepsLeft(w)' <= StepsLeft(w)
                      /\ Worker(w) => StepsLeft(w)' < StepsLeft(w)
    BY DEF StepCounts
  <2>1. StepsLeft(w) \in 0..10 /\ StepsLeft(w)' \in 0..10
    <3>1. StepsBounded
      BY StepsLeftBounded
    <3>2. StepsBounded'
      BY StepsLeftBounded, PTL
    <3> QED BY <3>1, <3>2 DEF StepsBounded
  <2>2. ASSUME pc'[w] = pc[w], touched'[w] = touched[w]
        PROVE  StepsLeft(w)' <= StepsLeft(w)
    <3>1. Rank(w)' = Rank(w)
      BY <2>2 DEF Rank, Stage
    <3>2. StepsLeft(w)' = StepsLeft(w)
      BY <2>2, <3>1 DEF StepsLeft
    <3> QED BY <2>1, <3>2
  <2>3. Worker(w) => StepsLeft(w)' < StepsLeft(w)
    BY WorkerCounts
  <2>4. ASSUME NEW v \in Workers, Worker(v)
        PROVE  StepsLeft(w)' <= StepsLeft(w)
    <3>1. CASE v = w
      BY <2>1, <2>3, <2>4, <3>1
    <3>2. CASE v # w
      BY <2>2, <2>4, <3>2, OthersStay
    <3> QED BY <3>1, <3>2
  <2>5. ASSUME \/ \E x \in Tables : IssueDrop(x) \/ SkipTable(x)
               \/ Drop \/ PhaseEnd \/ Ended \/ UNCHANGED vars
        PROVE  StepsLeft(w)' <= StepsLeft(w)
    <3>1. pc' = pc /\ touched' = touched
      BY <2>5 DEF IssueDrop, SkipTable, Drop, PhaseEnd, Ended, vars, workerVars
    <3> QED BY <2>2, <3>1
  <2>6. StepsLeft(w)' <= StepsLeft(w)
    BY <2>4, <2>5 DEF Next
  <2> QED BY <2>3, <2>6
<1> QED
  BY <1>1, StepsLeftBounded, TpcBTypeCorrect, PTL DEF Spec

===============================================================================
