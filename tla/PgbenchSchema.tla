----------------------------- MODULE PgbenchSchema -----------------------------
(***************************************************************************)
(* The pgbench tables: stress Lambdas make sure that they exist            *)
(* (ensure_pgbench_schema and _create_pgbench_tables of                    *)
(* stress_test/common.py) and the clean-up drops them                      *)
(* (stress_test/cleanup.py).  Every connection is in autocommit mode, so   *)
(* each SQL statement is one action: between two of them another Lambda    *)
(* may act, or the connection may break.  A statement may also fail on an  *)
(* open connection (it is cancelled, the disk is full): the code catches   *)
(* any psycopg2.Error.  What an invocation does with the schema afterwards *)
(* is in StagedCpu and TpcB; it answers 200 in either case.                *)
(***************************************************************************)
EXTENDS DbAccess, Sequences

CONSTANTS
  Creators,   (* stress Lambdas                                            *)
  Cleaner     (* the clean-up Lambda                                       *)

ASSUME SchemaAssumption ==
  Creators \subseteq Clients /\ Cleaner \in Clients \ Creators

Tables == {"history", "tellers", "accounts", "branches"}

VARIABLES
  tables,    (* what the database has of a table                           *)
  pc,        (* where a Lambda is                                          *)
  step,      (* its next statement                                         *)
  rebuilders,(* history: creators that took the schema for missing         *)
  outcomes,  (* what ensure_pgbench_schema or the clean-up came to in the  *)
             (* invocations of a Lambda: see Outcomes                      *)
  dropped    (* dropped_tables of the clean-up                             *)

schemaVars == <<tables, pc, step, rebuilders, outcomes, dropped>>

SchemaClients == Creators \cup {Cleaner}

(* True and False of ensure_pgbench_schema, an exception of its first      *)
(* connect, the end of the process, and the response of the clean-up.      *)
Outcomes == {"true", "false", "raised", "killed", "clean"}

(* No schema yet, or a complete one. *)
SchemaInit ==
  /\ \/ tables = [x \in Tables |-> "absent"]
     \/ tables = [x \in Tables |-> IF x = "history" THEN "empty" ELSE "filled"]
  /\ pc = [c \in SchemaClients |-> "idle"]
  /\ step = [c \in SchemaClients |-> 1]
  /\ rebuilders = {}
  /\ outcomes = [c \in SchemaClients |-> {}]
  /\ dropped = {}

(* The statements of _create_pgbench_tables, in their order. *)
CreateScript ==
  << <<"drop", "history">>, <<"drop", "tellers">>, <<"drop", "accounts">>, <<"drop", "branches">>,
     <<"create", "branches">>, <<"create", "tellers">>, <<"create", "accounts">>, <<"create", "history">>,
     <<"insert", "branches">>, <<"insert", "tellers">>, <<"insert", "accounts">> >>

(* A table can be created when it is absent and filled when it is empty    *)
(* (the primary key refuses a second filling).                             *)
Works(s) ==
  CASE s[1] = "drop" -> TRUE
    [] s[1] = "create" -> tables[s[2]] = "absent"
    [] OTHER -> tables[s[2]] = "empty"

Effect(s) ==
  CASE s[1] = "drop" -> "absent" [] s[1] = "create" -> "empty" [] OTHER -> "filled"

Goto(c, l) == pc' = [pc EXCEPT ![c] = l]

(* ensure_pgbench_schema, or the clean-up, is over. *)
End(c, a) ==
  /\ outcomes' = [outcomes EXCEPT ![c] = @ \cup {a}]
  /\ Goto(c, "idle")

Return(c, a) == End(c, a) /\ Hangup(c)

Begin(c) ==
  /\ pc[c] = "idle" /\ Called(c)
  /\ Goto(c, "connect")
  /\ step' = [step EXCEPT ![c] = 1]
  /\ dropped' = IF c = Cleaner THEN {} ELSE dropped
  /\ UNCHANGED <<tables, rebuilders, outcomes>>

(* get_conn_params and the first connect; they raise to the caller. *)
Open(c) ==
  /\ pc[c] = "connect"
  /\ \/ FetchSecret(c) /\ UNCHANGED <<pc, outcomes>>
     \/ LoginOk(c) /\ Goto(c, "check") /\ UNCHANGED outcomes
     \/ (LoginRefused(c) \/ LoginFails(c)) /\ End(c, "raised")
  /\ UNCHANGED <<tables, step, rebuilders, dropped>>

(* SELECT 1 FROM pgbench_accounts LIMIT 1.  Any error is taken for a       *)
(* missing schema: the table is absent, the connection is lost, the        *)
(* statement is cancelled.                                                 *)
Check(c) ==
  /\ pc[c] = "check"
  /\ \/ /\ conn[c] = "open" /\ tables["accounts"] # "absent"
        /\ Return(c, "true")
        /\ UNCHANGED rebuilders
     \/ /\ rebuilders' = rebuilders \cup {c}
        /\ Goto(c, "reconnect") /\ Hangup(c)
        /\ UNCHANGED outcomes
  /\ UNCHANGED <<tables, step, dropped>>

(* _create_pgbench_tables connects again; an error is answered by False. *)
Reconnect(c) ==
  /\ pc[c] = "reconnect"
  /\ \/ LoginOk(c) /\ Goto(c, "create") /\ UNCHANGED outcomes
     \/ (LoginRefused(c) \/ LoginFails(c)) /\ End(c, "false")
  /\ UNCHANGED <<tables, step, rebuilders, dropped>>

(* Its next statement. *)
Create(c) ==
  /\ pc[c] = "create" /\ step[c] <= Len(CreateScript)
  /\ conn[c] = "open" /\ Works(CreateScript[step[c]])
  /\ tables' = [tables EXCEPT ![CreateScript[step[c]][2]] = Effect(CreateScript[step[c]])]
  /\ step' = [step EXCEPT ![c] = @ + 1]
  /\ UNCHANGED <<pc, rebuilders, outcomes, dropped, dbVars>>

(* CREATE INDEX and ANALYZE: they need the tables, and change no row. *)
Analyzable == \A x \in Tables \ {"history"} : tables[x] # "absent"

CreateDone(c) ==
  /\ pc[c] = "create" /\ step[c] > Len(CreateScript)
  /\ conn[c] = "open" /\ Analyzable
  /\ Return(c, "true")
  /\ UNCHANGED <<tables, step, rebuilders, dropped>>

(* Mutant: the failure is logged, and True returned all the same. *)
CreateFails_True(c) ==
  /\ pc[c] = "create"
  /\ Return(c, "true")
  /\ UNCHANGED <<tables, step, rebuilders, dropped>>

(* A statement raises, whatever the error: a warning, and False.  The      *)
(* tables stay as they are.                                                *)
CreateFails(c) ==
  /\ pc[c] = "create"
  /\ Return(c, "false")
  /\ UNCHANGED <<tables, step, rebuilders, dropped>>

(* The Lambda times out while it fills the tables. *)
Killed(c) ==
  /\ pc[c] = "create"
  /\ Return(c, "killed")
  /\ UNCHANGED <<tables, step, rebuilders, dropped>>

Creator(c) ==
  \/ Begin(c) \/ Open(c) \/ Check(c) \/ Reconnect(c)
  \/ Create(c) \/ CreateDone(c) \/ CreateFails(c) \/ Killed(c)

-------------------------------------------------------------------------------
(* The clean-up. *)

CleanScript == <<"history", "tellers", "accounts", "branches">>

Turn(x) ==
  step[Cleaner] <= Len(CleanScript) /\ x = CleanScript[step[Cleaner]]

NextTable == step' = [step EXCEPT ![Cleaner] = @ + 1] /\ Goto(Cleaner, "check")

(* Mutant: the table is listed before it is dropped. *)
CleanCount_Listed(x) ==
  /\ pc[Cleaner] = "check" /\ Turn(x)
  /\ conn[Cleaner] = "open" /\ tables[x] # "absent"
  /\ Goto(Cleaner, "drop")
  /\ dropped' = dropped \cup {x}
  /\ UNCHANGED <<tables, step, rebuilders, outcomes, dbVars>>

(* SELECT count( * ): the table is there. *)
CleanCount(x) ==
  /\ pc[Cleaner] = "check" /\ Turn(x)
  /\ conn[Cleaner] = "open" /\ tables[x] # "absent"
  /\ Goto(Cleaner, "drop")
  /\ UNCHANGED <<tables, step, rebuilders, outcomes, dropped, dbVars>>

CleanDrop(x) ==
  /\ pc[Cleaner] = "drop" /\ Turn(x) /\ conn[Cleaner] = "open"
  /\ tables' = [tables EXCEPT ![x] = "absent"]
  /\ dropped' = dropped \cup {x}
  /\ NextTable
  /\ UNCHANGED <<rebuilders, outcomes, dbVars>>

(* Any error of the count or of the drop is taken for a table that does    *)
(* not exist: a table that is absent, a lost connection, on which every    *)
(* further statement fails too, or a statement that is cancelled.  The     *)
(* DROP whose answer is lost has been made.                                *)
CleanSkip(x) ==
  /\ pc[Cleaner] \in {"check", "drop"} /\ Turn(x)
  /\ \/ UNCHANGED tables
     \/ /\ pc[Cleaner] = "drop" /\ conn[Cleaner] = "lost"
        /\ tables' = [tables EXCEPT ![x] = "absent"]
  /\ NextTable
  /\ UNCHANGED <<rebuilders, outcomes, dropped, dbVars>>

(* "DB is clean", whatever was dropped. *)
CleanDone ==
  /\ pc[Cleaner] = "check" /\ step[Cleaner] > Len(CleanScript)
  /\ Return(Cleaner, "clean")
  /\ UNCHANGED <<tables, step, rebuilders, dropped>>

Cleanup ==
  \/ Begin(Cleaner) \/ Open(Cleaner)
  \/ \E x \in Tables : CleanCount(x) \/ CleanDrop(x) \/ CleanSkip(x)
  \/ CleanDone

SchemaNext == Cleanup \/ \E c \in Creators : Creator(c)

-------------------------------------------------------------------------------
(* Properties. *)

Complete ==
  /\ tables["history"] # "absent"
  /\ \A x \in Tables \ {"history"} : tables[x] = "filled"

(* A half-made schema, which every later check takes for a complete one,   *)
(* does not come about by creators that merely get into each other's way:  *)
(* as long as there was no clean-up, somebody is still creating tables, or *)
(* a creation has failed or was cut off.  (Who has failed says so in its   *)
(* log only: the invocation goes on and answers 200.)                      *)
HalfMade == tables["accounts"] # "absent" /\ ~Complete
HalfMadeMeansFailure ==
  HalfMade /\ pc[Cleaner] = "idle" /\ outcomes[Cleaner] = {} =>
    \E c \in Creators : pc[c] = "create" \/ outcomes[c] \cap {"false", "killed"} # {}

(* dropped_tables is true: a table it lists is gone, unless an invocation  *)
(* took the schema for missing and went on to create it again.             *)
ListedTablesAreGone ==
  rebuilders = {} => \A x \in dropped : tables[x] = "absent"

===============================================================================
