------------------------------ MODULE AuroraInject ------------------------------
(***************************************************************************)
(* The fault Lambdas of Aurora (aurora_inject/common.py and the six        *)
(* handlers that call execute_injection).  A Lambda process serves         *)
(* invocations one after the other and keeps its secret between them.      *)
(* An exception while the secret is fetched or the connection is made      *)
(* leaves the handler; afterwards it becomes an answer.  External: the     *)
(* crash that a query asks for comes some time after the query has run, if *)
(* at all, and takes all connections; an error on a connection that it     *)
(* took is an OperationalError.                                            *)
(***************************************************************************)
EXTENDS DbAccess

CONSTANTS
  Crashers,     (* Lambdas whose FAULT_TYPE is in CRASH_FAULT_TYPES        *)
  Disturbers    (* the other fault Lambdas                                 *)

Injectors == Crashers \cup Disturbers

ASSUME InjectAssumption ==
  Crashers \cap Disturbers = {} /\ Injectors \subseteq Clients

VARIABLES
  at,        (* where the invocation is                                    *)
  ran,       (* history, of this invocation's query: see Runs              *)
  reply,     (* what the last invocation returned or raised                *)
  bornAt     (* history: password version when the process started (0:     *)
             (* not yet)                                                   *)

injectVars == <<at, ran, reply, bornAt>>

(* The database has not run the query; it has; then its crash took the     *)
(* invocation's connection; or its crash came when it had none any more.  *)
Runs == {"no", "yes", "crashed", "crashed_late"}

InjectInit ==
  /\ at = [c \in Injectors |-> "idle"]
  /\ ran = [c \in Injectors |-> "no"]
  /\ reply = [c \in Injectors |-> "none"]
  /\ bornAt = [c \in Injectors |-> 0]

Move(c, l) == at' = [at EXCEPT ![c] = l]

Invoke(c) ==
  /\ at[c] = "idle" /\ Called(c)
  /\ Move(c, "connect")
  /\ ran' = [ran EXCEPT ![c] = "no"]
  /\ reply' = [reply EXCEPT ![c] = "none"]
  /\ bornAt' = [bornAt EXCEPT ![c] = IF @ = 0 THEN password ELSE @]

Raise(c, what) ==
  /\ reply' = [reply EXCEPT ![c] = what]
  /\ Move(c, "idle")
  /\ UNCHANGED <<ran, bornAt>>

(* get_secret and get_connection. *)
Connect(c) ==
  /\ at[c] = "connect"
  /\ \/ FetchSecret(c) /\ UNCHANGED injectVars
     \/ /\ LoginOk(c) /\ Move(c, "execute")
        /\ UNCHANGED <<ran, reply, bornAt>>
     \/ LoginRefused(c) /\ Raise(c, "refused")
     \/ LoginFails(c) /\ Raise(c, "raised")

(* cursor.execute on an open connection: the database runs the query. *)
Execute(c) ==
  /\ at[c] = "execute" /\ conn[c] = "open"
  /\ ran' = [ran EXCEPT ![c] = "yes"]
  /\ Move(c, "fetch")
  /\ UNCHANGED <<dbVars, reply, bornAt>>

(* The crash comes that a query has asked for. *)
Crash(c) ==
  /\ c \in Crashers /\ ran[c] = "yes"
  /\ ran' = [ran EXCEPT ![c] = IF conn[c] = "open" THEN "crashed" ELSE "crashed_late"]
  /\ BreakConnections
  /\ UNCHANGED <<at, reply, bornAt>>

(* The end of an invocation: the answer, and the finally that closes.      *)
Answer(c, a) ==
  /\ reply' = [reply EXCEPT ![c] = a]
  /\ Move(c, "idle") /\ Hangup(c)
  /\ UNCHANGED <<ran, bornAt>>

(* fetchone has a row: 200. *)
Fetch(c) ==
  /\ at[c] = "fetch" /\ conn[c] = "open"
  /\ Answer(c, "executed")

(* Mutant: an OperationalError is an error for every Lambda. *)
OperationalError_AlwaysError(c) ==
  /\ at[c] \in {"execute", "fetch"}
  /\ Answer(c, "error")

(* execute or fetchone raises an OperationalError: the success of a crash  *)
(* fault (200), the failure of any other (500).  The connection may be     *)
(* lost, to whichever crash, or live: a statement is cancelled, resources  *)
(* run out.                                                                *)
OperationalError(c) ==
  /\ at[c] \in {"execute", "fetch"}
  /\ Answer(c, IF c \in Crashers THEN "crash_injected" ELSE "error")

(* Another error, such as a function that does not exist: 500. *)
OtherError(c) ==
  /\ at[c] \in {"execute", "fetch"} /\ conn[c] = "open"
  /\ Answer(c, "error")

Injector(c) ==
  \/ Invoke(c) \/ Connect(c) \/ Execute(c) \/ Fetch(c)
  \/ OperationalError(c) \/ OtherError(c)

InjectNext == \E c \in Injectors : Injector(c) \/ Crash(c)

-------------------------------------------------------------------------------
(* Properties. *)

(* An invocation whose own crash took its connection always answers        *)
(* crash_injected, never an error, at whichever call it waited, and no     *)
(* other fault Lambda answers so, even when that crash took its connection *)
(* too.  executed means that the query ran, and that no crash of its own   *)
(* came before the answer.  (crash_injected does not mean a crash: any     *)
(* OperationalError of a crash Lambda is answered so, on a live connection *)
(* too, whether its query ran or not.)                                     *)
AnswersAreTrue ==
  \A c \in Injectors :
    /\ ran[c] = "crashed" => reply[c] \in {"none", "crash_injected"}
    /\ reply[c] = "crash_injected" => c \in Crashers
    /\ reply[c] = "executed" => ran[c] \in {"yes", "crashed_late"}

(* A process is refused by the database only if the secret was rotated     *)
(* after the process started: the cached secret is never older than it.    *)
RefusedOnlyAfterRotation ==
  \A c \in Injectors : reply[c] = "refused" => password > bornAt[c]

===============================================================================
