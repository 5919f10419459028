------------------------------- MODULE DbAccess -------------------------------
(***************************************************************************)
(* How every Aurora Lambda gets its database connection: get_secret keeps  *)
(* the secret in a module variable for the life of the process, the        *)
(* password is decrypted for each connection (aurora_inject/common.py, and *)
(* the same code in stress_test/common.py).  External: the secret may be   *)
(* rotated, and a crash of the instance breaks all connections.            *)
(***************************************************************************)
EXTENDS Integers

CONSTANTS
  Clients,     (* Lambda processes                                         *)
  Scenarios    (* bound: who is invoked how often, and how often the       *)
               (* secret is rotated                                        *)

ASSUME DbAccessAssumption ==
  Scenarios \subseteq [todo : [Clients -> Nat], rotations : Nat]

VARIABLES
  todo,       (* invocations of a process still to come                    *)
  rotations,  (* rotations still to come                                   *)
  password,   (* version of the password that the database accepts         *)
  cache,      (* _secret_cache of a process: a version, 0 for None         *)
  conn        (* its connection: "none", "open" or "lost"                  *)

accessVars == <<password, cache, conn>>
planVars == <<todo, rotations>>
dbVars == <<planVars, accessVars>>

DbInit ==
  /\ \E s \in Scenarios : todo = s.todo /\ rotations = s.rotations
  /\ password = 1
  /\ cache = [c \in Clients |-> 0]
  /\ conn = [c \in Clients |-> "none"]

(* Lambda invokes the handler in a process that is idle. *)
Called(c) ==
  /\ todo[c] > 0
  /\ todo' = [todo EXCEPT ![c] = @ - 1]
  /\ UNCHANGED <<rotations, accessVars>>

(* Mutant: the previous version of the secret is read. *)
FetchSecret_Previous(c) ==
  /\ cache[c] = 0
  /\ cache' = [cache EXCEPT ![c] = IF password > 1 THEN password - 1 ELSE password]
  /\ UNCHANGED <<planVars, password, conn>>

(* get_secret, when nothing is cached. *)
FetchSecret(c) ==
  /\ cache[c] = 0
  /\ cache' = [cache EXCEPT ![c] = password]
  /\ UNCHANGED <<planVars, password, conn>>

(* decrypt and connect with the cached secret. *)
LoginOk(c) ==
  /\ cache[c] = password
  /\ conn' = [conn EXCEPT ![c] = "open"]
  /\ UNCHANGED <<planVars, password, cache>>

(* The password is refused; the cache is not renewed. *)
LoginRefused(c) ==
  /\ cache[c] \notin {0, password}
  /\ UNCHANGED dbVars

(* Secrets Manager, KMS or the network fails. *)
LoginFails(c) == UNCHANGED dbVars

Hangup(c) ==
  /\ conn' = [conn EXCEPT ![c] = "none"]
  /\ UNCHANGED <<planVars, password, cache>>

(* The secret and the database get a new password. *)
Rotate ==
  /\ rotations > 0
  /\ rotations' = rotations - 1
  /\ password' = password + 1
  /\ UNCHANGED <<todo, cache, conn>>

(* The instance restarts: every connection is gone. *)
BreakConnections ==
  /\ conn' = [c \in Clients |-> IF conn[c] = "open" THEN "lost" ELSE conn[c]]
  /\ UNCHANGED <<planVars, password, cache>>
===============================================================================
