------------------------------ MODULE AuroraProofs ------------------------------
(***************************************************************************)
(* Theorems about the Aurora module.  First AuroraLab, for any number of   *)
(* Lambdas, invocations and rotations: a crash is answered as one, a       *)
(* refused password was rotated, a half-made schema comes from a creation  *)
(* that failed, and the clean-up lists what is gone.  Then AuroraStages,   *)
(* for any phases, threads and timeouts: what the response lacks, how long *)
(* the load lasts, and that the peak is the reported one.                  *)
(***************************************************************************)
EXTENDS AuroraLab, AuroraStages, SumLemmas, SequenceTheorems

(* The versions of the password, and the connections. *)
DbInv ==
  /\ password \in Nat \ {0}
  /\ cache \in [Clients -> 0..password]
  /\ conn \in [Clients -> {"none", "open", "lost"}]

(* A process caches the secret after it has started; the crash of an       *)
(* instance has cost the Lambda that caused it its connection.             *)
InjectorInv(c) ==
  /\ bornAt[c] \in 0..password
  /\ cache[c] = 0 \/ bornAt[c] <= cache[c]
  /\ bornAt[c] = 0 => cache[c] = 0 /\ at[c] = "idle"
  /\ at[c] \in {"connect", "execute"} => ran[c] = "no" /\ reply[c] = "none"
  /\ at[c] = "fetch" => ran[c] # "no" /\ reply[c] = "none"
  /\ at[c] = "fetch" /\ ran[c] = "crashed" => c \in Crashers /\ conn[c] = "lost"
  /\ conn[c] = "open" => at[c] \in {"execute", "fetch"}
  /\ ran[c] = "crashed" => reply[c] \in {"none", "crash_injected"}
  /\ reply[c] = "crash_injected" => c \in Crashers
  /\ reply[c] = "executed" => ran[c] \in {"yes", "crashed_late"}
  /\ reply[c] = "refused" => password > bornAt[c]

InjectInv ==
  /\ DbInv
  /\ at \in [Injectors -> {"idle", "connect", "execute", "fetch"}]
  /\ ran \in [Injectors -> Runs]
  /\ reply \in [Injectors -> {"none", "refused", "raised", "executed", "crash_injected", "error"}]
  /\ bornAt \in [Injectors -> Nat]
  /\ \A c \in Injectors : InjectorInv(c)

LEMMA InjectorsAreClients == Injectors \subseteq Clients
BY InjectAssumption

LEMMA InitInjectInv == Init => InjectInv
BY InjectorsAreClients DEF Init, DbInit, InjectInit, InjectInv, DbInv, InjectorInv, Runs

(* What another client or a rotation does to the facts about an injector:  *)
(* it may take its connection away, and make the password newer.           *)
LEMMA OthersKeep ==
  ASSUME InjectInv, DbInv', UNCHANGED injectVars, password <= password',
         \A c \in Injectors :
           /\ cache'[c] = cache[c]
           /\ conn'[c] = conn[c] \/ conn'[c] = "lost"
  PROVE  InjectInv'
<1>1. UNCHANGED <<at, ran, reply, bornAt>>
  BY DEF injectVars
<1>2. \A c \in Injectors : InjectorInv(c)'
  BY <1>1 DEF InjectInv, DbInv, InjectorInv
<1> QED
  BY <1>1, <1>2 DEF InjectInv

(* A step of one injector leaves the others alone, but for a crash.        *)
LEMMA InjectorKeeps ==
  ASSUME InjectInv, NEW c \in Injectors, DbInv', UNCHANGED password,
         NEW l \in {"idle", "connect", "execute", "fetch"}, at' = [at EXCEPT ![c] = l],
         ran' \in [Injectors -> Runs],
         reply' \in [Injectors -> {"none", "refused", "raised", "executed", "crash_injected", "error"}],
         bornAt' \in [Injectors -> Nat], InjectorInv(c)',
         \A d \in Injectors \ {c} :
           /\ ran'[d] = ran[d] /\ reply'[d] = reply[d] /\ bornAt'[d] = bornAt[d]
           /\ cache'[d] = cache[d]
           /\ conn'[d] = conn[d] \/ conn'[d] = "lost"
  PROVE  InjectInv'
<1>1. \A d \in Injectors : InjectorInv(d)'
  BY DEF InjectInv, InjectorInv
<1>2. at' \in [Injectors -> {"idle", "connect", "execute", "fetch"}]
  BY DEF InjectInv
<1> QED
  BY <1>1, <1>2 DEF InjectInv

LEMMA InjectorStep ==
  ASSUME InjectInv, NEW c \in Injectors, Injector(c)
  PROVE  InjectInv'
<1>0. /\ InjectorInv(c) /\ DbInv /\ c \in Clients
      /\ at \in [Injectors -> {"idle", "connect", "execute", "fetch"}]
      /\ ran \in [Injectors -> Runs] /\ bornAt \in [Injectors -> Nat]
      /\ reply \in [Injectors -> {"none", "refused", "raised", "executed", "crash_injected", "error"}]
  BY InjectorsAreClients DEF InjectInv
<1>1. CASE Invoke(c)
  <2>1. /\ UNCHANGED <<password, cache, conn>> /\ at' = [at EXCEPT ![c] = "connect"]
        /\ ran' = [ran EXCEPT ![c] = "no"] /\ reply' = [reply EXCEPT ![c] = "none"]
        /\ bornAt' = [bornAt EXCEPT ![c] = IF @ = 0 THEN password ELSE @]
        /\ at[c] = "idle"
    BY <1>1 DEF Invoke, Called, accessVars, Move
  <2>2. DbInv'
    BY <1>0, <2>1 DEF DbInv
  <2>3. bornAt' \in [Injectors -> Nat]
    BY <1>0, <2>1 DEF DbInv
  <2>4. InjectorInv(c)' /\ ran' \in [Injectors -> Runs]
    BY <1>0, <2>1 DEF InjectorInv, DbInv, Runs
  <2> QED
    BY <1>0, <2>1, <2>2, <2>3, <2>4, InjectorKeeps
<1>2. CASE Connect(c)
  <2>1. CASE FetchSecret(c) /\ UNCHANGED injectVars
    <3>1. /\ cache' = [cache EXCEPT ![c] = password] /\ UNCHANGED <<password, conn>>
          /\ cache[c] = 0 /\ UNCHANGED <<at, ran, reply, bornAt>>
      BY <2>1 DEF FetchSecret, injectVars
    <3>2. DbInv'
      BY <1>0, <3>1 DEF DbInv
    <3>3. InjectorInv(c)' /\ at' = [at EXCEPT ![c] = "connect"]
      BY <1>0, <1>2, <3>1 DEF InjectorInv, DbInv, Connect
    <3> QED
      BY <1>0, <3>1, <3>2, <3>3, InjectorsAreClients, InjectorKeeps DEF DbInv
  <2>2. CASE LoginOk(c) /\ Move(c, "execute") /\ UNCHANGED <<ran, reply, bornAt>>
    <3>1. /\ conn' = [conn EXCEPT ![c] = "open"] /\ UNCHANGED <<password, cache>>
          /\ at' = [at EXCEPT ![c] = "execute"] /\ at[c] = "connect"
      BY <1>2, <2>2 DEF LoginOk, Move, Connect
    <3>2. DbInv'
      BY <1>0, <3>1 DEF DbInv
    <3>3. InjectorInv(c)'
      BY <1>0, <2>2, <3>1 DEF InjectorInv, DbInv
    <3> QED
      BY <1>0, <2>2, <3>1, <3>2, <3>3, InjectorsAreClients, InjectorKeeps DEF DbInv
  <2>3. CASE \/ LoginRefused(c) /\ Raise(c, "refused")
             \/ LoginFails(c) /\ Raise(c, "raised")
    <3>1. PICK what \in {"refused", "raised"} :
            /\ reply' = [reply EXCEPT ![c] = what] /\ at' = [at EXCEPT ![c] = "idle"]
            /\ what = "refused" => cache[c] \notin {0, password}
      BY <2>3 DEF Raise, Move, LoginRefused
    <3>2. UNCHANGED <<password, cache, conn, ran, bornAt>> /\ at[c] = "connect"
      BY <1>2, <2>3 DEF Raise, Connect, LoginRefused, LoginFails, dbVars, accessVars
    <3>3. DbInv'
      BY <1>0, <3>2 DEF DbInv
    <3>4. InjectorInv(c)'
      BY <1>0, <3>1, <3>2 DEF InjectorInv, DbInv
    <3> QED
      BY <1>0, <3>1, <3>2, <3>3, <3>4, InjectorKeeps
  <2> QED
    BY <1>2, <2>1, <2>2, <2>3 DEF Connect
<1>3. CASE Execute(c)
  <2>1. /\ ran' = [ran EXCEPT ![c] = "yes"] /\ at' = [at EXCEPT ![c] = "fetch"]
        /\ at[c] = "execute" /\ UNCHANGED <<reply, bornAt, password, cache, conn>>
    BY <1>3 DEF Execute, Move, dbVars, accessVars
  <2>2. DbInv' /\ ran' \in [Injectors -> Runs]
    BY <1>0, <2>1 DEF DbInv, Runs
  <2>3. InjectorInv(c)'
    BY <1>0, <2>1 DEF InjectorInv, DbInv
  <2> QED
    BY <1>0, <2>1, <2>2, <2>3, InjectorKeeps
<1>4. CASE Fetch(c) \/ OperationalError(c) \/ OtherError(c)
  <2>1. PICK a \in {"executed", "crash_injected", "error"} :
          /\ reply' = [reply EXCEPT ![c] = a]
          /\ a = "executed" => at[c] = "fetch" /\ conn[c] = "open"
          /\ a = "crash_injected" => c \in Crashers
          /\ a = "error" => c \notin Crashers \/ conn[c] = "open"
    BY <1>4 DEF Fetch, OperationalError, OtherError, Answer
  <2>2. /\ conn' = [conn EXCEPT ![c] = "none"] /\ at' = [at EXCEPT ![c] = "idle"]
        /\ UNCHANGED <<password, cache, ran, bornAt>> /\ at[c] \in {"execute", "fetch"}
    BY <1>4 DEF Fetch, OperationalError, OtherError, Answer, Move, Hangup
  <2>3. DbInv'
    BY <1>0, <2>2 DEF DbInv
  <2>4. InjectorInv(c)'
    BY <1>0, <2>1, <2>2 DEF InjectorInv, DbInv, Runs
  <2> QED
    BY <1>0, <2>1, <2>2, <2>3, <2>4, InjectorsAreClients, InjectorKeeps DEF DbInv
<1> QED
  BY <1>1, <1>2, <1>3, <1>4 DEF Injector

(* A crash takes the connection of whoever waits, its own Lambda's too. *)
LEMMA CrashKeeps ==
  ASSUME InjectInv, NEW c \in Injectors, Crash(c)
  PROVE  InjectInv'
<1>0. /\ DbInv /\ Injectors \subseteq Clients /\ ran \in [Injectors -> Runs]
      /\ \A d \in Injectors : InjectorInv(d)
  BY InjectorsAreClients DEF InjectInv
<1>1. /\ c \in Crashers /\ ran[c] = "yes"
      /\ ran' = [ran EXCEPT ![c] = IF conn[c] = "open" THEN "crashed" ELSE "crashed_late"]
      /\ conn' = [d \in Clients |-> IF conn[d] = "open" THEN "lost" ELSE conn[d]]
      /\ UNCHANGED <<at, reply, bornAt, password, cache>>
  BY DEF Crash, BreakConnections
<1>2. DbInv' /\ ran' \in [Injectors -> Runs]
  BY <1>0, <1>1 DEF DbInv, Runs
<1>3. InjectorInv(c)'
  BY <1>0, <1>1 DEF InjectorInv, DbInv
<1>4. \A d \in Injectors \ {c} : InjectorInv(d)'
  BY <1>0, <1>1 DEF InjectorInv, DbInv
<1> QED
  BY <1>1, <1>2, <1>3, <1>4 DEF InjectInv

-------------------------------------------------------------------------------
(* The stress Lambdas and the clean-up connect and hang up for themselves. *)
LEMMA SchemaStep ==
  ASSUME InjectInv, SchemaNext, UNCHANGED injectVars
  PROVE  InjectInv'
<1>1. PICK d \in SchemaClients : Creator(d) \/ (Cleanup /\ d = Cleaner)
  BY DEF SchemaNext, SchemaClients
<1>2. DbInv /\ d \in Clients /\ d \notin Injectors
  BY SchemaAssumption, LabAssumption DEF InjectInv, SchemaClients
<1>3. \/ UNCHANGED <<password, cache, conn>>
      \/ cache' = [cache EXCEPT ![d] = password] /\ UNCHANGED <<password, conn>>
      \/ conn' = [conn EXCEPT ![d] = "open"] /\ UNCHANGED <<password, cache>>
      \/ conn' = [conn EXCEPT ![d] = "none"] /\ UNCHANGED <<password, cache>>
  BY <1>1 DEF Creator, Cleanup, Begin, Open, Check, Reconnect, Create, CreateDone,
     CreateFails, Killed, CleanCount, CleanDrop, CleanSkip, CleanDone, Return,
     Called, FetchSecret, LoginOk, LoginRefused, LoginFails, Hangup, dbVars, accessVars
<1>4. DbInv' /\ UNCHANGED password
  BY <1>2, <1>3 DEF DbInv
<1>5. \A c \in Injectors : cache'[c] = cache[c] /\ conn'[c] = conn[c]
  BY <1>2, <1>3, InjectorsAreClients DEF DbInv
<1> QED
  BY <1>2, <1>4, <1>5, OthersKeep DEF DbInv

LEMMA NextInjectInv == InjectInv /\ [Next]_vars => InjectInv'
<1> SUFFICES ASSUME InjectInv, [Next]_vars PROVE InjectInv'
  OBVIOUS
<1>0. DbInv
  BY DEF InjectInv
<1>1. CASE Rotate /\ UNCHANGED <<schemaVars, injectVars>>
  <2>1. password' = password + 1 /\ UNCHANGED <<cache, conn>>
    BY <1>1 DEF Rotate
  <2>2. DbInv' /\ password <= password'
    BY <1>0, <2>1 DEF DbInv
  <2> QED
    BY <1>1, <2>1, <2>2, OthersKeep
<1>2. CASE UNCHANGED vars
  <2>1. UNCHANGED <<password, cache, conn, injectVars>>
    BY <1>2 DEF vars, dbVars, accessVars
  <2> QED
    BY <1>0, <2>1, OthersKeep DEF DbInv
<1> QED
  BY <1>1, <1>2, InjectorStep, CrashKeeps, SchemaStep DEF Next, InjectNext

LEMMA InjectInvAlways == Spec => []InjectInv
BY InitInjectInv, NextInjectInv, PTL DEF Spec

(* However many fault Lambdas crash the instance under each other, and     *)
(* whatever errors come on live connections: who lost its connection to    *)
(* its own crash outcomes crash_injected, and nobody but a crash Lambda     *)
(* does; executed is answered only when the query ran.                     *)
THEOREM AnswersAlwaysTrue == Spec => []AnswersAreTrue
<1>1. InjectInv => AnswersAreTrue
  BY DEF InjectInv, InjectorInv, AnswersAreTrue
<1> QED
  BY <1>1, InjectInvAlways, PTL

(* A process is refused by the database only if the secret was rotated     *)
(* after the process started.                                              *)
THEOREM RefusalMeansRotation == Spec => []RefusedOnlyAfterRotation
<1>1. InjectInv => RefusedOnlyAfterRotation
  BY DEF InjectInv, InjectorInv, RefusedOnlyAfterRotation
<1> QED
  BY <1>1, InjectInvAlways, PTL

-------------------------------------------------------------------------------
(* The pgbench tables. *)

PCs == {"idle", "connect", "check", "reconnect", "create", "drop"}

SchemaTypes ==
  /\ tables \in [Tables -> {"absent", "empty", "filled"}]
  /\ pc \in [SchemaClients -> PCs]
  /\ step \in [SchemaClients -> Nat \ {0}]
  /\ rebuilders \subseteq Creators

(* A Lambda that creates took the schema for missing. *)
CreatorInv(c) == pc[c] \in {"reconnect", "create"} => c \in rebuilders

SchemaInv ==
  /\ SchemaTypes
  /\ \A c \in Creators : CreatorInv(c)
  /\ ListedTablesAreGone /\ dropped \subseteq Tables

LEMMA CreateScriptFacts ==
  /\ Len(CreateScript) = 11
  /\ \A n \in 1..11 :
       /\ CreateScript[n][2] \in Tables
       /\ Effect(CreateScript[n]) \in {"absent", "empty", "filled"}
<1>1. Len(CreateScript) = 11
  BY DEF CreateScript
<1>2. ASSUME NEW n \in 1..11
      PROVE  /\ CreateScript[n][2] \in Tables
             /\ Effect(CreateScript[n]) \in {"absent", "empty", "filled"}
  BY DEF CreateScript, Effect, Tables
<1> QED
  BY <1>1, <1>2

LEMMA ClientsApart ==
  /\ Cleaner \in SchemaClients /\ Cleaner \notin Creators /\ Creators \subseteq SchemaClients
BY SchemaAssumption DEF SchemaClients

LEMMA InitSchemaInv == Init => SchemaInv
BY ClientsApart DEF Init, SchemaInit, SchemaInv, SchemaTypes, PCs, CreatorInv,
   ListedTablesAreGone

(* A step that puts nothing on the list, and fills no table on it again.   *)
LEMMA MoveSchema ==
  ASSUME SchemaInv, NEW c \in SchemaClients, NEW l \in PCs,
         pc' = [pc EXCEPT ![c] = l],
         tables' \in [Tables -> {"absent", "empty", "filled"}],
         \A x \in Tables : tables'[x] = tables[x] \/ tables'[x] = "absent",
         rebuilders' \in {rebuilders, rebuilders \cup ({c} \cap Creators)},
         step' \in [SchemaClients -> Nat \ {0}],
         c \in Creators /\ l \in {"reconnect", "create"} => c \in rebuilders',
         dropped' \subseteq dropped, dropped \subseteq Tables
  PROVE  SchemaInv'
<1>1. SchemaTypes'
  BY DEF SchemaInv, SchemaTypes
<1>2. \A d \in Creators : CreatorInv(d)'
  BY ClientsApart DEF SchemaInv, SchemaTypes, CreatorInv
<1>3. ListedTablesAreGone'
  BY DEF SchemaInv, ListedTablesAreGone
<1> QED
  BY <1>1, <1>2, <1>3 DEF SchemaInv

LEMMA CreatorStep ==
  ASSUME SchemaInv, NEW c \in Creators, Creator(c)
  PROVE  SchemaInv'
<1>0. /\ SchemaTypes /\ CreatorInv(c) /\ dropped \subseteq Tables
      /\ c \in SchemaClients /\ c # Cleaner
  BY ClientsApart DEF SchemaInv
<1>1. CASE Begin(c) \/ Open(c) \/ CreateDone(c) \/ CreateFails(c) \/ Killed(c)
  <2>1. PICK l \in {"idle", "connect", "check"} : pc' = [pc EXCEPT ![c] = l]
    <3>1. CASE Open(c)
      BY <1>0, <3>1 DEF Open, Goto, End, SchemaTypes
    <3> QED
      BY <1>1, <3>1 DEF Begin, CreateDone, CreateFails, Killed, Return, End, Goto
  <2>2. /\ UNCHANGED <<tables, rebuilders, dropped>>
        /\ step' = step \/ step' = [step EXCEPT ![c] = 1]
    BY <1>0, <1>1 DEF Begin, Open, CreateDone, CreateFails, Killed
  <2>3. step' \in [SchemaClients -> Nat \ {0}]
    BY <1>0, <2>2 DEF SchemaTypes
  <2> QED
    BY <1>0, <2>1, <2>2, <2>3, MoveSchema DEF PCs, SchemaTypes
<1>2. CASE Reconnect(c)
  <2>1. PICK l \in {"idle", "create"} : pc' = [pc EXCEPT ![c] = l]
    BY <1>2 DEF Reconnect, Goto, End
  <2>2. UNCHANGED <<tables, step, rebuilders, dropped>> /\ c \in rebuilders
    BY <1>0, <1>2 DEF Reconnect, CreatorInv
  <2> QED
    BY <1>0, <2>1, <2>2, MoveSchema DEF PCs, SchemaTypes
<1>3. CASE Check(c)
  <2>1. UNCHANGED <<tables, step, dropped>>
    BY <1>3 DEF Check
  <2>2. \/ pc' = [pc EXCEPT ![c] = "idle"] /\ UNCHANGED rebuilders
        \/ pc' = [pc EXCEPT ![c] = "reconnect"] /\ rebuilders' = rebuilders \cup {c}
    BY <1>3 DEF Check, Return, End, Goto
  <2>3. {c} \cap Creators = {c}
    OBVIOUS
  <2>4. PICK l \in {"idle", "reconnect"} :
          /\ pc' = [pc EXCEPT ![c] = l]
          /\ rebuilders' \in {rebuilders, rebuilders \cup {c}}
          /\ l = "reconnect" => c \in rebuilders'
    BY <2>2
  <2> QED
    BY <1>0, <2>1, <2>3, <2>4, MoveSchema DEF PCs, SchemaTypes
<1>4. CASE Create(c)
  <2> DEFINE s == CreateScript[step[c]]
  <2>1. /\ pc[c] = "create" /\ step[c] <= Len(CreateScript)
        /\ tables' = [tables EXCEPT ![s[2]] = Effect(s)]
        /\ step' = [step EXCEPT ![c] = @ + 1] /\ UNCHANGED <<pc, rebuilders, dropped>>
    BY <1>4 DEF Create
  <2>2. step[c] \in 1..11
    BY <1>0, <2>1, CreateScriptFacts DEF SchemaTypes
  <2>3. s[2] \in Tables /\ Effect(s) \in {"absent", "empty", "filled"}
    BY <2>2, CreateScriptFacts
  <2>4. SchemaTypes'
    <3> HIDE DEF s
    <3> QED
      BY <1>0, <2>1, <2>3 DEF SchemaTypes
  <2>5. \A d \in Creators : CreatorInv(d)'
    BY <2>1 DEF SchemaInv, CreatorInv
  <2>6. ListedTablesAreGone' /\ dropped' \subseteq Tables
    BY <1>0, <2>1 DEF CreatorInv, ListedTablesAreGone
  <2> QED
    BY <2>4, <2>5, <2>6 DEF SchemaInv
<1> QED
  BY <1>1, <1>2, <1>3, <1>4 DEF Creator

LEMMA CleanupStep ==
  ASSUME SchemaInv, Cleanup
  PROVE  SchemaInv'
<1>0. /\ SchemaTypes /\ ListedTablesAreGone /\ dropped \subseteq Tables
      /\ Cleaner \in SchemaClients /\ Cleaner \notin Creators /\ Creators \subseteq SchemaClients
  BY ClientsApart DEF SchemaInv
<1>1. CASE \/ Begin(Cleaner) \/ Open(Cleaner) \/ CleanDone
           \/ \E x \in Tables : CleanCount(x) \/ CleanSkip(x)
  <2>1. PICK l \in PCs : pc' = [pc EXCEPT ![Cleaner] = l]
    <3>1. CASE Open(Cleaner)
      BY <1>0, <3>1 DEF Open, Goto, End, SchemaTypes, PCs
    <3> QED
      BY <1>1, <3>1 DEF Begin, CleanDone, CleanCount, CleanSkip, NextTable, Return, End, Goto, PCs
  <2>2. /\ UNCHANGED rebuilders /\ dropped' \subseteq dropped
        /\ \/ step' = step \/ step' = [step EXCEPT ![Cleaner] = 1]
           \/ step' = [step EXCEPT ![Cleaner] = @ + 1]
    BY <1>1 DEF Begin, Open, CleanDone, CleanCount, CleanSkip, NextTable
  <2>3. UNCHANGED tables \/ \E x \in Tables : tables' = [tables EXCEPT ![x] = "absent"]
    BY <1>1 DEF Begin, Open, CleanDone, CleanCount, CleanSkip
  <2>4. step' \in [SchemaClients -> Nat \ {0}]
    BY <1>0, <2>2 DEF SchemaTypes
  <2>5. /\ tables' \in [Tables -> {"absent", "empty", "filled"}]
        /\ \A x \in Tables : tables'[x] = tables[x] \/ tables'[x] = "absent"
    BY <1>0, <2>3 DEF SchemaTypes
  <2> QED
    BY <1>0, <2>1, <2>2, <2>4, <2>5, MoveSchema
<1>2. ASSUME NEW x \in Tables, CleanDrop(x) PROVE SchemaInv'
  <2>1. /\ tables' = [tables EXCEPT ![x] = "absent"] /\ dropped' = dropped \cup {x}
        /\ step' = [step EXCEPT ![Cleaner] = @ + 1]
        /\ pc' = [pc EXCEPT ![Cleaner] = "check"] /\ UNCHANGED rebuilders
    BY <1>2 DEF CleanDrop, NextTable, Goto
  <2>2. SchemaTypes'
    BY <1>0, <2>1 DEF SchemaTypes, PCs
  <2>3. \A d \in Creators : CreatorInv(d)'
    BY <1>0, <2>1 DEF SchemaInv, SchemaTypes, CreatorInv
  <2>4. ListedTablesAreGone' /\ dropped' \subseteq Tables
    BY <1>0, <2>1 DEF ListedTablesAreGone, SchemaTypes
  <2> QED
    BY <2>2, <2>3, <2>4 DEF SchemaInv
<1> QED
  BY <1>1, <1>2 DEF Cleanup

LEMMA NextSchemaInv == SchemaInv /\ [Next]_vars => SchemaInv'
<1> SUFFICES ASSUME SchemaInv, [Next]_vars PROVE SchemaInv'
  OBVIOUS
<1>1. CASE UNCHANGED schemaVars
  BY <1>1 DEF schemaVars, SchemaInv, SchemaTypes, CreatorInv, ListedTablesAreGone
<1> QED
  BY <1>1, CreatorStep, CleanupStep DEF Next, SchemaNext, vars

LEMMA SchemaInvAlways == Spec => []SchemaInv
BY InitSchemaInv, NextSchemaInv, PTL DEF Spec

(* dropped_tables is true: a table it lists is gone, unless an invocation  *)
(* went on to create the schema again.                                     *)
THEOREM ListedAlwaysGone == Spec => []ListedTablesAreGone
<1>1. SchemaInv => ListedTablesAreGone
  BY DEF SchemaInv
<1> QED
  BY <1>1, SchemaInvAlways, PTL

-------------------------------------------------------------------------------
(* A half-made schema. *)

(* The places of a table's statements in the script. *)
DropAt == [history |-> 1, tellers |-> 2, accounts |-> 3, branches |-> 4]
CreateAt == [branches |-> 5, tellers |-> 6, accounts |-> 7, history |-> 8]
FillAt == [history |-> 8, branches |-> 9, tellers |-> 10, accounts |-> 11]

(* A Lambda that has dropped a table and not created it yet, and one that  *)
(* has created it and not filled it yet.                                   *)
HasDropped(c, x) == pc[c] = "create" /\ DropAt[x] < step[c] /\ step[c] <= CreateAt[x]
HasCreated(c, x) == pc[c] = "create" /\ CreateAt[x] < step[c] /\ step[c] <= FillAt[x]

(* Nobody has dropped the table and left it: it was never there. *)
NeverMade(x) == tables[x] = "absent" /\ \A c \in Creators : ~ HasDropped(c, x)

(* There was no clean-up, and no creation has failed. *)
AllWell ==
  /\ outcomes[Cleaner] = {} /\ pc[Cleaner] = "idle"
  /\ \A c \in Creators : outcomes[c] \cap {"false", "killed"} = {}

(* Then whatever is unfinished has somebody at work on it; in particular a *)
(* Lambda that succeeds has not had its tables dropped under it.           *)
Unfinished ==
  /\ \A x \in Tables \ {"history"} :
       tables[x] = "empty" => \E c \in Creators : HasCreated(c, x)
  /\ \A x \in Tables : NeverMade(x) =>
       /\ \A y \in Tables : tables[y] = "absent"
       /\ \A c \in Creators : pc[c] = "create" => step[c] <= DropAt[x]

HalfInv ==
  /\ outcomes = [c \in SchemaClients |-> outcomes[c]]
  /\ \A c \in Creators : pc[c] \notin {"idle", "create"} => step[c] = 1
  /\ AllWell => Unfinished

LEMMA Places ==
  /\ \A x \in Tables : DropAt[x] \in 1..4 /\ CreateAt[x] \in 5..8 /\ FillAt[x] \in 8..11
  /\ \A n \in 1..11 : \E x \in Tables :
       /\ CreateScript[n][2] = x
       /\ \/ /\ n \in 1..4 /\ DropAt[x] = n /\ Effect(CreateScript[n]) = "absent"
          \/ /\ n \in 5..8 /\ CreateAt[x] = n /\ Effect(CreateScript[n]) = "empty"
             /\ CreateScript[n][1] = "create" /\ (x # "history" => FillAt[x] > n)
             /\ \A y \in Tables \ {x} : CreateAt[y] # n
          \/ /\ n \in 9..11 /\ FillAt[x] = n /\ Effect(CreateScript[n]) = "filled"
             /\ \A y \in Tables \ {x} : FillAt[y] # n
<1>1. \A x \in Tables : DropAt[x] \in 1..4 /\ CreateAt[x] \in 5..8 /\ FillAt[x] \in 8..11
  BY DEF Tables, DropAt, CreateAt, FillAt
<1>2. ASSUME NEW n \in 1..4
      PROVE  \E x \in Tables : /\ CreateScript[n][2] = x /\ DropAt[x] = n
                               /\ Effect(CreateScript[n]) = "absent"
  BY DEF CreateScript, Tables, DropAt, Effect
<1>3. ASSUME NEW n \in 5..8
      PROVE  \E x \in Tables :
               /\ CreateScript[n][2] = x /\ CreateAt[x] = n
               /\ Effect(CreateScript[n]) = "empty" /\ CreateScript[n][1] = "create"
               /\ (x # "history" => FillAt[x] > n)
               /\ \A y \in Tables \ {x} : CreateAt[y] # n
  BY DEF CreateScript, Tables, CreateAt, FillAt, Effect
<1>4. ASSUME NEW n \in 9..11
      PROVE  \E x \in Tables :
               /\ CreateScript[n][2] = x /\ FillAt[x] = n
               /\ Effect(CreateScript[n]) = "filled"
               /\ \A y \in Tables \ {x} : FillAt[y] # n
  BY DEF CreateScript, Tables, FillAt, Effect
<1> QED BY <1>1, <1>2, <1>3, <1>4

(* Who changes what: a creator that ends, one that works on, the clean-up. *)
CreatorEnds(c) ==
  /\ pc' = [pc EXCEPT ![c] = "idle"]
  /\ \E s : /\ outcomes' = [outcomes EXCEPT ![c] = s] /\ outcomes[c] \subseteq s
            /\ pc[c] = "create" /\ step[c] <= 11 => s \cap {"false", "killed"} # {}
  /\ UNCHANGED step
CreatorGoesOn(c) ==
  /\ UNCHANGED outcomes /\ pc[c] # "create"
  /\ \E l \in {"connect", "check", "reconnect", "create"} : pc' = [pc EXCEPT ![c] = l]
  /\ \/ pc[c] = "idle" /\ step' = [step EXCEPT ![c] = 1] /\ pc'[c] # "create"
     \/ pc[c] # "idle" /\ UNCHANGED step

LEMMA EndIsEnds ==
  ASSUME NEW c, NEW a, End(c, a), UNCHANGED step,
         pc[c] = "create" /\ step[c] <= 11 => a \in {"false", "killed"}
  PROVE  CreatorEnds(c)
<1>1. PICK s : s = outcomes[c] \cup {a}
  OBVIOUS
<1>2. outcomes' = [outcomes EXCEPT ![c] = s] /\ pc' = [pc EXCEPT ![c] = "idle"]
  BY <1>1 DEF End, Goto
<1>3. outcomes[c] \subseteq s /\ (pc[c] = "create" /\ step[c] <= 11 => s \cap {"false", "killed"} # {})
  BY <1>1
<1> QED BY <1>2, <1>3 DEF CreatorEnds

LEMMA CreatorMoves ==
  ASSUME SchemaInv, HalfInv, NEW c \in Creators, Creator(c), ~ Create(c)
  PROVE  UNCHANGED tables /\ (CreatorEnds(c) \/ CreatorGoesOn(c) \/ UNCHANGED <<pc, step, outcomes>>)
<1>0. /\ c \in SchemaClients /\ pc = [d \in SchemaClients |-> pc[d]]
      /\ pc \in [SchemaClients -> PCs] /\ step[c] \in Nat
  BY ClientsApart DEF SchemaInv, SchemaTypes
<1>1. CASE Begin(c)
  BY <1>0, <1>1 DEF Begin, CreatorGoesOn, Goto
<1>2. CASE Open(c)
  <2>1. UNCHANGED <<tables, step>> /\ pc[c] = "connect"
    BY <1>2 DEF Open
  <2>2. CASE End(c, "raised")
    BY <2>1, <2>2, EndIsEnds
  <2>3. CASE LoginOk(c) /\ Goto(c, "check") /\ UNCHANGED outcomes
    BY <1>0, <2>1, <2>3 DEF CreatorGoesOn, Goto
  <2>4. CASE UNCHANGED <<pc, outcomes>>
    BY <2>1, <2>4
  <2> QED BY <1>2, <2>2, <2>3, <2>4 DEF Open
<1>3. CASE Check(c)
  BY <1>0, <1>3, EndIsEnds DEF Check, CreatorGoesOn, Return, Goto
<1>4. CASE Reconnect(c)
  BY <1>0, <1>4, EndIsEnds DEF Reconnect, CreatorGoesOn, Goto
<1>5. CASE CreateDone(c)
  <2>1. UNCHANGED <<tables, step>> /\ step[c] > 11 /\ End(c, "true")
    BY <1>5, CreateScriptFacts DEF CreateDone, Return
  <2>2. ~ (step[c] <= 11)
    BY <1>0, <2>1
  <2> QED BY <2>1, <2>2, EndIsEnds
<1>6. CASE CreateFails(c) \/ Killed(c)
  BY <1>6, EndIsEnds DEF CreateFails, Killed, Return
<1> QED BY <1>1, <1>2, <1>3, <1>4, <1>5, <1>6 DEF Creator

LEMMA MovesKeepHalf ==
  ASSUME SchemaInv, HalfInv, NEW c \in Creators, UNCHANGED tables, CreatorEnds(c) \/ CreatorGoesOn(c)
  PROVE  HalfInv'
<1>1. /\ pc \in [SchemaClients -> PCs] /\ step \in [SchemaClients -> Nat \ {0}]
      /\ outcomes = [d \in SchemaClients |-> outcomes[d]]
      /\ c \in SchemaClients /\ Creators \subseteq SchemaClients /\ Cleaner \in SchemaClients
      /\ c # Cleaner
  BY ClientsApart DEF SchemaInv, SchemaTypes, HalfInv
<1>2. /\ \A d \in SchemaClients \ {c} :
           pc'[d] = pc[d] /\ step'[d] = step[d] /\ outcomes'[d] = outcomes[d]
      /\ outcomes' = [d \in SchemaClients |-> outcomes'[d]] /\ outcomes[c] \subseteq outcomes'[c]
  <2>1. CASE CreatorEnds(c)
    <3>1. PICK s : outcomes' = [outcomes EXCEPT ![c] = s] /\ outcomes[c] \subseteq s
      BY <2>1 DEF CreatorEnds
    <3>2. UNCHANGED step /\ pc' = [pc EXCEPT ![c] = "idle"]
      BY <2>1 DEF CreatorEnds
    <3> QED BY <1>1, <3>1, <3>2
  <2>2. CASE CreatorGoesOn(c)
    <3>1. UNCHANGED outcomes /\ \E l : pc' = [pc EXCEPT ![c] = l]
      BY <2>2 DEF CreatorGoesOn
    <3>2. step' = [step EXCEPT ![c] = 1] \/ UNCHANGED step
      BY <2>2 DEF CreatorGoesOn
    <3> QED BY <1>1, <3>1, <3>2
  <2> QED BY <2>1, <2>2
<1>3. pc'[c] \notin {"idle", "create"} => step'[c] = 1
  BY <1>1 DEF CreatorEnds, CreatorGoesOn, HalfInv
<1>4. AllWell' => AllWell
  BY <1>1, <1>2 DEF AllWell
<1>5. ASSUME AllWell'
      PROVE  /\ \A d \in Creators, x \in Tables : (HasDropped(d, x)' <=> HasDropped(d, x))
             /\ \A d \in Creators, x \in Tables : (HasCreated(d, x)' <=> HasCreated(d, x))
             /\ \A d \in Creators : pc'[d] = "create" =>
                  step'[d] = 1 \/ (pc[d] = "create" /\ step'[d] = step[d])
  <2>1. \A d \in Creators \ {c}, x \in Tables :
          (HasDropped(d, x)' <=> HasDropped(d, x)) /\ (HasCreated(d, x)' <=> HasCreated(d, x))
    BY <1>1, <1>2 DEF HasDropped, HasCreated
  <2>2. CASE CreatorEnds(c)
    <3>1. pc'[c] = "idle"
      BY <1>1, <2>2 DEF CreatorEnds
    <3>2. pc[c] = "create" => step[c] > 11
      <4>1. outcomes'[c] \cap {"false", "killed"} = {}
        BY <1>5 DEF AllWell
      <4>2. PICK s : /\ outcomes' = [outcomes EXCEPT ![c] = s]
                     /\ pc[c] = "create" /\ step[c] <= 11 => s \cap {"false", "killed"} # {}
        BY <2>2 DEF CreatorEnds
      <4>3. outcomes'[c] = s
        BY <1>1, <4>2
      <4>4. pc[c] = "create" => ~ (step[c] <= 11)
        <5> HIDE <4>2
        <5>1. pc[c] = "create" /\ step[c] <= 11 => s \cap {"false", "killed"} # {}
          BY <4>2
        <5> QED BY <4>1, <4>3, <5>1
      <4> QED BY <1>1, <4>4
    <3>3. \A x \in Tables : /\ ~ HasDropped(c, x) /\ ~ HasCreated(c, x)
                            /\ ~ HasDropped(c, x)' /\ ~ HasCreated(c, x)'
      BY <1>1, <3>1, <3>2, Places DEF HasDropped, HasCreated
    <3> QED BY <1>2, <2>1, <3>1, <3>3, <1>1
  <2>3. CASE CreatorGoesOn(c)
    <3>1. pc[c] # "create" /\ (pc'[c] = "create" => step'[c] = 1)
      BY <1>1, <2>3 DEF CreatorGoesOn, HalfInv, PCs
    <3>2. \A x \in Tables : /\ ~ HasDropped(c, x) /\ ~ HasCreated(c, x)
                            /\ ~ HasDropped(c, x)' /\ ~ HasCreated(c, x)'
      BY <1>1, <3>1, Places DEF HasDropped, HasCreated
    <3> QED BY <1>2, <2>1, <3>1, <3>2, <1>1
  <2> QED BY <2>2, <2>3
<1>6. AllWell' => Unfinished'
  <2> SUFFICES ASSUME AllWell' PROVE Unfinished'
    OBVIOUS
  <2>1. Unfinished
    BY <1>4 DEF HalfInv
  <2>2. \A x \in Tables : (NeverMade(x)' <=> NeverMade(x))
    BY <1>5 DEF NeverMade
  <2>3. \A x \in Tables : DropAt[x] >= 1
    BY Places
  <2> QED BY <1>5, <2>1, <2>2, <2>3 DEF Unfinished
<1> QED BY <1>1, <1>2, <1>3, <1>6 DEF HalfInv

LEMMA CreateKeepsHalf ==
  ASSUME SchemaInv, HalfInv, NEW c \in Creators, Create(c)
  PROVE  HalfInv'
<1>1. /\ pc \in [SchemaClients -> PCs] /\ step \in [SchemaClients -> Nat \ {0}]
      /\ tables \in [Tables -> {"absent", "empty", "filled"}]
      /\ c \in SchemaClients /\ Creators \subseteq SchemaClients
  BY ClientsApart DEF SchemaInv, SchemaTypes
<1>2. PICK n : n = step[c]
  OBVIOUS
<1>3. /\ pc[c] = "create" /\ n \in 1..11 /\ UNCHANGED <<pc, outcomes>>
      /\ step' = [step EXCEPT ![c] = n + 1]
      /\ Works(CreateScript[n])
  BY <1>1, <1>2, CreateScriptFacts DEF Create
<1>4. PICK x \in Tables : /\ CreateScript[n][2] = x
      /\ \/ /\ n \in 1..4 /\ DropAt[x] = n /\ Effect(CreateScript[n]) = "absent"
         \/ /\ n \in 5..8 /\ CreateAt[x] = n /\ Effect(CreateScript[n]) = "empty"
            /\ CreateScript[n][1] = "create" /\ (x # "history" => FillAt[x] > n)
            /\ \A y \in Tables \ {x} : CreateAt[y] # n
         \/ /\ n \in 9..11 /\ FillAt[x] = n /\ Effect(CreateScript[n]) = "filled"
            /\ \A y \in Tables \ {x} : FillAt[y] # n
  BY <1>3, Places
<1>5. PICK e : e = Effect(CreateScript[n])
  OBVIOUS
<1>6. tables' = [tables EXCEPT ![x] = e]
  BY <1>2, <1>4, <1>5 DEF Create
<1>7. tables'[x] = e /\ \A y \in Tables \ {x} : tables'[y] = tables[y]
  BY <1>1, <1>6
<1>8. step'[c] = n + 1 /\ \A d \in Creators \ {c} : step'[d] = step[d]
  BY <1>1, <1>3
<1>9. \A d \in Creators \ {c}, y \in Tables :
        (HasDropped(d, y)' <=> HasDropped(d, y)) /\ (HasCreated(d, y)' <=> HasCreated(d, y))
  BY <1>3, <1>8 DEF HasDropped, HasCreated
<1>10. \A y \in Tables : DropAt[y] \in 1..4 /\ CreateAt[y] \in 5..8 /\ FillAt[y] \in 8..11
  BY Places
<1>11. AllWell' = AllWell
  BY <1>3 DEF AllWell
<1>12. ASSUME Unfinished PROVE Unfinished'
  <2>1. CASE n \in 1..4 /\ DropAt[x] = n /\ e = "absent"
    <3>1. HasDropped(c, x)'
      BY <1>3, <1>8, <1>10, <2>1 DEF HasDropped
    <3>2. \A y \in Tables : HasDropped(c, y) => HasDropped(c, y)'
      BY <1>2, <1>3, <1>8, <1>10, <2>1 DEF HasDropped
    <3>3. \A y \in Tables : ~ HasCreated(c, y)
      BY <1>2, <1>3, <1>10, <2>1 DEF HasCreated
    <3>4. \A y \in Tables \ {"history"} :
            tables'[y] = "empty" => \E d \in Creators : HasCreated(d, y)'
      BY <1>7, <1>9, <1>12, <2>1, <3>3 DEF Unfinished
    <3>5. ASSUME NEW y \in Tables, NeverMade(y)'
          PROVE  /\ \A z \in Tables : tables'[z] = "absent"
                 /\ \A d \in Creators : pc'[d] = "create" => step'[d] <= DropAt[y]
      <4>1. y # x /\ NeverMade(y)
        BY <1>7, <1>9, <3>1, <3>2, <3>5 DEF NeverMade
      <4>2. /\ \A z \in Tables : tables[z] = "absent"
            /\ \A d \in Creators : pc[d] = "create" => step[d] <= DropAt[y]
        BY <1>12, <4>1 DEF Unfinished
      <4>3. step'[c] <= DropAt[y]
        <5>1. n <= DropAt[y]
          BY <1>2, <1>3, <4>2
        <5>2. n # DropAt[y]
          BY <2>1, <4>1 DEF DropAt, Tables
        <5> QED BY <1>3, <1>8, <1>10, <5>1, <5>2
      <4> QED BY <1>3, <1>7, <1>8, <2>1, <4>2, <4>3
    <3> QED BY <3>4, <3>5 DEF Unfinished
  <2>2. CASE n > 4
    <3>1. \A y \in Tables : ~ NeverMade(y)
      BY <1>2, <1>3, <1>10, <1>12, <2>2 DEF Unfinished
    <3>2. e # "absent"
      BY <1>4, <1>5, <2>2
    <3>3. \A y \in Tables : ~ NeverMade(y)'
      <4> TAKE y \in Tables
      <4>1. CASE y = x
        BY <1>7, <3>2, <4>1 DEF NeverMade
      <4>2. CASE y # x
        <5>1. HasDropped(c, y) => HasDropped(c, y)'
          BY <1>2, <1>3, <1>4, <1>8, <1>10, <2>2, <4>2 DEF HasDropped
        <5> QED BY <1>7, <1>9, <3>1, <4>2, <5>1 DEF NeverMade
      <4> QED BY <4>1, <4>2
    <3>4. ASSUME NEW y \in Tables \ {"history"}, tables'[y] = "empty"
          PROVE  \E d \in Creators : HasCreated(d, y)'
      <4>1. CASE y = x
        <5>1. n \in 5..8 /\ CreateAt[x] = n /\ FillAt[x] > n
          BY <1>4, <1>5, <1>7, <2>2, <3>4, <4>1
        <5> QED BY <1>3, <1>8, <1>10, <4>1, <5>1 DEF HasCreated
      <4>2. CASE y # x
        <5>1. PICK d \in Creators : HasCreated(d, y)
          BY <1>7, <1>12, <3>4, <4>2 DEF Unfinished
        <5>2. HasCreated(c, y) => HasCreated(c, y)'
          <6>1. FillAt[y] \in 9..11
            BY <3>4 DEF FillAt, Tables
          <6> QED BY <6>1, <1>2, <1>3, <1>4, <1>8, <1>10, <2>2, <4>2 DEF HasCreated
        <5> QED BY <1>9, <5>1, <5>2
      <4> QED BY <4>1, <4>2
    <3> QED BY <3>3, <3>4 DEF Unfinished
  <2> QED BY <1>3, <1>4, <1>5, <2>1, <2>2
<1>13. \A d \in Creators : pc'[d] \notin {"idle", "create"} => step'[d] = 1
  BY <1>3, <1>8 DEF HalfInv
<1> QED BY <1>3, <1>11, <1>12, <1>13 DEF HalfInv

LEMMA CleanupKeepsHalf ==
  ASSUME SchemaInv, HalfInv, Cleanup
  PROVE  HalfInv'
<1>1. /\ pc \in [SchemaClients -> PCs] /\ step \in [SchemaClients -> Nat \ {0}]
      /\ outcomes = [d \in SchemaClients |-> outcomes[d]]
      /\ Creators \subseteq SchemaClients /\ Cleaner \in SchemaClients /\ Cleaner \notin Creators
  BY ClientsApart DEF SchemaInv, SchemaTypes, HalfInv
<1>2. /\ pc'[Cleaner] # "idle" \/ outcomes'[Cleaner] # {}
      /\ outcomes' = [d \in SchemaClients |-> outcomes'[d]]
      /\ \A d \in Creators : outcomes'[d] = outcomes[d] /\ step'[d] = step[d] /\ pc'[d] = pc[d]
  <2>1. CASE Begin(Cleaner)
    <3>1. /\ pc' = [pc EXCEPT ![Cleaner] = "connect"] /\ outcomes' = outcomes
          /\ step' = [step EXCEPT ![Cleaner] = 1]
      BY <2>1 DEF Begin, Goto
    <3>2. \A d \in Creators : step'[d] = step[d]
      BY <1>1, <3>1
    <3> QED BY <1>1, <3>1, <3>2
  <2>2. CASE Open(Cleaner)
    <3>1. pc[Cleaner] = "connect" /\ step' = step
      BY <2>2 DEF Open
    <3>2. CASE End(Cleaner, "raised")
      <4>1. outcomes'[Cleaner] = outcomes[Cleaner] \cup {"raised"}
        BY <1>1, <3>2 DEF End
      <4>2. outcomes'[Cleaner] # {}
        BY <4>1
      <4> QED BY <1>1, <3>1, <3>2, <4>2 DEF End, Goto
    <3>3. CASE UNCHANGED outcomes
      <4>1. CASE Goto(Cleaner, "check")
        <5>1. pc' = [pc EXCEPT ![Cleaner] = "check"]
          BY <4>1 DEF Goto
        <5> QED BY <1>1, <3>1, <3>3, <5>1
      <4>2. CASE UNCHANGED pc
        BY <1>1, <3>1, <3>3, <4>2
      <4>3. CASE End(Cleaner, "raised")
        BY <3>2, <4>3
      <4> QED BY <2>2, <4>1, <4>2, <4>3 DEF Open
    <3> QED BY <2>2, <3>2, <3>3 DEF Open
  <2>3. CASE \E x \in Tables : CleanCount(x) \/ CleanDrop(x) \/ CleanSkip(x)
    BY <1>1, <2>3 DEF CleanCount, CleanDrop, CleanSkip, NextTable, Goto
  <2>4. CASE CleanDone
    <3>1. outcomes'[Cleaner] = outcomes[Cleaner] \cup {"clean"}
      BY <1>1, <2>4 DEF CleanDone, Return, End
    <3>2. outcomes'[Cleaner] # {}
      BY <3>1
    <3> QED BY <1>1, <2>4, <3>2 DEF CleanDone, Return, End, Goto
  <2> QED BY <2>1, <2>2, <2>3, <2>4 DEF Cleanup
<1>3. ~ AllWell'
  BY <1>1, <1>2 DEF AllWell
<1> QED BY <1>2, <1>3 DEF HalfInv

LEMMA InitHalf == Init => HalfInv
<1> SUFFICES ASSUME Init PROVE HalfInv
  OBVIOUS
<1>1. Creators \subseteq SchemaClients /\ Cleaner \in SchemaClients
  BY ClientsApart
<1>2. /\ \A c \in Creators : pc[c] = "idle"
      /\ outcomes = [c \in SchemaClients |-> {}]
      /\ \/ \A x \in Tables : tables[x] = "absent"
         \/ \A x \in Tables : tables[x] = IF x = "history" THEN "empty" ELSE "filled"
  BY <1>1 DEF Init, SchemaInit
<1> QED BY <1>2 DEF HalfInv, Unfinished, NeverMade

LEMMA NextHalf == SchemaInv /\ HalfInv /\ [Next]_vars => HalfInv'
<1> SUFFICES ASSUME SchemaInv, HalfInv, [Next]_vars PROVE HalfInv'
  OBVIOUS
<1>1. CASE UNCHANGED <<tables, pc, step, outcomes>>
  BY <1>1 DEF HalfInv, AllWell, Unfinished, NeverMade, HasDropped, HasCreated
<1>2. CASE \E c \in Creators : Creator(c)
  <2>1. PICK c \in Creators : Creator(c)
    BY <1>2
  <2> QED BY <1>1, <2>1, CreatorMoves, MovesKeepHalf, CreateKeepsHalf
<1> QED BY <1>1, <1>2, CleanupKeepsHalf DEF Next, SchemaNext, vars, schemaVars

(* ensure_pgbench_schema: a half-made schema, which every later check      *)
(* takes for a complete one, is always the work of a creation that failed, *)
(* was cut off or is still under way: of the Lambdas that create it at the *)
(* same time, those whose tables another one dropped fail.                 *)
THEOREM HalfMadeNeedsFailure == Spec => []HalfMadeMeansFailure
<1>1. SchemaInv /\ HalfInv => HalfMadeMeansFailure
  <2> SUFFICES ASSUME SchemaInv, HalfInv, pc[Cleaner] = "idle", outcomes[Cleaner] = {},
                      tables["accounts"] # "absent",
                      ~ \E c \in Creators :
                          pc[c] = "create" \/ outcomes[c] \cap {"false", "killed"} # {}
               PROVE  Complete
    BY DEF HalfMadeMeansFailure, HalfMade
  <2>1. AllWell /\ \A c \in Creators : pc[c] # "create"
    BY DEF AllWell
  <2>2. Unfinished
    BY <2>1 DEF HalfInv
  <2>3. \A x \in Tables : tables[x] # "absent"
    BY <2>1, <2>2 DEF Unfinished, NeverMade, HasDropped, Tables
  <2>4. \A x \in Tables \ {"history"} : tables[x] # "empty"
    BY <2>1, <2>2 DEF Unfinished, HasCreated
  <2> QED BY <2>3, <2>4 DEF Complete, SchemaInv, SchemaTypes, Tables
<1> QED
  BY <1>1, SchemaInvAlways, InitHalf, NextHalf, PTL DEF Spec

-------------------------------------------------------------------------------
(***************************************************************************)
(* AuroraStages: the threads of all phases, and their slots.               *)
(***************************************************************************)

Kinds == {"holder"} \cup Sessions \cup Burners
Labels == {"start", "connect", "hold", "nap", "holding", "asleep", "loop", "operation",
           "done", "dead"}
ThreadSet ==
  [phase : Nat, kind : Kinds, slot : Nat, pc : Labels, count : Nat, errors : Nat,
   tried : Nat, open : Nat, timer : Nat]
SlotSet ==
  [status : {"none", "ok", "holding", "complete", "error"}, count : Nat, errors : Nat]

StageTypes ==
  /\ env \in Settings
  /\ now \in Nat
  /\ handler \in {"stage", "idle", "join", "returned", "killed"}
  /\ threads \in Seq(ThreadSet)
  /\ results \in Seq(Seq(SlotSet))
  /\ Len(results) <= Len(env.durations)
  /\ handler \in {"stage", "idle"} => Len(results) < Len(env.durations)
  /\ handler = "idle" => now >= PhaseStart(NextPhase)

(* When a thread may give its load up. *)
EndOf(t) == IF t.kind \in Burners THEN PhaseEnd(t.phase) ELSE TotalDuration

Slot(t) == results[t.phase][t.slot]

(* A thread and its slot: the slot holds what the thread has left so far;  *)
(* it ends too early only with an error; a session sleeps to the end.      *)
ThreadInv(i) ==
  LET t == threads[i]
  IN  /\ t.phase \in DOMAIN results /\ t.slot \in DOMAIN results[t.phase]
      /\ IF HasLeft(i) THEN Slot(t).count = t.count /\ Slot(t).errors = t.errors
         ELSE Slot(t).count = 0 /\ Slot(t).errors = 0
      /\ t.pc = "done" => Slot(t).status = "error" \/ now >= EndOf(t)
      /\ t.pc = "dead" => now >= EndOf(t)
      /\ t.kind \in Sessions => now >= PhaseStart(t.phase)
      /\ t.pc \in {"holding", "asleep"} => t.kind \in Sessions /\ t.timer >= TotalDuration

(* No two threads share a slot. *)
OwnSlots ==
  \A i, j \in DOMAIN threads :
    threads[i].phase = threads[j].phase /\ threads[i].slot = threads[j].slot => i = j

CountedTotal(f) == SumFunction([i \in DOMAIN threads |-> Counted(i, f)])
SlotTotal(f) == SumFunction([p \in DOMAIN results |-> PhaseTotal(p, f)])

StagesInv ==
  /\ StageTypes
  /\ \A i \in DOMAIN threads : ThreadInv(i)
  /\ OwnSlots
  /\ \A f \in Amounts : SlotTotal(f) = CountedTotal(f)
  /\ handler = "returned" => \A f \in Amounts : report[f] = CountedTotal(f)

-------------------------------------------------------------------------------
(* The phases. *)

LEMMA PhaseTimes ==
  ASSUME env \in Settings, NEW p \in 1..(Len(env.durations) + 1)
  PROVE  PhaseStart(p) \in Nat
<1>1. env.durations \in Seq(Nat)
  BY StagedRunAssumption
<1>2. Len(env.durations) \in Nat /\ \A k \in 1..(p - 1) : env.durations[k] \in Nat
  BY <1>1
<1>3. IsFiniteSet(1..(p - 1))
  BY <1>2, FS_Interval
<1> QED
  BY <1>2, <1>3, SumNat DEF PhaseStart

LEMMA TotalTime ==
  ASSUME env \in Settings
  PROVE  TotalDuration \in Nat
<1>1. Len(env.durations) + 1 \in 1..(Len(env.durations) + 1)
  BY StagedRunAssumption
<1> QED
  BY <1>1, PhaseTimes DEF TotalDuration, PhaseEnd

LEMMA EndTimes ==
  ASSUME StagesInv, NEW i \in DOMAIN threads
  PROVE  EndOf(threads[i]) \in Nat /\ PhaseStart(threads[i].phase) \in Nat
<1>1. env.durations \in Seq(Nat) /\ results \in Seq(Seq(SlotSet))
      /\ Len(results) <= Len(env.durations)
  BY StagedRunAssumption DEF StagesInv, StageTypes
<1>2. threads[i].phase \in DOMAIN results
  BY DEF StagesInv, ThreadInv
<1>3. /\ threads[i].phase \in 1..(Len(env.durations) + 1)
      /\ threads[i].phase + 1 \in 1..(Len(env.durations) + 1)
  <2>1. Len(env.durations) \in Nat /\ Len(results) \in Nat
        /\ DOMAIN results = 1..Len(results)
    BY <1>1, LenProperties
  <2>2. ASSUME NEW n \in Nat, NEW d \in Nat, n <= d, NEW p \in 1..n
        PROVE  p \in 1..(d + 1) /\ p + 1 \in 1..(d + 1)
    BY <2>2
  <2>3. threads[i].phase \in 1..Len(results) /\ Len(results) <= Len(env.durations)
    BY <1>1, <1>2, <2>1
  <2> QED BY ONLY <2>1, <2>2, <2>3
<1> QED
  BY <1>3, PhaseTimes, TotalTime DEF StagesInv, StageTypes, EndOf, PhaseEnd

-------------------------------------------------------------------------------
(* A step of one thread. *)

LEMMA SeqChange ==
  ASSUME NEW T, NEW s \in Seq(T), NEW i \in DOMAIN s, NEW u \in T,
         NEW r, r = [s EXCEPT ![i] = u]
  PROVE  /\ r \in Seq(T) /\ DOMAIN r = DOMAIN s /\ Len(r) = Len(s)
         /\ r[i] = u /\ \A j \in DOMAIN s \ {i} : r[j] = s[j]
<1>1. DOMAIN r = DOMAIN s /\ Len(r) = Len(s)
  OBVIOUS
<1>2. r[i] = u
  OBVIOUS
<1>3. \A j \in DOMAIN s \ {i} : r[j] = s[j]
  OBVIOUS
<1>4. r \in Seq(T)
  OBVIOUS
<1> QED
  BY <1>1, <1>2, <1>3, <1>4

(* A slot and what its thread left. *)
LEMMA AmountNumbers ==
  ASSUME NEW f \in Amounts
  PROVE  /\ \A t \in ThreadSet : t[f] \in Nat
         /\ \A r \in SlotSet : r[f] \in Nat
<1>1. CASE f = "count"
  BY <1>1 DEF ThreadSet, SlotSet
<1>2. CASE f = "errors"
  BY <1>2 DEF ThreadSet, SlotSet
<1> QED BY <1>1, <1>2 DEF Amounts

LEMMA SlotAmount ==
  ASSUME NEW i \in DOMAIN threads, ThreadInv(i), NEW f \in Amounts
  PROVE  Slot(threads[i])[f] = Counted(i, f)
<1>1. CASE f = "count"
  BY <1>1 DEF ThreadInv, Counted
<1>2. CASE f = "errors"
  BY <1>2 DEF ThreadInv, Counted
<1> QED BY <1>1, <1>2 DEF Amounts

(* What the step of a thread may change: itself, and its slot. *)
ThreadStep(i) ==
  /\ UNCHANGED runVars /\ handler # "returned"
  /\ \E t \in ThreadSet :
       /\ threads' = [threads EXCEPT ![i] = t]
       /\ t.phase = threads[i].phase /\ t.slot = threads[i].slot /\ t.kind = threads[i].kind
  /\ \/ results' = results
     \/ \E r \in SlotSet :
          results' = [results EXCEPT ![threads[i].phase][threads[i].slot] = r]
  /\ ThreadInv(i)'

(* It leaves the other slots as they are. *)
LEMMA OneSlot ==
  ASSUME StagesInv, NEW i \in DOMAIN threads, ThreadStep(i)
  PROVE  /\ results' \in Seq(Seq(SlotSet))
         /\ Len(results') = Len(results) /\ DOMAIN results' = DOMAIN results
         /\ \A p \in DOMAIN results :
              /\ DOMAIN results'[p] = DOMAIN results[p]
              /\ p # threads[i].phase => results'[p] = results[p]
              /\ \A s \in DOMAIN results[p] :
                   p # threads[i].phase \/ s # threads[i].slot => results'[p][s] = results[p][s]
<1> DEFINE p == threads[i].phase
           s == threads[i].slot
<1>1. results \in Seq(Seq(SlotSet)) /\ p \in DOMAIN results /\ s \in DOMAIN results[p]
  BY DEF StagesInv, StageTypes, ThreadInv
<1>2. CASE results' = results
  BY <1>1, <1>2
<1>3. ASSUME NEW r \in SlotSet, results' = [results EXCEPT ![p][s] = r]
      PROVE  /\ results' \in Seq(Seq(SlotSet))
             /\ Len(results') = Len(results) /\ DOMAIN results' = DOMAIN results
             /\ DOMAIN results'[p] = DOMAIN results[p]
             /\ \A q \in DOMAIN results \ {p} : results'[q] = results[q]
             /\ \A u \in DOMAIN results[p] \ {s} : results'[p][u] = results[p][u]
  <2> DEFINE row == [results[p] EXCEPT ![s] = r]
  <2>1. results[p] \in Seq(SlotSet)
    BY <1>1, ElementOfSeq
  <2>2. /\ row \in Seq(SlotSet) /\ DOMAIN row = DOMAIN results[p]
        /\ \A u \in DOMAIN results[p] \ {s} : row[u] = results[p][u]
    <3> HIDE DEF p, s
    <3> QED BY <1>1, <2>1, SeqChange
  <2>3. results' = [results EXCEPT ![p] = row]
    BY <1>1, <1>3
  <2> HIDE DEF row, p, s
  <2>4. /\ results' \in Seq(Seq(SlotSet))
        /\ Len(results') = Len(results) /\ DOMAIN results' = DOMAIN results
        /\ results'[p] = row
        /\ \A q \in DOMAIN results \ {p} : results'[q] = results[q]
    BY <1>1, <2>2, <2>3, SeqChange
  <2> QED BY <2>2, <2>4
<1> QED BY <1>1, <1>2, <1>3 DEF ThreadStep

(* What the step adds to its own count it adds to its slot. *)
LEMMA SameTotals ==
  ASSUME StagesInv, NEW i \in DOMAIN threads, ThreadStep(i), NEW f \in Amounts
  PROVE  (SlotTotal(f) = CountedTotal(f))'
<1> DEFINE added == Counted(i, f)' - Counted(i, f)
<1>0. PICK p, s : p = threads[i].phase /\ s = threads[i].slot
  OBVIOUS
<1>1. /\ results \in Seq(Seq(SlotSet)) /\ threads \in Seq(ThreadSet)
      /\ p \in DOMAIN results /\ s \in DOMAIN results[p]
      /\ results[p][s][f] = Counted(i, f)
  BY <1>0, SlotAmount DEF StagesInv, StageTypes, ThreadInv, Slot
<1>2. PICK t \in ThreadSet :
        threads' = [threads EXCEPT ![i] = t] /\ t.phase = p /\ t.slot = s
  BY <1>0 DEF ThreadStep
<1>3. /\ threads' \in Seq(ThreadSet) /\ DOMAIN threads' = DOMAIN threads
      /\ threads'[i] = t /\ \A j \in DOMAIN threads \ {i} : threads'[j] = threads[j]
  BY <1>1, <1>2, SeqChange
<1>4. results'[p][s][f] = Counted(i, f)'
  <2>1. i \in DOMAIN threads' /\ ThreadInv(i)'
    BY <1>3 DEF ThreadStep
  <2>2. ASSUME NEW a \in Amounts
        PROVE  Slot(threads[i])[a]' = Counted(i, a)'
    <3>1. CASE a = "count"
      BY <2>1, <3>1 DEF ThreadInv, Counted
    <3>2. CASE a = "errors"
      BY <2>1, <3>2 DEF ThreadInv, Counted
    <3> QED BY <3>1, <3>2 DEF Amounts
  <2> QED BY <1>2, <1>3, <2>2 DEF Slot
<1>5. /\ \A j \in DOMAIN threads : Counted(j, f) \in Nat /\ Counted(j, f)' \in Nat
      /\ \A j \in DOMAIN threads \ {i} : Counted(j, f)' = Counted(j, f)
  <2>1. \A j \in DOMAIN threads : threads[j] \in ThreadSet /\ threads'[j] \in ThreadSet
    BY <1>1, <1>3, ElementOfSeq
  <2>2. \A j \in DOMAIN threads : threads[j][f] \in Nat /\ threads'[j][f] \in Nat
    BY <2>1, AmountNumbers
  <2> QED BY <1>3, <2>2 DEF Counted, HasLeft
<1>6. \A q \in DOMAIN results : \A u \in DOMAIN results[q] :
        results[q][u][f] \in Nat /\ results'[q][u][f] \in Nat
  <2>1. \A q \in DOMAIN results : results[q] \in Seq(SlotSet) /\ results'[q] \in Seq(SlotSet)
    BY <1>1, <1>0, OneSlot, ElementOfSeq
  <2>2. \A q \in DOMAIN results : \A u \in DOMAIN results[q] :
          results[q][u] \in SlotSet /\ results'[q][u] \in SlotSet
    BY <2>1, <1>0, OneSlot, ElementOfSeq
  <2> QED BY <2>2, AmountNumbers
<1>7. IsFiniteSet(DOMAIN threads) /\ IsFiniteSet(DOMAIN results)
      /\ \A q \in DOMAIN results : IsFiniteSet(DOMAIN results[q])
  <2>1. \A q \in DOMAIN results : results[q] \in Seq(SlotSet)
    BY <1>1, ElementOfSeq
  <2>2. /\ Len(threads) \in Nat /\ DOMAIN threads = 1..Len(threads)
        /\ Len(results) \in Nat /\ DOMAIN results = 1..Len(results)
    BY <1>1
  <2>3. \A q \in DOMAIN results : Len(results[q]) \in Nat /\ DOMAIN results[q] = 1..Len(results[q])
    BY <2>1
  <2> QED BY <2>2, <2>3, FS_Interval
<1>8. CountedTotal(f)' = CountedTotal(f) + added
  <2> DEFINE g == [j \in DOMAIN threads |-> Counted(j, f)]
             e == [j \in DOMAIN threads' |-> Counted(j, f)']
  <2>1. /\ \A j \in DOMAIN threads : g[j] \in Int /\ e[j] \in Int
        /\ \A j \in DOMAIN threads \ {i} : e[j] = g[j]
        /\ e[i] - g[i] = added /\ DOMAIN g = DOMAIN threads /\ DOMAIN e = DOMAIN threads
    BY <1>3, <1>5
  <2>2. SumFunction(e) = SumFunction(g) + added
    <3> HIDE DEF e, g, added
    <3> QED BY <1>7, <2>1, SumFunctionChange
  <2> QED BY <2>2 DEF CountedTotal
<1>9. PhaseTotal(p, f)' = PhaseTotal(p, f) + added
  <2> DEFINE g == [u \in DOMAIN results[p] |-> results[p][u][f]]
             e == [u \in DOMAIN results'[p] |-> results'[p][u][f]]
  <2>1. /\ \A u \in DOMAIN results[p] : g[u] \in Int /\ e[u] \in Int
        /\ \A u \in DOMAIN results[p] \ {s} : e[u] = g[u]
        /\ e[s] - g[s] = added /\ DOMAIN g = DOMAIN results[p] /\ DOMAIN e = DOMAIN results[p]
    <3>1. p \in DOMAIN results /\ DOMAIN results'[p] = DOMAIN results[p]
          /\ \A u \in DOMAIN results[p] \ {s} : results'[p][u] = results[p][u]
      BY <1>1, <1>0, OneSlot
    <3>2. /\ \A u \in DOMAIN results[p] : g[u] = results[p][u][f] /\ e[u] = results'[p][u][f]
          /\ DOMAIN g = DOMAIN results[p] /\ DOMAIN e = DOMAIN results[p]
      BY <3>1
    <3>3. g[s] = Counted(i, f) /\ e[s] = Counted(i, f)'
      BY <1>1, <1>4, <3>1, <3>2
    <3> HIDE DEF e, g, added
    <3>4. \A u \in DOMAIN results[p] : g[u] \in Int /\ e[u] \in Int
      <4>1. \A u \in DOMAIN results[p] : results[p][u][f] \in Nat /\ results'[p][u][f] \in Nat
        BY <1>1, <1>6
      <4>2. \A u \in DOMAIN results[p] : g[u] \in Nat /\ e[u] \in Nat
        BY <3>2, <4>1
      <4> QED BY <4>2
    <3>5. \A u \in DOMAIN results[p] \ {s} : e[u] = g[u]
      BY <1>1, <3>1, <3>2
    <3> QED BY <3>2, <3>3, <3>4, <3>5 DEF added
  <2>2. SumFunction(e) = SumFunction(g) + added
    <3>1. IsFiniteSet(DOMAIN g) /\ DOMAIN e = DOMAIN g /\ s \in DOMAIN g
      BY <1>1, <1>7, <2>1
    <3> HIDE DEF e, g, added
    <3> QED BY <2>1, <3>1, SumFunctionChange
  <2> QED BY <2>2 DEF PhaseTotal
<1>10. /\ \A q \in DOMAIN results : PhaseTotal(q, f) \in Int /\ PhaseTotal(q, f)' \in Int
       /\ \A q \in DOMAIN results \ {p} : PhaseTotal(q, f)' = PhaseTotal(q, f)
  <2>1. ASSUME NEW q \in DOMAIN results
        PROVE  PhaseTotal(q, f) \in Int /\ PhaseTotal(q, f)' \in Int
    <3>1. PhaseTotal(q, f) \in Int
      BY <1>6, <1>7, SumInt DEF PhaseTotal, SumFunction
    <3>2. DOMAIN results'[q] = DOMAIN results[q]
      BY <1>0, OneSlot
    <3>3. PhaseTotal(q, f)' \in Int
      BY <1>6, <1>7, <3>2, SumInt DEF PhaseTotal, SumFunction
    <3> QED BY <3>1, <3>3
  <2>2. \A q \in DOMAIN results \ {p} : PhaseTotal(q, f)' = PhaseTotal(q, f)
    BY <1>0, OneSlot DEF PhaseTotal
  <2> QED BY <2>1, <2>2
<1>11. SlotTotal(f)' = SlotTotal(f) + added
  <2> DEFINE g == [q \in DOMAIN results |-> PhaseTotal(q, f)]
             e == [q \in DOMAIN results' |-> PhaseTotal(q, f)']
  <2>1. /\ \A q \in DOMAIN results : g[q] \in Int /\ e[q] \in Int
        /\ \A q \in DOMAIN results \ {p} : e[q] = g[q]
        /\ e[p] = g[p] + added /\ g[p] \in Int /\ added \in Int
        /\ DOMAIN g = DOMAIN results /\ DOMAIN e = DOMAIN results
    <3>1. added \in Int
      BY <1>3, <1>5
    <3> HIDE DEF added
    <3> QED BY <1>1, <1>9, <1>10, <3>1, <1>0, OneSlot
  <2>2. e[p] - g[p] = added
    <3> HIDE DEF e, g, added
    <3> QED BY <2>1
  <2>3. SumFunction(e) = SumFunction(g) + added
    <3>1. IsFiniteSet(DOMAIN g) /\ DOMAIN e = DOMAIN g /\ p \in DOMAIN g
      BY <1>1, <1>7, <2>1
    <3>2. /\ \A q \in DOMAIN g : g[q] \in Int /\ e[q] \in Int
          /\ \A q \in DOMAIN g \ {p} : e[q] = g[q]
      BY <2>1
    <3> HIDE DEF e, g, added
    <3> QED BY <2>2, <3>1, <3>2, SumFunctionChange
  <2> QED BY <2>3 DEF SlotTotal
<1> QED BY <1>8, <1>11 DEF StagesInv

LEMMA ThreadKeeps ==
  ASSUME StagesInv, NEW i \in DOMAIN threads, ThreadStep(i)
  PROVE  StagesInv'
<1>1. threads \in Seq(ThreadSet) /\ threads[i] \in ThreadSet
  BY ElementOfSeq DEF StagesInv, StageTypes
<1>2. PICK t \in ThreadSet :
        /\ threads' = [threads EXCEPT ![i] = t]
        /\ t.phase = threads[i].phase /\ t.slot = threads[i].slot /\ t.kind = threads[i].kind
  BY DEF ThreadStep
<1>3. /\ threads' \in Seq(ThreadSet) /\ DOMAIN threads' = DOMAIN threads
      /\ threads'[i] = t /\ \A j \in DOMAIN threads \ {i} : threads'[j] = threads[j]
  BY <1>1, <1>2, SeqChange
<1>4. StageTypes'
  BY <1>3, OneSlot DEF StagesInv, StageTypes, ThreadStep, runVars, NextPhase, PhaseStart
<1>5. OwnSlots'
  BY <1>2, <1>3 DEF StagesInv, OwnSlots
<1>6. ASSUME NEW j \in DOMAIN threads, j # i
      PROVE  ThreadInv(j)'
  <2>1. ThreadInv(j)
    BY DEF StagesInv
  <2>2. threads'[j] = threads[j]
    BY <1>3, <1>6
  <2>3. threads[j].phase # threads[i].phase \/ threads[j].slot # threads[i].slot
    BY <1>6 DEF StagesInv, OwnSlots
  <2>4. /\ threads[j].phase \in DOMAIN results'
        /\ threads[j].slot \in DOMAIN results'[threads[j].phase]
        /\ results'[threads[j].phase][threads[j].slot] = Slot(threads[j])
    BY <2>1, <2>3, OneSlot DEF ThreadInv, Slot
  <2>5. env' = env /\ now' = now
    BY DEF ThreadStep, runVars
  <2> QED
    BY <2>1, <2>2, <2>4, <2>5
    DEF ThreadInv, HasLeft, Slot, EndOf, TotalDuration, PhaseEnd, PhaseStart
<1>7. \A j \in DOMAIN threads' : ThreadInv(j)'
  BY <1>3, <1>6 DEF ThreadStep
<1>8. handler' # "returned"
  BY DEF ThreadStep, runVars
<1>9. \A f \in Amounts : (SlotTotal(f) = CountedTotal(f))'
  BY SameTotals
<1> QED
  BY <1>4, <1>5, <1>7, <1>8, <1>9 DEF StagesInv

(* A thread that goes on, its slot as it was. *)
LEMMA GoesOn ==
  ASSUME StagesInv, NEW i \in DOMAIN threads, handler \in {"stage", "idle", "join"},
         UNCHANGED <<runVars, results>>,
         NEW t \in ThreadSet, threads' = [threads EXCEPT ![i] = t],
         t.phase = threads[i].phase, t.slot = threads[i].slot, t.kind = threads[i].kind,
         threads[i].pc \notin {"done", "holding"}, t.pc \notin {"done", "holding"},
         t.pc = "dead" => now >= EndOf(t),
         t.pc = "asleep" => t.kind \in Sessions /\ t.timer >= TotalDuration
  PROVE  ThreadStep(i)
<1>1. threads \in Seq(ThreadSet) /\ ThreadInv(i)
  BY DEF StagesInv, StageTypes
<1>2. threads'[i] = t
  BY <1>1
<1>3. env' = env /\ now' = now /\ results' = results
  BY DEF runVars
<1>4. EndOf(t)' = EndOf(t) /\ TotalDuration' = TotalDuration
      /\ PhaseStart(t.phase)' = PhaseStart(t.phase)
  BY <1>3 DEF EndOf, TotalDuration, PhaseEnd, PhaseStart
<1>5. ThreadInv(i)'
  BY <1>1, <1>2, <1>3, <1>4 DEF ThreadInv, Slot, HasLeft, EndOf, TotalDuration, PhaseEnd, PhaseStart
<1> QED BY <1>5 DEF ThreadStep

(* A thread that leaves a result. *)
LEMMA Leaves ==
  ASSUME StagesInv, NEW i \in DOMAIN threads, handler \in {"stage", "idle", "join"},
         UNCHANGED runVars,
         NEW t \in ThreadSet, threads' = [threads EXCEPT ![i] = t],
         t.phase = threads[i].phase, t.slot = threads[i].slot, t.kind = threads[i].kind,
         NEW r \in SlotSet, Leave(i, r.status, r.count, r.errors),
         t.pc \in {"done", "holding"}, t.count = r.count, t.errors = r.errors,
         t.pc = "done" => r.status = "error" \/ now >= EndOf(t),
         t.pc = "holding" => t.kind \in Sessions /\ t.timer >= TotalDuration
  PROVE  ThreadStep(i)
<1>1. threads \in Seq(ThreadSet) /\ results \in Seq(Seq(SlotSet)) /\ ThreadInv(i)
  BY DEF StagesInv, StageTypes
<1>2. threads'[i] = t
  BY <1>1
<1>3. env' = env /\ now' = now
  BY DEF runVars
<1>4. r = [status |-> r.status, count |-> r.count, errors |-> r.errors]
  BY DEF SlotSet
<1>5. results' = [results EXCEPT ![threads[i].phase][threads[i].slot] = r]
  BY <1>4 DEF Leave
<1>6. /\ t.phase \in DOMAIN results' /\ t.slot \in DOMAIN results'[t.phase]
      /\ results'[t.phase][t.slot] = r
  BY <1>1, <1>5 DEF ThreadInv
<1>7. ThreadInv(i)'
  BY <1>1, <1>2, <1>3, <1>6 DEF ThreadInv, Slot, HasLeft, EndOf, TotalDuration, PhaseEnd, PhaseStart
<1> QED BY <1>5, <1>7 DEF ThreadStep

(* The change of the fields a step may change. *)
Changed(t, l, c, e, a, o, w) ==
  [t EXCEPT !.pc = l, !.count = c, !.errors = e, !.tried = a, !.open = o, !.timer = w]

Became(t, u, l, c, e, w) ==
  /\ u \in ThreadSet
  /\ u.phase = t.phase /\ u.slot = t.slot /\ u.kind = t.kind
  /\ u.pc = l /\ u.count = c /\ u.errors = e /\ u.timer = w

LEMMA FieldChange ==
  ASSUME NEW t \in ThreadSet,
         NEW l \in Labels, NEW c \in Nat, NEW e \in Nat, NEW a \in Nat, NEW o \in Nat,
         NEW w \in Nat
  PROVE  Became(t, Changed(t, l, c, e, a, o, w), l, c, e, w)
<1>1. PICK u : u = [t EXCEPT !.pc = l, !.count = c, !.errors = e, !.tried = a, !.open = o,
                              !.timer = w]
  OBVIOUS
<1>2. u = [phase |-> t.phase, kind |-> t.kind, slot |-> t.slot, pc |-> l,
           count |-> c, errors |-> e, tried |-> a, open |-> o, timer |-> w]
  BY <1>1 DEF ThreadSet
<1>3. Changed(t, l, c, e, a, o, w) = u
  BY <1>1 DEF Changed
<1> QED BY <1>2, <1>3 DEF Became, ThreadSet

(* A thread at its end. *)
LEMMA Ends ==
  ASSUME StagesInv, NEW i \in DOMAIN threads, handler \in {"stage", "idle", "join"},
         NEW r \in SlotSet, EndThread(i, r.status, r.count, r.errors),
         r.status = "error" \/ now >= EndOf(threads[i])
  PROVE  ThreadStep(i)
<1> DEFINE t == threads[i]
           u == [t EXCEPT !.pc = "done", !.count = r.count, !.errors = r.errors, !.open = 0]
<1>1. t \in ThreadSet /\ r.count \in Nat /\ r.errors \in Nat
  BY ElementOfSeq DEF StagesInv, StageTypes, SlotSet
<1>2. t.tried \in Nat /\ t.timer \in Nat
  BY <1>1 DEF ThreadSet
<1>3. u = Changed(t, "done", r.count, r.errors, t.tried, 0, t.timer)
  BY <1>1 DEF ThreadSet, Changed
<1>4. threads' = [threads EXCEPT ![i] = u] /\ Leave(i, r.status, r.count, r.errors)
      /\ UNCHANGED runVars
  BY DEF EndThread, Become
<1>5. "done" \in Labels /\ 0 \in Nat
  BY DEF Labels
<1> HIDE DEF t, u
<1>6. Became(t, u, "done", r.count, r.errors, t.timer)
  BY <1>1, <1>2, <1>3, <1>5, FieldChange
<1>7. /\ u \in ThreadSet /\ u.pc = "done" /\ u.count = r.count /\ u.errors = r.errors
      /\ u.phase = t.phase /\ u.slot = t.slot /\ u.kind = t.kind
  BY <1>6 DEF Became
<1>8. EndOf(u) = EndOf(t)
  BY <1>7 DEF EndOf
<1> QED BY <1>4, <1>7, <1>8, Leaves DEF t

(* A thread before its end. *)
LEMMA MovesOn ==
  ASSUME StagesInv, NEW i \in DOMAIN threads, handler \in {"stage", "idle", "join"},
         threads[i].pc \notin {"done", "holding"},
         NEW l \in Labels \ {"done", "holding"},
         NEW c \in Nat, NEW e \in Nat, NEW a \in Nat, NEW o \in Nat, NEW w \in Nat,
         threads' = [threads EXCEPT ![i] = Changed(threads[i], l, c, e, a, o, w)],
         UNCHANGED <<runVars, results>>,
         l = "dead" => now >= EndOf(threads[i]),
         l = "asleep" => threads[i].kind \in Sessions /\ w >= TotalDuration
  PROVE  ThreadStep(i)
<1> DEFINE t == threads[i]
           u == Changed(t, l, c, e, a, o, w)
<1>1. t \in ThreadSet
  BY ElementOfSeq DEF StagesInv, StageTypes
<1>2. threads' = [threads EXCEPT ![i] = u]
  OBVIOUS
<1> HIDE DEF u, t
<1>3. Became(t, u, l, c, e, w)
  BY <1>1, FieldChange DEF u
<1>4. EndOf(u) = EndOf(t)
  BY <1>3 DEF EndOf, Became
<1> QED BY <1>2, <1>3, <1>4, GoesOn DEF t, Became

LEMMA HolderStep ==
  ASSUME StagesInv, NEW i \in DOMAIN threads, Holder(i)
  PROVE  ThreadStep(i)
<1> DEFINE t == threads[i]
<1>1. t \in ThreadSet /\ now \in Nat /\ TotalDuration \in Nat
  BY TotalTime, ElementOfSeq DEF StagesInv, StageTypes
<1>2. /\ t.count \in Nat /\ t.tried \in Nat /\ t.open \in Nat /\ t.timer \in Nat
      /\ t.errors \in Nat /\ t.errors + 1 \in Nat
      /\ t.count + 1 \in Nat /\ t.tried + 1 \in Nat /\ 0 \in Nat
  BY <1>1 DEF ThreadSet
<1>3. /\ handler \in {"stage", "idle", "join"} /\ t.kind = "holder"
      /\ t.pc \in {"start", "connect", "hold", "nap"} /\ EndOf(t) = TotalDuration
  BY DEF Holder, BatchTest, Opened, NotOpened, HoldTest, Nap, NapRaises, Release, AtStep,
         EndOf, Burners
<1>4. CASE Release(i)
  <2> DEFINE r == [status |-> "ok", count |-> t.count, errors |-> t.errors]
  <2>1. r \in SlotSet /\ r.status = "ok" /\ r.count = t.count /\ r.errors = t.errors
    BY <1>2 DEF SlotSet
  <2>2. EndThread(i, r.status, r.count, r.errors) /\ now >= EndOf(t)
    BY <1>3, <1>4, <2>1 DEF Release
  <2> HIDE DEF r
  <2> QED BY <1>3, <2>1, <2>2, Ends
<1>5. ASSUME NEW l \in {"start", "connect", "hold", "nap", "dead"},
             NEW c \in Nat, NEW e \in Nat, NEW a \in Nat, NEW o \in Nat,
             threads' = [threads EXCEPT ![i] = Changed(t, l, c, e, a, o, t.timer)],
             UNCHANGED <<runVars, results>>,
             l = "dead" => now >= TotalDuration
      PROVE  ThreadStep(i)
  <2>1. l \in Labels \ {"done", "holding"} /\ (l = "dead" => now >= EndOf(t)) /\ l # "asleep"
    BY <1>3, <1>5 DEF Labels
  <2> QED BY <1>2, <1>3, <1>5, <2>1, MovesOn
<1>6. CASE BatchTest(i)
  <2>1. PICK l \in {"connect", "hold"} :
          threads' = [threads EXCEPT ![i] = [t EXCEPT !.pc = l]]
    BY <1>6 DEF BatchTest, MoveTo, Become
  <2>2. [t EXCEPT !.pc = l] = Changed(t, l, t.count, t.errors, t.tried, t.open, t.timer)
    BY <1>1 DEF ThreadSet, Changed
  <2> QED BY <1>2, <1>5, <1>6, <2>1, <2>2 DEF BatchTest
<1>7. CASE Opened(i)
  <2>1. threads' = [threads EXCEPT ![i] =
                      [t EXCEPT !.pc = "start", !.tried = @ + 1,
                                !.count = t.count + 1, !.open = t.count + 1]]
    BY <1>7 DEF Opened, Become
  <2>2. [t EXCEPT !.pc = "start", !.tried = @ + 1, !.count = t.count + 1, !.open = t.count + 1]
          = Changed(t, "start", t.count + 1, t.errors, t.tried + 1, t.count + 1, t.timer)
    BY <1>1 DEF ThreadSet, Changed
  <2> QED BY <1>2, <1>5, <1>7, <2>1, <2>2 DEF Opened
<1>8. CASE NotOpened(i)
  <2>1. PICK open \in {t.open, t.count + 1} :
          threads' = [threads EXCEPT ![i] =
                        [t EXCEPT !.pc = "start", !.tried = @ + 1, !.errors = @ + 1, !.open = open]]
    BY <1>8 DEF NotOpened, Become
  <2>2. [t EXCEPT !.pc = "start", !.tried = @ + 1, !.errors = @ + 1, !.open = open]
          = Changed(t, "start", t.count, t.errors + 1, t.tried + 1, open, t.timer)
    BY <1>1 DEF ThreadSet, Changed
  <2>3. open \in Nat
    BY <1>2, <2>1
  <2> QED BY <1>2, <1>5, <1>8, <2>1, <2>2, <2>3 DEF NotOpened
<1>9. CASE HoldTest(i) \/ Nap(i)
  <2>1. PICK l \in {"hold", "nap"} : threads' = [threads EXCEPT ![i] = [t EXCEPT !.pc = l]]
    BY <1>9 DEF HoldTest, Nap, MoveTo, Become
  <2>2. [t EXCEPT !.pc = l] = Changed(t, l, t.count, t.errors, t.tried, t.open, t.timer)
    BY <1>1 DEF ThreadSet, Changed
  <2> QED BY <1>2, <1>5, <1>9, <2>1, <2>2 DEF HoldTest, Nap
<1>10. CASE NapRaises(i)
  <2>1. threads' = [threads EXCEPT ![i] = [t EXCEPT !.pc = "dead", !.open = 0]]
    BY <1>10 DEF NapRaises, Become
  <2>2. [t EXCEPT !.pc = "dead", !.open = 0] = Changed(t, "dead", t.count, t.errors, t.tried, 0, t.timer)
    BY <1>1 DEF ThreadSet, Changed
  <2>3. now >= TotalDuration
    BY <1>1, <1>10 DEF NapRaises
  <2> QED BY <1>2, <1>5, <1>10, <2>1, <2>2, <2>3 DEF NapRaises
<1> QED BY <1>4, <1>6, <1>7, <1>8, <1>9, <1>10 DEF Holder

LEMMA SessionStep ==
  ASSUME StagesInv, NEW i \in DOMAIN threads, Session(i)
  PROVE  ThreadStep(i)
<1> DEFINE t == threads[i]
<1>1. t \in ThreadSet /\ now \in Nat /\ TotalDuration \in Nat /\ PhaseStart(t.phase) \in Nat
  BY TotalTime, EndTimes, ElementOfSeq DEF StagesInv, StageTypes
<1>2. /\ t.count \in Nat /\ t.errors \in Nat /\ t.tried \in Nat /\ t.timer \in Nat
      /\ 0 \in Nat /\ 1 \in Nat
  BY <1>1 DEF ThreadSet
<1>3. /\ handler \in {"stage", "idle", "join"} /\ t.kind \in Sessions
      /\ t.pc \in {"start", "holding", "asleep"} /\ EndOf(t) = TotalDuration
  BY DEF Session, BuildTable, BuildArrays, Awake, SessionFails, AtStep, EndOf, Burners, Sessions
<1>4. ThreadInv(i)
  BY DEF StagesInv
<1>5. CASE SessionFails(i)
  <2> DEFINE r == [status |-> "error", count |-> 0, errors |-> 1]
  <2>1. r \in SlotSet /\ r.status = "error" /\ r.count = 0 /\ r.errors = 1
    BY DEF SlotSet
  <2>2. EndThread(i, r.status, r.count, r.errors)
    BY <1>5, <2>1 DEF SessionFails
  <2> HIDE DEF r
  <2> QED BY <1>3, <2>1, <2>2, Ends
<1>6. CASE Awake(i)
  <2>1. PICK s \in {"holding", "complete"} : EndThread(i, s, 1, 0)
    BY <1>6 DEF Awake
  <2> DEFINE r == [status |-> s, count |-> 1, errors |-> 0]
  <2>2. r \in SlotSet /\ r.status = s /\ r.count = 1 /\ r.errors = 0
    BY DEF SlotSet
  <2>3. now >= EndOf(t)
    <3>1. now >= t.timer /\ t.pc \in {"holding", "asleep"}
      BY <1>6 DEF Awake, AtStep
    <3>2. t.timer >= TotalDuration
      BY <1>4, <3>1 DEF ThreadInv
    <3> QED BY <1>1, <1>2, <1>3, <3>1, <3>2
  <2> HIDE DEF r
  <2> QED BY <1>3, <2>1, <2>2, <2>3, Ends
<1>7. CASE BuildTable(i) \/ BuildArrays(i)
  <2>1. PICK w : w = now + HoldDuration(t.phase)
    OBVIOUS
  <2>2. w \in Nat /\ w >= TotalDuration
    <3>1. now >= PhaseStart(t.phase)
      BY <1>3, <1>4 DEF ThreadInv
    <3> QED BY <1>1, <2>1, <3>1 DEF HoldDuration
  <2>3. t.pc = "start" /\ UNCHANGED runVars
    BY <1>7 DEF BuildTable, BuildArrays, AtStep
  <2>4. CASE BuildTable(i)
    <3> DEFINE r == [status |-> "holding", count |-> 1, errors |-> t.errors]
               u == [t EXCEPT !.pc = "holding", !.count = 1, !.open = 1, !.timer = w]
    <3>1. r \in SlotSet /\ r.status = "holding" /\ r.count = 1 /\ r.errors = t.errors
      BY <1>2 DEF SlotSet
    <3>2. threads' = [threads EXCEPT ![i] = u] /\ Leave(i, r.status, r.count, r.errors)
      BY <2>1, <2>4, <3>1 DEF BuildTable, Become
    <3> HIDE DEF r, t
    <3>4. u = Changed(t, "holding", 1, t.errors, t.tried, 1, w)
      BY <1>1 DEF ThreadSet, Changed
    <3>5. "holding" \in Labels
      BY DEF Labels
    <3> HIDE DEF u
    <3>6. Became(t, u, "holding", 1, t.errors, w)
      BY <1>1, <1>2, <2>2, <3>4, <3>5, FieldChange
    <3> QED BY <1>3, <2>2, <2>3, <3>1, <3>2, <3>6, Leaves DEF Became, t
  <2>5. CASE BuildArrays(i)
    <3> DEFINE u == [t EXCEPT !.pc = "asleep", !.open = 1, !.timer = w]
    <3>1. threads' = [threads EXCEPT ![i] = u] /\ UNCHANGED results
      BY <2>1, <2>5 DEF BuildArrays, Become
    <3>2. u = Changed(t, "asleep", t.count, t.errors, t.tried, 1, w)
      BY <1>1 DEF ThreadSet, Changed
    <3>3. "asleep" \in Labels \ {"done", "holding"}
      BY DEF Labels
    <3> HIDE DEF u
    <3> QED BY <1>2, <1>3, <2>2, <2>3, <3>1, <3>2, <3>3, MovesOn
  <2> QED BY <1>7, <2>4, <2>5
<1> QED BY <1>5, <1>6, <1>7 DEF Session

LEMMA BurnerStep ==
  ASSUME StagesInv, NEW i \in DOMAIN threads, Burner(i)
  PROVE  ThreadStep(i)
<1> DEFINE t == threads[i]
<1>1. t \in ThreadSet
  BY ElementOfSeq DEF StagesInv, StageTypes
<1>2. /\ t.count \in Nat /\ t.errors \in Nat /\ t.tried \in Nat /\ t.open \in Nat
      /\ t.timer \in Nat /\ t.count + 1 \in Nat /\ 1 \in Nat
  BY <1>1 DEF ThreadSet
<1>3. /\ handler \in {"stage", "idle", "join"} /\ t.kind \in Burners
      /\ t.pc \in {"start", "loop", "operation"} /\ EndOf(t) = PhaseEnd(t.phase)
  BY DEF Burner, PhaseBegins, Operate, Operated, PhaseOver, BurnerFails, AtStep, EndOf
<1>4. CASE PhaseOver(i) \/ BurnerFails(i)
  <2>1. PICK s \in {"ok", "error"}, e \in {0, 1} :
          EndThread(i, s, t.count, e) /\ (s = "error" \/ now >= EndOf(t))
    BY <1>3, <1>4 DEF PhaseOver, BurnerFails
  <2> DEFINE r == [status |-> s, count |-> t.count, errors |-> e]
  <2>2. r \in SlotSet /\ r.status = s /\ r.count = t.count /\ r.errors = e
    BY <1>2 DEF SlotSet
  <2> HIDE DEF r
  <2> QED BY <1>3, <2>1, <2>2, Ends
<1>5. ASSUME NEW l \in {"loop", "operation"}, NEW c \in Nat, NEW o \in Nat,
             threads' = [threads EXCEPT ![i] = Changed(t, l, c, t.errors, t.tried, o, t.timer)],
             UNCHANGED <<runVars, results>>
      PROVE  ThreadStep(i)
  <2>1. l \in Labels \ {"done", "holding"} /\ l \notin {"dead", "asleep"}
    BY DEF Labels
  <2> QED BY <1>2, <1>3, <1>5, <2>1, MovesOn
<1>6. CASE PhaseBegins(i)
  <2>1. threads' = [threads EXCEPT ![i] = [t EXCEPT !.pc = "loop", !.open = 1]]
    BY <1>6 DEF PhaseBegins, Become
  <2>2. [t EXCEPT !.pc = "loop", !.open = 1] = Changed(t, "loop", t.count, t.errors, t.tried, 1, t.timer)
    BY <1>1 DEF ThreadSet, Changed
  <2> QED BY <1>2, <1>5, <1>6, <2>1, <2>2 DEF PhaseBegins
<1>7. CASE Operate(i)
  <2>1. threads' = [threads EXCEPT ![i] = [t EXCEPT !.pc = "operation"]]
    BY <1>7 DEF Operate, MoveTo, Become
  <2>2. [t EXCEPT !.pc = "operation"] = Changed(t, "operation", t.count, t.errors, t.tried, t.open, t.timer)
    BY <1>1 DEF ThreadSet, Changed
  <2> QED BY <1>2, <1>5, <1>7, <2>1, <2>2 DEF Operate
<1>8. CASE Operated(i)
  <2>1. threads' = [threads EXCEPT ![i] = [t EXCEPT !.pc = "loop", !.count = @ + 1]]
    BY <1>8 DEF Operated, Become
  <2>2. [t EXCEPT !.pc = "loop", !.count = @ + 1]
          = Changed(t, "loop", t.count + 1, t.errors, t.tried, t.open, t.timer)
    BY <1>1 DEF ThreadSet, Changed
  <2> QED BY <1>2, <1>5, <1>8, <2>1, <2>2 DEF Operated
<1> QED BY <1>4, <1>6, <1>7, <1>8 DEF Burner

-------------------------------------------------------------------------------
(* The steps of the handler. *)

LEMMA PhaseTotalNat ==
  ASSUME StagesInv, NEW p \in DOMAIN results, NEW f \in Amounts
  PROVE  PhaseTotal(p, f) \in Nat
<1>1. results[p] \in Seq(SlotSet)
  BY ElementOfSeq DEF StagesInv, StageTypes
<1>2. \A s \in DOMAIN results[p] : results[p][s][f] \in Nat
  <2>1. \A s \in DOMAIN results[p] : results[p][s] \in SlotSet
    BY <1>1, ElementOfSeq
  <2> QED BY <2>1, AmountNumbers
<1>3. Len(results[p]) \in Nat /\ DOMAIN results[p] = 1..Len(results[p])
  BY <1>1
<1>4. IsFiniteSet(DOMAIN results[p])
  BY <1>3, FS_Interval
<1> QED BY <1>2, <1>4, SumNat DEF PhaseTotal, SumFunction

(* The phase's threads have the slots of the new row, in their order. *)
LEMMA LaunchKeeps ==
  ASSUME StagesInv, handler \in {"stage", "idle"},
         NEW plan \in Seq(ThreadSet), LaunchPhase(plan),
         \A j \in DOMAIN plan :
           /\ plan[j].phase = NextPhase /\ plan[j].slot = j
           /\ plan[j].pc = "start" /\ plan[j].count = 0
           /\ plan[j].kind \in Sessions => now >= PhaseStart(NextPhase)
  PROVE  StagesInv'
<1> DEFINE row == [s \in DOMAIN plan |-> None]
<1>1. /\ threads \in Seq(ThreadSet) /\ results \in Seq(Seq(SlotSet))
      /\ Len(results) < Len(env.durations)
      /\ env \in Settings /\ env.durations \in Seq(Nat)
  BY StagedRunAssumption DEF StagesInv, StageTypes, LaunchPhase
<1>2. row \in Seq(SlotSet) /\ DOMAIN row = DOMAIN plan /\ \A s \in DOMAIN plan : row[s] = None
  <2>1. None \in SlotSet
    BY DEF None, SlotSet
  <2> QED BY <2>1
<1>3. /\ results' = Append(results, row) /\ threads' = threads \o plan
      /\ env' = env /\ now' = now
      /\ handler' = IF NextPhase = Len(env.durations) THEN "join" ELSE "stage"
  BY DEF LaunchPhase
<1> HIDE DEF row
<1>4. /\ results' \in Seq(Seq(SlotSet)) /\ Len(results') = NextPhase
      /\ NextPhase \notin DOMAIN results /\ DOMAIN results' = DOMAIN results \cup {NextPhase}
      /\ \A p \in DOMAIN results : results'[p] = results[p]
      /\ results'[NextPhase] = row
  <2>1. PICK n \in Nat : n = Len(results) /\ DOMAIN results = 1..n /\ NextPhase = n + 1
    BY <1>1, LenProperties DEF NextPhase
  <2>2. Append(results, row) \in Seq(Seq(SlotSet)) /\ Len(Append(results, row)) = n + 1
        /\ DOMAIN Append(results, row) = 1..(n + 1)
        /\ \A p \in 1..n : Append(results, row)[p] = results[p]
        /\ Append(results, row)[n + 1] = row
    BY <1>1, <1>2, <2>1
  <2>3. n + 1 \notin 1..n /\ 1..(n + 1) = 1..n \cup {n + 1}
    BY <2>1
  <2> QED BY ONLY <1>3, <2>1, <2>2, <2>3
<1>5. /\ threads' \in Seq(ThreadSet) /\ DOMAIN threads \subseteq DOMAIN threads'
      /\ \A j \in DOMAIN threads : threads'[j] = threads[j]
      /\ \A j \in DOMAIN threads' \ DOMAIN threads :
           j - Len(threads) \in DOMAIN plan /\ threads'[j] = plan[j - Len(threads)]
  <2> DEFINE all == threads \o plan
  <2>1. /\ all \in Seq(ThreadSet) /\ Len(all) = Len(threads) + Len(plan)
        /\ \A j \in 1..(Len(threads) + Len(plan)) :
             all[j] = IF j <= Len(threads) THEN threads[j] ELSE plan[j - Len(threads)]
    BY <1>1, ConcatProperties
  <2>2. /\ Len(threads) \in Nat /\ DOMAIN threads = 1..Len(threads)
        /\ Len(plan) \in Nat /\ DOMAIN plan = 1..Len(plan)
        /\ DOMAIN all = 1..Len(all)
    BY <1>1, <2>1, LenProperties
  <2>3. threads' = all
    BY <1>3
  <2> HIDE DEF all
  <2> QED BY ONLY <2>1, <2>2, <2>3
<1>6. StageTypes'
  BY <1>1, <1>3, <1>4, <1>5 DEF StagesInv, StageTypes, NextPhase
<1>7. ASSUME NEW j \in DOMAIN threads
      PROVE  ThreadInv(j)'
  <2>1. ThreadInv(j) /\ threads'[j] = threads[j]
    BY <1>5 DEF StagesInv
  <2>2. threads[j].phase \in DOMAIN results' /\ results'[threads[j].phase] = results[threads[j].phase]
    BY <1>4, <2>1 DEF ThreadInv
  <2> QED
    BY <1>3, <2>1, <2>2
    DEF ThreadInv, HasLeft, Slot, EndOf, TotalDuration, PhaseEnd, PhaseStart
<1>8. ASSUME NEW j \in DOMAIN threads' \ DOMAIN threads
      PROVE  ThreadInv(j)' /\ ~HasLeft(j)'
  <2>1. PICK k \in DOMAIN plan : threads'[j] = plan[k]
    BY <1>5
  <2>2. /\ threads'[j].phase = NextPhase /\ threads'[j].slot = k
        /\ threads'[j].pc = "start"
        /\ threads'[j].kind \in Sessions => now >= PhaseStart(NextPhase)
    BY <2>1
  <2>3. NextPhase \in DOMAIN results' /\ k \in DOMAIN results'[NextPhase]
        /\ results'[NextPhase][k].count = 0 /\ results'[NextPhase][k].errors = 0
    BY <1>2, <1>4 DEF None
  <2>5. threads'[j].kind \in Sessions => now' >= SumFunctionOnSet(env'.durations, 1..(NextPhase - 1))
    BY <1>3, <2>2 DEF PhaseStart
  <2> QED BY <2>2, <2>3, <2>5 DEF ThreadInv, Slot, HasLeft, PhaseStart
<1>9. OwnSlots'
  <2>1. ASSUME NEW j \in DOMAIN threads', NEW k \in DOMAIN threads',
               threads'[j].phase = threads'[k].phase, threads'[j].slot = threads'[k].slot
        PROVE  j = k
    <3>1. CASE j \in DOMAIN threads /\ k \in DOMAIN threads
      BY <1>5, <2>1, <3>1 DEF StagesInv, OwnSlots
    <3>2. CASE j \notin DOMAIN threads /\ k \notin DOMAIN threads
      <4>1. threads'[j].slot = j - Len(threads) /\ threads'[k].slot = k - Len(threads)
        BY <1>5, <3>2
      <4>2. j \in Int /\ k \in Int /\ Len(threads) \in Int
        BY <1>1, <1>5
      <4>3. \A a, b, c \in Int : a - c = b - c => a = b
        OBVIOUS
      <4>4. j - Len(threads) = k - Len(threads)
        BY <2>1, <4>1
      <4> QED BY <4>2, <4>3, <4>4
    <3>3. ASSUME NEW u \in DOMAIN threads, NEW v \in DOMAIN threads' \ DOMAIN threads
          PROVE  threads'[u].phase # threads'[v].phase
      <4>1. threads'[u].phase \in DOMAIN results
        BY <1>5 DEF StagesInv, ThreadInv
      <4>2. threads'[v].phase = NextPhase
        BY <1>5
      <4> QED BY <1>4, <4>1, <4>2
    <3> QED BY <2>1, <3>1, <3>2, <3>3
  <2> QED BY <2>1 DEF OwnSlots
<1>10. ASSUME NEW f \in Amounts
       PROVE  CountedTotal(f)' = CountedTotal(f)
  <2> DEFINE g == [j \in DOMAIN threads |-> Counted(j, f)]
             e == [j \in DOMAIN threads' |-> Counted(j, f)']
  <2>1. Len(threads') \in Nat /\ DOMAIN threads' = 1..Len(threads')
    BY <1>5
  <2>2. IsFiniteSet(DOMAIN e) /\ DOMAIN g \subseteq DOMAIN e
    BY <1>5, <2>1, FS_Interval
  <2>3. \A j \in DOMAIN g : g[j] \in Int /\ e[j] = g[j]
    <3>1. \A j \in DOMAIN threads : threads[j] \in ThreadSet
      BY <1>1, ElementOfSeq
    <3>2. \A j \in DOMAIN threads : threads[j][f] \in Nat
      BY <3>1, AmountNumbers
    <3>3. \A j \in DOMAIN threads : Counted(j, f) \in Int /\ Counted(j, f)' = Counted(j, f)
      BY <1>5, <3>2 DEF Counted, HasLeft
    <3> QED BY <1>5, <3>3
  <2>4. \A j \in DOMAIN e \ DOMAIN g : e[j] = 0
    BY <1>8 DEF Counted
  <2>5. SumFunction(e) = SumFunction(g)
    <3> HIDE DEF e, g
    <3> QED BY <2>2, <2>3, <2>4, SumFunctionExtend
  <2> QED BY <2>5 DEF CountedTotal
<1>11. ASSUME NEW f \in Amounts
       PROVE  SlotTotal(f)' = SlotTotal(f)
  <2> DEFINE g == [p \in DOMAIN results |-> PhaseTotal(p, f)]
             e == [p \in DOMAIN results' |-> PhaseTotal(p, f)']
  <2>1. Len(results') \in Nat /\ DOMAIN results' = 1..Len(results')
    BY <1>4
  <2>2. IsFiniteSet(DOMAIN e) /\ DOMAIN g \subseteq DOMAIN e
    BY <1>4, <2>1, FS_Interval
  <2>3. \A p \in DOMAIN g : g[p] \in Int /\ e[p] = g[p]
    <3>1. \A p \in DOMAIN results : PhaseTotal(p, f) \in Int /\ PhaseTotal(p, f)' = PhaseTotal(p, f)
      <4>1. \A p \in DOMAIN results : PhaseTotal(p, f) \in Nat
        BY PhaseTotalNat
      <4>2. \A p \in DOMAIN results : PhaseTotal(p, f)' = PhaseTotal(p, f)
        BY <1>4 DEF PhaseTotal
      <4> QED BY <4>1, <4>2
    <3> QED BY <1>4, <3>1
  <2>5. \A p \in DOMAIN e \ DOMAIN g : e[p] = 0
    <3>1. \A p \in DOMAIN e \ DOMAIN g : p = NextPhase
      BY <1>4
    <3>2. SumFunction([s \in DOMAIN row |-> row[s][f]]) = 0
      <4>1. \A s \in DOMAIN row : row[s][f] = 0
        BY <1>2 DEF None, Amounts
      <4>2. PICK n \in Nat : DOMAIN row = 1..n
        BY <1>2, LenProperties
      <4>3. IsFiniteSet(DOMAIN row)
        BY <4>2, FS_Interval
      <4> QED BY <4>1, <4>3, SumZero DEF SumFunction
    <3>3. \A p \in DOMAIN e \ DOMAIN g : PhaseTotal(p, f)' = 0
      BY <1>4, <3>1, <3>2 DEF PhaseTotal
    <3> QED BY <3>3
  <2>6. SumFunction(e) = SumFunction(g)
    <3> HIDE DEF e, g
    <3> QED BY <2>2, <2>3, <2>5, SumFunctionExtend
  <2> QED BY <2>6 DEF SlotTotal
<1>12. \A f \in Amounts : (SlotTotal(f) = CountedTotal(f))'
  BY <1>10, <1>11 DEF StagesInv
<1>13. handler' \notin {"idle", "returned"}
  BY <1>3
<1> QED
  BY <1>3, <1>6, <1>7, <1>8, <1>9, <1>12, <1>13 DEF StagesInv

(* Threads of phase p that have just been made, with the slots after k. *)
Fresh(plan, p, k) ==
  /\ plan \in Seq(ThreadSet)
  /\ \A j \in DOMAIN plan :
       /\ plan[j].phase = p /\ plan[j].slot = k + j
       /\ plan[j].pc = "start" /\ plan[j].count = 0

LEMMA FreshThread ==
  ASSUME NEW p \in Nat, NEW kind \in Kinds, NEW n \in Nat
  PROVE  /\ Thread(p, kind, n) \in ThreadSet
         /\ Thread(p, kind, n).phase = p /\ Thread(p, kind, n).slot = n
         /\ Thread(p, kind, n).kind = kind
         /\ Thread(p, kind, n).pc = "start" /\ Thread(p, kind, n).count = 0
<1>1. "start" \in Labels
  BY DEF Labels
<1> QED BY <1>1 DEF Thread, ThreadSet

(* n threads of one kind. *)
Batch(p, kind, k, n) == [j \in 1..n |-> Thread(p, kind, k + j)]

LEMMA FreshThreads ==
  ASSUME NEW p \in Nat, NEW kind \in Kinds, NEW k \in Nat, NEW n \in Nat
  PROVE  /\ Fresh(Batch(p, kind, k, n), p, k) /\ Len(Batch(p, kind, k, n)) = n
         /\ \A j \in DOMAIN Batch(p, kind, k, n) : Batch(p, kind, k, n)[j].kind = kind
<1>0. PICK plan : plan = [j \in 1..n |-> Thread(p, kind, k + j)]
  OBVIOUS
<1>1. \A j \in 1..n : k + j \in Nat
  OBVIOUS
<1>2. \A j \in 1..n : plan[j] \in ThreadSet
  BY <1>0, <1>1, FreshThread
<1>3. plan \in Seq(ThreadSet) /\ Len(plan) = n /\ DOMAIN plan = 1..n
  BY <1>0, <1>2
<1>4. \A j \in DOMAIN plan :
        /\ plan[j].phase = p /\ plan[j].slot = k + j /\ plan[j].kind = kind
        /\ plan[j].pc = "start" /\ plan[j].count = 0
  BY <1>0, <1>1, <1>3, FreshThread
<1>5. Batch(p, kind, k, n) = plan
  BY <1>0 DEF Batch
<1> QED BY <1>3, <1>4, <1>5 DEF Fresh

LEMMA FreshJoined ==
  ASSUME NEW p, NEW k \in Nat, NEW s, Fresh(s, p, k), NEW u, Fresh(u, p, k + Len(s))
  PROVE  Fresh(s \o u, p, k) /\ Len(s \o u) = Len(s) + Len(u)
<1>1. s \in Seq(ThreadSet) /\ u \in Seq(ThreadSet)
  BY DEF Fresh
<1>2. s \o u \in Seq(ThreadSet) /\ Len(s \o u) = Len(s) + Len(u) /\ Len(s) \in Nat
  BY <1>1
<1>3. ASSUME NEW j \in DOMAIN (s \o u)
      PROVE  /\ (s \o u)[j].phase = p /\ (s \o u)[j].slot = k + j
             /\ (s \o u)[j].pc = "start" /\ (s \o u)[j].count = 0
  <2>1. j \in Nat
    BY <1>2
  <2>2. CASE j \in DOMAIN s
    BY <1>1, <2>2 DEF Fresh
  <2>3. CASE j \notin DOMAIN s
    <3>1. j - Len(s) \in DOMAIN u /\ (s \o u)[j] = u[j - Len(s)]
      BY <1>1, <1>2, <2>3
    <3>2. k + Len(s) + (j - Len(s)) = k + j
      BY <1>2, <2>1
    <3> QED BY <3>1, <3>2 DEF Fresh
  <2> QED BY <2>2, <2>3
<1> QED BY <1>2, <1>3 DEF Fresh

LEMMA FreshLaunch ==
  ASSUME StagesInv, handler \in {"stage", "idle"},
         NEW plan, Fresh(plan, NextPhase, 0), LaunchPhase(plan),
         now >= PhaseStart(NextPhase) \/ \A j \in DOMAIN plan : plan[j].kind \notin Sessions
  PROVE  StagesInv'
<1>1. \A j \in DOMAIN plan : 0 + j = j
  BY DEF Fresh
<1> QED BY <1>1, LaunchKeeps DEF Fresh

LEMMA CurrentPhase ==
  ASSUME StagesInv, handler \in {"stage", "idle"}
  PROVE  NextPhase \in Nat /\ NextPhase \in DOMAIN env.durations
         /\ \A q \in Nat : q >= 1 /\ q <= NextPhase => q \in DOMAIN env.durations
<1>1. results \in Seq(Seq(SlotSet)) /\ env.durations \in Seq(Nat)
      /\ Len(results) < Len(env.durations)
  BY StagedRunAssumption DEF StagesInv, StageTypes
<1> QED BY <1>1 DEF NextPhase

LEMMA NewThreadsNat ==
  ASSUME StagesInv, handler \in {"stage", "idle"}, NEW list, PerPhase(env, list)
  PROVE  NewThreads(list, NextPhase) \in Nat
<1>1. list \in Seq(Nat) /\ NextPhase \in Nat /\ NextPhase >= 1 /\ NextPhase \in DOMAIN list
      /\ (NextPhase > 1 => NextPhase - 1 \in DOMAIN list)
  BY CurrentPhase DEF PerPhase
<1>2. list[NextPhase] \in Nat /\ (NextPhase > 1 => list[NextPhase - 1] \in Nat)
  BY <1>1
<1> QED BY <1>2 DEF NewThreads

LEMMA HoldersKeep ==
  ASSUME StagesInv, env.fn = "connections", LaunchHolders
  PROVE  StagesInv'
<1> DEFINE plan == [j \in 1..NewThreads(env.targets, NextPhase) |-> Thread(NextPhase, "holder", j)]
<1>1. PerPhase(env, env.targets)
  BY StagedConnectionsAssumption DEF StagesInv, StageTypes
<1>2. LaunchPhase(plan) /\ now >= PhaseStart(NextPhase) /\ handler = "stage"
  BY DEF LaunchHolders, LaunchPhase
<1>3. NewThreads(env.targets, NextPhase) \in Nat /\ NextPhase \in Nat
  BY <1>1, <1>2, NewThreadsNat, CurrentPhase
<1>4. plan = Batch(NextPhase, "holder", 0, NewThreads(env.targets, NextPhase))
  BY <1>3 DEF Batch
<1>5. "holder" \in Kinds
  BY DEF Kinds
<1> HIDE DEF plan
<1>6. Fresh(plan, NextPhase, 0)
  BY <1>3, <1>4, <1>5, FreshThreads
<1> QED BY <1>2, <1>6, FreshLaunch

LEMMA SessionsKeep ==
  ASSUME StagesInv, env.fn = "memory", LaunchSessions
  PROVE  StagesInv'
<1> DEFINE new == NewThreads(env.targets, NextPhase)
           plan == [j \in 1..(2 * new) |->
                      Thread(NextPhase, IF j <= new THEN "temp" ELSE "agg", j)]
<1>1. PerPhase(env, env.targets)
  BY StagedMemoryAssumption DEF StagesInv, StageTypes
<1>2. LaunchPhase(plan) /\ now >= PhaseStart(NextPhase) /\ handler = "idle"
  BY DEF LaunchSessions, StagesInv, StageTypes
<1>3. new \in Nat /\ NextPhase \in Nat
  BY <1>1, <1>2, NewThreadsNat, CurrentPhase
<1> HIDE DEF new
<1>4. "temp" \in Kinds /\ "agg" \in Kinds
  BY DEF Kinds, Sessions
<1>5. \A j \in 1..(2 * new) :
        /\ plan[j] \in ThreadSet /\ plan[j].phase = NextPhase /\ plan[j].slot = j
        /\ plan[j].pc = "start" /\ plan[j].count = 0
  BY <1>3, <1>4, FreshThread
<1>6. plan \in Seq(ThreadSet) /\ DOMAIN plan = 1..(2 * new)
  BY <1>3, <1>5
<1> HIDE DEF plan
<1>7. Fresh(plan, NextPhase, 0)
  <2>1. \A j \in 1..(2 * new) : 0 + j = j
    BY <1>3
  <2> QED BY <1>5, <1>6, <2>1 DEF Fresh
<1> QED BY <1>2, <1>7, FreshLaunch

(* The idle connections before them. *)
LEMMA IdleKeeps ==
  ASSUME StagesInv, StartIdle \/ OpenIdle
  PROVE  StagesInv'
<1>1. UNCHANGED <<env, now, threads, results>> /\ handler' = "idle"
  BY DEF StartIdle, OpenIdle
<1>2. handler \in {"stage", "idle"} /\ now >= PhaseStart(NextPhase)
  BY DEF StartIdle, OpenIdle, StagesInv, StageTypes
<1>3. StageTypes'
  BY <1>1, <1>2 DEF StagesInv, StageTypes, NextPhase, PhaseStart
<1>4. \A i \in DOMAIN threads : ThreadInv(i)'
  BY <1>1 DEF StagesInv, ThreadInv, HasLeft, Slot, EndOf, TotalDuration, PhaseEnd, PhaseStart
<1>5. OwnSlots' /\ \A f \in Amounts : SlotTotal(f)' = SlotTotal(f) /\ CountedTotal(f)' = CountedTotal(f)
  BY <1>1 DEF StagesInv, OwnSlots, SlotTotal, PhaseTotal, CountedTotal, Counted, HasLeft
<1> QED BY <1>1, <1>3, <1>4, <1>5 DEF StagesInv

LEMMA BurnersKeep ==
  ASSUME StagesInv, env.fn = "cpu", LaunchBurners
  PROVE  StagesInv'
<1> DEFINE p == NextPhase
           a == env.legacy[p]
           b == env.full[p]
           c == env.fraction[p]
           d == env.extra[p]
           legacy == [j \in 1..a |-> Thread(p, "legacy", j)]
           full == [j \in 1..b |-> Thread(p, "boost", a + j)]
           fraction == [j \in 1..c |-> Thread(p, "boost", a + b + j)]
           extra == [j \in 1..d |-> Thread(p, "boost", FirstExtra(p) + j)]
           plan == legacy \o full \o fraction \o extra
<1>1. LaunchPhase(plan) /\ handler = "stage"
  BY DEF LaunchBurners, CpuPlan
<1>2. p \in Nat /\ a \in Nat /\ b \in Nat /\ c \in Nat /\ d \in Nat
  <2>1. /\ PerPhase(env, env.legacy) /\ PerPhase(env, env.full)
        /\ PerPhase(env, env.fraction) /\ PerPhase(env, env.extra)
    BY StagedCpuAssumption DEF StagesInv, StageTypes
  <2>2. p \in Nat /\ p \in DOMAIN env.durations
    BY <1>1, CurrentPhase
  <2>3. /\ env.legacy \in Seq(Nat) /\ p \in DOMAIN env.legacy
        /\ env.full \in Seq(Nat) /\ p \in DOMAIN env.full
        /\ env.fraction \in Seq(Nat) /\ p \in DOMAIN env.fraction
        /\ env.extra \in Seq(Nat) /\ p \in DOMAIN env.extra
    BY <2>1, <2>2 DEF PerPhase
  <2> HIDE DEF p
  <2>4. \A s \in Seq(Nat) : p \in DOMAIN s => s[p] \in Nat
    OBVIOUS
  <2> QED BY <2>2, <2>3, <2>4
<1>3. FirstExtra(p) = a + b + c
  BY DEF FirstExtra
<1>4. legacy = Batch(p, "legacy", 0, a)
  BY <1>2 DEF Batch
<1>5. "legacy" \in Kinds /\ "boost" \in Kinds
  BY DEF Kinds, Burners
<1>6. 0 \in Nat /\ a + b \in Nat /\ a + b + c \in Nat
  BY <1>2
<1> HIDE DEF p, a, b, c, d
<1>7. Fresh(legacy, p, 0) /\ Len(legacy) = a
      /\ \A j \in DOMAIN legacy : legacy[j].kind = "legacy"
  <2>1. PICK k \in Nat : k = 0
    BY <1>6
  <2>2. PICK kind \in Kinds : kind = "legacy"
    BY <1>5
  <2>3. /\ Fresh(Batch(p, kind, k, a), p, k) /\ Len(Batch(p, kind, k, a)) = a
        /\ \A j \in DOMAIN Batch(p, kind, k, a) : Batch(p, kind, k, a)[j].kind = kind
    BY <1>2, FreshThreads
  <2> HIDE DEF legacy
  <2> QED BY <1>4, <2>1, <2>2, <2>3
<1>8. Fresh(full, p, a) /\ Len(full) = b
      /\ \A j \in DOMAIN full : full[j].kind = "boost"
  <2>1. full = Batch(p, "boost", a, b)
    BY DEF Batch
  <2> HIDE DEF full
  <2> QED BY <1>2, <1>5, <2>1, FreshThreads
<1>9. Fresh(fraction, p, a + b) /\ Len(fraction) = c
      /\ \A j \in DOMAIN fraction : fraction[j].kind = "boost"
  <2>1. fraction = Batch(p, "boost", a + b, c)
    BY DEF Batch
  <2>2. PICK k \in Nat : k = a + b
    BY <1>6
  <2>3. PICK kind \in Kinds : kind = "boost"
    BY <1>5
  <2>4. /\ Fresh(Batch(p, kind, k, c), p, k) /\ Len(Batch(p, kind, k, c)) = c
        /\ \A j \in DOMAIN Batch(p, kind, k, c) : Batch(p, kind, k, c)[j].kind = kind
    BY <1>2, FreshThreads
  <2> HIDE DEF fraction
  <2> QED BY <2>1, <2>2, <2>3, <2>4
<1>10. Fresh(extra, p, a + b + c) /\ Len(extra) = d
       /\ \A j \in DOMAIN extra : extra[j].kind = "boost"
  <2>1. extra = Batch(p, "boost", a + b + c, d)
    BY <1>3 DEF Batch
  <2> HIDE DEF extra
  <2> QED BY <1>2, <1>5, <1>6, <2>1, FreshThreads
<1> HIDE DEF legacy, full, fraction, extra
<1>11. Fresh(legacy \o full, p, 0) /\ Len(legacy \o full) = a + b
  BY <1>2, <1>6, <1>7, <1>8, FreshJoined
<1>12. Fresh(legacy \o full \o fraction, p, 0) /\ Len(legacy \o full \o fraction) = a + b + c
  <2> DEFINE two == legacy \o full
  <2>1. Fresh(two, p, 0) /\ Len(two) = a + b
    BY <1>11
  <2> HIDE DEF two
  <2>2. Fresh(fraction, p, 0 + Len(two))
    BY <1>6, <1>9, <2>1
  <2>3. Fresh(two \o fraction, p, 0) /\ Len(two \o fraction) = Len(two) + Len(fraction)
    BY <1>6, <2>1, <2>2, FreshJoined
  <2> QED BY <1>9, <2>1, <2>3 DEF two
<1>13. Fresh(plan, p, 0)
  <2>1. 0 + Len(legacy \o full \o fraction) = a + b + c
    BY <1>6, <1>12
  <2>2. Fresh(extra, p, 0 + Len(legacy \o full \o fraction))
    BY <1>10, <2>1
  <2> QED BY <1>6, <1>10, <1>12, <2>2, FreshJoined
<1>14. \A j \in DOMAIN plan : plan[j].kind \in Burners
  <2>1. /\ legacy \in Seq(ThreadSet) /\ full \in Seq(ThreadSet)
        /\ fraction \in Seq(ThreadSet) /\ extra \in Seq(ThreadSet)
    BY <1>7, <1>8, <1>9, <1>10 DEF Fresh
  <2>2. \A x, y \in Seq(ThreadSet) :
          (\A j \in DOMAIN x : x[j].kind \in Burners) /\ (\A j \in DOMAIN y : y[j].kind \in Burners)
          => x \o y \in Seq(ThreadSet) /\ \A j \in DOMAIN (x \o y) : (x \o y)[j].kind \in Burners
    OBVIOUS
  <2>3. \A s \in {legacy, full, fraction, extra} : \A j \in DOMAIN s : s[j].kind \in Burners
    BY <1>7, <1>8, <1>9, <1>10 DEF Burners
  <2>4. legacy \o full \in Seq(ThreadSet)
        /\ \A j \in DOMAIN (legacy \o full) : (legacy \o full)[j].kind \in Burners
    BY <2>1, <2>2, <2>3
  <2>5. legacy \o full \o fraction \in Seq(ThreadSet)
        /\ \A j \in DOMAIN (legacy \o full \o fraction) :
             (legacy \o full \o fraction)[j].kind \in Burners
    BY <2>1, <2>2, <2>3, <2>4
  <2> QED BY <2>1, <2>2, <2>3, <2>5
<1>15. \A j \in DOMAIN plan : plan[j].kind \notin Sessions
  BY <1>14 DEF Burners, Sessions
<1> HIDE DEF plan
<1> QED BY <1>1, <1>13, <1>15, FreshLaunch DEF p

LEMMA HandlerKeeps ==
  ASSUME StagesInv, Join \/ HandlerReturns \/ Tick \/ Over \/ UNCHANGED stagesVars
  PROVE  StagesInv'
<1>1. UNCHANGED <<env, threads, results>>
  BY DEF Join, HandlerReturns, Tick, Over, stagesVars, runVars
<1>2. now' \in Nat /\ now' >= now
  BY DEF StagesInv, StageTypes, Join, HandlerReturns, Tick, Over, stagesVars, runVars
<1>3. StageTypes'
  <2>1. handler' = handler \/ (handler = "join" /\ handler' = "returned")
    <3>1. CASE Join \/ Tick
      BY <3>1 DEF Join, Tick
    <3>2. CASE HandlerReturns
      BY <3>2 DEF HandlerReturns, JoinReady
    <3>3. CASE Over \/ UNCHANGED stagesVars
      BY <3>3 DEF Over, stagesVars, runVars
    <3> QED BY <3>1, <3>2, <3>3
  <2>2. handler = "idle" => now' >= PhaseStart(NextPhase)
    <3>1. ASSUME handler = "idle"
          PROVE  PhaseStart(NextPhase) \in Nat /\ now >= PhaseStart(NextPhase) /\ now \in Nat
      <4>1. NextPhase \in 1..(Len(env.durations) + 1) /\ env \in Settings
        BY <3>1, CurrentPhase, StagedRunAssumption DEF StagesInv, StageTypes
      <4> QED BY <3>1, <4>1, PhaseTimes DEF StagesInv, StageTypes
    <3> QED BY <1>2, <3>1
  <2>3. PhaseStart(NextPhase)' = PhaseStart(NextPhase)
    BY <1>1 DEF PhaseStart, NextPhase
  <2> QED BY <1>1, <1>2, <2>1, <2>2, <2>3 DEF StagesInv, StageTypes
<1>4. ASSUME NEW i \in DOMAIN threads
      PROVE  ThreadInv(i)'
  <2>1. ThreadInv(i) /\ now \in Nat /\ EndOf(threads[i]) \in Nat
        /\ PhaseStart(threads[i].phase) \in Nat
    BY EndTimes DEF StagesInv, StageTypes
  <2>2. /\ EndOf(threads[i])' = EndOf(threads[i])
        /\ PhaseStart(threads[i].phase)' = PhaseStart(threads[i].phase)
        /\ TotalDuration' = TotalDuration
    BY <1>1 DEF EndOf, TotalDuration, PhaseEnd, PhaseStart
  <2> DEFINE e == EndOf(threads[i])
             b == PhaseStart(threads[i].phase)
  <2>3. (now >= e => now' >= e) /\ (now >= b => now' >= b)
    <3>1. e \in Nat /\ b \in Nat /\ now \in Nat
      BY <2>1
    <3> HIDE DEF e, b
    <3> QED BY <1>2, <3>1
  <2> QED BY <1>1, <2>1, <2>2, <2>3 DEF ThreadInv, Slot, HasLeft
<1>5. OwnSlots' /\ \A f \in Amounts : SlotTotal(f)' = SlotTotal(f) /\ CountedTotal(f)' = CountedTotal(f)
  BY <1>1 DEF StagesInv, OwnSlots, SlotTotal, PhaseTotal, CountedTotal, Counted, HasLeft
<1>6. (handler = "returned" => \A f \in Amounts : report[f] = CountedTotal(f))'
  <2>1. CASE HandlerReturns
    <3>1. \A f \in Amounts : report'[f] = SlotTotal(f)
      BY <2>1 DEF HandlerReturns, SlotTotal
    <3> QED BY <1>5, <3>1 DEF StagesInv
  <2>2. CASE ~ HandlerReturns
    BY <1>5, <2>2 DEF StagesInv, Join, JoinReady, Tick, Waiting, Over, stagesVars, runVars
  <2> QED BY <2>1, <2>2
<1> QED BY <1>1, <1>3, <1>4, <1>5, <1>6 DEF StagesInv

LEMMA KilledKeeps ==
  ASSUME StagesInv, TimesOut
  PROVE  StagesInv'
<1>1. /\ UNCHANGED <<env, now, results>> /\ handler' = "killed"
      /\ threads' = [i \in DOMAIN threads |-> [threads[i] EXCEPT !.open = 0]]
      /\ threads \in Seq(ThreadSet)
  BY DEF TimesOut, StagesInv, StageTypes
<1>2. ASSUME NEW i \in DOMAIN threads
      PROVE  /\ threads'[i] \in ThreadSet
             /\ threads'[i].phase = threads[i].phase /\ threads'[i].kind = threads[i].kind
             /\ threads'[i].slot = threads[i].slot /\ threads'[i].pc = threads[i].pc
             /\ threads'[i].count = threads[i].count /\ threads'[i].errors = threads[i].errors
             /\ threads'[i].timer = threads[i].timer
  <2>1. PICK t : t = threads[i]
    OBVIOUS
  <2>2. t \in ThreadSet
    BY <1>1, <2>1, ElementOfSeq
  <2>3. PICK u : u = [t EXCEPT !.open = 0]
    OBVIOUS
  <2>4. threads'[i] = u
    BY <1>1, <2>1, <2>3
  <2>5. u = [phase |-> t.phase, kind |-> t.kind, slot |-> t.slot, pc |-> t.pc,
             count |-> t.count, errors |-> t.errors, tried |-> t.tried, open |-> 0,
             timer |-> t.timer]
    BY <2>2, <2>3 DEF ThreadSet
  <2>6. u \in ThreadSet
    BY <2>2, <2>5 DEF ThreadSet
  <2> QED BY <2>1, <2>4, <2>5, <2>6
<1>3. threads' \in Seq(ThreadSet) /\ DOMAIN threads' = DOMAIN threads
  <2>1. Len(threads) \in Nat /\ DOMAIN threads = 1..Len(threads) /\ DOMAIN threads' = DOMAIN threads
    BY <1>1
  <2>2. threads' = [i \in 1..Len(threads) |-> threads'[i]]
    BY <1>1, <2>1
  <2> QED BY <1>2, <2>1, <2>2
<1>4. StageTypes'
  BY <1>1, <1>3 DEF StagesInv, StageTypes
<1>5. \A i \in DOMAIN threads : \A f \in Amounts : Counted(i, f)' = Counted(i, f)
  BY <1>2 DEF Counted, HasLeft, Amounts
<1>6. ASSUME NEW i \in DOMAIN threads
      PROVE  ThreadInv(i)'
  <2>1. ThreadInv(i)
    BY DEF StagesInv
  <2> QED
    BY <1>1, <1>2, <2>1
    DEF ThreadInv, Slot, HasLeft, EndOf, TotalDuration, PhaseEnd, PhaseStart
<1>7. OwnSlots'
  BY <1>2, <1>3 DEF StagesInv, OwnSlots
<1>8. ASSUME NEW f \in Amounts
      PROVE  CountedTotal(f)' = CountedTotal(f) /\ SlotTotal(f)' = SlotTotal(f)
  <2>1. [i \in DOMAIN threads' |-> Counted(i, f)'] = [i \in DOMAIN threads |-> Counted(i, f)]
    BY <1>3, <1>5
  <2> QED BY <1>1, <2>1 DEF CountedTotal, SlotTotal, PhaseTotal
<1> QED BY <1>1, <1>3, <1>4, <1>6, <1>7, <1>8 DEF StagesInv

LEMMA NextKeeps ==
  ASSUME StagesInv, [StagesNext]_stagesVars
  PROVE  StagesInv'
<1>1. CASE \E i \in DOMAIN threads : Holder(i) \/ Session(i) \/ Burner(i)
  BY <1>1, HolderStep, SessionStep, BurnerStep, ThreadKeeps
<1> QED
  BY <1>1, HoldersKeep, IdleKeeps, SessionsKeep, BurnersKeep, HandlerKeeps, KilledKeeps DEF StagesNext

LEMMA SettingsKept ==
  ASSUME StagesInv, [StagesNext]_stagesVars
  PROVE  env' = env
<1>1. ASSUME NEW i \in DOMAIN threads, Holder(i) \/ Session(i) \/ Burner(i)
      PROVE  env' = env
  BY <1>1, HolderStep, SessionStep, BurnerStep DEF ThreadStep, runVars
<1>2. CASE LaunchHolders \/ LaunchSessions \/ LaunchBurners
  BY <1>2 DEF LaunchHolders, LaunchSessions, LaunchBurners, LaunchPhase
<1>3. CASE StartIdle \/ OpenIdle \/ Join \/ HandlerReturns \/ Tick \/ TimesOut
  BY <1>3 DEF StartIdle, OpenIdle, Join, HandlerReturns, Tick, TimesOut
<1>4. CASE Over \/ UNCHANGED stagesVars
  BY <1>4 DEF Over, stagesVars, runVars
<1> QED BY <1>1, <1>2, <1>3, <1>4 DEF StagesNext

LEMMA InitStages ==
  ASSUME StagesInit
  PROVE  StagesInv
<1>1. threads = <<>> /\ results = <<>> /\ env \in Settings /\ now = 0 /\ handler = "stage"
      /\ env.durations \in Seq(Nat) /\ env.durations # <<>>
  BY StagedRunAssumption DEF StagesInit
<1>2. StageTypes
  BY <1>1 DEF StageTypes
<1>3. DOMAIN threads = {} /\ DOMAIN results = {}
  BY <1>1
<1>4. ASSUME NEW f \in Amounts
      PROVE  CountedTotal(f) = 0 /\ SlotTotal(f) = 0
  <2> DEFINE g == [i \in DOMAIN threads |-> Counted(i, f)]
             e == [p \in DOMAIN results |-> PhaseTotal(p, f)]
  <2>1. DOMAIN g = {} /\ DOMAIN e = {}
    BY <1>3
  <2>2. SumFunction(g) = 0 /\ SumFunction(e) = 0
    <3> HIDE DEF g, e
    <3> QED BY <2>1, SumEmpty DEF SumFunction
  <2> QED BY <2>2 DEF CountedTotal, SlotTotal
<1> QED BY <1>1, <1>2, <1>3, <1>4 DEF StagesInv, OwnSlots

(* The slots and the threads agree in every state. *)
LEMMA StagesInvariance == StagesSpec => []StagesInv
<1>1. StagesInit => StagesInv
  BY InitStages
<1>2. StagesInv /\ [StagesNext]_stagesVars => StagesInv'
  BY NextKeeps
<1> QED BY <1>1, <1>2, PTL DEF StagesSpec

(* The joins.  Those made were made of threads that are over, or ran out. *)
JoinsInv ==
  /\ joining \in Nat \ {0}
  /\ handler \in {"stage", "idle"} => joining = 1
  /\ handler \in {"join", "returned"} =>
       /\ joinBy \in Int /\ joinBy >= JoinTimeout
       /\ \A i \in DOMAIN threads : i < joining => ThreadOver(threads[i]) \/ now >= JoinTimeout
  /\ handler = "returned" => joining \notin DOMAIN threads

LEMMA JoinTime ==
  ASSUME StagesInv
  PROVE  JoinTimeout \in Nat /\ now \in Nat
BY TotalTime, StagedRunAssumption DEF StagesInv, StageTypes, JoinTimeout

(* A thread that is over stays so. *)
LEMMA StaysOver ==
  ASSUME StagesInv, JoinsInv, NEW i \in DOMAIN threads, Holder(i) \/ Session(i) \/ Burner(i)
  PROVE  JoinsInv'
<1>1. UNCHANGED runVars /\ handler # "returned" /\ JoinTimeout' = JoinTimeout
  <2>1. ThreadStep(i)
    BY HolderStep, SessionStep, BurnerStep
  <2> QED BY <2>1 DEF ThreadStep, runVars, JoinTimeout, TotalDuration, PhaseEnd, PhaseStart
<1>2. ~ThreadOver(threads[i])
  BY DEF ThreadOver, AtStep, Holder, BatchTest, Opened, NotOpened, HoldTest, Nap, NapRaises, Release,
         Session, BuildTable, BuildArrays, Awake, SessionFails,
         Burner, PhaseBegins, Operate, Operated, PhaseOver, BurnerFails
<1>3. DOMAIN threads' = DOMAIN threads /\ \A j \in DOMAIN threads \ {i} : threads'[j] = threads[j]
  <2>1. ThreadStep(i) /\ threads \in Seq(ThreadSet)
    BY HolderStep, SessionStep, BurnerStep DEF StagesInv, StageTypes
  <2> QED BY <2>1, SeqChange DEF ThreadStep
<1>4. ASSUME NEW j \in DOMAIN threads, j < joining, ThreadOver(threads[j])
      PROVE  ThreadOver(threads'[j])
  BY <1>2, <1>3, <1>4
<1> QED BY <1>1, <1>2, <1>3, <1>4 DEF JoinsInv, runVars, ThreadOver

LEMMA JoinsKeep ==
  ASSUME StagesInv, JoinsInv, [StagesNext]_stagesVars
  PROVE  JoinsInv'
<1>0. JoinTimeout \in Nat /\ now \in Nat /\ JoinTimeout' = JoinTimeout
  <2>1. env' = env
    BY SettingsKept
  <2> QED BY <2>1, JoinTime DEF JoinTimeout, TotalDuration, PhaseEnd, PhaseStart
<1>1. CASE \E i \in DOMAIN threads : Holder(i) \/ Session(i) \/ Burner(i)
  BY <1>1, StaysOver
<1>2. CASE LaunchHolders \/ LaunchSessions \/ LaunchBurners
  <2>1. /\ joining' = 1 /\ handler' \in {"stage", "join"} /\ now' = now
        /\ joinBy' = now + JoinTimeout
        /\ \E plan : threads' = threads \o plan
    BY <1>2 DEF LaunchHolders, LaunchSessions, LaunchBurners, LaunchPhase, JoinsInv
  <2>2. \A i \in DOMAIN threads' : ~(i < 1)
    BY NextKeeps DEF StagesInv, StageTypes
  <2> QED BY <1>0, <2>1, <2>2 DEF JoinsInv
<1>3. CASE StartIdle \/ OpenIdle
  BY <1>0, <1>3 DEF StartIdle, OpenIdle, JoinsInv
<1>4. CASE Join
  <2>1. /\ handler = "join" /\ handler' = "join" /\ joining' = joining + 1
        /\ joinBy' = now + JoinTimeout /\ now' = now /\ threads' = threads
        /\ ThreadOver(threads[joining]) \/ now >= joinBy
    BY <1>4 DEF Join, JoinReady
  <2>2. ThreadOver(threads[joining]) \/ now >= JoinTimeout
    BY <1>0, <2>1 DEF JoinsInv
  <2>3. \A i \in DOMAIN threads : i < joining + 1 => i < joining \/ i = joining
    <3>1. \A i \in DOMAIN threads : i \in Int
      BY DEF StagesInv, StageTypes
    <3> QED BY <3>1 DEF JoinsInv
  <2> QED BY <1>0, <2>1, <2>2, <2>3 DEF JoinsInv
<1>5. CASE HandlerReturns
  BY <1>0, <1>5 DEF HandlerReturns, JoinReady, JoinsInv
<1>6. CASE Tick
  <2>1. UNCHANGED <<handler, threads, joining, joinBy>> /\ now' = now + 1
    BY <1>6 DEF Tick
  <2> QED BY <1>0, <2>1 DEF JoinsInv
<1>7. CASE TimesOut
  BY <1>7 DEF TimesOut, JoinsInv
<1>8. CASE Over \/ UNCHANGED stagesVars
  BY <1>0, <1>8 DEF Over, stagesVars, runVars, JoinsInv
<1> QED BY <1>1, <1>2, <1>3, <1>4, <1>5, <1>6, <1>7, <1>8 DEF StagesNext

(* The response has the counts and the errors of every thread that left a  *)
(* result: no two threads of a phase share a slot, whatever the numbers of *)
(* legacy, boost, fractional and extra threads, of holders or of sessions, *)
(* and whatever ends them.  What is missing is of threads that died of a   *)
(* negative sleep, or that a join has waited for in vain for the whole run *)
(* and the grace.                                                          *)
THEOREM ResponseIsComplete == StagesSpec => []ReportIsComplete
<1>1. ASSUME StagesInv, JoinsInv
      PROVE  ReportIsComplete
  <2> SUFFICES ASSUME handler = "returned"
               PROVE  /\ \A f \in Amounts : report[f] = CountedTotal(f)
                      /\ \A i \in DOMAIN threads :
                           HasLeft(i) \/ threads[i].pc = "dead" \/ now >= JoinTimeout
    BY DEF ReportIsComplete, CountedTotal
  <2>1. \A f \in Amounts : report[f] = CountedTotal(f)
    BY <1>1 DEF StagesInv
  <2>2. \A i \in DOMAIN threads : i < joining
    <3>1. threads \in Seq(ThreadSet) /\ joining \in Nat \ {0} /\ joining \notin DOMAIN threads
      BY <1>1 DEF StagesInv, StageTypes, JoinsInv
    <3>2. PICK n \in Nat : DOMAIN threads = 1..n
      BY <3>1, LenProperties
    <3> QED BY <3>1, <3>2
  <2>3. \A i \in DOMAIN threads : ThreadOver(threads[i]) \/ now >= JoinTimeout
    BY <1>1, <2>2 DEF JoinsInv
  <2> QED BY <2>1, <2>3 DEF ThreadOver, HasLeft
<1>2. StagesInit => JoinsInv
  BY DEF StagesInit, JoinsInv
<1>3. StagesInv /\ JoinsInv /\ [StagesNext]_stagesVars => JoinsInv'
  BY JoinsKeep
<1>4. StagesInv /\ JoinsInv => ReportIsComplete
  BY <1>1
<1> QED BY <1>2, <1>3, <1>4, StagesInvariance, PTL DEF StagesSpec

(* A thread that is over without an error has lasted to the end of the run *)
(* or, of the CPU stress, of its phase, whatever the durations.            *)
THEOREM LoadLasts == StagesSpec => []LoadIsKept
<1>1. StagesInv => LoadIsKept
  BY DEF StagesInv, LoadIsKept, ThreadInv, ThreadOver, Slot, EndOf
<1> QED BY <1>1, StagesInvariance, PTL

-------------------------------------------------------------------------------
(* The peak of the connections. *)

HolderInv(t, batch) ==
  /\ t.kind = "holder"
  /\ t.open <= t.tried /\ t.count <= t.tried /\ t.tried <= batch
  /\ t.pc = "connect" => t.tried < batch

(* A holder opens no more than its batch; as long as the counts do not     *)
(* fall there are as many holders as the current phase asks for.           *)
PeakInv ==
  env.fn = "connections" =>
    /\ \A i \in DOMAIN threads : HolderInv(threads[i], env.batch)
    /\ NonDecreasing(env.targets) =>
         Len(threads) = (IF results = <<>> THEN 0 ELSE env.targets[Len(results)])

LEMMA PeakStep ==
  ASSUME StagesInv, PeakInv, env.fn = "connections", NEW i \in DOMAIN threads, Holder(i)
  PROVE  HolderInv(threads'[i], env.batch)
<1>1. PICK t : t = threads[i]
  OBVIOUS
<1>2. t \in ThreadSet /\ HolderInv(t, env.batch) /\ threads \in Seq(ThreadSet)
  BY <1>1, ElementOfSeq DEF StagesInv, StageTypes, PeakInv
<1>3. t.tried \in Nat /\ t.open \in Nat /\ t.count \in Nat /\ env.batch \in Nat
  <2>1. env.batch \in Nat
    BY StagedConnectionsAssumption DEF StagesInv, StageTypes
  <2> QED BY <1>2, <2>1 DEF ThreadSet
<1>4. UNCHANGED env
  BY DEF Holder, BatchTest, Opened, NotOpened, HoldTest, Nap, NapRaises, Release, EndThread,
         runVars
<1>5. PICK u : threads' = [threads EXCEPT ![i] = u] /\ u = threads'[i]
  BY <1>2
  DEF Holder, BatchTest, Opened, NotOpened, HoldTest, Nap, NapRaises, Release, EndThread,
      MoveTo, Become
<1>6. CASE BatchTest(i)
  <2>1. u = [t EXCEPT !.pc = IF now < TotalDuration /\ t.tried < env.batch
                             THEN "connect" ELSE "hold"]
    BY <1>1, <1>2, <1>5, <1>6 DEF BatchTest, MoveTo, Become
  <2>2. u.kind = t.kind /\ u.open = t.open /\ u.count = t.count /\ u.tried = t.tried
        /\ (u.pc = "connect" => t.tried < env.batch)
    BY <1>2, <2>1 DEF ThreadSet
  <2> QED BY <1>2, <1>4, <1>5, <2>2 DEF HolderInv
<1>7. CASE Opened(i) \/ NotOpened(i)
  <2>1. t.pc = "connect"
    BY <1>1, <1>7 DEF Opened, NotOpened, AtStep
  <2>2. PICK c \in {t.count, t.count + 1}, e \in {t.errors, t.errors + 1},
             o \in {t.open, t.count + 1} :
          u = [t EXCEPT !.pc = "start", !.tried = t.tried + 1, !.count = c, !.errors = e, !.open = o]
    <3>1. CASE Opened(i)
      <4>1. u = [t EXCEPT !.pc = "start", !.tried = t.tried + 1, !.count = t.count + 1,
                          !.open = t.count + 1]
        BY <1>1, <1>2, <1>5, <3>1 DEF Opened, Become
      <4>2. u = [t EXCEPT !.pc = "start", !.tried = t.tried + 1, !.count = t.count + 1,
                          !.errors = t.errors, !.open = t.count + 1]
        BY <1>2, <4>1 DEF ThreadSet
      <4> QED BY <4>2
    <3>2. CASE NotOpened(i)
      <4>1. PICK o \in {t.open, t.count + 1} :
              u = [t EXCEPT !.pc = "start", !.tried = t.tried + 1, !.errors = t.errors + 1, !.open = o]
        BY <1>1, <1>2, <1>5, <3>2 DEF NotOpened, Become
      <4>2. u = [t EXCEPT !.pc = "start", !.tried = t.tried + 1, !.count = t.count,
                          !.errors = t.errors + 1, !.open = o]
        BY <1>2, <4>1 DEF ThreadSet
      <4> QED BY <4>2
    <3> QED BY <1>7, <3>1, <3>2
  <2>3. u.kind = t.kind /\ u.open = o /\ u.count = c /\ u.tried = t.tried + 1 /\ u.pc = "start"
    BY <1>2, <2>2 DEF ThreadSet
  <2>4. o <= t.tried + 1 /\ c <= t.tried + 1
    <3>1. PICK a \in Nat, b \in Nat, d \in Nat :
            a = t.tried /\ b = t.open /\ d = t.count /\ b <= a /\ d <= a
      BY <1>2, <1>3 DEF HolderInv
    <3>2. o \in {b, d + 1} /\ c \in {d, d + 1}
      BY <2>2, <3>1
    <3>3. o <= a + 1 /\ c <= a + 1
      BY ONLY <3>1, <3>2
    <3> QED BY ONLY <3>1, <3>3
  <2> QED BY <1>2, <1>3, <1>4, <1>5, <2>1, <2>3, <2>4 DEF HolderInv
<1>8. CASE HoldTest(i) \/ Nap(i)
  <2>1. PICK l \in {"hold", "nap"} : u = [t EXCEPT !.pc = l]
    BY <1>1, <1>2, <1>5, <1>8 DEF HoldTest, Nap, MoveTo, Become
  <2>2. u.kind = t.kind /\ u.open = t.open /\ u.count = t.count /\ u.tried = t.tried /\ u.pc # "connect"
    BY <1>2, <2>1 DEF ThreadSet
  <2> QED BY <1>2, <1>4, <1>5, <2>2 DEF HolderInv
<1>9. CASE NapRaises(i) \/ Release(i)
  <2>1. \/ u = [t EXCEPT !.pc = "dead", !.open = 0]
        \/ u = [t EXCEPT !.pc = "done", !.count = t.count, !.errors = t.errors, !.open = 0]
    BY <1>1, <1>2, <1>5, <1>9 DEF NapRaises, Release, EndThread, Become
  <2>2. u.kind = t.kind /\ u.open = 0 /\ u.count = t.count /\ u.tried = t.tried /\ u.pc # "connect"
    BY <1>2, <2>1 DEF ThreadSet
  <2> QED BY <1>2, <1>3, <1>4, <1>5, <2>2 DEF HolderInv
<1> QED BY <1>6, <1>7, <1>8, <1>9 DEF Holder

LEMMA PeakLaunch ==
  ASSUME StagesInv, PeakInv, env.fn = "connections", LaunchHolders
  PROVE  PeakInv'
<1> DEFINE n == NewThreads(env.targets, NextPhase)
           plan == [j \in 1..n |-> Thread(NextPhase, "holder", j)]
<1>1. PerPhase(env, env.targets) /\ env.batch \in Nat
  BY StagedConnectionsAssumption DEF StagesInv, StageTypes
<1>2. /\ handler = "stage" /\ env' = env
      /\ threads' = threads \o plan
      /\ results' = Append(results, [s \in DOMAIN plan |-> None])
  BY DEF LaunchHolders, LaunchPhase
<1>3. n \in Nat /\ NextPhase \in DOMAIN env.targets /\ NextPhase \in Nat
      /\ (NextPhase > 1 => NextPhase - 1 \in DOMAIN env.targets)
      /\ env.targets \in Seq(Nat)
  BY <1>1, <1>2, NewThreadsNat, CurrentPhase DEF PerPhase
<1>4. threads \in Seq(ThreadSet) /\ results \in Seq(Seq(SlotSet))
  BY DEF StagesInv, StageTypes
<1>5. \A j \in 1..n : HolderInv(Thread(NextPhase, "holder", j), env.batch)
  BY <1>1, <1>2 DEF Thread, HolderInv
<1>6. plan \in Seq(ThreadSet) /\ Len(plan) = n
  <2>1. "holder" \in Kinds
    BY DEF Kinds
  <2>2. \A j \in 1..n : Thread(NextPhase, "holder", j) \in ThreadSet
    BY <1>3, <2>1, FreshThread
  <2> HIDE DEF n
  <2> QED BY <1>3, <2>2
<1>7. \A j \in DOMAIN threads' : HolderInv(threads'[j], env.batch)
  <2>1. \A j \in DOMAIN plan : HolderInv(plan[j], env.batch)
    <3> HIDE DEF n
    <3> QED BY <1>3, <1>5
  <2>2. \A j \in DOMAIN threads : HolderInv(threads[j], env.batch)
    BY DEF PeakInv
  <2> HIDE DEF plan, n
  <2>3. \A j \in DOMAIN threads' :
          \/ j \in DOMAIN threads /\ threads'[j] = threads[j]
          \/ j - Len(threads) \in DOMAIN plan /\ threads'[j] = plan[j - Len(threads)]
    BY <1>2, <1>4, <1>6
  <2> QED BY <2>1, <2>2, <2>3
<1>8. ASSUME NonDecreasing(env.targets)
      PROVE  results' # <<>> /\ Len(threads') = env.targets[Len(results')]
  <2>1. Len(results') = NextPhase /\ results' # <<>> /\ Len(threads') = Len(threads) + n
    <3> HIDE DEF plan, n
    <3> QED BY <1>2, <1>4, <1>6 DEF NextPhase
  <2>2. Len(threads) = IF NextPhase > 1 THEN env.targets[NextPhase - 1] ELSE 0
    <3>1. Len(results) \in Nat /\ (results = <<>> <=> Len(results) = 0)
      BY <1>4
    <3> QED BY <1>8, <3>1 DEF PeakInv, NextPhase
  <2>3. NextPhase > 1 => env.targets[NextPhase - 1] <= env.targets[NextPhase]
    BY <1>3, <1>8 DEF NonDecreasing
  <2>4. env.targets[NextPhase] \in Nat
        /\ (NextPhase > 1 => env.targets[NextPhase - 1] \in Nat)
    BY <1>3
  <2>5. Len(threads) + n = env.targets[NextPhase]
    BY <1>3, <2>2, <2>3, <2>4 DEF NewThreads
  <2> QED BY <2>1, <2>5
<1> QED BY <1>2, <1>7, <1>8 DEF PeakInv

LEMMA PeakKeeps ==
  ASSUME StagesInv, PeakInv, [StagesNext]_stagesVars
  PROVE  PeakInv'
<1>1. UNCHANGED env
  BY SettingsKept
<1> SUFFICES ASSUME env.fn = "connections"
             PROVE  PeakInv'
  BY <1>1 DEF PeakInv
<1>2. CASE LaunchHolders
  BY <1>2, PeakLaunch
<1>3. ASSUME NEW i \in DOMAIN threads, Holder(i) \/ Session(i) \/ Burner(i)
      PROVE  PeakInv'
  <2>1. Holder(i)
    <3>1. threads[i].kind = "holder"
      BY DEF PeakInv, HolderInv
    <3> QED
      BY <1>3, <3>1
      DEF Session, BuildTable, BuildArrays, Awake, SessionFails, Burner, PhaseBegins, Operate, Operated,
          PhaseOver, BurnerFails, AtStep, Sessions, Burners
  <2>2. HolderInv(threads'[i], env.batch)
    BY <2>1, PeakStep
  <2>3. ThreadStep(i)
    BY <2>1, HolderStep
  <2>4. threads \in Seq(ThreadSet) /\ results \in Seq(Seq(SlotSet))
    BY DEF StagesInv, StageTypes
  <2>5. PICK t \in ThreadSet : threads' = [threads EXCEPT ![i] = t]
    BY <2>3 DEF ThreadStep
  <2>6. /\ Len(threads') = Len(threads) /\ DOMAIN threads' = DOMAIN threads
        /\ \A j \in DOMAIN threads \ {i} : threads'[j] = threads[j]
    BY <2>4, <2>5, SeqChange
  <2>7. Len(results') = Len(results) /\ results' \in Seq(Seq(SlotSet))
    BY <2>3, OneSlot
  <2>8. results' = <<>> <=> results = <<>>
    BY <2>4, <2>7
  <2>9. \A j \in DOMAIN threads' : HolderInv(threads'[j], env.batch)
    BY <2>2, <2>6 DEF PeakInv
  <2> QED BY <1>1, <2>6, <2>7, <2>8, <2>9 DEF PeakInv
<1>4. CASE TimesOut
  <2>1. /\ results' = results /\ DOMAIN threads' = DOMAIN threads
        /\ threads \in Seq(ThreadSet)
        /\ \A i \in DOMAIN threads : threads'[i] = [threads[i] EXCEPT !.open = 0]
    BY <1>4 DEF TimesOut, StagesInv, StageTypes
  <2>2. threads' \in Seq(ThreadSet)
    BY <1>4, KilledKeeps DEF StagesInv, StageTypes
  <2>3. Len(threads') = Len(threads)
    BY <2>1, <2>2
  <2>4. ASSUME NEW i \in DOMAIN threads
        PROVE  HolderInv(threads'[i], env.batch)
    <3>1. PICK t : t = threads[i]
      OBVIOUS
    <3>2. t \in ThreadSet /\ HolderInv(t, env.batch)
      BY <2>1, <3>1, ElementOfSeq DEF PeakInv
    <3>3. PICK u : u = [t EXCEPT !.open = 0]
      OBVIOUS
    <3>4. u = threads'[i]
      BY <2>1, <3>1, <3>3
    <3>5. /\ u.kind = t.kind /\ u.open = 0 /\ u.count = t.count /\ u.tried = t.tried
          /\ u.pc = t.pc /\ t.tried \in Nat
      BY <3>2, <3>3 DEF ThreadSet
    <3> QED BY <1>1, <3>2, <3>4, <3>5 DEF HolderInv
  <2> QED BY <1>1, <2>1, <2>3, <2>4 DEF PeakInv
<1>5. CASE UNCHANGED <<threads, results>>
  BY <1>1, <1>5 DEF PeakInv
<1>6. env.fn # "memory" /\ env.fn # "cpu"
  OBVIOUS
<1> QED
  BY <1>2, <1>3, <1>4, <1>5, <1>6 DEF StagesNext, Join, HandlerReturns, Tick, Over, stagesVars, runVars

(* As long as no phase asks for fewer threads than the one before, never   *)
(* more connections are open than peak_concurrent says: the threads the    *)
(* phase asks for times the batch, whatever the ramps and the failures.    *)
THEOREM PeakIsBounded == StagesSpec => []PeakAsReported
<1>1. ASSUME StagesInv, PeakInv
      PROVE  PeakAsReported
  <2> SUFFICES ASSUME env.fn = "connections", NonDecreasing(env.targets), results # <<>>
               PROVE  SumFunction([i \in DOMAIN threads |-> threads[i].open])
                        <= env.targets[Len(results)] * env.batch
    BY DEF PeakAsReported
  <2> DEFINE open == [i \in DOMAIN threads |-> threads[i].open]
  <2>1. threads \in Seq(ThreadSet) /\ env.batch \in Nat
    BY <1>1, StagedConnectionsAssumption DEF StagesInv, StageTypes
  <2>2. Len(threads) \in Nat /\ DOMAIN threads = 1..Len(threads)
        /\ Len(threads) = env.targets[Len(results)]
    BY <1>1, <2>1 DEF PeakInv
  <2>3. IsFiniteSet(DOMAIN threads) /\ Cardinality(DOMAIN threads) = Len(threads)
    <3>1. ASSUME NEW n \in Nat
          PROVE  IsFiniteSet(1..n) /\ Cardinality(1..n) = n
      <4>1. 1 \in Int /\ n \in Int
        OBVIOUS
      <4>2. IsFiniteSet(1..n) /\ Cardinality(1..n) = IF 1 > n THEN 0 ELSE n - 1 + 1
        BY <4>1, FS_Interval
      <4> QED BY <4>2
    <3> QED BY <2>2, <3>1
  <2>4. \A i \in DOMAIN threads : open[i] \in Int /\ open[i] <= env.batch
    <3>1. ASSUME NEW i \in DOMAIN threads
          PROVE  threads[i].open \in Int /\ threads[i].open <= env.batch
      <4>1. threads[i] \in ThreadSet /\ HolderInv(threads[i], env.batch)
        BY <1>1, <2>1, ElementOfSeq DEF PeakInv
      <4>2. threads[i].open \in Nat /\ threads[i].tried \in Nat
        BY <4>1 DEF ThreadSet
      <4> QED BY <2>1, <4>1, <4>2 DEF HolderInv
    <3> QED BY <3>1
  <2>5. SumFunctionOnSet(open, DOMAIN threads) <= env.batch * Cardinality(DOMAIN threads)
    <3>1. PICK S, b : S = DOMAIN threads /\ b = env.batch
      OBVIOUS
    <3>2. IsFiniteSet(S) /\ b \in Int /\ \A i \in S : open[i] \in Int /\ open[i] <= b
      BY <2>1, <2>3, <2>4, <3>1
    <3> HIDE DEF open
    <3>3. SumFunctionOnSet(open, S) <= b * Cardinality(S)
      BY <3>2, SumBound
    <3> QED BY <3>1, <3>3
  <2>6. \A a, b \in Nat : a * b = b * a
    OBVIOUS
  <2>7. env.batch * Cardinality(DOMAIN threads) = env.targets[Len(results)] * env.batch
    BY <2>1, <2>2, <2>3, <2>6
  <2> QED BY <2>5, <2>7 DEF SumFunction
<1>2. StagesInit => PeakInv
  BY DEF StagesInit, PeakInv
<1>3. StagesInv /\ PeakInv /\ [StagesNext]_stagesVars => PeakInv'
  BY PeakKeeps
<1>4. StagesInv /\ PeakInv => PeakAsReported
  BY <1>1
<1> QED BY <1>2, <1>3, <1>4, StagesInvariance, PTL DEF StagesSpec
=============================================================================
