-------------------------------- MODULE AuroraLab --------------------------------
(***************************************************************************)
(* The Lambdas of the Aurora module on one cluster: stress Lambdas that    *)
(* make the pgbench schema, the clean-up, fault Lambdas that crash the     *)
(* instance under them, and a secret that is rotated meanwhile.            *)
(***************************************************************************)
EXTENDS PgbenchSchema, AuroraInject

(* A Lambda process runs one function. *)
ASSUME LabAssumption == Injectors \cap SchemaClients = {}

vars == <<dbVars, schemaVars, injectVars>>

Init == DbInit /\ SchemaInit /\ InjectInit

Next ==
  \/ SchemaNext /\ UNCHANGED injectVars
  \/ InjectNext /\ UNCHANGED schemaVars
  \/ Rotate /\ UNCHANGED <<schemaVars, injectVars>>

Spec == Init /\ [][Next]_vars

===============================================================================
