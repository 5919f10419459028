------------------------ MODULE MCConnectionExhaustion ------------------------
(* Small instances of ConnectionExhaustion for TLC. *)
EXTENDS ConnectionExhaustion

===============================================================================
