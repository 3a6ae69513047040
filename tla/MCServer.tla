------------------------------ MODULE MCServer ------------------------------
(* Three workers, one of which may die, and five Connections: each worker  *)
(* is dealt one or two.                                                    *)
EXTENDS Server
=============================================================================
