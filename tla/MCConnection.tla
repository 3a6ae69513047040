---------------------------- MODULE MCConnection ----------------------------
(* One connection on which the peer sends up to four chunks.               *)
EXTENDS Connection
=============================================================================
