------------------------------ MODULE MCServer ------------------------------
(* An instance of Server.  Clients are not declared symmetric: the run      *)
(* checks liveness.                                                         *)
EXTENDS Server
=============================================================================
