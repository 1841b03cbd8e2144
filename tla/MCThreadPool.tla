---------------------------- MODULE MCThreadPool ----------------------------
(* An instance of ThreadPool.  Threads are not declared symmetric: the run  *)
(* checks liveness.                                                         *)
EXTENDS ThreadPool
=============================================================================
