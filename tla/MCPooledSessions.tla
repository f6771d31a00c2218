--------------------------- MODULE MCPooledSessions ---------------------------
(* Three tasks, so that a pool of one has two waiters and a pool of two one. *)
EXTENDS PooledSessions
===============================================================================
