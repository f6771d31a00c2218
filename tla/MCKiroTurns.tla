----------------------------- MODULE MCKiroTurns -----------------------------
(* Two turns: late lines of an abandoned turn need a second one. *)
EXTENDS KiroTurns
===============================================================================
