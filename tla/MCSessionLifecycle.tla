-------------------------- MODULE MCSessionLifecycle --------------------------
(* Four calls: initialisations, messages and close() in any roles, awaited or
   not, cancelled or not. *)
EXTENDS SessionLifecycle
===============================================================================
