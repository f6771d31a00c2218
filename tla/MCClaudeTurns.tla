---------------------------- MODULE MCClaudeTurns ----------------------------
(* Two turns: to mix up their transports, and for a stale --resume id. *)
EXTENDS ClaudeTurns
===============================================================================
