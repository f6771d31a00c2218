---------------------------- MODULE MCBedrockTurns ----------------------------
(* One turn runs the whole tool loop; turns share nothing but the session. *)
EXTENDS BedrockTurns
===============================================================================
