--------------------------- MODULE MCStdioTransport ---------------------------
(* Two tasks on one transport: the second one's timer can come late. *)
EXTENDS StdioTransport
===============================================================================
