--------------------------- MODULE MCCodingAgentRun ---------------------------
(* The coding-agent manager of a Runner, with any requests from the Server. *)
EXTENDS CodingAgentRun
=============================================================================
