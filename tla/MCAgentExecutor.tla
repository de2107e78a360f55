--------------------------- MODULE MCAgentExecutor ---------------------------
(***************************************************************************)
(* Small instances of AgentExecutor.                                       *)
(***************************************************************************)
EXTENDS AgentExecutor, TLC
=============================================================================
