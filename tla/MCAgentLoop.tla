----------------------------- MODULE MCAgentLoop -----------------------------
(* Model checking of AgentLoop.                                              *)
EXTENDS AgentLoop
===============================================================================
