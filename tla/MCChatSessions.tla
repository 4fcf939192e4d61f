----------------------------- MODULE MCChatSessions -----------------------------
(* Model checking of ChatSessions: its constants are given by the .cfg.     *)
EXTENDS ChatSessions
===============================================================================
