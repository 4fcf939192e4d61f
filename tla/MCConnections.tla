----------------------------- MODULE MCConnections -----------------------------
(* Model checking of Connections: the web thread and the worker thread, two *)
(* versions of the schema of two statements and an ALTER each.              *)
EXTENDS Connections

CONSTANTS web, worker

TwoEach == [v \in 1 .. 2 |-> 2]
===============================================================================
