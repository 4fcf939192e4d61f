------------------------------ MODULE MCPipeline ------------------------------
(* Model checking of Pipeline: a document of one user, or a book that one    *)
(* user uploads twice and another user once.                                *)
EXTENDS Pipeline, TLC

CONSTANTS d1, d2, d3

TwoUsers == (d1 :> "alice") @@ (d2 :> "bob") @@ (d3 :> "alice")
SameBook == [d \in {d1, d2, d3} |-> "book"]

\* One document on its own.
SoleUser == d1 :> "alice"
SoleBook == d1 :> "book"
===============================================================================
