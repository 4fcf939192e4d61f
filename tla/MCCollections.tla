----------------------------- MODULE MCCollections -----------------------------
(* Instances of Collections for TLC.                                       *)
EXTENDS Collections, TLC

\* Documents, and requests for upload, are alike.
Symmetry == Permutations(Docs) \cup Permutations(Uploads)
===============================================================================
