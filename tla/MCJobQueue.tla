------------------------------ MODULE MCJobQueue ------------------------------
(* Model checking of JobQueue: see the .cfg files for the instances.  Jobs  *)
(* are interchangeable, but the runs check liveness, where symmetry is not  *)
(* sound.                                                                   *)
EXTENDS JobQueue
===============================================================================
