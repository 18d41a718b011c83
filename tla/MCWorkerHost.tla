---------------------------- MODULE MCWorkerHost ----------------------------
(* Instances of the worker host for TLC. *)
EXTENDS WorkerHost

CONSTANTS p1, p2, e1, e2, c1, c2
=============================================================================
