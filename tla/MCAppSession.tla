---------------------------- MODULE MCAppSession ----------------------------
(* Instances of the session transitions for TLC. *)
EXTENDS AppSession

CONSTANTS t1, t2, w, a, b, d1, d2
=============================================================================
