--------------------------- MODULE MCPackageStore ---------------------------
(* Instances of the package store for TLC. *)
EXTENDS PackageStore

CONSTANTS p1, p2
=============================================================================
