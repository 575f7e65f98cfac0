------------------------------ MODULE MCAccess ------------------------------
(* The instance of Access for TLC. *)
EXTENDS Access, TLC

Symmetry == Permutations(Request)
=============================================================================
