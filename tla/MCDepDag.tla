------------------------------ MODULE MCDepDag ------------------------------
(* DepDag on every acyclic closure of four store paths. *)
EXTENDS DepDag

MCPath == {"a", "b", "c", "r"}
=============================================================================
