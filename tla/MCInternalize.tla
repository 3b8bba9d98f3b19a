---------------------------- MODULE MCInternalize ----------------------------
(* Internalize for a dependency of two files. *)
EXTENDS Internalize

CONSTANTS dsm1, dsm2, bin, lib
=============================================================================
