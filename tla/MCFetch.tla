------------------------------ MODULE MCFetch ------------------------------
(* A cell with one nucleus file and one membrane file; see Fetch.cfg.      *)
EXTENDS Fetch
=============================================================================
