------------------------------ MODULE MCServe ------------------------------
(* Serve for two dsm processes: a session and `dsm serve' over a peer's own *)
(* repo, or two sessions over that of one home.                             *)
EXTENDS Serve

CONSTANTS dsm1, dsm2, d1, d2

MCKinds == {[c \in Caller |-> IF c = dsm1 THEN "inherit" ELSE "serve"],
            [c \in Caller |-> "session"]}
=============================================================================
