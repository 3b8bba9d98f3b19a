----------------------------- MODULE MCSession -----------------------------
(* Two overlapping or successive sessions, of cells of one name or of two, *)
(* over homes with two files.                                              *)
EXTENDS Session, TLC

\* No step looks at two files at once; only how many are left to do matters.
AllOrNone == {{}, File}

Symmetric == Permutations(Sessions) \cup Permutations(File) \cup Permutations(Name)
=============================================================================
