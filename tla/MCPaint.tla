------------------------------ MODULE MCPaint ------------------------------
(* One call makes a value that is kept by its hash, another takes it.  The  *)
(* component they call is not shown: its file is one like the value's.      *)
(* Both paints go to one node; another has the value from somebody else.    *)
EXTENDS Paint, TLC

CONSTANTS value, makes, takes, near, far

MCBlobsOf == makes :> {value} @@ takes :> {}
MCArgsOf == makes :> {} @@ takes :> {value}

MCNodeOf == [p \in Painter |-> near]
MCElsewhere == {<<value, far>>}

Symmetric == Permutations(Caller) \cup Permutations(Painter)
=============================================================================
