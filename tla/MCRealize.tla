----------------------------- MODULE MCRealize -----------------------------
(* An instance of Realize: an artifact whose build the edit of the recipe    *)
(* changes, and one whose build it does not.                                 *)
EXTENDS Realize, TLC
CONSTANTS b1, b2, component, adapter, old, new, first, second, same
MCOutput ==
  (old :> (component :> first @@ adapter :> same)) @@
  (new :> (component :> second @@ adapter :> same))
MCDeclared == <<component, adapter>>
MCManifest == {MCOutput[old], MCOutput[new]} \cup
  {[MCOutput[old] EXCEPT ![component] = Absent]}
Symmetric == Permutations({b1, b2})
=============================================================================
