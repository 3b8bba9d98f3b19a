------------------------------ MODULE Toposort ------------------------------
(***************************************************************************)
(* What the dependency walk promises, without its deque: the paths of a    *)
(* closure are emitted one at a time, each after everything it refers to,  *)
(* and when none is left that may be emitted the root is emitted whatever  *)
(* is missing, and the walk is done.  DepDag implements it.                *)
(***************************************************************************)
EXTENDS Naturals, Sequences

CONSTANTS
  Path,   \* the store paths of the closure
  root    \* the built path whose closure it is

VARIABLES
  edges,     \* edges[p]: the references of p
  emitted,   \* the paths emitted so far, in order
  done       \* is the walk over?

vars == <<edges, emitted, done>>

Emitted == {emitted[i] : i \in 1..Len(emitted)}

\* p has not been emitted, and all it refers to has.
Ready(p) == p \notin Emitted /\ edges[p] \subseteq Emitted

Init ==
  /\ edges \in [Path -> SUBSET Path]
  /\ emitted = <<>>
  /\ done = FALSE

Emit(p) ==
  /\ ~done
  /\ Ready(p)
  /\ emitted' = Append(emitted, p)
  /\ UNCHANGED <<edges, done>>

Finish ==
  /\ ~done
  /\ \A p \in Path : ~Ready(p)
  /\ emitted' = IF root \in Emitted THEN emitted ELSE Append(emitted, root)
  /\ done' = TRUE
  /\ UNCHANGED edges

Next == (\E p \in Path : Emit(p)) \/ Finish

Spec == Init /\ [][Next]_vars

\* It goes on until it is done.
FairSpec == Spec /\ WF_vars(Next)

=============================================================================
