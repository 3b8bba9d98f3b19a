------------------------------- MODULE DepDag -------------------------------
(***************************************************************************)
(* The dependency walk of the bootstrap: Nix.dep_dags (nix.py), a lazy     *)
(* generator over the `nix path-info -r' closure of a root, and the loop   *)
(* of Deps.IPFS.build_or_get (builtins/cell.py) that consumes it, turning  *)
(* every yielded subtree into a Dependency.                                *)
(*                                                                         *)
(* One loop turn of the generator together with the consumer's body is one *)
(* action: nothing else runs between a yield and the next().  What one     *)
(* internalization does to the disk is the subject of module Internalize.  *)
(*                                                                         *)
(* Python's sets iterate in an arbitrary order; the walk is modelled for   *)
(* every order in which they may feed the deque.                           *)
(***************************************************************************)
EXTENDS Naturals, Sequences, FiniteSets

CONSTANTS
  StorePath,   \* the store paths of the closure
  root    \* the built path whose closure it is

ASSUME DepDagAssumption ==
  /\ IsFiniteSet(StorePath)
  /\ root \in StorePath

VARIABLES
  edges,        \* edges[p]: the references of p, all of them in the closure
  to_process,   \* the deque
  processed,    \* the paths the while loop has built and yielded
  yielded,      \* the trees yielded so far, by path, in order
  deps_by_id,   \* the consumer: path |-> its immediate_dependencies
  running       \* has the generator not been exhausted yet?

walkVars == <<edges, to_process, processed, yielded, deps_by_id, running>>

-----------------------------------------------------------------------------

\* Acyclic but for self-references: what `nix' guarantees of any store.  A
\* non-empty set of paths always has a member with no reference to the others.
AcyclicClosure(g) ==
  \A S \in SUBSET StorePath : S # {} => \E p \in S : (g[p] \ {p}) \cap S = {}

\* What path-info -r returns: everything in the closure is reached from root.
ReachedFromRoot(g) ==
  \A S \in SUBSET StorePath :
    (root \in S /\ \A p \in S : g[p] \subseteq S) => S = StorePath

\* The closures the walk may meet.
Closures ==
  {g \in [StorePath -> SUBSET StorePath] : AcyclicClosure(g) /\ ReachedFromRoot(g)}

\* The orders in which iterating a Python set may deliver its elements.
Orders(S) ==
  {s \in [1..Cardinality(S) -> S] :
     /\ \A i, j \in 1..Cardinality(S) : s[i] = s[j] => i = j
     /\ \A x \in S : \E i \in 1..Cardinality(S) : s[i] = x}

Leaves == {p \in StorePath : edges[p] = {}}

-----------------------------------------------------------------------------
(* Mutants: faults the properties must tell from the code *)

\* any() for all()
AnyProcessed(p, done) == edges[p] = {} \/ edges[p] \cap done # {}

\* parents are queued without a look at their other dependencies
AllParents(p, done) == {q \in StorePath : p \in edges[q]}

-----------------------------------------------------------------------------

WalkInit ==
  /\ edges \in Closures
  /\ to_process \in Orders(Leaves)
  /\ processed = {}
  /\ yielded = <<>>
  /\ deps_by_id = <<>>
  /\ running = TRUE

\* all(dep in processed for dep in edges[p])
AllProcessed(p, done) == edges[p] \subseteq done

\* reverse_edges[p], restricted to the parents that became ready with p
ReadyParents(p, done) == {q \in StorePath : p \in edges[q] /\ AllProcessed(q, done)}

\* The consumer's body: the subtree's children are looked up in deps_by_id.
Register(p, children) ==
  deps_by_id' = [q \in DOMAIN deps_by_id \cup {p} |->
                   IF q = p THEN children ELSE deps_by_id[q]]

\* A turn of the while loop.  The generator's two early continues (a path
\* already processed, a path popped before its dependencies) are its first
\* two branches.
Turn ==
  /\ running
  /\ to_process # <<>>
  /\ LET current_path == Head(to_process)
         rest == Tail(to_process)
     IN IF current_path \in processed
        THEN /\ to_process' = rest
             /\ UNCHANGED <<processed, yielded, deps_by_id>>
        ELSE IF ~AllProcessed(current_path, processed)
        THEN /\ to_process' = Append(rest, current_path)
             /\ UNCHANGED <<processed, yielded, deps_by_id>>
        ELSE /\ processed' = processed \cup {current_path}
             /\ yielded' = Append(yielded, current_path)
             /\ Register(current_path, edges[current_path] \cap processed)
             /\ \E s \in Orders(ReadyParents(current_path, processed')) :
                  to_process' = rest \o s
  /\ UNCHANGED <<edges, running>>

\* The deque ran dry: the root is yielded if the loop never reached it, with
\* those of its references that were built; then the generator is exhausted.
Fallback ==
  /\ running
  /\ to_process = <<>>
  /\ IF root \notin processed
     THEN /\ yielded' = Append(yielded, root)
          /\ Register(root, edges[root] \cap processed)
     ELSE UNCHANGED <<yielded, deps_by_id>>
  /\ running' = FALSE
  /\ UNCHANGED <<edges, to_process, processed>>

WalkNext == Turn \/ Fallback

WalkSpec == WalkInit /\ [][WalkNext]_walkVars

\* The walk is one sequential Python loop: it is never suspended for good.
FairWalk == WalkSpec /\ WF_walkVars(WalkNext)

-----------------------------------------------------------------------------
(* Properties *)

Yields == {yielded[i] : i \in 1..Len(yielded)}

\* Types of the walk's state: there is a Dependency for every yielded tree.
WalkTypeOK ==
  /\ edges \in [StorePath -> SUBSET StorePath]
  /\ to_process \in Seq(StorePath)
  /\ processed \in SUBSET StorePath
  /\ yielded \in Seq(StorePath)
  /\ DOMAIN deps_by_id = Yields
  /\ \A p \in DOMAIN deps_by_id : deps_by_id[p] \subseteq StorePath
  /\ running \in BOOLEAN

\* A path waits in the deque at most once, unprocessed, and only when all its
\* dependencies are processed: so neither early continue is ever taken, and
\* the `put it back in the queue' branch cannot spin on a path whose
\* dependencies never come.
QueueReady ==
  \A i \in 1..Len(to_process) :
    /\ edges[to_process[i]] \subseteq processed
    /\ to_process[i] \notin processed
    /\ \A j \in 1..Len(to_process) : to_process[i] = to_process[j] => i = j

\* The trees yielded before the i-th.
Before(i) == {yielded[j] : j \in 1..(i - 1)}

\* Leaves first: a path other than the root is yielded after every one of its
\* references; no path is yielded twice (that would internalize it again and
\* replace its Dependency); and the children of a tree, which the consumer
\* looks up in deps_by_id, were all registered before it.
YieldsLeavesFirst ==
  \A i \in 1..Len(yielded) :
    /\ yielded[i] \notin Before(i)
    /\ yielded[i] # root => edges[yielded[i]] \subseteq Before(i)
    /\ deps_by_id[yielded[i]] \subseteq Before(i)

\* build_or_get returns the Dependency of the last tree it saw and takes it
\* for the root's (`dep_dags yields the root last'): when the generator is
\* exhausted the last tree is the root's, whatever was left out before it.
RootLast ==
  ~running =>
    /\ yielded # <<>>
    /\ yielded[Len(yielded)] = root

\* What the consumer relies on: no lookup misses, and the last tree is the root's.
YieldOrder == YieldsLeavesFirst /\ RootLast

\* With no self-reference in the closure the walk is complete: every path of
\* the closure is yielded with all its references as immediate dependencies.
CompleteWithoutSelfReference ==
  (~running /\ \A p \in StorePath : p \notin edges[p]) =>
    /\ Yields = StorePath
    /\ \A p \in StorePath : deps_by_id[p] = edges[p]

\* The paths below which (or at which) some path refers to itself.
Stuck ==
  {p \in StorePath : \E q \in StorePath :
     /\ q \in edges[q]
     /\ \A S \in SUBSET StorePath :
          (p \in S /\ \A r \in S : edges[r] \subseteq S) => q \in S}

\* Exactly what a self-reference costs: the walk leaves out every path that is
\* stuck, the root excepted, and nothing else.
OmitsExactlyStuck == ~running => Yields = (StorePath \ Stuck) \cup {root}

\* What the walk promises, with its deque left out.
Promise == INSTANCE Toposort WITH
  Path <- StorePath, emitted <- yielded, done <- ~running

\* dep_dags is a topological sort: every turn of its loop yields a path whose
\* references were all yielded (Emit: no turn is spent on a path popped too
\* early), and the fallback, reached when the deque is dry, comes only when no
\* path is left that could be yielded in order (Finish).
IsToposort == Promise!Spec

\* It also ends: a deque that kept the loop busy for ever without a yield would
\* be a walk that could still emit or finish, and does neither.
SortsToTheEnd == Promise!FairSpec

\* The docstring's promise: `all dependencies of a node are processed before
\* the node itself' -- the root included.
DependenciesProcessedFirst ==
  \A i \in 1..Len(yielded) :
    edges[yielded[i]] \ {yielded[i]} \subseteq Before(i)

=============================================================================
