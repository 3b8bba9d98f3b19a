------------------------------ MODULE Transport ------------------------------
(***************************************************************************)
(* Moving built closures between two peers, path by path (transport.py).   *)
(*                                                                         *)
(* Peer A orders a closure leaves first (_topo_order), adds every path's   *)
(* NAR to its IPFS repo, links them under a manifest and writes one CAR    *)
(* file (export_closure_to_car).  The CAR is carried by hand; the carrier  *)
(* may pick up a file A is still writing, or one a crash of A cut short.   *)
(* Importers at peer B load it and replay the manifest into one nix store  *)
(* (import_car_to_store); they interleave, crash at any step and start     *)
(* over.  The store may also receive whole closures over the trusted tools *)
(* (acquire_closure_local, acquire_closure_over_ssh) and lose paths to     *)
(* nix's garbage collector: nothing here makes a GC root.                  *)
(*                                                                         *)
(* A's exports are byte-deterministic, so a path's NAR has one CID: the    *)
(* path stands for its NAR and for the NAR's CID.                          *)
(***************************************************************************)
EXTENDS Naturals, Sequences, FiniteSets

CONSTANTS
  Path,        \* store paths
  Root,        \* the paths whose closures A exports
  Graphs,      \* the reference graphs A's store may have
  Importer,    \* the import_car_to_store processes of peer B
  Target,      \* Target[i]: the root whose closure importer i is after
  Sorted(_)    \* Python's sorted() on a set of store paths

\* Acyclic but for self-references, as every nix store is: a non-empty set of
\* paths has a member with no reference to the others.
Acyclic(g) ==
  \A S \in SUBSET Path : S # {} => \E p \in S : (g[p] \ {p}) \cap S = {}

ASSUME TransportAssumption ==
  /\ IsFiniteSet(Path)
  /\ Root \subseteq Path
  /\ Graphs \subseteq [Path -> SUBSET Path]
  /\ \A g \in Graphs : Acyclic(g)
  /\ Target \in [Importer -> Root]

ASSUME SortedAssumption ==
  \A S \in SUBSET Path :
    /\ Sorted(S) \in Seq(S)
    /\ \A p \in S : \E i \in 1..Len(Sorted(S)) : Sorted(S)[i] = p
    /\ \A i, j \in 1..Len(Sorted(S)) : Sorted(S)[i] = Sorted(S)[j] => i = j

VARIABLES
  references,  \* the reference graph of A's store
  exporting,   \* exporting[r]: the step A's export of r is at
  ordered,     \* ordered[r]: _topo_order's list for r
  car,         \* car[r]: the CAR file of r: its state, its manifest's paths
  blocks,      \* B's IPFS repo: the NARs it can `get'
  store,       \* B's nix store
  importer     \* importer[i]: an import_car_to_store call and its locals

aVars == <<exporting, ordered, car>>
bVars == <<blocks, store, importer>>
vars == <<references, exporting, ordered, car,
          blocks, store, importer>>

-----------------------------------------------------------------------------

\* The non-self references of p that lie in the closure being walked.
Deps(p) == references[p] \ {p}

ClosedUnder(S) == \A p \in S : references[p] \subseteq S

\* nix path-info -r / nix-store --query --requisites
Closure(r) ==
  {p \in Path : \A S \in SUBSET Path : (r \in S /\ ClosedUnder(S)) => p \in S}

Elements(s) == {s[i] : i \in 1..Len(s)}

\* Mutant: a round emits every member that is left.
AllLeft(r, done) == Closure(r) \ done

\* _topo_order's loop body: every member whose dependencies are done, or, in
\* a reference cycle, all the members that are left.
Ready(r, done) ==
  LET left == Closure(r) \ done
      ready == {p \in left : Deps(p) \subseteq done}
  IN IF ready = {} THEN left ELSE ready

-----------------------------------------------------------------------------
(* Peer A *)

StartExport(r) ==
  /\ exporting[r] = "idle"
  /\ exporting' = [exporting EXCEPT ![r] = "order"]
  /\ UNCHANGED <<references, ordered, car, bVars>>

\* while len(ordered) < len(members)
OrderRound(r) ==
  /\ exporting[r] = "order"
  /\ Elements(ordered[r]) # Closure(r)
  /\ ordered' = [ordered EXCEPT
                   ![r] = @ \o Sorted(Ready(r, Elements(@)))]
  /\ UNCHANGED <<references, exporting, car, bVars>>

\* The list is complete: its NARs are added to A's repo one by one and linked
\* under the manifest (no trace of this leaves A), and dag_export opens the
\* CAR for writing, which empties the one an earlier export left.
OpenCar(r) ==
  /\ exporting[r] = "order"
  /\ Elements(ordered[r]) = Closure(r)
  /\ exporting' = [exporting EXCEPT ![r] = "write"]
  /\ car' = [car EXCEPT ![r] = [state |-> "cut", paths |-> ordered[r]]]
  /\ UNCHANGED <<references, ordered, bVars>>

CarWritten(r) ==
  /\ exporting[r] = "write"
  /\ exporting' = [exporting EXCEPT ![r] = "idle"]
  /\ ordered' = [ordered EXCEPT ![r] = <<>>]
  /\ car' = [car EXCEPT ![r].state = "whole"]
  /\ UNCHANGED <<references, bVars>>

\* The exporting process dies; the file it left on disk stays.
CrashExport(r) ==
  /\ exporting[r] # "idle"
  /\ exporting' = [exporting EXCEPT ![r] = "idle"]
  /\ ordered' = [ordered EXCEPT ![r] = <<>>]
  /\ UNCHANGED <<references, car, bVars>>

-----------------------------------------------------------------------------
(* Peer B *)

\* An importer between calls, or one whose call just ended as `how' says.
Ended(how, collected) ==
  [step |-> how, paths |-> <<>>, next |-> 1, collected |-> collected]

\* import_car_to_store is called, again if it failed or died before.
StartImport(i) ==
  /\ importer[i].step \notin {"load", "replay"}
  /\ car[Target[i]].state # "none"
  /\ importer' = [importer EXCEPT ![i] = Ended("load", FALSE)]
  /\ UNCHANGED <<references, aVars, blocks, store>>

\* Mutant: the manifest is read, its NARs are not loaded.
LoadManifestOnly(i) ==
  /\ importer[i].step = "load"
  /\ car[Target[i]].state = "whole"
  /\ importer' = [importer EXCEPT ![i].step = "replay",
                                 ![i].paths = car[Target[i]].paths]
  /\ UNCHANGED <<references, aVars, blocks, store>>

\* ipfs dag import of a whole CAR, then dag get of its manifest
LoadCar(i) ==
  LET file == car[Target[i]] IN
  /\ importer[i].step = "load"
  /\ file.state = "whole"
  /\ blocks' = blocks \cup Elements(file.paths)
  /\ importer' = [importer EXCEPT ![i].step = "replay",
                                 ![i].paths = file.paths]
  /\ UNCHANGED <<references, aVars, store>>

\* ipfs dag import of a CAR that breaks off: the blocks before the cut may
\* have been kept, and the command fails.
LoadCutCar(i) ==
  LET file == car[Target[i]] IN
  /\ importer[i].step = "load"
  /\ file.state = "cut"
  /\ \E n \in 0..Len(file.paths) :
       blocks' = blocks \cup {file.paths[j] : j \in 1..n}
  /\ importer' = [importer EXCEPT ![i] = Ended("failed", FALSE)]
  /\ UNCHANGED <<references, aVars, store>>

\* The manifest entry an importer is at.
Entry(i) == importer[i].paths[importer[i].next]

\* `ipfs get' finds the NAR, and `nix-store --import' registers its path: nix
\* does only if the path's references are valid, itself aside.
Importable(p) == p \in blocks /\ Deps(p) \subseteq store

ImportPath(i) ==
  /\ importer[i].step = "replay"
  /\ importer[i].next <= Len(importer[i].paths)
  /\ Importable(Entry(i))
  /\ store' = store \cup {Entry(i)}
  /\ importer' = [importer EXCEPT ![i].next = @ + 1]
  /\ UNCHANGED <<references, aVars, blocks>>

RefusePath(i) ==
  /\ importer[i].step = "replay"
  /\ importer[i].next <= Len(importer[i].paths)
  /\ ~ Importable(Entry(i))
  /\ importer' = [importer EXCEPT ![i] = Ended("refused", @.collected)]
  /\ UNCHANGED <<references, aVars, blocks, store>>

\* Mutant: the loop ends before the last entry.
FinishEarly(i) ==
  /\ importer[i].step = "replay"
  /\ importer[i].next >= Len(importer[i].paths)
  /\ importer' = [importer EXCEPT ![i] = Ended("done", @.collected)]
  /\ UNCHANGED <<references, aVars, blocks, store>>

FinishImport(i) ==
  /\ importer[i].step = "replay"
  /\ importer[i].next > Len(importer[i].paths)
  /\ importer' = [importer EXCEPT ![i] = Ended("done", @.collected)]
  /\ UNCHANGED <<references, aVars, blocks, store>>

CrashImport(i) ==
  /\ importer[i].step \in {"load", "replay"}
  /\ importer' = [importer EXCEPT ![i] = Ended("idle", FALSE)]
  /\ UNCHANGED <<references, aVars, blocks, store>>

\* A path of a closure that arrives over the trusted tools, whose stream nix
\* orders itself; or a build of B's own.
AcquirePath(p) ==
  /\ p \notin store
  /\ Deps(p) \subseteq store
  /\ store' = store \cup {p}
  /\ UNCHANGED <<references, aVars, blocks, importer>>

\* nix-collect-garbage deletes a path nothing in the store refers to, under
\* the hands of the importers at work or behind the back of those done.
Collect(p) ==
  /\ p \in store
  /\ \A q \in store \ {p} : p \notin references[q]
  /\ store' = store \ {p}
  /\ importer' = [i \in Importer |->
       [importer[i] EXCEPT !.collected =
          @ \/ importer[i].step \in {"load", "replay", "done"}]]
  /\ UNCHANGED <<references, aVars, blocks>>

-----------------------------------------------------------------------------

Init ==
  /\ references \in Graphs
  /\ exporting = [r \in Root |-> "idle"]
  /\ ordered = [r \in Root |-> <<>>]
  /\ car = [r \in Root |-> [state |-> "none", paths |-> <<>>]]
  /\ blocks = {}
  /\ store = {}
  /\ importer = [i \in Importer |-> Ended("idle", FALSE)]

Export(r) ==
  \/ StartExport(r) \/ OrderRound(r) \/ OpenCar(r) \/ CarWritten(r)
  \/ CrashExport(r)

Import(i) ==
  \/ StartImport(i) \/ LoadCar(i) \/ LoadCutCar(i)
  \/ ImportPath(i) \/ RefusePath(i) \/ FinishImport(i) \/ CrashImport(i)

Next ==
  \/ \E r \in Root : Export(r)
  \/ \E i \in Importer : Import(i)
  \/ \E p \in Path : AcquirePath(p) \/ Collect(p)

Spec == Init /\ [][Next]_vars

-----------------------------------------------------------------------------
(* Properties *)

Steps ==
  {"idle", "load", "replay", "done", "failed", "refused"}

\* Types of both peers' state.
TypeOK ==
  /\ references \in Graphs
  /\ exporting \in [Root -> {"idle", "order", "write"}]
  /\ ordered \in [Root -> Seq(Path)]
  /\ car \in [Root -> [state : {"none", "cut", "whole"}, paths : Seq(Path)]]
  /\ blocks \subseteq Path
  /\ store \subseteq Path
  /\ importer \in
       [Importer -> [step : Steps, paths : Seq(Path),
                     next : Nat \ {0}, collected : BOOLEAN]]

\* s lists S leaves first: no path twice, each after all it refers to.
LeavesFirst(s, S) ==
  /\ Elements(s) = S
  /\ \A i, j \in 1..Len(s) : s[i] = s[j] => i = j
  /\ \A i \in 1..Len(s) : Deps(s[i]) \subseteq {s[j] : j \in 1..(i - 1)}

\* Whatever A puts in a CAR, the manifest is the whole closure, leaves first,
\* even one that a crash cut short and a later export wrote over.
ManifestInDependencyOrder ==
  \A r \in Root :
    car[r].state # "none" => LeavesFirst(car[r].paths, Closure(r))

\* `A single-path import requires its references to be present already, hence
\* the order': however importers interleave, die and start over, no entry is
\* refused, for want of its NAR or of a reference, unless the garbage
\* collector deleted something while the importer was at work.
RefusedOnlyByCollector ==
  \A i \in Importer : importer[i].step = "refused" => importer[i].collected

\* An import that returned has installed the whole closure of its root, not
\* just the paths it added itself (unless paths were collected since it began).
DoneMeansInstalled ==
  \A i \in Importer :
    (importer[i].step = "done" /\ ~importer[i].collected) =>
      Closure(Target[i]) \subseteq store

\* An importer works on a CAR as it was when it loaded it: what it replays is
\* all in B's repo and in dependency order, even if A is rewriting the file.
ReplayIsSound ==
  \A i \in Importer :
    importer[i].step = "replay" =>
      /\ Elements(importer[i].paths) \subseteq blocks
      /\ LeavesFirst(importer[i].paths, Closure(Target[i]))

=============================================================================
