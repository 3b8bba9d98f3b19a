------------------------------ MODULE Realize ------------------------------
(***************************************************************************)
(* Building a lightweight cell: DefaultCellFactory.get (cell_factory.py)   *)
(* over WasmComponent.build_or_get (artifact.py) and save_brushstrokes     *)
(* (provenance.py).  Several dsm processes realize the cell in one         *)
(* directory while its author may edit it.                                 *)
(*                                                                         *)
(* The cell has a recipe (its flake, a version of it), and its manifest    *)
(* pins each artifact to the content the author vouches for.  Recipe and   *)
(* pins are the nucleus; an address stands for the content it is of.       *)
(***************************************************************************)
EXTENDS Naturals, Sequences, FiniteSets

CONSTANTS
  Builder,   \* dsm processes
  Dep,       \* the artifact dependencies of the closure type,
  Declared,  \*   in the order it declares them
  Recipe,    \* versions of the flake
  Output,    \* Output[r][d]: what recipe r builds for d
  Manifest,  \* the manifests the author may write: what each pins, or Absent, for d
  Absent,    \* there is no such blob, or no such pin
  Torn,      \* a blob that is being copied, or whose copying was cut short
  MaxEdits,  \* bounds on the author's edits
  MaxKills   \*   and on processes killed

Content == {Output[r][d] : r \in Recipe, d \in Dep}

ASSUME RealizeAssumption ==
  /\ Absent # Torn /\ {Absent, Torn} \cap Content = {}
  /\ Declared \in Seq(Dep) /\ \A d \in Dep : \E i \in DOMAIN Declared : Declared[i] = d
  /\ Manifest \subseteq [Dep -> Content \cup {Absent}]
  /\ MaxEdits \in Nat /\ MaxKills \in Nat

VARIABLES
  recipe,    \* the nucleus: the recipe,
  pins,      \*   and pins[d], a content or Absent
  blob,      \* the files: blob[d] is a content, Torn or Absent
  nix,       \* is nix on the PATH?
  ledger,    \* builds_to claims saved, each [recipe, pins, dep, artifact]
  made,      \* <<d, content>> copied into the directory by a build
  edits, kills, failures,
  at,        \* each builder's program counter
  todo,      \* the dependencies it has yet to realize
  dep,       \* {the one it is at}
  pin,       \* what it read as its pin
  built,     \* what its build gave
  hash,      \* hash[b][d]: the address it takes d for
  witnessed, \* the claims it minted
  quiet      \* has nobody edited, and no other builder run, since it began?

cell == <<recipe, pins>>
history == <<made, edits, kills, failures, quiet>>
vars == <<recipe, pins, blob, nix, ledger, made, edits, kills, failures, at, todo,
          dep, pin, built, hash, witnessed, quiet>>

-----------------------------------------------------------------------------

Ended == {"idle", "ready", "failed", "killed"}
Busy(b) == at[b] \notin Ended
Goto(b, where) == at' = [at EXCEPT ![b] = where]

\* What a process had in memory goes with it.
Forget(b) ==
  /\ todo' = [todo EXCEPT ![b] = <<>>]
  /\ dep' = [dep EXCEPT ![b] = {}]
  /\ pin' = [pin EXCEPT ![b] = Absent]
  /\ built' = [built EXCEPT ![b] = Absent]
  /\ hash' = [hash EXCEPT ![b] = [d \in Dep |-> Absent]]
  /\ witnessed' = [witnessed EXCEPT ![b] = {}]

Fail(b) ==
  /\ Goto(b, "failed")
  /\ failures' = failures \cup {b}
  /\ Forget(b)
  /\ UNCHANGED <<cell, blob, nix, ledger, made, edits, kills, quiet>>

-----------------------------------------------------------------------------
(* DefaultCellFactory.get *)

Get(b) ==
  /\ at[b] \in Ended
  /\ Goto(b, "next")
  /\ todo' = [todo EXCEPT ![b] = Declared]
  /\ hash' = [hash EXCEPT ![b] = [d \in Dep |-> Absent]]
  /\ witnessed' = [witnessed EXCEPT ![b] = {}]
  /\ quiet' = [c \in Builder |->
       IF c = b THEN \A o \in Builder \ {b} : ~Busy(o) ELSE quiet[c] /\ ~Busy(c)]
  /\ UNCHANGED <<cell, blob, nix, ledger, made, edits, kills, failures, dep, pin, built>>

\* build_or_get: the pin is read once, and is a local from there.
ReadPin(b) ==
  /\ at[b] = "next" /\ todo[b] # <<>>
  /\ dep' = [dep EXCEPT ![b] = {Head(todo[b])}]
  /\ pin' = [pin EXCEPT ![b] = pins[Head(todo[b])]]
  /\ todo' = [todo EXCEPT ![b] = Tail(@)]
  /\ Goto(b, "look")
  /\ UNCHANGED <<cell, blob, nix, ledger, history, built, hash, witnessed>>

\* The manifest does not pin it: ArtifactPinMismatch.
Unpinned(b) == at[b] = "look" /\ pin[b] = Absent /\ Fail(b)

\* Mutant: what is there is not hashed.
LookTrusting(b) ==
  /\ at[b] = "look" /\ pin[b] # Absent
  /\ \E d \in dep[b] :
       Goto(b, IF blob[d] # Absent THEN "rehash" ELSE "which")
  /\ UNCHANGED <<cell, blob, nix, ledger, history, todo, dep, pin, built, hash, witnessed>>

\* A blob that is there and true to its pin needs nothing else.
Look(b) ==
  /\ at[b] = "look" /\ pin[b] # Absent
  /\ \E d \in dep[b] :
       Goto(b, IF blob[d] = pin[b] THEN "rehash" ELSE "which")
  /\ UNCHANGED <<cell, blob, nix, ledger, history, todo, dep, pin, built, hash, witnessed>>

\* No nix: CellUnavailable.
Unavailable(b) == at[b] = "which" /\ ~nix /\ Fail(b)

\* nix reads the flake as it is now, and may fail to build it.
Build(b) ==
  /\ at[b] = "which" /\ nix
  /\ \E d \in dep[b] : built' = [built EXCEPT ![b] = Output[recipe][d]]
  /\ Goto(b, "compare")
  /\ UNCHANGED <<cell, blob, nix, ledger, history, todo, dep, pin, hash, witnessed>>

BuildFails(b) == at[b] = "which" /\ nix /\ Fail(b)

\* The cell lies about itself: ArtifactPinMismatch.
Mismatch(b) == at[b] = "compare" /\ built[b] # pin[b] /\ Fail(b)

\* Mutant: the output is not held against the pin.
OpenUnchecked(b) ==
  /\ at[b] = "compare"
  /\ \E d \in dep[b] : blob' = [blob EXCEPT ![d] = Torn]
  /\ Goto(b, "copy")
  /\ UNCHANGED <<cell, nix, ledger, history, todo, dep, pin, built, hash, witnessed>>

\* shutil.copyfile empties the file,
OpenBlob(b) ==
  /\ at[b] = "compare" /\ built[b] = pin[b]
  /\ \E d \in dep[b] : blob' = [blob EXCEPT ![d] = Torn]
  /\ Goto(b, "copy")
  /\ UNCHANGED <<cell, nix, ledger, history, todo, dep, pin, built, hash, witnessed>>

\* and writes it.  If another writes it too it may not be whole until theirs is written,
\* and if theirs is another content, or the file was removed, it may never be.
CopyBlob(b) ==
  /\ at[b] = "copy"
  /\ \E d \in dep[b] :
       LET others == {c \in Builder \ {b} : at[c] = "copy" /\ dep[c] = {d}} IN
       /\ blob[d] # Absent
       /\ \/ blob' = [blob EXCEPT ![d] = built[b]]
          \/ /\ others # {} \/ (edits > 0 /\ ~quiet[b])
             /\ blob' = [blob EXCEPT ![d] = Torn]
          \/ edits > 0 /\ ~quiet[b] /\ UNCHANGED blob
       /\ made' = made \cup {<<d, built[b]>>}
  /\ Goto(b, "mint")
  /\ UNCHANGED <<cell, nix, ledger, edits, kills, failures, quiet, todo, dep, pin, built,
                 hash, witnessed>>

\* Its author removed it: the mode of no file can be set.
CopyLost(b) == at[b] = "copy" /\ (\A d \in dep[b] : blob[d] = Absent) /\ Fail(b)

Claim(r, p, d, a) == [recipe |-> r, pins |-> p, dep |-> d, artifact |-> a]

\* Mutant: nothing is witnessed when the blob was there, though false.
MintNothing(b) ==
  /\ at[b] = "mint"
  /\ Goto(b, "rehash")
  /\ UNCHANGED <<cell, blob, nix, ledger, history, todo, dep, pin, built, hash, witnessed>>

\* Mutant: the artifact is the file, not the pin it was held against.
MintFile(b) ==
  /\ at[b] = "mint"
  /\ \E d \in dep[b] :
       witnessed' = [witnessed EXCEPT ![b] = @ \cup {Claim(recipe, pins, d, blob[d])}]
  /\ Goto(b, "rehash")
  /\ UNCHANGED <<cell, blob, nix, ledger, history, todo, dep, pin, built, hash>>

\* builds_to(nucleus, artifact): the nucleus is hashed as it is now.
Mint(b) ==
  /\ at[b] = "mint"
  /\ \E d \in dep[b] :
       witnessed' = [witnessed EXCEPT ![b] = @ \cup {Claim(recipe, pins, d, pin[b])}]
  /\ Goto(b, "rehash")
  /\ UNCHANGED <<cell, blob, nix, ledger, history, todo, dep, pin, built, hash>>

\* get hashes dep.root once more, whatever build_or_get found.
Rehash(b) ==
  /\ at[b] = "rehash"
  /\ \E d \in dep[b] :
       /\ blob[d] # Absent
       /\ hash' = [hash EXCEPT ![b][d] = blob[d]]
  /\ dep' = [dep EXCEPT ![b] = {}]
  /\ pin' = [pin EXCEPT ![b] = Absent]
  /\ built' = [built EXCEPT ![b] = Absent]
  /\ Goto(b, "next")
  /\ UNCHANGED <<cell, blob, nix, ledger, history, todo, witnessed>>

\* The blob is gone.
RehashFails(b) == at[b] = "rehash" /\ (\A d \in dep[b] : blob[d] = Absent) /\ Fail(b)

\* save_brushstrokes, a file for each claim, when every dependency is there
Save(b) ==
  /\ at[b] = "next" /\ todo[b] = <<>>
  /\ \E c \in witnessed[b] \ ledger : ledger' = ledger \cup {c}
  /\ UNCHANGED <<cell, blob, nix, history, at, todo, dep, pin, built, hash, witnessed>>

Return(b) ==
  /\ at[b] = "next" /\ todo[b] = <<>>
  /\ witnessed[b] \subseteq ledger
  /\ Goto(b, "ready")
  /\ UNCHANGED <<cell, blob, nix, ledger, history, todo, dep, pin, built, hash, witnessed>>

-----------------------------------------------------------------------------

Kill(b) ==
  /\ Busy(b) /\ kills < MaxKills
  /\ kills' = kills + 1
  /\ Goto(b, "killed")
  /\ Forget(b)
  /\ UNCHANGED <<cell, blob, nix, ledger, made, edits, failures, quiet>>

\* The author changes the recipe, the manifest, or removes a blob.
Edit ==
  /\ edits < MaxEdits
  /\ edits' = edits + 1
  /\ \/ recipe' \in Recipe \ {recipe} /\ UNCHANGED <<pins, blob>>
     \/ /\ pins' \in Manifest \ {pins}
        /\ UNCHANGED <<recipe, blob>>
     \/ /\ \E d \in Dep : blob[d] # Absent /\ blob' = [blob EXCEPT ![d] = Absent]
        /\ UNCHANGED <<recipe, pins>>
  /\ quiet' = [b \in Builder |-> FALSE]
  /\ UNCHANGED <<nix, ledger, made, kills, failures, at, todo, dep, pin, built, hash,
                 witnessed>>

Init ==
  /\ recipe \in Recipe
  /\ pins \in Manifest
  /\ blob \in [Dep -> Content \cup {Absent, Torn}]
  /\ \A d \in Dep : blob[d] \in Content => \E r \in Recipe : blob[d] = Output[r][d]
  /\ nix \in BOOLEAN
  /\ ledger = {} /\ made = {} /\ failures = {}
  /\ edits = 0 /\ kills = 0
  /\ at = [b \in Builder |-> "idle"]
  /\ todo = [b \in Builder |-> <<>>] /\ dep = [b \in Builder |-> {}]
  /\ pin = [b \in Builder |-> Absent] /\ built = [b \in Builder |-> Absent]
  /\ hash = [b \in Builder |-> [d \in Dep |-> Absent]]
  /\ witnessed = [b \in Builder |-> {}]
  /\ quiet = [b \in Builder |-> TRUE]

Step(b) ==
  \/ ReadPin(b) \/ Unpinned(b) \/ Look(b) \/ Unavailable(b) \/ Build(b) \/ BuildFails(b)
  \/ Mismatch(b) \/ OpenBlob(b) \/ CopyBlob(b) \/ CopyLost(b) \/ Mint(b) \/ Rehash(b)
  \/ RehashFails(b) \/ Save(b) \/ Return(b)

Next == Edit \/ \E b \in Builder : Get(b) \/ Step(b) \/ Kill(b)

Spec == Init /\ [][Next]_vars

-----------------------------------------------------------------------------

TypeOK ==
  /\ recipe \in Recipe
  /\ pins \in [Dep -> Content \cup {Absent}]
  /\ blob \in [Dep -> Content \cup {Absent, Torn}]
  /\ nix \in BOOLEAN
  /\ ledger \in SUBSET [recipe : Recipe, pins : [Dep -> Content \cup {Absent}],
                        dep : Dep, artifact : Content]
  /\ made \in SUBSET (Dep \X Content)
  /\ edits \in 0..MaxEdits /\ kills \in 0..MaxKills /\ failures \subseteq Builder
  /\ at \in [Builder -> Ended \cup {"next", "look", "which", "compare", "copy", "mint",
                                    "rehash"}]
  /\ todo \in [Builder -> Seq(Dep)]
  /\ dep \in [Builder -> SUBSET Dep] /\ \A b \in Builder : Cardinality(dep[b]) <= 1
  /\ pin \in [Builder -> Content \cup {Absent}]
  /\ built \in [Builder -> Content \cup {Absent}]
  /\ hash \in [Builder -> [Dep -> Content \cup {Absent, Torn}]]
  /\ witnessed \in [Builder -> SUBSET [recipe : Recipe, dep : Dep, artifact : Content,
                                       pins : [Dep -> Content \cup {Absent}]]]
  /\ quiet \in [Builder -> BOOLEAN]

\* A cell realized by a dsm that ran undisturbed is the one its nucleus pins: whatever the
\* directory held before (a blob missing, false, or torn by a dsm that was killed), every
\* blob is the pinned content, and get takes each dependency for it.  It stays so through
\* every later get, killed or not, until an edit.
UndisturbedIsPinned ==
  \A b \in Builder : at[b] = "ready" /\ quiet[b] =>
    \A d \in Dep : hash[b][d] = pins[d] /\ blob[d] = pins[d]

\* Gets that overlap may tear each other's copies, and hash them torn; but when all have
\* ended, one of them with a cell, and none was killed, every blob is the pinned one.
OverlapSettles ==
  /\ edits = 0 /\ kills = 0
  /\ \A b \in Builder : ~Busy(b)
  /\ \E b \in Builder : at[b] = "ready"
  => \A d \in Dep : blob[d] = pins[d]

\* A cell that was realized is the cell its nucleus pins.
RealizedIsPinned == UndisturbedIsPinned /\ OverlapSettles

\* A builds_to claim is true, and of the nucleus that vouches for the artifact: the recipe
\* it names builds the artifact it names, and the pins it names pin it.  (An edit between
\* the build and the mint makes it false: the nucleus is hashed after the build.)
TrueClaim(c) == Output[c.recipe][c.dep] = c.artifact /\ c.pins[c.dep] = c.artifact
ClaimsAreTrue ==
  /\ edits = 0 => \A c \in ledger : TrueClaim(c)
  /\ \A b \in Builder : quiet[b] => \A c \in witnessed[b] : TrueClaim(c)

\* Every artifact dsm built into the directory is attested, once all is done: the claims
\* of every dependency reach the ledger.  (Where a get failed after one of its builds, or
\* was killed, they do not, and the next get has no reason to build again.)
BuiltIsAttested ==
  /\ edits = 0 /\ kills = 0 /\ failures = {}
  /\ \A b \in Builder : ~Busy(b)
  => \A m \in made : \E c \in ledger : c.dep = m[1] /\ c.artifact = m[2]

=============================================================================
