------------------------------ MODULE Publish ------------------------------
(***************************************************************************)
(* Publishing a cell: publish_cell (cell_archive.py) reads a directory     *)
(* file by file while its author may go on editing it, and the repo may be *)
(* garbage collected.                                                      *)
(*                                                                         *)
(* The directory is read over and over: verify_artifacts reads the         *)
(* `artifact' manifest and each blob it pins; require_nucleus,             *)
(* nucleus_files and membrane_files each read the `nucleus' declaration    *)
(* for themselves; and every file is read once more when it is added.      *)
(*                                                                         *)
(* A file's content is one of a few versions.  Two files have a meaning:   *)
(* version v of the declaration adds Declares[v] to the nucleus, version v *)
(* of the manifest pins the blobs in DOMAIN Pins[v] to versions of them.   *)
(* Content is addressed by itself: a manifest's CID is the manifest.       *)
(***************************************************************************)
EXTENDS Naturals, FiniteSets

CONSTANTS
  Name,         \* relative paths, the next two among them
  Core,         \* the mandatory nucleus: flake.nix, flake.lock, cell.py
  Declaration,  \* "nucleus"
  Artifact,     \* "artifact"
  Version,      \* contents of a file
  Absent,       \* there is no such file
  Declares,     \* Declares[v]: what version v of the declaration adds
  Pins,         \* Pins[v]: blob |-> version, for version v of the manifest
  Garbled,      \* versions no manifest can be read from
  MaxEdits,     \* bound on the author's edits
  Original      \* the directories publishing may start from

ASSUME PublishAssumption ==
  /\ Core \subseteq Name /\ Core # {}
  /\ {Declaration, Artifact} \subseteq Name \ Core /\ Declaration # Artifact
  /\ Absent \notin Version
  /\ Declares \in [Version -> SUBSET Name]
  /\ \A v \in Version : \A n \in DOMAIN Pins[v] :
       n \in Name /\ Pins[v][n] \in Version
  /\ Garbled \subseteq Version
  /\ MaxEdits \in Nat
  /\ Original \subseteq [Name -> Version \cup {Absent}]

VARIABLES
  dir,       \* the cell's directory: name |-> version, or Absent
  edits,     \* how often it was edited
  at,        \* publish_cell's program counter
  todo,      \* the names the step at hand has yet to read
  pinned,    \* artifact_pins, as verify_artifacts read them
  nucleus,   \* the nucleus entries added so far: name |-> version
  membrane,  \* the same of the membrane
  put,       \* the manifests in the repo: "nucleus", "cell"
  pin,       \* is the cell manifest pinned (recursively)?
  seen       \* seen[n]: the contents n has had since publish_cell was called

vars == <<dir, edits, at, todo, pinned, nucleus, membrane, put, pin, seen>>

-----------------------------------------------------------------------------

Empty == [n \in {} |-> Absent]
With(entries, n, v) == [m \in DOMAIN entries \cup {n} |->
                          IF m = n THEN v ELSE entries[m]]

\* nucleus_names
NucleusNames ==
  Core \cup (IF dir[Declaration] = Absent THEN {}
             ELSE {Declaration} \cup Declares[dir[Declaration]])

Existing == {n \in Name : dir[n] # Absent}

\* artifact_pins
PinsIn(v) == IF v = Absent THEN Empty ELSE Pins[v]

Raise(how) ==
  /\ at' = how
  /\ UNCHANGED <<dir, edits, todo, pinned, nucleus, membrane, put, pin, seen>>

-----------------------------------------------------------------------------

Call ==
  /\ at = "idle"
  /\ at' = "pins"
  /\ seen' = [n \in Name |-> {dir[n]}]
  /\ UNCHANGED <<dir, edits, todo, pinned, nucleus, membrane, put, pin>>

\* verify_artifacts: pins = artifact_pins(cell_dir)
ReadPins ==
  /\ at = "pins"
  /\ dir[Artifact] \notin Garbled
  /\ at' = "verify"
  /\ pinned' = PinsIn(dir[Artifact])
  /\ todo' = DOMAIN pinned'
  /\ UNCHANGED <<dir, edits, nucleus, membrane, put, pin, seen>>

BadManifest ==
  /\ at = "pins"
  /\ dir[Artifact] \in Garbled
  /\ Raise("invalid")

\* Mutant: the blob is looked for, not hashed.
VerifyExists ==
  /\ at = "verify"
  /\ \E n \in todo :
       /\ dir[n] # Absent
       /\ todo' = todo \ {n}
  /\ UNCHANGED <<dir, edits, at, pinned, nucleus, membrane, put, pin, seen>>

VerifyBlob ==
  /\ at = "verify"
  /\ \E n \in todo :
       /\ dir[n] = pinned[n]
       /\ todo' = todo \ {n}
  /\ UNCHANGED <<dir, edits, at, pinned, nucleus, membrane, put, pin, seen>>

\* ArtifactPinMismatch (raised after the loop; what the loop reads after the
\* first problem changes only the message)
Mismatch ==
  /\ at = "verify"
  /\ \E n \in todo : dir[n] # pinned[n]
  /\ Raise("mismatch")

Verified ==
  /\ at = "verify" /\ todo = {}
  /\ at' = "require"
  /\ UNCHANGED <<dir, edits, todo, pinned, nucleus, membrane, put, pin, seen>>

\* require_nucleus
RequireNucleus ==
  /\ at = "require"
  /\ NucleusNames \subseteq Existing
  /\ at' = "list"
  /\ UNCHANGED <<dir, edits, todo, pinned, nucleus, membrane, put, pin, seen>>

InvalidCell ==
  /\ at = "require"
  /\ ~(NucleusNames \subseteq Existing)
  /\ Raise("invalid")

\* nucleus_files
ListNucleus ==
  /\ at = "list"
  /\ at' = "nucleus"
  /\ todo' = NucleusNames \cap Existing
  /\ UNCHANGED <<dir, edits, pinned, nucleus, membrane, put, pin, seen>>

\* Mutant: a file that is gone gets an entry all the same.
AddGone ==
  /\ at = "nucleus"
  /\ \E n \in todo :
       /\ nucleus' = With(nucleus, n, dir[n])
       /\ todo' = todo \ {n}
  /\ UNCHANGED <<dir, edits, at, pinned, membrane, put, pin, seen>>

\* _entries: ipfs.add(f)
AddNucleus ==
  /\ at = "nucleus"
  /\ \E n \in todo \cap Existing :
       /\ nucleus' = With(nucleus, n, dir[n])
       /\ todo' = todo \ {n}
  /\ UNCHANGED <<dir, edits, at, pinned, membrane, put, pin, seen>>

PutNucleus ==
  /\ at = "nucleus" /\ todo = {}
  /\ put' = put \cup {"nucleus"}
  /\ at' = "walk"
  /\ UNCHANGED <<dir, edits, todo, pinned, nucleus, membrane, pin, seen>>

\* Mutant: the membrane is whatever the mandatory core is not.
ListRest ==
  /\ at = "walk"
  /\ at' = "membrane"
  /\ todo' = Existing \ Core
  /\ UNCHANGED <<dir, edits, pinned, nucleus, membrane, put, pin, seen>>

\* membrane_files: it reads the declaration again.
ListMembrane ==
  /\ at = "walk"
  /\ at' = "membrane"
  /\ todo' = Existing \ NucleusNames
  /\ UNCHANGED <<dir, edits, pinned, nucleus, membrane, put, pin, seen>>

AddMembrane ==
  /\ at = "membrane"
  /\ \E n \in todo \cap Existing :
       /\ membrane' = With(membrane, n, dir[n])
       /\ todo' = todo \ {n}
  /\ UNCHANGED <<dir, edits, at, pinned, nucleus, put, pin, seen>>

\* Mutant: the file is tried again.
AddRetries ==
  /\ at \in {"nucleus", "membrane"}
  /\ \E n \in todo : n \notin Existing
  /\ UNCHANGED vars

\* ipfs add fails on a file that was deleted since it was listed.
AddFails ==
  /\ at \in {"nucleus", "membrane"}
  /\ \E n \in todo : n \notin Existing
  /\ Raise("failed")

\* The cell manifest links the nucleus manifest; dag put does not ask whether
\* what it links is there.
PutCell ==
  /\ at = "membrane" /\ todo = {}
  /\ put' = put \cup {"cell"}
  /\ at' = "pin"
  /\ UNCHANGED <<dir, edits, todo, pinned, nucleus, membrane, pin, seen>>

\* Mutant: `ipfs pin add' of the manifest alone, without --recursive.
PinAlone ==
  /\ at = "pin"
  /\ "cell" \in put
  /\ pin' = TRUE
  /\ at' = "published"
  /\ UNCHANGED <<dir, edits, todo, pinned, nucleus, membrane, put, seen>>

\* pin_add, offline: it fails if a block is missing.
PinCell ==
  /\ at = "pin"
  /\ put = {"nucleus", "cell"}
  /\ pin' = TRUE
  /\ at' = "published"
  /\ UNCHANGED <<dir, edits, todo, pinned, nucleus, membrane, put, seen>>

PinFails ==
  /\ at = "pin"
  /\ put # {"nucleus", "cell"}
  /\ Raise("failed")

-----------------------------------------------------------------------------
(* The author, and kubo's garbage collector *)

Edit(n, v) ==
  /\ edits < MaxEdits
  /\ v # dir[n]
  /\ dir' = [dir EXCEPT ![n] = v]
  /\ edits' = edits + 1
  /\ seen' = [seen EXCEPT ![n] = @ \cup {v}]
  /\ UNCHANGED <<at, todo, pinned, nucleus, membrane, put, pin>>

\* `ipfs add' pins what it adds, `dag put' does not: an unpinned manifest goes.
Collect ==
  /\ put # {} /\ ~pin
  /\ put' = {}
  /\ UNCHANGED <<dir, edits, at, todo, pinned, nucleus, membrane, pin, seen>>

Init ==
  /\ dir \in Original
  /\ edits = 0
  /\ at = "idle"
  /\ todo = {}
  /\ pinned = Empty
  /\ nucleus = Empty /\ membrane = Empty
  /\ put = {}
  /\ pin = FALSE
  /\ seen = [n \in Name |-> {}]

Publishing ==
  \/ Call \/ ReadPins \/ BadManifest \/ VerifyBlob \/ Mismatch \/ Verified
  \/ RequireNucleus \/ InvalidCell \/ ListNucleus \/ AddNucleus \/ PutNucleus
  \/ ListMembrane \/ AddMembrane \/ AddFails \/ PutCell \/ PinCell \/ PinFails

Next ==
  \/ Publishing
  \/ \E n \in Name, v \in Version \cup {Absent} : at # "idle" /\ Edit(n, v)
  \/ Collect

Spec == Init /\ [][Next]_vars

FairSpec == Spec /\ WF_vars(Publishing)

-----------------------------------------------------------------------------
(* Properties *)

IsEntries(e) == DOMAIN e \subseteq Name /\ \A n \in DOMAIN e : e[n] \in Version

Outcomes == {"published", "mismatch", "invalid", "failed"}

\* Types of the publisher; what it has yet to read are names.
TypeOK ==
  /\ dir \in [Name -> Version \cup {Absent}]
  /\ edits \in 0..MaxEdits
  /\ at \in Outcomes \cup {"idle", "pins", "verify", "require", "list", "nucleus",
                           "walk", "membrane", "pin"}
  /\ todo \subseteq Name
  /\ \A n \in DOMAIN pinned : pinned[n] \in Version
  /\ IsEntries(nucleus) /\ IsEntries(membrane)
  /\ put \subseteq {"nucleus", "cell"}
  /\ pin \in BOOLEAN
  /\ seen \in [Name -> SUBSET (Version \cup {Absent})]

Published == at = "published"

\* The published cell as a peer gets it.
Entry(n) == IF n \in DOMAIN nucleus THEN nucleus[n]
            ELSE IF n \in DOMAIN membrane THEN membrane[n] ELSE Absent

PinsHold(d) == \A n \in DOMAIN PinsIn(d[Artifact]) : d[n] = PinsIn(d[Artifact])[n]

\* A directory that nobody edits is published exactly as it is, cut where its
\* declaration says, and only if its pins hold and its nucleus is complete;
\* else publish_cell refuses.
QuietPublishIsExact ==
  (edits = 0 /\ at \in {"published", "mismatch", "invalid"}) =>
    /\ Published =>
         /\ DOMAIN nucleus = NucleusNames
         /\ DOMAIN membrane = Existing \ NucleusNames
         /\ \A n \in Name : Entry(n) = dir[n]
    /\ Published <=> /\ dir[Artifact] \notin Garbled
                     /\ PinsHold(dir)
                     /\ NucleusNames \subseteq Existing

\* As long as the declaration stays as it is, the cut is clean however the
\* other files are edited: each file is on the side the declaration gives it,
\* and no file that was there all along is left out.
BoundaryIsClean ==
  (Published /\ Cardinality(seen[Declaration]) = 1) =>
    /\ DOMAIN nucleus \subseteq NucleusNames
    /\ DOMAIN membrane \cap NucleusNames = {}
    /\ \A n \in Name : Absent \notin seen[n] =>
         n \in DOMAIN nucleus \cup DOMAIN membrane

\* `Published cells must survive GC': both manifests are there for good.
PublishedSurvives == Published => pin /\ put = {"nucleus", "cell"}

\* What publishing promises, whatever the order of its reads: the cell comes into
\* being when it is pinned.
Promise == INSTANCE Publication WITH
  held <- seen,
  state <- CASE at = "idle" -> "idle"
             [] Published -> "published"
             [] at \in {"mismatch", "invalid", "failed"} -> "refused"
             [] OTHER -> "open",
  cell <- IF Published THEN [nucleus |-> nucleus, membrane |-> membrane]
          ELSE [nucleus |-> Empty, membrane |-> Empty]

\* However the author's edits fall between its reads, publish_cell is one step of
\* its caller's: what it published was in the directory since the call, with what
\* is pinned, and cut along a declaration that was there; and it stays as it is.
PublishesAtOnce == Promise!Spec

\* publish_cell ends, one way or another, whatever the author does meanwhile.
PublishEnds == (at = "pins") ~> (at \in Outcomes)

=============================================================================
