----------------------------- MODULE Internalize -----------------------------
(***************************************************************************)
(* Bringing one dependency under desmata's control:                        *)
(* BasicContext.internalize_ids_hashes (cell_factory.py) with              *)
(* create_hard_links (fs.py), run by several `dsm' processes on one        *)
(* userspace, each of which may die at any step.                           *)
(*                                                                         *)
(* The dependency is a directory of File in the nix store.  deps/by_id/<id>*)
(* is filled with it: when the target is read-only and on the same device  *)
(* by hard links ("link"), or by the copies create_hard_links falls back   *)
(* to where the kernel refuses them ("fallback"); else by copytree.  Then  *)
(* deps/by_hash/<hash of by_id/<id>> gets hard links to those same files,  *)
(* so the two trees share inodes: a file is in by_hash with whatever       *)
(* content it has in by_id.                                                *)
(*                                                                         *)
(* A dependency's directories concern no other dependency's, so one        *)
(* dependency stands for all of them.                                      *)
(***************************************************************************)
EXTENDS Naturals, FiniteSets

CONSTANTS
  File,     \* the files of the dependency
  Process,  \* dsm processes
  MaxKills  \* bound on how many of them are killed

ASSUME InternalizeAssumption == File # {} /\ MaxKills \in Nat

VARIABLES
  filling,   \* how this machine gets files into by_id/<id>, see below
  id_dir,    \* does by_id/<id> exist?
  inode,     \* inode[f]: what by_id/<id> holds of f, one of Contents
  by_hash,   \* by_hash[h]: the names under by_hash/<h>; no h: no directory
  process,   \* process[p]: a call's program counter and locals
  kills,     \* how many processes were killed
  contended  \* was a call begun while another was under way?

vars == <<filling, id_dir, inode, by_hash, process, kills, contended>>

-----------------------------------------------------------------------------

\* A copy is writable and partial ("part") until copy2 gives it the read-only
\* mode of its source; if another process is writing the file at that moment,
\* it is read-only but not yet whole ("sealed").
Contents == {"none", "part", "sealed", "whole"}

\* A directory's content address is a function of its content.
Hash == [File -> Contents]
Whole == [f \in File |-> "whole"]

\* A process between calls, or one whose call ended as `how' says with `h'.
Ended(how, h) ==
  [at |-> how, todo |-> {}, file |-> {}, errors |-> FALSE, hash |-> h]

\* p's call moves on to c, the others stay.
Goes(p, c) == process' = [process EXCEPT ![p] = c]

Present == {f \in File : inode[f] # "none"}

-----------------------------------------------------------------------------
(* Entering: is the dependency there already? *)

\* id_path.exists()
Exists == id_dir

Adopt(p) ==
  /\ process[p].at = "idle"
  /\ Exists
  /\ Goes(p, [process[p] EXCEPT !.at = "hash"])
  /\ UNCHANGED <<filling, id_dir, inode, by_hash>>

FindMissing(p) ==
  /\ process[p].at = "idle"
  /\ ~Exists
  /\ Goes(p, [process[p] EXCEPT !.at = "mkdir"])
  /\ UNCHANGED <<filling, id_dir, inode, by_hash>>

\* mkdir(exist_ok=True): another process may have made it since.
MakeIdDir(p) ==
  /\ process[p].at = "mkdir"
  /\ id_dir' = TRUE
  /\ Goes(p, [process[p] EXCEPT !.at = "fill", !.todo = File])
  /\ UNCHANGED <<filling, inode, by_hash>>

-----------------------------------------------------------------------------
(* Filling by_id/<id>: create_hard_links, or copytree(dirs_exist_ok=True) *)

\* The next file of the walk; safe_link_or_copy passes over one that exists.
SkipFile(p) ==
  /\ process[p].at = "fill"
  /\ filling # "copytree"
  /\ \E f \in process[p].todo \cap Present :
       Goes(p, [process[p] EXCEPT !.todo = @ \ {f}])
  /\ UNCHANGED <<filling, id_dir, inode, by_hash>>

PickFile(p) ==
  /\ process[p].at = "fill"
  /\ \E f \in process[p].todo :
       /\ filling = "copytree" \/ f \notin Present
       /\ Goes(p, [process[p] EXCEPT
                     !.at = "place", !.todo = @ \ {f}, !.file = {f}])
  /\ UNCHANGED <<filling, id_dir, inode, by_hash>>

LinkFile(p) ==
  /\ process[p].at = "place"
  /\ filling = "link"
  /\ \E f \in process[p].file :
       /\ inode[f] = "none"
       /\ inode' = [inode EXCEPT ![f] = "whole"]
  /\ Goes(p, [process[p] EXCEPT !.file = {}, !.at = "fill"])
  /\ UNCHANGED <<filling, id_dir, by_hash>>

\* Another process linked the file since it was looked for: os.link raises,
\* and so does the copy2 it falls back to, both names being one inode.
LoseLink(p) ==
  /\ process[p].at = "place"
  /\ filling = "link"
  /\ \E f \in process[p].file : inode[f] # "none"
  /\ Goes(p, Ended("raised", Whole))
  /\ UNCHANGED <<filling, id_dir, inode, by_hash>>

\* Mutant: what is in the way is replaced, as with chmod or cp --force.
OpenCopyAgain(p) ==
  /\ process[p].at = "place"
  /\ filling # "link"
  /\ \E f \in process[p].file : inode' = [inode EXCEPT ![f] = "part"]
  /\ Goes(p, [process[p] EXCEPT !.at = "write"])
  /\ UNCHANGED <<filling, id_dir, by_hash>>

\* copy2 opens the destination for writing, emptying it.
OpenCopy(p) ==
  /\ process[p].at = "place"
  /\ filling # "link"
  /\ \E f \in process[p].file :
       /\ inode[f] \in {"none", "part"}
       /\ inode' = [inode EXCEPT ![f] = "part"]
  /\ Goes(p, [process[p] EXCEPT !.at = "write"])
  /\ UNCHANGED <<filling, id_dir, by_hash>>

\* A finished copy has the source's read-only mode and cannot be opened again.
Unopenable(p) == \E f \in process[p].file : inode[f] \in {"sealed", "whole"}

\* Mutant: the process tries again until the file can be opened.
CannotOpenRetries(p) ==
  /\ process[p].at = "place"
  /\ filling = "fallback"
  /\ Unopenable(p)
  /\ UNCHANGED vars

\* safe_link_or_copy raises.
CannotOpen(p) ==
  /\ process[p].at = "place"
  /\ filling = "fallback"
  /\ Unopenable(p)
  /\ Goes(p, Ended("raised", Whole))
  /\ UNCHANGED <<filling, id_dir, inode, by_hash>>

\* copytree notes the error and goes on, to raise at the end.
NoteError(p) ==
  /\ process[p].at = "place"
  /\ filling = "copytree"
  /\ Unopenable(p)
  /\ Goes(p, [process[p] EXCEPT !.at = "fill", !.file = {}, !.errors = TRUE])
  /\ UNCHANGED <<filling, id_dir, inode, by_hash>>

\* Does a process other than p write the file?
WrittenByAnother(p, f) ==
  \E q \in Process \ {p} : process[q].at = "write" /\ f \in process[q].file

\* The bytes are written and the mode is copied.  Two writers may have emptied
\* the file under each other: it counts as whole when the last is through.
CloseCopy(p) ==
  /\ process[p].at = "write"
  /\ \E f \in process[p].file :
       inode' = [inode EXCEPT ![f] =
                   IF WrittenByAnother(p, f) THEN "sealed" ELSE "whole"]
  /\ Goes(p, [process[p] EXCEPT !.file = {}, !.at = "fill"])
  /\ UNCHANGED <<filling, id_dir, by_hash>>

RaiseCopy(p) ==
  /\ process[p].at = "fill"
  /\ process[p].todo = {} /\ process[p].errors
  /\ Goes(p, Ended("raised", Whole))
  /\ UNCHANGED <<filling, id_dir, inode, by_hash>>

-----------------------------------------------------------------------------
(* The hash directory *)

\* Mutant: the walk ends before its last file.
FilledEarly(p) ==
  /\ process[p].at = "fill"
  /\ ~process[p].errors
  /\ Goes(p, [process[p] EXCEPT !.at = "hash", !.todo = {}])
  /\ UNCHANGED <<filling, id_dir, inode, by_hash>>

Filled(p) ==
  /\ process[p].at = "fill"
  /\ process[p].todo = {} /\ ~process[p].errors
  /\ Goes(p, [process[p] EXCEPT !.at = "hash"])
  /\ UNCHANGED <<filling, id_dir, inode, by_hash>>

\* hasher.hash_path(id_path): the content as it is now
HashDir(p) ==
  /\ process[p].at = "hash"
  /\ Goes(p, [process[p] EXCEPT !.at = "hashed", !.hash = inode])
  /\ UNCHANGED <<filling, id_dir, inode, by_hash>>

\* hash_path.exists(): it is taken for complete.
HashDirExists(p) ==
  /\ process[p].at = "hashed"
  /\ process[p].hash \in DOMAIN by_hash
  /\ Goes(p, Ended("returned", process[p].hash))
  /\ UNCHANGED <<filling, id_dir, inode, by_hash>>

HashDirMissing(p) ==
  /\ process[p].at = "hashed"
  /\ process[p].hash \notin DOMAIN by_hash
  /\ Goes(p, [process[p] EXCEPT !.at = "make"])
  /\ UNCHANGED <<filling, id_dir, inode, by_hash>>

\* create_hard_links(id_path, hash_path): mkdir, then a walk of what id_path
\* holds by now.
MakeHashDir(p) ==
  LET h == process[p].hash IN
  /\ process[p].at = "make"
  /\ by_hash' = [g \in DOMAIN by_hash \cup {h} |->
                   IF g \in DOMAIN by_hash THEN by_hash[g] ELSE {}]
  /\ Goes(p, [process[p] EXCEPT !.at = "share", !.todo = Present])
  /\ UNCHANGED <<filling, id_dir, inode>>

\* safe_link_or_copy again, on the files of id_path
SkipShared(p) ==
  /\ process[p].at = "share"
  /\ process[p].file = {}
  /\ \E f \in process[p].todo \cap by_hash[process[p].hash] :
       Goes(p, [process[p] EXCEPT !.todo = @ \ {f}])
  /\ UNCHANGED <<filling, id_dir, inode, by_hash>>

PickShared(p) ==
  /\ process[p].at = "share"
  /\ process[p].file = {}
  /\ \E f \in process[p].todo \ by_hash[process[p].hash] :
       Goes(p, [process[p] EXCEPT !.todo = @ \ {f}, !.file = {f}])
  /\ UNCHANGED <<filling, id_dir, inode, by_hash>>

ShareFile(p) ==
  LET h == process[p].hash IN
  /\ process[p].at = "share"
  /\ \E f \in process[p].file \ by_hash[h] :
       by_hash' = [by_hash EXCEPT ![h] = @ \cup {f}]
  /\ Goes(p, [process[p] EXCEPT !.file = {}])
  /\ UNCHANGED <<filling, id_dir, inode>>

LoseShare(p) ==
  /\ process[p].at = "share"
  /\ process[p].file \cap by_hash[process[p].hash] # {}
  /\ Goes(p, Ended("raised", Whole))
  /\ UNCHANGED <<filling, id_dir, inode, by_hash>>

Return(p) ==
  /\ process[p].at = "share"
  /\ process[p].todo = {} /\ process[p].file = {}
  /\ Goes(p, Ended("returned", process[p].hash))
  /\ UNCHANGED <<filling, id_dir, inode, by_hash>>

-----------------------------------------------------------------------------

Active(p) == process[p].at \notin {"idle", "returned", "raised"}

\* The process is killed; the disk stays as it is.
Crash(p) ==
  /\ Active(p)
  /\ Goes(p, Ended("idle", Whole))
  /\ UNCHANGED <<filling, id_dir, inode, by_hash>>

\* dsm is run again.
Again(p) ==
  /\ process[p].at \in {"returned", "raised"}
  /\ Goes(p, Ended("idle", Whole))
  /\ UNCHANGED <<filling, id_dir, inode, by_hash>>

Init ==
  /\ filling \in {"link", "fallback", "copytree"}
  /\ id_dir = FALSE
  /\ inode = [f \in File |-> "none"]
  /\ by_hash = [h \in {} |-> {}]
  /\ process = [p \in Process |-> Ended("idle", Whole)]
  /\ kills = 0 /\ contended = FALSE

Step(p) ==
  \/ Adopt(p) \/ FindMissing(p) \/ MakeIdDir(p)
  \/ SkipFile(p) \/ PickFile(p) \/ LinkFile(p) \/ LoseLink(p)
  \/ OpenCopy(p) \/ CannotOpen(p) \/ NoteError(p) \/ CloseCopy(p)
  \/ RaiseCopy(p)
  \/ Filled(p) \/ HashDir(p) \/ HashDirExists(p) \/ HashDirMissing(p)
  \/ MakeHashDir(p) \/ SkipShared(p) \/ PickShared(p) \/ ShareFile(p)
  \/ LoseShare(p) \/ Return(p)

\* A call that begins while another is under way contends with it.
Contends(p) ==
  process[p].at = "idle" /\ \E q \in Process \ {p} : Active(q)

Run(p) ==
  /\ Step(p)
  /\ contended' = (contended \/ Contends(p))
  /\ UNCHANGED kills

Kill(p) ==
  /\ kills < MaxKills
  /\ Crash(p)
  /\ kills' = kills + 1
  /\ UNCHANGED contended

Next ==
  \E p \in Process :
    Run(p) \/ Kill(p) \/ (Again(p) /\ UNCHANGED <<kills, contended>>)

Spec == Init /\ [][Next]_vars

\* A process that is not killed goes on running.
FairSpec == Spec /\ \A p \in Process : WF_vars(Run(p))

-----------------------------------------------------------------------------
(* Properties *)

Places ==
  {"idle", "mkdir", "fill", "place", "write", "hash", "hashed", "make",
   "share", "returned", "raised"}

Call == [at : Places, todo : SUBSET File, file : SUBSET File,
         errors : BOOLEAN, hash : Hash]

HistoryOK == kills \in 0..MaxKills /\ contended \in BOOLEAN

\* Types of the disk and of the processes; a process holds a file only where
\* it is about to place or share it.
TypeOK ==
  /\ filling \in {"link", "fallback", "copytree"}
  /\ id_dir \in BOOLEAN
  /\ inode \in Hash
  /\ DOMAIN by_hash \subseteq Hash
  /\ \A h \in DOMAIN by_hash : by_hash[h] \subseteq File
  /\ process \in [Process -> Call]
  /\ \A p \in Process :
       process[p].file # {} => process[p].at \in {"place", "write", "share"}
  /\ HistoryOK

Filling(p) == process[p].at \in {"mkdir", "fill", "place", "write"}

Sharing(p, h) == process[p].at \in {"make", "share"} /\ process[p].hash = h

\* `Returns the ID and the content address' of the dependency: what a process
\* returns is the address of the whole dependency, and the directory of that
\* name holds the whole dependency.
ReturnsTheDependency ==
  \A p \in Process :
    process[p].at = "returned" =>
      /\ process[p].hash = Whole
      /\ Whole \in DOMAIN by_hash
      /\ by_hash[Whole] = File /\ inode = Whole

\* It holds as long as calls follow each other and none is killed, in each of
\* the three ways to fill the directory, however often it is done.
ReturnedIsComplete == (kills = 0 /\ ~contended) => ReturnsTheDependency

Done ==
  /\ (id_dir /\ \A p \in Process : ~Filling(p)) => inode = Whole
  /\ \A h \in DOMAIN by_hash :
       (\A p \in Process : ~Sharing(p, h)) =>
         {f \in File : h[f] # "none"} \subseteq by_hash[h]

\* However processes race for the two directories, and though losers of a race
\* raise half way, unless one is killed each directory gets done: by_id/<id>
\* is whole when no one is filling it any more, and by_hash/<h> has every file
\* its address names when no one is sharing into it.
SurvivorCompletes == kills = 0 => Done

\* An address never promises more than is there: a file that was whole when a
\* directory was addressed is whole still, shared inodes are never reopened
\* for writing, and by_hash names only files by_id has.
SharedStaysWhole ==
  /\ \A h \in DOMAIN by_hash :
       /\ by_hash[h] \subseteq Present
       /\ \A f \in File : h[f] = "whole" => inode[f] = "whole"
  /\ \A p \in Process : process[p].at = "write" =>
       \A f \in process[p].file : inode[f] \in {"part", "sealed"}

\* A file of by_id that is whole stays whole, and a name once under by_hash
\* stays there: no step of any process takes content from the store.
StoreOnlyGrows ==
  [][/\ \A f \in File : inode[f] = "whole" => inode'[f] = "whole"
     /\ \A h \in DOMAIN by_hash :
          h \in DOMAIN by_hash' /\ by_hash[h] \subseteq by_hash'[h]]_vars

\* Every call that is not killed ends, whatever the others do.
CallsEnd == \A p \in Process : process[p].at = "mkdir" ~> ~Active(p)

=============================================================================
