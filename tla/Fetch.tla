------------------------------- MODULE Fetch -------------------------------
(***************************************************************************)
(* Resolving a cell by its hash: from_hash, unpack_cell and                *)
(* _ensure_available (cell_archive.py), for callers that share one ipfs    *)
(* repo, its daemon (which may stop or die) and the peers it may find; the *)
(* repo may be garbage collected.                                          *)
(*                                                                         *)
(* A cell is a DAG: the cell manifest links the nucleus manifest and the   *)
(* membrane files, the nucleus manifest links the nucleus files.  A file   *)
(* and its blocks are one.  A nucleus is a cell with an empty membrane.    *)
(***************************************************************************)
EXTENDS Naturals, FiniteSets

CONSTANTS
  Caller,
  NucleusFile, MembraneFile,  \* the files of the cell
  Other,        \* files of an earlier cell in a directory used before
  MaxCalls,     \* bounds: calls made,
  MaxDaemon,    \*   daemons started,
  MaxCollect    \*   and collections

ASSUME FetchAssumption ==
  /\ NucleusFile \cap MembraneFile = {}
  /\ Other \cap (NucleusFile \cup MembraneFile \cup {"cell", "nucleus"}) = {}
  /\ {"cell", "nucleus"} \cap (NucleusFile \cup MembraneFile) = {}
  /\ MaxCalls \in Nat /\ MaxDaemon \in Nat /\ MaxCollect \in Nat

Manifest == {"cell", "nucleus"}
File == NucleusFile \cup MembraneFile
Block == Manifest \cup File

\* The files a manifest leads to, and all blocks under it.
Files(r) == IF r = "cell" THEN File ELSE NucleusFile
Under(r) == Files(r) \cup (IF r = "cell" THEN Manifest ELSE {"nucleus"})

VARIABLES
  blocks,   \* what the repo holds
  pins,     \* the manifests pinned recursively
  daemon,   \* is a daemon serving the repo?
  api,      \* is the repo's api file there?  A daemon that dies leaves it.
  started,  \* how many daemons were started
  collected,
  peer,     \* is some peer with the content reachable?
  place,    \* each caller's program counter
  root,     \* the hash it was given
  car,      \* was it given a bundle?
  pinning,  \* did it fetch through pin_add?
  unwritten, \* the files it has yet to write
  into,     \* into[c][f]: "none", "torn", "whole"; or "old", from an earlier cell
  before,   \* into, when it was called
  named,    \* what nucleus_names gives for the cell.  More than it has, if it
            \* was not publish_cell that made it
  calls     \* how many calls were made, by all

repo == <<blocks, pins>>
node == <<daemon, api, started, collected, peer>>
call == <<root, car, before, calls, named>>
fetchVars == <<blocks, pins, daemon, api, started, collected, peer, place, root, car,
               pinning, unwritten, into, before, calls, named>>

-----------------------------------------------------------------------------

Ended == {"idle", "unavailable", "error", "invalid", "built", "killed"}

Goto(c, where) == place' = [place EXCEPT ![c] = where]

\* Tools.IPFS.have: `a root block alone doesn't count as having the cell'
Have(r) == Under(r) \subseteq blocks

Stop(c, how) ==
  /\ Goto(c, how)
  /\ UNCHANGED <<repo, node, call, pinning, unwritten, into>>

-----------------------------------------------------------------------------
(* _ensure_available *)

\* from_hash, unpack_cell: with a bundle, or without.
StartCall(c) ==
  /\ place[c] \in Ended /\ calls < MaxCalls
  /\ calls' = calls + 1
  /\ before' = [before EXCEPT ![c] = into[c]]
  /\ pinning' = [pinning EXCEPT ![c] = FALSE]
  /\ \E r \in Manifest, bundle \in BOOLEAN :
       /\ root' = [root EXCEPT ![c] = r]
       /\ car' = [car EXCEPT ![c] = bundle]
       /\ Goto(c, IF bundle THEN "import" ELSE "have")
  /\ UNCHANGED <<repo, node, unwritten, into, named>>

\* `dag import' pins the root it loads.
Import(c) ==
  /\ place[c] = "import"
  /\ blocks' = blocks \cup Under(root[c])
  /\ pins' = pins \cup {root[c]}
  /\ Goto(c, "manifest")
  /\ UNCHANGED <<node, call, pinning, unwritten, into>>

\* A bundle that is cut: what it has is loaded, and the import fails.
ImportFails(c) ==
  /\ place[c] = "import"
  /\ \E some \in SUBSET Under(root[c]) :
       /\ some # Under(root[c])
       /\ blocks' = blocks \cup some
  /\ Goto(c, "error")
  /\ UNCHANGED <<pins, node, call, pinning, unwritten, into>>

Local(c) ==
  /\ place[c] = "have"
  /\ Have(root[c])
  /\ Stop(c, "manifest")

Miss(c) ==
  /\ place[c] = "have"
  /\ ~Have(root[c])
  /\ Stop(c, "daemon")

\* daemon_running
NoDaemon(c) ==
  /\ place[c] = "daemon"
  /\ ~api
  /\ Stop(c, "unavailable")

AskDaemon(c) ==
  /\ place[c] = "daemon"
  /\ api
  /\ pinning' = [pinning EXCEPT ![c] = TRUE]
  /\ Goto(c, "connect")
  /\ UNCHANGED <<repo, node, call, unwritten, into>>

\* pin_add(offline=False): the command finds a daemon,
Connect(c) ==
  /\ place[c] = "connect"
  /\ daemon
  /\ Stop(c, "pin")

\* or, after the check, none: then it works on the repo alone.
PinLocally(c) ==
  /\ place[c] = "connect"
  /\ ~daemon
  /\ IF Have(root[c])
     THEN /\ pins' = pins \cup {root[c]}
          /\ Goto(c, "manifest")
     ELSE /\ Goto(c, "error")
          /\ UNCHANGED pins
  /\ UNCHANGED <<blocks, node, call, pinning, unwritten, into>>

Pull(c) ==
  /\ place[c] = "pin" /\ daemon /\ peer
  /\ \E b \in Under(root[c]) \ blocks : blocks' = blocks \cup {b}
  /\ UNCHANGED <<pins, node, place, call, pinning, unwritten, into>>

\* Mutant: the blocks are fetched (`ipfs refs -r') and not pinned.
FetchOnly(c) ==
  /\ place[c] = "pin" /\ daemon
  /\ Have(root[c])
  /\ Stop(c, "manifest")

Pinned(c) ==
  /\ place[c] = "pin" /\ daemon
  /\ Have(root[c])
  /\ pins' = pins \cup {root[c]}
  /\ Goto(c, "manifest")
  /\ UNCHANGED <<blocks, node, call, pinning, unwritten, into>>

\* Mutant: the timeout does not reach the command.
TimeOutToConnect(c) ==
  /\ place[c] = "connect"
  /\ Stop(c, "unavailable")

\* The command is killed when fetch_timeout has passed: CellUnavailable.  What
\* was fetched stays, unpinned.
TimeOut(c) ==
  /\ place[c] \in {"connect", "pin"}
  /\ Stop(c, "unavailable")

\* The daemon went away while it fetched: CalledProcessError.
PinLosesDaemon(c) ==
  /\ place[c] = "pin" /\ ~daemon
  /\ Stop(c, "error")

-----------------------------------------------------------------------------
(* unpack_cell *)

\* dag_get is not --offline: with a daemon, what is missing is looked for.
GetNode(c, b) ==
  /\ b \in blocks \/ (daemon /\ peer)
  /\ blocks' = blocks \cup {b}
  /\ UNCHANGED pins

GetNodeFails(c, b) == b \notin blocks /\ ~daemon

\* Mutant: the directory is emptied before the cell is unpacked.
ReadRootClears(c) ==
  /\ place[c] = "manifest"
  /\ GetNode(c, root[c])
  /\ Goto(c, IF root[c] = "cell" THEN "nucleus" ELSE "get")
  /\ unwritten' = [unwritten EXCEPT ![c] = Files(root[c])]
  /\ into' = [into EXCEPT ![c] = [f \in DOMAIN @ |-> "none"]]
  /\ UNCHANGED <<node, call, pinning>>

ReadRoot(c) ==
  /\ place[c] = "manifest"
  /\ GetNode(c, root[c])
  /\ Goto(c, IF root[c] = "cell" THEN "nucleus" ELSE "get")
  /\ unwritten' = [unwritten EXCEPT ![c] = Files(root[c])]
  /\ UNCHANGED <<node, call, pinning, into>>

ReadNucleus(c) ==
  /\ place[c] = "nucleus"
  /\ GetNode(c, "nucleus")
  /\ Goto(c, "get")
  /\ UNCHANGED <<node, call, pinning, unwritten, into>>

ReadFails(c) ==
  /\ \/ place[c] = "manifest" /\ GetNodeFails(c, root[c])
     \/ place[c] = "nucleus" /\ GetNodeFails(c, "nucleus")
  /\ Stop(c, "error")

\* Mutant: a file that cannot be had is passed over.
WriteOrSkip(c) ==
  /\ place[c] = "get"
  /\ \E f \in unwritten[c] :
       /\ into' = [into EXCEPT ![c][f] = IF f \in blocks THEN "whole" ELSE @]
       /\ unwritten' = [unwritten EXCEPT ![c] = @ \ {f}]
  /\ UNCHANGED <<repo, node, place, call, pinning>>

\* ipfs get --offline
WriteFile(c) ==
  /\ place[c] = "get"
  /\ \E f \in unwritten[c] \cap blocks :
       /\ into' = [into EXCEPT ![c][f] = "whole"]
       /\ unwritten' = [unwritten EXCEPT ![c] = @ \ {f}]
  /\ UNCHANGED <<repo, node, place, call, pinning>>

\* Mutant: whatever the repo lacks is reported as unavailable.
WriteFailsUnavailable(c) ==
  /\ place[c] = "get"
  /\ \E f \in unwritten[c] : f \notin blocks
  /\ Stop(c, "unavailable")

WriteFails(c) ==
  /\ place[c] = "get"
  /\ \E f \in unwritten[c] : f \notin blocks
  /\ Stop(c, "error")

\* require_nucleus looks at the directory, where a file of an earlier cell is as
\* good as one of this; then the Cell class is loaded and built, which is not the
\* fetch any more.
Build(c) ==
  /\ place[c] = "get" /\ unwritten[c] = {}
  /\ \A f \in named : into[c][f] # "none"
  /\ Stop(c, "built")

IncompleteNucleus(c) ==
  /\ place[c] = "get" /\ unwritten[c] = {}
  /\ \E f \in named : into[c][f] = "none"
  /\ Stop(c, "invalid")

\* The caller's process is killed, perhaps while a file is written.
Kill(c) ==
  /\ place[c] \notin Ended
  /\ \/ UNCHANGED into
     \/ /\ place[c] = "get"
        /\ \E f \in unwritten[c] : into' = [into EXCEPT ![c][f] = "torn"]
  /\ Goto(c, "killed")
  /\ UNCHANGED <<repo, node, call, pinning, unwritten>>

-----------------------------------------------------------------------------
(* The node and the network *)

StartDaemon ==
  /\ ~daemon /\ started < MaxDaemon
  /\ started' = started + 1
  /\ daemon' = TRUE /\ api' = TRUE
  /\ UNCHANGED <<repo, collected, peer, place, call, pinning, unwritten, into>>

StopDaemon ==
  /\ daemon
  /\ daemon' = FALSE
  /\ api' \in BOOLEAN
  /\ UNCHANGED <<repo, started, collected, peer, place, call, pinning, unwritten, into>>

PeerChanges ==
  /\ peer' = ~peer
  /\ UNCHANGED <<repo, daemon, api, started, collected, place, call, pinning, unwritten, into>>

\* kubo collects what no pin protects, and not while it pins.
CollectUnpinned ==
  /\ collected < MaxCollect
  /\ \A c \in Caller : ~(place[c] = "pin" /\ daemon)
  /\ collected' = collected + 1
  /\ blocks' = blocks \cap UNION {Under(r) : r \in pins}
  /\ UNCHANGED <<pins, daemon, api, started, peer, place, call, pinning, unwritten, into>>

\* A repo with nothing of the cell; directories that are new, or were used (all
\* alike: no two calls of different callers share one).
InitFetch ==
  /\ blocks = {} /\ pins = {}
  /\ daemon = FALSE /\ api \in BOOLEAN /\ started = 0
  /\ collected = 0
  /\ peer \in BOOLEAN
  /\ place = [c \in Caller |-> "idle"]
  /\ root = [c \in Caller |-> "cell"]
  /\ car = [c \in Caller |-> FALSE]
  /\ pinning = [c \in Caller |-> FALSE]
  /\ unwritten = [c \in Caller |-> {}]
  /\ \E was \in {"none", "old"} :
       into = [c \in Caller |-> [f \in File \cup Other |-> was]]
  /\ before = into
  /\ calls = 0
  /\ named \in {NucleusFile, NucleusFile \cup Other}

Resolve(c) ==
  \/ Import(c) \/ ImportFails(c) \/ Local(c) \/ Miss(c) \/ NoDaemon(c)
  \/ AskDaemon(c) \/ Connect(c) \/ PinLocally(c) \/ Pull(c) \/ Pinned(c) \/ TimeOut(c)
  \/ PinLosesDaemon(c)

Unpack(c) ==
  \/ ReadRoot(c) \/ ReadNucleus(c) \/ ReadFails(c) \/ WriteFile(c) \/ WriteFails(c)
  \/ Build(c) \/ IncompleteNucleus(c)

Environment == StartDaemon \/ StopDaemon \/ PeerChanges \/ CollectUnpinned

NextFetch ==
  \/ \E c \in Caller : StartCall(c) \/ Resolve(c) \/ Unpack(c) \/ Kill(c)
  \/ Environment

FetchSpec == InitFetch /\ [][NextFetch]_fetchVars

\* A command that can take a step takes it, and the one with a timeout is
\* killed in time.
FairFetch ==
  /\ FetchSpec
  /\ \A c \in Caller : WF_fetchVars(Resolve(c) \/ Unpack(c)) /\ WF_fetchVars(TimeOut(c))

-----------------------------------------------------------------------------
(* Properties *)

\* Types; what a running call has yet to write is under its root.
FetchTypeOK ==
  /\ blocks \subseteq Block
  /\ pins \subseteq Manifest
  /\ daemon \in BOOLEAN /\ api \in BOOLEAN /\ peer \in BOOLEAN
  /\ daemon => api
  /\ started \in 0..MaxDaemon /\ collected \in 0..MaxCollect
  /\ place \in [Caller -> Ended \cup {"import", "have", "daemon", "connect", "pin",
                                   "manifest", "nucleus", "get"}]
  /\ root \in [Caller -> Manifest] /\ car \in [Caller -> BOOLEAN]
  /\ pinning \in [Caller -> BOOLEAN]
  /\ \A c \in Caller : place[c] \notin Ended => unwritten[c] \subseteq File
  /\ into \in [Caller -> [File \cup Other -> {"none", "torn", "whole", "old"}]]
  /\ before \in [Caller -> [File \cup Other -> {"none", "torn", "whole", "old"}]]
  /\ calls \in 0..MaxCalls
  /\ named \subseteq NucleusFile \cup Other

\* A cell that is built was reconstructed in full: every file under its hash is
\* there and whole, whatever an earlier call left of it, and a file that is not
\* of the cell is as it was.
BuiltIsWhole ==
  \A c \in Caller : place[c] = "built" =>
    /\ \A f \in Files(root[c]) : into[c][f] = "whole"
    /\ \A f \in (File \cup Other) \ Files(root[c]) : into[c][f] = before[c][f]

\* CellUnavailable is raised before anything is written.
UnavailableWritesNothing ==
  \A c \in Caller : place[c] = "unavailable" => into[c] = before[c]

\* A call gives a whole cell, or, if the hash cannot be resolved, nothing.
WholeOrNothing == BuiltIsWhole /\ UnavailableWritesNothing

\* `Fetched (pinned, so it stays local)': what a call got through pin_add, or
\* from a bundle, is pinned and stays complete for good.
FetchedStays ==
  \A c \in Caller :
    (place[c] \in {"manifest", "nucleus", "get", "built"} /\ (pinning[c] \/ car[c])) =>
      root[c] \in pins /\ Have(root[c])

\* What a caller sees of its call, and of its directory: that it looks at between
\* its calls.
SeenOf(c) ==
  CASE place[c] = "idle" -> "idle"
    [] place[c] = "built" -> "delivered"
    [] place[c] = "unavailable" -> "denied"
    [] place[c] \in {"error", "invalid", "killed"} -> "failed"
    [] OTHER -> "asked"

ShownTo(c) == IF place[c] \in Ended THEN into[c] ELSE before[c]

\* The calls that went on without a pin, the repo having it all when they looked.
Unpinned ==
  {c \in Caller : /\ place[c] \in {"manifest", "nucleus", "get", "built"}
                  /\ ~pinning[c] /\ ~car[c]}

Contract == INSTANCE Delivery WITH
  have <- {r \in Manifest : Have(r)},
  kept <- pins,
  state <- [c \in Caller |-> SeenOf(c)],
  want <- root,
  found <- Unpinned,
  view <- [c \in Caller |-> ShownTo(c)]

\* To its caller a fetch is one step: a whole cell that was in the repo or is kept
\* there from then on, a denial that touches nothing, or a failure that spoils one
\* file at most; and what is kept is not lost, whoever collects, dies or is killed.
Delivers == Contract!Spec

\* A call ends, whether or not there is a daemon, and a peer: the look on the
\* network is bounded by fetch_timeout.  A collection excepted: dag_get looks
\* for a manifest that it took, without a timeout.
CallsEnd ==
  \A c \in Caller : []<>(place[c] \in Ended \/ collected > 0)

=============================================================================
