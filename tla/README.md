# A formal model of desmata

desmata (`src/src/desmata`) is a Python program, `dsm`, that builds, runs, publishes and
fetches *cells*: directories whose content is addressed by ipfs, whose recipe is a nix
flake, and whose behaviour is witnessed in signed claims ("brushstrokes").  This directory
holds TLA+ models of its stateful parts, the TLC configurations that check them, and
theorems with TLAPS proofs.  `PROJECT.json` lists every run, mutant, hazard and theorem,
and, for each definition, the lines of the source it stands for.

    tlc -workers 2 -config Internalize.cfg MCInternalize.tla     # a run
    tlapm InternalizeProofs.tla                                  # a proof

## 1. The system

What runs: `dsm` commands (each a process of one user; nothing stops two at a time), the
kubo daemons they spawn, nix, wasmtime, and a Semantic Paint node somewhere else.  They
share the nix store, the ipfs repos, the userspace directory (`homes`, `by_id`, `by_hash`,
`provenance`, the outbox, the peer's key) and the cell directories, mostly without locks.
So nearly every hard case is one of four: two processes in one directory; a process killed
between two writes; something read, checked, and read again; an existing file or directory
taken for a complete one.

| Part | State | Operations | Module |
|---|---|---|---|
| dependency walk (`nix.py`, `builtins/cell.py`) | deque, processed set, deps_by_id | `Nix.dep_dags`, the loop of `IPFS.build_or_get` over it | `DepDag` |
| closure transport (`transport.py`) | a CAR file and its manifest; two nix stores; ipfs blocks | export, import, acquire locally or over ssh | `Transport` |
| internalization (`cell_factory.py`, `fs.py`) | `by_id/<id>`, `by_hash/<h>`, shared inodes | `internalize_ids_hashes`, `create_hard_links` | `Internalize` |
| ipfs daemon (`serve.py`, `builtins/cell.py`) | repo config, lock, `api` file, daemons | `spawn_daemon`, `wait_ready`, `shutdown`, `serve_forever`, `isolate`, setup/teardown | `Serve` |
| publishing (`cell_archive.py`) | a directory, pins, manifests | `publish_cell` and all it calls | `Publish`, `Publication` |
| fetching (`cell_archive.py`) | a repo, its pins, a target directory, peers | `from_hash`, `unpack_cell`, `_ensure_available` | `Fetch`, `Delivery` |
| sessions and homes (`session.py`, `interface.py`, `cell_factory.py`, `bootstrap.py`) | homes and what they hold | `Cell.session`, `home_for`, `dsm clean` | `Session` |
| artifacts (`artifact.py`, `cell_factory.get`, `provenance.py`) | pins, blobs, claims | `build_or_get`, `get`, `save_brushstrokes` | `Realize` |
| witnessing, painting (`paint.py`, `provenance.py`, `keys.py`) | ledger, outbox, key, the node | `witnessed_call`, `dsm paint` | `Paint` |
| codecs (`wave.py`, `wit.py`) | none: functions | `encode`, `decode`, `canonical_signature` | `Wave`, `Wit` |
| documentation search (`docs/search.js`, the script in `docs/desmata.html`) | the URL's term, whether the index has come, what the page shows | building the index, `search`, `initialize`, `onInput`, the listeners | `DocsSearch` |

How they interact: the factory's `get` walks and internalizes dependencies (DepDag,
Internalize) and realizes artifacts (Realize); a session (Session) of a cell that has ipfs
starts a daemon (Serve); published cells (Publish) are what others fetch (Fetch), and
export/import (Transport) moves what the walk is over; calls and builds leave claims, and
`dsm paint` signs and ships them (Paint) in the texts of Wave and Wit.  What Fetch takes of its
environment, that a peer has all of a cell or nothing, is what Publish promises
(`PublishedSurvives`: a root that was handed out is pinned with all below it).  The
documentation is generated from the program and talks to none of it.

`PROJECT.json` also lists the parts that are not modelled, with the reason for each:
`invoke.py`, git and ssh (one subprocess each, no state); configuration, logging, the
database, reports, the samples and the nushell plugin (no logic of their own, or none that
lasts).  Of the cell factory, the command line and the provenance records the parts that
change state are in the modules of those they call.

## 2. The models

A variable is a piece of the state above, or a local of a call that lives across a step
others can see.  An action is a step between two points where another process can look: a
file system operation, a subprocess, a request.  A content address stands for the content
it is of (hashing is injective); files are names with one of a few contents; a torn or half
written file is a content of its own.  `Mutant:` definitions are plausible bugs; every
property is known to be violated when its mutant replaces the definition after it.

**DepDag.**  `Turn` is one turn of the `while`, with the tree it yields and the consumer's
`Register`; `Fallback` is what follows the loop.  Sets are iterated in any order (`Orders`).
A path with a reference to itself is never ready: `Stuck` is what lies at or above one.

**Toposort** is what the walk promises, with the deque left out: paths are emitted one at a time,
each after all it refers to; when none may be emitted, the root is, and that is the end.
`DepDag` implements it (`Promise == INSTANCE Toposort`, `emitted` the trees yielded, `done`
when the walk stopped): a turn of the loop *is* an `Emit`, so no turn is spent on a path
that was popped too early or twice, and `Fallback` is a `Finish`.

**Transport.**  Peer A orders a closure (`OrderRound`), and writes a CAR (`OpenCar`,
`CarWritten`, or cut by `CrashExport`); importers at B load and replay it entry by entry
(`ImportPath`, `RefusePath`), die, start over, and race nix's collector (`Collect`).

**Internalize.**  One process per caller; the three ways to fill `by_id` (hard link, the
copy after a failed link, copytree) are chosen in `Init` and explored all.  `inode[f]`
is what the file shared by both directories holds.  `Contends` remembers that calls
overlapped, `kills` that one was killed.

**Serve.**  kubo's lock and `api` file are its environment: a daemon starts, fails, serves,
obeys SIGTERM, or crashes and leaves the file.  The repo is that of a Persistent home, which
sessions make and isolate, or the peer's own, which any dsm process makes when it gets the
builtin cell (`LookForRepo`, `CreateRepo`, or `FromPeer` for one bootstrapped from a peer) before it
serves or opens a session with Inherit.  `blame` remembers kills and overlapping use.  A ^C may come
at any step of a process (`Interrupt`) and reaches its daemon too; `Caught` says where the code goes
on to shut the daemon down, which is not everywhere.

**Publish.**  Each read of a file or manifest is a step; the author may edit, remove or
restore a file between any two, and the repo may be collected before the pin.

**Publication** is what publish_cell promises, with its reads left out: while the author edits, a cell
comes into being in one step and stays.  Everything in it was in the directory at some time since
the call (perhaps never all at once); so was a manifest with all it pins; and a file that was there
all along is on the side of the nucleus, or of the membrane, that a declaration the directory had
since the call puts it on.  `Publish` implements it (`Promise == INSTANCE Publication`, `held` what was
`seen`, and `cell` empty until the pin): this is all that is left of exactness when the author edits, and
it holds for any number of edits.

**Session.**  `home_for`'s four policies, file by file, with overlays, failing setups and
teardowns, crashes, inputs that are missing or cannot be copied, directories that a session's
processes leave read-only (`Seal`), and `dsm clean` of one cell or of all.  A cell is its name, the last component of its directory's path (`_pick_name`): sessions of one name share
its homes, whatever cells they are of, and sessions of two names share nothing.

**Fetch.**  Looking locally, connecting, pinning block by block, timing out, reading the
manifests and writing the files; daemons stop or die (with or without the api file), a peer
comes and goes, a bundle may be cut.  A hash that was not made by `publish_cell` may lack a
nucleus file; `require_nucleus` then refuses the cell (`IncompleteNucleus`), unless the directory was
used before and has the file of an earlier cell.  (`place` is a caller's program counter, `unwritten` what
unpack_cell has yet to write: two modules one proof is about name their parts differently.)

**Delivery** is what from_hash promises its caller, with commands, daemon and peers left out.  A call
delivers the whole cell in one step, and only if the repo had it all when asked (`Find`) or keeps it
from then on; or it denies it (`CellUnavailable`) and touches nothing; or it fails, or is killed, and
leaves every file as it was or whole but for one that may be torn.  What the repo keeps it keeps, and
whole.  `Fetch` implements it (`Contract == INSTANCE Delivery`): a caller's directory is what it was before
the call until the call ends (`ShownTo`), and a call that went on without a pin has `found` the cell.

**Realize.**  `get` takes the declared artifacts one by one: pin, look, `nix build`, compare,
copy (emptying the file first), mint, rehash; then saves all claims.  The author edits recipe,
manifest or blobs in between; builds fail and processes are killed.

**Paint.**  Calls read their argument (inline, or a blob of the outbox or of a node, named by its
hash), stash blobs and write claims, paints load or make the key, ship blobs, load claims, sign
and publish.  There are several nodes: a paint goes to one (`NodeOf`), and `--fetch-from` names
any (`FetchArg`).  All file writes are a truncation and a write.  How a process that is over ended is
kept only where a property asks (a paint that is done or that failed).

**Wave, Wit.**  The parser is the source's, reader by reader, over symbols; the renderer is
the source's over tables of types.  Their state machines only produce inputs: a text
damaged on its way, a world that grows.

**DocsSearch.**  `searchIndex` is what search.js builds: for each field the items by the tokens that
elasticlunr's tokenizer and trimmer make (`search.js:2` is elasticlunr, minified).  A trie is given as its
entries, and as all calls of addDoc leave it, since nobody looks at it before and none of them takes
anything away.  `search` is OR
over the term's tokens, each expanded to the indexed words it begins.  The page's state is
the term in its URL, whether the index came, and what it shows, with the focused result.  A
handler is one action, as JavaScript runs one to its end.  `Back` (the history's other entries) may
come at any time, before anybody asked for the index too.

## 3. The runs

Bounds are in the `.cfg` files.  "q" = the properties hold only of what the words quiet,
alone, orderly say; section 5 has what happens otherwise.

| Run | Instance | States | What it shows |
|---|---|---|---|
| dep_dag | every graph on 4 paths, every set order | 4 444 | leaves first, root last, nothing twice, no failed lookup; left out is exactly what is stuck; it implements Toposort, fairness included |
| dep_dag_doc | the same | - | the docstring's promise fails below a self-reference |
| transport | 4 paths (a chain with self-references, a diamond), 2 roots sharing a library, 2 importers | 480 k | no entry is refused but for the collector; a returned import has its closure; a replay is in order with every NAR there |
| internalize | 2 processes, 2 files, 3 ways to fill, 1 kill | 658 k | alone: returns the whole dependency (q); races leave both directories done if nothing is killed; no promised content is ever taken; every call ends |
| internalize_crash | 1 process, 1 kill | - | a run after a kill returns the address of a fragment |
| serve | 2 sessions over a home, or a session and a `dsm serve` over the peer's repo, 2 daemons, 2 settings, 2 polls | 269 k | bootstrapping again fails only against another that bootstraps; ready means served and fresh repos are isolated (q); no process that returns or fails leaves a daemon, nor does `dsm serve` at one ^C; waiting and shutting down end |
| publish | 4 files in 3 versions, any directory, 2 edits | 137 k | exact if quiet; a clean nucleus/membrane cut while the declaration stays; pinned for good; it implements Publication, one step of its caller's; it ends |
| session | 2 sessions of 1 name or of 2, 2 files, 4 policies each, overlays of no file or of both, 1 read-only home, 1 clean | 2.4 M | ephemeral sessions find what they declared and nothing else, no session lacks a declared input, all write only their home, and homes go when they should |
| fetch | 2 callers, 2 calls, 1+1 files, 1 daemon, 1 collection | 832 k | all of a cell or nothing; fetched stays; it implements Delivery, one step of its caller's; calls end unless a collection interferes |
| realize | 2 builders, 2 artifacts, 2 recipes, 3 manifests, 1 edit, 1 kill | 2.9 M | a realized cell is the pinned one, claims are true, what was built is attested (q) |
| paint | 2 callers, 2 painters of one node, another node that has the value, 1 value made by one call and taken by another, 2 mintings, 1 crash | 1.6 M | the ledger is backed by the outbox; a quiet paint is complete but for what was fetched from the other node, exact, and publishes no claim of a fragment; one signer (q) |
| codec | some 280 values, every text one symbol away; every table of 2 types, 2 exports; 4 documented items, every beginning of their names typed | 189 k | encoding and decoding are inverse; texts are read whole or not at all; a type has a text iff supported, and its own; the search page shows the hits of its term, and names are found |

Why the bounds are enough to be of use.  Two processes are what it takes for every pairwise
race, and the code has no step that involves three.  One kill gives every place a call can
stop at and a later, whole call; one edit gives every place between two reads.  Two files
(or artifacts, or dependencies) are what it takes to stop between the first and the last.
Four paths hold every shape that matters to the walk: chain, diamond, several leaves, a
self-reference below, at or beside the root.  An overlay of one file of two would add nothing to
Session: no step looks at two files, and an overlay is placed file by file.  Two nodes are the one
a paint goes to and the one an argument is fetched from, which has it from another peer.  The four items of the
search have a module, a class, a method and a function between them, words that elasticlunr drops
unless told not to, and words that are cut at a separator or are not.  For all but the two codecs
the theorems remove the bounds from the safety properties.  Serve's two daemons let each caller be mistaken
about a stale one, its own of an earlier run, or a foreign one, the other caller's.  In Realize one artifact depends on the recipe's
version and one does not.  The mutants of `PROJECT.json` show that each property can fail at
these bounds.

Several configurations say `CHECK_DEADLOCK FALSE`: DepDag, Publish, Session, Fetch, Paint and
the codecs really stop (a walk or a call is over, nothing is left to do).

## 4. Fairness

Liveness is stated under weak fairness of the code's own steps only.  DepDag: its one
thread.  Internalize: the steps of each process that is not killed.  Serve: the steps of
each caller; nothing is asked of kubo, so the deadline, the grace and the kill are what ends
them.  Publish: the publishing process, not its author.  Fetch: each caller, and the
subprocess timeout, which the operating system provides; a peer owes nothing.

## 5. What the conditions leave out, and why

These are things the code does.  Where a property has a condition, one of them is why.

- **A half-filled `by_id`** (run internalize_crash; `cell_factory.py:210`).  The code takes a
  directory that exists for complete, so it needs `kills = 0 /\ ~contended`.
- **A closure with a self-reference** (run dep_dag_doc; `nix.py:209`).  The walk leaves out
  every path at or above it and yields the root with the dependencies it has.
- **A stale or foreign api file** (`serve.py:74`).  `wait_ready` takes any api file in the repo
  for its daemon's; hence `blame = {}`.
- **A session that dies inside `isolate`** (`builtins/cell.py:323`) leaves a config, and the next
  session takes the repo for isolated; hence `NeverPublicWhenOrderly`.
- **An edit during a publish** (`cell_archive.py:409-410`).  What was verified is read again when
  it is added, so a blob its nucleus disowns can be published; hence `edits = 0`.
- **^C where nothing catches it.**  `dsm serve` survives one at any time.  But in the wait of
  `shutdown` (`serve.py:86-90`) only `TimeoutExpired` is caught: a ^C there (for `dsm serve` the second
  one) skips `kill()`, and so does one in a session's setup, which no try encloses
  (`builtins/cell.py:315-327`).  The process ends, and a daemon that was told to stop and does not
  is left running; `Reaped` allows just that.
- **A missing overlay input or failing copytree** (`cell_factory.py:138-153`) raises before
  `home_for`'s try: the scratch home stays.  `HomesLiveAndDie` is about homes that were yielded.
- **A read-only directory in a scratch home** (`cell_factory.py:159`): `rmtree(ignore_errors=True)`
  leaves it, and nobody is told, where `dsm clean` makes directories writable first
  (`bootstrap.py:98-111`).  `HomesLiveAndDie` excepts such homes, and those a process still writes to.
- **Two sessions in one home** (`cell_factory.py:153`) may replace each other's declared inputs.
  `DeclaredOrLoud` says what a session may find in place of its own: the other's input for the same
  file, if it declares it, or what its processes wrote.  `dsm clean` of the fixed home may take one away.
- **A daemon that stops after the look for its api file** (`cell_archive.py:259-266`) makes
  `pin_add` raise `CalledProcessError` where `CellUnavailable` is documented.
- **A collection between the look and `dag_get`** (`cell_archive.py:326`): `dag_get` is neither
  offline nor bounded by a timeout; `CallsEnd` excepts it.
- **A call during a paint** (`cli/dsm.py:432`): its claim may be published without its blobs.
  **A blob torn by a crash** is never written again, since it exists (`paint.py:149`), and a call
  that takes it as its argument mints a claim that is not of the value at the hash
  (`paint.py:210`); only the refusal of the node to take the blob holds that claim back.  **Two
  first paints at once** make two keys (`keys.py:61`).  Hence the quiet and alone of Paint.
- **An argument fetched from one node, a paint to another** (`cli/dsm.py:587`, `paint.py:211-213`): what
  `--fetch-from` brings is not stashed, so the painted node gets a claim that refers to an argument it
  may not have.  `PaintIsExact` excepts these arguments, unless the outbox came to have them.
- **An edit during a build** (`artifact.py:111`): the nucleus is hashed after the build, so the
  claim may be of a nucleus that builds something else.  **A failure or kill after a build**
  (`cell_factory.py:408`) loses the artifact's claim for good: its blob is now true and is not
  built again.  **Overlapping gets** may hash each other's half copied blob, and hand it out
  with a hash that is not the pin; when all have ended the blob is right (`OverlapSettles`).
- **Two processes that bootstrap at once** (`builtins/cell.py:230`): both find no repo, and the
  second `ipfs init` fails, and with it whatever command it was part of, though the comment
  above it says that re-bootstrapping "must not fail just because ipfs is already initialized".
  `BuildsAgain` excepts it.
- **Cells of one name** (`cell_factory.py:302`, a stated TODO) share homes; what Hermetic says of
  two sessions it says of two names.
- **`-inf`**: `encode` writes it and `decode` raises (`wave.py:199`): a result that holds it is not
  read as anything else, but it is not read.  `decode` also takes `[1 2]` and `[1-2]` for lists
  of two, and raises `IndexError` and not `ValueError` for a text that ends in a backslash.
- **Forward to a term after a reload without one** (`docs/desmata.html:123`) shows `Searching` with nobody
  asking for the index, until the box gets the focus; `ShownIsCurrent` allows it before the index was
  asked for.
- **An arrow key where nothing is listed** (`docs/desmata.html:233`) raises a `TypeError` in the
  handler, and changes nothing.

## 6. The proofs

Proved for every value of the constants, by `tlapm`.  Each module has for each component an inductive
invariant (`IInv`, or a name of the component's: `WalkIInv`, `FetchInv`, `SearchInv`) that TLC checked on
the run's instance before it was proved; a named part of it is
one thing the code relies on.  Lemmas called `...Moves` say what one action reads and changes,
for the process that takes it and for the others; the lemmas called `...Step` have one step for
each action, and most cite only those.

- **ClosureProofs**, the walk - from `DepDagAssumption` (finitely many paths).  `WalkIInv` says what the
  deque knows: everything in it is unprocessed and ready, once (`WalkInv`); what was yielded is
  what was processed, in order, with its children registered (`YieldInv`).  `YieldOrder` is
  not inductive without it, since the order of yields comes from readiness when a path was
  queued, and not when it is taken.  `OmitsStuck` needs more: when the deque is dry, a set
  of unprocessed paths in which each has an unprocessed reference is exactly `Stuck`.
  `ImplementsToposort`: a turn takes a path that the invariant says is ready (`TurnEmits`); with the
  deque dry, no unprocessed path is ready, so the fallback is a `Finish` (`FallbackFinishes`); the
  third step is a stutter.
- **ClosureProofs**, transport - from the assumptions on graphs and targets.  `ExportInv`: what was
  ordered so far is closed under references, the rest is still to come.  `ImporterInv`: the
  part of the manifest an importer has replayed is in B's store, unless it was collected.
  From these, a refused entry has a collection behind it, and a returned import has its closure.
- **InternalizeProofs** - any number of processes and files, at any step killed.  `Knows` ties
  the address a process is about to use to the inodes; with it `SharedStaysWhole` is
  inductive.  For runs without a kill, `FillInv` and `HashInv` say that the process that
  placed the last file holds nothing that could make it raise before it says so:
  `SurvivorsComplete`.  `ReturnsComplete` is about calls in turn: `TurnsInv` says that one is under
  way at most, that it has the directory whole before it from the moment it hashes, and that
  what it hashes is the whole dependency; that nothing is left torn for it comes from the
  invariant for runs without a kill.  `NothingLost` is an action property from the same invariant.
- **ServeProofs** - any number of processes, daemons, settings and polls; from `ServeAssumption`.
  `Reaped` needs to know which daemon is a process's own at each place (`Sound`), and that `dsm serve`
  shuts down for a ^C only after one ^C (`hits`); `BuildsAgain` that
  whoever finds a repo it did not find before has another process on record (`Recorded`).
  `ReadyWhenOrderly` and `NeverPublicWhenOrderly` rest on `Alone`: while nothing was killed and
  nobody overlapped, a daemon that is up is that of the one process at work.  The latter also on
  `IsolatedFirst`: a repo that is there has all settings, or somebody is about to give it the rest.
- **SessionProofs** - any sessions, names, files and overlays; from `SessionAssumption` (homes and
  contents of different kinds are told apart).  `Known`: a session that has not begun left no trace
  anywhere, so whatever is found in a home has a user of that home behind it.  `Filled`: what an
  ephemeral home holds while the overlay is placed is what was placed so far, exactly.  `May` is what a
  file of an overlay may hold once it is placed, its own input or what a sharer put there, and is not
  shrunk by any step (`MayStays`): `DeclaredOrLoud`.  A scratch home that is not sealed, and that
  no process writes to, goes with its session.  The part of
  `HomesLiveAndDie` about steps (a named home only grows) is proved of each action that writes.
- **ArchiveProofs**, publishing - any directory, author, and any number of edits; from
  `PublishAssumption` (a
  manifest pins files by contents).  `PublishedSurvives` takes only `PinInv`: the pin is the last
  step.  `StillInv` is the program annotated, for a directory nobody edits: what each step leaves
  behind, and why it refuses.  `CutInv` is the same for the names only, where just the declaration
  stays; it rests on `SeenInv`, that what was seen of a file includes what it now holds.
  `ImplementsPublication` is about a directory that is edited.  `OnceInv` collects, at each place, what
  Publication will ask for when the pin is taken: what was verified so far had the pinned content
  some time since the call, some declaration since the call is the one the nucleus was listed by,
  another the one the membrane was.  That is safe to remember because what was seen of a file only
  grows (`Remembering`).  Every step but the call, the edits, the refusals and the pin is a stutter.
- **ArchiveProofs**, fetching - any number of callers, calls, cells and files, with kills, a collection,
  daemons and peers that come and go; from `FetchAssumption`.  `FetchedStays` is inductive with
  `PinsWhole` (a root that is pinned has all below it in the repo) and `GotInv` (what a call has got is
  pinned).  `WholeOrNothing` needs `WritesInv`, the annotation of unpack_cell: at each place of a call
  the files that are not `unwritten` are whole, and those that are not the cell's are as they were
  before.  A step of one call leaves the others, and their directories, alone (`Apart`); what calls share
  is the repo, where a pin keeps what a call that ended had got.  `ImplementsDelivery` rests on the same
  invariant: a step of one call is at most one of Ask, Find, Deliver, Deny and Fail for that caller
  and nothing for the others (`ShownApart`, `ActShows`), all that resolving does is one of five
  things (`ResolveShows`), what a failure leaves follows from `WritesInv` (`FailLeaves`), and all the node and
  the network do is a `Trade`, in which what is kept stays (`KeptWhole`).
- **RealizeProofs** - any number of builders, artifacts, recipes and pins.  `FreshInv`: what a
  builder read is still so, unless someone edited since its `get`.  `AloneInv` and `ReadyInv`: a
  builder nobody disturbs leaves every blob behind it as pinned, and those that come later find
  nothing to build.  For gets that overlap, `SettledInv`: an
  artifact somebody is through with is right, or one who copies it is about to make it right,
  and a file is not removed while it is copied.  `AttestedInv`: what was built is in the ledger, or
  in the hands of a builder at work.
- **PaintProofs** - any number of callers, painters, blobs and facts; from `PaintAssumption` (a call
  has one argument by reference at most; callers and painters are different processes; each painter
  names a node; what other peers shipped are blobs on nodes).
  `BackedInv`: what a call has stashed by the place it is at, from which a claim never precedes its
  blobs; that a torn file has a writer or a kill behind it (`OpenInv`) makes it `LedgerIsBacked`.
  `QuietInv`: while no call overlaps a paint the outbox stands still, so what is not left to ship
  is whole on the paint's own node (`Shipped`) when the ledger is loaded; a blob no outbox has
  is some call's argument, and was fetched (`Fetched`), from that node or from another.  `LostInv` is why no false claim comes along: a
  claim is false only because of a blob that is torn with nobody to write it, such a blob stays
  torn (`LostStays`), and the paint that ships it fails before it loads any claim.  `SignerInv`: a
  painter alone knows what is in the key file, and with no key in it nothing was published.

- **DocsSearchProofs** - any items, fields and terms over any alphabet; from `DocsSearchAssumption`
  (finitely many items, each with a fullname; texts are sequences).  `SearchInv`: hits are what the
  search of their term finds, and what is shown is the present term's.  `SpellingFinds` is about texts:
  where one text begins another with a letter, the first piece of it, which is cut at a separator or
  at its end, begins the first piece of the other (`FirstEnd`), and what the trimmer leaves of it
  begins what it leaves of the other (`Spelled`); expanding the tokens of the term does the rest (`Indexed`).  That there is a first and a last place is had of the least member of a set of
  numbers (`Least`, `Greatest`), since an induction over texts is out of reach.

Each module proves the type invariants of its components too (`TypeCorrect`, `WalkTypeCorrect`,
`FetchTypeCorrect`; for the search it is in `SearchInv`).  Publish's and Fetch's are not checked by their runs,
which have the theorem, and PublishesAtOnce or Delivers instead.

Only model-checked: all liveness (`SortsToTheEnd`'s fairness part, `CallsEnd`, `CallersEnd`,
`PublishEnds`), which needs ENABLED and fairness; and `RoundTrip`, `WholeTextOnly`, `TextIsTheType` and
`SignatureStays` of the codecs, whose recursive definitions are over data, where induction is out of
reach of the installed provers.

## 7. What is not modelled, and the plan

Left out on purpose: modes and symbolic links; wording and logging; the canonical bytes and the
signatures of claims (identities instead); exponents and bytes in WAVE; parsing of JSON; elasticlunr's scores, and with
them which ten hits the search page lists and in what order; its branch for a prebuilt index,
which a plain array of items never takes; sub-directories of homes; the order of the parts of one
`get`, which calls itself once, for the builtins, and is sequential; narinfo and derivation records,
which are written like brushstrokes, are the same whoever writes them, and are only shown.

What is left to do, in this order:

1. Abstract specifications for more components, as `DepDag` implements `Toposort`, `Publish`
   `Publication` and `Fetch` `Delivery`: for Internalize and Paint, a store whose addresses are absent or promised and
   never broken.  `SharedStaysWhole`, `NothingLost` and `LedgerIsBacked` say most of it already.
2. Compositions, if they come to say more than their parts: `Workshop` (Publish and Realize over one
   directory, whose only shared state is what both already let an author edit), `Share` (Publish at
   one peer, Fetch at another, where Fetch's peer that has all of a cell or nothing is the theorem
   `SurvivesCollection` of Publish).
