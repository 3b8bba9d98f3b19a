------------------------------ MODULE Session ------------------------------
(***************************************************************************)
(* Sessions over a cell: Cell.session (interface.py) around                *)
(* BasicContext.home_for (cell_factory.py), for several sessions that      *)
(* overlap or follow each other, in one process or in several, and for     *)
(* `dsm clean'.                                                            *)
(*                                                                         *)
(* A cell is known by the last component of its directory's path, and by   *)
(* nothing else: two cells in directories of one name are one cell to all  *)
(* that follows.  So a session has a name here, and no cell.               *)
(*                                                                         *)
(* A home is what its files hold, and what a file holds is where it came   *)
(* from: the session whose processes wrote it, the input some session      *)
(* declared (the overlay), or Before, what was there to begin with.        *)
(***************************************************************************)
EXTENDS Naturals, FiniteSets, Functions

CONSTANTS
  Sessions,  \* each is opened at most once
  File,      \* home-relative paths
  Overlays,  \* the sets of files a policy may overlay
  Name,      \* names of cells
  Before,    \* content from before these sessions
  None       \* no such file

\* Each name has its fixed home, context.home, and here one named home, homes / name.
Own(n) == <<"home", n>>
Named(n) == <<"homes", n>>
Durable == {Own(n) : n \in Name} \cup {Named(n) : n \in Name}

\* A scratch home (tempfile.mkdtemp under sessions) is known by its session.
Home == Durable \cup Sessions

InputOf(s) == <<"input of", s>>
Content == Sessions \cup {InputOf(s) : s \in Sessions} \cup {Before}

\* Homes and contents of different kinds are told apart.
ASSUME SessionAssumption ==
  /\ Sessions \cap (Durable \cup {InputOf(s) : s \in Sessions} \cup {Before, None}) = {}
  /\ {Before, None} \cap {InputOf(s) : s \in Sessions} = {}
  /\ Before # None
  /\ Overlays \subseteq SUBSET File

Policy == {"Inherit", "Ephemeral", "Persistent", "FromSnapshot"}

VARIABLES
  dirs,     \* the homes that exist
  holds,    \* holds[h][f]: what file f of home h holds, or None
  sealed,   \* the homes with a read-only directory in them
  cleaned,  \* the names whose fixed home was cleaned (bounded to one `dsm clean')
  name,     \* the name of each session's cell
  at,       \* its program counter
  policy,   \* its home policy
  overlay,  \* the files it overlays
  source,   \* the home a FromSnapshot session starts from
  todo,     \* the files it has yet to copy or to overlay
  up,       \* are the processes that setup brought up running?
  saw       \* what the home held when they came up (Blank while they are not)

session == <<name, at, policy, overlay, source, todo, up, saw>>
vars == <<dirs, holds, sealed, cleaned, name, at, policy, overlay, source,
          todo, up, saw>>

-----------------------------------------------------------------------------

Blank == [f \in File |-> None]

Scratch(s) == policy[s] \in {"Ephemeral", "FromSnapshot"}

\* Mutant: a session is given the cell's fixed home.
HomeOwn(s, p) == CASE p \in {"Inherit", "Ephemeral"} -> Own(name[s])
                   [] p = "Persistent" -> Named(name[s])
                   [] OTHER -> s

\* Mutant: a snapshot is used in place.
HomeInPlace(s, p) == CASE p = "Inherit" -> Own(name[s])
                       [] p = "Persistent" -> Named(name[s])
                       [] p = "FromSnapshot" -> source[s]
                       [] OTHER -> s

\* Mutant: all cells keep their named homes in one place.
HomeNameless(s, p) == CASE p = "Inherit" -> Own(name[s])
                        [] p = "Persistent" -> Named(CHOOSE n \in Name : TRUE)
                        [] OTHER -> s

\* home_for's match statement
HomeFor(s, p) == CASE p = "Inherit" -> Own(name[s])
                   [] p = "Persistent" -> Named(name[s])
                   [] OTHER -> s

home(s) == HomeFor(s, policy[s])

Goto(s, where) == at' = [at EXCEPT ![s] = where]

Exists(h) == h \in dirs

-----------------------------------------------------------------------------
(* home_for *)

\* Mutant: `cleanup = False' is forgotten for a named home.
DiscardedUnlessOwn(s) == policy[s] # "Inherit"

\* `cleanup' homes go when the session is over.
Discarded(s) == Scratch(s)

\* rmtree(home)
Drop(s) ==
  /\ dirs' = IF Discarded(s) THEN dirs \ {home(s)} ELSE dirs
  /\ holds' = IF Discarded(s) THEN [holds EXCEPT ![home(s)] = Blank] ELSE holds

\* mkdtemp, or mkdir(parents=True, exist_ok=True), and the home's subdirs
Open(s, p, over) ==
  /\ at[s] = "idle"
  /\ policy' = [policy EXCEPT ![s] = p]
  /\ overlay' = [overlay EXCEPT ![s] = over]
  /\ dirs' = dirs \cup {HomeFor(s, p)}
  /\ UNCHANGED <<holds, sealed, cleaned, name, up, saw>>

Begin(s) ==
  \E p \in Policy \ {"FromSnapshot"}, over \in Overlays :
    /\ Open(s, p, over)
    /\ todo' = [todo EXCEPT ![s] = over]
    /\ Goto(s, "overlay")
    /\ UNCHANGED source

BeginSnapshot(s) ==
  \E from \in Durable, over \in Overlays :
    /\ Exists(from)
    /\ Open(s, "FromSnapshot", over)
    /\ source' = [source EXCEPT ![s] = from]
    /\ todo' = [todo EXCEPT ![s] = File]
    /\ Goto(s, "copy")

\* A snapshot source that does not exist: CellUnavailable, and no home is made.
NoSnapshot(s) ==
  \E from \in Durable :
    /\ at[s] = "idle"
    /\ ~Exists(from)
    /\ Goto(s, "unavailable")
    /\ UNCHANGED <<dirs, holds, sealed, cleaned, name, policy, overlay, source, todo, up, saw>>

\* copytree(source, home): file by file, while the source is in use.  It copies the
\* modes of directories too.
CopyFile(s) ==
  /\ at[s] = "copy"
  /\ Exists(source[s])
  /\ \E f \in todo[s] :
       /\ holds' = [holds EXCEPT ![s][f] = holds[source[s]][f]]
       /\ todo' = [todo EXCEPT ![s] = @ \ {f}]
  /\ sealed' = IF source[s] \in sealed THEN sealed \cup {s} ELSE sealed
  /\ UNCHANGED <<dirs, cleaned, name, at, policy, overlay, source, up, saw>>

\* The source was cleaned away: copytree raises, outside of home_for's try.
CopyFails(s) ==
  /\ at[s] = "copy" /\ todo[s] # {}
  /\ ~Exists(source[s])
  /\ Goto(s, "left")
  /\ todo' = [todo EXCEPT ![s] = {}]
  /\ UNCHANGED <<dirs, holds, sealed, cleaned, name, policy, overlay, source, up, saw>>

Copied(s) ==
  /\ at[s] = "copy" /\ todo[s] = {}
  /\ todo' = [todo EXCEPT ![s] = overlay[s]]
  /\ Goto(s, "overlay")
  /\ UNCHANGED <<dirs, holds, sealed, cleaned, name, policy, overlay, source, up, saw>>

\* Mutant: an input that is not there is passed over.
PlaceOrSkip(s) ==
  /\ at[s] = "overlay"
  /\ \E f \in todo[s] :
       /\ holds' \in {holds, [holds EXCEPT ![home(s)][f] = InputOf(s)]}
       /\ todo' = [todo EXCEPT ![s] = @ \ {f}]
  /\ dirs' = dirs \cup {home(s)}
  /\ UNCHANGED <<sealed, cleaned, name, at, policy, overlay, source, up, saw>>

\* src.exists(), dest.parent.mkdir(parents=True) and copy2
PlaceInput(s) ==
  /\ at[s] = "overlay"
  /\ \E f \in todo[s] :
       /\ holds' = [holds EXCEPT ![home(s)][f] = InputOf(s)]
       /\ todo' = [todo EXCEPT ![s] = @ \ {f}]
  /\ dirs' = dirs \cup {home(s)}
  /\ UNCHANGED <<sealed, cleaned, name, at, policy, overlay, source, up, saw>>

\* A declared input is not there: CellUnavailable, again outside of the try; or it cannot
\* be copied, for instance into a directory that is read-only.
MissingInput(s) ==
  /\ at[s] = "overlay" /\ todo[s] # {}
  /\ Goto(s, "left")
  /\ todo' = [todo EXCEPT ![s] = {}]
  /\ UNCHANGED <<dirs, holds, sealed, cleaned, name, policy, overlay, source, up, saw>>

-----------------------------------------------------------------------------
(* Cell.session *)

SetUp(s) ==
  /\ at[s] = "overlay" /\ todo[s] = {}
  /\ up' = [up EXCEPT ![s] = TRUE]
  /\ saw' = [saw EXCEPT ![s] = holds[home(s)]]
  /\ Goto(s, "live")
  /\ UNCHANGED <<dirs, holds, sealed, cleaned, name, policy, overlay, source, todo>>

\* Mutant: setup runs before home_for's try, like the overlay.
SetUpFailsEarly(s) ==
  /\ at[s] = "overlay" /\ todo[s] = {}
  /\ Goto(s, "over")
  /\ UNCHANGED <<dirs, holds, sealed, cleaned, name, policy, overlay, source, todo, up, saw>>

\* setup raises: there is no teardown of what it may have brought up, but
\* home_for's finally.
SetUpFails(s) ==
  /\ at[s] = "overlay" /\ todo[s] = {}
  /\ \/ UNCHANGED <<up, saw>>
     \/ /\ up' = [up EXCEPT ![s] = TRUE]
        /\ saw' = [saw EXCEPT ![s] = holds[home(s)]]
  /\ Goto(s, "remove")
  /\ UNCHANGED <<dirs, holds, sealed, cleaned, name, policy, overlay, source, todo>>

\* The processes write where their HOME points, also once their session's
\* own process is dead.
Write(s) ==
  /\ up[s] /\ Exists(home(s))
  /\ \E f \in File : holds' = [holds EXCEPT ![home(s)][f] = s]
  /\ UNCHANGED <<dirs, sealed, cleaned, session>>

\* They make a directory read-only: what is copied from the nix store is, and so are
\* the caches of some tools (bounded to one at a time).
Seal(s) ==
  /\ up[s] /\ Exists(home(s))
  /\ sealed = {}
  /\ sealed' = {home(s)}
  /\ UNCHANGED <<dirs, holds, cleaned, session>>

\* The block ends or raises: teardown, in a finally of its own.
TearDown(s) ==
  /\ at[s] = "live"
  /\ up' = [up EXCEPT ![s] = FALSE]
  /\ saw' = [saw EXCEPT ![s] = Blank]
  /\ Goto(s, "remove")
  /\ UNCHANGED <<dirs, holds, sealed, cleaned, name, policy, overlay, source, todo>>

\* teardown raises, and leaves processes behind.
TearDownFails(s) ==
  /\ at[s] = "live"
  /\ Goto(s, "remove")
  /\ UNCHANGED <<dirs, holds, sealed, cleaned, name, policy, overlay, source, todo, up, saw>>

Remove(s) ==
  /\ at[s] = "remove"
  /\ Discarded(s) => home(s) \notin sealed
  /\ Drop(s)
  /\ Goto(s, "over")
  /\ UNCHANGED <<sealed, cleaned, name, policy, overlay, source, todo, up, saw>>

\* rmtree(ignore_errors=True) of a home whose processes go on writing, or from which a
\* directory that is read-only cannot be taken: what stays is left, and nobody is told.
\* (How much of it stays is not told apart: no session comes to it again.)
RemovePartly(s) ==
  /\ at[s] = "remove" /\ Discarded(s)
  /\ up[s] \/ home(s) \in sealed
  /\ Goto(s, "over")
  /\ UNCHANGED <<dirs, holds, sealed, cleaned, name, policy, overlay, source, todo, up, saw>>

\* The Python process is killed: no finally runs.
Crash(s) ==
  /\ at[s] \in {"copy", "overlay", "live", "remove"}
  /\ Goto(s, "crashed")
  /\ todo' = [todo EXCEPT ![s] = {}]
  /\ UNCHANGED <<dirs, holds, sealed, cleaned, name, policy, overlay, source, up, saw>>

-----------------------------------------------------------------------------

\* Mutant: the cell's whole directory goes.
CleanEverything(ns) ==
  /\ cleaned = {}
  /\ cleaned' = ns
  /\ dirs' = dirs \ {h \in Durable : h[2] \in ns}
  /\ holds' = [h \in Home |-> IF h \in dirs' THEN holds[h] ELSE Blank]
  /\ sealed' = sealed \cap dirs'
  /\ UNCHANGED session

\* clean_cell_home, of one name, and clean_all_cell_homes, of all there are:
\* the fixed homes go, whoever uses them, and what is read-only in them is made writable
\* first (_force_rmtree).  Session homes lie beside and stay.
Clean(ns) ==
  /\ cleaned = {}
  /\ \A n \in ns : Exists(Own(n))
  /\ cleaned' = ns
  /\ dirs' = dirs \ {Own(n) : n \in ns}
  /\ holds' = [h \in Home |-> IF h \in {Own(n) : n \in ns} THEN Blank ELSE holds[h]]
  /\ sealed' = sealed \ {Own(n) : n \in ns}
  /\ UNCHANGED session

\* A cell that was built has its fixed home; the named ones may be there.
Init ==
  /\ name \in [Sessions -> Name]
  /\ LET own == {Own(n) : n \in Range(name)}
     IN dirs \in {own, own \cup {Named(n) : n \in Range(name)}}
  /\ holds = [h \in Home |-> [f \in File |-> IF h \in dirs THEN Before ELSE None]]
  /\ sealed = {}
  /\ cleaned = {}
  /\ at = [s \in Sessions |-> "idle"]
  /\ policy = [s \in Sessions |-> "Ephemeral"]
  /\ overlay = [s \in Sessions |-> {}]
  /\ source = [s \in Sessions |-> Own(name[s])]
  /\ todo = [s \in Sessions |-> {}]
  /\ up = [s \in Sessions |-> FALSE]
  /\ saw = [s \in Sessions |-> Blank]

Step(s) ==
  \/ Begin(s) \/ BeginSnapshot(s) \/ NoSnapshot(s) \/ CopyFile(s) \/ CopyFails(s)
  \/ Copied(s) \/ PlaceInput(s) \/ MissingInput(s) \/ SetUp(s)
  \/ SetUpFails(s) \/ Write(s) \/ Seal(s) \/ TearDown(s) \/ TearDownFails(s)
  \/ Remove(s) \/ RemovePartly(s) \/ Crash(s)

Next ==
  \/ \E s \in Sessions : Step(s)
  \/ \E n \in Name : Clean({n})
  \/ Clean({n \in Name : Exists(Own(n))})

Spec == Init /\ [][Next]_vars

-----------------------------------------------------------------------------
(* Properties *)

Pc == {"idle", "copy", "overlay", "live", "remove", "over", "left", "unavailable",
       "crashed"}

\* Types; a home that does not exist holds nothing.
TypeOK ==
  /\ dirs \subseteq Home
  /\ holds \in [Home -> [File -> Content \cup {None}]]
  /\ \A h \in Home \ dirs : holds[h] = Blank
  /\ sealed \subseteq dirs
  /\ cleaned \subseteq Name
  /\ name \in [Sessions -> Name]
  /\ at \in [Sessions -> Pc]
  /\ policy \in [Sessions -> Policy]
  /\ overlay \in [Sessions -> Overlays \cup {{}}]
  /\ source \in [Sessions -> Durable]
  /\ todo \in [Sessions -> SUBSET File]
  /\ up \in [Sessions -> BOOLEAN]
  /\ saw \in [Sessions -> [File -> Content \cup {None}]]

\* Which homes a session is meant to use, by its policy.
Uses(s, h) == CASE h = Own(name[s]) -> policy[s] = "Inherit"
                [] h = Named(name[s]) -> policy[s] = "Persistent"
                [] OTHER -> h = s /\ Scratch(s)

\* What a session writes stays in its home, and in copies somebody took of it:
\* in particular a snapshot is a copy, its source is not written; and sessions
\* of two cells meet in no home but where the cells are of one name.
WritesStayHome ==
  \A h \in Home : \A s \in Range(holds[h]) \cap Sessions :
    Uses(s, h) \/ (h \in Sessions /\ policy[h] = "FromSnapshot" /\ Uses(s, source[h]))

\* `Left-over state cannot leak into a run': the processes of an ephemeral
\* session come up in a home that holds the inputs it declared, all of them, and
\* nothing else, whatever other sessions ran before or run meanwhile.
ComesUpClean ==
  \A s \in Sessions : (up[s] /\ policy[s] = "Ephemeral") =>
    saw[s] = [f \in File |-> IF f \in overlay[s] THEN InputOf(s) ELSE None]

\* Sessions are kept apart, in what they find and in what they leave.
Hermetic == ComesUpClean /\ WritesStayHome

\* What another session has put into a file of the home it shares with s: its own input,
\* if it declares the file too, or what its processes wrote.
Theirs(s, f) ==
  LET others == {t \in Sessions \ {s} : at[t] # "idle" /\ home(t) = home(s)}
  IN others \cup {InputOf(t) : t \in {u \in others : f \in overlay[u]}}

\* A declared input is there or the session does not start, over whatever the home
\* held before, a snapshot's copy or the fixed home's.  Only another session of the same
\* home can replace it, by its own input for the file or by writing to it, and only
\* `dsm clean' can take it away, from the fixed home.
DeclaredOrLoud ==
  \A s \in Sessions : up[s] =>
    \A f \in overlay[s] :
      \/ saw[s][f] \in {InputOf(s)} \cup Theirs(s, f)
      \/ saw[s][f] = None /\ policy[s] = "Inherit" /\ name[s] \in cleaned

\* While a session is live its home is there, unless it is the fixed one and
\* that of its own cell's name was cleaned away.
LiveHasHome ==
  \A s \in Sessions : at[s] = "live" =>
    Exists(home(s)) \/ (policy[s] = "Inherit" /\ name[s] \in cleaned)

\* A scratch home is gone when its session is over, however the block ended, unless
\* processes that teardown failed to stop write to it, or there is a read-only directory
\* in it.
ScratchDiscarded ==
  \A s \in Sessions :
    (at[s] = "over" /\ Scratch(s) /\ Exists(s)) => up[s] \/ s \in sealed

\* A named home `survives teardown and accumulates': no step takes a file from it.
NamedAccumulates ==
  [][\A n \in Name, f \in File :
       holds[Named(n)][f] # None => holds'[Named(n)][f] # None]_holds

\* A home is there for as long as its session needs it, a scratch home no longer, a
\* named one for good.
HomesLiveAndDie == [](LiveHasHome /\ ScratchDiscarded) /\ NamedAccumulates

=============================================================================
