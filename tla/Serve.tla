------------------------------- MODULE Serve -------------------------------
(***************************************************************************)
(* The ipfs daemon over one repo: serve.py (spawn_daemon, wait_ready,      *)
(* shutdown, serve_forever) and the builtin cell's session lifecycle       *)
(* (DesmataBuiltins.setup and teardown, builtins/cell.py).                 *)
(*                                                                         *)
(* Several dsm processes share the repo.  Each spawns a daemon of its own, *)
(* but takes the repo's `api' file for the sign that it serves.  kubo      *)
(* lets one daemon at a time hold the repo's lock, writes `api' once it    *)
(* serves and removes it when it ends in good order; one that is killed    *)
(* leaves the file behind.  A dsm process may be killed too, and leaves    *)
(* its daemon behind.                                                      *)
(*                                                                         *)
(* The repo is a peer's own (`dsm serve', and sessions with Inherit), and  *)
(* then every dsm process gets the builtin cell first, whose build_or_get  *)
(* makes it, keys and all; or that of a Persistent session home, which the *)
(* session makes.                                                          *)
(***************************************************************************)
EXTENDS Naturals, FiniteSets

CONSTANTS
  Caller,    \* dsm processes
  Kinds,     \* what the callers may be, each one of kind's values
  Daemon,    \* the daemons that may be spawned, one after the other
  Settings,  \* how many commands isolate runs
  Polls,     \* how often wait_ready polls before its deadline
  NoDaemon

ASSUME ServeAssumption ==
  /\ Kinds \subseteq [Caller -> {"serve", "inherit"}] \cup [Caller -> {"session"}]
  /\ Settings \in Nat /\ Polls \in Nat
  /\ NoDaemon \notin Daemon

VARIABLES
  kind,      \* kind[c]: "serve" (serve_forever), or a Cell.session over the peer's own
             \* repo ("inherit") or over that of a home ("session")
  config,    \* does <repo>/config exist?
  isolated,  \* how many of isolate's settings are in it
  fresh,     \* was there no repo to begin with?
  api,       \* the daemon that wrote <repo>/api, NoDaemon if there is no file
  daemon,    \* daemon[d]: its state and the settings it started with
  caller,    \* caller[c]: program counter and locals, and how many ^C it got (hits)
  blame      \* what happened so far: "unclean" (something was killed, or broke
             \* off), "contended" (two processes or daemons used the repo at once)

vars == <<kind, config, isolated, fresh, api, daemon, caller, blame>>

-----------------------------------------------------------------------------

Up == {"starting", "locked", "serving", "stopping"}  \* poll() is None
Holding == {"locked", "serving", "stopping"}         \* it has the repo's lock

Idle == [at |-> "idle", d |-> NoDaemon, n |-> 0, hits |-> 0]

Moves(c, r) == caller' = [caller EXCEPT ![c] = r]
Turns(d, state) == daemon' = [daemon EXCEPT ![d].state = state]

\* How a dsm process ends: "interrupted" if a KeyboardInterrupt gets through.
Over == {"returned", "failed", "interrupted"}

Active(c) == caller[c].at \notin {"idle"} \cup Over

\* The state of the daemon c spawned.
Own(c) == daemon[caller[c].d].state

-----------------------------------------------------------------------------
(* Bringing a daemon up *)

\* A process starts; setup looks whether the home has a repo.
Call(c) ==
  /\ caller[c].at = "idle"
  /\ Moves(c, [caller[c] EXCEPT !.at =
       IF kind[c] # "session" THEN "build" ELSE IF config THEN "spawn" ELSE "init"])
  /\ blame' = blame \cup
       IF \/ \E b \in Caller : Active(b)
          \/ \E d \in Daemon : daemon[d].state \in Up
       THEN {"contended"} ELSE {}
  /\ UNCHANGED <<kind, config, isolated, fresh, api, daemon>>

\* Mutant: build_or_get does not look.
LookForNoRepo(c) ==
  /\ caller[c].at = "build"
  /\ Moves(c, [caller[c] EXCEPT !.at = "create"])
  /\ UNCHANGED <<kind, config, isolated, fresh, api, daemon, blame>>

\* build_or_get looks whether there is a repo.  If there is, so does setup, later, and finds
\* it too; serve_forever just goes on to spawn_daemon.
LookForRepo(c) ==
  /\ caller[c].at = "build"
  /\ Moves(c, [caller[c] EXCEPT !.at = IF config THEN "spawn" ELSE "create"])
  /\ UNCHANGED <<kind, config, isolated, fresh, api, daemon, blame>>

\* `ipfs init' fails if there is a repo by now, and build_or_get with it.
CreateRepo(c) ==
  /\ caller[c].at = "create"
  /\ config' = TRUE
  /\ Moves(c, [caller[c] EXCEPT !.at = IF config THEN "failed" ELSE "spawn"])
  /\ UNCHANGED <<kind, isolated, fresh, api, daemon, blame>>

\* The process is a `dsm bootstrap' from a peer: nothing is built, construct_builtins_from_path
\* calls the idempotent ipfs.init(), and the command is over.
FromPeer(c) ==
  /\ caller[c].at = "build"
  /\ config' = TRUE
  /\ Moves(c, [caller[c] EXCEPT !.at = "returned"])
  /\ UNCHANGED <<kind, isolated, fresh, api, daemon, blame>>

\* ipfs.init() is idempotent.
InitRepo(c) ==
  /\ caller[c].at = "init"
  /\ config' = TRUE
  /\ Moves(c, [caller[c] EXCEPT !.at = "isolate"])
  /\ UNCHANGED <<kind, isolated, fresh, api, daemon, blame>>

\* Mutant: setup spawns the daemon first.
IsolateLate(c) ==
  /\ caller[c].at = "isolate"
  /\ Moves(c, [caller[c] EXCEPT !.at = "spawn", !.n = 0])
  /\ UNCHANGED <<kind, config, isolated, fresh, api, daemon, blame>>

\* isolate: one `ipfs config' command after the other
Isolate(c) ==
  /\ caller[c].at = "isolate"
  /\ IF caller[c].n < Settings
     THEN /\ Moves(c, [caller[c] EXCEPT !.n = @ + 1])
          /\ isolated' = IF caller[c].n < isolated THEN isolated ELSE caller[c].n + 1
     ELSE /\ Moves(c, [caller[c] EXCEPT !.at = "spawn", !.n = 0])
          /\ UNCHANGED isolated
  /\ UNCHANGED <<kind, config, fresh, api, daemon, blame>>

\* One of the commands fails; what was set stays.
IsolateFails(c) ==
  /\ caller[c].at = "isolate" /\ caller[c].n < Settings
  /\ Moves(c, [caller[c] EXCEPT !.at = "failed"])
  /\ blame' = blame \cup {"unclean"}
  /\ UNCHANGED <<kind, config, isolated, fresh, api, daemon>>

\* spawn_daemon (which makes a missing repo, but does not isolate it)
Spawn(c) ==
  /\ caller[c].at = "spawn"
  /\ config' = TRUE
  /\ \E d \in Daemon :
       /\ daemon[d].state = "unused"
       /\ Turns(d, "starting")
       /\ Moves(c, [caller[c] EXCEPT !.at = "poll", !.d = d, !.n = Polls])
  /\ UNCHANGED <<kind, isolated, fresh, api, blame>>

-----------------------------------------------------------------------------
(* wait_ready *)

\* process.poll() is not None: DaemonFailed
PollDead(c) ==
  /\ caller[c].at = "poll" /\ caller[c].n > 0
  /\ Own(c) \notin Up
  /\ Moves(c, [caller[c] EXCEPT !.at = "failed"])
  /\ UNCHANGED <<kind, config, isolated, fresh, api, daemon, blame>>

PollAlive(c) ==
  /\ caller[c].at = "poll" /\ caller[c].n > 0
  /\ Own(c) \in Up
  /\ Moves(c, [caller[c] EXCEPT !.at = "look"])
  /\ UNCHANGED <<kind, config, isolated, fresh, api, daemon, blame>>

\* Mutant: a daemon that lives is a daemon that serves.
LookBlind(c) ==
  /\ caller[c].at = "look"
  /\ Moves(c, [caller[c] EXCEPT !.at = "ready"])
  /\ UNCHANGED <<kind, config, isolated, fresh, api, daemon, blame>>

\* Mutant: the loop has no deadline.
LookForever(c) ==
  /\ caller[c].at = "look"
  /\ Moves(c, [caller[c] EXCEPT !.at = IF api # NoDaemon THEN "ready" ELSE "poll"])
  /\ UNCHANGED <<kind, config, isolated, fresh, api, daemon, blame>>

\* ipfs.daemon_running()
Look(c) ==
  /\ caller[c].at = "look"
  /\ Moves(c, IF api # NoDaemon
              THEN [caller[c] EXCEPT !.at = "ready", !.n = 0]
              ELSE [caller[c] EXCEPT !.at = "poll", !.n = @ - 1])
  /\ UNCHANGED <<kind, config, isolated, fresh, api, daemon, blame>>

\* Mutant: the deadline raises without a shutdown.
DeadlineLeaves(c) ==
  /\ caller[c].at = "poll" /\ caller[c].n = 0
  /\ Moves(c, [caller[c] EXCEPT !.at = "failed"])
  /\ UNCHANGED <<kind, config, isolated, fresh, api, daemon, blame>>

\* The deadline: shutdown, then DaemonFailed.
Deadline(c) ==
  /\ caller[c].at = "poll" /\ caller[c].n = 0
  /\ Moves(c, [caller[c] EXCEPT !.at = "abort"])
  /\ UNCHANGED <<kind, config, isolated, fresh, api, daemon, blame>>

-----------------------------------------------------------------------------
(* The daemon is up; shutdown *)

\* The session's block ends, or serve_forever sees its daemon exit.
Finish(c) ==
  /\ caller[c].at = "ready"
  /\ kind[c] = "serve" => Own(c) \notin Up
  /\ Moves(c, [caller[c] EXCEPT !.at =
       IF kind[c] = "serve" THEN "returned" ELSE "stop"])
  /\ UNCHANGED <<kind, config, isolated, fresh, api, daemon, blame>>

\* Where a ^C takes a process.  serve_forever shuts its daemon down, from within the
\* shutdown of wait_ready's deadline too, and so does a session whose block it ends.
\* Nothing encloses what comes before the daemon, nor a session's setup; and in the
\* shutdown itself only TimeoutExpired is caught, so a ^C there skips its kill().
Caught(c) ==
  IF kind[c] = "serve" THEN caller[c].at \in {"poll", "look", "ready", "abort", "abortgrace"}
                       ELSE caller[c].at = "ready"

\* ^C reaches the daemon too, if there is one.
Interrupt(c) ==
  /\ Active(c)
  /\ Moves(c, [caller[c] EXCEPT !.at = IF Caught(c) THEN "stop" ELSE "interrupted",
                                !.n = 0, !.hits = @ + 1])
  /\ daemon' = [d \in Daemon |->
       IF d # caller[c].d THEN daemon[d] ELSE
       [daemon[d] EXCEPT !.state = IF @ \in Holding THEN "stopping" ELSE "gone"]]
  /\ blame' = blame \cup IF caller[c].at = "isolate" THEN {"unclean"} ELSE {}
  /\ UNCHANGED <<kind, config, isolated, fresh, api>>

Outcome(c) == IF caller[c].at \in {"abort", "abortgrace"} THEN "failed" ELSE "returned"

\* Mutant: kill() straight away.
KillAtOnce(c) ==
  /\ caller[c].at \in {"stop", "abort"}
  /\ Own(c) \in Up
  /\ Turns(caller[c].d, "gone")
  /\ Moves(c, [caller[c] EXCEPT !.at = Outcome(c)])
  /\ UNCHANGED <<kind, config, isolated, fresh, api, blame>>

\* poll() is None: terminate() and wait(timeout=grace).  A daemon that has not
\* got as far as the lock dies of the signal.
Terminate(c) ==
  /\ caller[c].at \in {"stop", "abort"}
  /\ Own(c) \in Up
  /\ daemon' = [daemon EXCEPT ![caller[c].d].state =
       IF @ \in Holding THEN "stopping" ELSE "gone"]
  /\ Moves(c, [caller[c] EXCEPT !.at = IF @ = "stop" THEN "grace" ELSE "abortgrace"])
  /\ UNCHANGED <<kind, config, isolated, fresh, api, blame>>

Reap(c) ==
  /\ caller[c].at \in {"stop", "abort", "grace", "abortgrace"}
  /\ Own(c) \notin Up
  /\ Moves(c, [caller[c] EXCEPT !.at = Outcome(c)])
  /\ UNCHANGED <<kind, config, isolated, fresh, api, daemon, blame>>

\* Mutant: wait() without kill().
KillNot(c) ==
  /\ caller[c].at \in {"grace", "abortgrace"}
  /\ Own(c) \notin Up
  /\ Moves(c, [caller[c] EXCEPT !.at = Outcome(c)])
  /\ UNCHANGED <<kind, config, isolated, fresh, api, daemon, blame>>

\* grace is over: kill() and wait()
Kill(c) ==
  /\ caller[c].at \in {"grace", "abortgrace"}
  /\ Own(c) \in Up
  /\ Turns(caller[c].d, "gone")
  /\ Moves(c, [caller[c] EXCEPT !.at = Outcome(c)])
  /\ blame' = blame \cup {"unclean"}
  /\ UNCHANGED <<kind, config, isolated, fresh, api>>

-----------------------------------------------------------------------------
(* kubo, and what may befall both *)

\* It opens the repo, and reads its config as it is now.
Lock(d) ==
  /\ daemon[d].state = "starting"
  /\ \A e \in Daemon : daemon[e].state \notin Holding
  /\ daemon' = [daemon EXCEPT ![d] = [state |-> "locked", isolated |-> isolated]]
  /\ UNCHANGED <<kind, config, isolated, fresh, api, caller, blame>>

\* It exits for want of the lock, or for any other reason.
FailStart(d) ==
  /\ daemon[d].state = "starting"
  /\ Turns(d, "gone")
  /\ UNCHANGED <<kind, config, isolated, fresh, api, caller, blame>>

ServeApi(d) ==
  /\ daemon[d].state = "locked"
  /\ Turns(d, "serving")
  /\ api' = d
  /\ UNCHANGED <<kind, config, isolated, fresh, caller, blame>>

\* It ends in good order and removes the file it wrote.
Stop(d) ==
  /\ daemon[d].state = "stopping"
  /\ Turns(d, "gone")
  /\ api' = IF api = d THEN NoDaemon ELSE api
  /\ UNCHANGED <<kind, config, isolated, fresh, caller, blame>>

Crash(d) ==
  /\ daemon[d].state \in {"locked", "serving", "stopping"}
  /\ Turns(d, "gone")
  /\ blame' = blame \cup {"unclean"}
  /\ UNCHANGED <<kind, config, isolated, fresh, api, caller>>

\* A dsm process is killed.
Die(c) ==
  /\ Active(c)
  /\ Moves(c, Idle)
  /\ blame' = blame \cup {"unclean"}
  /\ UNCHANGED <<kind, config, isolated, fresh, api, daemon>>

\* dsm is run again.
Again(c) ==
  /\ caller[c].at \in Over
  /\ Moves(c, Idle)
  /\ UNCHANGED <<kind, config, isolated, fresh, api, daemon, blame>>

-----------------------------------------------------------------------------

Init ==
  /\ kind \in Kinds
  /\ config \in BOOLEAN
  /\ isolated = 0
  /\ fresh = ~config
  /\ api = NoDaemon
  /\ daemon = [d \in Daemon |-> [state |-> "unused", isolated |-> 0]]
  /\ caller = [c \in Caller |-> Idle]
  /\ blame = {}

Step(c) ==
  \/ LookForRepo(c) \/ CreateRepo(c) \/ InitRepo(c) \/ Isolate(c) \/ Spawn(c)
  \/ PollDead(c) \/ PollAlive(c) \/ Look(c) \/ Deadline(c)
  \/ Terminate(c) \/ Reap(c) \/ Kill(c)

Next ==
  \/ \E c \in Caller :
       \/ Call(c) \/ Step(c) \/ FromPeer(c) \/ IsolateFails(c) \/ Finish(c) \/ Interrupt(c)
       \/ Die(c) \/ Again(c)
  \/ \E d \in Daemon : Lock(d) \/ FailStart(d) \/ ServeApi(d) \/ Stop(d) \/ Crash(d)

Spec == Init /\ [][Next]_vars

\* A dsm process that is not killed goes on; nothing is assumed of kubo.
FairSpec == Spec /\ \A c \in Caller : WF_vars(Step(c))

-----------------------------------------------------------------------------
(* Properties *)

\* Types; blame is part of the state only to say what a property excepts.
TypeOK ==
  /\ kind \in Kinds
  /\ config \in BOOLEAN /\ fresh \in BOOLEAN
  /\ isolated \in 0..Settings
  /\ api \in Daemon \cup {NoDaemon}
  /\ daemon \in [Daemon ->
       [state : Up \cup {"unused", "gone"}, isolated : 0..Settings]]
  /\ caller \in [Caller ->
       [at : {"idle", "build", "create", "init", "isolate", "spawn", "poll", "look", "ready", "stop",
              "grace", "abort", "abortgrace"} \cup Over,
        d : Daemon \cup {NoDaemon}, n : 0..(Settings + Polls), hits : Nat]]
  /\ blame \subseteq {"unclean", "contended"}

\* The promise of wait_ready: `Block until the daemon is serving requests, or
\* raise DaemonFailed if it dies'.  Whoever was told ready has a daemon that
\* served, whatever became of it since.
ReadyMeansServed ==
  \A c \in Caller :
    caller[c].at = "ready" => Own(c) \notin {"starting", "locked"}

\* `api' outlives its daemon only if something was killed.
ApiOutlivesOnlyKilled ==
  (api # NoDaemon /\ daemon[api].state \notin {"serving", "stopping"}) =>
    "unclean" \in blame

\* Readiness is true as long as the repo is used by one process at a time and nothing
\* is killed: no daemon that ended in good order is mistaken for the new one, and a
\* stale api file has a kill behind it.
ReadyWhenOrderly == (blame = {} => ReadyMeansServed) /\ ApiOutlivesOnlyKilled

\* `re-bootstrapping, and building any cell that depends on builtins, must not fail just
\* because ipfs is already initialized': not after a failure or a kill at any step either.
\* Only another process that bootstraps at the same time makes it fail.
BuildsAgain ==
  \A c \in Caller :
    (kind[c] # "session" /\ caller[c].at = "failed" /\ caller[c].d = NoDaemon) =>
      "contended" \in blame

\* Whatever the outcome (a daemon that never came up, a deadline, one ^C at any time, a
\* block that ended) no process that returns or fails leaves its daemon running, and
\* `dsm serve' survives any one ^C.  What can leave one is a ^C that nothing catches: in
\* a session's setup, or in a shutdown, which for serve_forever is the second.  That
\* daemon has been told to stop, but if it is deaf nobody kills it any more.
Reaped ==
  \A c \in Caller :
    (caller[c].at \in Over /\ caller[c].d # NoDaemon) =>
      \/ Own(c) = "gone"
      \/ /\ Own(c) = "stopping" /\ caller[c].at = "interrupted"
         /\ kind[c] = "serve" => caller[c].hits > 1

\* `so a throwaway node never joins the public swarm': a daemon on a repo that
\* a session made runs with all of isolate's settings.
NeverPublic ==
  (fresh /\ \A c \in Caller : kind[c] = "session") =>
    \A d \in Daemon : daemon[d].state \in Holding => daemon[d].isolated = Settings

\* It holds as long as no other session uses the repo and nothing is killed.
NeverPublicWhenOrderly == blame = {} => NeverPublic

\* wait_ready never blocks for ever, whatever the daemon does or does not do.
WaitEnds ==
  \A c \in Caller :
    caller[c].at = "poll" ~> caller[c].at \notin {"poll", "look"}

\* Nor does shutdown: a daemon deaf to SIGTERM is killed.
ShutdownEnds ==
  \A c \in Caller :
    caller[c].at \in {"stop", "abort"} ~>
      caller[c].at \in Over \cup {"idle"}

\* A caller gets through wait_ready and shutdown in the end, whatever its daemon does.
CallersEnd == WaitEnds /\ ShutdownEnds

=============================================================================
