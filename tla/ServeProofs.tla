----------------------------- MODULE ServeProofs -----------------------------
(* Theorems of Serve for any number of processes, daemons, settings and polls. *)
EXTENDS Serve, TLAPS

\* A process's places before it spawned a daemon, and with one of its own.
Before == {"idle", "build", "create", "init", "isolate", "spawn"}
With == {"poll", "look", "ready", "stop", "grace", "abort", "abortgrace"}

\* What holds of a process by itself: when it has a daemon, that only the peer's
\* processes build and only sessions isolate, and what its counter counts; and that serve_forever shuts down
\* where an exception takes it.
Sound(c) ==
  /\ caller[c].at \in Before => caller[c].d = NoDaemon
  /\ caller[c].at \in With => caller[c].d \in Daemon
  /\ caller[c].d \in Daemon => daemon[caller[c].d].state # "unused"
  /\ caller[c].at \in {"build", "create"} => kind[c] # "session"
  /\ caller[c].at \in {"init", "isolate"} => kind[c] = "session"
  /\ caller[c].at \in {"idle", "build", "create", "init"} => caller[c].n = 0
  /\ caller[c].at = "isolate" => caller[c].n <= isolated
  /\ caller[c].at = "look" => caller[c].n > 0
  /\ (kind[c] = "serve" /\ caller[c].at \in {"stop", "grace"}) => caller[c].hits > 0

CallersInv == \A c \in Caller : Sound(c)

\* Two processes at once are on record, and only another process can make
\* a repo between build_or_get's look and its `ipfs init'.
Recorded ==
  /\ \A b, c \in Caller : (Active(b) /\ Active(c) /\ b # c) => "contended" \in blame
  /\ \A c \in Caller : (caller[c].at = "create" /\ config) => "contended" \in blame

\* In good order a process at work has the repo to itself.
Alone ==
  blame = {} =>
    \A c \in Caller : Active(c) =>
      \A d \in Daemon : daemon[d].state \in Up => caller[c].d = d

\* In good order a home's repo is isolated before any daemon starts on it, or
\* some process is about to.
Sessions == \A c \in Caller : kind[c] = "session"
IsolatedFirst ==
  (blame = {} /\ fresh /\ Sessions) =>
    /\ config => \/ isolated = Settings
                 \/ \E c \in Caller : caller[c].at = "isolate"
    /\ (\E c \in Caller : caller[c].at = "spawn") => isolated = Settings
    /\ (\E d \in Daemon : daemon[d].state \in Up) => isolated = Settings

IInv ==
  /\ TypeOK /\ CallersInv
  /\ Reaped
  /\ Recorded /\ BuildsAgain
  /\ Alone /\ ReadyWhenOrderly
  /\ IsolatedFirst /\ NeverPublicWhenOrderly

-----------------------------------------------------------------------------
(* Types *)

Place == Before \cup With \cup Over
Process == [at : Place, d : Daemon \cup {NoDaemon}, n : 0..(Settings + Polls), hits : Nat]
Server == [state : Up \cup {"unused", "gone"}, isolated : 0..Settings]

\* TypeOK in the terms of these proofs.
LEMMA Types ==
  TypeOK => /\ kind \in Kinds /\ isolated \in 0..Settings
            /\ api \in Daemon \cup {NoDaemon}
            /\ daemon \in [Daemon -> Server]
            /\ caller \in [Caller -> Process]
            /\ blame \subseteq {"unclean", "contended"}
BY DEF TypeOK, Place, Before, With, Over, Process, Server

\* A move changes one process only: c goes to a place, with a daemon and a
\* counter.
Goes(c, at, d, n) ==
  /\ caller' \in [Caller -> Process]
  /\ caller'[c].at = at /\ caller'[c].d = d /\ caller'[c].n = n
  /\ \A b \in Caller \ {c} : caller'[b] = caller[b]

LEMMA Moved ==
  ASSUME TypeOK, NEW c \in Caller, NEW r \in Process, Moves(c, r)
  PROVE  Goes(c, r.at, r.d, r.n)
BY Types DEF Moves, Goes, Process

\* The two shapes of move: to another place, and with the counter set too.
LEMMA Goto ==
  ASSUME TypeOK, NEW c \in Caller, NEW at \in Place,
         Moves(c, [caller[c] EXCEPT !.at = at])
  PROVE  Goes(c, at, caller[c].d, caller[c].n) /\ caller'[c].hits = caller[c].hits
<1>1. caller[c] \in Process
  BY Types
<1>2. [caller[c] EXCEPT !.at = at] \in Process
  BY <1>1 DEF Process
<1>3. Goes(c, at, caller[c].d, caller[c].n)
  BY <1>1, <1>2, Moved DEF Process
<1>4. caller'[c] = [caller[c] EXCEPT !.at = at]
  BY Types DEF Moves
<1> QED BY <1>1, <1>3, <1>4 DEF Process

LEMMA Count ==
  ASSUME TypeOK, NEW c \in Caller, NEW at \in Place, NEW n \in 0..(Settings + Polls),
         Moves(c, [caller[c] EXCEPT !.at = at, !.n = n])
  PROVE  Goes(c, at, caller[c].d, n)
<1>1. caller[c] \in Process
  BY Types
<1>2. [caller[c] EXCEPT !.at = at, !.n = n] \in Process
  BY <1>1 DEF Process
<1> QED BY <1>1, <1>2, Moved DEF Process

\* A turn changes one daemon's state only.
Changes(d, s) ==
  /\ daemon' \in [Daemon -> Server]
  /\ daemon'[d].state = s
  /\ \A e \in Daemon : daemon'[e].isolated = daemon[e].isolated
  /\ \A e \in Daemon \ {d} : daemon'[e] = daemon[e]

LEMMA Turned ==
  ASSUME TypeOK, NEW d \in Daemon, NEW s \in Up \cup {"unused", "gone"},
         daemon' = [daemon EXCEPT ![d].state = s]
  PROVE  Changes(d, s)
BY Types DEF Server, Changes

\* What each step of a process does to it and to its daemon.
LEMMA Deeds ==
  ASSUME TypeOK, CallersInv, NEW c \in Caller
  PROVE
  /\ Call(c) => Goes(c, IF kind[c] # "session" THEN "build"
                      ELSE IF config THEN "spawn" ELSE "init", NoDaemon, 0)
  /\ LookForRepo(c) => Goes(c, IF config THEN "spawn" ELSE "create", NoDaemon, 0)
  /\ CreateRepo(c) => Goes(c, IF config THEN "failed" ELSE "spawn", NoDaemon, 0)
  /\ FromPeer(c) => Goes(c, "returned", NoDaemon, 0)
  /\ InitRepo(c) => Goes(c, "isolate", NoDaemon, 0)
  /\ IsolateFails(c) => Goes(c, "failed", NoDaemon, caller[c].n)
  /\ PollDead(c) => Goes(c, "failed", caller[c].d, caller[c].n)
  /\ PollAlive(c) => Goes(c, "look", caller[c].d, caller[c].n)
  /\ Deadline(c) => Goes(c, "abort", caller[c].d, caller[c].n)
  /\ Finish(c) => Goes(c, IF kind[c] = "serve" THEN "returned" ELSE "stop",
                 caller[c].d, caller[c].n)
  /\ Reap(c) => Goes(c, Outcome(c), caller[c].d, caller[c].n)
  /\ Isolate(c) => IF caller[c].n < Settings
                   THEN Goes(c, "isolate", NoDaemon, caller[c].n + 1)
                   ELSE Goes(c, "spawn", NoDaemon, 0)
  /\ Look(c) => IF api # NoDaemon
                THEN Goes(c, "ready", caller[c].d, 0)
                ELSE Goes(c, "poll", caller[c].d, caller[c].n - 1)
  /\ Spawn(c) => \E d \in Daemon :
       daemon[d].state = "unused" /\ Changes(d, "starting") /\ Goes(c, "poll", d, Polls)
  /\ Interrupt(c) =>
       /\ Goes(c, IF Caught(c) THEN "stop" ELSE "interrupted", caller[c].d, 0)
       /\ caller'[c].hits = caller[c].hits + 1
       /\ IF caller[c].d \in Daemon
          THEN Changes(caller[c].d, IF Own(c) \in Holding THEN "stopping" ELSE "gone")
          ELSE daemon' = daemon
  /\ Terminate(c) =>
       /\ Goes(c, IF caller[c].at = "stop" THEN "grace" ELSE "abortgrace",
               caller[c].d, caller[c].n)
       /\ caller'[c].hits = caller[c].hits
       /\ Changes(caller[c].d, IF Own(c) \in Holding THEN "stopping" ELSE "gone")
  /\ Kill(c) =>
       /\ Goes(c, Outcome(c), caller[c].d, caller[c].n)
       /\ Changes(caller[c].d, "gone")
  /\ Die(c) \/ Again(c) => Goes(c, "idle", NoDaemon, 0)
<1>0. /\ caller[c] \in Process /\ Sound(c)
      /\ caller[c].d = caller[c].d /\ caller[c].n \in 0..(Settings + Polls)
  BY Types DEF CallersInv, Process
<1>1. /\ {"idle", "build", "create", "init", "isolate", "spawn", "poll", "look", "ready",
          "stop", "grace", "abort", "abortgrace", "returned", "failed", "interrupted"}
           \subseteq Place
      /\ {"starting", "locked", "serving", "stopping", "gone"} \subseteq Up \cup {"unused", "gone"}
  BY DEF Place, Before, With, Over, Up
<1>2. Call(c) => Goes(c, IF kind[c] # "session" THEN "build"
                      ELSE IF config THEN "spawn" ELSE "init", NoDaemon, 0)
  BY <1>0, <1>1, Goto DEF Call, Sound, Before
<1>3. LookForRepo(c) => Goes(c, IF config THEN "spawn" ELSE "create", NoDaemon, 0)
  BY <1>0, <1>1, Goto DEF LookForRepo, Sound, Before
<1>4. CreateRepo(c) => Goes(c, IF config THEN "failed" ELSE "spawn", NoDaemon, 0)
  BY <1>0, <1>1, Goto DEF CreateRepo, Sound, Before
<1>5. FromPeer(c) => Goes(c, "returned", NoDaemon, 0)
  BY <1>0, <1>1, Goto DEF FromPeer, Sound, Before
<1>6. InitRepo(c) => Goes(c, "isolate", NoDaemon, 0)
  BY <1>0, <1>1, Goto DEF InitRepo, Sound, Before
<1>7. IsolateFails(c) => Goes(c, "failed", NoDaemon, caller[c].n)
  BY <1>0, <1>1, Goto DEF IsolateFails, Sound, Before
<1>8. PollDead(c) => Goes(c, "failed", caller[c].d, caller[c].n)
  BY <1>0, <1>1, Goto DEF PollDead, Sound, Before
<1>9. PollAlive(c) => Goes(c, "look", caller[c].d, caller[c].n)
  BY <1>0, <1>1, Goto DEF PollAlive, Sound, Before
<1>10. Deadline(c) => Goes(c, "abort", caller[c].d, caller[c].n)
  BY <1>0, <1>1, Goto DEF Deadline, Sound, Before
<1>11. Finish(c) => Goes(c, IF kind[c] = "serve" THEN "returned" ELSE "stop",
                 caller[c].d, caller[c].n)
  BY <1>0, <1>1, Goto DEF Finish, Sound, Before
<1>12. Reap(c) => Goes(c, Outcome(c), caller[c].d, caller[c].n)
  BY <1>0, <1>1, Goto DEF Reap, Sound, Before, Outcome
<1>i. Isolate(c) => IF caller[c].n < Settings
                    THEN Goes(c, "isolate", NoDaemon, caller[c].n + 1)
                    ELSE Goes(c, "spawn", NoDaemon, 0)
  <2> SUFFICES ASSUME Isolate(c)
               PROVE  IF caller[c].n < Settings
                      THEN Goes(c, "isolate", NoDaemon, caller[c].n + 1)
                      ELSE Goes(c, "spawn", NoDaemon, 0)
    OBVIOUS
  <2>1. caller[c].at = "isolate" /\ caller[c].d = NoDaemon
    BY <1>0 DEF Isolate, Sound, Before
  <2>2. CASE caller[c].n < Settings
    <3>1. caller[c].n + 1 \in 0..(Settings + Polls)
      BY <1>0, <2>2, ServeAssumption
    <3>2. [caller[c] EXCEPT !.n = @ + 1] = [caller[c] EXCEPT !.at = "isolate", !.n = @ + 1]
      BY <1>0, <2>1 DEF Process
    <3>3. Moves(c, [caller[c] EXCEPT !.at = "isolate", !.n = caller[c].n + 1])
      BY <2>2, <3>2 DEF Isolate
    <3> QED BY <1>1, <2>1, <2>2, <3>1, <3>3, Count
  <2>3. CASE ~(caller[c].n < Settings)
    <3>1. 0 \in 0..(Settings + Polls)
      BY ServeAssumption
    <3> QED BY <1>1, <2>1, <2>3, <3>1, Count DEF Isolate
  <2> QED BY <2>2, <2>3
<1>l. Look(c) => IF api # NoDaemon
                 THEN Goes(c, "ready", caller[c].d, 0)
                 ELSE Goes(c, "poll", caller[c].d, caller[c].n - 1)
  <2>1. 0 \in 0..(Settings + Polls) /\ (Look(c) => caller[c].n - 1 \in 0..(Settings + Polls))
    BY <1>0, ServeAssumption DEF Look, Sound
  <2> QED BY <1>1, <2>1, Goto, Count DEF Look
<1>s. Spawn(c) => \E d \in Daemon :
        daemon[d].state = "unused" /\ Changes(d, "starting") /\ Goes(c, "poll", d, Polls)
  <2> SUFFICES ASSUME NEW d \in Daemon, Turns(d, "starting"),
                      Moves(c, [caller[c] EXCEPT !.at = "poll", !.d = d, !.n = Polls])
               PROVE  Changes(d, "starting") /\ Goes(c, "poll", d, Polls)
    BY DEF Spawn
  <2> DEFINE p == [caller[c] EXCEPT !.at = "poll", !.d = d, !.n = Polls]
  <2>1. p \in Process /\ p.at = "poll" /\ p.d = d /\ p.n = Polls
    <3>1. "poll" \in Place /\ Polls \in 0..(Settings + Polls) /\ d \in Daemon \cup {NoDaemon}
      BY <1>1, ServeAssumption
    <3> QED BY <1>0, <3>1 DEF Process
  <2> QED BY <1>1, <2>1, Moved, Turned DEF Turns
<1>o. caller[c].at \in With => caller[c].d \in Daemon
  BY <1>0 DEF Sound
<1>t. Interrupt(c) =>
        /\ Goes(c, IF Caught(c) THEN "stop" ELSE "interrupted", caller[c].d, 0)
        /\ caller'[c].hits = caller[c].hits + 1
        /\ IF caller[c].d \in Daemon
           THEN Changes(caller[c].d, IF Own(c) \in Holding THEN "stopping" ELSE "gone")
           ELSE daemon' = daemon
  <2> SUFFICES ASSUME Interrupt(c)
               PROVE  /\ Goes(c, IF Caught(c) THEN "stop" ELSE "interrupted", caller[c].d, 0)
                      /\ caller'[c].hits = caller[c].hits + 1
                      /\ IF caller[c].d \in Daemon
                         THEN Changes(caller[c].d, IF Own(c) \in Holding THEN "stopping" ELSE "gone")
                         ELSE daemon' = daemon
    OBVIOUS
  <2> DEFINE at == IF Caught(c) THEN "stop" ELSE "interrupted"
             p  == [caller[c] EXCEPT !.at = at, !.n = 0, !.hits = @ + 1]
             s  == IF Own(c) \in Holding THEN "stopping" ELSE "gone"
  <2>1. p \in Process /\ p.at = at /\ p.d = caller[c].d /\ p.n = 0 /\ p.hits = caller[c].hits + 1
    <3>1. at \in Place /\ 0 \in 0..(Settings + Polls) /\ caller[c].hits \in Nat
      BY <1>0, <1>1, ServeAssumption DEF Process
    <3>2. caller[c].hits + 1 \in Nat
      BY <3>1
    <3> HIDE DEF at
    <3> QED BY <1>0, <3>1, <3>2 DEF Process
  <2>2. Moves(c, p)
    BY DEF Interrupt
  <2>3. Goes(c, at, caller[c].d, 0) /\ caller'[c].hits = caller[c].hits + 1
    BY <2>1, <2>2, Moved, Types DEF Moves
  <2>4. CASE caller[c].d \in Daemon
    <3>1. daemon' = [daemon EXCEPT ![caller[c].d].state = s]
      BY <2>4, Types DEF Interrupt, Own
    <3> QED BY <1>1, <2>3, <2>4, <3>1, Turned
  <2>5. CASE caller[c].d \notin Daemon
    BY <2>3, <2>5, Types DEF Interrupt
  <2> QED BY <2>4, <2>5
<1>u. Terminate(c) =>
        /\ Goes(c, IF caller[c].at = "stop" THEN "grace" ELSE "abortgrace",
                caller[c].d, caller[c].n)
        /\ caller'[c].hits = caller[c].hits
        /\ Changes(caller[c].d, IF Own(c) \in Holding THEN "stopping" ELSE "gone")
  BY <1>1, <1>o, Goto, Turned DEF Terminate, With, Own
<1>k. Kill(c) =>
        /\ Goes(c, Outcome(c), caller[c].d, caller[c].n)
        /\ Changes(caller[c].d, "gone")
  BY <1>1, <1>o, Goto, Turned DEF Kill, With, Outcome, Turns
<1>d. Die(c) \/ Again(c) => Goes(c, "idle", NoDaemon, 0)
  <2>1. Idle \in Process /\ Idle.at = "idle" /\ Idle.d = NoDaemon /\ Idle.n = 0
    BY <1>1, ServeAssumption DEF Process, Idle
  <2> QED BY <2>1, Moved DEF Die, Again
<1> QED BY <1>2, <1>3, <1>4, <1>5, <1>6, <1>7, <1>8, <1>9, <1>10, <1>11, <1>12, <1>i, <1>l, <1>s, <1>t, <1>u, <1>k, <1>d

-----------------------------------------------------------------------------
(* What no step undoes *)

\* How a daemon's state may change.
Turn(s, t) ==
  \/ s = t
  \/ s = "unused" /\ t = "starting"
  \/ s = "starting" /\ t \in {"locked", "gone"}
  \/ s = "locked" /\ t \in {"serving", "stopping", "gone"}
  \/ s = "serving" /\ t \in {"stopping", "gone"}
  \/ s = "stopping" /\ t = "gone"

\* What kubo and the chance of a kill do to a daemon.
LEMMA Turnings ==
  ASSUME TypeOK, NEW d \in Daemon
  PROVE  /\ Lock(d) => /\ daemon' \in [Daemon -> Server]
                       /\ daemon'[d] = [state |-> "locked", isolated |-> isolated]
                       /\ \A e \in Daemon \ {d} : daemon'[e] = daemon[e]
         /\ ServeApi(d) => Changes(d, "serving")
         /\ FailStart(d) \/ Stop(d) \/ Crash(d) => Changes(d, "gone")
<1>1. Lock(d) => /\ daemon' \in [Daemon -> Server]
                 /\ daemon'[d] = [state |-> "locked", isolated |-> isolated]
                 /\ \A e \in Daemon \ {d} : daemon'[e] = daemon[e]
  <2>1. [state |-> "locked", isolated |-> isolated] \in Server
    BY Types DEF Server, Up
  <2> QED BY <2>1, Types DEF Lock
<1>2. {"serving", "gone"} \subseteq Up \cup {"unused", "gone"}
  BY DEF Up
<1>3. /\ ServeApi(d) => Changes(d, "serving")
      /\ FailStart(d) \/ Stop(d) \/ Crash(d) => Changes(d, "gone")
  BY <1>2, Turned DEF ServeApi, FailStart, Stop, Crash, Turns
<1> QED BY <1>1, <1>3

\* Daemons go one way, and nothing that is set or on record is taken back.
LEMMA OneWay ==
  ASSUME TypeOK, CallersInv, [Next]_vars
  PROVE  /\ \A d \in Daemon : Turn(daemon[d].state, daemon'[d].state)
         /\ kind' = kind /\ fresh' = fresh /\ (config => config')
         /\ isolated <= isolated' /\ blame \subseteq blame'
<1> DEFINE Goal == /\ \A d \in Daemon : Turn(daemon[d].state, daemon'[d].state)
                   /\ kind' = kind /\ fresh' = fresh /\ (config => config')
                   /\ isolated <= isolated' /\ blame \subseteq blame'
<1>0. isolated \in Nat
  BY Types, ServeAssumption
<1>1. ASSUME UNCHANGED vars PROVE Goal
  BY <1>0, <1>1 DEF vars, Turn
<1>2. ASSUME NEW c \in Caller,
             \/ Call(c) \/ LookForRepo(c) \/ CreateRepo(c) \/ InitRepo(c) \/ FromPeer(c)
             \/ IsolateFails(c) \/ PollDead(c) \/ PollAlive(c) \/ Look(c) \/ Deadline(c)
             \/ Finish(c) \/ Reap(c) \/ Die(c) \/ Again(c)
      PROVE  Goal
  <2>1. UNCHANGED <<kind, fresh, isolated, daemon>> /\ (config => config') /\ blame \subseteq blame'
    BY <1>2 DEF Call, LookForRepo, CreateRepo, InitRepo, FromPeer, IsolateFails, PollDead,
                PollAlive, Look, Deadline, Finish, Reap, Die, Again
  <2> QED BY <1>0, <2>1 DEF Turn
<1>3. ASSUME NEW c \in Caller, Isolate(c) PROVE Goal
  <2>1. UNCHANGED <<kind, config, fresh, daemon, blame>>
    BY <1>3 DEF Isolate
  <2>2. isolated <= isolated'
    <3>1. caller[c].n \in Nat
      BY Types, ServeAssumption DEF Process
    <3> QED BY <1>0, <1>3, <3>1 DEF Isolate
  <2> QED BY <2>1, <2>2 DEF Turn
<1>4. ASSUME NEW c \in Caller,
             Spawn(c) \/ Interrupt(c) \/ Terminate(c) \/ Kill(c), caller[c].d \in Daemon \/ Spawn(c)
      PROVE  Goal
  <2>1. UNCHANGED <<kind, fresh, isolated>> /\ (config => config') /\ blame \subseteq blame'
    <3>1. CASE Spawn(c)
      <4>1. UNCHANGED <<kind, fresh, isolated, blame>> /\ config' = TRUE
        BY <3>1 DEF Spawn
      <4> QED BY <4>1
    <3>2. CASE Terminate(c) \/ Kill(c)
      BY <3>2 DEF Terminate, Kill
    <3>3. CASE Interrupt(c)
      BY <3>3 DEF Interrupt
    <3> QED BY <1>4, <3>1, <3>2, <3>3
  <2>2. \E d \in Daemon, t \in Up \cup {"unused", "gone"} :
          Changes(d, t) /\ Turn(daemon[d].state, t)
    <3>1. CASE Spawn(c)
      <4>1. \E d \in Daemon : daemon[d].state = "unused" /\ Changes(d, "starting")
        BY <3>1, Deeds
      <4> QED BY <4>1 DEF Turn, Up
    <3>2. CASE (Interrupt(c) \/ Terminate(c) \/ Kill(c)) /\ ~Spawn(c)
      <4>1. /\ caller[c].d \in Daemon /\ daemon[caller[c].d] \in Server
            /\ Own(c) # "unused"
        BY <1>4, <3>2, Types DEF CallersInv, Sound, Own
      <4>2. /\ Turn(Own(c), IF Own(c) \in Holding THEN "stopping" ELSE "gone")
            /\ Turn(Own(c), "gone")
        BY <4>1 DEF Turn, Holding, Server, Up, Own
      <4>3. Changes(caller[c].d, IF Own(c) \in Holding THEN "stopping" ELSE "gone")
            \/ Changes(caller[c].d, "gone")
        BY <3>2, <4>1, Deeds
      <4> QED BY <4>1, <4>2, <4>3 DEF Up, Own
    <3> QED BY <1>4, <3>1, <3>2
  <2>3. \A d \in Daemon : Turn(daemon[d].state, daemon'[d].state)
    BY <2>2 DEF Changes, Turn
  <2> QED BY <1>0, <2>1, <2>3
<1>5. ASSUME NEW d \in Daemon,
             Lock(d) \/ FailStart(d) \/ ServeApi(d) \/ Stop(d) \/ Crash(d)
      PROVE  Goal
  <2>1. UNCHANGED <<kind, config, fresh, isolated>> /\ blame \subseteq blame'
    BY <1>5 DEF Lock, FailStart, ServeApi, Stop, Crash
  <2>2. /\ Turn(daemon[d].state, daemon'[d].state)
        /\ \A e \in Daemon \ {d} : daemon'[e] = daemon[e]
    BY <1>5, Turnings DEF Turn, Changes, Lock, FailStart, ServeApi, Stop, Crash
  <2> QED BY <1>0, <2>1, <2>2 DEF Turn
\* a ^C before there is a daemon
<1>6. ASSUME NEW c \in Caller, Interrupt(c), caller[c].d \notin Daemon
      PROVE  Goal
  <2>1. daemon' = daemon
    BY <1>6, Deeds
  <2>2. UNCHANGED <<kind, config, isolated, fresh>> /\ blame \subseteq blame'
    BY <1>6 DEF Interrupt
  <2> QED BY <1>0, <2>1, <2>2 DEF Turn
<1>7. ASSUME NEW c \in Caller, Terminate(c) \/ Kill(c)
      PROVE  caller[c].d \in Daemon
  BY <1>7 DEF Terminate, Kill, CallersInv, Sound, With
<1> QED BY <1>1, <1>2, <1>3, <1>4, <1>5, <1>6, <1>7 DEF Next, Step

\* A step of c, or what befalls it.
Acts(c) ==
  \/ Call(c) \/ Step(c) \/ FromPeer(c) \/ IsolateFails(c) \/ Finish(c) \/ Interrupt(c)
  \/ Die(c) \/ Again(c)

Befalls(d) == Lock(d) \/ FailStart(d) \/ ServeApi(d) \/ Stop(d) \/ Crash(d)

\* One process acts, or none moves; and only a call makes one active.
LEMMA Others ==
  ASSUME TypeOK, CallersInv, [Next]_vars
  PROVE  /\ \A c \in Caller : caller'[c] = caller[c] \/ Acts(c)
         /\ \A c \in Caller : Acts(c) => \A b \in Caller \ {c} : caller'[b] = caller[b]
         /\ \A c \in Caller : Active(c)' => Active(c) \/ Call(c)
<1>1. ASSUME NEW c \in Caller, Acts(c)
      PROVE  /\ \A b \in Caller \ {c} : caller'[b] = caller[b]
             /\ Active(c)' => Active(c) \/ Call(c)
  <2>1. Active(c) \/ Call(c) \/ Again(c)
    BY <1>1 DEF Acts, Step, Active, Over, LookForRepo, CreateRepo, InitRepo, Isolate, Spawn, PollDead,
                PollAlive, Look, Deadline, Terminate, Reap, Kill, FromPeer, IsolateFails,
                Finish, Interrupt, Die
  <2>2. \E at, d, n : Goes(c, at, d, n) /\ (Again(c) => at = "idle")
    BY <1>1, Deeds DEF Acts, Step
  <2> QED BY <2>1, <2>2 DEF Goes, Active, Over
<1>2. (\E c \in Caller : Acts(c)) \/ UNCHANGED caller
  BY DEF Next, Acts, vars, Lock, FailStart, ServeApi, Stop, Crash
<1> QED BY <1>1, <1>2 DEF Active

-----------------------------------------------------------------------------
(* The inductive invariant, part by part *)

\* No step leaves the types.
LEMMA TypeStep ==
  ASSUME TypeOK, CallersInv, [Next]_vars
  PROVE  TypeOK'
<1>1. kind' \in Kinds /\ config' \in BOOLEAN /\ fresh' \in BOOLEAN
  <2>1. kind' = kind /\ fresh' = fresh
    BY OneWay
  <2>2. config' \in {config, TRUE}
    BY DEF Next, vars, Step, Call, LookForRepo, CreateRepo, InitRepo, FromPeer, Isolate,
           IsolateFails, Spawn, PollDead, PollAlive, Look, Deadline, Finish, Interrupt,
           Terminate, Reap, Kill, Die, Again, Lock, FailStart, ServeApi, Stop, Crash
  <2> QED BY <2>1, <2>2 DEF TypeOK
<1>2. isolated' \in 0..Settings
  <2>1. CASE \E c \in Caller : Isolate(c)
    <3> PICK c \in Caller : Isolate(c)
      BY <2>1
    <3>1. caller[c].n \in Nat
      BY Types, ServeAssumption DEF Process
    <3> QED BY <3>1, ServeAssumption DEF Isolate, TypeOK
  <2>2. CASE ~ \E c \in Caller : Isolate(c)
    <3>1. isolated' = isolated
      BY <2>2 DEF Next, vars, Step, Call, LookForRepo, CreateRepo, InitRepo, FromPeer,
             IsolateFails, Spawn, PollDead, PollAlive, Look, Deadline, Finish, Interrupt,
             Terminate, Reap, Kill, Die, Again, Lock, FailStart, ServeApi, Stop, Crash
    <3> QED BY <3>1 DEF TypeOK
  <2> QED BY <2>1, <2>2
<1>3. api' \in Daemon \cup {NoDaemon} /\ blame' \subseteq {"unclean", "contended"}
  BY DEF TypeOK, Next, vars, Step, Call, LookForRepo, CreateRepo, InitRepo, FromPeer, Isolate,
         IsolateFails, Spawn, PollDead, PollAlive, Look, Deadline, Finish, Interrupt,
         Terminate, Reap, Kill, Die, Again, Lock, FailStart, ServeApi, Stop, Crash
<1>4. daemon' \in [Daemon -> Server]
  <2>1. CASE UNCHANGED daemon
    BY <2>1, Types
  <2>2. ASSUME NEW c \in Caller, Spawn(c) \/ Interrupt(c) \/ Terminate(c) \/ Kill(c)
        PROVE  daemon' \in [Daemon -> Server]
    BY <2>2, Deeds, Types DEF Changes
  <2>3. ASSUME NEW d \in Daemon,
               Lock(d) \/ FailStart(d) \/ ServeApi(d) \/ Stop(d) \/ Crash(d)
        PROVE  daemon' \in [Daemon -> Server]
    BY <2>3, Turnings DEF Changes
  <2> QED BY <2>1, <2>2, <2>3 DEF Next, vars, Step, Call, LookForRepo, CreateRepo, InitRepo,
             FromPeer, Isolate, IsolateFails, PollDead, PollAlive, Look, Deadline,
             Finish, Reap, Die, Again
<1>5. caller' \in [Caller -> Process]
  <2>1. CASE UNCHANGED caller
    BY <2>1, Types
  <2>2. ASSUME NEW c \in Caller,
               \/ Call(c) \/ Step(c) \/ FromPeer(c) \/ IsolateFails(c) \/ Finish(c)
               \/ Interrupt(c) \/ Die(c) \/ Again(c)
        PROVE  caller' \in [Caller -> Process]
    BY <2>2, Deeds DEF Step, Goes
  <2>3. ASSUME NEW d \in Daemon,
               Lock(d) \/ FailStart(d) \/ ServeApi(d) \/ Stop(d) \/ Crash(d)
        PROVE  UNCHANGED caller
    BY <2>3 DEF Lock, FailStart, ServeApi, Stop, Crash
  <2> QED BY <2>1, <2>2, <2>3 DEF Next, vars
<1> QED BY <1>1, <1>2, <1>3, <1>4, <1>5
        DEF TypeOK, Process, Place, Before, With, Over, Server

\* What is sound of a process stays so, whoever steps.
LEMMA CallersStep ==
  ASSUME TypeOK, CallersInv, [Next]_vars
  PROVE  CallersInv'
<1>0. TypeOK'
  BY TypeStep
<1>1. /\ \A d \in Daemon : Turn(daemon[d].state, daemon'[d].state)
      /\ kind' = kind /\ isolated \in Nat /\ isolated' \in Nat /\ isolated <= isolated'
  BY <1>0, OneWay, Types, ServeAssumption DEF TypeOK
\* a process the step does not move
<1>2. ASSUME NEW c \in Caller, caller'[c] = caller[c]
      PROVE  Sound(c)'
  <2>1. Sound(c) /\ caller[c] \in Process /\ caller[c].n \in Nat
    BY Types, ServeAssumption DEF CallersInv, Process
  <2> QED BY <1>1, <1>2, <2>1 DEF Sound, Turn
\* the process the step moves
<1>3. ASSUME NEW c \in Caller, Acts(c)
      PROVE  Sound(c)'
  <2>0. /\ Sound(c) /\ caller[c] \in Process /\ caller[c].n \in Nat /\ caller[c].hits \in Nat
        /\ Polls \in Nat /\ Settings \in Nat
    BY Types, ServeAssumption DEF CallersInv, Process
  <2>1. CASE Call(c)
    BY <1>1, <2>1, Deeds, ServeAssumption DEF Goes, Sound, Before, With
  <2>2. CASE LookForRepo(c)
    BY <1>1, <2>0, <2>2, Deeds, ServeAssumption DEF Goes, Sound, Before, With, LookForRepo
  <2>8. CASE CreateRepo(c) \/ FromPeer(c) \/ IsolateFails(c)
    BY <2>8, Deeds, ServeAssumption DEF Goes, Sound, Before, With
  <2>9. CASE InitRepo(c)
    BY <1>1, <2>0, <2>9, Deeds, ServeAssumption DEF Goes, Sound, Before, With, InitRepo
  <2>3. CASE Isolate(c)
    <3>1. caller[c].at = "isolate" /\ kind[c] = "session"
      BY <2>0, <2>3 DEF Isolate, Sound
    <3>2. CASE caller[c].n < Settings
      <4>1. caller[c].n + 1 <= isolated'
        BY <1>1, <2>0, <2>3, <3>2 DEF Isolate
      <4>2. caller'[c].at = "isolate" /\ caller'[c].d = NoDaemon /\ caller'[c].n = caller[c].n + 1
        BY <2>3, <3>2, Deeds DEF Goes
      <4> QED BY <1>1, <3>1, <4>1, <4>2, ServeAssumption DEF Sound, With
    <3>3. CASE ~(caller[c].n < Settings)
      BY <2>3, <3>3, Deeds, ServeAssumption DEF Goes, Sound, Before, With
    <3> QED BY <3>2, <3>3
  <2>4. CASE Spawn(c)
    BY <1>1, <2>0, <2>4, Deeds DEF Goes, Changes, Sound, Before, With
  <2>5. CASE PollDead(c) \/ PollAlive(c) \/ Look(c) \/ Deadline(c)
    BY <1>1, <2>0, <2>5, Deeds DEF Goes, Sound, Before, With, Turn, PollDead, PollAlive, Look, Deadline
  <2>6. CASE Finish(c) \/ Terminate(c) \/ Reap(c) \/ Kill(c)
    <3>1. caller[c].at \in With
      BY <2>6 DEF With, Finish, Terminate, Reap, Kill
    <3>2. caller[c].d \in Daemon /\ daemon'[caller[c].d].state # "unused"
      BY <1>1, <2>0, <3>1 DEF Sound, Turn
    <3>3. /\ caller'[c].at \in {"failed", "returned", "stop", "grace", "abortgrace"}
          /\ caller'[c].d = caller[c].d
      BY <2>6, Deeds DEF Goes, Outcome
    <3>4. (kind'[c] = "serve" /\ caller'[c].at \in {"stop", "grace"}) => caller'[c].hits > 0
      <4>1. CASE Finish(c) \/ Reap(c) \/ Kill(c)
        BY <1>1, <4>1, Deeds DEF Goes, Outcome
      <4>2. CASE Terminate(c)
        BY <1>1, <2>0, <4>2, Deeds DEF Goes, Sound, Terminate
      <4> QED BY <2>6, <4>1, <4>2
    <3> QED BY <3>2, <3>3, <3>4 DEF Sound, Before
  <2>10. CASE Interrupt(c)
    <3>1. /\ caller'[c].at \in {"interrupted", "stop"} /\ caller'[c].d = caller[c].d
          /\ caller'[c].hits > 0
      BY <2>0, <2>10, Deeds DEF Goes
    <3>2. caller'[c].at = "stop" => caller[c].d \in Daemon
      <4>1. Caught(c) => caller[c].at \in With
        BY DEF Caught, With
      <4> QED BY <2>0, <2>10, <4>1, Deeds DEF Goes, Sound
    <3>3. caller[c].d \in Daemon => daemon'[caller[c].d].state # "unused"
      BY <1>1, <2>0 DEF Sound, Turn
    <3> QED BY <3>1, <3>2, <3>3 DEF Sound, Before, With
  <2>7. CASE Die(c) \/ Again(c)
    BY <2>7, Deeds, ServeAssumption DEF Goes, Sound, Before, With
  <2> QED BY <1>3, <2>1, <2>2, <2>3, <2>4, <2>5, <2>6, <2>7, <2>8, <2>9, <2>10 DEF Acts, Step
<1> QED BY <1>2, <1>3, Others DEF CallersInv

\* No process ends before its daemon does, or has been told to.
LEMMA ReapedStep ==
  ASSUME TypeOK, CallersInv, Reaped, [Next]_vars
  PROVE  Reaped'
<1> DEFINE R(c) == (caller[c].at \in Over /\ caller[c].d # NoDaemon) =>
                     \/ Own(c) = "gone"
                     \/ /\ Own(c) = "stopping" /\ caller[c].at = "interrupted"
                        /\ kind[c] = "serve" => caller[c].hits > 1
<1>0. /\ \A d \in Daemon : daemon[d] \in Server /\ Turn(daemon[d].state, daemon'[d].state)
      /\ kind' = kind
  BY Types, OneWay
<1>1. ASSUME NEW c \in Caller, caller'[c] = caller[c]
      PROVE  R(c)'
  <2>1. R(c) /\ caller[c] \in Process
    BY Types DEF Reaped
  <2> QED BY <1>0, <1>1, <2>1 DEF Process, Turn, Own
<1>2. ASSUME NEW c \in Caller, Acts(c)
      PROVE  R(c)'
  <2>1. CASE ~(Finish(c) \/ Interrupt(c) \/ PollDead(c) \/ Reap(c) \/ Kill(c))
    <3>1. caller'[c].at \notin Over \/ caller'[c].d = NoDaemon
      BY <1>2, <2>1, Deeds DEF Acts, Step, Goes, Over
    <3> QED BY <3>1
  <2>2. CASE Finish(c) \/ PollDead(c) \/ Reap(c)
    <3>1. caller[c].at \in With /\ (Own(c) \notin Up \/ (Finish(c) /\ kind[c] # "serve"))
      BY <2>2 DEF Finish, PollDead, Reap, With
    <3>2. caller[c].d \in Daemon /\ Own(c) # "unused"
      BY <3>1 DEF CallersInv, Sound, Own
    <3>3. CASE Finish(c) /\ kind[c] # "serve"
      BY <3>3, Deeds DEF Goes, Over
    <3>4. CASE Own(c) \notin Up
      <4>1. Own(c) = "gone"
        BY <1>0, <3>2, <3>4 DEF Server, Own, Up
      <4>2. daemon'[caller[c].d].state = "gone"
        BY <1>0, <3>2, <4>1 DEF Turn, Own
      <4>3. caller'[c].d = caller[c].d
        BY <2>2, Deeds DEF Goes
      <4> QED BY <4>2, <4>3 DEF Own
    <3> QED BY <3>1, <3>3, <3>4
  <2>3. CASE Kill(c)
    BY <2>3, Deeds DEF Goes, Changes, Own
  <2>4. CASE Interrupt(c) /\ ~Caught(c)
    <3>1. /\ caller'[c].at = "interrupted" /\ caller'[c].d = caller[c].d
          /\ caller'[c].hits = caller[c].hits + 1 /\ caller[c].hits \in Nat
          /\ caller[c].d \in Daemon => daemon'[caller[c].d].state \in {"stopping", "gone"}
      BY <2>4, Deeds, Types DEF Goes, Changes, Process
    <3>2. caller[c].d \in Daemon \/ caller[c].d = NoDaemon
      BY Types DEF Process
    \* what serve_forever does not catch is a ^C in the shutdown after another
    <3>3. (kind[c] = "serve" /\ caller[c].d \in Daemon) => caller[c].hits > 0
      <4>1. caller[c].at \in Before \cup {"stop", "grace"} \/ kind[c] # "serve"
        BY <2>4, Types DEF Interrupt, Active, Caught, Process, Place, Before, With
      <4> QED BY <4>1, ServeAssumption DEF CallersInv, Sound
    <3> QED BY <1>0, <3>1, <3>2, <3>3 DEF Own
  <2>5. CASE Interrupt(c) /\ Caught(c)
    BY <2>5, Deeds DEF Goes, Over
  <2> QED BY <2>1, <2>2, <2>3, <2>4, <2>5
<1> QED BY <1>1, <1>2, Others DEF Reaped

\* Only Call puts a second process to work, and it is on record then.
LEMMA RecordedStep ==
  ASSUME TypeOK, CallersInv, Recorded, [Next]_vars
  PROVE  Recorded'
<1>0. (config => config') /\ blame \subseteq blame'
  BY OneWay
<1>1. ASSUME NEW b \in Caller, NEW c \in Caller, Active(b)', Active(c)', b # c
      PROVE  "contended" \in blame'
  <2>1. CASE Active(b) /\ Active(c)
    BY <1>0, <1>1, <2>1 DEF Recorded
  <2>2. ASSUME NEW e \in Caller, NEW f \in Caller, e # f, Call(e), Active(f)'
        PROVE  "contended" \in blame'
    <3>1. Active(f)
      BY <2>2, Others DEF Active, Acts
    <3> QED BY <2>2, <3>1 DEF Call
  <2> QED BY <1>1, <2>1, <2>2, Others
<1>2. ASSUME NEW c \in Caller, caller'[c].at = "create", config'
      PROVE  "contended" \in blame'
  <2>1. CASE caller'[c] = caller[c] /\ config
    BY <1>0, <1>2, <2>1 DEF Recorded
  <2>2. CASE caller'[c] = caller[c] /\ ~config
    <3>1. PICK b \in Caller : CreateRepo(b) \/ FromPeer(b) \/ InitRepo(b) \/ Spawn(b)
      BY <1>2, <2>2
         DEF Next, vars, Step, Call, LookForRepo, Isolate, IsolateFails, PollDead, PollAlive,
             Look, Deadline, Finish, Interrupt, Terminate, Reap, Kill, Die, Again, Lock,
             FailStart, ServeApi, Stop, Crash
    <3>2. Active(b) /\ Active(c) /\ b # c
      <4>1. caller'[b].at # "create"
        BY <2>2, <3>1, Deeds DEF Goes
      <4>2. Active(b)
        BY <3>1 DEF CreateRepo, FromPeer, InitRepo, Spawn, Active, Over
      <4> QED BY <1>2, <2>2, <4>1, <4>2 DEF Active, Over
    <3> QED BY <1>0, <3>2 DEF Recorded
  <2>3. CASE Acts(c)
    <3>1. LookForRepo(c) /\ ~config
      BY <1>2, <2>3, Deeds DEF Acts, Step, Goes, Outcome
    <3> QED BY <1>2, <3>1 DEF LookForRepo
  <2> QED BY <2>1, <2>2, <2>3, Others
<1> QED BY <1>1, <1>2 DEF Recorded

\* `ipfs init' fails only where another process got in between.
LEMMA BuildsAgainStep ==
  ASSUME TypeOK, CallersInv, Recorded, BuildsAgain, [Next]_vars
  PROVE  BuildsAgain'
<1> SUFFICES ASSUME NEW c \in Caller, kind'[c] # "session",
                    caller'[c].at = "failed", caller'[c].d = NoDaemon
             PROVE  "contended" \in blame'
  BY DEF BuildsAgain
<1>0. kind' = kind /\ blame \subseteq blame'
  BY OneWay
<1>1. CASE caller'[c] = caller[c]
  BY <1>0, <1>1 DEF BuildsAgain
<1>2. CASE Acts(c)
  <2>1. \/ CreateRepo(c) /\ config
        \/ IsolateFails(c)
        \/ caller[c].at \in With /\ caller'[c].d = caller[c].d
    BY <1>2, Deeds DEF Acts, Step, Goes, With, PollDead, Interrupt, Reap, Kill
  <2>2. CASE CreateRepo(c) /\ config
    BY <1>0, <2>2 DEF Recorded, CreateRepo
  <2>3. ~IsolateFails(c)
    BY <1>0 DEF IsolateFails, CallersInv, Sound
  <2>4. ~(caller[c].at \in With /\ caller'[c].d = caller[c].d)
    BY ServeAssumption DEF CallersInv, Sound
  <2> QED BY <2>1, <2>2, <2>3, <2>4
<1> QED BY <1>1, <1>2, Others

\* A process at work keeps the daemon it has.
LEMMA KeepsDaemon ==
  ASSUME TypeOK, CallersInv, [Next]_vars,
         NEW c \in Caller, Active(c)', caller[c].d \in Daemon
  PROVE  caller'[c].d = caller[c].d
<1>1. caller[c].at \notin Before
  BY ServeAssumption DEF CallersInv, Sound
<1>2. CASE Acts(c)
  BY <1>1, <1>2, Deeds
     DEF Acts, Step, Goes, Active, Before, Call, LookForRepo, CreateRepo, FromPeer, InitRepo,
         Isolate, IsolateFails, Spawn
<1> QED BY <1>2, Others

\* A daemon comes up by being spawned.
LEMMA SpawnOnly ==
  ASSUME TypeOK, CallersInv, [Next]_vars,
         NEW d \in Daemon, daemon[d].state \notin Up, daemon'[d].state \in Up
  PROVE  \E b \in Caller : Spawn(b)
<1>1. daemon[d].state = "unused" /\ daemon'[d].state = "starting"
  BY OneWay DEF Turn, Up
<1>2. \/ \E b \in Caller : Spawn(b)
      \/ daemon' = daemon
      \/ \E b \in Caller : Interrupt(b) \/ Terminate(b) \/ Kill(b)
      \/ \E e \in Daemon : Befalls(e)
  BY DEF Next, vars, Step, Befalls, Call, LookForRepo, CreateRepo, FromPeer, InitRepo,
         Isolate, IsolateFails, PollDead, PollAlive, Look, Deadline, Finish, Reap, Die, Again
<1>3. ASSUME NEW b \in Caller, Interrupt(b) \/ Terminate(b) \/ Kill(b)
      PROVE  FALSE
  <2>1. daemon' = daemon \/ \E s \in {"stopping", "gone"} : Changes(caller[b].d, s)
    BY <1>3, Deeds
  <2> QED BY <1>1, <2>1 DEF Changes
<1>4. ASSUME NEW e \in Daemon, Befalls(e)
      PROVE  FALSE
  BY <1>1, <1>4, Turnings DEF Befalls, Changes
<1> QED BY <1>1, <1>2, <1>3, <1>4

\* In good order whoever starts finds no daemon up, and whoever is at work sees
\* nobody else spawn one.
LEMMA AloneStep ==
  ASSUME TypeOK, CallersInv, Recorded, Alone, [Next]_vars
  PROVE  Alone'
<1> SUFFICES ASSUME blame' = {}, NEW c \in Caller, Active(c)',
                    NEW d \in Daemon, daemon'[d].state \in Up
             PROVE  caller'[c].d = d
  BY DEF Alone
<1>0. blame = {} /\ Turn(daemon[d].state, daemon'[d].state)
  BY OneWay
<1>1. CASE Call(c)
  BY <1>1 DEF Call
<1>2. CASE Active(c) /\ daemon[d].state \in Up
  <2>1. caller[c].d = d
    BY <1>0, <1>2 DEF Alone
  <2> QED BY <2>1, KeepsDaemon
<1>3. CASE Active(c) /\ daemon[d].state \notin Up
  <2>1. daemon[d].state = "unused" /\ daemon'[d].state = "starting"
    BY <1>0, <1>3 DEF Turn, Up
  <2>2. PICK b \in Caller : Spawn(b)
    BY <1>3, SpawnOnly
  <2>3. b = c
    BY <1>0, <1>3, <2>2 DEF Recorded, Active, Over, Spawn
  <2>4. \E e \in Daemon : Changes(e, "starting") /\ caller'[c].d = e
    BY <2>2, <2>3, Deeds DEF Goes
  <2> QED BY <2>1, <2>4 DEF Changes
<1> QED BY <1>1, <1>2, <1>3, Others

\* The api file belongs to a daemon that serves, or something was killed; so who
\* finds it, in good order, finds its own daemon's.
LEMMA ReadyStep ==
  ASSUME TypeOK, CallersInv, Alone, ReadyWhenOrderly, [Next]_vars
  PROVE  ReadyWhenOrderly'
<1>0. /\ blame \subseteq blame'
      /\ \A d \in Daemon : daemon[d] \in Server /\ Turn(daemon[d].state, daemon'[d].state)
  BY Types, OneWay
<1>1. ApiOutlivesOnlyKilled'
  <2> SUFFICES ASSUME api' # NoDaemon, daemon'[api'].state \notin {"serving", "stopping"},
                      "unclean" \notin blame'
               PROVE  FALSE
    BY DEF ApiOutlivesOnlyKilled
  <2>1. ASSUME NEW d \in Daemon, ServeApi(d)
        PROVE  FALSE
    <3>1. api' = d /\ daemon'[d].state = "serving"
      BY <2>1, Turnings DEF ServeApi, Changes
    <3> QED BY <3>1
  <2>2. CASE api' = api
    <3>1. api \in Daemon /\ daemon[api].state \in {"serving", "stopping"}
      BY <1>0, <2>2, Types DEF ReadyWhenOrderly, ApiOutlivesOnlyKilled
    <3>2. daemon'[api].state = "gone" /\ daemon'[api] # daemon[api]
      BY <1>0, <2>2, <3>1 DEF Turn
    <3>3. \/ \E b \in Caller : Spawn(b) \/ Interrupt(b) \/ Terminate(b)
          \/ \E e \in Daemon : Lock(e) \/ FailStart(e) \/ Stop(e)
      BY <2>1, <3>2 DEF Next, vars, Step, Call, LookForRepo, CreateRepo, FromPeer, InitRepo,
           Isolate, IsolateFails, PollDead, PollAlive, Look, Deadline, Finish, Reap, Die, Again,
           Kill, Crash
    <3>4. ASSUME NEW b \in Caller, Spawn(b) PROVE FALSE
      <4>1. \E e \in Daemon : Changes(e, "starting")
        BY <3>4, Deeds
      <4> QED BY <3>1, <3>2, <4>1 DEF Changes
    <3>5. ASSUME NEW b \in Caller, Interrupt(b) \/ Terminate(b) PROVE FALSE
      <4>1. \/ Changes(caller[b].d, IF Own(b) \in Holding THEN "stopping" ELSE "gone")
            \/ daemon' = daemon
        BY <3>5, Deeds
      <4> QED BY <3>1, <3>2, <4>1 DEF Changes, Own, Holding
    <3>6. ASSUME NEW e \in Daemon, Lock(e) \/ FailStart(e) PROVE FALSE
      BY <3>1, <3>2, <3>6, Turnings DEF Lock, FailStart, Changes
    <3>7. ASSUME NEW e \in Daemon, Stop(e) PROVE FALSE
      <4>1. e = api
        BY <3>1, <3>2, <3>7, Turnings DEF Changes
      <4> QED BY <2>2, <3>1, <3>7, <4>1, ServeAssumption DEF Stop
    <3> QED BY <3>3, <3>4, <3>5, <3>6, <3>7
  <2>3. CASE api' # api
    <3>1. \E d \in Daemon : Stop(d) /\ api' # api
      BY <2>1, <2>3 DEF Next, vars, Step, Call, LookForRepo, CreateRepo, FromPeer, InitRepo,
           Isolate, IsolateFails, Spawn, PollDead, PollAlive, Look, Deadline, Finish, Interrupt,
           Terminate, Reap, Kill, Die, Again, Lock, FailStart, Crash
    <3> QED BY <3>1 DEF Stop
  <2> QED BY <2>2, <2>3
<1>2. (blame = {} => ReadyMeansServed)'
  <2> SUFFICES ASSUME blame' = {}, NEW c \in Caller, caller'[c].at = "ready"
               PROVE  daemon'[caller'[c].d].state \notin {"starting", "locked"}
    BY DEF ReadyMeansServed, Own
  <2>1. CASE caller'[c] = caller[c]
    <3>1. caller[c].d \in Daemon /\ Own(c) \notin {"unused", "starting", "locked"}
      BY <1>0, <2>1 DEF CallersInv, Sound, With, Own, ReadyWhenOrderly, ReadyMeansServed
    <3> QED BY <1>0, <2>1, <3>1 DEF Turn, Own
  <2>2. CASE Acts(c)
    <3>1. Look(c) /\ api # NoDaemon /\ caller'[c].d = caller[c].d
      BY <2>2, Deeds DEF Acts, Step, Goes, Outcome
    <3>2. blame = {} /\ api \in Daemon /\ daemon[api].state \in {"serving", "stopping"}
      BY <1>0, <3>1, Types DEF ReadyWhenOrderly, ApiOutlivesOnlyKilled
    <3>3. caller[c].d = api
      BY <3>1, <3>2 DEF Alone, Active, Over, Look, Up
    <3> QED BY <3>1, <3>2, <3>3 DEF Look
  <2> QED BY <2>1, <2>2, Others
<1> QED BY <1>1, <1>2 DEF ReadyWhenOrderly

\* In good order a session spawns only when isolate is through, and no other
\* process can have spawned before.
LEMMA IsolatedStep ==
  ASSUME TypeOK, CallersInv, Recorded, IsolatedFirst, [Next]_vars
  PROVE  IsolatedFirst'
<1> SUFFICES ASSUME blame' = {}, fresh', Sessions'
             PROVE  /\ config' => \/ isolated' = Settings
                                  \/ \E c \in Caller : caller'[c].at = "isolate"
                    /\ (\E c \in Caller : caller'[c].at = "spawn") => isolated' = Settings
                    /\ (\E d \in Daemon : daemon'[d].state \in Up) => isolated' = Settings
  BY DEF IsolatedFirst
<1>0. /\ blame = {} /\ fresh /\ Sessions
      /\ config => \/ isolated = Settings
                   \/ \E c \in Caller : caller[c].at = "isolate"
      /\ (\E c \in Caller : caller[c].at = "spawn") => isolated = Settings
      /\ (\E d \in Daemon : daemon[d].state \in Up) => isolated = Settings
  BY OneWay DEF IsolatedFirst, Sessions
<1>1. /\ isolated \in Nat /\ isolated' \in Nat /\ isolated <= Settings /\ isolated' <= Settings
      /\ isolated <= isolated' /\ Settings \in Nat
  <2>1. isolated \in 0..Settings /\ isolated' \in 0..Settings
    BY TypeStep DEF TypeOK
  <2>2. isolated <= isolated'
    BY OneWay
  <2> QED BY <2>1, <2>2, ServeAssumption
<1>2. isolated = Settings => isolated' = Settings
  BY <1>1
<1>3. \A c \in Caller : kind[c] = "session" /\ caller[c].at \notin {"build", "create"}
  BY <1>0 DEF Sessions, CallersInv, Sound
<1>u. "unclean" \notin blame'
  BY <1>0
\* once n has counted the settings, they are all there
<1>4. ASSUME NEW c \in Caller, Isolate(c)
      PROVE  isolated = Settings \/ caller'[c].at = "isolate"
  <2>1. caller[c].n <= isolated /\ caller[c].n \in Nat
    BY <1>4, Types, ServeAssumption DEF CallersInv, Sound, Isolate, Process
  <2>2. CASE caller[c].n < Settings
    BY <1>4, <2>2, Deeds DEF Goes
  <2>3. CASE ~(caller[c].n < Settings)
    BY <1>1, <2>1, <2>3
  <2> QED BY <2>2, <2>3
<1>5. ASSUME config'
      PROVE  isolated' = Settings \/ \E c \in Caller : caller'[c].at = "isolate"
  <2>1. CASE isolated = Settings
    BY <1>2, <2>1
  <2>2. CASE \E c \in Caller : caller[c].at = "isolate"
    <3> PICK c \in Caller : caller[c].at = "isolate"
      BY <2>2
    <3>1. CASE caller'[c] = caller[c]
      BY <3>1
    <3>2. CASE Acts(c)
      <4>1. Isolate(c)
        <5>1. ~Interrupt(c)
          BY <1>u DEF Interrupt
        <5>2. ~IsolateFails(c) /\ ~Die(c)
          BY <1>u DEF IsolateFails, Die
        <5> QED BY <3>2, <5>1, <5>2
                DEF Acts, Step, Call, LookForRepo, CreateRepo, InitRepo, Spawn, PollDead,
                    PollAlive, Look, Deadline, Terminate, Reap, Kill, FromPeer, Finish, Again, Over
      <4> QED BY <1>2, <1>4, <4>1
    <3> QED BY <3>1, <3>2, Others
  <2>3. CASE ~config
    <3>1. PICK b \in Caller : CreateRepo(b) \/ FromPeer(b) \/ InitRepo(b) \/ Spawn(b)
      BY <1>5, <2>3
         DEF Next, vars, Step, Call, LookForRepo, Isolate, IsolateFails, PollDead, PollAlive,
             Look, Deadline, Finish, Interrupt, Terminate, Reap, Kill, Die, Again, Lock,
             FailStart, ServeApi, Stop, Crash
    <3>2. InitRepo(b) \/ isolated = Settings
      BY <1>0, <1>3, <3>1 DEF CreateRepo, FromPeer, Spawn
    <3>3. InitRepo(b) => caller'[b].at = "isolate"
      BY Deeds DEF Goes
    <3> QED BY <1>2, <3>2, <3>3
  <2> QED BY <1>0, <2>1, <2>2, <2>3
<1>6. ASSUME NEW c \in Caller, caller'[c].at = "spawn"
      PROVE  isolated' = Settings
  <2>1. CASE caller'[c] = caller[c]
    BY <1>0, <1>2, <1>6, <2>1
  <2>2. CASE Acts(c)
    <3>1. (Call(c) /\ config) \/ Isolate(c)
      BY <1>3, <1>6, <2>2, Deeds DEF Acts, Step, Goes, Outcome, LookForRepo, CreateRepo
    <3>2. CASE Isolate(c)
      BY <1>2, <1>4, <1>6, <3>2
    <3>3. CASE Call(c) /\ config
      <4>1. ~ \E b \in Caller : caller[b].at = "isolate"
        BY <3>3 DEF Call, Active, Over
      <4> QED BY <1>0, <1>2, <3>3, <4>1
    <3> QED BY <3>1, <3>2, <3>3
  <2> QED BY <2>1, <2>2, Others
<1>7. ASSUME NEW d \in Daemon, daemon'[d].state \in Up
      PROVE  isolated' = Settings
  <2>1. CASE daemon[d].state \in Up
    BY <1>0, <1>2, <2>1
  <2>2. CASE \E b \in Caller : Spawn(b)
    BY <1>0, <1>2, <2>2 DEF Spawn
  <2> QED BY <1>7, <2>1, <2>2, SpawnOnly
<1> QED BY <1>5, <1>6, <1>7

\* A daemon reads the settings when it takes the lock.
LEMMA NeverPublicStep ==
  ASSUME TypeOK, CallersInv, IsolatedFirst, NeverPublicWhenOrderly, [Next]_vars
  PROVE  NeverPublicWhenOrderly'
<1> SUFFICES ASSUME blame' = {}, fresh', Sessions',
                    NEW d \in Daemon, daemon'[d].state \in Holding
             PROVE  daemon'[d].isolated = Settings
  BY DEF NeverPublicWhenOrderly, NeverPublic, Sessions
<1>0. blame = {} /\ fresh /\ Sessions /\ Turn(daemon[d].state, daemon'[d].state)
  BY OneWay DEF Sessions
<1>1. CASE daemon'[d] = daemon[d]
  BY <1>0, <1>1 DEF NeverPublicWhenOrderly, NeverPublic, Sessions
<1>2. CASE Lock(d)
  <2>1. daemon[d].state \in Up
    BY <1>2 DEF Lock, Up
  <2> QED BY <1>0, <1>2, <2>1, Turnings DEF IsolatedFirst
<1>3. CASE daemon'[d] # daemon[d] /\ ~Lock(d)
  <2>1. \/ \E b \in Caller : Spawn(b) \/ Interrupt(b) \/ Terminate(b) \/ Kill(b)
        \/ \E e \in Daemon : Befalls(e) /\ (Lock(e) => e # d)
    BY <1>3 DEF Next, vars, Step, Befalls, Call, LookForRepo, CreateRepo, FromPeer, InitRepo,
           Isolate, IsolateFails, PollDead, PollAlive, Look, Deadline, Finish, Reap, Die, Again
  <2>2. ASSUME NEW b \in Caller, Spawn(b) \/ Interrupt(b) \/ Terminate(b) \/ Kill(b)
        PROVE  \E e \in Daemon, s \in {"starting", "stopping", "gone", "serving"} : Changes(e, s)
    <3>0. ~(Interrupt(b) /\ caller[b].d \notin Daemon)
      BY <1>3, Deeds
    <3>1. CASE Spawn(b)
      BY <3>1, Deeds
    <3>2. CASE Interrupt(b) \/ Terminate(b) \/ Kill(b)
      <4>1. caller[b].d \in Daemon
        BY <3>0, <3>2 DEF CallersInv, Sound, With, Terminate, Kill
      <4>2. \E s \in {"stopping", "gone"} : Changes(caller[b].d, s)
        BY <3>2, <4>1, Deeds
      <4> QED BY <4>1, <4>2
    <3> QED BY <2>2, <3>1, <3>2
  <2>3. ASSUME NEW e \in Daemon, Befalls(e), Lock(e) => e # d
        PROVE  \E f \in Daemon, s \in {"starting", "stopping", "gone", "serving"} : Changes(f, s)
    <3>1. ~Lock(e)
      BY <1>3, <2>3, Turnings
    <3> QED BY <2>3, <3>1, Turnings DEF Befalls
  <2>4. PICK e \in Daemon, s \in {"starting", "stopping", "gone", "serving"} : Changes(e, s)
    BY <2>1, <2>2, <2>3
  <2>5. daemon[d].state \in Holding /\ daemon'[d].isolated = daemon[d].isolated
    BY <1>0, <1>3, <2>4 DEF Changes, Turn, Holding
  <2> QED BY <1>0, <2>5 DEF NeverPublicWhenOrderly, NeverPublic, Sessions
<1> QED BY <1>1, <1>2, <1>3

LEMMA InitInv == Init => IInv
<1> SUFFICES ASSUME Init PROVE IInv
  OBVIOUS
<1>1. /\ \A c \in Caller : caller[c] = Idle /\ ~Active(c)
      /\ \A d \in Daemon : daemon[d].state = "unused" /\ daemon[d].isolated = 0
      /\ Idle \in Process /\ Idle.at = "idle" /\ Idle.d = NoDaemon /\ Idle.n = 0
  BY ServeAssumption DEF Init, Idle, Active, Process, Place, Before
<1>2. TypeOK
  <2>1. [state |-> "unused", isolated |-> 0] \in Server
    BY ServeAssumption DEF Server
  <2>2. daemon \in [Daemon -> Server] /\ caller \in [Caller -> Process]
    BY <1>1, <2>1 DEF Init
  <2>3. /\ kind \in Kinds /\ config \in BOOLEAN /\ fresh \in BOOLEAN /\ isolated \in 0..Settings
        /\ api \in Daemon \cup {NoDaemon} /\ blame \subseteq {"unclean", "contended"}
    BY ServeAssumption DEF Init
  <2> QED BY <2>2, <2>3 DEF TypeOK, Process, Place, Before, With, Over, Server
<1>3. CallersInv /\ Reaped /\ Recorded /\ BuildsAgain
  BY <1>1, ServeAssumption
     DEF CallersInv, Sound, Before, With, Over, Reaped, Recorded, BuildsAgain
<1>4. Alone /\ ReadyWhenOrderly
  BY <1>1 DEF Init, Alone, ReadyWhenOrderly, ReadyMeansServed, ApiOutlivesOnlyKilled
<1>5. IsolatedFirst /\ NeverPublicWhenOrderly
  BY <1>1 DEF Init, IsolatedFirst, NeverPublicWhenOrderly, NeverPublic, Up, Holding
<1> QED BY <1>2, <1>3, <1>4, <1>5 DEF IInv

LEMMA NextInv == IInv /\ [Next]_vars => IInv'
BY TypeStep, CallersStep, ReapedStep, RecordedStep, BuildsAgainStep, AloneStep, ReadyStep,
   IsolatedStep, NeverPublicStep DEF IInv

LEMMA Invariance == Spec => []IInv
BY InitInv, NextInv, PTL DEF Spec

-----------------------------------------------------------------------------
(* Theorems *)

\* Every reachable state of the processes, the daemons and the repo is well typed: no
\* counter of wait_ready or isolate leaves its range, no process loses its daemon's name.
THEOREM TypeCorrect == Spec => []TypeOK
BY Invariance, PTL DEF IInv

\* However many processes share the repo, and whatever is killed when: none that returns
\* or fails leaves its daemon running, and `dsm serve' survives one ^C.  Only a ^C that
\* nothing catches, in a session's setup or in a shutdown, leaves one, told to stop.
THEOREM NoneLeftRunning == Spec => []Reaped
BY Invariance, PTL DEF IInv

\* build_or_get fails on the repo only where another process used it at the same time;
\* not after any failure or kill, at any step.
THEOREM ReBootstraps == Spec => []BuildsAgain
BY Invariance, PTL DEF IInv

\* While processes take turns and nothing is killed, whoever wait_ready tells that the
\* daemon serves has one that served; and an api file without its daemon proves a kill.
THEOREM ReadyIsTrue == Spec => []ReadyWhenOrderly
BY Invariance, PTL DEF IInv

\* While sessions of a home take turns and nothing is killed, every daemon on a repo
\* they made runs with all the settings that keep it off the public swarm.
THEOREM StaysPrivate == Spec => []NeverPublicWhenOrderly
BY Invariance, PTL DEF IInv

=============================================================================
