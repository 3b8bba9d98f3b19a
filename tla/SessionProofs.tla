---------------------------- MODULE SessionProofs ----------------------------
(* Theorems of Session for any sessions, cells, files and overlays. *)
EXTENDS Session, TLAPS

\* What a file f that s declared may hold, once its input was placed.
May(s, f) ==
  {InputOf(s)} \cup Theirs(s, f)
    \cup {v \in {None} : policy[s] = "Inherit" /\ name[s] \in cleaned}

\* What holds of a session on its way: before it began there is no trace of it;
\* nothing runs before setup; and it has its home, if nobody cleaned that away.
Known(s) ==
  /\ at[s] = "idle" => s \notin dirs /\ \A h \in Home : s \notin Range(holds[h])
  /\ at[s] \in {"idle", "copy", "overlay", "left", "unavailable"} => ~up[s]
  /\ at[s] = "copy" => policy[s] = "FromSnapshot"
  /\ at[s] \in {"copy", "overlay", "live", "remove"} =>
       Exists(home(s)) \/ (policy[s] = "Inherit" /\ name[s] \in cleaned)

\* The overlay as far as it went: what an ephemeral home holds, and what any other does.
Filled(s) ==
  at[s] = "overlay" =>
    /\ todo[s] \subseteq overlay[s]
    /\ policy[s] = "Ephemeral" =>
         \A f \in File :
           holds[s][f] = IF f \in overlay[s] \ todo[s] THEN InputOf(s) ELSE None
    /\ \A f \in overlay[s] \ todo[s] : holds[home(s)][f] \in May(s, f)

SessionsInv == \A s \in Sessions : Known(s) /\ Filled(s)

IInv ==
  /\ TypeOK /\ SessionsInv
  /\ Hermetic /\ DeclaredOrLoud
  /\ LiveHasHome /\ ScratchDiscarded

-----------------------------------------------------------------------------
(* Homes, and what a step writes to one *)

\* No home is two.
LEMMA Homes ==
  /\ \A n \in Name : Own(n) \in Durable /\ Named(n) \in Durable
  /\ \A h \in Durable : \E n \in Name : h = Own(n) \/ h = Named(n)
  /\ \A n, m \in Name : Own(n) # Named(m)
  /\ \A n, m \in Name : Own(n) = Own(m) => n = m
  /\ \A n, m \in Name : Named(n) = Named(m) => n = m
  /\ Sessions \cap Durable = {}
  /\ Home = Durable \cup Sessions
<1>1. \A n, m : Own(n) # Named(m)
  BY DEF Own, Named
<1>2. \A n, m : (Own(n) = Own(m) => n = m) /\ (Named(n) = Named(m) => n = m)
  BY DEF Own, Named
<1>3. Sessions \cap Durable = {}
  BY SessionAssumption
<1> QED BY <1>1, <1>2, <1>3 DEF Durable, Home

\* No content is two, and an input is told by its session.
LEMMA Contents ==
  /\ \A s \in Sessions : /\ InputOf(s) \in Content /\ s \in Content
                         /\ InputOf(s) # None /\ InputOf(s) \notin Sessions /\ s # None
  /\ Before # None /\ Before \in Content
  /\ Before \notin Sessions /\ None \notin Sessions
BY SessionAssumption DEF Content

LEMMA HomeOf ==
  ASSUME TypeOK, NEW s \in Sessions
  PROVE  /\ home(s) \in Home
         /\ policy[s] = "Inherit" => home(s) = Own(name[s])
         /\ policy[s] = "Persistent" => home(s) = Named(name[s])
         /\ Scratch(s) <=> home(s) = s
         /\ \A n \in Name : home(s) = Own(n) => policy[s] = "Inherit" /\ name[s] = n
         /\ \A t \in Sessions : home(s) = t => s = t
<1>1. policy[s] \in Policy /\ name[s] \in Name
  BY DEF TypeOK
<1> QED BY <1>1, Homes DEF home, HomeFor, Scratch, Policy

\* To write a file is to write this one only.
LEMMA Put ==
  ASSUME TypeOK, NEW h \in Home, NEW f \in File, NEW v \in Content \cup {None},
         holds' = [holds EXCEPT ![h][f] = v]
  PROVE  /\ holds' \in [Home -> [File -> Content \cup {None}]]
         /\ holds'[h][f] = v
         /\ \A e \in File \ {f} : holds'[h][e] = holds[h][e]
         /\ \A g \in Home \ {h} : holds'[g] = holds[g]
<1>1. holds[h] \in [File -> Content \cup {None}] /\ holds \in [Home -> [File -> Content \cup {None}]]
  BY DEF TypeOK
<1>2. [holds[h] EXCEPT ![f] = v] \in [File -> Content \cup {None}]
  BY <1>1
<1>3. holds' = [holds EXCEPT ![h] = [holds[h] EXCEPT ![f] = v]]
  BY <1>1
<1> QED BY <1>1, <1>2, <1>3

LEMMA BlankType ==
  /\ Blank \in [File -> Content \cup {None}]
  /\ \A f \in File : Blank[f] = None
BY DEF Blank

\* The writes: a copy, an input, a process's own.
Writes(s, h, f, v) ==
  \/ CopyFile(s) /\ h = s /\ v = holds[source[s]][f]
  \/ PlaceInput(s) /\ h = home(s) /\ v = InputOf(s) /\ f \in todo[s]
  \/ Write(s) /\ h = home(s) /\ v = s

\* What a step writes, and to where.
LEMMA Written ==
  ASSUME TypeOK, NEW s \in Sessions, CopyFile(s) \/ PlaceInput(s) \/ Write(s)
  PROVE  \E h \in Home, f \in File, v \in Content \cup {None} :
           Writes(s, h, f, v) /\ holds' = [holds EXCEPT ![h][f] = v]
             /\ (~Write(s) => todo' = [todo EXCEPT ![s] = @ \ {f}] /\ f \in todo[s])
<1>0. todo[s] \subseteq File /\ source[s] \in Home /\ home(s) \in Home /\ s \in Home
  BY HomeOf, Homes DEF TypeOK
<1>1. CASE CopyFile(s)
  <2>1. PICK f \in todo[s] : /\ holds' = [holds EXCEPT ![s][f] = holds[source[s]][f]]
                             /\ todo' = [todo EXCEPT ![s] = @ \ {f}]
    BY <1>1 DEF CopyFile
  <2>2. f \in File /\ holds[source[s]][f] \in Content \cup {None}
    BY <1>0 DEF TypeOK
  <2> QED BY <1>0, <1>1, <2>1, <2>2 DEF Writes
<1>2. CASE PlaceInput(s)
  <2>1. PICK f \in todo[s] : /\ holds' = [holds EXCEPT ![home(s)][f] = InputOf(s)]
                             /\ todo' = [todo EXCEPT ![s] = @ \ {f}]
    BY <1>2 DEF PlaceInput
  <2> QED BY <1>0, <1>2, <2>1, Contents DEF Writes
<1>3. CASE Write(s)
  <2>1. PICK f \in File : holds' = [holds EXCEPT ![home(s)][f] = s]
    BY <1>3 DEF Write
  <2>2. Writes(s, home(s), f, s) /\ s \in Content
    BY <1>3, Contents DEF Writes
  <2>3. Write(s)
    BY <1>3
  <2> QED BY <1>0, <2>1, <2>2, <2>3
<1> QED BY <1>1, <1>2, <1>3

\* A home is emptied: that of a session that is over, or a fixed one by dsm clean.
Empties(h) ==
  /\ holds'[h] = Blank /\ h \notin dirs'
  /\ \/ \E s \in Sessions : Remove(s) /\ Scratch(s) /\ h = s
     \/ \E n \in cleaned' : n \in Name /\ h = Own(n)

\* A session gets its home: it begins, or places an input.
Makes(s, h) == (Begin(s) \/ BeginSnapshot(s) \/ PlaceInput(s)) /\ h = home(s)'

\* All that may happen to a home.
LEMMA HomeSteps ==
  ASSUME TypeOK, [Next]_vars
  PROVE  /\ holds' \in [Home -> [File -> Content \cup {None}]]
         /\ \A h \in Home : \A f \in File :
              \/ holds'[h][f] = holds[h][f]
              \/ \E s \in Sessions : Writes(s, h, f, holds'[h][f])
              \/ Empties(h)
         /\ dirs' \subseteq Home
         /\ \A h \in dirs' : h \in dirs \/ \E s \in Sessions : Makes(s, h)
         /\ \A h \in dirs : h \in dirs' \/ Empties(h)
<1> DEFINE Goal == /\ holds' \in [Home -> [File -> Content \cup {None}]]
                   /\ \A h \in Home : \A f \in File :
                        \/ holds'[h][f] = holds[h][f]
                        \/ \E s \in Sessions : Writes(s, h, f, holds'[h][f])
                        \/ Empties(h)
                   /\ dirs' \subseteq Home
                   /\ \A h \in dirs' : h \in dirs \/ \E s \in Sessions : Makes(s, h)
                   /\ \A h \in dirs : h \in dirs' \/ Empties(h)
<1>0. /\ holds \in [Home -> [File -> Content \cup {None}]] /\ dirs \subseteq Home
      /\ name \in [Sessions -> Name] /\ policy \in [Sessions -> Policy]
  BY DEF TypeOK
<1>1. ASSUME UNCHANGED <<dirs, holds>> PROVE Goal
  BY <1>0, <1>1
<1>2. ASSUME NEW s \in Sessions, Begin(s) \/ BeginSnapshot(s) PROVE Goal
  <2>1. PICK q \in Policy : policy' = [policy EXCEPT ![s] = q] /\ dirs' = dirs \cup {HomeFor(s, q)}
    BY <1>2 DEF Begin, BeginSnapshot, Open, Policy
  <2>2. UNCHANGED <<holds, name>>
    BY <1>2 DEF Begin, BeginSnapshot, Open
  <2>3. home(s)' = HomeFor(s, q)
    BY <1>0, <2>1, <2>2 DEF home, HomeFor
  <2>4. HomeFor(s, q) \in Home
    BY <1>0, Homes DEF HomeFor
  <2> QED BY <1>0, <1>2, <2>1, <2>2, <2>3, <2>4 DEF Makes
<1>3. ASSUME NEW s \in Sessions, CopyFile(s) \/ PlaceInput(s) \/ Write(s) PROVE Goal
  <2>1. PICK h \in Home, f \in File, v \in Content \cup {None} :
          Writes(s, h, f, v) /\ holds' = [holds EXCEPT ![h][f] = v]
    BY <1>3, Written
  <2>2. /\ holds' \in [Home -> [File -> Content \cup {None}]]
        /\ holds'[h][f] = v
        /\ \A e \in File \ {f} : holds'[h][e] = holds[h][e]
        /\ \A g \in Home \ {h} : holds'[g] = holds[g]
    BY <2>1, Put
  <2>3. /\ dirs' \subseteq Home
        /\ \A g \in dirs' : g \in dirs \/ Makes(s, g)
        /\ \A g \in dirs : g \in dirs'
    <3>1. CASE PlaceInput(s)
      <4>1. dirs' = dirs \cup {home(s)} /\ home(s)' = home(s)
        BY <3>1 DEF PlaceInput, home, HomeFor
      <4> QED BY <1>0, <3>1, <4>1, HomeOf DEF Makes
    <3>2. CASE CopyFile(s) \/ Write(s)
      BY <1>0, <3>2 DEF CopyFile, Write
    <3> QED BY <1>3, <3>1, <3>2
  <2> QED BY <2>1, <2>2, <2>3
<1>4. ASSUME NEW s \in Sessions, Remove(s) PROVE Goal
  <2>1. CASE Discarded(s)
    <3>1. /\ home(s) = s /\ s \in Home
          /\ dirs' = dirs \ {s} /\ holds' = [holds EXCEPT ![s] = Blank]
      BY <1>4, <2>1, HomeOf, Homes DEF Remove, Drop, Discarded
    <3>2. holds' \in [Home -> [File -> Content \cup {None}]]
      BY <1>0, <3>1, BlankType
    <3>3. Empties(s)
      BY <1>0, <1>4, <2>1, <3>1 DEF Empties, Discarded
    <3> QED BY <1>0, <3>1, <3>2, <3>3
  <2>2. CASE ~Discarded(s)
    BY <1>1, <1>4, <2>2 DEF Remove, Drop
  <2> QED BY <2>1, <2>2
<1>5. ASSUME NEW ns, ns \subseteq Name, Clean(ns) PROVE Goal
  <2>1. /\ cleaned' = ns /\ dirs' = dirs \ {Own(n) : n \in ns}
        /\ holds' = [h \in Home |-> IF h \in {Own(n) : n \in ns} THEN Blank ELSE holds[h]]
    BY <1>5 DEF Clean
  <2>2. holds' \in [Home -> [File -> Content \cup {None}]]
    BY <1>0, <2>1, BlankType
  <2>3. ASSUME NEW h \in Home
        PROVE  (holds'[h] = holds[h] /\ (h \in dirs => h \in dirs')) \/ Empties(h)
    BY <1>5, <2>1, <2>3 DEF Empties
  <2>4. dirs' \subseteq dirs
    BY <2>1
  <2> QED BY <1>0, <2>2, <2>3, <2>4
<1>6. \/ \E s \in Sessions : Begin(s) \/ BeginSnapshot(s)
      \/ \E s \in Sessions : CopyFile(s) \/ PlaceInput(s) \/ Write(s)
      \/ \E s \in Sessions : Remove(s)
      \/ \E ns : ns \subseteq Name /\ Clean(ns)
      \/ UNCHANGED <<dirs, holds>>
  <2>1. ASSUME NEW n \in Name, Clean({n}) PROVE \E ns : ns \subseteq Name /\ Clean(ns)
    BY <2>1
  <2>2. ASSUME Clean({n \in Name : Exists(Own(n))}) PROVE \E ns : ns \subseteq Name /\ Clean(ns)
    BY <2>2
  <2> QED BY <2>1, <2>2 DEF Next, Step, vars, NoSnapshot, CopyFails, Copied, MissingInput, SetUp,
               SetUpFails, TearDown, TearDownFails, RemovePartly, Crash, Seal
<1> QED BY <1>1, <1>2, <1>3, <1>4, <1>5, <1>6

\* What a session is, it stays once it has begun; a clean is not taken back.
LEMMA Settled ==
  ASSUME TypeOK, [Next]_vars
  PROVE  /\ name' = name
         /\ \A s \in Sessions : at[s] # "idle" =>
              /\ at'[s] # "idle"
              /\ policy'[s] = policy[s] /\ overlay'[s] = overlay[s] /\ source'[s] = source[s]
              /\ home(s)' = home(s)
         /\ cleaned # {} => cleaned' = cleaned
         /\ sealed \cap Sessions \subseteq sealed'
<1>0. /\ at \in [Sessions -> Pc] /\ policy \in [Sessions -> Policy]
      /\ overlay \in [Sessions -> Overlays \cup {{}}] /\ source \in [Sessions -> Durable]
  BY DEF TypeOK
<1>1. name' = name /\ (cleaned # {} => cleaned' = cleaned)
  BY DEF Next, Step, vars, session, Begin, BeginSnapshot, Open, NoSnapshot, CopyFile, CopyFails,
         Copied, PlaceInput, MissingInput, SetUp, SetUpFails, Write, TearDown, TearDownFails,
         Remove, RemovePartly, Crash, Seal, Clean
<1>2. ASSUME NEW s \in Sessions, at[s] # "idle"
      PROVE  /\ at'[s] # "idle"
             /\ policy'[s] = policy[s] /\ overlay'[s] = overlay[s] /\ source'[s] = source[s]
  <2>1. \/ UNCHANGED <<at, policy, overlay, source>>
        \/ UNCHANGED <<policy, overlay, source>> /\ \E t \in Sessions : \E w : w # "idle" /\ Goto(t, w)
        \/ \E t \in Sessions : \E q, o, w :
             /\ at[t] = "idle" /\ Goto(t, w)
             /\ policy' = [policy EXCEPT ![t] = q]
             /\ overlay' = [overlay EXCEPT ![t] = o]
             /\ \A r \in Sessions \ {t} : source'[r] = source[r]
    <3>1. CASE \E t \in Sessions : Begin(t) \/ BeginSnapshot(t)
      BY <1>0, <3>1 DEF Begin, BeginSnapshot, Open
    <3>2. ASSUME NEW t \in Sessions,
                 \/ NoSnapshot(t) \/ CopyFails(t) \/ Copied(t) \/ MissingInput(t) \/ SetUp(t)
                 \/ SetUpFails(t) \/ TearDown(t) \/ TearDownFails(t) \/ Remove(t)
                 \/ RemovePartly(t) \/ Crash(t)
          PROVE  /\ UNCHANGED <<policy, overlay, source>>
                 /\ \E w : w # "idle" /\ Goto(t, w)
      <4>1. UNCHANGED <<policy, overlay, source>>
        BY <3>2 DEF NoSnapshot, CopyFails, Copied, MissingInput, SetUp, SetUpFails, TearDown,
                    TearDownFails, Remove, RemovePartly, Crash
      <4>2. \/ Goto(t, "unavailable") \/ Goto(t, "left") \/ Goto(t, "overlay") \/ Goto(t, "live")
            \/ Goto(t, "remove") \/ Goto(t, "over") \/ Goto(t, "crashed")
        BY <3>2 DEF NoSnapshot, CopyFails, Copied, MissingInput, SetUp, SetUpFails, TearDown,
                    TearDownFails, Remove, RemovePartly, Crash
      <4> QED BY <4>1, <4>2
    <3>3. ASSUME \/ UNCHANGED vars
                 \/ \E t \in Sessions : CopyFile(t) \/ PlaceInput(t) \/ Write(t) \/ Seal(t)
                 \/ \E ns : Clean(ns)
          PROVE  UNCHANGED <<at, policy, overlay, source>>
      BY <3>3 DEF vars, session, CopyFile, PlaceInput, Write, Seal, Clean
    <3> QED BY <3>1, <3>2, <3>3 DEF Next, Step
  <2> QED BY <1>0, <1>2, <2>1 DEF Goto
<1>3. sealed \cap Sessions \subseteq sealed'
  <2>1. ASSUME NEW ns, ns \subseteq Name, Clean(ns)
        PROVE  sealed \cap Sessions \subseteq sealed'
    BY <2>1, Homes DEF Clean
  <2>2. CASE ~(\E ns : ns \subseteq Name /\ Clean(ns))
    <3>1. ~(\E n \in Name : Clean({n})) /\ ~Clean({n \in Name : Exists(Own(n))})
      BY <2>2
    <3> QED BY <3>1 DEF Next, Step, vars, Begin, BeginSnapshot, Open, NoSnapshot, CopyFile,
         CopyFails, Copied, PlaceInput, MissingInput, SetUp, SetUpFails, Write, Seal, TearDown,
         TearDownFails, Remove, RemovePartly, Crash
  <2> QED BY <2>1, <2>2
<1> QED BY <1>1, <1>2, <1>3 DEF home, HomeFor

-----------------------------------------------------------------------------
(* The inductive invariant, part by part *)

\* No step leaves the types, and what is not there stays empty.
LEMMA TypeStep ==
  ASSUME TypeOK, SessionsInv, [Next]_vars
  PROVE  TypeOK'
<1>0. /\ at \in [Sessions -> Pc] /\ policy \in [Sessions -> Policy]
      /\ overlay \in [Sessions -> Overlays \cup {{}}] /\ source \in [Sessions -> Durable]
      /\ todo \in [Sessions -> SUBSET File] /\ up \in [Sessions -> BOOLEAN]
      /\ saw \in [Sessions -> [File -> Content \cup {None}]]
      /\ holds \in [Home -> [File -> Content \cup {None}]]
      /\ Overlays \subseteq SUBSET File
  BY SessionAssumption DEF TypeOK
<1>1. \A h \in Home \ dirs' : holds'[h] = Blank
  <2> SUFFICES ASSUME NEW h \in Home, h \notin dirs', ~Empties(h)
               PROVE  holds'[h] = Blank
    BY DEF Empties
  <2>1. h \notin dirs
    BY HomeSteps
  <2>2. ASSUME NEW f \in File PROVE holds'[h][f] = holds[h][f]
    <3> SUFFICES ASSUME NEW s \in Sessions, Writes(s, h, f, holds'[h][f]) PROVE FALSE
      BY HomeSteps
    <3>1. CASE CopyFile(s) /\ h = s
      <4>1. at[s] = "copy" /\ policy[s] = "FromSnapshot"
        BY <3>1 DEF CopyFile, SessionsInv, Known
      <4>2. home(s) = s /\ Exists(home(s))
        BY <4>1, HomeOf DEF SessionsInv, Known, Scratch
      <4> QED BY <2>1, <3>1, <4>2 DEF Exists
    <3>2. CASE PlaceInput(s) /\ h = home(s)
      BY <3>2 DEF PlaceInput
    <3>3. CASE Write(s) /\ h = home(s)
      BY <2>1, <3>3 DEF Write, Exists
    <3> QED BY <3>1, <3>2, <3>3 DEF Writes
  <2>3. holds'[h] \in [File -> Content \cup {None}] /\ holds[h] = Blank
    BY <2>1, HomeSteps DEF TypeOK
  <2> QED BY <2>2, <2>3 DEF Blank
<1>2. sealed' \subseteq dirs' /\ cleaned' \subseteq Name /\ name' \in [Sessions -> Name]
  <2>0. sealed \subseteq dirs /\ cleaned \subseteq Name /\ name \in [Sessions -> Name]
    BY DEF TypeOK
  <2>1. ASSUME NEW ns, ns \subseteq Name, Clean(ns)
        PROVE  sealed' \subseteq dirs' /\ cleaned' \subseteq Name /\ name' = name
    BY <2>0, <2>1 DEF Clean, session
  <2>2. ASSUME NEW s \in Sessions, CopyFile(s)
        PROVE  sealed' \subseteq dirs' /\ UNCHANGED <<cleaned, name>>
    <3>1. s \in dirs
      <4>1. at[s] = "copy" /\ policy[s] = "FromSnapshot"
        BY <2>2 DEF CopyFile, SessionsInv, Known
      <4> QED BY <4>1, HomeOf DEF SessionsInv, Known, Scratch, Exists
    <3> QED BY <2>0, <2>2, <3>1 DEF CopyFile
  <2>3. ASSUME NEW s \in Sessions, Seal(s)
        PROVE  sealed' \subseteq dirs' /\ UNCHANGED <<cleaned, name>>
    BY <2>3 DEF Seal, Exists, session
  <2>4. ASSUME NEW s \in Sessions, Remove(s)
        PROVE  sealed' \subseteq dirs' /\ UNCHANGED <<cleaned, name>>
    BY <2>0, <2>4 DEF Remove, Drop
  <2>5. CASE UNCHANGED vars \/ \E s \in Sessions :
               Step(s) /\ ~CopyFile(s) /\ ~Seal(s) /\ ~Remove(s)
    <3>1. UNCHANGED <<sealed, cleaned, name>> /\ dirs \subseteq dirs'
      BY <2>5 DEF Step, vars, session, Begin, BeginSnapshot, Open, NoSnapshot,
         CopyFails, Copied, PlaceInput, MissingInput, SetUp, SetUpFails, Write, TearDown,
         TearDownFails, RemovePartly, Crash
    <3> QED BY <2>0, <3>1
  <2>6. \/ \E ns : ns \subseteq Name /\ Clean(ns)
        \/ UNCHANGED vars \/ \E s \in Sessions : Step(s)
    <3>1. ASSUME NEW n \in Name, Clean({n}) PROVE \E ns : ns \subseteq Name /\ Clean(ns)
      BY <3>1
    <3>2. ASSUME Clean({n \in Name : Exists(Own(n))}) PROVE \E ns : ns \subseteq Name /\ Clean(ns)
      BY <3>2
    <3> QED BY <3>1, <3>2 DEF Next
  <2> QED BY <2>0, <2>1, <2>2, <2>3, <2>4, <2>5, <2>6
<1> DEFINE Typed == /\ at' \in [Sessions -> Pc] /\ policy' \in [Sessions -> Policy]
                    /\ overlay' \in [Sessions -> Overlays \cup {{}}]
                    /\ source' \in [Sessions -> Durable]
                    /\ todo' \in [Sessions -> SUBSET File] /\ up' \in [Sessions -> BOOLEAN]
                    /\ saw' \in [Sessions -> [File -> Content \cup {None}]]
<1>3. Typed
  <2>1. ASSUME UNCHANGED session PROVE Typed
    BY <1>0, <2>1 DEF session
  <2>2. ASSUME NEW s \in Sessions, Begin(s) \/ BeginSnapshot(s) PROVE Typed
    <3>1. CASE Begin(s)
      BY <1>0, <3>1 DEF Begin, Open, Goto, Pc
    <3>2. CASE BeginSnapshot(s)
      BY <1>0, <3>2 DEF BeginSnapshot, Open, Goto, Pc, Policy
    <3> QED BY <2>2, <3>1, <3>2
  <2>3. ASSUME NEW s \in Sessions, CopyFile(s) \/ PlaceInput(s) PROVE Typed
    <3>1. UNCHANGED <<at, policy, overlay, source, up, saw>>
      BY <2>3 DEF CopyFile, PlaceInput
    <3>2. \E f \in todo[s] : todo' = [todo EXCEPT ![s] = @ \ {f}]
      BY <2>3 DEF CopyFile, PlaceInput
    <3> QED BY <1>0, <3>1, <3>2
  <2>4. ASSUME NEW s \in Sessions, Copied(s) PROVE Typed
    <3>1. overlay[s] \in SUBSET File
      BY <1>0
    <3> QED BY <1>0, <2>4, <3>1 DEF Copied, Goto, Pc
  <2>5. ASSUME NEW s \in Sessions,
               NoSnapshot(s) \/ CopyFails(s) \/ MissingInput(s) \/ Crash(s)
        PROVE  Typed
    BY <1>0, <2>5 DEF NoSnapshot, CopyFails, MissingInput, Crash, Goto, Pc
  <2>6. ASSUME NEW s \in Sessions, SetUp(s) \/ SetUpFails(s) PROVE Typed
    <3>1. holds[home(s)] \in [File -> Content \cup {None}]
      BY <1>0, HomeOf
    <3> QED BY <1>0, <2>6, <3>1 DEF SetUp, SetUpFails, Goto, Pc
  <2>7. ASSUME NEW s \in Sessions,
               TearDown(s) \/ TearDownFails(s) \/ Remove(s) \/ RemovePartly(s)
        PROVE  Typed
    <3>1. UNCHANGED <<policy, overlay, source, todo>>
      BY <2>7 DEF TearDown, TearDownFails, Remove, RemovePartly
    <3>2. Goto(s, "remove") \/ Goto(s, "over")
      BY <2>7 DEF TearDown, TearDownFails, Remove, RemovePartly
    <3>3. \/ UNCHANGED <<up, saw>>
          \/ up' = [up EXCEPT ![s] = FALSE] /\ saw' = [saw EXCEPT ![s] = Blank]
      BY <2>7 DEF TearDown, TearDownFails, Remove, RemovePartly
    <3> QED BY <1>0, <3>1, <3>2, <3>3, BlankType DEF Goto, Pc
  <2>8. ASSUME \/ UNCHANGED vars \/ \E s \in Sessions : Write(s) \/ Seal(s)
               \/ \E ns : Clean(ns)
        PROVE  UNCHANGED session
    BY <2>8 DEF vars, session, Write, Seal, Clean
  <2> QED BY <2>1, <2>2, <2>3, <2>4, <2>5, <2>6, <2>7, <2>8 DEF Next, Step
<1> QED BY <1>1, <1>2, <1>3, HomeSteps DEF TypeOK

\* A session that the step is not of.
Same(s) ==
  /\ at'[s] = at[s] /\ policy'[s] = policy[s] /\ overlay'[s] = overlay[s]
  /\ source'[s] = source[s] /\ todo'[s] = todo[s] /\ up'[s] = up[s] /\ saw'[s] = saw[s]

LEMMA Others ==
  ASSUME TypeOK, [Next]_vars
  PROVE  \A s \in Sessions : Same(s) \/ (Step(s) /\ ~Write(s) /\ ~Seal(s))
<1>0. /\ at \in [Sessions -> Pc] /\ policy \in [Sessions -> Policy]
      /\ overlay \in [Sessions -> Overlays \cup {{}}] /\ source \in [Sessions -> Durable]
      /\ todo \in [Sessions -> SUBSET File] /\ up \in [Sessions -> BOOLEAN]
      /\ saw \in [Sessions -> [File -> Content \cup {None}]]
  BY DEF TypeOK
<1>1. ASSUME UNCHANGED session PROVE \A s \in Sessions : Same(s)
  BY <1>1 DEF session, Same
<1>2. ASSUME NEW t \in Sessions, Step(t), ~Write(t), ~Seal(t)
      PROVE  \A s \in Sessions \ {t} : Same(s)
  <2>1. CASE Begin(t) \/ BeginSnapshot(t)
    BY <1>0, <2>1 DEF Begin, BeginSnapshot, Open, Goto, Same
  <2>2. CASE CopyFile(t) \/ PlaceInput(t)
    <3>1. UNCHANGED <<at, policy, overlay, source, up, saw>>
      BY <2>2 DEF CopyFile, PlaceInput
    <3>2. \E f \in todo[t] : todo' = [todo EXCEPT ![t] = @ \ {f}]
      BY <2>2 DEF CopyFile, PlaceInput
    <3> QED BY <1>0, <3>1, <3>2 DEF Same
  <2>3. CASE NoSnapshot(t) \/ CopyFails(t) \/ Copied(t) \/ MissingInput(t) \/ Crash(t)
    BY <1>0, <2>3 DEF NoSnapshot, CopyFails, Copied, MissingInput, Crash, Goto, Same
  <2>4. CASE SetUp(t) \/ SetUpFails(t) \/ TearDown(t) \/ TearDownFails(t)
    BY <1>0, <2>4 DEF SetUp, SetUpFails, TearDown, TearDownFails, Goto, Same
  <2>5. CASE Remove(t) \/ RemovePartly(t)
    <3>1. UNCHANGED <<policy, overlay, source, todo, up, saw>> /\ Goto(t, "over")
      BY <2>5 DEF Remove, RemovePartly
    <3> QED BY <1>0, <3>1 DEF Goto, Same
  <2> QED BY <1>2, <2>1, <2>2, <2>3, <2>4, <2>5 DEF Step
<1>3. ASSUME \/ UNCHANGED vars \/ \E s \in Sessions : Write(s) \/ Seal(s)
             \/ \E ns : Clean(ns)
      PROVE  UNCHANGED session
  BY <1>3 DEF vars, session, Write, Seal, Clean
<1> QED BY <1>1, <1>2, <1>3 DEF Next

\* Nobody writes to, or makes, the scratch home of another; and a session
\* writes, also by its copies, only once it has begun.
LEMMA WhoseHome ==
  ASSUME TypeOK, SessionsInv, [Next]_vars, NEW s \in Sessions, NEW h \in Home
  PROVE  /\ \A f, v : Writes(s, h, f, v) => h = home(s) /\ at[s] # "idle"
         /\ Makes(s, h) => h = home(s)' /\ at'[s] # "idle"
<1>0. at \in [Sessions -> Pc] /\ up \in [Sessions -> BOOLEAN] /\ Known(s)
  BY DEF TypeOK, SessionsInv
<1>1. ASSUME NEW f, NEW v, Writes(s, h, f, v) PROVE h = home(s) /\ at[s] # "idle"
  <2>1. CASE CopyFile(s) /\ h = s
    <3>1. at[s] = "copy" /\ policy[s] = "FromSnapshot"
      BY <1>0, <2>1 DEF CopyFile, Known
    <3> QED BY <2>1, <3>1, HomeOf DEF Scratch
  <2>2. CASE PlaceInput(s) /\ h = home(s)
    BY <2>2 DEF PlaceInput
  <2>3. CASE Write(s) /\ h = home(s)
    BY <1>0, <2>3 DEF Write, Known
  <2> QED BY <1>1, <2>1, <2>2, <2>3 DEF Writes
<1>2. ASSUME Makes(s, h) PROVE h = home(s)' /\ at'[s] # "idle"
  <2>1. Begin(s) \/ BeginSnapshot(s) \/ PlaceInput(s)
    BY <1>2 DEF Makes
  <2>2. at'[s] \in {"overlay", "copy"}
    <3>1. CASE Begin(s) \/ BeginSnapshot(s)
      BY <1>0, <3>1 DEF Begin, BeginSnapshot, Goto
    <3>2. CASE PlaceInput(s)
      BY <3>2 DEF PlaceInput
    <3> QED BY <2>1, <3>1, <3>2
  <2> QED BY <1>2, <2>2 DEF Makes
<1> QED BY <1>1, <1>2

\* A session that has yet to begin leaves no trace; one on its way has its home.
LEMMA KnownStep ==
  ASSUME TypeOK, SessionsInv, [Next]_vars, NEW s \in Sessions
  PROVE  Known(s)'
<1>0. /\ TypeOK' /\ Known(s)
      /\ at \in [Sessions -> Pc] /\ up \in [Sessions -> BOOLEAN] /\ policy \in [Sessions -> Policy]
  BY TypeStep DEF TypeOK, SessionsInv
<1>1. ASSUME at'[s] = "idle"
      PROVE  s \notin dirs' /\ \A h \in Home : s \notin Range(holds'[h])
  <2>1. /\ at[s] = "idle" /\ ~up[s] /\ s \notin dirs
        /\ \A h \in Home : s \notin Range(holds[h])
    BY <1>0, <1>1, Settled DEF Known
  <2>2. s \notin dirs'
    <3> SUFFICES ASSUME NEW t \in Sessions, Makes(t, s) PROVE FALSE
      BY <2>1, HomeSteps
    <3>1. home(t)' = s /\ at'[t] # "idle"
      BY WhoseHome, Homes
    <3>2. t = s
      <4>1. name'[t] \in Name
        BY <1>0 DEF TypeOK
      <4>2. home(t)' = t \/ home(t)' = Own(name'[t]) \/ home(t)' = Named(name'[t])
        BY DEF home, HomeFor, Own, Named
      <4> QED BY <3>1, <4>1, <4>2, Homes
    <3> QED BY <1>1, <3>1, <3>2
  <2>3. ASSUME NEW h \in Home PROVE s \notin Range(holds'[h])
    <3> SUFFICES ASSUME NEW f \in File, holds'[h][f] = s PROVE FALSE
      BY <1>0 DEF TypeOK, Range
    <3>1. holds[h][f] # s
      BY <2>1 DEF TypeOK, Range
    <3>2. ~Empties(h)
      BY BlankType, Contents DEF Empties
    <3>3. PICK t \in Sessions : Writes(t, h, f, s)
      BY <3>1, <3>2, HomeSteps
    <3>4. CASE CopyFile(t) /\ s = holds[source[t]][f]
      <4>1. source[t] \in Home
        BY Homes DEF TypeOK
      <4> QED BY <2>1, <3>4, <4>1 DEF TypeOK, Range
    <3>5. CASE s = InputOf(t)
      BY <3>5, Contents
    <3>6. CASE Write(t) /\ s = t
      BY <2>1, <3>6 DEF Write
    <3> QED BY <3>3, <3>4, <3>5, <3>6 DEF Writes
  <2> QED BY <2>2, <2>3
<1>2. at'[s] \in {"idle", "copy", "overlay", "left", "unavailable"} => ~up'[s]
  <2>1. CASE Same(s)
    BY <1>0, <2>1 DEF Same, Known
  <2>2. CASE Begin(s) \/ BeginSnapshot(s) \/ NoSnapshot(s)
    BY <1>0, <2>2 DEF Begin, BeginSnapshot, Open, NoSnapshot, Known
  <2>3. CASE CopyFile(s) \/ CopyFails(s) \/ Copied(s) \/ PlaceInput(s) \/ MissingInput(s)
    BY <1>0, <2>3 DEF CopyFile, CopyFails, Copied, PlaceInput, MissingInput, Known
  <2>4. CASE SetUp(s) \/ SetUpFails(s) \/ TearDown(s) \/ TearDownFails(s) \/ Crash(s)
    BY <1>0, <2>4 DEF SetUp, SetUpFails, TearDown, TearDownFails, Crash, Goto
  <2>5. CASE Remove(s) \/ RemovePartly(s)
    BY <1>0, <2>5 DEF Remove, RemovePartly, Goto
  <2> QED BY <2>1, <2>2, <2>3, <2>4, <2>5, Others DEF Step
<1>3. at'[s] = "copy" => policy'[s] = "FromSnapshot"
  <2>1. CASE at[s] = "copy"
    BY <1>0, <2>1, Settled DEF Known
  <2>2. CASE at[s] # "copy" /\ BeginSnapshot(s)
    BY <1>0, <2>2 DEF BeginSnapshot, Open
  <2>3. CASE at[s] # "copy" /\ ~BeginSnapshot(s)
    <3>1. at'[s] = at[s] \/ at'[s] # "copy"
      BY <1>0, <2>3, Others DEF Same, Step, Begin, NoSnapshot, CopyFile, CopyFails, Copied,
         PlaceInput, MissingInput, SetUp, SetUpFails, TearDown, TearDownFails, Remove,
         RemovePartly, Crash, Goto
    <3> QED BY <2>3, <3>1
  <2> QED BY <2>1, <2>2, <2>3
<1>4. ASSUME at'[s] \in {"copy", "overlay", "live", "remove"}
      PROVE  home(s)' \in dirs' \/ (policy'[s] = "Inherit" /\ name'[s] \in cleaned')
  <2>1. CASE at[s] \in {"copy", "overlay", "live", "remove"}
    <3>1. /\ home(s)' = home(s) /\ policy'[s] = policy[s] /\ name' = name
          /\ cleaned # {} => cleaned' = cleaned
      BY <2>1, Settled
    <3>2. CASE policy[s] = "Inherit" /\ name[s] \in cleaned
      BY <3>1, <3>2
    <3>3. CASE home(s) \in dirs /\ Empties(home(s))
      <4>1. CASE \E t \in Sessions : Remove(t) /\ Scratch(t) /\ home(s) = t
        <5>1. Remove(s)
          BY <4>1, HomeOf
        <5> QED BY <1>0, <1>4, <5>1 DEF Remove, Goto
      <4>2. CASE \E n \in cleaned' : n \in Name /\ home(s) = Own(n)
        <5>1. policy[s] = "Inherit" /\ name[s] \in cleaned'
          BY <4>2, HomeOf
        <5> QED BY <3>1, <5>1
      <4> QED BY <3>3, <4>1, <4>2 DEF Empties
    <3> QED BY <1>0, <2>1, <3>1, <3>2, <3>3, HomeSteps DEF Known, Exists
  <2>2. CASE at[s] \notin {"copy", "overlay", "live", "remove"}
    <3>1. Begin(s) \/ BeginSnapshot(s)
      BY <1>0, <1>4, <2>2, Others DEF Same, Step, NoSnapshot, CopyFile, CopyFails, Copied,
         PlaceInput, MissingInput, SetUp, SetUpFails, TearDown, TearDownFails, Remove,
         RemovePartly, Crash, Goto
    <3>2. home(s)' \in dirs'
      BY <1>0, <3>1 DEF Begin, BeginSnapshot, Open, home, HomeFor
    <3> QED BY <3>2
  <2> QED BY <2>1, <2>2
<1> QED BY <1>1, <1>2, <1>3, <1>4 DEF Known, Exists

\* What a declared file may hold it may hold for good: who shares a home goes on sharing it.
LEMMA MayStays ==
  ASSUME TypeOK, [Next]_vars, NEW s \in Sessions, at[s] # "idle", NEW f, NEW v, v \in May(s, f)
  PROVE  v \in May(s, f)'
<1>1. /\ name' = name /\ policy'[s] = policy[s] /\ home(s)' = home(s)
      /\ name[s] \in cleaned => name[s] \in cleaned'
  BY Settled
<1>2. ASSUME NEW t \in Sessions \ {s}, at[t] # "idle", home(t) = home(s)
      PROVE  at'[t] # "idle" /\ home(t)' = home(s)' /\ overlay'[t] = overlay[t]
  BY <1>1, <1>2, Settled
<1>3. v \in Theirs(s, f) => v \in Theirs(s, f)'
  BY <1>2 DEF Theirs, InputOf
<1> QED BY <1>1, <1>3 DEF May

\* What an unfinished overlay has placed stays, in a home that is the session's alone.
LEMMA FilledStep ==
  ASSUME TypeOK, SessionsInv, [Next]_vars, NEW s \in Sessions
  PROVE  Filled(s)'
<1> SUFFICES ASSUME at'[s] = "overlay"
             PROVE  /\ todo'[s] \subseteq overlay'[s]
                    /\ policy'[s] = "Ephemeral" =>
                         \A f \in File : holds'[s][f] =
                           IF f \in overlay'[s] \ todo'[s] THEN InputOf(s) ELSE None
                    /\ \A f \in overlay'[s] \ todo'[s] : holds'[home(s)'][f] \in May(s, f)'
  BY DEF Filled, InputOf, May
<1>0. /\ at \in [Sessions -> Pc] /\ policy \in [Sessions -> Policy]
      /\ todo \in [Sessions -> SUBSET File] /\ Known(s) /\ Filled(s) /\ TypeOK'
      /\ overlay \in [Sessions -> Overlays \cup {{}}]
  BY TypeStep DEF TypeOK, SessionsInv
\* it begins to overlay
<1>1. CASE Begin(s) \/ Copied(s)
  <2>1. todo'[s] = overlay'[s]
    BY <1>0, <1>1 DEF Begin, Open, Copied
  <2>2. ASSUME policy'[s] = "Ephemeral", NEW f \in File
        PROVE  holds'[s][f] = None
    <3>1. CASE Begin(s)
      <4>1. s \notin dirs /\ s \in Home /\ holds' = holds
        BY <1>0, <3>1, Homes DEF Begin, Open, Known
      <4> QED BY <4>1, BlankType DEF TypeOK
    <3>2. CASE Copied(s)
      BY <1>0, <2>2, <3>2 DEF Copied, Known
    <3> QED BY <1>1, <3>1, <3>2
  <2> QED BY <2>1, <2>2
\* it places an input
<1>2. CASE PlaceInput(s)
  <2>1. PICK f \in todo[s] : /\ holds' = [holds EXCEPT ![home(s)][f] = InputOf(s)]
                             /\ todo'[s] = todo[s] \ {f}
    BY <1>0, <1>2 DEF PlaceInput
  <2>2. at[s] = "overlay" /\ home(s)' = home(s) /\ UNCHANGED <<overlay, policy, at, name>>
    BY <1>2 DEF PlaceInput, home, HomeFor
  <2>3. /\ holds'[home(s)][f] = InputOf(s)
        /\ \A e \in File \ {f} : holds'[home(s)][e] = holds[home(s)][e]
    <3>1. /\ home(s) \in Home /\ f \in File /\ InputOf(s) \in Content \cup {None}
      BY <1>0, <2>1, HomeOf, Contents
    <3> QED BY <2>1, <3>1, Put
  <2>4. ASSUME NEW e, NEW v, v \in May(s, e) PROVE v \in May(s, e)'
    BY <2>2, <2>4, MayStays
  <2>5. policy[s] = "Ephemeral" => home(s) = s
    BY HomeOf DEF Scratch
  <2>6. f \in File /\ todo[s] \subseteq overlay[s] /\ overlay[s] \subseteq File
    BY <1>0, <2>2, SessionAssumption DEF Filled
  <2>7. policy'[s] = "Ephemeral" => \A e \in File :
          holds'[s][e] = IF e \in overlay'[s] \ todo'[s] THEN InputOf(s) ELSE None
    BY <1>0, <2>1, <2>2, <2>3, <2>5, <2>6 DEF Filled
  <2>8. ASSUME NEW e \in overlay'[s] \ todo'[s]
        PROVE  holds'[home(s)'][e] \in May(s, e)'
    <3>1. e \in File /\ (e = f \/ e \in overlay[s] \ todo[s])
      BY <2>1, <2>2, <2>6, <2>8
    <3>2. CASE e = f
      BY <2>2, <2>3, <3>2 DEF May
    <3>3. CASE e # f
      <4>1. holds[home(s)][e] \in May(s, e) /\ holds'[home(s)'][e] = holds[home(s)][e]
        BY <1>0, <2>2, <2>3, <3>1, <3>3 DEF Filled
      <4> QED BY <2>2, <2>4, <4>1
    <3> QED BY <3>2, <3>3
  <2> QED BY <2>1, <2>2, <2>6, <2>7, <2>8
\* somebody else steps
<1>3. CASE Same(s)
  <2>1. /\ at[s] = "overlay" /\ todo'[s] = todo[s] /\ overlay'[s] = overlay[s]
        /\ policy'[s] = policy[s] /\ home(s)' = home(s) /\ ~up[s]
        /\ overlay[s] \subseteq File /\ todo[s] \subseteq overlay[s]
    BY <1>0, <1>3, Settled, SessionAssumption DEF Same, Known, Filled
  <2>2. home(s) \in Home /\ name' = name
    BY HomeOf, Settled
  \* its home was cleaned
  <2>3. ASSUME NEW f \in File, Empties(home(s))
        PROVE  policy[s] = "Inherit" /\ name[s] \in cleaned' /\ holds'[home(s)][f] = None
    <3>1. ~Remove(s)
      BY <2>1 DEF Remove
    <3> QED BY <2>3, <3>1, HomeOf, BlankType DEF Empties
  \* somebody else wrote to it
  <2>4. ASSUME NEW f \in File, NEW t \in Sessions, Writes(t, home(s), f, holds'[home(s)][f])
        PROVE  t # s /\ home(t) = home(s) /\ holds'[home(s)][f] \in Theirs(s, f)
    <3>1. home(t) = home(s) /\ at[t] # "idle"
      BY <2>2, <2>4, WhoseHome
    <3>2. t # s
      <4>1. ~CopyFile(s) /\ ~Write(s)
        BY <2>1 DEF CopyFile, Write
      <4>2. ~PlaceInput(s)
        <5> SUFFICES ASSUME PlaceInput(s) PROVE FALSE
          OBVIOUS
        <5>1. \E e \in todo[s] : todo'[s] = todo[s] \ {e}
          BY <1>0 DEF PlaceInput
        <5> QED BY <2>1, <5>1
      <4> QED BY <2>4, <4>1, <4>2 DEF Writes
    <3>3. ~(CopyFile(t) /\ home(s) = t)
      BY <3>2, HomeOf
    <3>4. CASE PlaceInput(t) /\ f \in todo[t] /\ holds'[home(s)][f] = InputOf(t)
      <4>1. f \in overlay[t]
        BY <3>4 DEF PlaceInput, SessionsInv, Filled
      <4> QED BY <3>1, <3>2, <3>4, <4>1 DEF Theirs
    <3>5. CASE holds'[home(s)][f] = t
      BY <3>1, <3>2, <3>5 DEF Theirs
    <3> QED BY <2>4, <3>1, <3>2, <3>3, <3>4, <3>5 DEF Writes
  <2>5. ASSUME policy'[s] = "Ephemeral", NEW f \in File
        PROVE  holds'[s][f] = IF f \in overlay'[s] \ todo'[s] THEN InputOf(s) ELSE None
    <3>1. policy[s] = "Ephemeral" /\ home(s) = s
      BY <2>1, <2>5, HomeOf DEF Scratch
    <3>2. \A t \in Sessions : ~(t # s /\ home(t) = s)
      BY HomeOf
    <3>3. holds'[s][f] = holds[s][f]
      BY <2>2, <2>3, <2>4, <3>1, <3>2, HomeSteps
    <3> QED BY <1>0, <2>1, <3>1, <3>3 DEF Filled
  <2>6. ASSUME NEW f \in overlay'[s] \ todo'[s]
        PROVE  holds'[home(s)'][f] \in May(s, f)'
    <3> DEFINE v == holds'[home(s)][f]
    <3>0. f \in File /\ f \in overlay[s] \ todo[s] /\ at[s] # "idle"
      BY <2>1, <2>6
    <3>1. CASE v = holds[home(s)][f]
      <4>1. holds[home(s)][f] \in May(s, f)
        BY <1>0, <2>1, <3>0 DEF Filled
      <4>2. \A w : w \in May(s, f) => w \in May(s, f)'
        BY <3>0, MayStays
      <4> QED BY <2>1, <3>1, <4>1, <4>2
    <3>2. CASE \E t \in Sessions : Writes(t, home(s), f, v)
      <4>1. v \in May(s, f)
        BY <2>4, <3>0, <3>2 DEF May
      <4>2. \A w : w \in May(s, f) => w \in May(s, f)'
        BY <3>0, MayStays
      <4> QED BY <2>1, <4>1, <4>2
    <3>3. CASE Empties(home(s))
      BY <2>1, <2>2, <2>3, <3>0, <3>3 DEF May
    <3> QED BY <2>2, <3>0, <3>1, <3>2, <3>3, HomeSteps
  <2> QED BY <2>1, <2>5, <2>6
<1>4. \/ Begin(s) \/ Copied(s) \/ PlaceInput(s) \/ Same(s)
  BY <1>0, Others DEF Step, BeginSnapshot, NoSnapshot, CopyFile, CopyFails, MissingInput,
         SetUp, SetUpFails, TearDown, TearDownFails, Remove, RemovePartly, Crash, Goto
<1> QED BY <1>1, <1>2, <1>3, <1>4

\* What processes saw when they came up, they saw for good; and they come up
\* when the overlay is through.
LEMMA ComesUp ==
  ASSUME TypeOK, SessionsInv, [Next]_vars, NEW s \in Sessions, up'[s]
  PROVE  /\ at[s] # "idle"
         /\ policy'[s] = policy[s] /\ overlay'[s] = overlay[s] /\ home(s)' = home(s)
         /\ \/ up[s] /\ saw'[s] = saw[s]
            \/ at[s] = "overlay" /\ todo[s] = {} /\ saw'[s] = holds[home(s)]
<1>0. /\ at \in [Sessions -> Pc] /\ up \in [Sessions -> BOOLEAN] /\ Known(s)
      /\ saw \in [Sessions -> [File -> Content \cup {None}]]
  BY DEF TypeOK, SessionsInv
<1>1. \/ up[s] /\ saw'[s] = saw[s]
      \/ at[s] = "overlay" /\ todo[s] = {} /\ saw'[s] = holds[home(s)]
  <2>1. CASE Same(s)
    BY <2>1 DEF Same
  <2>2. CASE SetUp(s) \/ SetUpFails(s)
    BY <1>0, <2>2 DEF SetUp, SetUpFails
  <2>3. CASE TearDown(s)
    BY <1>0, <2>3 DEF TearDown
  <2>4. CASE Step(s) /\ ~Write(s) /\ ~SetUp(s) /\ ~SetUpFails(s) /\ ~TearDown(s)
    <3>1. UNCHANGED <<up, saw>>
      BY <2>4 DEF Step, Seal, session, Begin, BeginSnapshot, Open, NoSnapshot, CopyFile, CopyFails, Copied,
         PlaceInput, MissingInput, TearDownFails, Remove, RemovePartly, Crash
    <3> QED BY <3>1
  <2> QED BY <2>1, <2>2, <2>3, <2>4, Others
<1>2. at[s] # "idle"
  BY <1>0, <1>1 DEF Known
<1> QED BY <1>1, <1>2, Settled

LEMMA ComesUpCleanStep ==
  ASSUME TypeOK, SessionsInv, ComesUpClean, [Next]_vars
  PROVE  ComesUpClean'
<1> SUFFICES ASSUME NEW s \in Sessions, up'[s], policy'[s] = "Ephemeral"
             PROVE  saw'[s] = [f \in File |-> IF f \in overlay'[s] THEN InputOf(s) ELSE None]
  BY DEF ComesUpClean, InputOf
<1>1. policy[s] = "Ephemeral" /\ overlay'[s] = overlay[s]
  BY ComesUp
<1>2. CASE up[s] /\ saw'[s] = saw[s]
  BY <1>1, <1>2 DEF ComesUpClean
<1>3. CASE at[s] = "overlay" /\ todo[s] = {} /\ saw'[s] = holds[home(s)]
  <2>1. home(s) = s /\ s \in Home
    BY <1>1, HomeOf DEF Scratch
  <2>2. holds[s] \in [File -> Content \cup {None}]
    BY <2>1 DEF TypeOK
  <2>3. \A f \in File : holds[s][f] = IF f \in overlay[s] THEN InputOf(s) ELSE None
    BY <1>1, <1>3 DEF SessionsInv, Filled
  <2> QED BY <1>1, <1>3, <2>1, <2>2, <2>3
<1> QED BY <1>2, <1>3, ComesUp

LEMMA DeclaredStep ==
  ASSUME TypeOK, SessionsInv, DeclaredOrLoud, [Next]_vars
  PROVE  DeclaredOrLoud'
<1> SUFFICES ASSUME NEW s \in Sessions, up'[s], NEW f \in overlay'[s]
             PROVE  saw'[s][f] \in May(s, f)'
  BY DEF DeclaredOrLoud, May
<1>1. at[s] # "idle" /\ f \in overlay[s]
  BY ComesUp
<1>2. saw'[s][f] \in May(s, f)
  BY <1>1, ComesUp DEF DeclaredOrLoud, SessionsInv, Filled, May
<1>3. \A v : v \in May(s, f) => v \in May(s, f)'
  BY <1>1, MayStays
<1> QED BY <1>2, <1>3

\* A session's home is the one it is meant to use.
LEMMA UsesHome ==
  ASSUME TypeOK, NEW s \in Sessions, NEW h \in Home
  PROVE  Uses(s, h) <=> h = home(s)
<1>1. policy[s] \in Policy /\ name[s] \in Name
  BY DEF TypeOK
<1> QED BY <1>1, HomeOf, Homes DEF Uses, Scratch, Policy, home, HomeFor

\* WritesStayHome in the terms of these proofs.
Reaches(s, h) ==
  h = home(s) \/ (h \in Sessions /\ policy[h] = "FromSnapshot" /\ source[h] = home(s))

WritesReach ==
  \A h \in Home, f \in File, s \in Sessions : holds[h][f] = s => Reaches(s, h)

LEMMA WritesReachHome == TypeOK => (WritesStayHome <=> WritesReach)
<1> SUFFICES ASSUME TypeOK PROVE WritesStayHome <=> WritesReach
  OBVIOUS
<1>1. \A h \in Home : DOMAIN holds[h] = File
  BY DEF TypeOK
<1>2. ASSUME NEW h \in Home, NEW s \in Sessions
      PROVE  (Uses(s, h) \/ (h \in Sessions /\ policy[h] = "FromSnapshot" /\ Uses(s, source[h])))
               <=> Reaches(s, h)
  <2>1. h \in Sessions => source[h] \in Home
    BY Homes DEF TypeOK
  <2> QED BY <2>1, UsesHome DEF Reaches
<1> QED BY <1>1, <1>2 DEF WritesStayHome, WritesReach, Range

LEMMA WritesStep ==
  ASSUME TypeOK, SessionsInv, WritesStayHome, [Next]_vars
  PROVE  WritesStayHome'
<1>0. WritesReach
  BY WritesReachHome
<1>1. ASSUME NEW h \in Home, NEW f \in File, NEW s \in Sessions, holds'[h][f] = s
      PROVE  \/ h = home(s)'
             \/ h \in Sessions /\ policy'[h] = "FromSnapshot" /\ source'[h] = home(s)'
  <2>0. at \in [Sessions -> Pc] /\ up \in [Sessions -> BOOLEAN]
    BY DEF TypeOK
  <2>1. CASE s = holds[h][f]
    <3>1. at[s] # "idle" /\ Reaches(s, h)
      <4>1. s \in Range(holds[h])
        BY <2>1 DEF TypeOK, Range
      <4> QED BY <1>0, <1>1, <2>1, <4>1 DEF SessionsInv, Known, WritesReach
    <3>2. h \in Sessions => at[h] # "idle"
      <4> SUFFICES ASSUME h \in Sessions, at[h] = "idle" PROVE FALSE
        OBVIOUS
      <4>1. holds[h] = Blank
        BY DEF SessionsInv, Known, TypeOK
      <4> QED BY <1>1, <2>1, <4>1, BlankType, Contents
    <3> QED BY <1>1, <3>1, <3>2, Settled DEF Reaches
  <2>2. CASE s # holds[h][f]
    <3>1. ~Empties(h)
      BY <1>1, BlankType, Contents DEF Empties
    <3>2. PICK t \in Sessions : Writes(t, h, f, s)
      BY <1>1, <2>2, <3>1, HomeSteps
    <3>3. UNCHANGED <<policy, source>> /\ home(s)' = home(s)
      <4>1. UNCHANGED <<policy, source, name>>
        <5>1. CopyFile(t) \/ PlaceInput(t) \/ Write(t)
          BY <3>2 DEF Writes
        <5> QED BY <5>1 DEF CopyFile, PlaceInput, Write, session
      <4> QED BY <4>1 DEF home, HomeFor
    <3>4. CASE CopyFile(t) /\ h = t /\ s = holds[source[t]][f]
      <4>1. policy[t] = "FromSnapshot" /\ source[t] \in Home /\ source[t] \notin Sessions
        BY <3>4, Homes DEF CopyFile, SessionsInv, Known, TypeOK
      <4>2. source[t] = home(s)
        BY <1>0, <1>1, <3>4, <4>1 DEF WritesReach, Reaches
      <4> QED BY <3>3, <3>4, <4>1, <4>2
    <3>5. s # InputOf(t)
      BY <1>1, Contents
    <3>6. CASE Write(t) /\ h = home(t) /\ s = t
      BY <3>3, <3>6
    <3> QED BY <3>2, <3>4, <3>5, <3>6 DEF Writes
  <2> QED BY <2>1, <2>2
<1>2. WritesReach'
  BY <1>1 DEF WritesReach, Reaches
<1>3. TypeOK' => (WritesStayHome' <=> WritesReach')
  BY WritesReachHome, PTL
<1> QED BY <1>2, <1>3, TypeStep

\* Homes are there while they are needed, and scratch homes no longer.
LEMMA HomesStep ==
  ASSUME TypeOK, SessionsInv, ScratchDiscarded, [Next]_vars
  PROVE  LiveHasHome' /\ ScratchDiscarded'
<1>1. LiveHasHome'
  BY KnownStep DEF LiveHasHome, Known
<1>2. ScratchDiscarded'
  <2> SUFFICES ASSUME NEW s \in Sessions, at'[s] = "over", Scratch(s)', ~up'[s], s \in dirs'
               PROVE  s \in sealed'
    BY DEF ScratchDiscarded, Exists
  <2>0. at \in [Sessions -> Pc] /\ up \in [Sessions -> BOOLEAN] /\ policy \in [Sessions -> Policy]
    BY DEF TypeOK
  <2>1. CASE Same(s)
    <3>1. s \notin dirs \/ s \in sealed
      BY <2>1 DEF Same, ScratchDiscarded, Scratch, Exists
    <3>2. ASSUME NEW t \in Sessions, Makes(t, s) PROVE FALSE
      <4>1. home(t)' = s
        BY <3>2, WhoseHome, Homes
      <4>2. name'[t] \in Name
        BY TypeStep DEF TypeOK
      <4>3. home(t)' = t \/ home(t)' = Own(name'[t]) \/ home(t)' = Named(name'[t])
        BY DEF home, HomeFor, Own, Named
      <4>4. t = s
        BY <4>1, <4>2, <4>3, Homes
      <4>5. at'[s] = "overlay" \/ at'[s] = "copy"
        BY <2>0, <3>2, <4>4 DEF Makes, Begin, BeginSnapshot, PlaceInput, Goto
      <4> QED BY <4>5
    <3> QED BY <3>1, <3>2, HomeSteps, Settled
  <2>2. CASE Remove(s)
    <3>1. policy'[s] = policy[s]
      BY <2>2 DEF Remove
    <3>2. Scratch(s) /\ home(s) = s
      BY <3>1, HomeOf DEF Scratch
    <3> QED BY <2>2, <3>2 DEF Remove, Drop, Discarded
  <2>3. CASE RemovePartly(s)
    <3>1. home(s) = s
      BY <2>3, HomeOf DEF RemovePartly, Discarded
    <3> QED BY <2>3, <3>1 DEF RemovePartly
  <2>4. CASE Step(s) /\ ~Write(s) /\ ~Seal(s) /\ ~Remove(s) /\ ~RemovePartly(s)
    BY <2>0, <2>4 DEF Step, Begin, BeginSnapshot, Open, NoSnapshot, CopyFile, CopyFails,
         Copied, PlaceInput, MissingInput, SetUp, SetUpFails, TearDown, TearDownFails, Crash, Goto
  <2> QED BY <2>1, <2>2, <2>3, <2>4, Others
<1> QED BY <1>1, <1>2

\* No step takes a file from a named home.
LEMMA NamedStep ==
  ASSUME TypeOK, SessionsInv, [Next]_vars, NEW n \in Name, NEW f \in File,
         holds[Named(n)][f] # None
  PROVE  holds'[Named(n)][f] # None
<1>1. Named(n) \in Home /\ Named(n) \notin Sessions
  BY Homes
<1>2. ~Empties(Named(n))
  BY <1>1, Homes DEF Empties
<1>3. ASSUME NEW s \in Sessions, Writes(s, Named(n), f, holds'[Named(n)][f])
      PROVE  holds'[Named(n)][f] # None
  BY <1>1, <1>3, Contents DEF Writes
<1> QED BY <1>1, <1>2, <1>3, HomeSteps

LEMMA InitInv == Init => IInv
<1> SUFFICES ASSUME Init PROVE IInv
  OBVIOUS
<1>0. /\ name \in [Sessions -> Name] /\ policy = [s \in Sessions |-> "Ephemeral"]
      /\ \A s \in Sessions : at[s] = "idle" /\ up[s] = FALSE /\ name[s] \in Name
      /\ \A h \in Home : holds[h] = [f \in File |-> IF h \in dirs THEN Before ELSE None]
  BY DEF Init
<1>1. dirs \subseteq Durable
  BY <1>0, Homes DEF Init, Range
<1>2. TypeOK
  <2>1. holds \in [Home -> [File -> Content \cup {None}]]
    BY <1>0, Contents DEF Init
  <2>2. \A h \in Home \ dirs : holds[h] = Blank
    BY <1>0 DEF Blank
  <2>3. \A s \in Sessions : Own(name[s]) \in Durable
    BY <1>0, Homes
  <2> QED BY <1>0, <1>1, <2>1, <2>2, <2>3, BlankType, Homes, SessionAssumption
          DEF Init, TypeOK, Pc, Policy
<1>3. ASSUME NEW h \in Home PROVE Range(holds[h]) \cap Sessions = {}
  BY <1>0, <1>3, Contents DEF Range
<1>4. SessionsInv
  BY <1>0, <1>1, <1>3, Homes DEF SessionsInv, Known, Filled
<1>5. Hermetic /\ DeclaredOrLoud
  BY <1>0, <1>3 DEF Hermetic, ComesUpClean, WritesStayHome, DeclaredOrLoud
<1>6. LiveHasHome /\ ScratchDiscarded
  BY <1>0 DEF LiveHasHome, ScratchDiscarded
<1> QED BY <1>2, <1>4, <1>5, <1>6 DEF IInv

LEMMA NextInv == IInv /\ [Next]_vars => IInv'
<1>1. TypeOK /\ SessionsInv /\ [Next]_vars => SessionsInv'
  BY KnownStep, FilledStep DEF SessionsInv
<1> QED BY <1>1, TypeStep, ComesUpCleanStep, WritesStep, DeclaredStep, HomesStep
        DEF IInv, Hermetic

LEMMA Invariance == Spec => []IInv
BY InitInv, NextInv, PTL DEF Spec

-----------------------------------------------------------------------------
(* Theorems *)

\* Every reachable state of the homes and the sessions is well typed, and a home that does
\* not exist holds nothing.
THEOREM TypeCorrect == Spec => []TypeOK
BY Invariance, PTL DEF IInv

\* For any number of sessions: an ephemeral one comes up in a home that holds the inputs it
\* declared and nothing else, and what a session writes stays in the home its policy gives
\* it, and in the snapshots taken of that.
THEOREM KeptApart == Spec => []Hermetic
BY Invariance, PTL DEF IInv

\* Under any policy: where a session finds in place of an input it declared something else,
\* another session of the same home declares that very file or its processes wrote it, or the
\* fixed home was cleaned.  It never finds what the home held before, nor a snapshot's copy.
THEOREM InputsOrNothing == Spec => []DeclaredOrLoud
BY Invariance, PTL DEF IInv

\* A live session has its home unless that was cleaned; a scratch home outlives its session
\* only with a process in it, or with a read-only directory; and no step takes a file from a
\* named home.
THEOREM HomesEndWhenTheyShould == Spec => HomesLiveAndDie
<1>1. IInv /\ [Next]_vars =>
        [\A n \in Name, f \in File :
           holds[Named(n)][f] # None => holds'[Named(n)][f] # None]_holds
  BY NamedStep DEF IInv
<1>2. IInv => LiveHasHome /\ ScratchDiscarded
  BY DEF IInv
<1> QED BY <1>1, <1>2, Invariance, PTL DEF Spec, HomesLiveAndDie, NamedAccumulates

=============================================================================
