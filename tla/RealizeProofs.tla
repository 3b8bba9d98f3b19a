---------------------------- MODULE RealizeProofs ----------------------------
(* Theorems of Realize for every cell and any number of builders.           *)
EXTENDS Realize, FiniteSetTheorems, TLAPS

\* The dependencies b has yet to come to.
Items(s) == {s[i] : i \in DOMAIN s}
Left(b) == Items(todo[b])

\* Where a builder has a dependency in its hands; has read a pin for it that
\* is there; has built it; and has built it as it is pinned.
Holding == {"look", "which", "compare", "copy", "mint", "rehash"}
Building == {"compare", "copy", "mint"}

\* What a builder holds where.
Holds(b) ==
  /\ at[b] \in Holding => \E d \in Dep : dep[b] = {d}
  /\ at[b] \notin Holding => dep[b] = {}
  /\ at[b] \in Holding \ {"look"} => pin[b] # Absent
  /\ at[b] \in Building => built[b] # Absent
  /\ at[b] \in {"copy", "mint"} => built[b] = pin[b]

HoldsInv == \A b \in Builder : Holds(b)

\* What b read of the nucleus is still so.
Fresh(b) == edits = 0 \/ quiet[b]

\* Then its pin is the pin, its build the build, and what it witnessed true.
UpToDate(b) ==
  /\ \A d \in dep[b] :
       /\ pin[b] = pins[d]
       /\ at[b] \in Building => built[b] = Output[recipe][d]
  /\ \A c \in witnessed[b] : TrueClaim(c)

FreshInv ==
  /\ \A b \in Builder : Fresh(b) => UpToDate(b)
  /\ edits = 0 => \A c \in ledger : TrueClaim(c)

\* A builder at work that nobody disturbs is the only one at work, and what it
\* is done with is as it is pinned.
AloneInv ==
  \A b \in Builder : quiet[b] /\ Busy(b) =>
    /\ \A c \in Builder \ {b} : ~Busy(c)
    /\ \A d \in Dep \ (Left(b) \cup dep[b]) : hash[b][d] = pins[d] /\ blob[d] = pins[d]
    /\ at[b] \in {"mint", "rehash"} => \A d \in dep[b] : blob[d] = pins[d]

\* Once it is done, so is every blob, and whoever comes after it finds that the
\* blobs are true and builds none.
Untouched(c) ==
  Busy(c) =>
    /\ at[c] \in {"next", "look", "rehash"}
    /\ \A d \in dep[c] : pin[c] = pins[d]

ReadyInv ==
  \A b \in Builder : quiet[b] /\ at[b] = "ready" =>
    /\ \A d \in Dep : hash[b][d] = pins[d] /\ blob[d] = pins[d]
    /\ \A c \in Builder : Untouched(c)

\* b has seen to d.
Through(b, d) ==
  \/ at[b] = "ready"
  \/ /\ Busy(b) /\ d \notin Left(b)
     /\ d \in dep[b] => at[b] \in {"mint", "rehash"}

Copying(d) == {c \in Builder : at[c] = "copy" /\ dep[c] = {d}}

\* A dependency somebody has seen to is as it is pinned, or somebody is about
\* to make it so; and no file that is being written goes away.
Settled ==
  \A d \in Dep :
    /\ (\E b \in Builder : Through(b, d)) => blob[d] = pins[d] \/ Copying(d) # {}
    /\ Copying(d) # {} => blob[d] # Absent

SettledInv == edits = 0 /\ kills = 0 => Settled

\* What was built is attested, or somebody is about to attest it.
Attests(c, m) == c.dep = m[1] /\ c.artifact = m[2]

Attested(m) ==
  \/ \E c \in ledger : Attests(c, m)
  \/ \E b \in Builder :
       /\ Busy(b)
       /\ \/ at[b] = "mint" /\ dep[b] = {m[1]} /\ pin[b] = m[2]
          \/ \E c \in witnessed[b] : Attests(c, m)

AttestedInv == kills = 0 /\ failures = {} => \A m \in made : Attested(m)

IInv == /\ TypeOK /\ HoldsInv /\ FreshInv /\ AloneInv /\ ReadyInv /\ SettledInv
        /\ AttestedInv

-----------------------------------------------------------------------------
(* The data and the moves *)

\* The first dependency of a list, and the rest.
LEMMA Listed ==
  ASSUME NEW s \in Seq(Dep), s # <<>>
  PROVE  /\ Head(s) \in Dep /\ Tail(s) \in Seq(Dep)
         /\ Items(s) = {Head(s)} \cup Items(Tail(s))
<1>1. /\ Head(s) \in Dep /\ Tail(s) \in Seq(Dep)
      /\ Len(s) \in Nat \ {0} /\ DOMAIN s = 1..Len(s) /\ Head(s) = s[1]
      /\ DOMAIN Tail(s) = 1..(Len(s) - 1)
      /\ \A i \in 1..(Len(s) - 1) : Tail(s)[i] = s[i + 1]
  OBVIOUS
<1>2. ASSUME NEW i \in DOMAIN s
      PROVE  s[i] = Head(s) \/ \E j \in DOMAIN Tail(s) : Tail(s)[j] = s[i]
  <2>1. CASE i = 1
    BY <1>1, <2>1
  <2>2. CASE i # 1
    <3>1. i - 1 \in 1..(Len(s) - 1) /\ (i - 1) + 1 = i
      BY <1>1, <2>2
    <3> QED BY <1>1, <3>1
  <2> QED BY <2>1, <2>2
<1>3. ASSUME NEW j \in DOMAIN Tail(s)
      PROVE  \E i \in DOMAIN s : s[i] = Tail(s)[j]
  <2>1. j + 1 \in 1..Len(s)
    BY <1>1
  <2> QED BY <1>1, <2>1
<1>4. 1 \in DOMAIN s
  BY <1>1
<1>5. Head(s) \in Items(s)
  BY <1>1, <1>4 DEF Items
<1>6. Items(s) \subseteq {Head(s)} \cup Items(Tail(s))
  BY <1>2 DEF Items
<1>7. Items(Tail(s)) \subseteq Items(s)
  BY <1>3 DEF Items
<1> QED BY <1>1, <1>5, <1>6, <1>7

LEMMA NoneListed == <<>> \in Seq(Dep) /\ Items(<<>>) = {}
BY DEF Items

\* The list of the dependencies has them all.
LEMMA AllListed ==
  /\ Declared \in Seq(Dep)
  /\ Items(Declared) = Dep
<1>1. /\ Declared \in Seq(Dep)
      /\ \A d \in Dep : \E i \in DOMAIN Declared : Declared[i] = d
  BY RealizeAssumption
<1>2. \A i \in DOMAIN Declared : Declared[i] \in Dep
  BY <1>1
<1> QED BY <1>1, <1>2 DEF Items

\* A build is content, and content is neither absent nor torn.
LEMMA Contents ==
  /\ \A r \in Recipe, d \in Dep : Output[r][d] \in Content
  /\ Absent \notin Content /\ Torn \notin Content /\ Absent # Torn
<1>1. \A r \in Recipe, d \in Dep : Output[r][d] \in Content
  BY DEF Content
<1>2. Absent \notin Content /\ Torn \notin Content /\ Absent # Torn
  BY RealizeAssumption
<1> QED BY <1>1, <1>2

\* A step of b leaves the others' locals alone.
Same(c) ==
  /\ at'[c] = at[c] /\ todo'[c] = todo[c] /\ dep'[c] = dep[c] /\ pin'[c] = pin[c]
  /\ built'[c] = built[c] /\ hash'[c] = hash[c] /\ witnessed'[c] = witnessed[c]

\* What is left to b when it dies: nothing.
Dead(b) ==
  /\ at'[b] \in {"failed", "killed"} /\ todo'[b] = <<>> /\ dep'[b] = {}
  /\ pin'[b] = Absent /\ built'[b] = Absent
  /\ hash'[b] = [d \in Dep |-> Absent] /\ witnessed'[b] = {}

\* The places where a builder can give up.
Dies(b) ==
  \/ Unpinned(b) \/ Unavailable(b) \/ BuildFails(b) \/ Mismatch(b) \/ CopyLost(b)
  \/ RehashFails(b)

\* What each action reads and changes, and that it changes nothing else.
LEMMA GetMoves ==
  ASSUME TypeOK, NEW b \in Builder, Get(b)
  PROVE  /\ at[b] \in Ended /\ at'[b] = "next" /\ todo'[b] = Declared
         /\ hash'[b] = [d \in Dep |-> Absent] /\ witnessed'[b] = {}
         /\ UNCHANGED <<cell, blob, ledger, made, edits, kills, failures>>
         /\ UNCHANGED <<dep, pin, built>>
         /\ \A c \in Builder \ {b} : Same(c)
BY DEF TypeOK, Goto, Get, Same, cell

LEMMA ReadPinMoves ==
  ASSUME TypeOK, NEW b \in Builder, ReadPin(b)
  PROVE  /\ at[b] = "next" /\ at'[b] = "look" /\ todo[b] # <<>>
         /\ todo'[b] = Tail(todo[b]) /\ dep'[b] = {Head(todo[b])}
         /\ pin'[b] = pins[Head(todo[b])]
         /\ UNCHANGED <<cell, blob, ledger, history, built, hash, witnessed>>
         /\ \A c \in Builder \ {b} : Same(c)
BY DEF TypeOK, Goto, ReadPin, Same, cell, history

LEMMA LookMoves ==
  ASSUME TypeOK, NEW b \in Builder, Look(b)
  PROVE  /\ at[b] = "look" /\ pin[b] # Absent
         /\ \E d \in dep[b] : at'[b] = IF blob[d] = pin[b] THEN "rehash" ELSE "which"
         /\ UNCHANGED <<cell, blob, ledger, history, todo, dep, pin, built, hash, witnessed>>
         /\ \A c \in Builder \ {b} : Same(c)
BY DEF TypeOK, Goto, Look, Same, cell, history

LEMMA BuildMoves ==
  ASSUME TypeOK, NEW b \in Builder, Build(b)
  PROVE  /\ at[b] = "which" /\ at'[b] = "compare"
         /\ \E d \in dep[b] : built'[b] = Output[recipe][d]
         /\ UNCHANGED <<cell, blob, ledger, history, todo, dep, pin, hash, witnessed>>
         /\ \A c \in Builder \ {b} : Same(c)
BY DEF TypeOK, Goto, Build, Same, cell, history

LEMMA OpenBlobMoves ==
  ASSUME TypeOK, NEW b \in Builder, OpenBlob(b)
  PROVE  /\ at[b] = "compare" /\ at'[b] = "copy" /\ built[b] = pin[b]
         /\ \E d \in dep[b] : blob' = [blob EXCEPT ![d] = Torn]
         /\ UNCHANGED <<cell, ledger, history, todo, dep, pin, built, hash, witnessed>>
         /\ \A c \in Builder \ {b} : Same(c)
BY DEF TypeOK, Goto, OpenBlob, Same, cell, history

LEMMA CopyBlobMoves ==
  ASSUME TypeOK, NEW b \in Builder, CopyBlob(b)
  PROVE  /\ at[b] = "copy" /\ at'[b] = "mint"
         /\ \E d \in dep[b] :
                /\ \/ blob' = [blob EXCEPT ![d] = built[b]]
                   \/ /\ \/ \E c \in Builder \ {b} : at[c] = "copy" /\ dep[c] = {d}
                         \/ edits > 0 /\ ~quiet[b]
                      /\ blob' = [blob EXCEPT ![d] = Torn]
                   \/ edits > 0 /\ ~quiet[b] /\ UNCHANGED blob
                /\ made' = made \cup {<<d, built[b]>>}
         /\ UNCHANGED <<cell, ledger, edits, kills, failures, quiet>>
         /\ UNCHANGED <<todo, dep, pin, built, hash, witnessed>>
         /\ \A c \in Builder \ {b} : Same(c)
BY DEF TypeOK, Goto, CopyBlob, Same, cell

LEMMA MintMoves ==
  ASSUME TypeOK, NEW b \in Builder, Mint(b)
  PROVE  /\ at[b] = "mint" /\ at'[b] = "rehash"
         /\ \E d \in dep[b] :
                witnessed'[b] = witnessed[b] \cup {Claim(recipe, pins, d, pin[b])}
         /\ UNCHANGED <<cell, blob, ledger, history, todo, dep, pin, built, hash>>
         /\ \A c \in Builder \ {b} : Same(c)
BY DEF TypeOK, Goto, Mint, Same, cell, history

LEMMA RehashMoves ==
  ASSUME TypeOK, NEW b \in Builder, Rehash(b)
  PROVE  /\ at[b] = "rehash" /\ at'[b] = "next" /\ dep'[b] = {} /\ pin'[b] = Absent
         /\ \E d \in dep[b] :
                blob[d] # Absent /\ hash'[b] = [hash[b] EXCEPT ![d] = blob[d]]
         /\ UNCHANGED <<cell, blob, ledger, history, todo, witnessed>>
         /\ \A c \in Builder \ {b} : Same(c)
BY DEF TypeOK, Goto, Rehash, Same, cell, history

LEMMA SaveMoves ==
  ASSUME TypeOK, NEW b \in Builder, Save(b)
  PROVE  /\ at[b] = "next"
         /\ \E c \in witnessed[b] : ledger' = ledger \cup {c}
         /\ UNCHANGED <<cell, blob, history, at, todo, dep, pin, built, hash, witnessed>>
         /\ \A c \in Builder \ {b} : Same(c)
BY DEF TypeOK, Goto, Save, Same, cell, history

LEMMA ReturnMoves ==
  ASSUME TypeOK, NEW b \in Builder, Return(b)
  PROVE  /\ at[b] = "next" /\ at'[b] = "ready" /\ todo[b] = <<>>
         /\ witnessed[b] \subseteq ledger
         /\ UNCHANGED <<cell, blob, ledger, history, todo, dep, pin, built, hash, witnessed>>
         /\ \A c \in Builder \ {b} : Same(c)
BY DEF TypeOK, Goto, Return, Same, cell, history

LEMMA FailMoves ==
  ASSUME TypeOK, NEW b \in Builder, Fail(b)
  PROVE  /\ Dead(b) /\ at'[b] = "failed" /\ failures' = failures \cup {b}
         /\ UNCHANGED <<cell, blob, ledger, made, edits, kills, quiet>>
         /\ \A c \in Builder \ {b} : Same(c)
BY DEF TypeOK, Goto, Fail, Forget, Dead, Same, cell

LEMMA KillMoves ==
  ASSUME TypeOK, NEW b \in Builder, Kill(b)
  PROVE  /\ Dead(b) /\ Busy(b) /\ kills' = kills + 1
         /\ UNCHANGED <<cell, blob, ledger, made, edits, failures, quiet>>
         /\ \A c \in Builder \ {b} : Same(c)
BY DEF TypeOK, Goto, Kill, Forget, Dead, Same, cell

\* None but Get is quiet about others, and it makes no one quiet but b.
LEMMA QuietMoves ==
  ASSUME TypeOK, NEW b \in Builder
  PROVE  /\ Get(b) /\ quiet'[b] => \A c \in Builder \ {b} : ~Busy(c)
         /\ Get(b) => \A c \in Builder \ {b} : quiet'[c] => quiet[c] /\ ~Busy(c)
         /\ (Step(b) \/ Kill(b)) => UNCHANGED quiet
<1>1. ASSUME Get(b)
      PROVE  /\ quiet'[b] => \A c \in Builder \ {b} : ~Busy(c)
             /\ \A c \in Builder \ {b} : quiet'[c] => quiet[c] /\ ~Busy(c)
  <2>1. quiet' = [c \in Builder |->
          IF c = b THEN \A o \in Builder \ {b} : ~Busy(o) ELSE quiet[c] /\ ~Busy(c)]
    BY <1>1 DEF Get
  <2>2. quiet'[b] = \A o \in Builder \ {b} : ~Busy(o)
    BY <2>1
  <2>3. \A c \in Builder \ {b} : quiet'[c] = (quiet[c] /\ ~Busy(c))
    BY <2>1
  <2> QED BY <2>2, <2>3, Zenon
<1>2. (Step(b) \/ Kill(b)) => UNCHANGED quiet
  BY DEF Step, Kill, ReadPin, Unpinned, Look, Unavailable, Build, BuildFails, Mismatch,
     OpenBlob, CopyBlob, CopyLost, Mint, Rehash, RehashFails, Save, Return, Fail, history
<1> QED BY <1>1, <1>2

\* What a builder does is one of these.
LEMMA Does ==
  ASSUME NEW b \in Builder, Get(b) \/ Step(b) \/ Kill(b)
  PROVE  \/ Get(b) \/ ReadPin(b) \/ Look(b) \/ Build(b) \/ OpenBlob(b) \/ CopyBlob(b)
         \/ Mint(b) \/ Rehash(b) \/ Save(b) \/ Return(b)
         \/ Dies(b) /\ Fail(b)
         \/ Kill(b)
BY DEF Step, Dies, Unpinned, Unavailable, BuildFails, Mismatch, CopyLost, RehashFails

LEMMA SameMoves ==
  ASSUME TypeOK, NEW b \in Builder, Get(b) \/ Step(b) \/ Kill(b)
  PROVE  \A c \in Builder \ {b} : Same(c)
BY Does, GetMoves, ReadPinMoves, LookMoves, BuildMoves, OpenBlobMoves, CopyBlobMoves,
   MintMoves, RehashMoves, SaveMoves, ReturnMoves, FailMoves, KillMoves

-----------------------------------------------------------------------------
(* Types, and what a builder holds *)

LEMMA HoldsStep ==
  ASSUME TypeOK, HoldsInv, [Next]_vars
  PROVE  HoldsInv'
<1>1. ASSUME NEW b \in Builder, Get(b) \/ Step(b) \/ Kill(b)
      PROVE  HoldsInv'
  <2> USE DEF Holding, Building, Ended
  <2>0. Holds(b) /\ b \in DOMAIN at
    BY DEF HoldsInv, TypeOK
  <2>1. ASSUME NEW c \in Builder \ {b} PROVE Holds(c)'
    <3>1. Same(c)
      BY <1>1, SameMoves
    <3> QED BY <3>1 DEF Same, HoldsInv, Holds
  <2>2. ASSUME Get(b) PROVE Holds(b)'
    BY <2>0, <2>2, GetMoves DEF Holds
  <2>3. ASSUME ReadPin(b) PROVE Holds(b)'
    <3>1. at'[b] = "look" /\ dep'[b] = {Head(todo[b])}
      BY <2>3, ReadPinMoves
    <3>2. Head(todo[b]) \in Dep
      BY <2>3, Listed DEF ReadPin, TypeOK
    <3> QED BY <3>1, <3>2 DEF Holds
  <2>4. ASSUME Look(b) PROVE Holds(b)'
    BY <2>0, <2>4, LookMoves DEF Holds
  <2>5. ASSUME Build(b) PROVE Holds(b)'
    <3>1. built'[b] # Absent
      <4>1. PICK d \in dep[b] : built'[b] = Output[recipe][d]
        BY <2>5, BuildMoves
      <4>2. recipe \in Recipe /\ d \in Dep
        BY <4>1 DEF TypeOK
      <4> QED BY <4>1, <4>2, Contents
    <3> QED BY <2>0, <2>5, <3>1, BuildMoves DEF Holds
  <2>6. ASSUME OpenBlob(b) PROVE Holds(b)'
    BY <2>0, <2>6, OpenBlobMoves DEF Holds
  <2>7. ASSUME CopyBlob(b) PROVE Holds(b)'
    <3>1. /\ at[b] = "copy" /\ at'[b] = "mint"
          /\ UNCHANGED <<dep, pin, built>>
      BY <2>7, CopyBlobMoves
    <3> QED BY <2>0, <3>1 DEF Holds
  <2>8. ASSUME Mint(b) PROVE Holds(b)'
    BY <2>0, <2>8, MintMoves DEF Holds
  <2>9. ASSUME Rehash(b) PROVE Holds(b)'
    <3>1. at'[b] = "next" /\ dep'[b] = {}
      BY <2>9, RehashMoves
    <3> QED BY <3>1 DEF Holds
  <2>10. ASSUME Save(b) PROVE Holds(b)'
    BY <2>0, <2>10, SaveMoves DEF Holds
  <2>11. ASSUME Return(b) PROVE Holds(b)'
    BY <2>0, <2>11, ReturnMoves DEF Holds
  <2>12. ASSUME Fail(b) \/ Kill(b) PROVE Holds(b)'
    BY <2>12, FailMoves, KillMoves DEF Dead, Holds
  <2>13. Holds(b)'
    BY <1>1, <2>2, <2>3, <2>4, <2>5, <2>6, <2>7, <2>8, <2>9, <2>10, <2>11, <2>12, Does
  <2> QED BY <2>1, <2>13 DEF HoldsInv
<1>2. CASE Edit
  BY <1>2 DEF Edit, HoldsInv, Holds
<1>3. CASE UNCHANGED vars
  BY <1>3 DEF vars, HoldsInv, Holds
<1> QED BY <1>1, <1>2, <1>3 DEF Next

LEMMA TypeStep ==
  ASSUME TypeOK, HoldsInv, HoldsInv', [Next]_vars
  PROVE  TypeOK'
<1> DEFINE Claims == [recipe : Recipe, pins : [Dep -> Content \cup {Absent}],
                      dep : Dep, artifact : Content]
<1>0. \A b \in Builder : Cardinality(dep'[b]) <= 1
  <2> SUFFICES ASSUME NEW b \in Builder PROVE Cardinality(dep'[b]) <= 1
    OBVIOUS
  <2>1. dep'[b] = {} \/ \E d \in Dep : dep'[b] = {d}
    BY DEF HoldsInv, Holds
  <2>3. CASE dep'[b] = {}
    <3>1. Cardinality({}) = 0
      BY FS_EmptySet
    <3> QED BY <2>3, <3>1
  <2>4. CASE \E d \in Dep : dep'[b] = {d}
    <3>1. PICK d : dep'[b] = {d}
      BY <2>4
    <3>2. Cardinality({d}) = 1
      BY FS_Singleton
    <3> QED BY <3>1, <3>2
  <2> QED BY <2>1, <2>3, <2>4
<1>b. \A b \in Builder : b \in DOMAIN at /\ Holds(b)
  BY DEF TypeOK, HoldsInv
<1> USE DEF TypeOK, Goto
<1>1. CASE Edit
  <2>1. edits' \in 0..MaxEdits
    BY <1>1, RealizeAssumption DEF Edit
  <2>2. pins' \in [Dep -> Content \cup {Absent}]
    BY <1>1, RealizeAssumption DEF Edit
  <2>3. recipe' \in Recipe /\ blob' \in [Dep -> Content \cup {Absent, Torn}]
    BY <1>1 DEF Edit
  <2>4. quiet' \in [Builder -> BOOLEAN]
    BY <1>1 DEF Edit
  <2> QED BY <1>1, <1>0, <2>1, <2>2, <2>3, <2>4 DEF Edit
<1>2. ASSUME NEW b \in Builder, Get(b) PROVE TypeOK'
  <2>1. todo' \in [Builder -> Seq(Dep)] /\ witnessed' \in [Builder -> SUBSET Claims]
    BY <1>2, AllListed DEF Get
  <2>2. hash' \in [Builder -> [Dep -> Content \cup {Absent, Torn}]]
    BY <1>2 DEF Get
  <2>3. quiet' \in [Builder -> BOOLEAN]
    BY <1>2 DEF Get, Busy
  <2>4. at' \in [Builder -> Ended \cup {"next", "look", "which", "compare", "copy",
                                        "mint", "rehash"}]
    BY <1>2 DEF Get
  <2> QED BY <1>2, <1>0, <2>1, <2>2, <2>3, <2>4 DEF Get, cell
<1>3. ASSUME NEW b \in Builder, ReadPin(b) PROVE TypeOK'
  <2>1. Head(todo[b]) \in Dep /\ Tail(todo[b]) \in Seq(Dep)
    BY <1>3, Listed DEF ReadPin
  <2> QED BY <1>3, <1>0, <2>1 DEF ReadPin, history, cell
<1>4. ASSUME NEW b \in Builder, Look(b) PROVE TypeOK'
  <2>1. at' \in [Builder -> Ended \cup {"next", "look", "which", "compare", "copy",
                                        "mint", "rehash"}]
    BY <1>4 DEF Look
  <2> QED BY <1>4, <1>0, <2>1 DEF Look, history, cell
<1>5. ASSUME NEW b \in Builder, Build(b) PROVE TypeOK'
  <2>1. built' \in [Builder -> Content \cup {Absent}]
    BY <1>5, Contents DEF Build
  <2> QED BY <1>5, <1>0, <2>1 DEF Build, history, cell
<1>6. ASSUME NEW b \in Builder, OpenBlob(b) PROVE TypeOK'
  BY <1>6, <1>0 DEF OpenBlob, history, cell
<1>7. ASSUME NEW b \in Builder, CopyBlob(b) PROVE TypeOK'
  <2>1. built[b] \in Content
    BY <1>7, <1>b DEF CopyBlob, Holds, Building
  <2>2. PICK d \in dep[b] :
          /\ \/ blob' = [blob EXCEPT ![d] = built[b]]
             \/ blob' = [blob EXCEPT ![d] = Torn]
             \/ UNCHANGED blob
          /\ made' = made \cup {<<d, built[b]>>}
    BY <1>7 DEF CopyBlob
  <2>3. made' \in SUBSET (Dep \X Content)
    BY <2>1, <2>2
  <2>4. blob' \in [Dep -> Content \cup {Absent, Torn}]
    BY <2>1, <2>2
  <2> QED BY <1>7, <1>0, <2>3, <2>4 DEF CopyBlob, cell
<1>8. ASSUME NEW b \in Builder, Mint(b) PROVE TypeOK'
  <2>1. pin[b] \in Content
    BY <1>8, <1>b DEF Mint, Holds, Holding
  <2>2. PICK d \in dep[b] :
          witnessed' = [witnessed EXCEPT ![b] = @ \cup {Claim(recipe, pins, d, pin[b])}]
    BY <1>8 DEF Mint
  <2>3. Claim(recipe, pins, d, pin[b]) \in Claims
    BY <2>1, <2>2 DEF Claim
  <2>4. witnessed' \in [Builder -> SUBSET Claims]
    BY <2>2, <2>3
  <2> QED BY <1>8, <1>0, <2>4 DEF Mint, history, cell
<1>9. ASSUME NEW b \in Builder, Rehash(b) PROVE TypeOK'
  <2>1. hash' \in [Builder -> [Dep -> Content \cup {Absent, Torn}]]
    BY <1>9 DEF Rehash
  <2> QED BY <1>9, <1>0, <2>1 DEF Rehash, history, cell
<1>10. ASSUME NEW b \in Builder, Save(b) PROVE TypeOK'
  <2>1. PICK c \in witnessed[b] : ledger' = ledger \cup {c}
    BY <1>10 DEF Save
  <2>2. ledger' \in SUBSET Claims
    BY <2>1
  <2> QED BY <1>10, <1>0, <2>2 DEF Save, history, cell
<1>11. ASSUME NEW b \in Builder, Return(b) PROVE TypeOK'
  BY <1>11, <1>0 DEF Return, history, cell, Ended
<1>12. ASSUME NEW b \in Builder, Forget(b)
       PROVE  /\ todo' \in [Builder -> Seq(Dep)] /\ dep' \in [Builder -> SUBSET Dep]
              /\ pin' \in [Builder -> Content \cup {Absent}]
              /\ built' \in [Builder -> Content \cup {Absent}]
              /\ hash' \in [Builder -> [Dep -> Content \cup {Absent, Torn}]]
              /\ witnessed' \in [Builder -> SUBSET Claims]
  BY <1>12, NoneListed DEF Forget
<1>13. ASSUME NEW b \in Builder, Fail(b) PROVE TypeOK'
  <2>1. at' \in [Builder -> Ended \cup {"next", "look", "which", "compare", "copy",
                                        "mint", "rehash"}]
    BY <1>13 DEF Fail, Ended
  <2> QED BY <1>13, <1>12, <1>0, <2>1 DEF Fail, cell
<1>14. ASSUME NEW b \in Builder, Kill(b) PROVE TypeOK'
  <2>1. at' \in [Builder -> Ended \cup {"next", "look", "which", "compare", "copy",
                                        "mint", "rehash"}]
    BY <1>14 DEF Kill, Ended
  <2>2. kills' \in 0..MaxKills
    BY <1>14, RealizeAssumption DEF Kill
  <2> QED BY <1>14, <1>12, <1>0, <2>1, <2>2 DEF Kill, cell
<1>15. CASE UNCHANGED vars
  BY <1>15 DEF vars, cell, history
<1> QED
  BY <1>1, <1>2, <1>3, <1>4, <1>5, <1>6, <1>7, <1>8, <1>9, <1>10, <1>11, <1>13,
     <1>14, <1>15, Does DEF Next

-----------------------------------------------------------------------------
(* What a builder believes *)

\* A builder whose nucleus may have changed stays so until its next get.
LEMMA FreshBack ==
  ASSUME TypeOK, NEW b \in Builder, Get(b) \/ Step(b) \/ Kill(b), NEW c \in Builder,
         c = b => ~Get(b), Fresh(c)'
  PROVE  Fresh(c)
<1>1. UNCHANGED edits
  BY Does, GetMoves, ReadPinMoves, LookMoves, BuildMoves, OpenBlobMoves, CopyBlobMoves,
     MintMoves, RehashMoves, SaveMoves, ReturnMoves, FailMoves, KillMoves DEF history
<1>2. quiet'[c] => quiet[c]
  BY QuietMoves
<1> QED BY <1>1, <1>2 DEF Fresh

LEMMA FreshStep ==
  ASSUME TypeOK, HoldsInv, FreshInv, [Next]_vars
  PROVE  FreshInv'
<1>1. ASSUME NEW b \in Builder, Get(b) \/ Step(b) \/ Kill(b)
      PROVE  FreshInv'
  <2>0. Holds(b)
    BY DEF HoldsInv
  <2>1. UNCHANGED <<recipe, pins, edits>>
    BY <1>1, Does, GetMoves, ReadPinMoves, LookMoves, BuildMoves, OpenBlobMoves,
       CopyBlobMoves, MintMoves, RehashMoves, SaveMoves, ReturnMoves, FailMoves,
       KillMoves DEF history, cell
  <2>2. ASSUME NEW c \in Builder \ {b}, Fresh(c)' PROVE UpToDate(c)'
    <3>1. Same(c) /\ UpToDate(c)
      BY <1>1, <2>2, FreshBack, SameMoves DEF FreshInv
    <3> QED BY <2>1, <3>1 DEF Same, UpToDate, TrueClaim
  <2>3. ASSUME Get(b) PROVE UpToDate(b)'
    <3>1. dep'[b] = {} /\ witnessed'[b] = {}
      BY <2>0, <2>3, GetMoves DEF Holds, Holding, Ended
    <3> QED BY <3>1 DEF UpToDate
  <2>4. ASSUME Fail(b) \/ Kill(b) PROVE UpToDate(b)'
    <3>1. dep'[b] = {} /\ witnessed'[b] = {}
      BY <2>4, FailMoves, KillMoves DEF Dead
    <3> QED BY <3>1 DEF UpToDate
  <2>5. ASSUME ReadPin(b), UpToDate(b) PROVE UpToDate(b)'
    BY <2>1, <2>5, ReadPinMoves DEF UpToDate, Building, TrueClaim
  <2>6. ASSUME Look(b), UpToDate(b) PROVE UpToDate(b)'
    <3>1. at'[b] \notin Building /\ UNCHANGED <<dep, pin, witnessed>>
      BY <2>6, LookMoves DEF Building
    <3> QED BY <2>1, <2>6, <3>1 DEF UpToDate, TrueClaim
  <2>7. ASSUME Build(b), UpToDate(b) PROVE UpToDate(b)'
    <3>1. PICK d \in dep[b] : built'[b] = Output[recipe][d]
      BY <2>7, BuildMoves
    <3>2. dep[b] = {d} /\ UNCHANGED <<dep, pin, witnessed>>
      BY <2>0, <2>7, <3>1, BuildMoves DEF Holds, Holding
    <3> QED BY <2>1, <2>7, <3>1, <3>2 DEF UpToDate, TrueClaim
  <2>8. ASSUME OpenBlob(b) \/ CopyBlob(b), UpToDate(b) PROVE UpToDate(b)'
    <3>1. /\ at[b] \in Building /\ UNCHANGED <<dep, pin, built, witnessed>>
      BY <2>8, OpenBlobMoves, CopyBlobMoves DEF Building
    <3> QED BY <2>1, <2>8, <3>1 DEF UpToDate, TrueClaim
  <2>9. ASSUME Mint(b), UpToDate(b) PROVE UpToDate(b)'
    <3>1. PICK d \in dep[b] :
            witnessed'[b] = witnessed[b] \cup {Claim(recipe, pins, d, pin[b])}
      BY <2>9, MintMoves
    <3>2. at[b] = "mint" /\ at'[b] = "rehash" /\ UNCHANGED <<dep, pin, built>>
      BY <2>9, MintMoves
    <3>3. pin[b] = pins[d] /\ built[b] = Output[recipe][d] /\ built[b] = pin[b]
      BY <2>0, <2>9, <3>1, <3>2 DEF UpToDate, Building, Holds
    <3>4. TrueClaim(Claim(recipe, pins, d, pin[b]))
      BY <3>3 DEF TrueClaim, Claim
    <3>5. \A c \in witnessed'[b] : TrueClaim(c)
      BY <2>9, <3>1, <3>4 DEF UpToDate
    <3> QED BY <2>1, <2>9, <3>2, <3>5 DEF UpToDate, Building, TrueClaim
  <2>10. ASSUME Rehash(b), UpToDate(b) PROVE UpToDate(b)'
    <3>1. dep'[b] = {} /\ UNCHANGED witnessed
      BY <2>10, RehashMoves
    <3> QED BY <2>10, <3>1 DEF UpToDate, TrueClaim
  <2>11. ASSUME Save(b) \/ Return(b), UpToDate(b) PROVE UpToDate(b)'
    <3>1. dep[b] = {} /\ UNCHANGED <<dep, witnessed>>
      BY <2>0, <2>11, SaveMoves, ReturnMoves DEF Holds, Holding
    <3> QED BY <2>11, <3>1 DEF UpToDate, TrueClaim
  <2>12. ASSUME Fresh(b)' PROVE UpToDate(b)'
    <3>1. ~Get(b) => UpToDate(b)
      BY <1>1, <2>12, FreshBack DEF FreshInv
    <3> QED
      BY <1>1, <3>1, <2>3, <2>4, <2>5, <2>6, <2>7, <2>8, <2>9, <2>10, <2>11, Does
  <2>13. ASSUME edits' = 0, NEW c \in ledger' PROVE TrueClaim(c)
    <3>1. CASE c \in ledger
      BY <2>1, <2>13, <3>1 DEF FreshInv
    <3>2. CASE c \notin ledger
      <4>1. Save(b)
        BY <1>1, <2>13, <3>2, Does, GetMoves, ReadPinMoves, LookMoves, BuildMoves,
           OpenBlobMoves, CopyBlobMoves, MintMoves, RehashMoves, ReturnMoves,
           FailMoves, KillMoves
      <4>2. c \in witnessed[b]
        BY <2>13, <3>2, <4>1, SaveMoves
      <4> QED BY <2>1, <2>13, <4>2 DEF FreshInv, Fresh, UpToDate
    <3> QED BY <3>1, <3>2
  <2>14. edits' = 0 => \A c \in ledger' : TrueClaim(c)'
    BY <2>13 DEF TrueClaim
  <2> QED BY <2>2, <2>12, <2>14 DEF FreshInv
<1>2. CASE Edit
  <2>1. edits' # 0 /\ \A b \in Builder : quiet'[b] = FALSE
    BY <1>2 DEF Edit, TypeOK
  <2> QED BY <2>1 DEF FreshInv, Fresh
<1>3. CASE UNCHANGED vars
  BY <1>3 DEF vars, cell, history, FreshInv, Fresh, UpToDate, TrueClaim
<1> QED BY <1>1, <1>2, <1>3 DEF Next

-----------------------------------------------------------------------------
(* A builder that nobody disturbs *)

\* A builder that moves was at work, or begins; nobody edits the while.
LEMMA AtWork ==
  ASSUME TypeOK, NEW b \in Builder, Get(b) \/ Step(b) \/ Kill(b)
  PROVE  /\ Step(b) \/ Kill(b) => Busy(b)
         /\ UNCHANGED <<recipe, pins, edits>>
<1>1. Step(b) \/ Kill(b) => Busy(b)
  BY DEF Step, Kill, ReadPin, Unpinned, Look, Unavailable, Build, BuildFails, Mismatch,
     OpenBlob, CopyBlob, CopyLost, Mint, Rehash, RehashFails, Save, Return, Busy, Ended
<1>2. UNCHANGED <<recipe, pins, edits>>
  BY Does, GetMoves, ReadPinMoves, LookMoves, BuildMoves, OpenBlobMoves,
     CopyBlobMoves, MintMoves, RehashMoves, SaveMoves, ReturnMoves, FailMoves,
     KillMoves DEF history, cell
<1> QED BY <1>1, <1>2

\* What AloneInv says of the blobs b is done with.
DoneWith(b) ==
  /\ \A d \in Dep \ (Left(b) \cup dep[b]) : hash[b][d] = pins[d] /\ blob[d] = pins[d]
  /\ at[b] \in {"mint", "rehash"} => \A d \in dep[b] : blob[d] = pins[d]

\* A builder that is alone and up to date makes each blob what it is pinned to.
LEMMA DoneWithStep ==
  ASSUME TypeOK, HoldsInv, NEW b \in Builder, Step(b), Busy(b)', quiet[b],
         \A c \in Builder \ {b} : ~Busy(c), UpToDate(b), DoneWith(b)
  PROVE  DoneWith(b)'
<1>0. Holds(b) /\ UNCHANGED pins /\ dep[b] \subseteq Dep
  BY AtWork DEF HoldsInv, TypeOK
<1>1. CASE ReadPin(b)
  <2>1. todo[b] \in Seq(Dep) /\ todo[b] # <<>> /\ dep[b] = {}
    BY <1>0, <1>1, ReadPinMoves DEF TypeOK, Holds, Holding
  <2>2. Left(b) = {Head(todo[b])} \cup Items(Tail(todo[b]))
    BY <2>1, Listed DEF Left
  <2>3. Left(b)' = Items(Tail(todo[b])) /\ dep'[b] = {Head(todo[b])} /\ at'[b] = "look"
    BY <1>1, ReadPinMoves DEF Left
  <2>4. UNCHANGED <<hash, blob>>
    BY <1>1, ReadPinMoves
  <2> QED BY <1>0, <2>1, <2>2, <2>3, <2>4 DEF DoneWith
<1>2. CASE Look(b)
  <2>1. PICK d \in dep[b] : at'[b] = IF blob[d] = pin[b] THEN "rehash" ELSE "which"
    BY <1>2, LookMoves
  <2>2. dep[b] = {d} /\ pin[b] = pins[d]
    BY <1>0, <1>2, <2>1, LookMoves DEF Holds, Holding, UpToDate
  <2>3. UNCHANGED <<todo, dep, hash, blob>>
    BY <1>2, LookMoves
  <2> QED BY <1>0, <2>1, <2>2, <2>3 DEF DoneWith, Left
<1>3. CASE Build(b) \/ Save(b) \/ Return(b)
  <2>1. UNCHANGED <<todo, dep, hash, blob>>
    BY <1>3, BuildMoves, SaveMoves, ReturnMoves
  <2>2. at'[b] \notin {"mint", "rehash"}
    BY <1>3, BuildMoves, SaveMoves, ReturnMoves
  <2> QED BY <1>0, <2>1, <2>2 DEF DoneWith, Left
<1>4. CASE OpenBlob(b)
  <2>1. PICK d \in dep[b] : blob' = [blob EXCEPT ![d] = Torn]
    BY <1>4, OpenBlobMoves
  <2>2. \A e \in Dep \ dep[b] : blob'[e] = blob[e]
    BY <2>1 DEF TypeOK
  <2>3. UNCHANGED <<todo, dep, hash>> /\ at'[b] = "copy"
    BY <1>4, OpenBlobMoves
  <2> QED BY <1>0, <2>2, <2>3 DEF DoneWith, Left
<1>5. CASE CopyBlob(b)
  <2>1. PICK d \in dep[b] :
          \/ blob' = [blob EXCEPT ![d] = built[b]]
          \/ /\ \/ \E c \in Builder \ {b} : at[c] = "copy" /\ dep[c] = {d}
                \/ edits > 0 /\ ~quiet[b]
             /\ blob' = [blob EXCEPT ![d] = Torn]
          \/ edits > 0 /\ ~quiet[b] /\ UNCHANGED blob
    BY <1>5, CopyBlobMoves
  <2>2. \A c \in Builder \ {b} : at[c] # "copy"
    BY DEF Busy, Ended
  <2>3. blob' = [blob EXCEPT ![d] = built[b]]
    BY <2>1, <2>2
  <2>4. /\ UNCHANGED <<todo, dep, hash>> /\ at[b] = "copy"
    BY <1>5, CopyBlobMoves
  <2>5. dep[b] = {d} /\ built[b] = pins[d]
    BY <1>0, <2>1, <2>4 DEF Holds, Holding, UpToDate
  <2>6. blob'[d] = pins[d] /\ \A e \in Dep \ {d} : blob'[e] = blob[e]
    BY <1>0, <2>1, <2>3, <2>5 DEF TypeOK
  <2> QED BY <1>0, <2>4, <2>5, <2>6 DEF DoneWith, Left
<1>6. CASE Mint(b)
  <2>1. at[b] = "mint" /\ UNCHANGED <<todo, dep, hash, blob>>
    BY <1>6, MintMoves
  <2> QED BY <1>0, <2>1 DEF DoneWith, Left
<1>7. CASE Rehash(b)
  <2>1. PICK d \in dep[b] : hash'[b] = [hash[b] EXCEPT ![d] = blob[d]]
    BY <1>7, RehashMoves
  <2>2. /\ at[b] = "rehash" /\ at'[b] = "next" /\ dep'[b] = {}
        /\ UNCHANGED <<todo, blob>>
    BY <1>7, RehashMoves
  <2>3. dep[b] = {d} /\ blob[d] = pins[d]
    BY <1>0, <2>1, <2>2 DEF Holds, Holding, DoneWith
  <2>4. hash'[b][d] = pins[d] /\ \A e \in Dep \ {d} : hash'[b][e] = hash[b][e]
    BY <1>0, <2>1, <2>3 DEF TypeOK
  <2> QED BY <1>0, <2>2, <2>3, <2>4 DEF DoneWith, Left
<1>8. CASE Fail(b)
  BY <1>8, FailMoves DEF Busy, Ended
<1>9. ~Get(b) /\ ~Kill(b)
  <2>1. ~Kill(b)
    BY KillMoves DEF Dead, Busy, Ended
  <2>2. ~Get(b)
    BY AtWork, GetMoves DEF Busy
  <2> QED BY <2>1, <2>2
<1> QED BY <1>1, <1>2, <1>3, <1>4, <1>5, <1>6, <1>7, <1>8, <1>9, Does

LEMMA AloneStep ==
  ASSUME TypeOK, HoldsInv, FreshInv, AloneInv, [Next]_vars
  PROVE  AloneInv'
<1>1. ASSUME NEW b \in Builder, Get(b) \/ Step(b) \/ Kill(b),
             NEW c \in Builder, quiet'[c], Busy(c)'
      PROVE  (\A o \in Builder \ {c} : ~Busy(o))' /\ DoneWith(c)'
  <2>1. CASE c # b
    <3>1. Busy(c)
      BY <1>1, <2>1, SameMoves DEF Same, Busy
    <3>2. ~Get(b) /\ quiet[c]
      BY <1>1, <2>1, <3>1, QuietMoves
    <3> QED BY <1>1, <2>1, <3>1, <3>2, AtWork DEF AloneInv
  <2>2. CASE c = b /\ Get(b)
    <3>1. \A o \in Builder \ {b} : ~Busy(o)'
      BY <1>1, <2>2, QuietMoves, SameMoves DEF Same, Busy
    <3>2. Left(b)' = Dep /\ at'[b] = "next"
      BY <2>2, GetMoves, AllListed DEF Left
    <3> QED BY <2>2, <3>1, <3>2 DEF DoneWith
  <2>3. CASE c = b /\ ~Get(b)
    <3>1. Step(b) /\ Busy(b)
      BY <1>1, <2>3, AtWork, KillMoves DEF Dead, Busy, Ended
    <3>2. quiet[b]
      BY <1>1, <2>3, <3>1, QuietMoves
    <3>3. (\A o \in Builder \ {b} : ~Busy(o)) /\ DoneWith(b) /\ UpToDate(b)
      BY <3>1, <3>2 DEF AloneInv, DoneWith, FreshInv, Fresh
    <3>4. \A o \in Builder \ {b} : ~Busy(o)'
      BY <1>1, <3>3, SameMoves DEF Same, Busy
    <3>5. DoneWith(b)'
      BY <1>1, <2>3, <3>1, <3>2, <3>3, DoneWithStep
    <3> QED BY <2>3, <3>4, <3>5
  <2> QED BY <2>1, <2>2, <2>3
<1>2. ASSUME NEW b \in Builder, Get(b) \/ Step(b) \/ Kill(b) PROVE AloneInv'
  BY <1>1, <1>2 DEF AloneInv, DoneWith
<1>3. CASE Edit
  <2>1. \A b \in Builder : quiet'[b] = FALSE
    BY <1>3 DEF Edit
  <2> QED BY <2>1 DEF AloneInv
<1>4. CASE UNCHANGED vars
  BY <1>4 DEF vars, cell, history, AloneInv, Busy, Left
<1> QED BY <1>2, <1>3, <1>4 DEF Next

\* Where all blobs are true, a builder that does not build leaves them so.
LEMMA UntouchedStep ==
  ASSUME TypeOK, HoldsInv, NEW b \in Builder, Get(b) \/ Step(b) \/ Kill(b),
         Untouched(b), \A d \in Dep : blob[d] = pins[d]
  PROVE  UNCHANGED blob /\ Untouched(b)'
<1>0. Holds(b) /\ UNCHANGED pins /\ dep[b] \subseteq Dep
  BY AtWork DEF HoldsInv, TypeOK
<1>1. CASE Get(b)
  <2>1. at'[b] = "next" /\ dep'[b] = {} /\ UNCHANGED blob
    BY <1>0, <1>1, GetMoves DEF Holds, Holding, Ended
  <2> QED BY <2>1 DEF Untouched
<1>2. CASE ReadPin(b)
  BY <1>0, <1>2, ReadPinMoves DEF Untouched
<1>3. CASE Look(b)
  <2>1. PICK d \in dep[b] : at'[b] = IF blob[d] = pin[b] THEN "rehash" ELSE "which"
    BY <1>3, LookMoves
  <2>2. at[b] = "look" /\ UNCHANGED <<dep, pin, blob>>
    BY <1>3, LookMoves
  <2>3. \A e \in dep[b] : pin[b] = pins[e]
    BY <2>2 DEF Untouched, Busy, Ended
  <2>4. at'[b] = "rehash"
    BY <1>0, <2>1, <2>3
  <2> QED BY <1>0, <2>2, <2>3, <2>4 DEF Untouched
<1>4. CASE Build(b) \/ OpenBlob(b) \/ CopyBlob(b) \/ Mint(b)
  BY <1>4, BuildMoves, OpenBlobMoves, CopyBlobMoves, MintMoves
     DEF Untouched, Busy, Ended
<1>5. CASE Rehash(b)
  <2>1. at'[b] = "next" /\ dep'[b] = {} /\ UNCHANGED blob
    BY <1>5, RehashMoves
  <2> QED BY <2>1 DEF Untouched
<1>6. CASE Save(b)
  <2>1. at[b] = "next" /\ UNCHANGED <<at, dep, pin, blob>>
    BY <1>6, SaveMoves
  <2>2. dep[b] = {}
    BY <1>0, <2>1 DEF Holds, Holding
  <2> QED BY <2>1, <2>2 DEF Untouched
<1>7. CASE Return(b) \/ Fail(b) \/ Kill(b)
  <2>1. ~Busy(b)' /\ UNCHANGED blob
    BY <1>7, ReturnMoves, FailMoves, KillMoves DEF Dead, Busy, Ended
  <2> QED BY <2>1 DEF Untouched
<1> QED BY <1>1, <1>2, <1>3, <1>4, <1>5, <1>6, <1>7, Does

LEMMA ReadyStep ==
  ASSUME TypeOK, HoldsInv, AloneInv, ReadyInv, [Next]_vars
  PROVE  ReadyInv'
<1>1. ASSUME NEW b \in Builder, Get(b) \/ Step(b) \/ Kill(b),
             NEW r \in Builder, quiet'[r], at'[r] = "ready"
      PROVE  /\ \A d \in Dep : hash'[r][d] = pins'[d] /\ blob'[d] = pins'[d]
             /\ \A c \in Builder : Untouched(c)'
  <2>0. UNCHANGED pins
    BY <1>1, AtWork
  <2>1. CASE r # b
    <3>1. at[r] = "ready" /\ quiet[r] /\ hash'[r] = hash[r]
      BY <1>1, <2>1, QuietMoves, SameMoves DEF Same
    <3>2. /\ \A d \in Dep : hash[r][d] = pins[d] /\ blob[d] = pins[d]
          /\ \A c \in Builder : Untouched(c)
      BY <3>1 DEF ReadyInv
    <3>3. UNCHANGED blob /\ Untouched(b)'
      BY <1>1, <3>2, UntouchedStep
    <3>4. \A c \in Builder \ {b} : Untouched(c)'
      BY <1>1, <2>0, <3>2, SameMoves DEF Same, Untouched, Busy
    <3> QED BY <2>0, <3>1, <3>2, <3>3, <3>4
  <2>2. CASE r = b
    <3>1. Return(b) /\ Busy(b) /\ quiet[b]
      <4>1. Return(b)
        <5>1. ~Get(b) /\ ~Save(b) /\ ~Look(b)
          BY <1>1, <2>2, GetMoves, SaveMoves, LookMoves
        <5> QED
          BY <1>1, <2>2, <5>1, Does, ReadPinMoves, BuildMoves, OpenBlobMoves,
             CopyBlobMoves, MintMoves, RehashMoves, FailMoves, KillMoves DEF Dead
      <4> QED BY <1>1, <2>2, <4>1, QuietMoves, ReturnMoves DEF Busy, Ended, Step
    <3>2. /\ todo[b] = <<>> /\ dep[b] = {} /\ UNCHANGED <<hash, blob>>
      BY <3>1, ReturnMoves DEF HoldsInv, Holds, Holding
    <3>3. /\ \A c \in Builder \ {b} : ~Busy(c)
          /\ \A d \in Dep : hash[b][d] = pins[d] /\ blob[d] = pins[d]
      BY <3>1, <3>2, NoneListed DEF AloneInv, Left
    <3>4. \A c \in Builder : ~Busy(c)'
      BY <1>1, <2>2, <3>3, SameMoves DEF Same, Busy, Ended
    <3> QED BY <2>0, <2>2, <3>2, <3>3, <3>4 DEF Untouched
  <2> QED BY <2>1, <2>2
<1>2. ASSUME NEW b \in Builder, Get(b) \/ Step(b) \/ Kill(b) PROVE ReadyInv'
  BY <1>1, <1>2 DEF ReadyInv
<1>3. CASE Edit
  <2>1. \A b \in Builder : quiet'[b] = FALSE
    BY <1>3 DEF Edit
  <2> QED BY <2>1 DEF ReadyInv
<1>4. CASE UNCHANGED vars
  BY <1>4 DEF vars, cell, history, ReadyInv, Untouched, Busy
<1> QED BY <1>2, <1>3, <1>4 DEF Next

-----------------------------------------------------------------------------
(* Builders that overlap *)

\* What SettledInv says of one dependency.
SettledAt(d) ==
  /\ (\E b \in Builder : Through(b, d)) => blob[d] = pins[d] \/ Copying(d) # {}
  /\ Copying(d) # {} => blob[d] # Absent

\* A step that copies nothing settles nothing anew but what it finds to be so.
LEMMA SettledKept ==
  ASSUME NEW d \in Dep, SettledAt(d), NEW b \in Builder,
         \A c \in Builder \ {b} : Same(c),
         UNCHANGED pins, blob'[d] = blob[d],
         at[b] # "copy" \/ dep[b] # {d}, at'[b] # "copy" \/ dep'[b] # {d},
         Through(b, d)' => Through(b, d) \/ blob[d] = pins[d]
  PROVE  SettledAt(d)'
<1>1. Copying(d)' = Copying(d)
  BY DEF Copying, Same
<1>2. ASSUME NEW c \in Builder \ {b} PROVE Through(c, d)' => Through(c, d)
  BY <1>2 DEF Same, Through, Busy, Left
<1> QED BY <1>1, <1>2 DEF SettledAt

LEMMA SettledAtStep ==
  ASSUME TypeOK, HoldsInv, NEW d \in Dep, NEW b \in Builder, Get(b) \/ Step(b),
         edits = 0, \A e \in Dep : SettledAt(e), UpToDate(b)
  PROVE  SettledAt(d)'
<1>0. /\ Holds(b) /\ UNCHANGED pins /\ dep[b] \subseteq Dep /\ SettledAt(d)
      /\ \A c \in Builder \ {b} : Same(c)
  BY AtWork, SameMoves DEF HoldsInv, TypeOK
<1>1. CASE Get(b)
  <2>1. Left(b)' = Dep /\ at'[b] = "next" /\ at[b] \in Ended /\ UNCHANGED blob
    BY <1>1, GetMoves, AllListed DEF Left
  <2> QED BY <1>0, <2>1, SettledKept DEF Through, Ended
<1>2. CASE ReadPin(b)
  <2>1. todo[b] \in Seq(Dep) /\ todo[b] # <<>> /\ dep[b] = {}
    BY <1>0, <1>2, ReadPinMoves DEF TypeOK, Holds, Holding
  <2>2. Left(b) = {Head(todo[b])} \cup Items(Tail(todo[b]))
    BY <2>1, Listed DEF Left
  <2>3. /\ Left(b)' = Items(Tail(todo[b])) /\ dep'[b] = {Head(todo[b])}
        /\ at[b] = "next" /\ at'[b] = "look" /\ UNCHANGED blob
    BY <1>2, ReadPinMoves DEF Left
  <2>4. Through(b, d)' => Through(b, d)
    BY <2>1, <2>2, <2>3 DEF Through, Busy, Ended
  <2> QED BY <1>0, <2>3, <2>4, SettledKept
<1>3. CASE Look(b)
  <2>1. PICK e \in dep[b] : at'[b] = IF blob[e] = pin[b] THEN "rehash" ELSE "which"
    BY <1>3, LookMoves
  <2>2. dep[b] = {e} /\ pin[b] = pins[e]
    BY <1>0, <1>3, <2>1, LookMoves DEF Holds, Holding, UpToDate
  <2>3. at[b] = "look" /\ UNCHANGED <<todo, dep, blob>>
    BY <1>3, LookMoves
  <2>4. Through(b, d)' => Through(b, d) \/ blob[d] = pins[d]
    BY <2>1, <2>2, <2>3 DEF Through, Busy, Ended, Left
  <2> QED BY <1>0, <2>1, <2>3, <2>4, SettledKept
<1>4. CASE Build(b) \/ Save(b)
  <2>1. /\ UNCHANGED <<todo, dep, blob>> /\ at[b] # "copy"
        /\ at[b] \notin Ended /\ at'[b] \in {"compare", "next"}
        /\ at[b] = "next" => dep[b] = {}
    BY <1>0, <1>4, BuildMoves, SaveMoves DEF Ended, Holds, Holding
  <2>2. Through(b, d)' => Through(b, d)
    BY <2>1 DEF Through, Busy, Ended, Left
  <2> QED BY <1>0, <2>1, <2>2, SettledKept
<1>5. CASE OpenBlob(b)
  <2>1. PICK e \in dep[b] : blob' = [blob EXCEPT ![e] = Torn]
    BY <1>5, OpenBlobMoves
  <2>2. /\ at[b] = "compare" /\ at'[b] = "copy" /\ UNCHANGED <<todo, dep>>
    BY <1>5, OpenBlobMoves
  <2>3. dep[b] = {e} /\ blob'[e] = Torn /\ \A f \in Dep \ {e} : blob'[f] = blob[f]
    BY <1>0, <2>1, <2>2 DEF Holds, Holding, TypeOK
  <2>4. CASE d = e
    <3>1. b \in Copying(d)'
      BY <2>2, <2>3, <2>4 DEF Copying
    <3> QED BY <2>3, <2>4, <3>1, Contents DEF SettledAt
  <2>5. CASE d # e
    <3>1. Through(b, d)' => Through(b, d)
      BY <2>2, <2>3, <2>5 DEF Through, Busy, Ended, Left
    <3> QED BY <1>0, <2>2, <2>3, <2>5, <3>1, SettledKept
  <2> QED BY <2>4, <2>5
<1>6. CASE CopyBlob(b)
  <2>1. PICK e \in dep[b] :
          \/ blob' = [blob EXCEPT ![e] = built[b]]
          \/ /\ \/ \E c \in Builder \ {b} : at[c] = "copy" /\ dep[c] = {e}
                \/ edits > 0 /\ ~quiet[b]
             /\ blob' = [blob EXCEPT ![e] = Torn]
          \/ edits > 0 /\ ~quiet[b] /\ UNCHANGED blob
    BY <1>6, CopyBlobMoves
  <2>2. /\ at[b] = "copy" /\ at'[b] = "mint" /\ UNCHANGED <<todo, dep>>
    BY <1>6, CopyBlobMoves
  <2>3. dep[b] = {e} /\ built[b] = pins[e] /\ built[b] # Absent
    BY <1>0, <2>1, <2>2 DEF Holds, Holding, UpToDate
  <2>4. \A f \in Dep \ {e} : blob'[f] = blob[f]
    BY <2>1, <2>3 DEF TypeOK
  <2>5. \/ blob'[e] = pins[e] /\ blob'[e] # Absent
        \/ /\ blob'[e] = Torn
           /\ \E c \in Builder \ {b} : at[c] = "copy" /\ dep[c] = {e}
    BY <1>0, <2>1, <2>3 DEF TypeOK
  <2>6. CASE d = e
    <3>1. CASE blob'[e] = pins[e] /\ blob'[e] # Absent
      BY <1>0, <2>6, <3>1 DEF SettledAt
    <3>2. CASE /\ blob'[e] = Torn
               /\ \E c \in Builder \ {b} : at[c] = "copy" /\ dep[c] = {e}
      <4>1. Copying(d)' # {}
        BY <1>0, <2>6, <3>2 DEF Copying, Same
      <4> QED BY <2>6, <3>2, <4>1, Contents DEF SettledAt
    <3> QED BY <2>5, <3>1, <3>2
  <2>7. CASE d # e
    <3>1. Through(b, d)' => Through(b, d)
      BY <2>2, <2>3, <2>7 DEF Through, Busy, Ended, Left
    <3> QED BY <1>0, <2>2, <2>3, <2>4, <2>7, <3>1, SettledKept
  <2> QED BY <2>6, <2>7
<1>7. CASE Mint(b)
  <2>1. /\ UNCHANGED <<todo, dep, blob>> /\ at[b] = "mint" /\ at'[b] = "rehash"
    BY <1>7, MintMoves
  <2>2. Through(b, d)' => Through(b, d)
    BY <2>1 DEF Through, Busy, Ended, Left
  <2> QED BY <1>0, <2>1, <2>2, SettledKept
<1>8. CASE Rehash(b)
  <2>1. /\ UNCHANGED <<todo, blob>> /\ at[b] = "rehash" /\ at'[b] = "next"
    BY <1>8, RehashMoves
  <2>2. Through(b, d)' => Through(b, d)
    BY <2>1 DEF Through, Busy, Ended, Left
  <2> QED BY <1>0, <2>1, <2>2, SettledKept
<1>9. CASE Return(b)
  <2>1. /\ UNCHANGED blob /\ at[b] = "next" /\ at'[b] = "ready"
        /\ todo[b] = <<>> /\ dep[b] = {}
    BY <1>0, <1>9, ReturnMoves DEF Holds, Holding
  <2>2. Through(b, d)
    BY <2>1, NoneListed DEF Through, Busy, Ended, Left
  <2> QED BY <1>0, <2>1, <2>2, SettledKept
<1>10. CASE Dies(b) /\ Fail(b)
  <2>1. at'[b] = "failed" /\ UNCHANGED blob
    BY <1>10, FailMoves
  <2>2. at[b] # "copy" \/ dep[b] # {d}
    <3>1. SUFFICES ASSUME at[b] = "copy", dep[b] = {d} PROVE FALSE
      OBVIOUS
    <3>2. CopyLost(b)
      BY <1>10, <3>1 DEF Dies, Unpinned, Unavailable, BuildFails, Mismatch, RehashFails
    <3>3. blob[d] = Absent /\ b \in Copying(d)
      BY <3>1, <3>2 DEF CopyLost, Copying
    <3> QED BY <1>0, <3>3 DEF SettledAt
  <2> QED BY <1>0, <2>1, <2>2, SettledKept DEF Through, Busy, Ended
<1>11. Step(b) => ~Kill(b)
  <2>1. Step(b) => UNCHANGED kills
    BY DEF Step, ReadPin, Unpinned, Look, Unavailable, Build, BuildFails, Mismatch,
     OpenBlob, CopyBlob, CopyLost, Mint, Rehash, RehashFails, Save, Return, Fail, history
  <2> QED BY <2>1 DEF Kill, TypeOK
<1>12. Get(b) => ~Kill(b)
  BY GetMoves, KillMoves DEF TypeOK, Dead
<1> QED
  BY <1>1, <1>2, <1>3, <1>4, <1>5, <1>6, <1>7, <1>8, <1>9, <1>10, <1>11, <1>12, Does

LEMMA SettledStep ==
  ASSUME TypeOK, HoldsInv, FreshInv, SettledInv, [Next]_vars
  PROVE  SettledInv'
<1> SUFFICES ASSUME edits' = 0, kills' = 0 PROVE Settled'
  BY DEF SettledInv
<1>1. ASSUME NEW b \in Builder, Get(b) \/ Step(b) PROVE Settled'
  <2>1. edits = 0 /\ UpToDate(b)
    BY <1>1, AtWork DEF FreshInv, Fresh
  <2>2. kills = 0
    BY <1>1, GetMoves
       DEF Step, ReadPin, Unpinned, Look, Unavailable, Build, BuildFails, Mismatch,
     OpenBlob, CopyBlob, CopyLost, Mint, Rehash, RehashFails, Save, Return, Fail, history
  <2>3. \A e \in Dep : SettledAt(e)
    BY <2>1, <2>2 DEF SettledInv, Settled, SettledAt
  <2>4. \A d \in Dep : SettledAt(d)'
    BY <1>1, <2>1, <2>3, SettledAtStep
  <2> QED BY <2>4 DEF Settled, SettledAt
<1>2. ASSUME NEW b \in Builder, Kill(b) PROVE FALSE
  BY <1>2, KillMoves DEF TypeOK
<1>3. CASE Edit
  BY <1>3 DEF Edit, TypeOK
<1>4. CASE UNCHANGED vars
  BY <1>4 DEF vars, cell, history, SettledInv, Settled, Through, Copying, Busy, Left
<1> QED BY <1>1, <1>2, <1>3, <1>4 DEF Next

-----------------------------------------------------------------------------
(* What is built is attested *)

\* A builder that goes on working forgets no claim.
LEMMA Working ==
  ASSUME TypeOK, NEW b \in Builder, Step(b), ~Fail(b), ~Return(b)
  PROVE  Busy(b)' /\ witnessed[b] \subseteq witnessed'[b]
<1>1. CASE Mint(b)
  BY <1>1, MintMoves DEF Busy, Ended
<1>2. CASE Look(b) \/ Save(b)
  BY <1>2, LookMoves, SaveMoves DEF Busy, Ended
<1>3. CASE ReadPin(b) \/ Build(b) \/ OpenBlob(b) \/ CopyBlob(b) \/ Rehash(b)
  BY <1>3, ReadPinMoves, BuildMoves, OpenBlobMoves, CopyBlobMoves, RehashMoves
     DEF Busy, Ended
<1> QED
  BY <1>1, <1>2, <1>3
     DEF Step, Unpinned, Unavailable, BuildFails, Mismatch, CopyLost, RehashFails

LEMMA AttestedStep ==
  ASSUME TypeOK, HoldsInv, AttestedInv, [Next]_vars
  PROVE  AttestedInv'
<1> SUFFICES ASSUME kills' = 0, failures' = {}, NEW m \in made' PROVE Attested(m)'
  BY DEF AttestedInv
<1>1. ASSUME NEW b \in Builder, Get(b) \/ Step(b) PROVE Attested(m)'
  <2>0. Holds(b) /\ \A c \in Builder \ {b} : Same(c)
    BY <1>1, SameMoves DEF HoldsInv
  <2>1. ~Fail(b)
    BY FailMoves
  <2>2. kills = 0 /\ failures = {} /\ ledger \subseteq ledger'
    BY <1>1, <2>1, GetMoves, SaveMoves
       DEF Step, ReadPin, Unpinned, Look, Unavailable, Build, BuildFails, Mismatch,
           OpenBlob, CopyBlob, CopyLost, Mint, Rehash, RehashFails, Save, Return, history
  <2>3. ASSUME \E c \in ledger : Attests(c, m) PROVE Attested(m)'
    <3>1. PICK c \in ledger' : Attests(c, m)
      BY <2>2, <2>3
    <3> QED BY <3>1 DEF Attested, Attests
  <2>4. ASSUME NEW x \in Builder \ {b}, Busy(x),
               \/ at[x] = "mint" /\ dep[x] = {m[1]} /\ pin[x] = m[2]
               \/ \E c \in witnessed[x] : Attests(c, m)
        PROVE  Attested(m)'
    BY <2>0, <2>4 DEF Same, Attested, Busy, Attests
  <2>5. ASSUME Busy(b), \E c \in witnessed[b] : Attests(c, m)
        PROVE  Attested(m)'
    <3>1. PICK c \in witnessed[b] : Attests(c, m)
      BY <2>5
    <3>2. CASE Return(b)
      BY <2>3, <3>1, <3>2, ReturnMoves
    <3>3. CASE ~Return(b)
      <4>1. Step(b)
        BY <1>1, <2>5, GetMoves DEF Busy
      <4>2. c \in witnessed'[b] /\ Busy(b)'
        BY <1>1, <2>1, <2>5, <3>1, <3>3, <4>1, Working
      <4> QED BY <3>1, <4>2 DEF Attested, Attests
    <3> QED BY <3>2, <3>3
  <2>6. ASSUME at[b] = "mint", dep[b] = {m[1]}, pin[b] = m[2]
        PROVE  Attested(m)'
    <3>1. Mint(b)
      BY <1>1, <2>1, <2>6
         DEF Get, Ended, Step, ReadPin, Unpinned, Look, Unavailable, Build, BuildFails,
             Mismatch, OpenBlob, CopyBlob, CopyLost, Rehash, RehashFails, Save, Return
    <3>2. Claim(recipe, pins, m[1], m[2]) \in witnessed'[b] /\ at'[b] = "rehash"
      BY <2>6, <3>1, MintMoves
    <3>3. Attests(Claim(recipe, pins, m[1], m[2]), m)
      BY DEF Attests, Claim
    <3> QED BY <3>2, <3>3 DEF Attested, Attests, Busy, Ended
  <2>7. CASE m \in made
    <3>1. Attested(m)
      BY <2>2, <2>7 DEF AttestedInv
    <3> QED BY <2>3, <2>4, <2>5, <2>6, <3>1 DEF Attested
  <2>8. CASE m \notin made
    <3>1. CopyBlob(b)
      BY <1>1, <2>1, <2>8, GetMoves
         DEF Step, ReadPin, Unpinned, Look, Unavailable, Build, BuildFails, Mismatch,
             OpenBlob, CopyLost, Mint, Rehash, RehashFails, Save, Return, history
    <3>2. PICK d \in dep[b] : made' = made \cup {<<d, built[b]>>}
      BY <3>1, CopyBlobMoves
    <3>3. /\ at[b] = "copy" /\ at'[b] = "mint" /\ UNCHANGED <<dep, pin, built>>
      BY <3>1, CopyBlobMoves
    <3>4. dep[b] = {d} /\ built[b] = pin[b] /\ m = <<d, built[b]>>
      BY <2>0, <2>8, <3>2, <3>3 DEF Holds, Holding
    <3> QED BY <3>3, <3>4 DEF Attested, Busy, Ended
  <2> QED BY <2>7, <2>8
<1>2. ASSUME NEW b \in Builder, Kill(b) PROVE FALSE
  BY <1>2, KillMoves DEF TypeOK
<1>3. CASE Edit
  BY <1>3 DEF Edit, AttestedInv, Attested, Attests, Busy
<1>4. CASE UNCHANGED vars
  BY <1>4 DEF vars, history, AttestedInv, Attested, Attests, Busy
<1> QED BY <1>1, <1>2, <1>3, <1>4 DEF Next

-----------------------------------------------------------------------------
(* The theorems *)

\* Nobody is at work initially.
LEMMA InitInv == Init => IInv
<1> SUFFICES ASSUME Init PROVE IInv
  OBVIOUS
<1>0. \A b \in Builder : /\ at[b] = "idle" /\ dep[b] = {} /\ witnessed[b] = {}
                         /\ ~Busy(b)
  BY DEF Init, Busy, Ended
<1>1. TypeOK
  <2>1. /\ edits \in 0..MaxEdits /\ kills \in 0..MaxKills
        /\ pins \in [Dep -> Content \cup {Absent}]
    BY RealizeAssumption DEF Init
  <2>2. \A b \in Builder : Cardinality(dep[b]) <= 1
    BY <1>0, FS_EmptySet
  <2> QED BY <2>1, <2>2, NoneListed DEF Init, TypeOK, Ended
<1>2. HoldsInv
  BY <1>0 DEF HoldsInv, Holds, Holding, Building
<1>3. FreshInv
  BY <1>0 DEF Init, FreshInv, UpToDate
<1>4. AloneInv /\ ReadyInv
  BY <1>0 DEF AloneInv, ReadyInv
<1>5. SettledInv
  BY <1>0 DEF SettledInv, Settled, Through, Copying
<1>6. AttestedInv
  BY DEF Init, AttestedInv
<1> QED BY <1>1, <1>2, <1>3, <1>4, <1>5, <1>6 DEF IInv

LEMMA NextInv == IInv /\ [Next]_vars => IInv'
BY HoldsStep, TypeStep, FreshStep, AloneStep, ReadyStep, SettledStep, AttestedStep
   DEF IInv

LEMMA Invariance == Spec => []IInv
BY InitInv, NextInv, PTL DEF Spec

\* The builders' locals, the cell and the ledger keep their types, and a
\* builder has one dependency in its hands at most.
THEOREM TypeCorrect == Spec => []TypeOK
<1>1. IInv => TypeOK
  BY DEF IInv
<1> QED BY <1>1, Invariance, PTL

\* A cell that get returned is the cell its nucleus pins: where nobody disturbs
\* dsm, at once and for all later gets; and where gets overlap, when they have
\* ended, though they tear each other's copies.
THEOREM PinnedWhenRealized == Spec => []RealizedIsPinned
<1>1. IInv => UndisturbedIsPinned
  BY DEF IInv, ReadyInv, UndisturbedIsPinned
<1>2. IInv => OverlapSettles
  <2> SUFFICES ASSUME IInv, edits = 0, kills = 0, \A b \in Builder : ~Busy(b),
                      NEW r \in Builder, at[r] = "ready", NEW d \in Dep
               PROVE  blob[d] = pins[d]
    BY DEF OverlapSettles
  <2>1. Through(r, d)
    BY DEF Through
  <2>2. Copying(d) = {}
    BY DEF Copying, Busy, Ended
  <2> QED BY <2>1, <2>2 DEF IInv, SettledInv, Settled
<1> QED BY <1>1, <1>2, Invariance, PTL DEF RealizedIsPinned

\* A builds_to claim dsm signed is true, if nobody edited the cell between the
\* get and the claim.
THEOREM TrueClaims == Spec => []ClaimsAreTrue
<1>1. IInv => ClaimsAreTrue
  BY DEF IInv, FreshInv, Fresh, UpToDate, ClaimsAreTrue
<1> QED BY <1>1, Invariance, PTL

\* What dsm builds it attests: when all is done, and no get failed or was
\* killed, every artifact it copied into the directory has its claim.
THEOREM BuildsAreAttested == Spec => []BuiltIsAttested
<1>1. IInv => BuiltIsAttested
  BY DEF IInv, AttestedInv, Attested, Attests, BuiltIsAttested
<1> QED BY <1>1, Invariance, PTL

=============================================================================
