---------------------------- MODULE ArchiveProofs ----------------------------
(* Theorems of Publish, for every cell, every author and any number of edits; and of  *)
(* Fetch, for every cell, any number of callers and of calls: the two directions of   *)
(* cell_archive.py.                                                                   *)
EXTENDS Publish, Fetch, FiniteSetTheorems, TLAPS

\* Where publish_cell has verified the pins; found the nucleus complete; is
\* through with the nucleus; and is through with the membrane.
Checked == {"require", "list", "nucleus", "walk", "membrane", "pin", "published"}
Complete == Checked \ {"require"}
NucleusDone == {"walk", "membrane", "pin", "published"}
MembraneDone == {"pin", "published"}

\* What was seen of a file is what it holds and finitely much else.
SeenInv ==
  \A n \in Name :
    /\ IsFiniteSet(seen[n])
    /\ at # "idle" => dir[n] \in seen[n]

\* The pin comes last, and keeps both manifests.
PinInv == (pin <=> Published) /\ (pin => put = {"nucleus", "cell"})

\* Entries are added nowhere but where they belong.
BlankInv ==
  /\ at \in {"idle", "pins", "verify", "require", "list"} => nucleus = Empty
  /\ at \notin MembraneDone \cup {"membrane", "failed"} => membrane = Empty

\* Over a directory nobody edits, each step leaves behind what the next relies
\* on, and its refusals are for a reason.
Still ==
  /\ at \in Checked \cup {"verify"} => dir[Artifact] \notin Garbled
  /\ at = "verify" =>
       /\ pinned = PinsIn(dir[Artifact]) /\ todo \subseteq DOMAIN pinned
       /\ \A n \in DOMAIN pinned \ todo : dir[n] = pinned[n]
  /\ at \in Checked => PinsHold(dir)
  /\ at = "mismatch" => ~PinsHold(dir)
  /\ at = "invalid" => dir[Artifact] \in Garbled \/ ~(NucleusNames \subseteq Existing)
  /\ at \in Complete => NucleusNames \subseteq Existing
  /\ at = "nucleus" => DOMAIN nucleus \cup todo = NucleusNames
  /\ at \in NucleusDone => DOMAIN nucleus = NucleusNames
  /\ at = "membrane" => DOMAIN membrane \cup todo = Existing \ NucleusNames
  /\ at \in MembraneDone => DOMAIN membrane = Existing \ NucleusNames
  /\ \A n \in DOMAIN nucleus : nucleus[n] = dir[n]
  /\ \A n \in DOMAIN membrane : membrane[n] = dir[n]

StillInv == edits = 0 => Still

\* The declaration has not changed since the call.
Steady == at # "idle" /\ seen[Declaration] = {dir[Declaration]}

\* The files that were there all along.
Always == {n \in Name : Absent \notin seen[n]}

\* While the declaration stays, the files of its side are before each step or
\* behind it, and those of the other side are neither.
Cut ==
  /\ DOMAIN nucleus \subseteq NucleusNames
  /\ DOMAIN membrane \cap NucleusNames = {}
  /\ at = "nucleus" =>
       /\ todo \subseteq NucleusNames
       /\ Always \cap NucleusNames \subseteq DOMAIN nucleus \cup todo
  /\ at \in NucleusDone => Always \cap NucleusNames \subseteq DOMAIN nucleus
  /\ at = "membrane" =>
       /\ todo \cap NucleusNames = {}
       /\ Always \ NucleusNames \subseteq DOMAIN membrane \cup todo
  /\ at \in MembraneDone => Always \ NucleusNames \subseteq DOMAIN membrane

CutInv == Steady => Cut

IInv == TypeOK /\ SeenInv /\ PinInv /\ BlankInv /\ StillInv /\ CutInv

-----------------------------------------------------------------------------
(* The data *)

\* The names a declaration can give are names.
LEMMA Names ==
  ASSUME TypeOK
  PROVE  /\ NucleusNames \subseteq Name
         /\ Existing \subseteq Name
         /\ \A n \in Existing : dir[n] \in Version
         /\ Declaration \in Name /\ Artifact \in Name
BY PublishAssumption DEF TypeOK, NucleusNames, Existing

\* Adding an entry to entries.
LEMMA AddingKeeps ==
  ASSUME NEW e, IsEntries(e), NEW n \in Name, NEW v \in Version
  PROVE  IsEntries(With(e, n, v))
<1> DEFINE w == With(e, n, v)
<1>1. /\ DOMAIN w = DOMAIN e \cup {n} /\ w[n] = v
      /\ \A m \in DOMAIN e \ {n} : w[m] = e[m]
  BY DEF With
<1> HIDE DEF w
<1>2. IsEntries(w)
  BY <1>1 DEF IsEntries
<1> QED BY <1>2 DEF w

\* What a manifest pins, if it is there and can be read.
LEMMA Pinning ==
  ASSUME NEW v \in Version \cup {Absent}
  PROVE  \A n \in DOMAIN PinsIn(v) : n \in Name /\ PinsIn(v)[n] \in Version
BY PublishAssumption DEF PinsIn, Empty

\* An action of publish_cell edits nothing, and none but Call forgets.
LEMMA Quietly ==
  ASSUME Publishing
  PROVE  /\ UNCHANGED <<dir, edits>>
         /\ at # "idle" => UNCHANGED seen
         /\ at' # "idle"
         /\ at \notin Outcomes
         /\ Existing' = Existing /\ NucleusNames' = NucleusNames
<1>1. /\ UNCHANGED <<dir, edits>>
      /\ at # "idle" => UNCHANGED seen
      /\ at' # "idle"
      /\ at \notin Outcomes
  BY DEF Publishing, Call, ReadPins, BadManifest, VerifyBlob, Mismatch, Verified,
         RequireNucleus, InvalidCell, ListNucleus, AddNucleus, PutNucleus,
         ListMembrane, AddMembrane, AddFails, PutCell, PinCell, PinFails, Raise,
         Outcomes
<1> QED BY <1>1 DEF Existing, NucleusNames

-----------------------------------------------------------------------------
(* Each conjunct is kept *)

LEMMA TypeStep ==
  ASSUME TypeOK, [Next]_vars
  PROVE  TypeOK'
<1> USE DEF TypeOK, Outcomes
<1>1. CASE Call
  <2>1. \A n \in Name : {dir[n]} \in SUBSET (Version \cup {Absent})
    OBVIOUS
  <2>2. seen' \in [Name -> SUBSET (Version \cup {Absent})]
    BY <1>1, <2>1 DEF Call
  <2> QED BY <1>1, <2>2 DEF Call
<1>2. CASE ReadPins
  <2>1. dir[Artifact] \in Version \cup {Absent}
    BY Names
  <2>2. \A n \in DOMAIN pinned' : n \in Name /\ pinned'[n] \in Version
    BY <1>2, <2>1, Pinning DEF ReadPins
  <2> QED BY <1>2, <2>2 DEF ReadPins
<1>3. CASE BadManifest \/ Mismatch \/ InvalidCell \/ AddFails \/ PinFails
  BY <1>3 DEF BadManifest, Mismatch, InvalidCell, AddFails, PinFails, Raise
<1>4. CASE VerifyBlob
  BY <1>4 DEF VerifyBlob
<1>5. CASE Verified \/ RequireNucleus
  BY <1>5 DEF Verified, RequireNucleus
<1>6. CASE ListNucleus \/ ListMembrane
  BY <1>6, Names DEF ListNucleus, ListMembrane
<1>7. CASE AddNucleus
  <2>1. PICK n \in todo \cap Existing :
          nucleus' = With(nucleus, n, dir[n]) /\ todo' = todo \ {n}
    BY <1>7 DEF AddNucleus
  <2>2. n \in Name /\ dir[n] \in Version
    BY <2>1, Names
  <2>3. IsEntries(nucleus')
    BY <2>1, <2>2, AddingKeeps
  <2> QED BY <1>7, <2>1, <2>3 DEF AddNucleus
<1>8. CASE AddMembrane
  <2>1. PICK n \in todo \cap Existing :
          membrane' = With(membrane, n, dir[n]) /\ todo' = todo \ {n}
    BY <1>8 DEF AddMembrane
  <2>2. n \in Name /\ dir[n] \in Version
    BY <2>1, Names
  <2>3. IsEntries(membrane')
    BY <2>1, <2>2, AddingKeeps
  <2> QED BY <1>8, <2>1, <2>3 DEF AddMembrane
<1>9. CASE PutNucleus \/ PutCell
  BY <1>9 DEF PutNucleus, PutCell
<1>10. CASE PinCell
  BY <1>10 DEF PinCell
<1>11. CASE \E n \in Name, v \in Version \cup {Absent} : at # "idle" /\ Edit(n, v)
  <2>1. PICK n \in Name, v \in Version \cup {Absent} : Edit(n, v)
    BY <1>11
  <2>2. edits' \in 0..MaxEdits
    BY <2>1, PublishAssumption DEF Edit
  <2> QED BY <2>1, <2>2 DEF Edit
<1>12. CASE Collect
  BY <1>12 DEF Collect
<1>13. CASE UNCHANGED vars
  BY <1>13 DEF vars
<1> QED
  BY <1>1, <1>2, <1>3, <1>4, <1>5, <1>6, <1>7, <1>8, <1>9, <1>10, <1>11, <1>12,
     <1>13 DEF Next, Publishing

LEMMA SeenStep ==
  ASSUME TypeOK, SeenInv, [Next]_vars
  PROVE  SeenInv'
<1>1. CASE Call
  <2>1. \A n \in Name : seen'[n] = {dir[n]} /\ dir'[n] = dir[n]
    BY <1>1 DEF Call
  <2>2. \A n \in Name : IsFiniteSet({dir[n]})
    BY FS_Singleton
  <2> QED BY <2>1, <2>2 DEF SeenInv
<1>2. CASE Publishing /\ ~Call
  <2>1. at # "idle"
    BY <1>2
       DEF Publishing, ReadPins, BadManifest, VerifyBlob, Mismatch, Verified,
           RequireNucleus, InvalidCell, ListNucleus, AddNucleus, PutNucleus,
           ListMembrane, AddMembrane, AddFails, PutCell, PinCell, PinFails
  <2> QED BY <1>2, <2>1, Quietly DEF SeenInv
<1>3. CASE \E n \in Name, v \in Version \cup {Absent} : at # "idle" /\ Edit(n, v)
  <2>1. PICK n \in Name, v \in Version \cup {Absent} : at # "idle" /\ Edit(n, v)
    BY <1>3
  <2>2. \A m \in Name :
          /\ m # n => seen'[m] = seen[m] /\ dir'[m] = dir[m]
          /\ m = n => seen'[m] = seen[m] \cup {v} /\ dir'[m] = v
    BY <2>1 DEF Edit, TypeOK
  <2>3. IsFiniteSet(seen[n] \cup {v})
    BY FS_AddElement DEF SeenInv
  <2> QED BY <2>1, <2>2, <2>3 DEF Edit, SeenInv
<1>4. CASE Collect \/ UNCHANGED vars
  BY <1>4 DEF Collect, vars, SeenInv
<1> QED BY <1>1, <1>2, <1>3, <1>4 DEF Next

LEMMA PinStep ==
  ASSUME TypeOK, PinInv, [Next]_vars
  PROVE  PinInv'
<1> USE DEF PinInv, Published
<1>1. CASE \/ Call \/ ReadPins \/ VerifyBlob \/ Verified \/ RequireNucleus
           \/ ListNucleus \/ AddNucleus \/ PutNucleus
           \/ ListMembrane \/ AddMembrane \/ PutCell
  BY <1>1 DEF Call, ReadPins, VerifyBlob, Verified, RequireNucleus, ListNucleus,
     AddNucleus, PutNucleus, ListMembrane, AddMembrane, PutCell
<1>2. CASE BadManifest \/ Mismatch \/ InvalidCell \/ AddFails \/ PinFails
  BY <1>2 DEF BadManifest, Mismatch, InvalidCell, AddFails, PinFails, Raise
<1>3. CASE PinCell
  BY <1>3 DEF PinCell
<1>4. CASE \E n \in Name, v \in Version \cup {Absent} : at # "idle" /\ Edit(n, v)
  BY <1>4 DEF Edit
<1>5. CASE Collect \/ UNCHANGED vars
  BY <1>5 DEF Collect, vars
<1> QED BY <1>1, <1>2, <1>3, <1>4, <1>5 DEF Next, Publishing

LEMMA BlankStep ==
  ASSUME TypeOK, BlankInv, [Next]_vars
  PROVE  BlankInv'
<1> USE DEF BlankInv, MembraneDone
<1>1. CASE \/ Call \/ ReadPins \/ VerifyBlob \/ Verified \/ RequireNucleus
           \/ ListNucleus \/ AddNucleus \/ PutNucleus
           \/ ListMembrane \/ AddMembrane \/ PutCell \/ PinCell
  BY <1>1 DEF Call, ReadPins, VerifyBlob, Verified, RequireNucleus, ListNucleus,
     AddNucleus, PutNucleus, ListMembrane, AddMembrane, PutCell, PinCell
<1>2. CASE BadManifest \/ Mismatch \/ InvalidCell \/ AddFails \/ PinFails
  BY <1>2 DEF BadManifest, Mismatch, InvalidCell, AddFails, PinFails, Raise
<1>3. CASE \E n \in Name, v \in Version \cup {Absent} : at # "idle" /\ Edit(n, v)
  BY <1>3 DEF Edit
<1>4. CASE Collect \/ UNCHANGED vars
  BY <1>4 DEF Collect, vars
<1> QED BY <1>1, <1>2, <1>3, <1>4 DEF Next, Publishing

LEMMA StillStep ==
  ASSUME TypeOK, BlankInv, StillInv, [Next]_vars
  PROVE  StillInv'
<1> SUFFICES ASSUME edits' = 0 PROVE Still'
  BY DEF StillInv
<1> USE DEF Checked, Complete, NucleusDone, MembraneDone
<1>n. /\ NucleusNames \subseteq Name /\ Existing \subseteq Name
      /\ DOMAIN nucleus \subseteq Name /\ DOMAIN membrane \subseteq Name
  BY Names DEF TypeOK, IsEntries
<1>a. CASE Publishing
  <2>1. /\ UNCHANGED dir /\ Existing' = Existing /\ NucleusNames' = NucleusNames
        /\ Still
    BY <1>a, Quietly DEF StillInv
  <2>2. PinsHold(dir)' <=> PinsHold(dir)
    BY <2>1 DEF PinsHold, PinsIn
  <2>3. CASE Call
    BY <2>1, <2>2, <2>3 DEF Call, Still
  <2>4. CASE ReadPins
    BY <2>1, <2>2, <2>4 DEF ReadPins, Still
  <2>5. CASE BadManifest
    BY <2>1, <2>2, <2>5 DEF BadManifest, Raise, Still
  <2>6. CASE VerifyBlob
    BY <2>1, <2>2, <2>6 DEF VerifyBlob, Still
  <2>7. CASE Mismatch
    <3>1. PICK n \in todo : dir[n] # pinned[n]
      BY <2>7 DEF Mismatch
    <3>2. ~PinsHold(dir)
      BY <2>1, <2>7, <3>1 DEF Mismatch, Still, PinsHold
    <3> QED BY <2>1, <2>2, <2>7, <3>2 DEF Mismatch, Raise, Still
  <2>8. CASE Verified
    <3>1. PinsHold(dir)
      BY <2>1, <2>8 DEF Verified, Still, PinsHold
    <3> QED BY <2>1, <2>2, <2>8, <3>1 DEF Verified, Still
  <2>9. CASE RequireNucleus
    BY <2>1, <2>2, <2>9 DEF RequireNucleus, Still
  <2>10. CASE InvalidCell
    BY <2>1, <2>2, <2>10 DEF InvalidCell, Raise, Still
  <2>11. CASE ListNucleus
    <3>1. nucleus = Empty /\ todo' = NucleusNames
      BY <2>1, <2>11 DEF ListNucleus, Still, BlankInv
    <3> QED BY <2>1, <2>2, <2>11, <3>1 DEF ListNucleus, Still, Empty
  <2>12. CASE AddNucleus
    <3>1. PICK n \in todo \cap Existing :
            nucleus' = With(nucleus, n, dir[n]) /\ todo' = todo \ {n}
      BY <2>12 DEF AddNucleus
    <3>2. /\ DOMAIN nucleus' = DOMAIN nucleus \cup {n}
          /\ \A m \in DOMAIN nucleus' : nucleus'[m] = dir[m]
      BY <2>1, <3>1 DEF With, Still
    <3> QED BY <2>1, <2>2, <2>12, <3>1, <3>2 DEF AddNucleus, Still
  <2>13. CASE PutNucleus
    BY <2>1, <2>2, <2>13 DEF PutNucleus, Still
  <2>14. CASE ListMembrane
    <3>1. membrane = Empty
      BY <2>14 DEF ListMembrane, BlankInv
    <3> QED BY <2>1, <2>2, <2>14, <3>1 DEF ListMembrane, Still, Empty
  <2>15. CASE AddMembrane
    <3>1. PICK n \in todo \cap Existing :
            membrane' = With(membrane, n, dir[n]) /\ todo' = todo \ {n}
      BY <2>15 DEF AddMembrane
    <3>2. /\ DOMAIN membrane' = DOMAIN membrane \cup {n}
          /\ \A m \in DOMAIN membrane' : membrane'[m] = dir[m]
      BY <2>1, <3>1 DEF With, Still
    <3> QED BY <2>1, <2>2, <2>15, <3>1, <3>2 DEF AddMembrane, Still
  <2>16. CASE AddFails \/ PinFails
    BY <2>1, <2>2, <2>16 DEF AddFails, PinFails, Raise, Still
  <2>17. CASE PutCell
    BY <2>1, <2>2, <2>17 DEF PutCell, Still
  <2>18. CASE PinCell
    BY <2>1, <2>2, <2>18 DEF PinCell, Still
  <2> QED
    BY <1>a, <2>3, <2>4, <2>5, <2>6, <2>7, <2>8, <2>9, <2>10, <2>11, <2>12,
       <2>13, <2>14, <2>15, <2>16, <2>17, <2>18 DEF Publishing
<1>b. CASE \E n \in Name, v \in Version \cup {Absent} : at # "idle" /\ Edit(n, v)
  BY <1>b DEF Edit, TypeOK
<1>c. CASE Collect \/ UNCHANGED vars
  BY <1>c DEF Collect, vars, StillInv, Still, NucleusNames, Existing, PinsHold,
              PinsIn
<1> QED BY <1>a, <1>b, <1>c DEF Next

\* What was there all along was there all along before; and as long as the
\* declaration stays, so does the nucleus it names.
LEMMA Steadily ==
  ASSUME TypeOK, SeenInv, [Next]_vars, at # "idle"
  PROVE  /\ Always' \subseteq Always
         /\ Always \subseteq Existing
         /\ Steady' => Steady /\ NucleusNames' = NucleusNames
<1>d. Declaration \in Name
  BY Names
<1>1. \A n \in Name : seen[n] \subseteq seen'[n]
  <2>1. CASE Publishing \/ Collect \/ UNCHANGED vars
    BY <2>1, Quietly DEF Collect, vars
  <2>2. CASE \E n \in Name, v \in Version \cup {Absent} : at # "idle" /\ Edit(n, v)
    BY <2>2 DEF Edit, TypeOK
  <2> QED BY <2>1, <2>2 DEF Next
<1>2. Always' \subseteq Always
  BY <1>1 DEF Always
<1>3. Always \subseteq Existing
  BY DEF Always, Existing, SeenInv
<1>4. ASSUME Steady' PROVE Steady /\ NucleusNames' = NucleusNames
  <2>1. /\ seen[Declaration] \subseteq {dir'[Declaration]}
        /\ dir[Declaration] \in seen[Declaration]
    BY <1>1, <1>4, <1>d DEF Steady, SeenInv
  <2>2. dir'[Declaration] = dir[Declaration] /\ seen[Declaration] = {dir[Declaration]}
    BY <2>1
  <2> QED BY <2>2 DEF Steady, NucleusNames
<1> QED BY <1>2, <1>3, <1>4

LEMMA CutStep ==
  ASSUME TypeOK, SeenInv, BlankInv, CutInv, [Next]_vars
  PROVE  CutInv'
<1> SUFFICES ASSUME Steady' PROVE Cut'
  BY DEF CutInv
<1> USE DEF Checked, Complete, NucleusDone, MembraneDone
<1>1. CASE Call
  BY <1>1 DEF Call, Cut, BlankInv, Empty
<1>2. CASE ~Call /\ at # "idle"
  <2>1. /\ Always' \subseteq Always /\ Always \subseteq Existing
        /\ NucleusNames' = NucleusNames /\ Cut
    BY <1>2, Steadily DEF CutInv
  <2>2. NucleusNames \subseteq Name /\ Existing \subseteq Name
    BY Names
  <2>3. CASE ReadPins \/ VerifyBlob \/ Verified \/ RequireNucleus
    BY <2>1, <2>3 DEF ReadPins, VerifyBlob, Verified, RequireNucleus, Cut
  <2>4. CASE BadManifest \/ Mismatch \/ InvalidCell \/ AddFails \/ PinFails
    BY <2>1, <2>4 DEF BadManifest, Mismatch, InvalidCell, AddFails, PinFails,
                      Raise, Cut
  <2>5. CASE ListNucleus
    BY <2>1, <2>5 DEF ListNucleus, Cut
  <2>6. CASE AddNucleus
    <3>1. PICK n \in todo \cap Existing :
            nucleus' = With(nucleus, n, dir[n]) /\ todo' = todo \ {n}
      BY <2>6 DEF AddNucleus
    <3>2. DOMAIN nucleus' = DOMAIN nucleus \cup {n}
      BY <3>1 DEF With
    <3> QED BY <2>1, <2>6, <3>1, <3>2 DEF AddNucleus, Cut
  <2>7. CASE PutNucleus \/ PutCell \/ PinCell
    BY <2>1, <2>7 DEF PutNucleus, PutCell, PinCell, Cut
  <2>8. CASE ListMembrane
    BY <2>1, <2>8 DEF ListMembrane, Cut
  <2>9. CASE AddMembrane
    <3>1. PICK n \in todo \cap Existing :
            membrane' = With(membrane, n, dir[n]) /\ todo' = todo \ {n}
      BY <2>9 DEF AddMembrane
    <3>2. DOMAIN membrane' = DOMAIN membrane \cup {n}
      BY <3>1 DEF With
    <3> QED BY <2>1, <2>9, <3>1, <3>2 DEF AddMembrane, Cut
  <2>10. CASE \E n \in Name, v \in Version \cup {Absent} : at # "idle" /\ Edit(n, v)
    BY <2>1, <2>10 DEF Edit, Cut
  <2>11. CASE Collect \/ UNCHANGED vars
    BY <2>1, <2>11 DEF Collect, vars, Cut
  <2> QED
    BY <1>2, <2>3, <2>4, <2>5, <2>6, <2>7, <2>8, <2>9, <2>10, <2>11
       DEF Next, Publishing
<1>3. CASE at = "idle" /\ ~Call
  <2>1. at' = "idle"
    BY <1>3
       DEF Next, Publishing, ReadPins, BadManifest, VerifyBlob, Mismatch, Verified,
           RequireNucleus, InvalidCell, ListNucleus, AddNucleus, PutNucleus,
           ListMembrane, AddMembrane, AddFails, PutCell, PinCell, PinFails,
           Collect, vars
  <2> QED BY <2>1 DEF Steady
<1> QED BY <1>1, <1>2, <1>3

-----------------------------------------------------------------------------
(* The theorems of Publish *)

LEMMA InitInv == Init => IInv
<1> SUFFICES ASSUME Init PROVE IInv
  OBVIOUS
<1>1. TypeOK
  <2>1. /\ dir \in [Name -> Version \cup {Absent}] /\ edits \in 0..MaxEdits
        /\ seen \in [Name -> SUBSET (Version \cup {Absent})]
    BY PublishAssumption DEF Init
  <2>2. /\ IsEntries(nucleus) /\ IsEntries(membrane)
        /\ \A n \in DOMAIN pinned : pinned[n] \in Version
    BY DEF Init, IsEntries, Empty
  <2> QED BY <2>1, <2>2 DEF Init, TypeOK
<1>2. SeenInv
  BY FS_EmptySet DEF Init, SeenInv
<1>3. PinInv /\ BlankInv /\ CutInv
  BY DEF Init, PinInv, Published, BlankInv, CutInv, Steady
<1>4. StillInv
  BY DEF Init, StillInv, Still, Checked, Complete, NucleusDone, MembraneDone, Empty
<1> QED BY <1>1, <1>2, <1>3, <1>4 DEF IInv

LEMMA NextInv == IInv /\ [Next]_vars => IInv'
BY TypeStep, SeenStep, PinStep, BlankStep, StillStep, CutStep DEF IInv

LEMMA Invariance == Spec => []IInv
BY InitInv, NextInv, PTL DEF Spec

\* What publish_cell holds has the types of its locals.
THEOREM TypeCorrect == Spec => []TypeOK
<1>1. IInv => TypeOK
  BY DEF IInv
<1> QED BY <1>1, Invariance, PTL

\* `Published cells must survive GC': a published cell is pinned, and both its
\* manifests are there, however kubo collects in between.
THEOREM SurvivesCollection == Spec => []PublishedSurvives
<1>1. IInv => PublishedSurvives
  BY DEF IInv, PinInv, PublishedSurvives
<1> QED BY <1>1, Invariance, PTL

\* A directory nobody edits is published exactly as it is, if its pins hold
\* and its nucleus is complete, and is refused otherwise.
THEOREM ExactWhenQuiet == Spec => []QuietPublishIsExact
<1>1. IInv => QuietPublishIsExact
  <2> SUFFICES ASSUME IInv, edits = 0, at \in {"published", "mismatch", "invalid"}
               PROVE  /\ Published =>
                           /\ DOMAIN nucleus = NucleusNames
                           /\ DOMAIN membrane = Existing \ NucleusNames
                           /\ \A n \in Name : Entry(n) = dir[n]
                      /\ Published <=> /\ dir[Artifact] \notin Garbled
                                       /\ PinsHold(dir)
                                       /\ NucleusNames \subseteq Existing
    BY DEF QuietPublishIsExact
  <2> USE DEF Published, Checked, Complete, NucleusDone, MembraneDone
  <2>1. Still
    BY DEF IInv, StillInv
  <2>2. CASE Published
    <3>1. /\ DOMAIN nucleus = NucleusNames
          /\ DOMAIN membrane = Existing \ NucleusNames
      BY <2>1, <2>2 DEF Still
    <3>2. ASSUME NEW n \in Name PROVE Entry(n) = dir[n]
      BY <2>1, <3>1 DEF Still, Entry, Existing
    <3> QED BY <2>1, <2>2, <3>1, <3>2 DEF Still
  <2>3. CASE ~Published
    <3>1. at = "mismatch" \/ at = "invalid"
      BY <2>3
    <3> QED BY <2>1, <3>1, <2>3 DEF Still
  <2> QED BY <2>2, <2>3
<1> QED BY <1>1, Invariance, PTL

\* As long as its author leaves the declaration alone, a cell is cut where the
\* declaration says, and no file that was there all along is left out.
THEOREM CutClean == Spec => []BoundaryIsClean
<1>1. IInv => BoundaryIsClean
  <2> SUFFICES ASSUME IInv, Published, Cardinality(seen[Declaration]) = 1
               PROVE  /\ DOMAIN nucleus \subseteq NucleusNames
                      /\ DOMAIN membrane \cap NucleusNames = {}
                      /\ \A n \in Name : Absent \notin seen[n] =>
                           n \in DOMAIN nucleus \cup DOMAIN membrane
    BY DEF BoundaryIsClean
  <2>1. /\ IsFiniteSet(seen[Declaration]) /\ dir[Declaration] \in seen[Declaration]
    BY Names DEF IInv, SeenInv, Published
  <2>2. \E x : seen[Declaration] = {x}
    BY <2>1, FS_Singleton
  <2>3. Steady
    BY <2>1, <2>2 DEF Steady, Published
  <2>4. Cut
    BY <2>3 DEF IInv, CutInv
  <2> QED BY <2>4 DEF Cut, Published, NucleusDone, MembraneDone, Always
<1> QED BY <1>1, Invariance, PTL

-----------------------------------------------------------------------------
(* Publish implements Publication *)

\* What publish_cell has read so far, it may publish: of the directory since the
\* call, with the files a step has yet to read counted in.
OnceInv ==
  /\ Promise!Faithful(nucleus) /\ Promise!Faithful(membrane)
  /\ at \in Checked \cup {"verify"} =>
       \E m \in seen[Artifact] \ Garbled : pinned = PinsIn(m)
  /\ at = "verify" => \A n \in DOMAIN pinned \ todo : pinned[n] \in seen[n]
  /\ at \in Checked => \A n \in DOMAIN pinned : pinned[n] \in seen[n]
  /\ at \in Complete => Promise!NucleusWasComplete
  /\ at = "nucleus" => Promise!IsNucleus(DOMAIN nucleus \cup todo)
  /\ at \in NucleusDone => Promise!IsNucleus(DOMAIN nucleus)
  /\ at = "membrane" => Promise!IsMembrane(DOMAIN membrane \cup todo)
  /\ at \in MembraneDone => Promise!IsMembrane(DOMAIN membrane)

\* The names of the nucleus are those the present content of the declaration gives.
LEMMA NamedNow ==
  ASSUME TypeOK, SeenInv, at # "idle"
  PROVE  /\ Promise!NamedBy(dir[Declaration]) = NucleusNames
         /\ dir[Declaration] \in seen[Declaration]
         /\ Promise!Lasting \subseteq Existing
<1>1. Declaration \in Name
  BY Names
<1>2. Promise!Lasting \subseteq Existing
  BY DEF Promise!Lasting, SeenInv, Existing
<1> QED BY <1>1, <1>2 DEF Promise!NamedBy, NucleusNames, SeenInv

\* What was seen stays seen, and what it allowed stays allowed.
LEMMA Remembering ==
  ASSUME TypeOK, SeenInv, at # "idle",
         NEW n \in Name, NEW v \in Version \cup {Absent}, Edit(n, v)
  PROVE  /\ \A m \in Name : seen[m] \subseteq seen'[m]
         /\ Promise!Lasting' \subseteq Promise!Lasting
         /\ Promise!NucleusWasComplete => Promise!NucleusWasComplete'
         /\ UNCHANGED <<at, todo, pinned, nucleus, membrane>>
<1>0. Declaration \in Name /\ \A d \in Version : Declares[d] \subseteq Name
  BY PublishAssumption
<1>1. /\ \A m \in Name : seen[m] \subseteq seen'[m]
      /\ UNCHANGED <<at, todo, pinned, nucleus, membrane>>
  BY DEF Edit, TypeOK
<1>2. Promise!Lasting' \subseteq Promise!Lasting
  BY <1>1 DEF Promise!Lasting
<1>3. ASSUME Promise!NucleusWasComplete
      PROVE  Promise!NucleusWasComplete'
  <2>1. PICK d \in seen[Declaration] :
          \A m \in Promise!NamedBy(d) : seen[m] # {Absent}
    BY <1>3 DEF Promise!NucleusWasComplete
  <2>2. ASSUME NEW m \in Promise!NamedBy(d) PROVE seen'[m] # {Absent}
    <3>1. m \in Name
      BY <1>0, <2>1, PublishAssumption DEF Promise!NamedBy, TypeOK
    <3>2. dir[m] \in seen[m]
      BY <3>1 DEF SeenInv
    <3> QED BY <1>1, <2>1, <3>1, <3>2
  <2>3. d \in seen'[Declaration]
    BY <1>0, <1>1
  <2> QED BY <2>2, <2>3 DEF Promise!NucleusWasComplete, Promise!NamedBy
<1> QED BY <1>1, <1>2, <1>3

LEMMA OnceStep ==
  ASSUME TypeOK, SeenInv, BlankInv, OnceInv, [Next]_vars
  PROVE  OnceInv'
<1> USE DEF Checked, Complete, NucleusDone, MembraneDone
<1>a. Artifact \in Name /\ Declaration \in Name
  BY Names
<1>1. CASE Call
  BY <1>1 DEF Call, OnceInv, BlankInv, Promise!Faithful, Empty
<1>2. CASE Publishing /\ ~Call
  <2>0. /\ at # "idle" /\ at' # "idle" /\ UNCHANGED <<dir, seen>>
    <3>1. at # "idle"
      BY <1>2
         DEF Publishing, ReadPins, BadManifest, VerifyBlob, Mismatch, Verified,
             RequireNucleus, InvalidCell, ListNucleus, AddNucleus, PutNucleus,
             ListMembrane, AddMembrane, AddFails, PutCell, PinCell, PinFails
    <3> QED BY <1>2, <3>1, Quietly
  <2>n. /\ Promise!NamedBy(dir[Declaration]) = NucleusNames
        /\ dir[Declaration] \in seen[Declaration]
        /\ Promise!Lasting \subseteq Existing
    BY <2>0, NamedNow
  <2>u. /\ Promise!Lasting' = Promise!Lasting
        /\ Promise!NucleusWasComplete' = Promise!NucleusWasComplete
        /\ \A S : Promise!IsNucleus(S)' = Promise!IsNucleus(S)
        /\ \A S : Promise!IsMembrane(S)' = Promise!IsMembrane(S)
        /\ \A e : Promise!Faithful(e)' = Promise!Faithful(e)
    BY <2>0 DEF Promise!Lasting, Promise!NucleusWasComplete, Promise!IsNucleus,
                Promise!IsMembrane, Promise!Faithful, Promise!NamedBy
  <2>1. CASE ReadPins
    <3>1. /\ dir[Artifact] \in seen[Artifact] \ Garbled /\ at' = "verify"
          /\ pinned' = PinsIn(dir[Artifact]) /\ todo' = DOMAIN pinned'
          /\ UNCHANGED <<nucleus, membrane>>
      BY <1>a, <2>0, <2>1 DEF ReadPins, SeenInv
    <3> QED BY <2>0, <2>u, <3>1 DEF OnceInv
  <2>2. CASE VerifyBlob
    <3>1. PICK n \in todo : dir[n] = pinned[n] /\ todo' = todo \ {n}
      BY <2>2 DEF VerifyBlob
    <3>2. /\ at = "verify" /\ pinned[n] \in seen[n]
          /\ UNCHANGED <<at, pinned, nucleus, membrane>>
      BY <2>0, <2>2, <3>1 DEF VerifyBlob, TypeOK, SeenInv
    <3> QED BY <2>0, <2>u, <3>1, <3>2 DEF OnceInv
  <2>3. CASE Verified
    <3>1. /\ at = "verify" /\ at' = "require" /\ todo = {}
          /\ UNCHANGED <<pinned, nucleus, membrane>>
      BY <2>3 DEF Verified
    <3> QED BY <2>0, <2>u, <3>1 DEF OnceInv
  <2>4. CASE RequireNucleus
    <3>1. /\ at = "require" /\ at' = "list" /\ NucleusNames \subseteq Existing
          /\ UNCHANGED <<pinned, nucleus, membrane>>
      BY <2>4 DEF RequireNucleus
    <3>2. \A n \in NucleusNames : seen[n] # {Absent}
      BY <2>0, <3>1 DEF SeenInv, Existing
    <3>3. Promise!NucleusWasComplete
      BY <2>n, <3>2 DEF Promise!NucleusWasComplete
    <3> QED BY <2>0, <2>u, <3>1, <3>3 DEF OnceInv
  <2>5. CASE ListNucleus
    <3>1. /\ at = "list" /\ at' = "nucleus" /\ todo' = NucleusNames \cap Existing
          /\ nucleus = Empty
          /\ UNCHANGED <<pinned, nucleus, membrane>>
      BY <2>5 DEF ListNucleus, BlankInv
    <3>2. DOMAIN nucleus' \cup todo' = NucleusNames \cap Existing
      BY <3>1 DEF Empty
    <3>3. Promise!IsNucleus(NucleusNames \cap Existing)
      BY <2>n DEF Promise!IsNucleus
    <3>4. Promise!IsNucleus(DOMAIN nucleus \cup todo)'
      BY <2>0, <2>u, <3>2, <3>3 DEF Promise!IsNucleus
    <3> QED BY <2>0, <2>u, <3>1, <3>4 DEF OnceInv
  <2>6. CASE AddNucleus
    <3>1. PICK n \in todo \cap Existing :
            nucleus' = With(nucleus, n, dir[n]) /\ todo' = todo \ {n}
      BY <2>6 DEF AddNucleus
    <3>2. n \in Name /\ dir[n] \in seen[n] \ {Absent}
      BY <2>0, <3>1 DEF SeenInv, Existing
    <3>3. /\ DOMAIN nucleus' = DOMAIN nucleus \cup {n}
          /\ nucleus'[n] = dir[n]
          /\ \A m \in DOMAIN nucleus \ {n} : nucleus'[m] = nucleus[m]
      BY <3>1 DEF With
    <3>4. Promise!Faithful(nucleus)'
      BY <2>0, <3>2, <3>3 DEF OnceInv, Promise!Faithful
    <3>5. /\ at = "nucleus" /\ UNCHANGED <<at, pinned, membrane>>
          /\ DOMAIN nucleus' \cup todo' = DOMAIN nucleus \cup todo
      BY <2>6, <3>1, <3>3 DEF AddNucleus
    <3>6. Promise!IsNucleus(DOMAIN nucleus \cup todo)'
      BY <2>0, <2>u, <3>5 DEF OnceInv, Promise!IsNucleus
    <3> QED BY <2>0, <2>u, <3>4, <3>5, <3>6 DEF OnceInv
  <2>7. CASE PutNucleus
    <3>1. /\ at = "nucleus" /\ at' = "walk" /\ todo = {}
          /\ UNCHANGED <<pinned, nucleus, membrane>>
          /\ DOMAIN nucleus \cup todo = DOMAIN nucleus
      BY <2>7 DEF PutNucleus
    <3> QED BY <2>0, <2>u, <3>1 DEF OnceInv
  <2>8. CASE ListMembrane
    <3>1. /\ at = "walk" /\ at' = "membrane" /\ todo' = Existing \ NucleusNames
          /\ membrane = Empty
          /\ UNCHANGED <<pinned, nucleus, membrane>>
      BY <2>8 DEF ListMembrane, BlankInv
    <3>2. DOMAIN membrane' \cup todo' = Existing \ NucleusNames
      BY <3>1 DEF Empty
    <3>3. Promise!IsMembrane(Existing \ NucleusNames)
      BY <2>n DEF Promise!IsMembrane
    <3>4. Promise!IsMembrane(DOMAIN membrane \cup todo)'
      BY <2>0, <2>u, <3>2, <3>3 DEF Promise!IsMembrane
    <3> QED BY <2>0, <2>u, <3>1, <3>4 DEF OnceInv
  <2>9. CASE AddMembrane
    <3>1. PICK n \in todo \cap Existing :
            membrane' = With(membrane, n, dir[n]) /\ todo' = todo \ {n}
      BY <2>9 DEF AddMembrane
    <3>2. n \in Name /\ dir[n] \in seen[n] \ {Absent}
      BY <2>0, <3>1 DEF SeenInv, Existing
    <3>3. /\ DOMAIN membrane' = DOMAIN membrane \cup {n}
          /\ membrane'[n] = dir[n]
          /\ \A m \in DOMAIN membrane \ {n} : membrane'[m] = membrane[m]
      BY <3>1 DEF With
    <3>4. Promise!Faithful(membrane)'
      BY <2>0, <3>2, <3>3 DEF OnceInv, Promise!Faithful
    <3>5. /\ at = "membrane" /\ UNCHANGED <<at, pinned, nucleus>>
          /\ DOMAIN membrane' \cup todo' = DOMAIN membrane \cup todo
      BY <2>9, <3>1, <3>3 DEF AddMembrane
    <3>6. Promise!IsMembrane(DOMAIN membrane \cup todo)'
      BY <2>0, <2>u, <3>5 DEF OnceInv, Promise!IsMembrane
    <3> QED BY <2>0, <2>u, <3>4, <3>5, <3>6 DEF OnceInv
  <2>10. CASE PutCell
    <3>1. /\ at = "membrane" /\ at' = "pin" /\ todo = {}
          /\ UNCHANGED <<pinned, nucleus, membrane>>
          /\ DOMAIN membrane \cup todo = DOMAIN membrane
      BY <2>10 DEF PutCell
    <3> QED BY <2>0, <2>u, <3>1 DEF OnceInv
  <2>11. CASE PinCell
    <3>1. /\ at = "pin" /\ at' = "published"
          /\ UNCHANGED <<pinned, nucleus, membrane>>
      BY <2>11 DEF PinCell
    <3> QED BY <2>0, <2>u, <3>1 DEF OnceInv
  <2>12. CASE BadManifest \/ Mismatch \/ InvalidCell \/ AddFails \/ PinFails
    <3>1. /\ at' \in {"invalid", "mismatch", "failed"}
          /\ UNCHANGED <<nucleus, membrane>>
      BY <2>12 DEF BadManifest, Mismatch, InvalidCell, AddFails, PinFails, Raise
    <3> QED BY <2>0, <2>u, <3>1 DEF OnceInv
  <2> QED
    BY <1>2, <2>1, <2>2, <2>3, <2>4, <2>5, <2>6, <2>7, <2>8, <2>9, <2>10, <2>11, <2>12
       DEF Publishing
<1>3. CASE \E n \in Name, v \in Version \cup {Absent} : at # "idle" /\ Edit(n, v)
  <2>1. PICK n \in Name, v \in Version \cup {Absent} : at # "idle" /\ Edit(n, v)
    BY <1>3
  <2>2. /\ \A m \in Name : seen[m] \subseteq seen'[m]
        /\ Promise!Lasting' \subseteq Promise!Lasting
        /\ Promise!NucleusWasComplete => Promise!NucleusWasComplete'
        /\ UNCHANGED <<at, todo, pinned, nucleus, membrane>>
    BY <2>1, Remembering
  <2>3. Promise!Faithful(nucleus)' /\ Promise!Faithful(membrane)'
    BY <2>2 DEF OnceInv, Promise!Faithful
  <2>4. ASSUME NEW S, Promise!IsNucleus(S)
        PROVE  Promise!IsNucleus(S)'
    BY <1>a, <2>2, <2>4 DEF Promise!IsNucleus, Promise!NamedBy
  <2>5. ASSUME NEW S, Promise!IsMembrane(S)
        PROVE  Promise!IsMembrane(S)'
    BY <1>a, <2>2, <2>5 DEF Promise!IsMembrane, Promise!NamedBy
  <2>6. at' \in Checked \cup {"verify"} =>
          /\ \E m \in seen'[Artifact] \ Garbled : pinned' = PinsIn(m)
          /\ DOMAIN pinned \subseteq Name
    <3>1. ASSUME at \in Checked \cup {"verify"}
          PROVE  /\ \E m \in seen'[Artifact] \ Garbled : pinned = PinsIn(m)
                 /\ DOMAIN pinned \subseteq Name
      <4>1. PICK m \in seen[Artifact] \ Garbled : pinned = PinsIn(m)
        BY <3>1 DEF OnceInv
      <4>2. m \in Version \cup {Absent}
        BY <1>a, <4>1 DEF TypeOK
      <4> QED BY <1>a, <2>2, <4>1, <4>2, Pinning
    <3> QED BY <2>2, <3>1
  <2>7. /\ at' = "nucleus" => Promise!IsNucleus(DOMAIN nucleus \cup todo)'
        /\ at' \in NucleusDone => Promise!IsNucleus(DOMAIN nucleus)'
    BY <2>2, <2>4 DEF OnceInv
  <2>8. /\ at' = "membrane" => Promise!IsMembrane(DOMAIN membrane \cup todo)'
        /\ at' \in MembraneDone => Promise!IsMembrane(DOMAIN membrane)'
    BY <2>2, <2>5 DEF OnceInv
  <2>9. /\ at' = "verify" => \A k \in DOMAIN pinned' \ todo' : pinned'[k] \in seen'[k]
        /\ at' \in Checked => \A k \in DOMAIN pinned' : pinned'[k] \in seen'[k]
    BY <2>2, <2>6 DEF OnceInv
  <2> QED BY <2>2, <2>3, <2>6, <2>7, <2>8, <2>9 DEF OnceInv
<1>4. CASE Collect \/ UNCHANGED vars
  <2>1. UNCHANGED <<dir, at, todo, pinned, nucleus, membrane, seen>>
    BY <1>4 DEF Collect, vars
  <2> QED
    BY <2>1 DEF OnceInv, Promise!Lasting, Promise!NucleusWasComplete, Promise!IsNucleus,
                Promise!IsMembrane, Promise!Faithful, Promise!NamedBy
<1> QED BY <1>1, <1>2, <1>3, <1>4 DEF Next

\* Its locals always hold what it may publish.
LEMMA OnceInvariance == Spec => []OnceInv
<1>1. Init => OnceInv
  BY DEF Init, OnceInv, Promise!Faithful, Empty, Checked, Complete, NucleusDone,
         MembraneDone
<1>2. OnceInv /\ IInv /\ [Next]_vars => OnceInv'
  BY OnceStep DEF IInv
<1> QED BY <1>1, <1>2, Invariance, PTL DEF Spec

\* publish_cell, with all its reads and the author's edits between them, is one
\* step of an atomic publication, for every directory, declaration and manifest.
THEOREM ImplementsPublication == Spec => PublishesAtOnce
<1> USE DEF Published
<1>1. Init => Promise!Init
  BY PublishAssumption DEF Init, Promise!Init, Promise!Nothing, Promise!Blank, Empty
<1>2. IInv /\ OnceInv /\ [Next]_vars => [Promise!Next]_Promise!vars
  <2> SUFFICES ASSUME IInv, OnceInv, [Next]_vars
               PROVE  [Promise!Next]_Promise!vars
    OBVIOUS
  <2> USE DEF Promise!vars
  <2>1. CASE Call
    BY <2>1 DEF Call, Promise!Next, Promise!Begin
  <2>2. CASE ReadPins \/ VerifyBlob \/ Verified \/ RequireNucleus \/ ListNucleus
             \/ AddNucleus \/ PutNucleus \/ ListMembrane \/ AddMembrane \/ PutCell
    <3>1. /\ at \notin Outcomes \cup {"idle"} /\ at' \notin Outcomes \cup {"idle"}
          /\ UNCHANGED <<dir, seen>>
      BY <2>2 DEF ReadPins, VerifyBlob, Verified, RequireNucleus, ListNucleus, AddNucleus,
                  PutNucleus, ListMembrane, AddMembrane, PutCell, Outcomes
    <3> QED BY <3>1 DEF Outcomes
  <2>3. CASE BadManifest \/ Mismatch \/ InvalidCell \/ AddFails \/ PinFails
    <3>1. /\ at \notin Outcomes \cup {"idle"}
          /\ at' \in {"invalid", "mismatch", "failed"} /\ UNCHANGED <<dir, seen>>
      BY <2>3 DEF BadManifest, Mismatch, InvalidCell, AddFails, PinFails, Raise, Outcomes
    <3> QED BY <3>1 DEF Outcomes, Promise!Next, Promise!Refuse
  <2>4. CASE PinCell
    <3>1. /\ at = "pin" /\ at' = "published"
          /\ UNCHANGED <<dir, seen, nucleus, membrane, pinned>>
      BY <2>4 DEF PinCell
    <3>2. /\ Promise!Faithful(nucleus) /\ Promise!Faithful(membrane)
          /\ Promise!NucleusWasComplete
          /\ Promise!IsNucleus(DOMAIN nucleus) /\ Promise!IsMembrane(DOMAIN membrane)
      BY <3>1 DEF OnceInv, Complete, Checked, NucleusDone, MembraneDone
    <3>3. Promise!PinsWereHeld
      <4>1. PICK m \in seen[Artifact] \ Garbled : pinned = PinsIn(m)
        BY <3>1 DEF OnceInv, Checked
      <4>2. \A n \in DOMAIN pinned : pinned[n] \in seen[n]
        BY <3>1 DEF OnceInv, Checked
      <4>3. Promise!PinnedBy(m) = pinned
        BY <4>1 DEF Promise!PinnedBy, PinsIn, Promise!Blank, Empty
      <4> QED BY <4>1, <4>2, <4>3 DEF Promise!PinsWereHeld
    <3>4. Promise!MayBe([nucleus |-> nucleus, membrane |-> membrane])
      BY <3>2, <3>3 DEF Promise!MayBe
    <3>5. Promise!Publish
      BY <3>1, <3>4 DEF Promise!Publish, Promise!MayBe, Promise!Faithful,
         Promise!PinsWereHeld, Promise!NucleusWasComplete, Promise!IsNucleus,
         Promise!IsMembrane, Promise!Lasting
    <3> QED BY <3>5 DEF Promise!Next
  <2>5. CASE \E n \in Name, v \in Version \cup {Absent} : at # "idle" /\ Edit(n, v)
    <3>1. PICK n \in Name, v \in Version \cup {Absent} : at # "idle" /\ Edit(n, v)
      BY <2>5
    <3>2. /\ UNCHANGED <<at, nucleus, membrane>>
          /\ dir' = [dir EXCEPT ![n] = v] /\ seen' = [seen EXCEPT ![n] = @ \cup {v}]
      BY <3>1 DEF Edit
    <3>3. Promise!Edit(n, v)
      BY <3>1, <3>2 DEF Promise!Edit
    <3> QED BY <3>3 DEF Promise!Next
  <2>6. CASE Collect \/ UNCHANGED vars
    BY <2>6 DEF Collect, vars
  <2> QED
    BY <2>1, <2>2, <2>3, <2>4, <2>5, <2>6 DEF Next, Publishing
<1> QED
  BY <1>1, <1>2, Invariance, OnceInvariance, PTL DEF Spec, PublishesAtOnce, Promise!Spec

-----------------------------------------------------------------------------
(* Fetch *)

Places == Ended \cup {"import", "have", "daemon", "connect", "pin", "manifest",
                      "nucleus", "get"}

\* A call that has reached none of its files yet, or found it never can.
Unwriting == {"idle", "unavailable", "import", "have", "daemon", "connect", "pin",
              "manifest", "nucleus"}

\* A call that has resolved its hash and not failed since.
Resolved == {"manifest", "nucleus", "get", "built"}

\* What is pinned is all there.
PinsWhole == \A r \in pins : Have(r)

\* A file of the cell is yet to be written or written in full; the rest of the
\* directory is not touched.
WritesInv(c) ==
  /\ place[c] \in Unwriting => into[c] = before[c]
  /\ place[c] = "nucleus" => unwritten[c] = Files(root[c])
  /\ place[c] \in {"get", "built"} =>
       /\ \A f \in Files(root[c]) \ unwritten[c] : into[c][f] = "whole"
       /\ \A f \in (File \cup Other) \ Files(root[c]) : into[c][f] = before[c][f]
  /\ place[c] = "get" =>
       /\ unwritten[c] \subseteq Files(root[c])
       /\ \A f \in unwritten[c] : into[c][f] = before[c][f]
  /\ place[c] = "built" => unwritten[c] = {}

\* A call with a bundle imports it and never looks on the network; what was got
\* in either way is pinned from then on.
GotInv(c) ==
  /\ place[c] \in {"have", "daemon", "connect", "pin"} => ~car[c]
  /\ place[c] \in {"import", "have", "daemon"} => ~pinning[c]
  /\ place[c] = "import" => car[c]
  /\ place[c] \in {"connect", "pin"} => pinning[c]
  /\ (place[c] \in Resolved /\ (pinning[c] \/ car[c])) => root[c] \in pins

FetchInv ==
  /\ FetchTypeOK
  /\ unwritten \in [Caller -> SUBSET File]
  /\ PinsWhole
  /\ \A c \in Caller : WritesInv(c) /\ GotInv(c)

\* What a step of c does to another call: nothing.
Same(d) ==
  UNCHANGED <<place[d], root[d], car[d], pinning[d], unwritten[d], into[d], before[d]>>

LEMMA FetchTypes ==
  ASSUME FetchInv
  PROVE  /\ place \in [Caller -> Places]
         /\ root \in [Caller -> Manifest] /\ car \in [Caller -> BOOLEAN]
         /\ pinning \in [Caller -> BOOLEAN]
         /\ unwritten \in [Caller -> SUBSET File]
         /\ into \in [Caller -> [File \cup Other -> {"none", "torn", "whole", "old"}]]
         /\ before \in [Caller -> [File \cup Other -> {"none", "torn", "whole", "old"}]]
BY DEF FetchInv, FetchTypeOK, Places

\* The blocks under a manifest are blocks, and its files are files.
LEMMA Reach ==
  ASSUME NEW r \in Manifest
  PROVE  Under(r) \subseteq Block /\ Files(r) \subseteq File /\ r \in Block
BY DEF Manifest, Under, Files, Block, File

\* A step of one call.
Act(c) == StartCall(c) \/ Resolve(c) \/ Unpack(c) \/ Kill(c)

\* A step of one call leaves the others, and the node, as they are.
LEMMA Apart ==
  ASSUME FetchInv, NEW c \in Caller, Act(c)
  PROVE  /\ \A d \in Caller : d # c => Same(d)
         /\ UNCHANGED <<daemon, api, started, collected, peer, named>>
<1> USE FetchTypes DEF Same, Act, Goto, Stop, repo, node, call
<1>1. CASE StartCall(c)
  BY <1>1 DEF StartCall
<1>2. CASE Resolve(c)
  BY <1>2 DEF Resolve, Import, ImportFails, Local, Miss, NoDaemon, AskDaemon, Connect,
              PinLocally, Pull, Pinned, TimeOut, PinLosesDaemon
<1>3. CASE ReadRoot(c) \/ ReadNucleus(c) \/ ReadFails(c) \/ WriteFails(c) \/ Build(c)
           \/ IncompleteNucleus(c)
  BY <1>3 DEF ReadRoot, ReadNucleus, ReadFails, WriteFails, Build, IncompleteNucleus,
              GetNode
<1>4. CASE WriteFile(c)
  BY <1>4 DEF WriteFile
<1>5. CASE Kill(c)
  BY <1>5 DEF Kill
<1> QED BY <1>1, <1>2, <1>3, <1>4, <1>5 DEF Unpack

\* Pins are never taken back, and what is pinned is never collected.
LEMMA PinsWholeStep ==
  ASSUME FetchInv, [NextFetch]_fetchVars
  PROVE  PinsWhole' /\ pins \subseteq pins'
<1> USE DEF PinsWhole, Have, FetchInv
<1>1. ASSUME NEW c \in Caller, Act(c)
      PROVE  PinsWhole' /\ pins \subseteq pins'
  <2> USE DEF Goto, Stop, repo, node, call
  <2>1. CASE Import(c)
    BY <2>1 DEF Import
  <2>2. CASE ImportFails(c) \/ Pull(c)
    BY <2>2 DEF ImportFails, Pull
  <2>3. CASE PinLocally(c)
    BY <2>3 DEF PinLocally
  <2>4. CASE Pinned(c)
    BY <2>4 DEF Pinned
  <2>5. CASE ReadRoot(c) \/ ReadNucleus(c)
    BY <2>5 DEF ReadRoot, ReadNucleus, GetNode
  <2>6. CASE StartCall(c) \/ Local(c) \/ Miss(c) \/ NoDaemon(c) \/ AskDaemon(c)
             \/ Connect(c) \/ TimeOut(c) \/ PinLosesDaemon(c) \/ ReadFails(c)
             \/ WriteFile(c) \/ WriteFails(c) \/ Build(c) \/ IncompleteNucleus(c) \/ Kill(c)
    <3>1. UNCHANGED <<blocks, pins>>
      BY <2>6 DEF StartCall, Local, Miss, NoDaemon, AskDaemon, Connect, TimeOut,
                  PinLosesDaemon, ReadFails, WriteFile, WriteFails, Build,
                  IncompleteNucleus, Kill
    <3> QED BY <3>1
  <2> QED
    BY <1>1, <2>1, <2>2, <2>3, <2>4, <2>5, <2>6 DEF Act, Resolve, Unpack
<1>2. CASE CollectUnpinned
  <2>1. /\ pins' = pins
        /\ \A r \in pins : Under(r) \subseteq blocks \cap UNION {Under(s) : s \in pins}
    BY <1>2 DEF CollectUnpinned
  <2> QED BY <1>2, <2>1 DEF CollectUnpinned
<1>3. CASE StartDaemon \/ StopDaemon \/ PeerChanges \/ UNCHANGED fetchVars
  BY <1>3 DEF StartDaemon, StopDaemon, PeerChanges, repo, fetchVars
<1> QED BY <1>1, <1>2, <1>3 DEF NextFetch, Environment, Act

\* What a call keeps of its own when neither it nor the pins it relies on lose
\* anything.
LEMMA SameKeeps ==
  ASSUME FetchInv, NEW d \in Caller, Same(d), pins \subseteq pins'
  PROVE  WritesInv(d)' /\ GotInv(d)'
<1>1. WritesInv(d) /\ GotInv(d)
  BY DEF FetchInv
<1>2. WritesInv(d)'
  BY <1>1 DEF Same, WritesInv
<1>3. GotInv(d)'
  BY <1>1 DEF Same, GotInv
<1> QED BY <1>2, <1>3

\* Where a step takes the call that makes it, and what of its own it changes.
\* First, before anything is written.
LEMMA ResolveMoves ==
  ASSUME FetchInv, NEW c \in Caller, Resolve(c)
  PROVE  /\ UNCHANGED <<root[c], car[c], unwritten[c], into[c], before[c]>>
         /\ place[c] \in Unwriting /\ place'[c] \in Unwriting \cup {"error"}
         /\ place'[c] # "nucleus" /\ place'[c] # "import"
         /\ place'[c] \in {"have", "daemon", "connect", "pin"} =>
              place[c] \in {"have", "daemon", "connect", "pin"}
         /\ place'[c] \in {"import", "have", "daemon"} =>
              place[c] \in {"import", "have", "daemon"} /\ pinning'[c] = pinning[c]
         /\ place'[c] \in {"connect", "pin"} =>
              pinning'[c] \/ (place[c] \in {"connect", "pin"} /\ pinning'[c] = pinning[c])
         /\ place'[c] = "manifest" =>
              root[c] \in pins' \/ (place[c] = "have" /\ pinning'[c] = pinning[c])
         /\ place'[c] \notin {"get", "built"}
<1> USE FetchTypes DEF Goto, Stop, repo, node, call, Unwriting, Places, Ended
<1>1. CASE Import(c)
  BY <1>1 DEF Import
<1>2. CASE ImportFails(c)
  BY <1>2 DEF ImportFails
<1>3. CASE Local(c) \/ Miss(c) \/ NoDaemon(c) \/ Connect(c) \/ TimeOut(c)
           \/ PinLosesDaemon(c)
  BY <1>3 DEF Local, Miss, NoDaemon, Connect, TimeOut, PinLosesDaemon
<1>4. CASE AskDaemon(c)
  BY <1>4 DEF AskDaemon
<1>5. CASE PinLocally(c)
  BY <1>5 DEF PinLocally
<1>6. CASE Pull(c)
  BY <1>6 DEF Pull
<1>7. CASE Pinned(c)
  BY <1>7 DEF Pinned
<1> QED BY <1>1, <1>2, <1>3, <1>4, <1>5, <1>6, <1>7 DEF Resolve

LEMMA ResolveKeeps ==
  ASSUME FetchInv, NEW c \in Caller, Resolve(c), pins \subseteq pins'
  PROVE  WritesInv(c)' /\ GotInv(c)'
<1>1. WritesInv(c) /\ GotInv(c)
  BY DEF FetchInv
<1>2. WritesInv(c)'
  BY <1>1, ResolveMoves DEF WritesInv, Unwriting
<1>3. GotInv(c)'
  BY <1>1, ResolveMoves DEF GotInv, Unwriting, Resolved
<1> QED BY <1>2, <1>3

\* Unpacking keeps what was resolved, and the node's pins.
LEMMA UnpackMoves ==
  ASSUME FetchInv, NEW c \in Caller, Unpack(c)
  PROVE  /\ UNCHANGED <<root[c], car[c], pinning[c], before[c]>>
         /\ place[c] \in {"manifest", "nucleus", "get"}
         /\ place'[c] \in {"nucleus", "get", "error", "built", "invalid"}
<1> USE FetchTypes DEF Goto, Stop, repo, node, call
<1>1. CASE ReadRoot(c) \/ ReadNucleus(c)
  BY <1>1 DEF ReadRoot, ReadNucleus
<1>2. CASE ReadFails(c) \/ WriteFails(c)
  BY <1>2 DEF ReadFails, WriteFails
<1>3. CASE WriteFile(c)
  BY <1>3 DEF WriteFile
<1>4. CASE Build(c) \/ IncompleteNucleus(c)
  BY <1>4 DEF Build, IncompleteNucleus
<1> QED BY <1>1, <1>2, <1>3, <1>4 DEF Unpack

LEMMA UnpackKeeps ==
  ASSUME FetchInv, NEW c \in Caller, Unpack(c), pins \subseteq pins'
  PROVE  WritesInv(c)' /\ GotInv(c)'
<1>1. WritesInv(c) /\ GotInv(c)
  BY DEF FetchInv
<1>2. GotInv(c)'
  BY <1>1, UnpackMoves DEF GotInv, Resolved
<1>3. WritesInv(c)'
  <2> USE FetchTypes DEF Goto, Stop, repo, node, call
  <2>1. CASE ReadRoot(c)
    <3>1. /\ place'[c] \in {"nucleus", "get"} /\ unwritten'[c] = Files(root[c])
          /\ UNCHANGED <<root[c], into[c], before[c]>> /\ into[c] = before[c]
      BY <1>1, <2>1 DEF ReadRoot, WritesInv, Unwriting
    <3> QED BY <3>1 DEF WritesInv, Unwriting
  <2>2. CASE ReadNucleus(c)
    <3>1. /\ place'[c] = "get" /\ unwritten'[c] = Files(root[c])
          /\ UNCHANGED <<root[c], into[c], before[c]>> /\ into[c] = before[c]
      BY <1>1, <2>2 DEF ReadNucleus, WritesInv, Unwriting
    <3> QED BY <3>1 DEF WritesInv, Unwriting
  <2>3. CASE ReadFails(c) \/ WriteFails(c) \/ IncompleteNucleus(c)
    <3>1. place'[c] \in {"error", "invalid"}
      BY <2>3 DEF ReadFails, WriteFails, IncompleteNucleus
    <3> QED BY <3>1 DEF WritesInv, Unwriting
  <2>4. CASE WriteFile(c)
    <3>1. PICK f \in unwritten[c] \cap blocks :
            /\ into' = [into EXCEPT ![c][f] = "whole"]
            /\ unwritten' = [unwritten EXCEPT ![c] = @ \ {f}]
      BY <2>4 DEF WriteFile
    <3>2. /\ unwritten'[c] = unwritten[c] \ {f}
          /\ \A g \in File \cup Other :
               into'[c][g] = IF g = f THEN "whole" ELSE into[c][g]
      BY <3>1
    <3>3. place[c] = "get" /\ UNCHANGED <<place[c], root[c], before[c]>>
      BY <2>4 DEF WriteFile
    <3>4. Files(root[c]) \subseteq File
      BY Reach
    <3>5. f \in Files(root[c])
      BY <1>1, <3>3 DEF WritesInv
    <3> QED BY <1>1, <3>2, <3>3, <3>4, <3>5 DEF WritesInv, Unwriting
  <2>5. CASE Build(c)
    <3>1. /\ place[c] = "get" /\ place'[c] = "built" /\ unwritten[c] = {}
          /\ UNCHANGED <<root[c], into[c], before[c], unwritten[c]>>
      BY <2>5 DEF Build
    <3> QED BY <1>1, <3>1 DEF WritesInv, Unwriting
  <2> QED BY <2>1, <2>2, <2>3, <2>4, <2>5 DEF Unpack
<1> QED BY <1>2, <1>3

\* A call starts with the directory as it is, and with nothing pinned for it; a
\* killed one claims nothing.
LEMMA EndsKeep ==
  ASSUME FetchInv, NEW c \in Caller, StartCall(c) \/ Kill(c)
  PROVE  WritesInv(c)' /\ GotInv(c)'
<1> USE FetchTypes DEF Goto, repo, node, call
<1>1. CASE StartCall(c)
  <2>1. /\ place'[c] = IF car'[c] THEN "import" ELSE "have"
        /\ pinning'[c] = FALSE /\ before'[c] = into[c] /\ into' = into
    BY <1>1 DEF StartCall
  <2> QED BY <2>1 DEF WritesInv, GotInv, Unwriting, Resolved
<1>2. CASE Kill(c)
  <2>1. place'[c] = "killed"
    BY <1>2 DEF Kill
  <2> QED BY <2>1 DEF WritesInv, GotInv, Unwriting, Resolved
<1> QED BY <1>1, <1>2

LEMMA Putting ==
  ASSUME NEW D, NEW R, NEW g \in [Caller -> [D -> R]], NEW c \in Caller, NEW f, NEW v \in R
  PROVE  [g EXCEPT ![c][f] = v] \in [Caller -> [D -> R]]
<1>1. [g[c] EXCEPT ![f] = v] \in [D -> R]
  OBVIOUS
<1>2. [g EXCEPT ![c] = [g[c] EXCEPT ![f] = v]] \in [Caller -> [D -> R]]
  BY <1>1
<1> QED BY <1>2

LEMMA FetchTypeStep ==
  ASSUME FetchInv, [NextFetch]_fetchVars
  PROVE  FetchTypeOK' /\ unwritten' \in [Caller -> SUBSET File]
<1> USE FetchTypes DEF FetchTypeOK, FetchInv
<1>t. /\ blocks \subseteq Block /\ pins \subseteq Manifest
      /\ calls \in 0..MaxCalls /\ started \in 0..MaxDaemon /\ collected \in 0..MaxCollect
  OBVIOUS
<1>1. ASSUME NEW c \in Caller, Act(c)
      PROVE  FetchTypeOK' /\ unwritten' \in [Caller -> SUBSET File]
  <2> USE DEF Goto, Stop, repo, node, call, Act
  <2>r. Under(root[c]) \subseteq Block /\ Files(root[c]) \subseteq File /\ root[c] \in Block
    BY Reach
  <2>1. unwritten' \in [Caller -> SUBSET File]
    <3>1. CASE ReadRoot(c)
      BY <2>r, <3>1 DEF ReadRoot
    <3>2. CASE WriteFile(c)
      BY <3>2 DEF WriteFile
    <3>3. CASE ~ReadRoot(c) /\ ~WriteFile(c)
      <4>1. UNCHANGED unwritten
        BY <1>1, <3>3
           DEF StartCall, Resolve, Unpack, Kill, Import, ImportFails, Local, Miss,
               NoDaemon, AskDaemon, Connect, PinLocally, Pull, Pinned, TimeOut,
               PinLosesDaemon, ReadNucleus, ReadFails, WriteFails, Build,
               IncompleteNucleus
      <4> QED BY <4>1
    <3> QED BY <3>1, <3>2, <3>3
  <2>2. blocks' \subseteq Block /\ pins' \subseteq Manifest
    <3>1. CASE Import(c) \/ ImportFails(c) \/ Pull(c)
      BY <2>r, <3>1 DEF Import, ImportFails, Pull
    <3>2. CASE PinLocally(c) \/ Pinned(c)
      BY <3>2 DEF PinLocally, Pinned
    <3>3. CASE ReadRoot(c) \/ ReadNucleus(c)
      <4>1. "nucleus" \in Block
        BY DEF Block, Manifest
      <4> QED BY <2>r, <3>3, <4>1 DEF ReadRoot, ReadNucleus, GetNode
    <3>4. CASE StartCall(c) \/ Local(c) \/ Miss(c) \/ NoDaemon(c) \/ AskDaemon(c)
               \/ Connect(c) \/ TimeOut(c) \/ PinLosesDaemon(c) \/ ReadFails(c)
               \/ WriteFile(c) \/ WriteFails(c) \/ Build(c) \/ IncompleteNucleus(c)
               \/ Kill(c)
      <4>1. UNCHANGED <<blocks, pins>>
        BY <3>4 DEF StartCall, Local, Miss, NoDaemon, AskDaemon, Connect, TimeOut,
                    PinLosesDaemon, ReadFails, WriteFile, WriteFails, Build,
                    IncompleteNucleus, Kill
      <4> QED BY <4>1
    <3> QED BY <1>1, <3>1, <3>2, <3>3, <3>4 DEF Resolve, Unpack
  <2>3. /\ place' \in [Caller -> Places]
        /\ root' \in [Caller -> Manifest] /\ car' \in [Caller -> BOOLEAN]
    <3>1. CASE StartCall(c)
      BY <3>1 DEF StartCall, Places
    <3>2. CASE Resolve(c)
      BY <3>2 DEF Resolve, Import, ImportFails, Local, Miss, NoDaemon, AskDaemon, Connect,
                  PinLocally, Pull, Pinned, TimeOut, PinLosesDaemon, Places, Ended
    <3>3. CASE Unpack(c)
      BY <3>3 DEF Unpack, ReadRoot, ReadNucleus, ReadFails, WriteFile, WriteFails, Build,
                  IncompleteNucleus, Places, Ended
    <3>4. CASE Kill(c)
      BY <3>4 DEF Kill, Places, Ended
    <3> QED BY <1>1, <3>1, <3>2, <3>3, <3>4
  <2>4. pinning' \in [Caller -> BOOLEAN]
    <3>1. CASE StartCall(c)
      BY <3>1 DEF StartCall
    <3>2. CASE AskDaemon(c)
      BY <3>2 DEF AskDaemon
    <3>3. CASE ~StartCall(c) /\ ~AskDaemon(c)
      <4>1. UNCHANGED pinning
        BY <1>1, <3>3
           DEF Resolve, Unpack, Kill, Import, ImportFails, Local, Miss,
               NoDaemon, Connect, PinLocally, Pull, Pinned, TimeOut, PinLosesDaemon,
               ReadRoot, ReadNucleus, ReadFails, WriteFile, WriteFails, Build,
               IncompleteNucleus
      <4> QED BY <4>1
    <3> QED BY <3>1, <3>2, <3>3
  <2>5. /\ into' \in [Caller -> [File \cup Other -> {"none", "torn", "whole", "old"}]]
        /\ before' \in [Caller -> [File \cup Other -> {"none", "torn", "whole", "old"}]]
    <3>1. CASE StartCall(c)
      BY <3>1 DEF StartCall
    <3>2. CASE WriteFile(c)
      <4>1. before' = before /\ \E f : into' = [into EXCEPT ![c][f] = "whole"]
        BY <3>2 DEF WriteFile
      <4>2. PICK f : into' = [into EXCEPT ![c][f] = "whole"]
        BY <4>1
      <4>3. [into EXCEPT ![c][f] = "whole"] \in
              [Caller -> [File \cup Other -> {"none", "torn", "whole", "old"}]]
        BY Putting
      <4> QED BY <4>1, <4>2, <4>3
    <3>3. CASE Kill(c)
      <4>1. /\ before' = before
            /\ into' = into \/ \E f : into' = [into EXCEPT ![c][f] = "torn"]
        BY <3>3 DEF Kill
      <4>2. PICK f : into' = into \/ into' = [into EXCEPT ![c][f] = "torn"]
        BY <4>1
      <4>3. [into EXCEPT ![c][f] = "torn"] \in
              [Caller -> [File \cup Other -> {"none", "torn", "whole", "old"}]]
        BY Putting
      <4> QED BY <4>1, <4>2, <4>3
    <3>4. CASE ~StartCall(c) /\ ~WriteFile(c) /\ ~Kill(c)
      <4>1. UNCHANGED <<into, before>>
        BY <1>1, <3>4
           DEF Resolve, Unpack, Import, ImportFails, Local, Miss, NoDaemon, AskDaemon,
               Connect, PinLocally, Pull, Pinned, TimeOut, PinLosesDaemon, ReadRoot,
               ReadNucleus, ReadFails, WriteFails, Build, IncompleteNucleus
      <4> QED BY <4>1
    <3> QED BY <3>1, <3>2, <3>3, <3>4
  <2>6. calls' \in 0..MaxCalls
    <3>1. CASE StartCall(c)
      BY <1>t, <3>1, FetchAssumption DEF StartCall
    <3>2. CASE ~StartCall(c)
      <4>1. UNCHANGED calls
        BY <1>1, <3>2
           DEF Resolve, Unpack, Kill, Import, ImportFails, Local, Miss, NoDaemon,
               AskDaemon, Connect, PinLocally, Pull, Pinned, TimeOut, PinLosesDaemon,
               ReadRoot, ReadNucleus, ReadFails, WriteFile, WriteFails, Build,
               IncompleteNucleus
      <4> QED BY <4>1
    <3> QED BY <3>1, <3>2
  <2> HIDE DEF Act, FetchInv, FetchTypeOK
  <2>7. /\ UNCHANGED <<daemon, api, started, collected, peer, named>>
        /\ FetchTypeOK
    BY <1>1, Apart DEF FetchInv
  <2> QED
    BY <2>1, <2>2, <2>3, <2>4, <2>5, <2>6, <2>7 DEF FetchTypeOK, Places
<1>2. CASE Environment
  <2>1. started' \in 0..MaxDaemon /\ collected' \in 0..MaxCollect
    BY <1>2, <1>t, FetchAssumption
       DEF Environment, StartDaemon, StopDaemon, PeerChanges, CollectUnpinned
  <2>2. /\ UNCHANGED <<pins, place, call, pinning, unwritten, into>>
        /\ blocks' \subseteq blocks
        /\ daemon' \in BOOLEAN /\ api' \in BOOLEAN /\ peer' \in BOOLEAN
        /\ daemon' => api'
    <3>1. CASE StartDaemon
      BY <3>1 DEF StartDaemon, repo
    <3>2. CASE StopDaemon
      BY <3>2 DEF StopDaemon, repo
    <3>3. CASE PeerChanges
      BY <3>3 DEF PeerChanges, repo
    <3>4. CASE CollectUnpinned
      BY <3>4 DEF CollectUnpinned
    <3> QED BY <1>2, <3>1, <3>2, <3>3, <3>4 DEF Environment
  <2>3. UNCHANGED <<root, car, before, calls, named>>
    BY <2>2 DEF call
  <2>4. /\ unwritten' \in [Caller -> SUBSET File] /\ blocks' \subseteq Block
        /\ FetchTypeOK
    BY <1>t, <2>2
  <2> HIDE DEF FetchInv
  <2> QED BY <2>1, <2>2, <2>3, <2>4 DEF FetchTypeOK
<1>3. CASE UNCHANGED fetchVars
  BY <1>3 DEF fetchVars
<1> QED BY <1>1, <1>2, <1>3 DEF NextFetch, Act

LEMMA FetchStep ==
  ASSUME FetchInv, [NextFetch]_fetchVars
  PROVE  FetchInv'
<1>1. FetchTypeOK' /\ unwritten' \in [Caller -> SUBSET File]
  BY FetchTypeStep
<1>2. PinsWhole' /\ pins \subseteq pins'
  BY PinsWholeStep
<1>3. ASSUME NEW d \in Caller
      PROVE  WritesInv(d)' /\ GotInv(d)'
  <2>1. CASE \E c \in Caller : Act(c)
    <3>1. PICK c \in Caller : Act(c)
      BY <2>1
    <3>2. CASE d # c
      BY <1>2, <3>1, <3>2, Apart, SameKeeps
    <3>3. CASE d = c
      BY <1>2, <3>1, <3>3, ResolveKeeps, UnpackKeeps, EndsKeep DEF Act
    <3> QED BY <3>2, <3>3
  <2>2. CASE Environment \/ UNCHANGED fetchVars
    <3>1. Same(d)
      BY <2>2 DEF Environment, StartDaemon, StopDaemon, PeerChanges, CollectUnpinned,
                  call, fetchVars, Same
    <3> QED BY <1>2, <3>1, SameKeeps
  <2> QED BY <2>1, <2>2 DEF NextFetch, Act
<1> QED BY <1>1, <1>2, <1>3 DEF FetchInv

LEMMA FetchInitInv == InitFetch => FetchInv
<1> SUFFICES ASSUME InitFetch PROVE FetchInv
  OBVIOUS
<1> USE DEF InitFetch
<1>1. FetchTypeOK /\ unwritten \in [Caller -> SUBSET File]
  <2>1. /\ calls \in 0..MaxCalls /\ started \in 0..MaxDaemon /\ collected \in 0..MaxCollect
    BY FetchAssumption
  <2>2. /\ into \in [Caller -> [File \cup Other -> {"none", "torn", "whole", "old"}]]
        /\ before = into
    OBVIOUS
  <2>3. root \in [Caller -> Manifest] /\ place \in [Caller -> Ended]
    BY DEF Manifest, Ended
  <2>4. /\ unwritten \in [Caller -> SUBSET File]
        /\ \A c \in Caller : unwritten[c] \subseteq File
    OBVIOUS
  <2> QED BY <2>1, <2>2, <2>3, <2>4 DEF FetchTypeOK
<1>2. PinsWhole
  BY DEF PinsWhole
<1>3. \A c \in Caller : WritesInv(c) /\ GotInv(c)
  BY DEF WritesInv, GotInv, Unwriting, Resolved
<1> QED BY <1>1, <1>2, <1>3 DEF FetchInv

LEMMA FetchInvariance == FetchSpec => []FetchInv
BY FetchInitInv, FetchStep, PTL DEF FetchSpec

\* What a call, the repo and the node hold, and that a call writes files only.
THEOREM FetchTypeCorrect == FetchSpec => []FetchTypeOK
<1>1. FetchInv => FetchTypeOK
  BY DEF FetchInv
<1> QED BY <1>1, FetchInvariance, PTL

\* unpack_cell reconstructs every file of the cell whole, over whatever a killed
\* or failed call left in the directory, and touches no other; a cell that is
\* unavailable leaves the directory as it was.
THEOREM WholeCellOrNothing == FetchSpec => []WholeOrNothing
<1>1. FetchInv => WholeOrNothing
  <2> SUFFICES ASSUME FetchInv PROVE WholeOrNothing
    OBVIOUS
  <2>1. \A c \in Caller : WritesInv(c)
    BY DEF FetchInv
  <2>2. BuiltIsWhole
    BY <2>1 DEF WritesInv, BuiltIsWhole
  <2>3. UnavailableWritesNothing
    BY <2>1 DEF WritesInv, UnavailableWritesNothing, Unwriting
  <2> QED BY <2>2, <2>3 DEF WholeOrNothing
<1> QED BY <1>1, FetchInvariance, PTL

\* `Fetched (pinned, so it stays local)': once pin_add or the import of a bundle
\* has returned, the call's root is pinned and no collection takes any of it.
THEOREM FetchedIsKept == FetchSpec => []FetchedStays
<1>1. FetchInv => FetchedStays
  BY DEF FetchInv, GotInv, PinsWhole, FetchedStays, Resolved
<1> QED BY <1>1, FetchInvariance, PTL

-----------------------------------------------------------------------------
(* Fetch implements Delivery *)

\* The directory and the files of Delivery are those of Fetch.
LEMMA DeliveredFiles ==
  /\ Contract!Path = File \cup Other
  /\ \A r \in Manifest : Contract!Below(r) = Files(r)
BY DEF Contract!Path, Contract!Below, File, Files, Manifest

\* To the callers a step of one call is a step of that call alone.
LEMMA ShownApart ==
  ASSUME FetchInv, NEW c \in Caller, Act(c)
  PROVE  /\ [d \in Caller |-> SeenOf(d)]' = [[d \in Caller |-> SeenOf(d)] EXCEPT ![c] = SeenOf(c)']
         /\ [d \in Caller |-> ShownTo(d)]' = [[d \in Caller |-> ShownTo(d)] EXCEPT ![c] = ShownTo(c)']
         /\ Unpinned' \ {c} = Unpinned \ {c}
<1>1. ASSUME NEW d \in Caller, d # c
      PROVE  /\ SeenOf(d)' = SeenOf(d) /\ ShownTo(d)' = ShownTo(d)
             /\ d \in Unpinned' <=> d \in Unpinned
  <2>1. Same(d)
    BY <1>1, Apart
  <2> QED BY <2>1 DEF Same, SeenOf, ShownTo, Unpinned
<1>2. Unpinned \subseteq Caller /\ Unpinned' \subseteq Caller
  BY DEF Unpinned
<1> QED BY <1>1, <1>2

\* What is pinned stays pinned, and whole.
LEMMA KeptWhole ==
  ASSUME FetchInv, [NextFetch]_fetchVars
  PROVE  Contract!Keeping
<1>1. PinsWhole' /\ pins \subseteq pins' /\ pins' \subseteq Manifest
  BY PinsWholeStep, FetchTypeStep DEF FetchTypeOK
<1> QED BY <1>1 DEF Contract!Keeping, PinsWhole

\* How a call resolves its hash: it is denied, it fails, it finds the cell, it goes
\* on or it has it pinned.
LEMMA ResolveShows ==
  ASSUME FetchInv, NEW c \in Caller, Resolve(c)
  PROVE  \/ place'[c] = "unavailable" /\ UNCHANGED <<blocks, pins>>
         \/ place'[c] = "error"
         \/ /\ place[c] = "have" /\ place'[c] = "manifest" /\ Have(root[c])
            /\ UNCHANGED <<blocks, pins>>
         \/ place'[c] \in {"daemon", "connect", "pin"}
         \/ place'[c] = "manifest" /\ (pinning'[c] \/ car'[c])
<1> USE FetchTypes DEF Goto, Stop, repo, node, call
<1>0. GotInv(c)
  BY DEF FetchInv
<1>1. CASE Import(c)
  BY <1>0, <1>1 DEF Import, GotInv
<1>2. CASE ImportFails(c) \/ PinLosesDaemon(c)
  BY <1>2 DEF ImportFails, PinLosesDaemon
<1>3. CASE Local(c)
  BY <1>3 DEF Local
<1>4. CASE Miss(c) \/ AskDaemon(c) \/ Connect(c)
  BY <1>4 DEF Miss, AskDaemon, Connect
<1>5. CASE NoDaemon(c) \/ TimeOut(c)
  BY <1>5 DEF NoDaemon, TimeOut
<1>6. CASE PinLocally(c) \/ Pinned(c)
  BY <1>0, <1>6 DEF PinLocally, Pinned, GotInv
<1>7. CASE Pull(c)
  BY <1>7 DEF Pull
<1> QED BY <1>1, <1>2, <1>3, <1>4, <1>5, <1>6, <1>7 DEF Resolve

\* A call that fails once it unpacks leaves each file as it was or whole, and one
\* that it was writing may be torn.
LEMMA FailLeaves ==
  ASSUME FetchInv, NEW c \in Caller, Unpack(c) \/ Kill(c) \/ Resolve(c),
         place'[c] \in {"error", "invalid", "killed"}
  PROVE  Contract!Left(c, into'[c])
<1> USE FetchTypes DEF Goto, Stop, repo, node, call
<1>0. /\ WritesInv(c) /\ place[c] \notin Ended
      /\ ShownTo(c) = before[c]
  <2>1. place[c] \notin Ended
    BY ResolveMoves, UnpackMoves
       DEF Resolve, Import, ImportFails, Local, Miss, NoDaemon, AskDaemon, Connect,
           PinLocally, Pull, Pinned, TimeOut, PinLosesDaemon, Kill, Ended
  <2> QED BY <2>1 DEF FetchInv, ShownTo
<1>1. Files(root[c]) \subseteq File /\ root[c] \in Manifest
  BY Reach
<1>2. \A f \in File \cup Other :
        into[c][f] # before[c][f] => f \in Files(root[c]) /\ into[c][f] = "whole"
  <2>1. CASE place[c] = "get"
    BY <1>0, <2>1 DEF WritesInv
  <2>2. CASE place[c] # "get"
    BY <1>0, <2>2 DEF WritesInv, Unwriting, Places, Ended
  <2> QED BY <2>1, <2>2
<1>3. \/ into'[c] = into[c]
      \/ \E f \in Files(root[c]) : into'[c] = [into[c] EXCEPT ![f] = "torn"]
  <2>1. CASE Kill(c)
    BY <1>0, <2>1 DEF Kill, WritesInv
  <2>2. CASE Resolve(c)
    BY <2>2, ResolveMoves
  <2>3. CASE Unpack(c)
    <3>1. ReadFails(c) \/ WriteFails(c) \/ IncompleteNucleus(c)
      BY <2>3 DEF Unpack, ReadRoot, ReadNucleus, WriteFile, Build
    <3> QED BY <3>1 DEF ReadFails, WriteFails, IncompleteNucleus
  <2> QED BY <2>1, <2>2, <2>3
<1>4. \A f \in File \cup Other :
        into'[c][f] # before[c][f] =>
          f \in Files(root[c]) /\ into'[c][f] \in {"whole", "torn"}
  BY <1>1, <1>2, <1>3
<1>5. ASSUME NEW f \in File \cup Other, NEW g \in File \cup Other,
             into'[c][f] = "torn", before[c][f] # "torn",
             into'[c][g] = "torn", before[c][g] # "torn"
      PROVE  f = g
  <2>1. into[c][f] # "torn" /\ into[c][g] # "torn"
    BY <1>2, <1>5
  <2>2. PICK h \in Files(root[c]) : into'[c] = [into[c] EXCEPT ![h] = "torn"]
    BY <1>3, <1>5, <2>1
  <2>3. into[c] \in [File \cup Other -> {"none", "torn", "whole", "old"}]
    OBVIOUS
  <2>4. f = h /\ g = h
    BY <1>5, <2>1, <2>2, <2>3
  <2> QED BY <2>4
<1> QED BY <1>0, <1>1, <1>4, <1>5, DeliveredFiles DEF Contract!Left

\* Two sets that are alike but for one element, and for it too, are the same.
LEMMA AlikeAt ==
  ASSUME NEW A, NEW B, NEW c, A \ {c} = B \ {c}, c \in A <=> c \in B
  PROVE  A = B
<1>1. ASSUME NEW x
      PROVE  x \in A <=> x \in B
  <2>1. CASE x = c
    BY <2>1
  <2>2. CASE x # c
    <3>1. /\ x \in A <=> x \in A \ {c}
          /\ x \in B <=> x \in B \ {c}
      BY <2>2
    <3> QED BY <3>1
  <2> QED BY <2>1, <2>2
<1> QED BY <1>1

\* What a caller sees of a step of its call.
LEMMA ActShows ==
  ASSUME FetchInv, NEW c \in Caller, Act(c), Contract!Keeping
  PROVE  Contract!Ask(c) \/ Contract!Find(c) \/ Contract!Trade \/ Contract!Deliver(c)
         \/ Contract!Deny(c) \/ Contract!Fail(c)
<1> DEFINE S == [d \in Caller |-> SeenOf(d)]
           V == [d \in Caller |-> ShownTo(d)]
<1> USE FetchTypes
<1>1. /\ S' = [S EXCEPT ![c] = SeenOf(c)'] /\ V' = [V EXCEPT ![c] = ShownTo(c)']
      /\ Unpinned' \ {c} = Unpinned \ {c}
      /\ S[c] = SeenOf(c) /\ V[c] = ShownTo(c)
  BY ShownApart
<1>w. WritesInv(c) /\ GotInv(c)
  BY DEF FetchInv
<1>r. ~StartCall(c) => UNCHANGED root
  BY DEF Act, Resolve, Unpack, Kill, Import, ImportFails, Local, Miss, NoDaemon,
         AskDaemon, Connect, PinLocally, Pull, Pinned, TimeOut, PinLosesDaemon, ReadRoot,
         ReadNucleus, ReadFails, WriteFile, WriteFails, Build, IncompleteNucleus, Stop,
         call
\* A call that goes on, with what it found: nothing to see.
<1>t. ASSUME SeenOf(c)' = SeenOf(c), ShownTo(c)' = ShownTo(c), UNCHANGED root,
             c \in Unpinned' <=> c \in Unpinned
      PROVE  Contract!Trade
  <2>1. S' = S /\ V' = V
    BY <1>1, <1>t
  <2>2. Unpinned' = Unpinned
    BY <1>1, <1>t, AlikeAt
  <2> QED BY <1>t, <2>1, <2>2 DEF Contract!Trade
\* A call that fails, having left of its directory what a failure may.
<1>f. ASSUME SeenOf(c) = "asked", place'[c] \in {"error", "invalid", "killed"},
             Contract!Left(c, into'[c]), UNCHANGED root
      PROVE  Contract!Fail(c)
  <2>1. SeenOf(c)' = "failed" /\ ShownTo(c)' = into'[c] /\ c \notin Unpinned'
    BY <1>f DEF SeenOf, ShownTo, Unpinned, Ended
  <2>2. Unpinned' = Unpinned \ {c} /\ V'[c] = into'[c]
    BY <1>1, <2>1
  <2> QED BY <1>1, <1>f, <2>1, <2>2 DEF Contract!Fail
<1>2. CASE StartCall(c)
  <2>1. /\ place[c] \in Ended /\ place'[c] \in {"import", "have"}
        /\ before'[c] = into[c] /\ UNCHANGED <<blocks, pins, into>>
        /\ \E r \in Manifest : root' = [root EXCEPT ![c] = r]
    BY <1>2 DEF StartCall, Goto, repo, node
  <2>2. /\ SeenOf(c) # "asked" /\ SeenOf(c)' = "asked"
        /\ ShownTo(c)' = ShownTo(c) /\ c \notin Unpinned'
    BY <2>1 DEF SeenOf, ShownTo, Unpinned, Ended
  <2>3. V' = V /\ Unpinned' = Unpinned \ {c}
    BY <1>1, <2>2
  <2> QED BY <1>1, <2>1, <2>2, <2>3 DEF Contract!Ask, Contract!Hashes, Have, Manifest
<1>3. CASE Resolve(c)
  <2>1. /\ UNCHANGED <<root, into[c], before[c]>> /\ car'[c] = car[c]
        /\ place[c] \in {"import", "have", "daemon", "connect", "pin"}
        /\ into[c] = before[c]
    <3>1. place[c] \in {"import", "have", "daemon", "connect", "pin"}
      BY <1>3 DEF Resolve, Import, ImportFails, Local, Miss, NoDaemon, AskDaemon, Connect,
                  PinLocally, Pull, Pinned, TimeOut, PinLosesDaemon
    <3>2. UNCHANGED root
      BY <1>3, <1>r, <3>1 DEF StartCall, Ended
    <3> QED BY <1>3, <1>w, <3>1, <3>2, ResolveMoves DEF WritesInv, Unwriting
  <2>2. /\ SeenOf(c) = "asked" /\ ShownTo(c) = before[c] /\ ShownTo(c)' = ShownTo(c)
        /\ c \notin Unpinned
    BY <2>1 DEF SeenOf, ShownTo, Unpinned, Ended
  <2>3. CASE place'[c] = "unavailable" /\ UNCHANGED <<blocks, pins>>
    <3>1. SeenOf(c)' = "denied" /\ c \notin Unpinned'
      BY <2>3 DEF SeenOf, Unpinned
    <3>2. V' = V
      BY <1>1, <2>2
    <3>3. Unpinned' = Unpinned
      BY <1>1, <2>2, <3>1, AlikeAt
    <3> QED BY <1>1, <2>1, <2>2, <2>3, <3>1, <3>2, <3>3 DEF Contract!Deny, Have
  <2>4. CASE place'[c] = "error"
    BY <1>3, <1>f, <2>1, <2>2, <2>4, FailLeaves
  <2>5. CASE place[c] = "have" /\ place'[c] = "manifest" /\ Have(root[c])
             /\ UNCHANGED <<blocks, pins>>
    <3>1. ~pinning'[c] /\ ~car'[c]
      BY <1>3, <1>w, <2>1, <2>5 DEF GotInv, Resolve, Import, ImportFails, Local, Miss,
         NoDaemon, AskDaemon, Connect, PinLocally, Pull, Pinned, TimeOut, PinLosesDaemon,
         Stop, Goto
    <3>2. SeenOf(c)' = "asked" /\ c \in Unpinned'
      BY <2>5, <3>1 DEF SeenOf, Unpinned
    <3>3. S' = S /\ V' = V /\ Unpinned' = Unpinned \cup {c}
      BY <1>1, <2>2, <3>2
    <3>4. root[c] \in {r \in Manifest : Have(r)}
      BY <2>5
    <3>5. UNCHANGED {r \in Manifest : Have(r)}
      BY <2>5 DEF Have
    <3> QED BY <1>1, <2>1, <2>2, <2>5, <3>3, <3>4, <3>5 DEF Contract!Find
  <2>6. CASE \/ place'[c] \in {"daemon", "connect", "pin"}
             \/ place'[c] = "manifest" /\ (pinning'[c] \/ car'[c])
    <3>1. SeenOf(c)' = "asked" /\ c \notin Unpinned'
      BY <2>6 DEF SeenOf, Unpinned
    <3> QED BY <1>t, <2>1, <2>2, <3>1
  <2> QED BY <1>3, <2>3, <2>4, <2>5, <2>6, ResolveShows
<1>4. CASE Unpack(c)
  <2>1. /\ UNCHANGED <<root, car[c], pinning[c], before[c]>>
        /\ place[c] \in {"manifest", "nucleus", "get"}
        /\ place'[c] \in {"nucleus", "get", "error", "built", "invalid"}
    <3>1. UNCHANGED root
      BY <1>4, <1>r, UnpackMoves DEF StartCall, Ended
    <3> QED BY <1>4, <3>1, UnpackMoves
  <2>2. /\ SeenOf(c) = "asked" /\ ShownTo(c) = before[c]
        /\ c \in Unpinned <=> ~pinning[c] /\ ~car[c]
    BY <2>1 DEF SeenOf, ShownTo, Unpinned, Ended
  <2>3. CASE place'[c] \in {"nucleus", "get"}
    <3>1. /\ SeenOf(c)' = "asked" /\ ShownTo(c)' = before'[c]
          /\ c \in Unpinned' <=> ~pinning'[c] /\ ~car'[c]
      BY <2>3 DEF SeenOf, ShownTo, Unpinned, Ended
    <3> QED BY <1>t, <2>1, <2>2, <3>1
  <2>4. CASE place'[c] \in {"error", "invalid"}
    BY <1>4, <1>f, <2>1, <2>2, <2>4, FailLeaves
  <2>5. CASE place'[c] = "built"
    <3>1. /\ place[c] = "get" /\ unwritten[c] = {} /\ into'[c] = into[c]
          /\ UNCHANGED <<blocks, pins>>
      BY <1>4, <2>1, <2>5
         DEF Unpack, ReadRoot, ReadNucleus, ReadFails, WriteFile, WriteFails, Build,
             IncompleteNucleus, Goto, Stop, repo
    <3>2. /\ SeenOf(c)' = "delivered" /\ ShownTo(c)' = into[c]
          /\ c \in Unpinned' <=> ~pinning[c] /\ ~car[c]
      BY <2>1, <2>5, <3>1 DEF SeenOf, ShownTo, Unpinned, Ended
    <3>3. Unpinned' = Unpinned
      BY <1>1, <2>2, <3>2, AlikeAt
    <3>4. c \in Unpinned \/ root[c] \in pins
      BY <1>w, <2>2, <3>1 DEF GotInv, Resolved
    <3>5. into[c] = [f \in File \cup Other |->
                       IF f \in Files(root[c]) THEN "whole" ELSE before[c][f]]
      <4>1. /\ \A f \in Files(root[c]) : into[c][f] = "whole"
            /\ \A f \in (File \cup Other) \ Files(root[c]) : into[c][f] = before[c][f]
        BY <1>w, <3>1 DEF WritesInv
      <4> QED BY <4>1
    <3>6. V' = [V EXCEPT ![c] = [f \in Contract!Path |->
                  IF f \in Contract!Below(root[c]) THEN "whole" ELSE @[f]]]
      <4>1. [f \in Contract!Path |->
               IF f \in Contract!Below(root[c]) THEN "whole" ELSE V[c][f]] = into[c]
        BY <1>1, <2>2, <3>5, DeliveredFiles
      <4> HIDE DEF V
      <4>2. V' = [V EXCEPT ![c] = into[c]]
        BY <1>1, <3>2
      <4> QED BY <4>1, <4>2
    <3>7. UNCHANGED {r \in Manifest : Have(r)}
      BY <3>1 DEF Have
    <3> QED
      BY <1>1, <2>1, <2>2, <3>1, <3>2, <3>3, <3>4, <3>6, <3>7 DEF Contract!Deliver
  <2> QED BY <2>1, <2>3, <2>4, <2>5
<1>5. CASE Kill(c)
  <2>1. place[c] \notin Ended /\ place'[c] = "killed"
    BY <1>5 DEF Kill, Goto
  <2>2. SeenOf(c) = "asked" /\ UNCHANGED root
    BY <1>r, <2>1 DEF SeenOf, Ended, StartCall
  <2> QED BY <1>5, <1>f, <2>1, <2>2, FailLeaves
<1> QED BY <1>2, <1>3, <1>4, <1>5 DEF Act

\* from_hash, with every command it gives and all that the daemon, the network, a
\* collector and the other callers do between them, is to its caller one step of the
\* abstract delivery, for all callers and every cell.
THEOREM ImplementsDelivery == FetchSpec => Delivers
<1>1. InitFetch => Contract!Init
  <2> SUFFICES ASSUME InitFetch
               PROVE  Contract!Init
    OBVIOUS
  <2>1. /\ pins = {} /\ root = [c \in Caller |-> "cell"]
        /\ \A c \in Caller : place[c] = "idle"
        /\ \E was \in {"none", "old"} :
             into = [c \in Caller |-> [f \in File \cup Other |-> was]]
    BY DEF InitFetch
  <2>2. /\ \A c \in Caller : SeenOf(c) = "idle" /\ ShownTo(c) = into[c]
        /\ Unpinned = {}
    BY <2>1 DEF SeenOf, ShownTo, Unpinned, Ended
  <2>3. into \in [Caller -> [File \cup Other -> {"none", "old"}]]
    BY <2>1
  <2>4. /\ [c \in Caller |-> SeenOf(c)] = [c \in Caller |-> "idle"]
        /\ [c \in Caller |-> ShownTo(c)] = into
    BY <2>2, <2>3
  <2>5. root \in [Caller -> Contract!Hashes]
    BY <2>1 DEF Contract!Hashes
  <2> QED BY <2>1, <2>2, <2>3, <2>4, <2>5, DeliveredFiles DEF Contract!Init
<1>2. FetchInv /\ [NextFetch]_fetchVars => [Contract!Next]_Contract!vars
  <2> SUFFICES ASSUME FetchInv, [NextFetch]_fetchVars
               PROVE  [Contract!Next]_Contract!vars
    OBVIOUS
  <2>1. Contract!Keeping
    BY KeptWhole
  <2>2. ASSUME NEW c \in Caller, Act(c)
        PROVE  Contract!Next
    BY <2>1, <2>2, ActShows DEF Contract!Next
  <2>3. ASSUME Environment \/ UNCHANGED fetchVars
        PROVE  Contract!Next
    <3>1. UNCHANGED <<place, root, car, pinning, into, before>>
      BY <2>3 DEF Environment, StartDaemon, StopDaemon, PeerChanges, CollectUnpinned,
                  repo, call, fetchVars
    <3>2. /\ UNCHANGED Unpinned
          /\ \A c \in Caller : SeenOf(c)' = SeenOf(c) /\ ShownTo(c)' = ShownTo(c)
      BY <3>1 DEF Unpinned, SeenOf, ShownTo
    <3>3. Contract!Trade
      BY <2>1, <3>1, <3>2 DEF Contract!Trade
    <3> QED BY <3>3 DEF Contract!Next
  <2> QED BY <2>2, <2>3 DEF NextFetch, Act
<1> QED BY <1>1, <1>2, FetchInvariance, PTL DEF FetchSpec, Delivers, Contract!Spec

=============================================================================
