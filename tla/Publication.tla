---------------------------- MODULE Publication -----------------------------
(***************************************************************************)
(* What publish_cell promises, without the order in which it reads the     *)
(* directory: while the author edits, a cell comes into being at one       *)
(* moment, and stays as it is.  All that is in it was in the directory     *)
(* since the call, though perhaps never all at once; what its artifact     *)
(* manifest pins was there; and a file that was there all along is on the  *)
(* side of the nucleus, or of the membrane, that a declaration the         *)
(* directory had since the call puts it on.  Publish implements it.        *)
(***************************************************************************)
CONSTANTS Name, Core, Declaration, Artifact, Version, Absent, Declares, Pins, Garbled

VARIABLES
  dir,    \* the directory
  held,   \* held[n]: the contents n has had since the call
  state,  \* "idle", "open", "published" or "refused"
  cell    \* what was published: the entries of its nucleus and its membrane

vars == <<dir, held, state, cell>>

Blank == [n \in {} |-> Absent]
Nothing == [nucleus |-> Blank, membrane |-> Blank]

\* The nucleus that content d of the declaration names, and what content m of
\* the manifest pins.
NamedBy(d) == Core \cup (IF d = Absent THEN {} ELSE {Declaration} \cup Declares[d])
PinnedBy(m) == IF m = Absent THEN Blank ELSE Pins[m]

\* The files that were there all along.
Lasting == {n \in Name : Absent \notin held[n]}

Faithful(entries) == \A n \in DOMAIN entries : n \in Name /\ entries[n] \in held[n] \ {Absent}

PinsWereHeld ==
  \E m \in held[Artifact] \ Garbled : \A n \in DOMAIN PinnedBy(m) : PinnedBy(m)[n] \in held[n]

NucleusWasComplete ==
  \E d \in held[Declaration] : \A n \in NamedBy(d) : held[n] # {Absent}

IsNucleus(names) ==
  \E d \in held[Declaration] : names \subseteq NamedBy(d) /\ Lasting \cap NamedBy(d) \subseteq names

IsMembrane(names) ==
  \E d \in held[Declaration] : names \cap NamedBy(d) = {} /\ Lasting \ NamedBy(d) \subseteq names

MayBe(c) ==
  /\ Faithful(c.nucleus) /\ Faithful(c.membrane)
  /\ PinsWereHeld
  /\ NucleusWasComplete
  /\ IsNucleus(DOMAIN c.nucleus)
  /\ IsMembrane(DOMAIN c.membrane)

-----------------------------------------------------------------------------

Init ==
  /\ dir \in [Name -> Version \cup {Absent}]
  /\ held = [n \in Name |-> {}]
  /\ state = "idle"
  /\ cell = Nothing

Begin ==
  /\ state = "idle"
  /\ state' = "open"
  /\ held' = [n \in Name |-> {dir[n]}]
  /\ UNCHANGED <<dir, cell>>

Edit(n, v) ==
  /\ state # "idle"
  /\ dir' = [dir EXCEPT ![n] = v]
  /\ held' = [held EXCEPT ![n] = @ \cup {v}]
  /\ UNCHANGED <<state, cell>>

Publish ==
  /\ state = "open"
  /\ state' = "published"
  /\ MayBe(cell')
  /\ UNCHANGED <<dir, held>>

Refuse ==
  /\ state = "open"
  /\ state' = "refused"
  /\ UNCHANGED <<dir, held, cell>>

Next ==
  \/ Begin \/ Publish \/ Refuse
  \/ \E n \in Name, v \in Version \cup {Absent} : Edit(n, v)

Spec == Init /\ [][Next]_vars

=============================================================================
