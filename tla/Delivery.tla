------------------------------ MODULE Delivery ------------------------------
(***************************************************************************)
(* What from_hash promises those who call it, without the daemon, the      *)
(* network and the order in which the files come: a call delivers the      *)
(* whole cell in one step, and only if the repo had it or keeps it; or it  *)
(* denies it and touches nothing; or it fails, or is killed, and leaves    *)
(* every file as it was or whole, but for one at most that is torn, and    *)
(* none that is not of the cell.  What the repo keeps is never lost.       *)
(* Fetch implements it.                                                    *)
(***************************************************************************)
CONSTANTS Caller, NucleusFile, MembraneFile, Other

VARIABLES
  have,   \* the hashes whose whole DAG is in the repo
  kept,   \* those the repo will not let go
  state,  \* of each caller: "idle", "asked", "delivered", "denied" or "failed"
  want,   \* the hash it asked for
  found,  \* the callers that found in the repo what they want
  view    \* the directory of each caller, as it is between its calls

vars == <<have, kept, state, want, found, view>>

Hashes == {"cell", "nucleus"}
Path == NucleusFile \cup MembraneFile \cup Other
Below(r) == NucleusFile \cup (IF r = "cell" THEN MembraneFile ELSE {})

-----------------------------------------------------------------------------

Init ==
  /\ kept \subseteq have
  /\ state = [c \in Caller |-> "idle"]
  /\ want \in [Caller -> Hashes]
  /\ found = {}
  /\ view \in [Caller -> [Path -> {"none", "old"}]]

\* What may happen to the repo at any time: what is kept is kept on, and whole.
Keeping == kept \subseteq kept' /\ kept' \subseteq have'

Ask(c) ==
  /\ state[c] # "asked"
  /\ state' = [state EXCEPT ![c] = "asked"]
  /\ \E r \in Hashes : want' = [want EXCEPT ![c] = r]
  /\ found' = found \ {c}
  /\ UNCHANGED <<have, kept, view>>

Find(c) ==
  /\ state[c] = "asked"
  /\ want[c] \in have
  /\ found' = found \cup {c}
  /\ UNCHANGED <<have, kept, state, want, view>>

Trade ==
  /\ Keeping
  /\ UNCHANGED <<state, want, found, view>>

Deliver(c) ==
  /\ state[c] = "asked"
  /\ c \in found \/ want[c] \in kept
  /\ state' = [state EXCEPT ![c] = "delivered"]
  /\ view' = [view EXCEPT ![c] = [f \in Path |-> IF f \in Below(want[c]) THEN "whole" ELSE @[f]]]
  /\ UNCHANGED <<have, kept, want, found>>

Deny(c) ==
  /\ state[c] = "asked"
  /\ state' = [state EXCEPT ![c] = "denied"]
  /\ UNCHANGED <<have, kept, want, found, view>>

\* What a call that failed leaves of a directory.
Left(c, dir) ==
  /\ \A f \in Path : dir[f] # view[c][f] => f \in Below(want[c]) /\ dir[f] \in {"whole", "torn"}
  /\ \A f, g \in Path :
       (dir[f] = "torn" /\ view[c][f] # "torn" /\ dir[g] = "torn" /\ view[c][g] # "torn") => f = g

Fail(c) ==
  /\ Keeping
  /\ state[c] = "asked"
  /\ state' = [state EXCEPT ![c] = "failed"]
  /\ found' = found \ {c}
  /\ Left(c, view'[c]) /\ view' = [view EXCEPT ![c] = view'[c]]
  /\ UNCHANGED want

Next ==
  \/ Trade
  \/ \E c \in Caller : Ask(c) \/ Find(c) \/ Deliver(c) \/ Deny(c) \/ Fail(c)

Spec == Init /\ [][Next]_vars

=============================================================================
