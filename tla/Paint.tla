------------------------------- MODULE Paint -------------------------------
(***************************************************************************)
(* Witnessing and painting (paint.py, with the ledger of provenance.py and *)
(* the peer key of keys.py).  `dsm call' processes witness: they put the   *)
(* blobs a claim refers to in the outbox and the claim in the ledger.  The *)
(* argument of a call may be such a blob, named by its hash, from the      *)
(* outbox or from a node that the call names.                              *)
(* `dsm paint' processes ship the outbox to a Semantic Paint node, then    *)
(* sign the ledger and publish it.  All share the userspace's files; there *)
(* are no locks, and no file is written atomically.                        *)
(*                                                                         *)
(* A blob's name is its hash, so a blob is named, not spelled out.  A      *)
(* claim's file is named for the fact and holds the time of its minting.   *)
(* A painter stands for one run of `dsm paint'; the key it may generate is *)
(* known by it.                                                            *)
(***************************************************************************)
EXTENDS Naturals, FiniteSets

CONSTANTS
  Caller, Painter,
  Node,       \* Semantic Paint nodes, each known by its URL
  NodeOf,     \* NodeOf[p]: the node that painter p names
  Elsewhere,  \* the blobs that other peers have shipped, as <<blob, node>>
  Blob, Fact,
  BlobsOf,    \* BlobsOf[f]: the blobs a call that witnesses f stashes
  ArgsOf,     \* ArgsOf[f]: the blob its argument refers to, as a set
  Witnessed,  \* the sets of facts one call may witness
  MaxMint,    \* bounds: calls that mint claims,
  MaxCrash    \*   and processes killed

\* What the argument of a call refers to, if the call is to witness w.
ArgsFor(w) == UNION {ArgsOf[f] : f \in w}

\* Only `a lone DataRef argument is dereferenced': a call has one, or none.
ASSUME PaintAssumption ==
  /\ BlobsOf \in [Fact -> SUBSET Blob] /\ ArgsOf \in [Fact -> SUBSET Blob]
  /\ Witnessed \subseteq SUBSET Fact \ {{}}
  /\ \A w \in Witnessed : \A a, b \in ArgsFor(w) : a = b
  /\ {"none", "empty"} \cap Painter = {}
  /\ Caller \cap Painter = {}
  /\ NodeOf \in [Painter -> Node] /\ Elsewhere \subseteq Blob \X Node
  /\ MaxMint \in Nat /\ MaxCrash \in Nat

VARIABLES
  outbox,   \* outbox[b]: "none", "torn" (created, not written out) or "whole"
  ledger,   \* ledger[f]: when the claim in f's file was minted; 0: no file
  torn,     \* the facts whose file was truncated and not written out
  keyfile,  \* peer.ed25519: "none", "empty", or the painter that generated it
  nodeBlobs,   \* which blob is on which node
  nodeClaims,  \* the claims published, on whichever node, as <<fact, time, key>>
  clock,    \* calls that minted claims so far: the time
  minted,   \* the claims minted so far, as <<fact, time>>
  crashes,
  at,       \* program counters, of callers and painters
  facts,    \* the facts a process has yet to witness or to load
  todo,     \* the blobs a process has yet to stash or ship
  open,     \* the file a caller has found missing, or has open
  time,     \* the created_at of a caller's claims, 0 before it minted them
  key,      \* the key a painter signs with
  batch,    \* batch[p][f]: the claim it loaded, or 0
  misread,  \* the callers whose argument was cut short, with no one writing it,
  false,    \* and the claims they minted, as <<fact, time>>
  fetched,  \* the arguments fetched from nodes, as <<blob, node>>
  overlap,  \* did a call overlap this painter?
  alone     \* have paints come one at a time so far?

files == <<outbox, ledger, torn, keyfile>>
node == <<nodeBlobs, nodeClaims>>
local == <<facts, todo, open, time, key, batch>>
reads == <<misread, false, fetched>>
history == <<clock, minted, crashes, reads, overlap, alone>>
vars == <<outbox, ledger, torn, keyfile, nodeBlobs, nodeClaims, clock, minted, crashes,
          at, facts, todo, open, time, key, batch, misread, false, fetched, overlap, alone>>

-----------------------------------------------------------------------------

Ended == {"idle", "done", "failed"}
Goto(q, where) == at' = [at EXCEPT ![q] = where]
Busy(q) == at[q] \notin Ended

\* A process ends, and what it held in memory is gone.
End(q, how) ==
  /\ Goto(q, how)
  /\ facts' = [facts EXCEPT ![q] = {}]
  /\ todo' = [todo EXCEPT ![q] = {}]
  /\ open' = [c \in Caller |-> IF c = q THEN "none" ELSE open[c]]
  /\ time' = [c \in Caller |-> IF c = q THEN 0 ELSE time[c]]
  /\ key' = [p \in Painter |-> IF p = q THEN "none" ELSE key[p]]
  /\ batch' = [p \in Painter |-> IF p = q THEN [f \in Fact |-> 0] ELSE batch[p]]
  /\ misread' = misread \ {q}
  /\ overlap' = [p \in Painter |->
                  p # q /\ (overlap[p] \/ (q \in Caller /\ Busy(p)))]

\* A step of a caller overlaps the paints that are under way.
CallerSteps == overlap' = [p \in Painter |-> overlap[p] \/ Busy(p)]

-----------------------------------------------------------------------------
(* witnessed_call, witness_interface *)

Args(c) == ArgsFor(facts[c])

\* dsm call: the pins are verified and the runner is built; what the call will
\* witness is the component's doing.  Its argument is inline, or to be had.
Call(c) ==
  /\ at[c] = "idle" /\ clock < MaxMint
  /\ \E w \in Witnessed :
       /\ facts' = [facts EXCEPT ![c] = w]
       /\ todo' = [todo EXCEPT ![c] = UNION {BlobsOf[f] : f \in w}]
       /\ Goto(c, IF ArgsFor(w) = {} THEN "stash" ELSE "deref")
  /\ CallerSteps
  /\ UNCHANGED <<files, node, clock, minted, crashes, reads, open, time, key, batch, alone>>

BeingWritten(b) == \E c \in Caller : at[c] \in {"open", "write"} /\ open[c] = b

\* Mutant: whatever the outbox lacks is taken for empty.
ReadOrEmpty(c, b) ==
  /\ at[c] = "deref" /\ b \in Args(c)
  /\ misread' = IF outbox[b] = "whole" \/ BeingWritten(b) THEN misread \ {c} ELSE misread \cup {c}
  /\ Goto(c, "stash")
  /\ CallerSteps
  /\ UNCHANGED <<files, node, clock, minted, crashes, false, fetched, local, alone>>

\* fetch_data_ref_bytes: what the outbox has under the hash is not hashed again.
ReadArg(c, b) ==
  /\ at[c] = "deref" /\ b \in Args(c)
  /\ outbox[b] # "none"
  /\ misread' = IF outbox[b] = "torn" /\ ~BeingWritten(b) THEN misread \cup {c} ELSE misread \ {c}
  /\ Goto(c, "stash")
  /\ CallerSteps
  /\ UNCHANGED <<files, node, clock, minted, crashes, false, fetched, local, alone>>

\* --fetch-from names a node, and not the one that is painted later; what is fetched
\* is not stashed.
FetchArg(c, b, n) ==
  /\ at[c] = "deref" /\ b \in Args(c)
  /\ outbox[b] = "none" /\ <<b, n>> \in nodeBlobs
  /\ fetched' = fetched \cup {<<b, n>>}
  /\ misread' = misread \ {c}
  /\ Goto(c, "stash")
  /\ CallerSteps
  /\ UNCHANGED <<files, node, clock, minted, crashes, false, local, alone>>

\* stash_blob: what is there is left alone.
BlobExists(c, b) ==
  /\ at[c] = "stash" /\ b \in todo[c]
  /\ outbox[b] # "none"
  /\ todo' = [todo EXCEPT ![c] = @ \ {b}]
  /\ CallerSteps
  /\ UNCHANGED <<files, node, clock, minted, crashes, reads, at, facts, open, time, key, batch,
                 alone>>

BlobMissing(c, b) ==
  /\ at[c] = "stash" /\ b \in todo[c]
  /\ outbox[b] = "none"
  /\ open' = [open EXCEPT ![c] = b]
  /\ Goto(c, "open")
  /\ CallerSteps
  /\ UNCHANGED <<files, node, clock, minted, crashes, reads, facts, todo, time, key, batch, alone>>

\* write_bytes creates or truncates the file, then writes it.
OpenBlob(c, b) ==
  /\ at[c] = "open" /\ open[c] = b
  /\ outbox' = [outbox EXCEPT ![b] = "torn"]
  /\ Goto(c, "write")
  /\ CallerSteps
  /\ UNCHANGED <<ledger, torn, keyfile, node, clock, minted, crashes, reads, local, alone>>

\* Mutant: the bytes are written some time later.
WriteBlobLater(c, b) ==
  /\ at[c] = "write" /\ open[c] = b
  /\ todo' = [todo EXCEPT ![c] = @ \ {b}]
  /\ open' = [open EXCEPT ![c] = "none"]
  /\ Goto(c, "stash")
  /\ CallerSteps
  /\ UNCHANGED <<files, node, clock, minted, crashes, reads, facts, time, key, batch, alone>>

WriteBlob(c, b) ==
  /\ at[c] = "write" /\ open[c] = b
  /\ outbox' = [outbox EXCEPT ![b] = "whole"]
  /\ todo' = [todo EXCEPT ![c] = @ \ {b}]
  /\ open' = [open EXCEPT ![c] = "none"]
  /\ Goto(c, "stash")
  /\ CallerSteps
  /\ UNCHANGED <<ledger, torn, keyfile, node, clock, minted, crashes, reads, facts, time, key, batch,
                 alone>>

\* The argument cannot be had, or has not the type it should; the component
\* traps, its arguments cannot be encoded, or there is no WIT to witness: blobs
\* may have been stashed, nothing is claimed.
CallFails(c) ==
  /\ at[c] \in {"deref", "stash"}
  /\ End(c, "idle")
  /\ UNCHANGED <<files, node, clock, minted, crashes, false, fetched, alone>>

\* The component has answered: the claims are made, all with one created_at.
Mint(c) ==
  /\ at[c] = "stash" /\ todo[c] = {}
  /\ clock < MaxMint
  /\ clock' = clock + 1
  /\ minted' = minted \cup (facts[c] \X {clock'})
  /\ time' = [time EXCEPT ![c] = clock']
  /\ false' = IF c \in misread THEN false \cup (facts[c] \X {clock'}) ELSE false
  /\ misread' = misread \ {c}
  /\ Goto(c, "claim")
  /\ CallerSteps
  /\ UNCHANGED <<files, node, crashes, fetched, facts, todo, open, key, batch, alone>>

\* save_brushstrokes: write_text, one file after the other
OpenClaim(c, f) ==
  /\ at[c] = "claim" /\ f \in facts[c]
  /\ torn' = torn \cup {f}
  /\ open' = [open EXCEPT ![c] = f]
  /\ Goto(c, "save")
  /\ CallerSteps
  /\ UNCHANGED <<outbox, ledger, keyfile, node, clock, minted, crashes, reads, facts, todo, time,
                 key, batch, alone>>

\* The call returns with the last of them.
WriteClaim(c, f) ==
  /\ at[c] = "save" /\ open[c] = f
  /\ ledger' = [ledger EXCEPT ![f] = time[c]]
  /\ torn' = torn \ {f}
  /\ facts' = [facts EXCEPT ![c] = @ \ {f}]
  /\ open' = [open EXCEPT ![c] = "none"]
  /\ Goto(c, IF facts[c] = {f} THEN "idle" ELSE "claim")
  /\ time' = [time EXCEPT ![c] = IF facts[c] = {f} THEN 0 ELSE @]
  /\ CallerSteps
  /\ UNCHANGED <<outbox, keyfile, node, clock, minted, crashes, reads, todo, key, batch, alone>>

-----------------------------------------------------------------------------
(* dsm paint: peer_key, ship_blobs, publish_strokes *)

Paint(p) ==
  /\ at[p] = "idle"
  /\ overlap' = [overlap EXCEPT ![p] = \E c \in Caller : Busy(c)]
  /\ alone' = (alone /\ \A q \in Painter \ {p} : ~Busy(q))
  /\ Goto(p, "key")
  /\ UNCHANGED <<files, node, clock, minted, crashes, reads, local>>

\* An empty key file is no key: from_private_bytes raises.
EmptyKey(p) ==
  /\ at[p] = "key" /\ keyfile = "empty"
  /\ End(p, "failed")
  /\ UNCHANGED <<files, node, clock, minted, crashes, false, fetched, alone>>

\* Mutant: each paint generates a key.
NewKey(p) ==
  /\ at[p] = "key"
  /\ key' = [key EXCEPT ![p] = p]
  /\ Goto(p, "ship")
  /\ UNCHANGED <<files, node, facts, todo, open, time, batch, history>>

LoadKey(p) ==
  /\ at[p] = "key" /\ keyfile \in Painter
  /\ key' = [key EXCEPT ![p] = keyfile]
  /\ Goto(p, "ship")
  /\ UNCHANGED <<files, node, facts, todo, open, time, batch, history>>

GenerateKey(p) ==
  /\ at[p] = "key" /\ keyfile = "none"
  /\ key' = [key EXCEPT ![p] = p]
  /\ Goto(p, "touch")
  /\ UNCHANGED <<files, node, facts, todo, open, time, batch, history>>

TouchKey(p) ==
  /\ at[p] = "touch"
  /\ keyfile' = IF keyfile = "none" THEN "empty" ELSE keyfile
  /\ Goto(p, "truncate")
  /\ UNCHANGED <<outbox, ledger, torn, node, local, history>>

\* write_bytes, on whatever is in the file by now
TruncateKey(p) ==
  /\ at[p] = "truncate"
  /\ keyfile' = "empty"
  /\ Goto(p, "write")
  /\ UNCHANGED <<outbox, ledger, torn, node, local, history>>

WriteKey(p) ==
  /\ at[p] = "write"
  /\ keyfile' = p
  /\ Goto(p, "ship")
  /\ UNCHANGED <<outbox, ledger, torn, node, local, history>>

ListOutbox(p) ==
  /\ at[p] = "ship"
  /\ todo' = [todo EXCEPT ![p] = {b \in Blob : outbox[b] # "none"}]
  /\ Goto(p, "shipping")
  /\ UNCHANGED <<files, node, facts, open, time, key, batch, history>>

\* Mutant: the hash the node answers with is not compared.
ShipUnchecked(p, b) ==
  /\ at[p] = "shipping" /\ b \in todo[p]
  /\ nodeBlobs' = IF outbox[b] = "whole" THEN nodeBlobs \cup {<<b, NodeOf[p]>>} ELSE nodeBlobs
  /\ todo' = [todo EXCEPT ![p] = @ \ {b}]
  /\ UNCHANGED <<files, nodeClaims, at, facts, open, time, key, batch, history>>

ShipBlob(p, b) ==
  /\ at[p] = "shipping" /\ b \in todo[p]
  /\ outbox[b] = "whole"
  /\ nodeBlobs' = nodeBlobs \cup {<<b, NodeOf[p]>>}
  /\ todo' = [todo EXCEPT ![p] = @ \ {b}]
  /\ UNCHANGED <<files, nodeClaims, at, facts, open, time, key, batch, history>>

\* The node hashes what it received: PublishMismatch.
ShipMismatch(p, b) ==
  /\ at[p] = "shipping" /\ b \in todo[p]
  /\ outbox[b] = "torn"
  /\ End(p, "failed")
  /\ UNCHANGED <<files, node, clock, minted, crashes, false, fetched, alone>>

\* load_brushstrokes: the directory is listed, then the files are read.
ListLedger(p) ==
  /\ at[p] = "shipping" /\ todo[p] = {}
  /\ facts' = [facts EXCEPT ![p] = {f \in Fact : ledger[f] # 0 \/ f \in torn}]
  /\ Goto(p, "loading")
  /\ UNCHANGED <<files, node, todo, open, time, key, batch, history>>

\* Mutant: the claim is stamped as it is signed.
LoadClaimNow(p, f) ==
  /\ at[p] = "loading" /\ f \in facts[p] \ torn
  /\ batch' = [batch EXCEPT ![p][f] = clock + 1]
  /\ facts' = [facts EXCEPT ![p] = @ \ {f}]
  /\ UNCHANGED <<files, node, at, todo, open, time, key, history>>

LoadClaim(p, f) ==
  /\ at[p] = "loading" /\ f \in facts[p] \ torn
  /\ batch' = [batch EXCEPT ![p][f] = ledger[f]]
  /\ facts' = [facts EXCEPT ![p] = @ \ {f}]
  /\ UNCHANGED <<files, node, at, todo, open, time, key, history>>

\* json.loads raises.
LoadFails(p, f) ==
  /\ at[p] = "loading" /\ f \in facts[p] \cap torn
  /\ End(p, "failed")
  /\ UNCHANGED <<files, node, clock, minted, crashes, false, fetched, alone>>

Claims(p) == {<<f, batch[p][f], key[p]>> : f \in {g \in Fact : batch[p][g] # 0}}

\* post_publish, unless the ledger is empty: the node takes them all; its
\* answer may be lost.
Publish(p) ==
  /\ at[p] = "loading" /\ facts[p] = {}
  /\ nodeClaims' = nodeClaims \cup Claims(p)
  /\ \/ Goto(p, "done") /\ UNCHANGED <<local, misread, overlap>>
     \/ Claims(p) # {} /\ End(p, "failed")
  /\ UNCHANGED <<files, nodeBlobs, clock, minted, crashes, false, fetched, alone>>

\* The node cannot be reached.
Unreachable(p) ==
  /\ \/ at[p] = "shipping" /\ todo[p] # {}
     \/ at[p] = "loading" /\ facts[p] = {} /\ Claims(p) # {}
  /\ End(p, "failed")
  /\ UNCHANGED <<files, node, clock, minted, crashes, false, fetched, alone>>

-----------------------------------------------------------------------------

Kill(q) ==
  /\ crashes < MaxCrash /\ Busy(q)
  /\ crashes' = crashes + 1
  /\ End(q, IF q \in Caller THEN "idle" ELSE "failed")
  /\ UNCHANGED <<files, node, clock, minted, false, fetched, alone>>

Init ==
  /\ outbox = [b \in Blob |-> "none"]
  /\ ledger = [f \in Fact |-> 0]
  /\ torn = {}
  /\ keyfile = "none"
  /\ nodeBlobs = Elsewhere
  /\ nodeClaims = {}
  /\ clock = 0 /\ minted = {} /\ crashes = 0
  /\ at = [q \in Caller \cup Painter |-> "idle"]
  /\ facts = [q \in Caller \cup Painter |-> {}]
  /\ todo = [q \in Caller \cup Painter |-> {}]
  /\ open = [c \in Caller |-> "none"]
  /\ time = [c \in Caller |-> 0]
  /\ key = [p \in Painter |-> "none"]
  /\ batch = [p \in Painter |-> [f \in Fact |-> 0]]
  /\ misread = {} /\ false = {} /\ fetched = {}
  /\ overlap = [p \in Painter |-> FALSE]
  /\ alone = TRUE

CallerStep(c) ==
  \/ Call(c) \/ CallFails(c) \/ Mint(c)
  \/ \E b \in Blob : ReadArg(c, b) \/ \E n \in Node : FetchArg(c, b, n)
  \/ \E b \in Blob : BlobExists(c, b) \/ BlobMissing(c, b) \/ OpenBlob(c, b) \/ WriteBlob(c, b)
  \/ \E f \in Fact : OpenClaim(c, f) \/ WriteClaim(c, f)

PainterStep(p) ==
  \/ Paint(p) \/ EmptyKey(p) \/ LoadKey(p) \/ GenerateKey(p) \/ TouchKey(p)
  \/ TruncateKey(p) \/ WriteKey(p)
  \/ ListOutbox(p) \/ ListLedger(p) \/ Publish(p) \/ Unreachable(p)
  \/ \E b \in Blob : ShipBlob(p, b) \/ ShipMismatch(p, b)
  \/ \E f \in Fact : LoadClaim(p, f) \/ LoadFails(p, f)

Next ==
  \/ \E c \in Caller : CallerStep(c)
  \/ \E p \in Painter : PainterStep(p)
  \/ \E q \in Caller \cup Painter : Kill(q)

Spec == Init /\ [][Next]_vars

-----------------------------------------------------------------------------
(* Properties *)

Process == Caller \cup Painter

\* Types.
TypeOK ==
  /\ outbox \in [Blob -> {"none", "torn", "whole"}]
  /\ ledger \in [Fact -> 0..MaxMint]
  /\ torn \subseteq Fact
  /\ keyfile \in {"none", "empty"} \cup Painter
  /\ nodeBlobs \subseteq Blob \X Node /\ fetched \subseteq nodeBlobs
  /\ nodeClaims \subseteq Fact \X (1..MaxMint) \X Painter
  /\ minted \subseteq Fact \X (1..MaxMint)
  /\ time \in [Caller -> 0..MaxMint]
  /\ clock \in 0..MaxMint /\ crashes \in 0..MaxCrash
  /\ at \in [Process -> Ended \cup {"deref", "stash", "open", "write", "claim", "save", "key",
                                    "touch", "truncate", "ship", "shipping", "loading"}]
  /\ facts \in [Process -> SUBSET Fact] /\ todo \in [Process -> SUBSET Blob]
  /\ open \in [Caller -> Blob \cup Fact \cup {"none"}]
  /\ key \in [Painter -> Painter \cup {"none"}]
  /\ batch \in [Painter -> [Fact -> 0..MaxMint]]
  /\ misread \subseteq Caller /\ false \subseteq minted
  /\ overlap \in [Painter -> BOOLEAN] /\ alone \in BOOLEAN

\* A claim in the ledger is backed by the outbox: the blobs a verifier will ask
\* for are there in full, unless a call is still writing them or was killed.
LedgerIsBacked ==
  \A f \in Fact : ledger[f] # 0 =>
    \A b \in BlobsOf[f] :
      \/ outbox[b] = "whole"
      \/ outbox[b] = "torn" /\ crashes > 0
      \/ \E c \in Caller : at[c] = "write" /\ open[c] = b

\* The argument of a call came from another node than the one p paints; and it is not
\* in the outbox as the outbox is shipped.
FromElsewhere(p, b) ==
  /\ \E n \in Node \ {NodeOf[p]} : <<b, n>> \in fetched
  /\ at[p] = "loading" => outbox[b] = "none"

\* `POSTed to the node, along with the outbox blobs those claims dereference':
\* a paint that succeeds, and that no call overlaps, leaves on its node every
\* blob its claims refer to, components, results and arguments, whoever was killed
\* before; all are there before the first claim is.  Only an argument fetched from
\* another node is not among them, unless the outbox came to have it.
QuietPaintIsComplete ==
  \A p \in Painter : (at[p] \in {"loading", "done"} /\ ~overlap[p]) =>
    \A f \in Fact : batch[p][f] # 0 =>
      /\ \A b \in BlobsOf[f] : <<b, NodeOf[p]>> \in nodeBlobs
      /\ \A b \in ArgsOf[f] : <<b, NodeOf[p]>> \in nodeBlobs \/ FromElsewhere(p, b)

\* Painting mints nothing, so publishing again can add nothing: a claim on the
\* node was minted by a call that witnessed its fact, at that time, though the
\* file it was read from may have been written by several calls at once.
NothingMintedByPainting ==
  \A claim \in nodeClaims : <<claim[1], claim[2]>> \in minted

\* `F applied to (the value at this hash) yields Y': a claim that is not of the
\* value at the hash, because the call read a file that a killed call had left
\* cut short, is published by no paint that calls do not overlap, for the file
\* is shipped before the claim and the node refuses it.  Not so if the file was
\* read while another call was about to write it: it is whole when it is shipped.
FalseClaimsStayHome ==
  \A p \in Painter : (at[p] = "done" /\ ~overlap[p]) =>
    \A f \in Fact : <<f, batch[p][f]>> \notin false

\* What paint publishes is what calls witnessed, and can be verified.
PaintIsExact ==
  QuietPaintIsComplete /\ NothingMintedByPainting /\ FalseClaimsStayHome

\* Paints that come one at a time all sign with the one key of the userspace,
\* the one in its file, even if some of them are killed.
SignerIsKept ==
  alone => \A claim \in nodeClaims : claim[3] = keyfile

=============================================================================
