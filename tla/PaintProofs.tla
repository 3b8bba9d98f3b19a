---------------------------- MODULE PaintProofs ----------------------------
(* Theorems of Paint for any number of callers, painters, facts and blobs.  *)
EXTENDS Paint, TLAPS

\* Where callers and painters are, and which painters have a key.
CallerAt == {"idle", "deref", "stash", "open", "write", "claim", "save"}
Keyed == {"touch", "truncate", "write", "ship", "shipping", "loading"}
PainterAt == {"idle", "key", "done", "failed"} \cup Keyed

StageInv ==
  /\ \A c \in Caller : at[c] \in CallerAt
  /\ \A p \in Painter : at[p] \in PainterAt /\ (at[p] \in Keyed => key[p] \in Painter)

\* A file that is torn is open, or its writer was killed.
OpenInv ==
  crashes = 0 =>
    /\ \A f \in torn : \E c \in Caller : at[c] = "save" /\ open[c] = f
    /\ \A b \in Blob : outbox[b] = "torn" => \E c \in Caller : at[c] = "write" /\ open[c] = b

\* The blobs with a file in the outbox, torn or not: no file is ever removed.
Present == {b \in Blob : outbox[b] # "none"}

\* The blobs that calls fetched from nodes, and for a painter: those on its node, and
\* those that calls fetched from another.
Fetched == {b \in Blob : \E n \in Node : <<b, n>> \in fetched}
OnNode(p) == {b \in Blob : <<b, NodeOf[p]>> \in nodeBlobs}
Abroad(p) == {b \in Blob : \E n \in Node \ {NodeOf[p]} : <<b, n>> \in fetched}

\* A claim of f at t was minted, what it refers to has a file, and its argument
\* has one, or came from a node.
Backed(f, t) ==
  /\ BlobsOf[f] \subseteq Present
  /\ ArgsOf[f] \subseteq Present \cup Fetched
  /\ <<f, t>> \in minted

\* What a caller has seen to, for the facts it is to witness.
Witnesses(c) ==
  /\ at[c] = "deref" => facts[c] \in Witnessed
  /\ at[c] \in {"deref", "stash", "open", "write"} =>
       \A f \in facts[c] : BlobsOf[f] \subseteq Present \cup todo[c]
  /\ at[c] \in {"stash", "open", "write"} =>
       \A f \in facts[c] : ArgsOf[f] \subseteq Present \cup Fetched
  /\ at[c] \in {"claim", "save"} => \A f \in facts[c] : Backed(f, time[c])
  /\ at[c] = "save" => open[c] \in facts[c]

BackedInv ==
  /\ \A c \in Caller : Witnesses(c)
  /\ \A f \in Fact : ledger[f] # 0 => Backed(f, ledger[f])

\* Claims are minted at different times, and only minted claims are loaded.
MintedInv ==
  /\ minted \subseteq Fact \X (1..clock)
  /\ \A p \in Painter, f \in Fact : batch[p][f] # 0 => <<f, batch[p][f]>> \in minted
  /\ NothingMintedByPainting

\* A blob that is torn, and nobody writes it: so it stays.
Lost(b) == outbox[b] = "torn" /\ ~BeingWritten(b)

\* A false claim was made of such a blob.
LostInv == misread # {} \/ false # {} => \E b \in Blob : Lost(b)

\* b has no file, or one that is whole and was shipped to p's node.
Shipped(p, b) == outbox[b] = "none" \/ (outbox[b] = "whole" /\ b \in OnNode(p))

\* What a painter that no call overlaps has done so far.
Exact(p) ==
  \A f \in Fact :
    /\ batch[p][f] # 0 => /\ BlobsOf[f] \subseteq OnNode(p)
                          /\ ArgsOf[f] \subseteq OnNode(p) \cup Abroad(p)
    /\ <<f, batch[p][f]>> \notin false

Quiet(p) ==
  /\ Busy(p) => \A c \in Caller : ~Busy(c)
  /\ at[p] = "shipping" => \A b \in Blob \ todo[p] : Shipped(p, b)
  /\ at[p] = "loading" =>
       /\ \A b \in Blob : Shipped(p, b)
       /\ \A f \in Fact : batch[p][f] \in {0, ledger[f]}
  /\ at[p] = "done" => Exact(p)

QuietInv ==
  \A p \in Painter :
    /\ at[p] \notin {"loading", "done"} => \A f \in Fact : batch[p][f] = 0
    /\ ~overlap[p] => Quiet(p)

\* As long as paints come one at a time: what the one that is under way knows of
\* the key file, and that the claims of the others bear its key.
KnowsKey(p) ==
  /\ at[p] = "touch" => keyfile = "none" /\ key[p] = p
  /\ at[p] \in {"truncate", "write"} => keyfile = "empty" /\ key[p] = p
  /\ at[p] \in {"ship", "shipping", "loading"} => key[p] = keyfile

SignerInv ==
  alone =>
    /\ \A p, q \in Painter : Busy(p) /\ Busy(q) => p = q
    /\ \A p \in Painter : KnowsKey(p)
    /\ \A claim \in nodeClaims : claim[3] = keyfile

IInv == /\ TypeOK /\ StageInv /\ OpenInv /\ BackedInv /\ MintedInv /\ LostInv /\ QuietInv
        /\ SignerInv

-----------------------------------------------------------------------------
(* The moves: what each action reads and changes, process by process *)

SameCaller(c) ==
  /\ at'[c] = at[c] /\ facts'[c] = facts[c] /\ todo'[c] = todo[c]
  /\ open'[c] = open[c] /\ time'[c] = time[c]

SamePainter(p) ==
  /\ at'[p] = at[p] /\ facts'[p] = facts[p] /\ todo'[p] = todo[p]
  /\ key'[p] = key[p] /\ batch'[p] = batch[p]

\* What is left to a process when it ends: nothing.
CallerEnds(c) ==
  /\ at'[c] = "idle" /\ facts'[c] = {} /\ todo'[c] = {}
  /\ open'[c] = "none" /\ time'[c] = 0

PainterEnds(p) ==
  /\ at'[p] = "failed" /\ facts'[p] = {} /\ todo'[p] = {}
  /\ key'[p] = "none" /\ \A f \in Fact : batch'[p][f] = 0

\* A caller's step leaves the painters and the nodes alone.
Aside(c) ==
  /\ \A d \in Caller \ {c} : SameCaller(d)
  /\ \A p \in Painter : SamePainter(p)
  /\ key' = key /\ batch' = batch
  /\ UNCHANGED <<keyfile, nodeBlobs, nodeClaims, alone>>

\* A painter's step leaves the callers alone, and what they write.
Apart(p) ==
  /\ \A q \in Painter \ {p} : SamePainter(q)
  /\ \A c \in Caller : SameCaller(c)
  /\ open' = open /\ time' = time
  /\ UNCHANGED <<outbox, ledger, torn, clock, minted, false, fetched>>

\* Callers and painters are different processes.
LEMMA Distinct ==
  /\ \A c \in Caller : c \in Process /\ c \notin Painter
  /\ \A p \in Painter : p \in Process /\ p \notin Caller
BY PaintAssumption DEF Process

\* End, for a caller
LEMMA CallerEndMoves ==
  ASSUME TypeOK, NEW c \in Caller, End(c, "idle")
  PROVE  /\ CallerEnds(c)
         /\ \A d \in Caller \ {c} : SameCaller(d)
         /\ \A p \in Painter : SamePainter(p)
         /\ key' = key /\ batch' = batch
         /\ misread' = misread \ {c}
<1>1. /\ at' = [at EXCEPT ![c] = "idle"] /\ facts' = [facts EXCEPT ![c] = {}]
      /\ todo' = [todo EXCEPT ![c] = {}]
      /\ open' = [d \in Caller |-> IF d = c THEN "none" ELSE open[d]]
      /\ time' = [d \in Caller |-> IF d = c THEN 0 ELSE time[d]]
      /\ misread' = misread \ {c}
  BY DEF End, Goto
<1>2. key' = key /\ batch' = batch
  <2>1. /\ key' = [p \in Painter |-> IF p = c THEN "none" ELSE key[p]]
        /\ batch' = [p \in Painter |-> IF p = c THEN [f \in Fact |-> 0] ELSE batch[p]]
    BY DEF End
  <2>2. /\ key' = [p \in Painter |-> key[p]]
        /\ batch' = [p \in Painter |-> batch[p]]
    BY <2>1, Distinct
  <2> QED BY <2>2 DEF TypeOK
<1>3. c \in DOMAIN at /\ c \in DOMAIN facts /\ c \in DOMAIN todo
  BY Distinct DEF TypeOK
<1> QED BY <1>1, <1>2, <1>3, Distinct DEF CallerEnds, SameCaller, SamePainter, TypeOK

\* End, for a painter
LEMMA PainterEndMoves ==
  ASSUME TypeOK, NEW p \in Painter, End(p, "failed")
  PROVE  /\ PainterEnds(p)
         /\ \A q \in Painter \ {p} : SamePainter(q)
         /\ \A c \in Caller : SameCaller(c)
         /\ open' = open /\ time' = time
         /\ misread' = misread
<1>1. /\ at' = [at EXCEPT ![p] = "failed"] /\ facts' = [facts EXCEPT ![p] = {}]
      /\ todo' = [todo EXCEPT ![p] = {}]
      /\ key' = [q \in Painter |-> IF q = p THEN "none" ELSE key[q]]
      /\ batch' = [q \in Painter |-> IF q = p THEN [f \in Fact |-> 0] ELSE batch[q]]
  BY DEF End, Goto
<1>2. open' = open /\ time' = time
  <2>1. /\ open' = [c \in Caller |-> IF c = p THEN "none" ELSE open[c]]
        /\ time' = [c \in Caller |-> IF c = p THEN 0 ELSE time[c]]
    BY DEF End
  <2>2. /\ open' = [c \in Caller |-> open[c]]
        /\ time' = [c \in Caller |-> time[c]]
    BY <2>1, Distinct
  <2> QED BY <2>2 DEF TypeOK
<1>3. misread' = misread
  BY Distinct DEF End, TypeOK
<1>4. p \in DOMAIN at /\ p \in DOMAIN facts /\ p \in DOMAIN todo
  BY Distinct DEF TypeOK
<1> QED BY <1>1, <1>2, <1>3, <1>4, Distinct DEF PainterEnds, SameCaller, SamePainter, TypeOK

LEMMA CallMoves ==
  ASSUME TypeOK, NEW c \in Caller, Call(c)
  PROVE  /\ at[c] = "idle" /\ at'[c] \in {"stash", "deref"}
         /\ facts'[c] \in Witnessed /\ todo'[c] = UNION {BlobsOf[f] : f \in facts'[c]}
         /\ at'[c] = "stash" => ArgsFor(facts'[c]) = {}
         /\ UNCHANGED <<files, node, clock, minted, crashes, reads, open, time>>
         /\ Aside(c)
<1>1. c \in DOMAIN at /\ c \in DOMAIN facts /\ c \in DOMAIN todo
  BY Distinct DEF TypeOK
<1> QED BY <1>1, Distinct DEF TypeOK, Goto, Call, Aside, SameCaller, SamePainter, files, node

\* A call gets its argument.
Gets(c, b) == ReadArg(c, b) \/ \E n \in Node : FetchArg(c, b, n)

LEMMA ReadMoves ==
  ASSUME TypeOK, NEW c \in Caller, NEW b \in Blob, Gets(c, b)
  PROVE  /\ at[c] = "deref" /\ at'[c] = "stash" /\ b \in Args(c)
         /\ b \in Present \cup Fetched'
         /\ fetched \subseteq fetched' /\ fetched' \subseteq nodeBlobs
         /\ misread' = misread \ {c} \/ (misread' = misread \cup {c} /\ Lost(b))
         /\ UNCHANGED <<files, node, clock, minted, crashes, false, facts, todo, open, time>>
         /\ Aside(c)
<1>1. c \in DOMAIN at
  BY Distinct DEF TypeOK
<1> QED BY <1>1, Distinct DEF TypeOK, Goto, Gets, ReadArg, FetchArg, Aside, SameCaller,
        SamePainter, files, node, local, Lost, Present, Fetched

LEMMA BlobExistsMoves ==
  ASSUME TypeOK, NEW c \in Caller, NEW b \in Blob, BlobExists(c, b)
  PROVE  /\ at[c] = "stash" /\ b \in todo[c] /\ outbox[b] # "none"
         /\ todo'[c] = todo[c] \ {b}
         /\ UNCHANGED <<files, node, clock, minted, crashes, reads, at, facts, open, time>>
         /\ Aside(c)
<1>1. c \in DOMAIN todo
  BY Distinct DEF TypeOK
<1> QED BY <1>1, Distinct DEF TypeOK, BlobExists, Aside, SameCaller, SamePainter, files, node

LEMMA BlobMissingMoves ==
  ASSUME TypeOK, NEW c \in Caller, NEW b \in Blob, BlobMissing(c, b)
  PROVE  /\ at[c] = "stash" /\ at'[c] = "open" /\ outbox[b] = "none" /\ open'[c] = b
         /\ UNCHANGED <<files, node, clock, minted, crashes, reads, facts, todo, time>>
         /\ Aside(c)
<1>1. c \in DOMAIN at
  BY Distinct DEF TypeOK
<1> QED BY <1>1, Distinct DEF TypeOK, Goto, BlobMissing, Aside, SameCaller, SamePainter, files,
        node

LEMMA OpenBlobMoves ==
  ASSUME TypeOK, NEW c \in Caller, NEW b \in Blob, OpenBlob(c, b)
  PROVE  /\ at[c] = "open" /\ at'[c] = "write" /\ open[c] = b
         /\ outbox' = [outbox EXCEPT ![b] = "torn"]
         /\ UNCHANGED <<ledger, torn, keyfile, node, clock, minted, crashes, reads>>
         /\ UNCHANGED <<facts, todo, open, time>>
         /\ Aside(c)
<1>1. c \in DOMAIN at
  BY Distinct DEF TypeOK
<1> QED BY <1>1, Distinct DEF TypeOK, Goto, OpenBlob, Aside, SameCaller, SamePainter, local,
        node

LEMMA WriteBlobMoves ==
  ASSUME TypeOK, NEW c \in Caller, NEW b \in Blob, WriteBlob(c, b)
  PROVE  /\ at[c] = "write" /\ at'[c] = "stash" /\ open[c] = b /\ open'[c] = "none"
         /\ outbox' = [outbox EXCEPT ![b] = "whole"]
         /\ todo'[c] = todo[c] \ {b}
         /\ UNCHANGED <<ledger, torn, keyfile, node, clock, minted, crashes, reads>>
         /\ UNCHANGED <<facts, time>>
         /\ Aside(c)
<1>1. c \in DOMAIN at /\ c \in DOMAIN todo
  BY Distinct DEF TypeOK
<1> QED BY <1>1, Distinct DEF TypeOK, Goto, WriteBlob, Aside, SameCaller, SamePainter, node

LEMMA CallFailsMoves ==
  ASSUME TypeOK, NEW c \in Caller, CallFails(c)
  PROVE  /\ at[c] \in {"deref", "stash"} /\ CallerEnds(c)
         /\ misread' = misread \ {c}
         /\ UNCHANGED <<files, node, clock, minted, crashes, false, fetched>>
         /\ Aside(c)
BY CallerEndMoves DEF CallFails, Aside, files, node

LEMMA MintMoves ==
  ASSUME TypeOK, NEW c \in Caller, Mint(c)
  PROVE  /\ at[c] = "stash" /\ at'[c] = "claim" /\ todo[c] = {}
         /\ clock < MaxMint /\ clock' = clock + 1 /\ time'[c] = clock + 1
         /\ minted' = minted \cup (facts[c] \X {clock + 1})
         /\ false' = IF c \in misread THEN false \cup (facts[c] \X {clock + 1}) ELSE false
         /\ misread' = misread \ {c}
         /\ UNCHANGED <<files, node, crashes, fetched, facts, todo, open>>
         /\ Aside(c)
<1>1. c \in DOMAIN at /\ c \in DOMAIN time
  BY Distinct DEF TypeOK
<1> QED BY <1>1, Distinct DEF TypeOK, Goto, Mint, Aside, SameCaller, SamePainter, files, node

LEMMA OpenClaimMoves ==
  ASSUME TypeOK, NEW c \in Caller, NEW f \in Fact, OpenClaim(c, f)
  PROVE  /\ at[c] = "claim" /\ at'[c] = "save" /\ f \in facts[c] /\ open'[c] = f
         /\ torn' = torn \cup {f}
         /\ UNCHANGED <<outbox, ledger, keyfile, node, clock, minted, crashes, reads>>
         /\ UNCHANGED <<facts, todo, time>>
         /\ Aside(c)
<1>1. c \in DOMAIN at
  BY Distinct DEF TypeOK
<1> QED BY <1>1, Distinct DEF TypeOK, Goto, OpenClaim, Aside, SameCaller, SamePainter, node

LEMMA WriteClaimMoves ==
  ASSUME TypeOK, NEW c \in Caller, NEW f \in Fact, WriteClaim(c, f)
  PROVE  /\ at[c] = "save" /\ open[c] = f /\ open'[c] = "none"
         /\ facts'[c] = facts[c] \ {f} /\ torn' = torn \ {f}
         /\ ledger' = [ledger EXCEPT ![f] = time[c]]
         /\ \/ at'[c] = "idle" /\ time'[c] = 0 /\ facts'[c] = {}
            \/ at'[c] = "claim" /\ time'[c] = time[c]
         /\ UNCHANGED <<outbox, keyfile, node, clock, minted, crashes, reads, todo>>
         /\ Aside(c)
<1>1. c \in DOMAIN at /\ c \in DOMAIN facts
  BY Distinct DEF TypeOK
<1>2. /\ at' = [at EXCEPT ![c] = IF facts[c] = {f} THEN "idle" ELSE "claim"]
      /\ time' = [time EXCEPT ![c] = IF facts[c] = {f} THEN 0 ELSE time[c]]
      /\ facts'[c] = facts[c] \ {f} /\ open'[c] = "none"
  BY <1>1 DEF Goto, WriteClaim, TypeOK
<1>3. \/ at'[c] = "idle" /\ time'[c] = 0 /\ facts'[c] = {}
      \/ at'[c] = "claim" /\ time'[c] = time[c]
  <2>1. c \in DOMAIN time
    BY DEF TypeOK
  <2>2. CASE facts[c] = {f}
    BY <1>1, <1>2, <2>1, <2>2
  <2>3. CASE facts[c] # {f}
    BY <1>1, <1>2, <2>1, <2>3
  <2> QED BY <2>2, <2>3
<1>4. Aside(c)
  BY <1>2, Distinct DEF TypeOK, WriteClaim, Aside, SameCaller, SamePainter, node
<1> QED BY <1>2, <1>3, <1>4 DEF WriteClaim, node

LEMMA KillCallerMoves ==
  ASSUME TypeOK, NEW c \in Caller, Kill(c)
  PROVE  /\ Busy(c) /\ CallerEnds(c) /\ crashes < MaxCrash /\ crashes' = crashes + 1
         /\ misread' = misread \ {c}
         /\ UNCHANGED <<files, node, clock, minted, false, fetched>>
         /\ Aside(c)
BY CallerEndMoves DEF Kill, Aside, files, node

LEMMA PaintMoves ==
  ASSUME TypeOK, NEW p \in Painter, Paint(p)
  PROVE  /\ at[p] = "idle" /\ at'[p] = "key"
         /\ alone' = (alone /\ \A q \in Painter \ {p} : ~Busy(q))
         /\ UNCHANGED <<files, node, crashes, misread, facts, todo, key, batch>>
         /\ Apart(p)
<1>1. p \in DOMAIN at
  BY Distinct DEF TypeOK
<1> QED BY <1>1, Distinct DEF TypeOK, Goto, Paint, Apart, SameCaller, SamePainter, files, node,
        local, reads

\* A paint that fails: the places, and what it leaves.
FailsAt(p) ==
  \/ EmptyKey(p)
  \/ \E b \in Blob : ShipMismatch(p, b)
  \/ \E f \in Fact : LoadFails(p, f)
  \/ Unreachable(p)

LEMMA PaintFailsMoves ==
  ASSUME TypeOK, NEW p \in Painter, FailsAt(p)
  PROVE  /\ PainterEnds(p)
         /\ UNCHANGED <<files, node, crashes, misread, alone>>
         /\ Apart(p)
<1>1. /\ End(p, "failed")
      /\ UNCHANGED <<files, node, clock, minted, crashes, false, fetched, alone>>
  BY DEF FailsAt, EmptyKey, ShipMismatch, LoadFails, Unreachable
<1> QED BY <1>1, PainterEndMoves DEF Apart, files, node

LEMMA KillPainterMoves ==
  ASSUME TypeOK, NEW p \in Painter, Kill(p)
  PROVE  /\ Busy(p) /\ PainterEnds(p) /\ crashes < MaxCrash /\ crashes' = crashes + 1
         /\ UNCHANGED <<files, node, misread, alone>>
         /\ Apart(p)
<1>1. End(p, "failed")
  BY Distinct DEF Kill
<1> QED BY <1>1, PainterEndMoves DEF Kill, Apart, files, node

LEMMA LoadKeyMoves ==
  ASSUME TypeOK, NEW p \in Painter, LoadKey(p)
  PROVE  /\ at[p] = "key" /\ at'[p] = "ship" /\ keyfile \in Painter /\ key'[p] = keyfile
         /\ UNCHANGED <<files, node, history, facts, todo, batch>>
         /\ Apart(p)
<1>1. p \in DOMAIN at /\ p \in DOMAIN key
  BY Distinct DEF TypeOK
<1> QED BY <1>1, Distinct DEF TypeOK, Goto, LoadKey, Apart, SameCaller, SamePainter, files, node,
        history, reads

LEMMA GenerateKeyMoves ==
  ASSUME TypeOK, NEW p \in Painter, GenerateKey(p)
  PROVE  /\ at[p] = "key" /\ at'[p] = "touch" /\ keyfile = "none" /\ key'[p] = p
         /\ UNCHANGED <<files, node, history, facts, todo, batch>>
         /\ Apart(p)
<1>1. p \in DOMAIN at /\ p \in DOMAIN key
  BY Distinct DEF TypeOK
<1> QED BY <1>1, Distinct DEF TypeOK, Goto, GenerateKey, Apart, SameCaller, SamePainter, files,
        node, history, reads

LEMMA TouchKeyMoves ==
  ASSUME TypeOK, NEW p \in Painter, TouchKey(p)
  PROVE  /\ at[p] = "touch" /\ at'[p] = "truncate"
         /\ keyfile' = IF keyfile = "none" THEN "empty" ELSE keyfile
         /\ UNCHANGED <<outbox, ledger, torn, node, local, history>>
         /\ Apart(p)
<1>1. p \in DOMAIN at
  BY Distinct DEF TypeOK
<1> QED BY <1>1, Distinct DEF TypeOK, Goto, TouchKey, Apart, SameCaller, SamePainter, node, local,
        history, reads

LEMMA TruncateKeyMoves ==
  ASSUME TypeOK, NEW p \in Painter, TruncateKey(p)
  PROVE  /\ at[p] = "truncate" /\ at'[p] = "write" /\ keyfile' = "empty"
         /\ UNCHANGED <<outbox, ledger, torn, node, local, history>>
         /\ Apart(p)
<1>1. p \in DOMAIN at
  BY Distinct DEF TypeOK
<1> QED BY <1>1, Distinct DEF TypeOK, Goto, TruncateKey, Apart, SameCaller, SamePainter, node,
        local, history, reads

LEMMA WriteKeyMoves ==
  ASSUME TypeOK, NEW p \in Painter, WriteKey(p)
  PROVE  /\ at[p] = "write" /\ at'[p] = "ship" /\ keyfile' = p
         /\ UNCHANGED <<outbox, ledger, torn, node, local, history>>
         /\ Apart(p)
<1>1. p \in DOMAIN at
  BY Distinct DEF TypeOK
<1> QED BY <1>1, Distinct DEF TypeOK, Goto, WriteKey, Apart, SameCaller, SamePainter, node, local,
        history, reads

LEMMA ListOutboxMoves ==
  ASSUME TypeOK, NEW p \in Painter, ListOutbox(p)
  PROVE  /\ at[p] = "ship" /\ at'[p] = "shipping" /\ todo'[p] = Present
         /\ UNCHANGED <<files, node, history, facts, key, batch>>
         /\ Apart(p)
<1>1. p \in DOMAIN at /\ p \in DOMAIN todo
  BY Distinct DEF TypeOK
<1> QED BY <1>1, Distinct DEF TypeOK, Goto, ListOutbox, Apart, SameCaller, SamePainter, files,
        node, history, reads, Present

LEMMA ShipBlobMoves ==
  ASSUME TypeOK, NEW p \in Painter, NEW b \in Blob, ShipBlob(p, b)
  PROVE  /\ at[p] = "shipping" /\ b \in todo[p] /\ outbox[b] = "whole"
         /\ nodeBlobs' = nodeBlobs \cup {<<b, NodeOf[p]>>} /\ todo'[p] = todo[p] \ {b}
         /\ UNCHANGED <<files, nodeClaims, history, at, facts, key, batch>>
         /\ Apart(p)
<1>1. p \in DOMAIN todo
  BY Distinct DEF TypeOK
<1> QED BY <1>1, Distinct DEF TypeOK, ShipBlob, Apart, SameCaller, SamePainter, files, history,
        reads

LEMMA ListLedgerMoves ==
  ASSUME TypeOK, NEW p \in Painter, ListLedger(p)
  PROVE  /\ at[p] = "shipping" /\ at'[p] = "loading" /\ todo[p] = {}
         /\ facts'[p] = {f \in Fact : ledger[f] # 0 \/ f \in torn}
         /\ UNCHANGED <<files, node, history, todo, key, batch>>
         /\ Apart(p)
<1>1. p \in DOMAIN at /\ p \in DOMAIN facts
  BY Distinct DEF TypeOK
<1> QED BY <1>1, Distinct DEF TypeOK, Goto, ListLedger, Apart, SameCaller, SamePainter, files,
        node, history, reads

LEMMA LoadClaimMoves ==
  ASSUME TypeOK, NEW p \in Painter, NEW f \in Fact, LoadClaim(p, f)
  PROVE  /\ at[p] = "loading" /\ facts'[p] = facts[p] \ {f}
         /\ batch'[p] = [batch[p] EXCEPT ![f] = ledger[f]]
         /\ UNCHANGED <<files, node, history, at, todo, key>>
         /\ Apart(p)
<1>1. p \in DOMAIN facts /\ p \in DOMAIN batch
  BY Distinct DEF TypeOK
<1> QED BY <1>1, Distinct DEF TypeOK, LoadClaim, Apart, SameCaller, SamePainter, files, node,
        history, reads

\* Publish, whether or not the answer is lost
LEMMA PublishMoves ==
  ASSUME TypeOK, NEW p \in Painter, Publish(p)
  PROVE  /\ at[p] = "loading" /\ facts[p] = {} /\ nodeClaims' = nodeClaims \cup Claims(p)
         /\ \/ at'[p] = "done" /\ UNCHANGED <<facts, todo, key, batch, overlap>>
            \/ PainterEnds(p)
         /\ UNCHANGED <<files, nodeBlobs, crashes, misread, alone>>
         /\ Apart(p)
<1>1. p \in DOMAIN at
  BY Distinct DEF TypeOK
<1>2. /\ at[p] = "loading" /\ facts[p] = {} /\ nodeClaims' = nodeClaims \cup Claims(p)
      /\ UNCHANGED <<files, nodeBlobs, clock, minted, crashes, false, fetched, alone>>
      /\ \/ Goto(p, "done") /\ UNCHANGED <<local, misread, overlap>>
         \/ End(p, "failed")
  BY DEF Publish
<1>3. CASE Goto(p, "done") /\ UNCHANGED <<local, misread, overlap>>
  BY <1>1, <1>2, <1>3, Distinct DEF TypeOK, Goto, Apart, SameCaller, SamePainter, files, local
<1>4. CASE End(p, "failed")
  BY <1>2, <1>4, PainterEndMoves DEF Apart, files
<1> QED BY <1>2, <1>3, <1>4

\* What a caller does is one of these.
LEMMA CallerDoes ==
  ASSUME NEW c \in Caller, CallerStep(c) \/ Kill(c)
  PROVE  \/ Call(c) \/ CallFails(c) \/ Mint(c) \/ Kill(c)
         \/ \E b \in Blob : Gets(c, b)
         \/ \E b \in Blob : BlobExists(c, b)
         \/ \E b \in Blob : BlobMissing(c, b)
         \/ \E b \in Blob : OpenBlob(c, b)
         \/ \E b \in Blob : WriteBlob(c, b)
         \/ \E f \in Fact : OpenClaim(c, f)
         \/ \E f \in Fact : WriteClaim(c, f)
BY DEF CallerStep, Gets

\* What a painter does is one of these.
LEMMA PainterDoes ==
  ASSUME NEW p \in Painter, PainterStep(p) \/ Kill(p)
  PROVE  \/ Paint(p) \/ LoadKey(p) \/ GenerateKey(p) \/ TouchKey(p) \/ TruncateKey(p)
         \/ WriteKey(p) \/ ListOutbox(p) \/ ListLedger(p) \/ Publish(p)
         \/ FailsAt(p) \/ Kill(p)
         \/ \E b \in Blob : ShipBlob(p, b)
         \/ \E f \in Fact : LoadClaim(p, f)
BY DEF PainterStep, FailsAt

\* A step of a caller leaves the painters alone,
LEMMA CallerAside ==
  ASSUME TypeOK, NEW c \in Caller, CallerStep(c) \/ Kill(c)
  PROVE  Aside(c)
BY CallerDoes, CallMoves, ReadMoves, BlobExistsMoves, BlobMissingMoves, OpenBlobMoves,
   WriteBlobMoves, CallFailsMoves, MintMoves, OpenClaimMoves, WriteClaimMoves, KillCallerMoves

\* and one of a painter the callers.
LEMMA PainterApart ==
  ASSUME TypeOK, NEW p \in Painter, PainterStep(p) \/ Kill(p)
  PROVE  Apart(p)
BY PainterDoes, PaintMoves, PaintFailsMoves, KillPainterMoves, LoadKeyMoves, GenerateKeyMoves,
   TouchKeyMoves, TruncateKeyMoves, WriteKeyMoves, ListOutboxMoves, ShipBlobMoves,
   ListLedgerMoves, LoadClaimMoves, PublishMoves

\* Who steps.
LEMMA Steps ==
  ASSUME Next
  PROVE  \/ \E c \in Caller : CallerStep(c) \/ Kill(c)
         \/ \E p \in Painter : PainterStep(p) \/ Kill(p)
BY DEF Next

-----------------------------------------------------------------------------
(* Types, and where the processes are *)

LEMMA StageStep ==
  ASSUME TypeOK, StageInv, [Next]_vars
  PROVE  StageInv'
<1> USE DEF CallerAt, PainterAt, Keyed
<1>1. ASSUME NEW c \in Caller, CallerStep(c) \/ Kill(c)
      PROVE  StageInv'
  <2>1. Aside(c)
    BY <1>1, CallerAside
  <2>2. at'[c] \in CallerAt
    <3>1. at[c] \in CallerAt
      BY DEF StageInv
    <3> QED BY <1>1, <3>1, CallerDoes, CallMoves, ReadMoves, BlobExistsMoves, BlobMissingMoves,
            OpenBlobMoves, WriteBlobMoves, CallFailsMoves, MintMoves, OpenClaimMoves,
            WriteClaimMoves, KillCallerMoves DEF CallerEnds
  <2>3. \A d \in Caller : at'[d] \in CallerAt
    BY <2>1, <2>2 DEF Aside, SameCaller, StageInv
  <2> QED BY <2>1, <2>3 DEF Aside, SamePainter, StageInv
<1>2. ASSUME NEW p \in Painter, PainterStep(p) \/ Kill(p)
      PROVE  StageInv'
  <2>1. Apart(p)
    BY <1>2, PainterApart
  <2>2. at'[p] \in PainterAt /\ (at'[p] \in Keyed => key'[p] \in Painter)
    <3>1. at[p] \in PainterAt /\ (at[p] \in Keyed => key[p] \in Painter)
      BY DEF StageInv
    <3>2. CASE FailsAt(p) \/ Kill(p)
      BY <3>2, PaintFailsMoves, KillPainterMoves DEF PainterEnds
    <3>3. CASE Publish(p)
      <4>1. PainterEnds(p) \/ at'[p] = "done"
        BY <3>3, PublishMoves
      <4> QED BY <4>1 DEF PainterEnds
    <3>4. CASE Paint(p) \/ LoadKey(p) \/ GenerateKey(p)
      BY <3>1, <3>4, PaintMoves, LoadKeyMoves, GenerateKeyMoves
    <3>5. CASE TouchKey(p) \/ TruncateKey(p) \/ WriteKey(p)
      BY <3>1, <3>5, TouchKeyMoves, TruncateKeyMoves, WriteKeyMoves DEF local
    <3>6. CASE ListOutbox(p) \/ ListLedger(p)
      BY <3>1, <3>6, ListOutboxMoves, ListLedgerMoves
    <3>7. CASE \/ \E b \in Blob : ShipBlob(p, b)
               \/ \E f \in Fact : LoadClaim(p, f)
      BY <3>1, <3>7, ShipBlobMoves, LoadClaimMoves
    <3> QED BY <1>2, <3>2, <3>3, <3>4, <3>5, <3>6, <3>7, PainterDoes
  <2>3. \A q \in Painter : at'[q] \in PainterAt /\ (at'[q] \in Keyed => key'[q] \in Painter)
    BY <2>1, <2>2 DEF Apart, SamePainter, StageInv
  <2> QED BY <2>1, <2>3 DEF Apart, SameCaller, StageInv
<1>3. CASE UNCHANGED vars
  BY <1>3 DEF vars, StageInv
<1> QED BY <1>1, <1>2, <1>3, Steps

\* End keeps the types,
LEMMA EndTypes ==
  ASSUME TypeOK, NEW q \in Process, NEW how \in Ended, End(q, how),
         UNCHANGED <<files, node, clock, minted, false, fetched, alone>>,
         crashes' \in 0..MaxCrash
  PROVE  TypeOK'
<1>1. /\ at' \in [Process -> Ended \cup {"deref", "stash", "open", "write", "claim", "save",
                                         "key", "touch", "truncate", "ship", "shipping",
                                         "loading"}]
      /\ facts' \in [Process -> SUBSET Fact] /\ todo' \in [Process -> SUBSET Blob]
  BY DEF TypeOK, End, Goto
<1>2. /\ open' \in [Caller -> Blob \cup Fact \cup {"none"}]
      /\ time' \in [Caller -> 0..MaxMint]
  BY PaintAssumption DEF TypeOK, End
<1>3. key' \in [Painter -> Painter \cup {"none"}]
  BY DEF TypeOK, End
<1>4. batch' \in [Painter -> [Fact -> 0..MaxMint]]
  BY PaintAssumption DEF TypeOK, End
<1>5. misread' \subseteq Caller
  BY DEF TypeOK, End
<1>6. overlap' \in [Painter -> BOOLEAN]
  BY Zenon DEF End
<1> QED BY <1>1, <1>2, <1>3, <1>4, <1>5, <1>6 DEF TypeOK, files, node

\* a mark for overlap is a Boolean,
LEMMA OverlapTypes ==
  ASSUME CallerSteps
  PROVE  overlap' \in [Painter -> BOOLEAN]
BY Zenon DEF CallerSteps

\* and what a call does keeps them too,
LEMMA CallerTypes ==
  ASSUME TypeOK, StageInv, NEW c \in Caller, CallerStep(c)
  PROVE  TypeOK'
<1> USE DEF files, node, local, reads
<1>0. c \in Process /\ "idle" \in Ended
  BY DEF Process, Ended
<1>1. CASE Call(c)
  <2>1. PICK w \in Witnessed :
          /\ facts' = [facts EXCEPT ![c] = w]
          /\ todo' = [todo EXCEPT ![c] = UNION {BlobsOf[f] : f \in w}]
          /\ Goto(c, IF ArgsFor(w) = {} THEN "stash" ELSE "deref")
    BY <1>1 DEF Call
  <2>2. w \subseteq Fact /\ UNION {BlobsOf[f] : f \in w} \subseteq Blob
    BY PaintAssumption
  <2>3. overlap' \in [Painter -> BOOLEAN]
    BY <1>1, OverlapTypes DEF Call
  <2> QED BY <1>0, <1>1, <2>1, <2>2, <2>3 DEF TypeOK, Call, Goto
<1>2. CASE CallFails(c)
  BY <1>0, <1>2, EndTypes DEF CallFails, TypeOK
<1>3. CASE Mint(c)
  <2>1. clock + 1 \in 1..MaxMint /\ clock + 1 \in 0..MaxMint
    BY <1>3, PaintAssumption DEF Mint, TypeOK
  <2>2. facts[c] \X {clock + 1} \subseteq Fact \X (1..MaxMint)
    BY <1>0, <2>1 DEF TypeOK
  <2>3. minted' \subseteq Fact \X (1..MaxMint) /\ false' \subseteq minted'
    BY <1>3, <2>2 DEF Mint, TypeOK
  <2>4. overlap' \in [Painter -> BOOLEAN]
    BY <1>3, OverlapTypes DEF Mint
  <2>5. clock' \in 0..MaxMint /\ time' \in [Caller -> 0..MaxMint] /\ misread' \subseteq Caller
    BY <1>3, <2>1 DEF Mint, TypeOK
  <2> QED BY <1>0, <1>3, <2>3, <2>4, <2>5 DEF TypeOK, Mint, Goto
<1>4. ASSUME NEW b \in Blob, Gets(c, b)
      PROVE  TypeOK'
  <2>1. overlap' \in [Painter -> BOOLEAN]
    BY <1>4, OverlapTypes DEF Gets, ReadArg, FetchArg
  <2>2. misread' \subseteq Caller /\ fetched' \subseteq nodeBlobs
    BY <1>4 DEF TypeOK, Gets, ReadArg, FetchArg
  <2>3. /\ at' = [at EXCEPT ![c] = "stash"]
        /\ UNCHANGED <<files, node, clock, minted, crashes, false, local, alone>>
    BY <1>4 DEF Gets, ReadArg, FetchArg, Goto
  <2> QED BY <1>0, <2>1, <2>2, <2>3 DEF TypeOK
<1>5. ASSUME NEW b \in Blob,
             \/ BlobExists(c, b) \/ BlobMissing(c, b) \/ OpenBlob(c, b) \/ WriteBlob(c, b)
      PROVE  TypeOK'
  <2>1. overlap' \in [Painter -> BOOLEAN]
    BY <1>5, OverlapTypes DEF BlobExists, BlobMissing, OpenBlob, WriteBlob
  <2>2. CASE BlobExists(c, b)
    BY <1>0, <2>1, <2>2 DEF TypeOK, BlobExists
  <2>3. CASE BlobMissing(c, b)
    BY <1>0, <2>1, <2>3 DEF TypeOK, BlobMissing, Goto
  <2>4. CASE OpenBlob(c, b)
    BY <1>0, <2>1, <2>4 DEF TypeOK, OpenBlob, Goto
  <2>5. CASE WriteBlob(c, b)
    BY <1>0, <2>1, <2>5 DEF TypeOK, WriteBlob, Goto
  <2> QED BY <1>5, <2>2, <2>3, <2>4, <2>5
<1>6. ASSUME NEW f \in Fact, OpenClaim(c, f) \/ WriteClaim(c, f)
      PROVE  TypeOK'
  <2>1. overlap' \in [Painter -> BOOLEAN]
    BY <1>6, OverlapTypes DEF OpenClaim, WriteClaim
  <2>2. CASE OpenClaim(c, f)
    BY <1>0, <2>1, <2>2 DEF TypeOK, OpenClaim, Goto
  <2>3. CASE WriteClaim(c, f)
    <3>1. time' \in [Caller -> 0..MaxMint] /\ ledger' \in [Fact -> 0..MaxMint]
      BY <2>3, PaintAssumption DEF TypeOK, WriteClaim
    <3>2. /\ at' = [at EXCEPT ![c] = "idle"] \/ at' = [at EXCEPT ![c] = "claim"]
          /\ facts' = [facts EXCEPT ![c] = @ \ {f}]
          /\ open' = [open EXCEPT ![c] = "none"]
      BY <2>3 DEF WriteClaim, Goto
    <3>3. facts' \in [Process -> SUBSET Fact] /\ open' \in [Caller -> Blob \cup Fact \cup {"none"}]
      BY <1>0, <3>2 DEF TypeOK
    <3>4. at' \in [Process -> Ended \cup {"deref", "stash", "open", "write", "claim", "save",
                                         "key", "touch", "truncate", "ship", "shipping",
                                         "loading"}]
      BY <1>0, <3>2 DEF TypeOK, Ended
    <3>5. /\ torn' \subseteq Fact
          /\ UNCHANGED <<outbox, keyfile, node, clock, minted, crashes, reads, todo, key, batch,
                         alone>>
      BY <2>3 DEF WriteClaim, TypeOK
    <3> QED BY <2>1, <3>1, <3>3, <3>4, <3>5 DEF TypeOK
  <2> QED BY <1>6, <2>2, <2>3
<1> QED BY <1>1, <1>2, <1>3, <1>4, <1>5, <1>6 DEF CallerStep, Gets

\* and what a paint does.
LEMMA PainterTypes ==
  ASSUME TypeOK, StageInv, NEW p \in Painter, PainterStep(p)
  PROVE  TypeOK'
<1> USE DEF files, node, local, reads, history
<1>0. p \in Process /\ "failed" \in Ended /\ "done" \in Ended
  BY DEF Process, Ended
<1>1. CASE Paint(p)
  <2>1. overlap' \in [Painter -> BOOLEAN] /\ alone' \in BOOLEAN
    <3>1. overlap \in [Painter -> BOOLEAN]
      BY DEF TypeOK
    <3>2. overlap' = [overlap EXCEPT ![p] = \E c \in Caller : Busy(c)]
      BY <1>1 DEF Paint
    <3>3. (\E c \in Caller : Busy(c)) \in BOOLEAN
      OBVIOUS
    <3>4. overlap' \in [Painter -> BOOLEAN]
      BY <3>1, <3>2, <3>3, Zenon
    <3>5. alone' \in BOOLEAN
      BY <1>1, Zenon DEF Paint
    <3> QED BY <3>4, <3>5
  <2> QED BY <1>0, <1>1, <2>1 DEF TypeOK, Paint, Goto
<1>2. CASE FailsAt(p)
  BY <1>0, <1>2, EndTypes
  DEF FailsAt, EmptyKey, ShipMismatch, LoadFails, Unreachable, TypeOK
<1>3. CASE LoadKey(p)
  BY <1>0, <1>3 DEF TypeOK, LoadKey, Goto
<1>4. CASE GenerateKey(p)
  BY <1>0, <1>4 DEF TypeOK, GenerateKey, Goto
<1>5. CASE TouchKey(p)
  BY <1>0, <1>5 DEF TypeOK, TouchKey, Goto
<1>6. CASE TruncateKey(p)
  BY <1>0, <1>6 DEF TypeOK, TruncateKey, Goto
<1>7. CASE WriteKey(p)
  BY <1>0, <1>7 DEF TypeOK, WriteKey, Goto
<1>8. CASE ListOutbox(p)
  BY <1>0, <1>8 DEF TypeOK, ListOutbox, Goto
<1>9. CASE ListLedger(p)
  BY <1>0, <1>9 DEF TypeOK, ListLedger, Goto
<1>10. CASE Publish(p)
  <2>1. \A f \in Fact : batch[p][f] # 0 => batch[p][f] \in 1..MaxMint
    BY PaintAssumption DEF TypeOK
  <2>2. key[p] \in Painter
    BY <1>10 DEF Publish, StageInv, Keyed
  <2>3. Claims(p) \subseteq Fact \X (1..MaxMint) \X Painter
    BY <2>1, <2>2 DEF Claims
  <2>4. nodeClaims' \subseteq Fact \X (1..MaxMint) \X Painter
    BY <1>10, <2>3 DEF Publish, TypeOK
  <2>5. CASE Goto(p, "done") /\ UNCHANGED <<local, misread, overlap>>
    BY <1>0, <1>10, <2>4, <2>5 DEF TypeOK, Publish, Goto
  <2>6. CASE End(p, "failed")
    <3>1. /\ at' \in [Process -> Ended \cup {"deref", "stash", "open", "write", "claim", "save",
                                             "key", "touch", "truncate", "ship", "shipping",
                                             "loading"}]
          /\ facts' \in [Process -> SUBSET Fact] /\ todo' \in [Process -> SUBSET Blob]
      BY <1>0, <2>6 DEF TypeOK, End, Goto
    <3>2. key' \in [Painter -> Painter \cup {"none"}]
      BY <2>6 DEF TypeOK, End
    <3>3. batch' \in [Painter -> [Fact -> 0..MaxMint]]
      BY <2>6, PaintAssumption DEF TypeOK, End
    <3>4. overlap' \in [Painter -> BOOLEAN]
      BY <2>6, Zenon DEF End
    <3>5. open' = open /\ time' = time /\ misread' = misread
      BY <2>6, PainterEndMoves
    <3> QED BY <1>10, <2>4, <3>1, <3>2, <3>3, <3>4, <3>5 DEF TypeOK, Publish
  <2> QED BY <1>10, <2>5, <2>6 DEF Publish
<1>11. ASSUME NEW b \in Blob, ShipBlob(p, b)
       PROVE  TypeOK'
  BY <1>0, <1>11, PaintAssumption DEF TypeOK, ShipBlob
<1>12. ASSUME NEW f \in Fact, LoadClaim(p, f)
       PROVE  TypeOK'
  BY <1>0, <1>12 DEF TypeOK, LoadClaim
<1> QED BY <1>1, <1>2, <1>3, <1>4, <1>5, <1>6, <1>7, <1>8, <1>9, <1>10, <1>11, <1>12, PainterDoes
        DEF PainterStep, FailsAt

LEMMA TypeStep ==
  ASSUME TypeOK, StageInv, [Next]_vars
  PROVE  TypeOK'
<1>1. ASSUME NEW q \in Process, Kill(q)
      PROVE  TypeOK'
  <2>1. crashes' \in 0..MaxCrash
    BY <1>1, PaintAssumption DEF Kill, TypeOK
  <2>2. ASSUME NEW how \in Ended, End(q, how)
        PROVE  TypeOK'
    BY <1>1, <2>1, <2>2, EndTypes DEF Kill, files, node
  <2> QED BY <1>1, <2>2 DEF Kill, Ended
<1>2. CASE UNCHANGED vars
  BY <1>2 DEF vars, TypeOK, Process
<1> QED BY <1>1, <1>2, CallerTypes, PainterTypes DEF Next, Process

-----------------------------------------------------------------------------
(* What is backed *)

\* Nothing is ever taken from the outbox or a node, and no claim unminted.
LEMMA Grows ==
  ASSUME TypeOK, [Next]_vars
  PROVE  /\ Present \subseteq Present' /\ nodeBlobs \subseteq nodeBlobs'
         /\ minted \subseteq minted' /\ fetched \subseteq fetched'
         /\ Fetched \subseteq Fetched'
         /\ \A p \in Painter : OnNode(p) \subseteq OnNode(p)' /\ Abroad(p) \subseteq Abroad(p)'
<1> SUFFICES /\ Present \subseteq Present' /\ nodeBlobs \subseteq nodeBlobs'
             /\ minted \subseteq minted' /\ fetched \subseteq fetched'
  BY DEF Fetched, OnNode, Abroad
<1>1. ASSUME NEW c \in Caller, CallerStep(c) \/ Kill(c)
      PROVE  /\ Present \subseteq Present' /\ nodeBlobs \subseteq nodeBlobs'
             /\ minted \subseteq minted' /\ fetched \subseteq fetched'
  <2>1. nodeBlobs' = nodeBlobs
    BY <1>1, CallerAside DEF Aside
  <2>2. minted \subseteq minted' /\ fetched \subseteq fetched'
    BY <1>1, CallerDoes, CallMoves, ReadMoves, BlobExistsMoves, BlobMissingMoves, OpenBlobMoves,
       WriteBlobMoves, CallFailsMoves, MintMoves, OpenClaimMoves, WriteClaimMoves,
       KillCallerMoves DEF reads
  <2>3. \/ outbox' = outbox
        \/ \E b \in Blob : \/ outbox' = [outbox EXCEPT ![b] = "torn"]
                           \/ outbox' = [outbox EXCEPT ![b] = "whole"]
    BY <1>1, CallerDoes, CallMoves, ReadMoves, BlobExistsMoves, BlobMissingMoves, OpenBlobMoves,
       WriteBlobMoves, CallFailsMoves, MintMoves, OpenClaimMoves, WriteClaimMoves,
       KillCallerMoves DEF files
  <2>4. Present \subseteq Present'
    BY <2>3 DEF Present, TypeOK
  <2> QED BY <2>1, <2>2, <2>4
<1>2. ASSUME NEW p \in Painter, PainterStep(p) \/ Kill(p)
      PROVE  /\ Present \subseteq Present' /\ nodeBlobs \subseteq nodeBlobs'
             /\ minted \subseteq minted' /\ fetched \subseteq fetched'
  <2>1. Present' = Present /\ minted' = minted /\ fetched' = fetched
    BY <1>2, PainterApart DEF Apart, Present
  <2>2. nodeBlobs \subseteq nodeBlobs'
    BY <1>2, PainterDoes, PaintMoves, PaintFailsMoves, KillPainterMoves, LoadKeyMoves,
       GenerateKeyMoves, TouchKeyMoves, TruncateKeyMoves, WriteKeyMoves, ListOutboxMoves,
       ShipBlobMoves, ListLedgerMoves, LoadClaimMoves, PublishMoves DEF node
  <2> QED BY <2>1, <2>2
<1>3. CASE UNCHANGED vars
  BY <1>3 DEF vars, Present
<1> QED BY <1>1, <1>2, <1>3, Steps

\* What is backed stays so.
LEMMA BackedStays ==
  ASSUME TypeOK, [Next]_vars, NEW f \in Fact, NEW t, Backed(f, t)
  PROVE  Backed(f, t)'
BY Grows DEF Backed

\* So does what a caller has seen to, if it does not step.
LEMMA WitnessesStay ==
  ASSUME TypeOK, [Next]_vars, NEW c \in Caller, Witnesses(c), SameCaller(c)
  PROVE  Witnesses(c)'
<1>1. facts[c] \subseteq Fact
  BY Distinct DEF TypeOK
<1>2. \A f \in facts[c] : Backed(f, time[c]) => Backed(f, time[c])'
  <2>1. time'[c] = time[c]
    BY DEF SameCaller
  <2> QED BY <1>1, <2>1, Grows DEF Backed
<1> QED BY <1>1, <1>2, Grows DEF Witnesses, SameCaller

\* A caller sees to one thing after the other.
LEMMA WitnessesStep ==
  ASSUME TypeOK, Next, NEW c \in Caller, Witnesses(c), CallerStep(c) \/ Kill(c)
  PROVE  Witnesses(c)'
<1>0. /\ facts[c] \subseteq Fact
      /\ Present \subseteq Present' /\ Fetched \subseteq Fetched' /\ minted \subseteq minted'
  BY Distinct, Grows DEF TypeOK
<1>1. CASE Call(c)
  <2>1. /\ at'[c] \in {"stash", "deref"} /\ facts'[c] \in Witnessed
        /\ todo'[c] = UNION {BlobsOf[f] : f \in facts'[c]}
        /\ at'[c] = "stash" => ArgsFor(facts'[c]) = {}
    BY <1>1, CallMoves
  <2>2. \A f \in facts'[c] : BlobsOf[f] \subseteq todo'[c]
    BY <2>1
  <2>3. at'[c] = "stash" => \A f \in facts'[c] : ArgsOf[f] \subseteq {}
    BY <2>1 DEF ArgsFor
  <2> QED BY <2>1, <2>2, <2>3 DEF Witnesses
<1>2. CASE CallFails(c) \/ Kill(c)
  BY <1>2, CallFailsMoves, KillCallerMoves DEF CallerEnds, Witnesses
<1>3. CASE Mint(c)
  <2>1. /\ at[c] = "stash" /\ at'[c] = "claim" /\ todo[c] = {} /\ facts'[c] = facts[c]
        /\ time'[c] = clock + 1 /\ minted' = minted \cup (facts[c] \X {clock + 1})
    BY <1>3, MintMoves
  <2>2. ASSUME NEW f \in facts'[c]
        PROVE  Backed(f, time[c])'
    <3>1. BlobsOf[f] \subseteq Present' /\ ArgsOf[f] \subseteq Present' \cup Fetched'
      BY <1>0, <2>1 DEF Witnesses
    <3>2. <<f, time'[c]>> \in minted'
      BY <2>1
    <3> QED BY <3>1, <3>2 DEF Backed
  <2> QED BY <2>1, <2>2 DEF Witnesses
<1>4. ASSUME NEW b \in Blob, Gets(c, b)
      PROVE  Witnesses(c)'
  <2>1. /\ at[c] = "deref" /\ at'[c] = "stash" /\ b \in Args(c) /\ b \in Present' \cup Fetched'
        /\ facts'[c] = facts[c] /\ todo'[c] = todo[c]
    BY <1>0, <1>4, ReadMoves
  <2>2. \A f \in facts[c] : ArgsOf[f] \subseteq {b}
    <3>1. facts[c] \in Witnessed
      BY <2>1 DEF Witnesses
    <3>2. \A a \in ArgsFor(facts[c]) : a = b
      BY <2>1, <3>1, PaintAssumption DEF Args
    <3> QED BY <3>2 DEF ArgsFor
  <2> QED BY <1>0, <2>1, <2>2 DEF Witnesses
<1>5. ASSUME NEW b \in Blob, BlobExists(c, b)
      PROVE  Witnesses(c)'
  <2>1. /\ at[c] = "stash" /\ at'[c] = "stash" /\ b \in Present
        /\ facts'[c] = facts[c] /\ todo'[c] = todo[c] \ {b}
    BY <1>5, BlobExistsMoves DEF Present
  <2> QED BY <1>0, <2>1 DEF Witnesses
<1>6. ASSUME NEW b \in Blob, BlobMissing(c, b) \/ OpenBlob(c, b)
      PROVE  Witnesses(c)'
  <2>1. /\ at[c] \in {"stash", "open"} /\ at'[c] \in {"open", "write"}
        /\ facts'[c] = facts[c] /\ todo'[c] = todo[c]
    BY <1>6, BlobMissingMoves, OpenBlobMoves
  <2> QED BY <1>0, <2>1 DEF Witnesses
<1>7. ASSUME NEW b \in Blob, WriteBlob(c, b)
      PROVE  Witnesses(c)'
  <2>1. /\ at[c] = "write" /\ at'[c] = "stash" /\ facts'[c] = facts[c]
        /\ todo'[c] = todo[c] \ {b} /\ outbox' = [outbox EXCEPT ![b] = "whole"]
    BY <1>7, WriteBlobMoves
  <2>2. b \in Present'
    BY <2>1 DEF Present, TypeOK
  <2> QED BY <1>0, <2>1, <2>2 DEF Witnesses
<1>8. ASSUME NEW f \in Fact, OpenClaim(c, f)
      PROVE  Witnesses(c)'
  <2>1. /\ at[c] = "claim" /\ at'[c] = "save" /\ open'[c] = f /\ f \in facts[c]
        /\ facts'[c] = facts[c] /\ time'[c] = time[c]
    BY <1>8, OpenClaimMoves
  <2>2. \A g \in facts[c] : Backed(g, time[c])
    BY <2>1 DEF Witnesses
  <2>3. \A g \in facts'[c] : Backed(g, time[c])'
    BY <1>0, <2>1, <2>2 DEF Backed
  <2> QED BY <2>1, <2>3 DEF Witnesses
<1>9. ASSUME NEW f \in Fact, WriteClaim(c, f)
      PROVE  Witnesses(c)'
  <2>1. /\ at[c] = "save" /\ facts'[c] \subseteq facts[c]
        /\ at'[c] = "idle" \/ (at'[c] = "claim" /\ time'[c] = time[c])
    BY <1>9, WriteClaimMoves
  <2>2. \A g \in facts[c] : Backed(g, time[c])
    BY <2>1 DEF Witnesses
  <2>3. time'[c] = time[c] => \A g \in facts'[c] : Backed(g, time[c])'
    BY <1>0, <2>1, <2>2 DEF Backed
  <2> QED BY <2>1, <2>3 DEF Witnesses
<1> QED BY <1>1, <1>2, <1>3, <1>4, <1>5, <1>6, <1>7, <1>8, <1>9, CallerDoes

LEMMA BackedStep ==
  ASSUME TypeOK, BackedInv, [Next]_vars
  PROVE  BackedInv'
<1>1. ASSUME NEW c \in Caller, Next, CallerStep(c) \/ Kill(c)
      PROVE  BackedInv'
  <2>1. \A d \in Caller : Witnesses(d)'
    BY <1>1, CallerAside, WitnessesStep, WitnessesStay DEF BackedInv, Aside
  <2>2. ASSUME NEW f \in Fact, ledger'[f] # 0
        PROVE  Backed(f, ledger[f])'
    <3>1. \/ ledger' = ledger
          \/ \E g \in Fact : WriteClaim(c, g)
      BY <1>1, CallerDoes, CallMoves, ReadMoves, BlobExistsMoves, BlobMissingMoves,
         OpenBlobMoves, WriteBlobMoves, CallFailsMoves, MintMoves, OpenClaimMoves,
         KillCallerMoves DEF files
    <3>2. CASE ledger'[f] = ledger[f]
      <4>1. Backed(f, ledger[f])
        BY <2>2, <3>2 DEF BackedInv
      <4> QED BY <3>2, <4>1, Grows DEF Backed
    <3>3. CASE ledger'[f] # ledger[f]
      <4>1. PICK g \in Fact : WriteClaim(c, g)
        BY <3>1, <3>3
      <4>2. /\ at[c] = "save" /\ open[c] = g /\ ledger' = [ledger EXCEPT ![g] = time[c]]
        BY <4>1, WriteClaimMoves
      <4>3. f = g /\ ledger'[f] = time[c]
        BY <3>3, <4>2 DEF TypeOK
      <4>4. Backed(f, time[c])
        BY <4>2, <4>3 DEF BackedInv, Witnesses
      <4> QED BY <4>3, <4>4, Grows DEF Backed
    <3> QED BY <3>2, <3>3
  <2> QED BY <2>1, <2>2 DEF BackedInv
<1>2. ASSUME NEW p \in Painter, Next, PainterStep(p) \/ Kill(p)
      PROVE  BackedInv'
  <2>1. \A c \in Caller : Witnesses(c)'
    BY <1>2, PainterApart, WitnessesStay DEF BackedInv, Apart
  <2>2. ledger' = ledger
    BY <1>2, PainterApart DEF Apart
  <2> QED BY <2>1, <2>2, Grows DEF BackedInv, Backed
<1>3. CASE UNCHANGED vars
  BY <1>3 DEF vars, BackedInv, Witnesses, Backed, Present, Fetched
<1> QED BY <1>1, <1>2, <1>3, Steps

-----------------------------------------------------------------------------
(* What is torn, and what was minted *)

LEMMA OpenStep ==
  ASSUME TypeOK, OpenInv, [Next]_vars
  PROVE  OpenInv'
<1>1. ASSUME NEW c \in Caller, CallerStep(c) \/ Kill(c), crashes' = 0
      PROVE  /\ \A f \in torn' : \E d \in Caller : at'[d] = "save" /\ open'[d] = f
             /\ \A b \in Blob : outbox'[b] = "torn" =>
                  \E d \in Caller : at'[d] = "write" /\ open'[d] = b
  <2>1. crashes = 0 /\ ~Kill(c)
    <3>1. crashes \in Nat
      BY PaintAssumption DEF TypeOK
    <3>2. ~Kill(c)
      BY <1>1, <3>1, KillCallerMoves
    <3> QED BY <1>1, <3>2, CallerDoes, CallMoves, ReadMoves, BlobExistsMoves, BlobMissingMoves,
            OpenBlobMoves, WriteBlobMoves, CallFailsMoves, MintMoves, OpenClaimMoves,
            WriteClaimMoves
  <2>2. \A d \in Caller \ {c} : SameCaller(d)
    BY <1>1, CallerAside DEF Aside
  <2>3. /\ \A f \in torn : \E d \in Caller : at[d] = "save" /\ open[d] = f
        /\ \A b \in Blob : outbox[b] = "torn" =>
             \E d \in Caller : at[d] = "write" /\ open[d] = b
    BY <2>1 DEF OpenInv
  <2>4. ASSUME NEW f \in torn'
        PROVE  \E d \in Caller : at'[d] = "save" /\ open'[d] = f
    <3>1. CASE \E g \in Fact : OpenClaim(c, g)
      BY <2>2, <2>3, <2>4, <3>1, OpenClaimMoves DEF SameCaller
    <3>2. CASE \E g \in Fact : WriteClaim(c, g)
      BY <2>2, <2>3, <2>4, <3>2, WriteClaimMoves DEF SameCaller
    <3>3. CASE ~(\E g \in Fact : OpenClaim(c, g) \/ WriteClaim(c, g))
      <4>1. at[c] # "save" /\ torn' = torn
        BY <1>1, <2>1, <3>3, CallerDoes, CallMoves, ReadMoves, BlobExistsMoves,
           BlobMissingMoves, OpenBlobMoves, WriteBlobMoves, CallFailsMoves, MintMoves DEF files
      <4> QED BY <2>2, <2>3, <2>4, <4>1 DEF SameCaller
    <3> QED BY <3>1, <3>2, <3>3
  <2>5. ASSUME NEW b \in Blob, outbox'[b] = "torn"
        PROVE  \E d \in Caller : at'[d] = "write" /\ open'[d] = b
    <3>1. ASSUME NEW a \in Blob, OpenBlob(c, a)
          PROVE  \E d \in Caller : at'[d] = "write" /\ open'[d] = b
      <4>1. /\ at[c] = "open" /\ at'[c] = "write" /\ open'[c] = a
            /\ outbox' = [outbox EXCEPT ![a] = "torn"]
        BY <3>1, OpenBlobMoves
      <4>2. CASE a = b
        BY <4>1, <4>2
      <4>3. CASE a # b
        <5>1. outbox[b] = "torn"
          BY <2>5, <4>1, <4>3 DEF TypeOK
        <5> QED BY <2>2, <2>3, <4>1, <5>1 DEF SameCaller
      <4> QED BY <4>2, <4>3
    <3>2. ASSUME NEW a \in Blob, WriteBlob(c, a)
          PROVE  \E d \in Caller : at'[d] = "write" /\ open'[d] = b
      <4>1. open[c] = a /\ outbox' = [outbox EXCEPT ![a] = "whole"]
        BY <3>2, WriteBlobMoves
      <4>2. a # b /\ outbox[b] = "torn"
        BY <2>5, <4>1 DEF TypeOK
      <4> QED BY <2>2, <2>3, <4>1, <4>2 DEF SameCaller
    <3>3. CASE ~(\E a \in Blob : OpenBlob(c, a) \/ WriteBlob(c, a))
      <4>1. at[c] # "write" /\ outbox' = outbox
        BY <1>1, <2>1, <3>3, CallerDoes, CallMoves, ReadMoves, BlobExistsMoves,
           BlobMissingMoves, CallFailsMoves, MintMoves, OpenClaimMoves, WriteClaimMoves
        DEF files
      <4> QED BY <2>2, <2>3, <2>5, <4>1 DEF SameCaller
    <3> QED BY <3>1, <3>2, <3>3
  <2> QED BY <2>4, <2>5
<1>2. ASSUME NEW p \in Painter, PainterStep(p) \/ Kill(p)
      PROVE  OpenInv'
  <2>1. Apart(p)
    BY <1>2, PainterApart
  <2>2. crashes' = 0 => crashes = 0
    <3>1. crashes \in Nat
      BY PaintAssumption DEF TypeOK
    <3>2. Kill(p) => crashes' # 0
      BY <3>1, KillPainterMoves
    <3> QED BY <1>2, <3>2, PainterDoes, PaintMoves, PaintFailsMoves, LoadKeyMoves,
            GenerateKeyMoves, TouchKeyMoves, TruncateKeyMoves, WriteKeyMoves, ListOutboxMoves,
            ShipBlobMoves, ListLedgerMoves, LoadClaimMoves, PublishMoves DEF history
  <2> QED BY <2>1, <2>2 DEF Apart, SameCaller, OpenInv
<1>3. CASE UNCHANGED vars
  BY <1>3 DEF vars, OpenInv
<1> QED BY <1>1, <1>2, <1>3, Steps DEF OpenInv

\* The claims that p publishes were minted.
LEMMA ClaimsMinted ==
  ASSUME MintedInv, NEW p \in Painter
  PROVE  \A claim \in Claims(p) : <<claim[1], claim[2]>> \in minted
BY DEF MintedInv, Claims

LEMMA MintedStep ==
  ASSUME TypeOK, BackedInv, MintedInv, [Next]_vars
  PROVE  MintedInv'
<1>0. clock \in Nat
  BY PaintAssumption DEF TypeOK
<1>1. ASSUME NEW c \in Caller, CallerStep(c) \/ Kill(c)
      PROVE  MintedInv'
  <2>1. batch' = batch /\ nodeClaims' = nodeClaims
    BY <1>1, CallerAside DEF Aside
  <2>2. minted \subseteq minted'
    BY <1>1, Grows DEF Next, Process
  <2>3. minted' \subseteq Fact \X (1..clock')
    <3>1. CASE Mint(c)
      <4>1. minted' = minted \cup (facts[c] \X {clock + 1}) /\ clock' = clock + 1
        BY <3>1, MintMoves
      <4>2. facts[c] \subseteq Fact
        BY Distinct DEF TypeOK
      <4>3. 1..clock \subseteq 1..clock' /\ clock + 1 \in 1..clock'
        BY <1>0, <4>1
      <4> QED BY <4>1, <4>2, <4>3 DEF MintedInv
    <3>2. CASE ~Mint(c)
      <4>1. minted' = minted /\ clock' = clock
        BY <1>1, <3>2, CallerDoes, CallMoves, ReadMoves, BlobExistsMoves, BlobMissingMoves,
           OpenBlobMoves, WriteBlobMoves, CallFailsMoves, OpenClaimMoves, WriteClaimMoves,
           KillCallerMoves
      <4> QED BY <4>1 DEF MintedInv
    <3> QED BY <3>1, <3>2
  <2> QED BY <2>1, <2>2, <2>3 DEF MintedInv, NothingMintedByPainting
<1>2. ASSUME NEW p \in Painter, PainterStep(p) \/ Kill(p)
      PROVE  MintedInv'
  <2>1. Apart(p)
    BY <1>2, PainterApart
  <2>2. \A f \in Fact : batch'[p][f] # 0 => <<f, batch'[p][f]>> \in minted
    <3>1. ASSUME NEW g \in Fact, LoadClaim(p, g), NEW f \in Fact, batch'[p][f] # 0
          PROVE  <<f, batch'[p][f]>> \in minted
      <4>1. batch'[p] = [batch[p] EXCEPT ![g] = ledger[g]]
        BY <3>1, LoadClaimMoves
      <4>2. CASE f = g
        <5>1. batch'[p][f] = ledger[f]
          BY <4>1, <4>2 DEF TypeOK
        <5> QED BY <3>1, <5>1 DEF BackedInv, Backed
      <4>3. CASE f # g
        <5>1. batch'[p][f] = batch[p][f]
          BY <4>1, <4>3 DEF TypeOK
        <5> QED BY <3>1, <5>1 DEF MintedInv
      <4> QED BY <4>2, <4>3
    <3>2. CASE ~(\E g \in Fact : LoadClaim(p, g))
      <4>1. batch'[p] = batch[p] \/ PainterEnds(p)
        BY <1>2, <3>2, PainterDoes, PaintMoves, PaintFailsMoves, KillPainterMoves, LoadKeyMoves,
           GenerateKeyMoves, TouchKeyMoves, TruncateKeyMoves, WriteKeyMoves, ListOutboxMoves,
           ShipBlobMoves, ListLedgerMoves, PublishMoves DEF local
      <4> QED BY <4>1 DEF PainterEnds, MintedInv
    <3> QED BY <3>1, <3>2
  <2>3. \A q \in Painter, f \in Fact : batch'[q][f] # 0 => <<f, batch'[q][f]>> \in minted
    BY <2>1, <2>2 DEF Apart, SamePainter, MintedInv
  <2>4. nodeClaims' = nodeClaims \/ nodeClaims' = nodeClaims \cup Claims(p)
    BY <1>2, PainterDoes, PaintMoves, PaintFailsMoves, KillPainterMoves, LoadKeyMoves,
       GenerateKeyMoves, TouchKeyMoves, TruncateKeyMoves, WriteKeyMoves, ListOutboxMoves,
       ShipBlobMoves, ListLedgerMoves, LoadClaimMoves, PublishMoves DEF node
  <2>5. \A claim \in nodeClaims' : <<claim[1], claim[2]>> \in minted
    BY <2>4, ClaimsMinted DEF MintedInv, NothingMintedByPainting
  <2> QED BY <2>1, <2>3, <2>5 DEF Apart, MintedInv, NothingMintedByPainting
<1>3. CASE UNCHANGED vars
  BY <1>3 DEF vars, MintedInv, NothingMintedByPainting
<1> QED BY <1>1, <1>2, <1>3, Steps

-----------------------------------------------------------------------------
(* What is lost stays lost *)

LEMMA LostStays ==
  ASSUME TypeOK, [Next]_vars, NEW b \in Blob, Lost(b)
  PROVE  Lost(b)'
<1>0. outbox[b] = "torn" /\ \A d \in Caller : at[d] \in {"open", "write"} => open[d] # b
  BY DEF Lost, BeingWritten
<1>1. ASSUME NEW c \in Caller, CallerStep(c) \/ Kill(c)
      PROVE  Lost(b)'
  <2>1. outbox'[b] = "torn"
    <3>1. ASSUME NEW a \in Blob, OpenBlob(c, a) \/ WriteBlob(c, a)
          PROVE  outbox'[b] = "torn"
      <4>1. a # b
        BY <1>0, <3>1, OpenBlobMoves, WriteBlobMoves
      <4>2. \E v \in {"torn", "whole"} : outbox' = [outbox EXCEPT ![a] = v]
        BY <3>1, OpenBlobMoves, WriteBlobMoves
      <4> QED BY <1>0, <4>1, <4>2 DEF TypeOK
    <3>2. CASE ~(\E a \in Blob : OpenBlob(c, a) \/ WriteBlob(c, a))
      <4>1. outbox' = outbox
        BY <1>1, <3>2, CallerDoes, CallMoves, ReadMoves, BlobExistsMoves, BlobMissingMoves,
           CallFailsMoves, MintMoves, OpenClaimMoves, WriteClaimMoves, KillCallerMoves
        DEF files
      <4> QED BY <1>0, <4>1
    <3> QED BY <3>1, <3>2
  <2>2. at'[c] \in {"open", "write"} => open'[c] # b
    <3>1. ASSUME NEW a \in Blob, BlobMissing(c, a)
          PROVE  open'[c] # b
      BY <1>0, <3>1, BlobMissingMoves
    <3>2. ASSUME NEW a \in Blob, OpenBlob(c, a)
          PROVE  open'[c] # b
      BY <1>0, <3>2, OpenBlobMoves
    <3>3. CASE ~(\E a \in Blob : BlobMissing(c, a) \/ OpenBlob(c, a))
      <4>1. at'[c] \notin {"open", "write"}
        BY <1>1, <3>3, CallerDoes, CallMoves, ReadMoves, BlobExistsMoves, WriteBlobMoves,
           CallFailsMoves, MintMoves, OpenClaimMoves, WriteClaimMoves, KillCallerMoves
        DEF CallerEnds
      <4> QED BY <4>1
    <3> QED BY <3>1, <3>2, <3>3
  <2>3. \A d \in Caller : at'[d] \in {"open", "write"} => open'[d] # b
    BY <1>0, <1>1, <2>2, CallerAside DEF Aside, SameCaller
  <2> QED BY <2>1, <2>3 DEF Lost, BeingWritten
<1>2. ASSUME NEW p \in Painter, PainterStep(p) \/ Kill(p)
      PROVE  Lost(b)'
  BY <1>0, <1>2, PainterApart DEF Apart, SameCaller, Lost, BeingWritten
<1>3. CASE UNCHANGED vars
  BY <1>3 DEF vars, Lost, BeingWritten
<1> QED BY <1>1, <1>2, <1>3, Steps

LEMMA LostStep ==
  ASSUME TypeOK, LostInv, [Next]_vars
  PROVE  LostInv'
<1>1. ASSUME misread # {} \/ false # {}
      PROVE  LostInv'
  BY <1>1, LostStays DEF LostInv
<1>2. ASSUME misread = {}, false = {}, NEW c \in Caller, CallerStep(c) \/ Kill(c), Next
      PROVE  LostInv'
  <2>1. ASSUME NEW b \in Blob, Gets(c, b)
        PROVE  LostInv'
    <3>1. false' = {} /\ (misread' = {} \/ Lost(b))
      BY <1>2, <2>1, ReadMoves
    <3> QED BY <1>2, <3>1, LostStays DEF LostInv
  <2>2. CASE ~(\E b \in Blob : Gets(c, b))
    <3>1. misread' = {} /\ false' = {}
      BY <1>2, <2>2, CallerDoes, CallMoves, BlobExistsMoves, BlobMissingMoves, OpenBlobMoves,
         WriteBlobMoves, CallFailsMoves, MintMoves, OpenClaimMoves, WriteClaimMoves,
         KillCallerMoves DEF reads
    <3> QED BY <3>1 DEF LostInv
  <2> QED BY <2>1, <2>2
<1>3. ASSUME misread = {}, false = {}, NEW p \in Painter, PainterStep(p) \/ Kill(p)
      PROVE  LostInv'
  <2>1. misread' = {} /\ false' = {}
    <3>1. false' = false
      BY <1>3, PainterApart DEF Apart
    <3>2. misread' = misread
      BY <1>3, PainterDoes, PaintMoves, PaintFailsMoves, KillPainterMoves, LoadKeyMoves,
         GenerateKeyMoves, TouchKeyMoves, TruncateKeyMoves, WriteKeyMoves, ListOutboxMoves,
         ShipBlobMoves, ListLedgerMoves, LoadClaimMoves, PublishMoves DEF history, reads
    <3> QED BY <1>3, <3>1, <3>2
  <2> QED BY <2>1 DEF LostInv
<1>4. CASE UNCHANGED vars
  BY <1>4 DEF vars, LostInv, Lost, BeingWritten
<1> QED BY <1>1, <1>2, <1>3, <1>4, Steps

-----------------------------------------------------------------------------
(* Paints that no call overlaps *)

\* A step of a caller overlaps the paints under way, and no others.
LEMMA CallerOverlaps ==
  ASSUME NEW c \in Caller, CallerStep(c) \/ Kill(c), NEW p \in Painter
  PROVE  ~overlap'[p] => ~overlap[p] /\ ~Busy(p)
<1>1. CASE CallerSteps
  <2>1. overlap' = [q \in Painter |-> overlap[q] \/ Busy(q)]
    BY <1>1 DEF CallerSteps
  <2>2. overlap'[p] = (overlap[p] \/ Busy(p))
    BY <2>1, Zenon
  <2> QED BY <2>2, Zenon
<1>2. ASSUME NEW how, End(c, how)
      PROVE  ~overlap'[p] => ~overlap[p] /\ ~Busy(p)
  <2>1. overlap' = [q \in Painter |-> q # c /\ (overlap[q] \/ (c \in Caller /\ Busy(q)))]
    BY <1>2 DEF End
  <2>2. overlap'[p] = (p # c /\ (overlap[p] \/ (c \in Caller /\ Busy(p))))
    BY <2>1, Zenon
  <2>3. p # c
    BY Distinct
  <2> QED BY <2>2, <2>3, Zenon
<1> QED BY <1>1, <1>2
        DEF CallerStep, Kill, Call, CallFails, Mint, ReadArg, FetchArg, BlobExists, BlobMissing,
            OpenBlob, WriteBlob, OpenClaim, WriteClaim

\* A painter that starts is overlapped if a call is under way; else its steps
\* overlap none, and leave the mark, unless it ends.
LEMMA PainterOverlaps ==
  ASSUME TypeOK, NEW p \in Painter, PainterStep(p) \/ Kill(p)
  PROVE  /\ \A q \in Painter \ {p} : ~overlap'[q] => ~overlap[q]
         /\ Paint(p) => (~overlap'[p] => \A c \in Caller : ~Busy(c))
         /\ Paint(p) \/ PainterEnds(p) \/ (~overlap'[p] => ~overlap[p])
<1>1. CASE Paint(p)
  <2>1. overlap' = [overlap EXCEPT ![p] = \E c \in Caller : Busy(c)]
    BY <1>1 DEF Paint
  <2>2. DOMAIN overlap = Painter
    BY DEF TypeOK
  <2>3. overlap'[p] = \E c \in Caller : Busy(c)
    BY <2>1, <2>2, Zenon
  <2>4. \A q \in Painter \ {p} : overlap'[q] = overlap[q]
    BY <2>1, <2>2, Zenon
  <2> QED BY <1>1, <2>3, <2>4, Zenon
<1>2. CASE ~Paint(p) /\ UNCHANGED overlap
  BY <1>2
<1>3. CASE ~Paint(p) /\ End(p, "failed")
  <2>1. PainterEnds(p)
    BY <1>3, PainterEndMoves
  <2>2. overlap' = [q \in Painter |-> q # p /\ (overlap[q] \/ (p \in Caller /\ Busy(q)))]
    BY <1>3 DEF End
  <2>3. \A q \in Painter \ {p} :
          overlap'[q] = (q # p /\ (overlap[q] \/ (p \in Caller /\ Busy(q))))
    BY <2>2, Zenon
  <2>4. \A q \in Painter \ {p} : ~overlap'[q] => ~overlap[q]
    BY <2>3, Zenon
  <2> QED BY <1>3, <2>1, <2>4
<1>4. Paint(p) \/ UNCHANGED overlap \/ End(p, "failed")
  BY Distinct
  DEF PainterStep, Kill, EmptyKey, LoadKey, GenerateKey, TouchKey, TruncateKey, WriteKey,
      ListOutbox, ShipBlob, ShipMismatch, ListLedger, LoadClaim, LoadFails, Publish,
      Unreachable, history
<1> QED BY <1>1, <1>2, <1>3, <1>4

\* A paint is exact for good: what is minted later, true or false, is not in it.
LEMMA ExactStays ==
  ASSUME TypeOK, MintedInv, [Next]_vars, NEW p \in Painter, Exact(p), SamePainter(p)
  PROVE  Exact(p)'
<1>1. clock \in Nat
  BY PaintAssumption DEF TypeOK
<1>2. \A f \in Fact : batch[p][f] # clock + 1
  <2>1. ASSUME NEW f \in Fact, batch[p][f] = clock + 1
        PROVE  FALSE
    <3>1. <<f, clock + 1>> \in Fact \X (1..clock)
      BY <1>1, <2>1 DEF MintedInv
    <3> QED BY <1>1, <3>1
  <2> QED BY <2>1
<1>3. false' = false \/ \E c \in Caller : false' = false \cup (facts[c] \X {clock + 1})
  <2>1. ASSUME NEW c \in Caller, CallerStep(c) \/ Kill(c)
        PROVE  false' = false \/ false' = false \cup (facts[c] \X {clock + 1})
    BY <2>1, CallerDoes, CallMoves, ReadMoves, BlobExistsMoves, BlobMissingMoves, OpenBlobMoves,
       WriteBlobMoves, CallFailsMoves, MintMoves, OpenClaimMoves, WriteClaimMoves,
       KillCallerMoves DEF reads
  <2>2. ASSUME NEW q \in Painter, PainterStep(q) \/ Kill(q)
        PROVE  false' = false
    BY <2>2, PainterApart DEF Apart
  <2>3. CASE UNCHANGED vars
    BY <2>3 DEF vars
  <2> QED BY <2>1, <2>2, <2>3, Steps
<1>4. \A f \in Fact : <<f, batch[p][f]>> \notin false'
  BY <1>2, <1>3 DEF Exact
<1> QED BY <1>4, Grows DEF Exact, SamePainter

\* What a painter knows holds on while another one steps.
LEMMA QuietStays ==
  ASSUME TypeOK, MintedInv, [Next]_vars, NEW p \in Painter, Quiet(p), SamePainter(p),
         UNCHANGED <<outbox, ledger>>, \A c \in Caller : SameCaller(c)
  PROVE  Quiet(p)'
<1>1. \A b \in Blob : Shipped(p, b) => Shipped(p, b)'
  BY Grows DEF Shipped
<1>2. at'[p] = at[p] /\ todo'[p] = todo[p] /\ batch'[p] = batch[p]
  BY DEF SamePainter
<1>3. \A c \in Caller : at'[c] = at[c]
  BY DEF SameCaller
<1> QED BY <1>1, <1>2, <1>3, ExactStays DEF Quiet, Busy

\* What was fetched is on the painter's node, or came from another.
LEMMA FetchedFrom ==
  ASSUME TypeOK, NEW p \in Painter
  PROVE  Fetched \subseteq OnNode(p) \cup Abroad(p)
BY DEF TypeOK, Fetched, OnNode, Abroad

\* When the blobs were shipped, none is lost: so no claim is false.
LEMMA NoneFalse ==
  ASSUME LostInv, NEW p \in Painter, \A b \in Blob : Shipped(p, b)
  PROVE  false = {}
BY DEF LostInv, Lost, Shipped

\* What p itself does, if no call overlaps it.
LEMMA QuietMoves ==
  ASSUME TypeOK, BackedInv, LostInv, QuietInv, NEW p \in Painter, PainterStep(p) \/ Kill(p),
         ~overlap'[p]
  PROVE  Quiet(p)'
<1>0. /\ \A c \in Caller : SameCaller(c)
      /\ UNCHANGED <<outbox, ledger, false>>
  BY PainterApart DEF Apart
<1>1. CASE Paint(p)
  <2>1. at'[p] = "key" /\ \A c \in Caller : ~Busy(c)
    BY <1>1, PaintMoves, PainterOverlaps
  <2> QED BY <1>0, <2>1 DEF Quiet, Busy, SameCaller
<1>2. CASE PainterEnds(p)
  BY <1>2 DEF PainterEnds, Quiet, Busy, Ended
<1>3. CASE ~Paint(p) /\ ~PainterEnds(p)
  <2>0. Quiet(p)
    BY <1>3, PainterOverlaps DEF QuietInv
  <2>1. ASSUME Busy(p)
        PROVE  \A c \in Caller : ~Busy(c)'
    BY <1>0, <2>0, <2>1 DEF Quiet, Busy, SameCaller
  <2>2. CASE LoadKey(p) \/ GenerateKey(p) \/ TouchKey(p) \/ TruncateKey(p) \/ WriteKey(p)
    <3>1. /\ at[p] \notin Ended
          /\ at'[p] \in {"ship", "touch", "truncate", "write"}
      BY <2>2, LoadKeyMoves, GenerateKeyMoves, TouchKeyMoves, TruncateKeyMoves, WriteKeyMoves
      DEF Ended
    <3> QED BY <2>1, <3>1 DEF Quiet, Busy
  <2>3. CASE ListOutbox(p)
    <3>1. at[p] = "ship" /\ at'[p] = "shipping" /\ todo'[p] = Present
      BY <2>3, ListOutboxMoves
    <3>2. Busy(p)
      BY <3>1 DEF Busy, Ended
    <3>3. \A b \in Blob \ todo'[p] : Shipped(p, b)'
      BY <1>0, <3>1 DEF Shipped, Present
    <3> QED BY <2>1, <3>1, <3>2, <3>3 DEF Quiet
  <2>4. ASSUME NEW b \in Blob, ShipBlob(p, b)
        PROVE  Quiet(p)'
    <3>1. /\ at[p] = "shipping" /\ at'[p] = "shipping" /\ todo'[p] = todo[p] \ {b}
          /\ outbox[b] = "whole" /\ nodeBlobs' = nodeBlobs \cup {<<b, NodeOf[p]>>}
      BY <2>4, ShipBlobMoves
    <3>2. Busy(p)
      BY <3>1 DEF Busy, Ended
    <3>3. \A a \in Blob \ todo'[p] : Shipped(p, a)'
      BY <1>0, <2>0, <3>1 DEF Shipped, OnNode, Quiet
    <3> QED BY <2>1, <3>1, <3>2, <3>3 DEF Quiet
  <2>5. CASE ListLedger(p)
    <3>1. /\ at[p] = "shipping" /\ at'[p] = "loading" /\ todo[p] = {} /\ batch'[p] = batch[p]
          /\ nodeBlobs' = nodeBlobs
      BY <2>5, ListLedgerMoves DEF node
    <3>2. Busy(p)
      BY <3>1 DEF Busy, Ended
    <3>3. \A b \in Blob : Shipped(p, b)'
      BY <1>0, <2>0, <3>1 DEF Shipped, OnNode, Quiet
    <3>4. \A f \in Fact : batch'[p][f] \in {0, ledger'[f]}
      BY <3>1 DEF QuietInv
    <3> QED BY <2>1, <3>1, <3>2, <3>3, <3>4 DEF Quiet
  <2>6. ASSUME NEW g \in Fact, LoadClaim(p, g)
        PROVE  Quiet(p)'
    <3>1. /\ at[p] = "loading" /\ at'[p] = "loading"
          /\ batch'[p] = [batch[p] EXCEPT ![g] = ledger[g]] /\ nodeBlobs' = nodeBlobs
      BY <2>6, LoadClaimMoves DEF node
    <3>2. Busy(p)
      BY <3>1 DEF Busy, Ended
    <3>3. \A b \in Blob : Shipped(p, b)'
      BY <1>0, <2>0, <3>1 DEF Shipped, OnNode, Quiet
    <3>4. \A f \in Fact : batch'[p][f] = batch[p][f] \/ batch'[p][f] = ledger[f]
      BY <3>1 DEF TypeOK
    <3>5. \A f \in Fact : batch'[p][f] \in {0, ledger'[f]}
      BY <1>0, <2>0, <3>1, <3>4 DEF Quiet
    <3> QED BY <2>1, <3>1, <3>2, <3>3, <3>5 DEF Quiet
  <2>7. CASE Publish(p)
    <3>1. /\ at[p] = "loading" /\ at'[p] = "done" /\ batch'[p] = batch[p]
          /\ nodeBlobs' = nodeBlobs
      BY <1>3, <2>7, PublishMoves
    <3>2. /\ \A b \in Blob : Shipped(p, b)
          /\ \A f \in Fact : batch[p][f] \in {0, ledger[f]}
      BY <2>0, <3>1 DEF Quiet
    <3>3. Present \subseteq OnNode(p) /\ OnNode(p)' = OnNode(p) /\ Abroad(p) \subseteq Abroad(p)'
      BY <1>0, <3>1, <3>2, PainterApart DEF Present, Shipped, OnNode, Abroad, Apart
    <3>4. \A f \in Fact : batch[p][f] # 0 =>
            BlobsOf[f] \subseteq OnNode(p) /\ ArgsOf[f] \subseteq OnNode(p) \cup Abroad(p)
      BY <3>2, <3>3, FetchedFrom DEF BackedInv, Backed
    <3>5. false = {}
      BY <3>2, NoneFalse
    <3>6. Exact(p)'
      BY <1>0, <3>1, <3>3, <3>4, <3>5 DEF Exact
    <3> QED BY <3>1, <3>6 DEF Quiet, Busy, Ended
  <2> QED BY <1>3, <2>2, <2>3, <2>4, <2>5, <2>6, <2>7, PainterDoes, PaintFailsMoves,
          KillPainterMoves
<1> QED BY <1>1, <1>2, <1>3

LEMMA QuietStep ==
  ASSUME TypeOK, BackedInv, MintedInv, LostInv, QuietInv, [Next]_vars
  PROVE  QuietInv'
<1>1. ASSUME NEW c \in Caller, CallerStep(c) \/ Kill(c), NEW p \in Painter, Next
      PROVE  /\ at'[p] \notin {"loading", "done"} => \A f \in Fact : batch'[p][f] = 0
             /\ ~overlap'[p] => Quiet(p)'
  <2>1. SamePainter(p)
    BY <1>1, CallerAside DEF Aside
  <2>2. ASSUME ~overlap'[p]
        PROVE  Quiet(p)'
    <3>1. Quiet(p) /\ ~Busy(p)
      BY <1>1, <2>2, CallerOverlaps DEF QuietInv
    <3>2. at[p] \in Ended /\ at'[p] = at[p]
      BY <2>1, <3>1 DEF Busy, SamePainter
    <3>3. at[p] = "done" => Exact(p)'
      BY <1>1, <2>1, <3>1, ExactStays DEF Quiet
    <3> QED BY <3>2, <3>3 DEF Quiet, Busy, Ended
  <2> QED BY <2>1, <2>2 DEF SamePainter, QuietInv
<1>2. ASSUME NEW p \in Painter, PainterStep(p) \/ Kill(p), NEW q \in Painter, Next
      PROVE  /\ at'[q] \notin {"loading", "done"} => \A f \in Fact : batch'[q][f] = 0
             /\ ~overlap'[q] => Quiet(q)'
  <2>1. CASE q # p
    <3>1. SamePainter(q) /\ UNCHANGED <<outbox, ledger>> /\ \A c \in Caller : SameCaller(c)
      BY <1>2, <2>1, PainterApart DEF Apart
    <3>2. ~overlap'[q] => ~overlap[q]
      BY <1>2, <2>1, PainterOverlaps
    <3>3. ~overlap'[q] => Quiet(q)'
      BY <1>2, <3>1, <3>2, QuietStays DEF QuietInv
    <3> QED BY <3>1, <3>3 DEF SamePainter, QuietInv
  <2>2. CASE q = p
    <3>1. at'[p] \notin {"loading", "done"} => \A f \in Fact : batch'[p][f] = 0
      <4>1. \/ PainterEnds(p)
            \/ at'[p] = "done"
            \/ at'[p] = "loading"
            \/ at[p] \notin {"loading", "done"} /\ batch'[p] = batch[p]
        BY <1>2, PainterDoes, PaintMoves, PaintFailsMoves, KillPainterMoves, LoadKeyMoves,
           GenerateKeyMoves, TouchKeyMoves, TruncateKeyMoves, WriteKeyMoves, ListOutboxMoves,
           ShipBlobMoves, ListLedgerMoves, LoadClaimMoves, PublishMoves DEF local
      <4> QED BY <4>1 DEF PainterEnds, QuietInv
    <3>2. ~overlap'[p] => Quiet(p)'
      BY <1>2, QuietMoves
    <3> QED BY <2>2, <3>1, <3>2
  <2> QED BY <2>1, <2>2
<1>3. CASE UNCHANGED vars
  BY <1>3 DEF vars, QuietInv, Quiet, Busy, Shipped, Exact, OnNode, Abroad
<1>4. ASSUME Next
      PROVE  QuietInv'
  <2>1. \A p \in Painter :
          /\ at'[p] \notin {"loading", "done"} => \A f \in Fact : batch'[p][f] = 0
          /\ ~overlap'[p] => Quiet(p)'
    BY <1>1, <1>2, <1>4, Steps
  <2> QED BY <2>1 DEF QuietInv
<1> QED BY <1>3, <1>4

-----------------------------------------------------------------------------
(* The key that signs *)

\* As long as no key is in the file, nothing was published.
LEMMA KeylessIsUnpublished ==
  ASSUME TypeOK, SignerInv, alone, keyfile \notin Painter
  PROVE  nodeClaims = {}
<1>1. ASSUME NEW claim \in nodeClaims
      PROVE  FALSE
  <2>1. claim[3] \in Painter
    BY DEF TypeOK
  <2>2. claim[3] = keyfile
    BY DEF SignerInv
  <2> QED BY <2>1, <2>2
<1> QED BY <1>1

\* What p itself does to the key and the claims.
LEMMA SignerMoves ==
  ASSUME TypeOK, SignerInv, NEW p \in Painter, PainterStep(p) \/ Kill(p), alone
  PROVE  /\ KnowsKey(p)'
         /\ \A claim \in nodeClaims' : claim[3] = keyfile'
<1>0. /\ KnowsKey(p)
      /\ \A claim \in nodeClaims : claim[3] = keyfile
      /\ "none" \notin Painter /\ "empty" \notin Painter
  BY PaintAssumption DEF SignerInv
<1>1. CASE Paint(p)
  BY <1>0, <1>1, PaintMoves DEF KnowsKey, files, node
<1>2. CASE FailsAt(p) \/ Kill(p)
  BY <1>0, <1>2, PaintFailsMoves, KillPainterMoves DEF PainterEnds, KnowsKey, files, node
<1>3. CASE LoadKey(p) \/ GenerateKey(p)
  BY <1>0, <1>3, LoadKeyMoves, GenerateKeyMoves DEF KnowsKey, files, node
<1>4. CASE TouchKey(p)
  <2>1. /\ at[p] = "touch" /\ at'[p] = "truncate" /\ key'[p] = key[p]
        /\ nodeClaims' = nodeClaims
        /\ keyfile' = IF keyfile = "none" THEN "empty" ELSE keyfile
    BY <1>4, TouchKeyMoves DEF node, local
  <2>2. keyfile = "none" /\ key[p] = p /\ nodeClaims = {}
    BY <1>0, <2>1, KeylessIsUnpublished DEF KnowsKey
  <2> QED BY <2>1, <2>2 DEF KnowsKey
<1>5. CASE TruncateKey(p) \/ WriteKey(p)
  <2>1. /\ at[p] \in {"truncate", "write"} /\ key'[p] = key[p] /\ nodeClaims' = nodeClaims
        /\ \/ at'[p] = "write" /\ keyfile' = "empty"
           \/ at'[p] = "ship" /\ keyfile' = p
    BY <1>5, TruncateKeyMoves, WriteKeyMoves DEF node, local
  <2>2. keyfile = "empty" /\ key[p] = p /\ nodeClaims = {}
    BY <1>0, <2>1, KeylessIsUnpublished DEF KnowsKey
  <2> QED BY <2>1, <2>2 DEF KnowsKey
<1>6. CASE \/ ListOutbox(p) \/ ListLedger(p)
           \/ \E b \in Blob : ShipBlob(p, b)
           \/ \E f \in Fact : LoadClaim(p, f)
  <2>1. /\ at[p] \in {"ship", "shipping", "loading"} /\ at'[p] \in {"shipping", "loading"}
        /\ key'[p] = key[p] /\ keyfile' = keyfile /\ nodeClaims' = nodeClaims
    BY <1>6, ListOutboxMoves, ListLedgerMoves, ShipBlobMoves, LoadClaimMoves DEF files, node
  <2> QED BY <1>0, <2>1 DEF KnowsKey
<1>7. CASE Publish(p)
  <2>1. /\ at[p] = "loading" /\ at'[p] \in {"done", "failed"} /\ keyfile' = keyfile
        /\ nodeClaims' = nodeClaims \cup Claims(p)
    BY <1>7, PublishMoves DEF files, PainterEnds
  <2>2. key[p] = keyfile
    BY <1>0, <2>1 DEF KnowsKey
  <2>3. \A claim \in Claims(p) : claim[3] = keyfile
    BY <2>2 DEF Claims
  <2> QED BY <1>0, <2>1, <2>3 DEF KnowsKey
<1> QED BY <1>1, <1>2, <1>3, <1>4, <1>5, <1>6, <1>7, PainterDoes

LEMMA SignerStep ==
  ASSUME TypeOK, SignerInv, [Next]_vars, alone'
  PROVE  /\ \A p, q \in Painter : Busy(p)' /\ Busy(q)' => p = q
         /\ \A p \in Painter : KnowsKey(p)'
         /\ \A claim \in nodeClaims' : claim[3] = keyfile'
<1>1. ASSUME NEW c \in Caller, CallerStep(c) \/ Kill(c)
      PROVE  /\ \A p, q \in Painter : Busy(p)' /\ Busy(q)' => p = q
             /\ \A p \in Painter : KnowsKey(p)'
             /\ \A claim \in nodeClaims' : claim[3] = keyfile'
  <2>1. /\ \A p \in Painter : at'[p] = at[p] /\ key'[p] = key[p]
        /\ keyfile' = keyfile /\ nodeClaims' = nodeClaims /\ alone
    BY <1>1, CallerAside DEF Aside, SamePainter
  <2> QED BY <2>1 DEF SignerInv, KnowsKey, Busy
<1>2. ASSUME NEW p \in Painter, PainterStep(p) \/ Kill(p)
      PROVE  /\ \A q, r \in Painter : Busy(q)' /\ Busy(r)' => q = r
             /\ \A q \in Painter : KnowsKey(q)'
             /\ \A claim \in nodeClaims' : claim[3] = keyfile'
  <2>1. \A q \in Painter \ {p} : at'[q] = at[q] /\ key'[q] = key[q]
    BY <1>2, PainterApart DEF Apart, SamePainter
  <2>2. alone /\ \A q \in Painter \ {p} : ~Busy(q)
    <3>1. CASE Paint(p)
      <4>1. alone' = (alone /\ \A q \in Painter \ {p} : ~Busy(q))
        BY <3>1, PaintMoves
      <4> QED BY <4>1, Zenon
    <3>2. CASE ~Paint(p)
      <4>1. alone
        BY <1>2, <3>2, PainterDoes, PaintFailsMoves, KillPainterMoves, LoadKeyMoves,
           GenerateKeyMoves, TouchKeyMoves, TruncateKeyMoves, WriteKeyMoves, ListOutboxMoves,
           ShipBlobMoves, ListLedgerMoves, LoadClaimMoves, PublishMoves DEF history
      <4>2. Busy(p)
        BY <1>2, <3>2
        DEF PainterStep, Kill, EmptyKey, LoadKey, GenerateKey, TouchKey, TruncateKey, WriteKey,
            ListOutbox, ShipBlob, ShipMismatch, ListLedger, LoadClaim, LoadFails, Publish,
            Unreachable, Busy, Ended
      <4> QED BY <4>1, <4>2 DEF SignerInv
    <3> QED BY <3>1, <3>2
  <2>3. \A q \in Painter \ {p} : ~Busy(q)'
    BY <2>1, <2>2 DEF Busy
  <2>4. \A q \in Painter \ {p} : KnowsKey(q)'
    BY <2>3 DEF KnowsKey, Busy, Ended
  <2>5. KnowsKey(p)' /\ \A claim \in nodeClaims' : claim[3] = keyfile'
    BY <1>2, <2>2, SignerMoves
  <2> QED BY <2>3, <2>4, <2>5
<1>3. CASE UNCHANGED vars
  BY <1>3 DEF vars, SignerInv, KnowsKey, Busy
<1> QED BY <1>1, <1>2, <1>3, Steps

-----------------------------------------------------------------------------
(* Theorems *)

LEMMA InitHolds == Init => IInv
<1> SUFFICES ASSUME Init PROVE IInv
  OBVIOUS
<1> USE DEF Init
<1>1. TypeOK
  BY PaintAssumption DEF TypeOK, Process, Ended
<1>2. StageInv
  BY Distinct DEF StageInv, CallerAt, PainterAt, Keyed, Process
<1>3. OpenInv
  BY DEF OpenInv
<1>4. BackedInv
  BY Distinct DEF BackedInv, Witnesses, Process
<1>5. MintedInv
  BY DEF MintedInv, NothingMintedByPainting
<1>6. LostInv
  BY DEF LostInv
<1>7. QuietInv
  BY Distinct DEF QuietInv, Quiet, Busy, Ended, Process
<1>8. SignerInv
  BY Distinct DEF SignerInv, KnowsKey, Busy, Ended, Process
<1> QED BY <1>1, <1>2, <1>3, <1>4, <1>5, <1>6, <1>7, <1>8 DEF IInv

LEMMA StepHolds == IInv /\ [Next]_vars => IInv'
<1> SUFFICES ASSUME IInv, [Next]_vars PROVE IInv'
  OBVIOUS
<1> USE DEF IInv
<1>1. TypeOK' /\ StageInv'
  BY TypeStep, StageStep
<1>2. OpenInv'
  BY OpenStep
<1>3. BackedInv' /\ MintedInv'
  BY BackedStep, MintedStep
<1>4. LostInv' /\ QuietInv'
  BY LostStep, QuietStep
<1>5. SignerInv'
  BY SignerStep DEF SignerInv
<1> QED BY <1>1, <1>2, <1>3, <1>4, <1>5

\* All of it always holds, for every number of calls, paints and kills.
THEOREM Invariance == Spec => []IInv
<1>1. Init => IInv
  BY InitHolds
<1>2. IInv /\ [Next]_vars => IInv'
  BY StepHolds
<1> QED BY <1>1, <1>2, PTL DEF Spec

\* Types of the files, the node and the processes.
THEOREM TypeCorrect == Spec => []TypeOK
<1>1. IInv => TypeOK
  BY DEF IInv
<1> QED BY <1>1, Invariance, PTL

\* stash_blob before save_brushstrokes: a claim in the ledger has its blobs in
\* the outbox, whole unless a call still writes them or a call was killed.
THEOREM LedgerBacked == Spec => []LedgerIsBacked
<1>1. IInv => LedgerIsBacked
  <2> SUFFICES ASSUME IInv, NEW f \in Fact, ledger[f] # 0, NEW b \in BlobsOf[f]
               PROVE  \/ outbox[b] = "whole"
                      \/ outbox[b] = "torn" /\ crashes > 0
                      \/ \E c \in Caller : at[c] = "write" /\ open[c] = b
    BY DEF LedgerIsBacked
  <2>1. b \in Blob /\ outbox[b] \in {"torn", "whole"}
    BY DEF IInv, BackedInv, Backed, Present, TypeOK
  <2>2. crashes = 0 \/ crashes > 0
    BY PaintAssumption DEF IInv, TypeOK
  <2> QED BY <2>1, <2>2 DEF IInv, OpenInv
<1> QED BY <1>1, Invariance, PTL

\* ship_blobs before publish_strokes: a paint that no call overlaps leaves on its
\* node all that its claims refer to, before it publishes them, but for an argument
\* that a call fetched from another node and that is not in the outbox; it publishes
\* nothing that no call minted, and no claim of a file that was cut short.
THEOREM PaintsExactly == Spec => []PaintIsExact
<1>1. IInv => PaintIsExact
  <2> SUFFICES ASSUME IInv PROVE PaintIsExact
    OBVIOUS
  <2> USE DEF IInv
  <2>1. ASSUME NEW p \in Painter, at[p] = "done", ~overlap[p]
        PROVE  Exact(p)
    BY <2>1 DEF QuietInv, Quiet
  <2>2. ASSUME NEW p \in Painter, at[p] = "loading", ~overlap[p], NEW f \in Fact,
               batch[p][f] # 0
        PROVE  /\ BlobsOf[f] \subseteq OnNode(p)
               /\ \A b \in ArgsOf[f] : b \in OnNode(p) \/ (b \in Abroad(p) /\ outbox[b] = "none")
    <3>1. /\ \A b \in Blob : Shipped(p, b)
          /\ batch[p][f] = ledger[f]
      BY <2>2 DEF QuietInv, Quiet
    <3>2. BlobsOf[f] \subseteq Present /\ ArgsOf[f] \subseteq Present \cup Fetched
      BY <2>2, <3>1 DEF BackedInv, Backed
    <3>3. Present \subseteq OnNode(p)
      BY <3>1 DEF Present, Shipped
    <3>4. ASSUME NEW b \in ArgsOf[f], b \notin OnNode(p)
          PROVE  b \in Abroad(p) /\ outbox[b] = "none"
      <4>1. b \in Fetched /\ b \in Blob
        BY <3>2, <3>3, <3>4 DEF Fetched
      <4> QED BY <3>1, <3>4, <4>1, FetchedFrom DEF Shipped
    <3> QED BY <3>2, <3>3, <3>4
  <2>3. ASSUME NEW p \in Painter, at[p] \in {"loading", "done"}, ~overlap[p], NEW f \in Fact,
               batch[p][f] # 0
        PROVE  /\ \A b \in BlobsOf[f] : b \in OnNode(p)
               /\ \A b \in ArgsOf[f] : b \in OnNode(p) \/ FromElsewhere(p, b)
    <3>1. CASE at[p] = "loading"
      BY <2>2, <2>3, <3>1 DEF Abroad, FromElsewhere
    <3>2. CASE at[p] = "done"
      BY <2>1, <2>3, <3>2 DEF Exact, Abroad, FromElsewhere
    <3> QED BY <2>3, <3>1, <3>2
  <2>4. QuietPaintIsComplete
    BY <2>3 DEF QuietPaintIsComplete, OnNode
  <2>5. FalseClaimsStayHome
    BY <2>1 DEF FalseClaimsStayHome, Exact
  <2> QED BY <2>4, <2>5 DEF PaintIsExact, MintedInv
<1> QED BY <1>1, Invariance, PTL

\* peer_key: paints that come one at a time all sign with the key in the file.
THEOREM OneSigner == Spec => []SignerIsKept
<1>1. IInv => SignerIsKept
  BY DEF IInv, SignerInv, SignerIsKept
<1> QED BY <1>1, Invariance, PTL

=============================================================================
