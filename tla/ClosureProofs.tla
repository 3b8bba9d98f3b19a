---------------------------- MODULE ClosureProofs ----------------------------
(* Theorems of the two walks over a closure that put leaves first: DepDag, for every  *)
(* closure of any size; and Transport, for every reference graph and every number of  *)
(* importers and of exported closures.                                                *)
EXTENDS DepDag, Transport, FiniteSetTheorems, TLAPS

-----------------------------------------------------------------------------
(* DepDag *)

\* The walk has processed a set closed under references, free of
\* self-references, and has queued exactly what that set makes ready.
WalkInv ==
  /\ \A p \in processed : edges[p] \subseteq processed /\ p \notin edges[p]
  /\ QueueReady
  /\ \A p \in StorePath \ processed :
       edges[p] \subseteq processed => p \in Elements(to_process)

\* What was yielded, and what the consumer made of it.
YieldInv ==
  /\ Yields = processed \cup (IF running THEN {} ELSE {root})
  /\ \A p \in processed : deps_by_id[p] = edges[p]
  /\ YieldsLeavesFirst
  /\ root \in processed => yielded # <<>> /\ yielded[Len(yielded)] = root
  /\ RootLast
  /\ ~running => to_process = <<>>

WalkIInv == WalkTypeOK /\ edges \in Closures /\ WalkInv /\ YieldInv

-----------------------------------------------------------------------------
(* Lemmas *)

\* An order of a finite set lists it, each element once.
LEMMA OrderFacts ==
  ASSUME NEW S \in SUBSET StorePath, NEW s \in Orders(S)
  PROVE  /\ s \in Seq(StorePath)
         /\ Elements(s) = S
         /\ \A i, j \in 1..Len(s) : s[i] = s[j] => i = j
         /\ Len(s) \in Nat
<1>1. IsFiniteSet(S)
  BY DepDagAssumption, FS_Subset
<1>2. Cardinality(S) \in Nat
  BY <1>1, FS_CardinalityType
<1>3. s \in [1..Cardinality(S) -> S]
  BY DEF Orders
<1>4. s \in Seq(S) /\ Len(s) = Cardinality(S)
  BY <1>2, <1>3
<1>5. s \in Seq(StorePath)
  BY <1>2, <1>3
<1> QED BY <1>2, <1>3, <1>4, <1>5 DEF Orders, Elements

\* A set of paths closed under references that holds the root is everything.
LEMMA RootMeansAll ==
  ASSUME edges \in Closures, NEW S \in SUBSET StorePath, root \in S,
         \A p \in S : edges[p] \subseteq S
  PROVE  S = StorePath
BY DEF Closures, ReachedFromRoot

-----------------------------------------------------------------------------
(* The invariant is inductive *)

\* Initially the deque holds the leaves, which is what the empty set makes ready.
LEMMA WalkInitInv == WalkInit => WalkIInv
<1> SUFFICES ASSUME WalkInit PROVE WalkIInv
  OBVIOUS
<1>1. /\ to_process \in Seq(StorePath)
      /\ Elements(to_process) = Leaves
      /\ \A i, j \in 1..Len(to_process) : to_process[i] = to_process[j] => i = j
  BY OrderFacts DEF WalkInit, Leaves
<1>2. edges \in [StorePath -> SUBSET StorePath]
  BY DEF WalkInit, Closures
<1>3. WalkTypeOK
  BY <1>1, <1>2 DEF WalkInit, WalkTypeOK, Yields
<1>4. QueueReady
  BY <1>1 DEF WalkInit, QueueReady, Elements, Leaves
<1>5. WalkInv
  BY <1>1, <1>4 DEF WalkInit, WalkInv, Leaves
<1>6. YieldInv
  BY DEF WalkInit, YieldInv, Yields, YieldsLeavesFirst, RootLast
<1> QED BY <1>3, <1>5, <1>6 DEF WalkInit, WalkIInv

\* A turn of the loop always builds the path it pops: neither continue of the
\* code is ever taken.
LEMMA TurnBuilds ==
  ASSUME WalkIInv, Turn
  PROVE  LET p == Head(to_process) IN
         /\ p \in StorePath \ processed
         /\ edges[p] \subseteq processed
         /\ processed' = processed \cup {p}
         /\ yielded' = Append(yielded, p)
         /\ Register(p, edges[p])
         /\ \E s \in Orders(ReadyParents(p, processed')) :
              to_process' = Tail(to_process) \o s
<1> DEFINE p == Head(to_process)
<1>1. to_process \in Seq(StorePath) /\ to_process # <<>>
  BY DEF WalkIInv, WalkTypeOK, Turn
<1>2. p = to_process[1] /\ 1 \in 1..Len(to_process) /\ p \in StorePath
  BY <1>1
<1>3. p \notin processed /\ edges[p] \subseteq processed
  BY <1>2 DEF WalkIInv, WalkInv, QueueReady
<1>4. edges[p] \cap processed = edges[p]
  BY <1>3
<1> QED BY <1>2, <1>3, <1>4 DEF Turn, AllProcessed

\* A turn keeps what is known of the deque.
LEMMA TurnWalk ==
  ASSUME WalkIInv, Turn
  PROVE  WalkInv' /\ to_process' \in Seq(StorePath) /\ processed' \in SUBSET StorePath
<1> DEFINE p == Head(to_process)
           t == Tail(to_process)
           R == ReadyParents(p, processed')
<1>1. /\ p \in StorePath \ processed
      /\ edges[p] \subseteq processed
      /\ processed' = processed \cup {p}
      /\ edges' = edges
  BY TurnBuilds DEF Turn
<1>2. PICK s \in Orders(R) : to_process' = t \o s
  BY TurnBuilds
<1>3. /\ to_process \in Seq(StorePath) /\ to_process # <<>>
      /\ processed \in SUBSET StorePath
      /\ edges \in [StorePath -> SUBSET StorePath]
  BY DEF WalkIInv, WalkTypeOK, Turn
<1>4. \A q \in processed : edges[q] \subseteq processed /\ q \notin edges[q]
  BY DEF WalkIInv, WalkInv
<1>5. \A q \in R : /\ q \in StorePath \ processed'
                   /\ edges[q] \subseteq processed'
                   /\ q \notin Elements(to_process)
  <2> SUFFICES ASSUME NEW q \in R
               PROVE  /\ q \in StorePath \ processed'
                      /\ edges[q] \subseteq processed'
                      /\ q \notin Elements(to_process)
    OBVIOUS
  <2>1. q \in StorePath /\ p \in edges[q] /\ edges[q] \subseteq processed'
    BY DEF ReadyParents, AllProcessed
  <2>2. q \notin processed'
    BY <2>1, <1>1, <1>4
  <2>3. \A x \in Elements(to_process) : edges[x] \subseteq processed
    BY DEF WalkIInv, WalkInv, QueueReady, Elements
  <2> QED BY <2>1, <2>2, <2>3, <1>1
<1>6. R \in SUBSET StorePath
  BY DEF ReadyParents, AllProcessed
<1>7. /\ s \in Seq(StorePath) /\ Len(s) \in Nat
      /\ Elements(s) = R
      /\ \A i, j \in 1..Len(s) : s[i] = s[j] => i = j
  <2> HIDE DEF R
  <2> QED BY <1>2, <1>6, OrderFacts
<1> DEFINE n == Len(to_process) - 1
           u == t \o s
<1> HIDE DEF R
<1>8. /\ u \in Seq(StorePath)
      /\ n \in Nat
      /\ Len(t) = n
      /\ Len(u) = n + Len(s)
      /\ Len(u) \in Nat
      /\ \A k \in 1..Len(u) : u[k] \in Elements(u)
      /\ \A i \in 1..n : u[i] = to_process[i + 1] /\ i + 1 \in 1..Len(to_process)
      /\ \A i \in (n + 1)..Len(u) : u[i] = s[i - n] /\ i - n \in 1..Len(s)
      /\ p = to_process[1] /\ 1 \in 1..Len(to_process)
  <2>1. t \in Seq(StorePath) /\ Len(t) = n /\ n \in Nat
    BY <1>3
  <2>2. \A i \in 1..n : t[i] = to_process[i + 1]
    BY <1>3
  <2>3. u \in Seq(StorePath) /\ Len(u) = n + Len(s) /\ Len(u) \in Nat
    BY <2>1, <1>7
  <2>4. \A k \in 1..Len(u) : u[k] \in Elements(u)
    BY DEF Elements
  <2>5. \A i \in 1..n : u[i] = to_process[i + 1] /\ i + 1 \in 1..Len(to_process)
    BY <2>1, <2>2, <1>3, <1>7
  <2>6. \A i \in (n + 1)..Len(u) : u[i] = s[i - n] /\ i - n \in 1..Len(s)
    <3> SUFFICES ASSUME NEW i \in (n + 1)..Len(u)
                 PROVE  u[i] = s[i - n] /\ i - n \in 1..Len(s)
      OBVIOUS
    <3> HIDE DEF t, n
    <3> QED BY <2>1, <2>3, <1>7
  <2>7. p = to_process[1] /\ 1 \in 1..Len(to_process)
    BY <1>3
  <2> QED BY <2>1, <2>3, <2>4, <2>5, <2>6, <2>7
<1> DEFINE m == Len(to_process)
<1>8a. m = n + 1
  BY <1>3
<1> HIDE DEF p, t, n, u
<1>9. /\ \A i \in 1..Len(to_process) : edges[to_process[i]] \subseteq processed
                                      /\ to_process[i] \notin processed
      /\ \A i, j \in 1..Len(to_process) : to_process[i] = to_process[j] => i = j
  BY DEF WalkIInv, WalkInv, QueueReady
<1>10. \A i \in 1..n : u[i] \in Elements(to_process) /\ u[i] # p
  <2> SUFFICES ASSUME NEW i \in 1..n
               PROVE  u[i] \in Elements(to_process) /\ u[i] # p
    OBVIOUS
  <2>1. u[i] = to_process[i + 1] /\ i + 1 \in 1..m /\ i + 1 # 1
    BY <1>8
  <2>2. to_process[i + 1] # to_process[1]
    BY <2>1, <1>8, <1>9
  <2> QED BY <2>1, <2>2, <1>8 DEF Elements
<1>11. \A i \in (n + 1)..Len(u) : u[i] \in R
  BY <1>7, <1>8 DEF Elements
<1>12. QueueReady'
  <2> SUFFICES ASSUME NEW i \in 1..Len(u)
               PROVE  /\ edges[u[i]] \subseteq processed'
                      /\ u[i] \notin processed'
                      /\ \A j \in 1..Len(u) : u[i] = u[j] => i = j
    BY <1>1, <1>2 DEF QueueReady, u
  <2>1. CASE i \in 1..n
    <3>1. edges[u[i]] \subseteq processed' /\ u[i] \notin processed'
      BY <2>1, <1>1, <1>8, <1>9, <1>10
    <3>2. ASSUME NEW j \in 1..Len(u), u[i] = u[j]
          PROVE  i = j
      <4>1. j \in 1..n
        BY <3>2, <2>1, <1>5, <1>8, <1>10, <1>11
      <4> QED BY <4>1, <3>2, <2>1, <1>8, <1>9
    <3> QED BY <3>1, <3>2
  <2>2. CASE i \notin 1..n
    <3>1. u[i] \in R /\ i \in (n + 1)..Len(u)
      BY <2>2, <1>8, <1>11
    <3>2. ASSUME NEW j \in 1..Len(u), u[i] = u[j]
          PROVE  i = j
      <4>1. j \in (n + 1)..Len(u)
        BY <3>1, <3>2, <1>5, <1>8, <1>10
      <4>2. i - n = j - n
        BY <4>1, <3>1, <3>2, <1>7, <1>8
      <4> QED BY <4>2, <1>8
    <3> QED BY <3>1, <3>2, <1>5
  <2> QED BY <2>1, <2>2
<1>13. ASSUME NEW q \in StorePath \ processed', edges[q] \subseteq processed'
       PROVE  q \in Elements(u)
  <2>1. CASE p \in edges[q]
    <3>1. q \in Elements(s)
      BY <2>1, <1>7, <1>13 DEF R, ReadyParents, AllProcessed
    <3>2. PICK i \in 1..Len(s) : s[i] = q
      BY <3>1 DEF Elements
    <3>3. i + n \in (n + 1)..Len(u) /\ u[i + n] = q
      <4>1. i + n \in (n + 1)..Len(u) /\ (i + n) - n = i
        BY <3>2, <1>7, <1>8
      <4>2. u[i + n] = s[(i + n) - n]
        BY <4>1, <1>8
      <4> QED BY <4>1, <4>2, <3>2
    <3>4. i + n \in 1..Len(u)
      BY <3>3, <1>8
    <3> QED BY <3>3, <3>4, <1>8
  <2>2. CASE p \notin edges[q]
    <3>1. q \in Elements(to_process)
      BY <2>2, <1>1, <1>13 DEF WalkIInv, WalkInv
    <3>2. PICK i \in 1..Len(to_process) : to_process[i] = q
      BY <3>1 DEF Elements
    <3>3. i # 1
      BY <3>2, <1>1, <1>8, <1>13
    <3>4. i - 1 \in 1..n /\ u[i - 1] = q
      <4>1. i - 1 \in 1..n /\ (i - 1) + 1 = i
        BY <3>2, <3>3, <1>8, <1>8a DEF m
      <4>2. u[i - 1] = to_process[(i - 1) + 1]
        BY <4>1, <1>8
      <4> QED BY <4>1, <4>2, <3>2
    <3>5. i - 1 \in 1..Len(u)
      BY <3>4, <1>7, <1>8
    <3> QED BY <3>4, <3>5, <1>8
  <2> QED BY <2>1, <2>2
<1>14. \A q \in processed' : edges[q] \subseteq processed' /\ q \notin edges[q]
  BY <1>1, <1>4
<1>15. to_process' = u
  BY <1>2 DEF u
<1>16. WalkInv'
  BY <1>1, <1>12, <1>13, <1>14, <1>15 DEF WalkInv, Elements
<1> QED BY <1>1, <1>3, <1>8, <1>15, <1>16

\* A turn keeps what is known of the trees; when it builds the root it has
\* built everything.
LEMMA TurnYield ==
  ASSUME WalkIInv, Turn
  PROVE  YieldInv' /\ WalkTypeOK'
<1> DEFINE p == Head(to_process)
           n == Len(yielded)
<1>1. /\ p \in StorePath \ processed
      /\ edges[p] \subseteq processed
      /\ processed' = processed \cup {p}
      /\ yielded' = Append(yielded, p)
      /\ Register(p, edges[p])
      /\ edges' = edges /\ running' = running /\ running
  BY TurnBuilds DEF Turn
<1> HIDE DEF p
<1>2. /\ yielded \in Seq(StorePath)
      /\ processed \in SUBSET StorePath
      /\ edges \in [StorePath -> SUBSET StorePath]
      /\ Yields = processed
      /\ DOMAIN deps_by_id = processed
      /\ \A q \in processed : deps_by_id[q] = edges[q]
      /\ YieldsLeavesFirst
  <2>1. Yields = processed
    BY <1>1 DEF WalkIInv, YieldInv
  <2> QED BY <2>1 DEF WalkIInv, WalkTypeOK, YieldInv
<1>3. /\ yielded' \in Seq(StorePath)
      /\ n \in Nat
      /\ Len(yielded') = n + 1
      /\ yielded'[n + 1] = p
      /\ \A i \in 1..n : yielded'[i] = yielded[i] /\ yielded[i] \in processed
  BY <1>1, <1>2 DEF Yields
<1>4. /\ DOMAIN deps_by_id' = processed'
      /\ \A q \in processed' : deps_by_id'[q] = edges[q]
  BY <1>1, <1>2 DEF Register
<1>5. Yields' = processed'
  BY <1>1, <1>2, <1>3 DEF Yields
<1>6. YieldsLeavesFirst'
  <2>1. \A i \in 1..(n + 1) : Before(i)' = Before(i)
    BY <1>3 DEF Before
  <2>2. Before(n + 1) = processed
    BY <1>2, <1>3 DEF Before, Yields
  <2>3. ASSUME NEW i \in 1..(n + 1)
        PROVE  /\ yielded'[i] \notin Before(i)
               /\ edges[yielded'[i]] \subseteq Before(i)
    <3>1. CASE i = n + 1
      BY <3>1, <2>2, <1>1, <1>3
    <3>2. CASE i \in 1..n
      BY <3>2, <1>2, <1>3 DEF YieldsLeavesFirst
    <3> QED BY <3>1, <3>2, <1>3
  <2>4. \A i \in 1..(n + 1) : yielded'[i] \in processed'
    BY <1>1, <1>3
  <2> QED BY <2>1, <2>3, <2>4, <1>1, <1>3, <1>4 DEF YieldsLeavesFirst
<1>7. root \in processed' =>
        yielded' # <<>> /\ yielded'[Len(yielded')] = root
  <2>1. CASE root \in processed
    <3>1. processed = StorePath
      BY <2>1, <1>2, RootMeansAll DEF WalkIInv, WalkInv
    <3> QED BY <3>1, <1>1
  <2>2. CASE root = p
    BY <2>2, <1>3
  <2> QED BY <2>1, <2>2, <1>1
<1>8. WalkTypeOK'
  BY <1>1, <1>2, <1>3, <1>4, <1>5, TurnWalk DEF WalkTypeOK, WalkIInv
<1>9. RootLast'
  BY <1>1 DEF RootLast
<1> QED BY <1>1, <1>4, <1>5, <1>6, <1>7, <1>8, <1>9 DEF YieldInv

\* The fallback yields the root, at the end, if the loop did not.
LEMMA FallbackStep ==
  ASSUME WalkIInv, Fallback
  PROVE  WalkIInv'
<1> DEFINE n == Len(yielded)
<1>1. /\ yielded \in Seq(StorePath) /\ n \in Nat
      /\ processed \in SUBSET StorePath
      /\ Yields = processed
      /\ DOMAIN deps_by_id = processed
      /\ \A q \in processed : deps_by_id[q] = edges[q]
      /\ YieldsLeavesFirst
  <2>1. Yields = processed
    BY DEF WalkIInv, YieldInv, Fallback
  <2> QED BY <2>1 DEF WalkIInv, WalkTypeOK, YieldInv
<1>2. /\ UNCHANGED <<edges, to_process, processed>>
      /\ ~running' /\ to_process = <<>>
  BY DEF Fallback
<1>3. WalkInv'
  BY <1>2 DEF WalkIInv, WalkInv, QueueReady, Elements
<1>4. CASE root \in processed
  <2>1. UNCHANGED <<yielded, deps_by_id>>
    BY <1>4 DEF Fallback
  <2>2. Yields' = Yields /\ \A i : Before(i)' = Before(i)
    BY <2>1 DEF Yields, Before
  <2>3. YieldsLeavesFirst'
    BY <2>1, <2>2, <1>1, <1>2 DEF YieldsLeavesFirst
  <2>5. WalkTypeOK'
    BY <2>1, <2>2, <1>1, <1>2 DEF WalkIInv, WalkTypeOK, Fallback
  <2>4. RootLast'
    BY <2>1, <1>4 DEF RootLast, WalkIInv, YieldInv
  <2> QED BY <2>1, <2>2, <2>3, <2>4, <2>5, <1>1, <1>2, <1>3, <1>4
          DEF WalkIInv, YieldInv
<1>5. CASE root \notin processed
  <2>1. /\ yielded' = Append(yielded, root)
        /\ Register(root, edges[root] \cap processed)
    BY <1>5 DEF Fallback
  <2>2. /\ yielded' \in Seq(StorePath)
        /\ Len(yielded') = n + 1
        /\ yielded'[n + 1] = root
        /\ \A i \in 1..n : yielded'[i] = yielded[i] /\ yielded[i] \in processed
    BY <2>1, <1>1, DepDagAssumption DEF Yields
  <2>3. /\ DOMAIN deps_by_id' = processed \cup {root}
        /\ \A q \in processed : deps_by_id'[q] = edges[q]
        /\ deps_by_id'[root] = edges[root] \cap processed
    BY <2>1, <1>1, <1>5 DEF Register
  <2>4. Yields' = processed \cup {root}
    BY <2>2, <1>1 DEF Yields
  <2>5. YieldsLeavesFirst'
    <3>1. \A i \in 1..(n + 1) : Before(i)' = Before(i)
      BY <2>2, <1>1 DEF Before
    <3>2. Before(n + 1) = processed
      BY <1>1 DEF Before, Yields
    <3>3. ASSUME NEW i \in 1..(n + 1)
          PROVE  /\ yielded'[i] \notin Before(i)
                 /\ yielded'[i] # root => edges[yielded'[i]] \subseteq Before(i)
                 /\ deps_by_id'[yielded'[i]] \subseteq Before(i)
      <4>1. CASE i = n + 1
        BY <4>1, <3>2, <2>2, <2>3, <1>5
      <4>2. CASE i \in 1..n
        BY <4>2, <2>2, <2>3, <1>1, <1>5 DEF YieldsLeavesFirst
      <4> QED BY <4>1, <4>2, <1>1
    <3> QED BY <3>1, <3>3, <2>2, <1>2 DEF YieldsLeavesFirst
  <2>6. WalkTypeOK'
    BY <2>2, <2>3, <2>4, <1>1, <1>2, DepDagAssumption
    DEF WalkIInv, WalkTypeOK, Fallback
  <2>7. RootLast'
    BY <2>2, <1>1 DEF RootLast
  <2> QED BY <2>2, <2>3, <2>4, <2>5, <2>6, <2>7, <1>1, <1>2, <1>3, <1>5
          DEF WalkIInv, YieldInv
<1> QED BY <1>4, <1>5

\* The invariant holds throughout the walk.
THEOREM WalkInvariance == WalkSpec => []WalkIInv
<1>1. WalkIInv /\ [WalkNext]_walkVars => WalkIInv'
  <2> SUFFICES ASSUME WalkIInv, [WalkNext]_walkVars PROVE WalkIInv'
    OBVIOUS
  <2>1. CASE Turn
    BY <2>1, TurnWalk, TurnYield DEF WalkIInv, Turn
  <2>2. CASE Fallback
    BY <2>2, FallbackStep
  <2>3. CASE UNCHANGED walkVars
    <3> USE <2>3 DEF walkVars
    <3>1. WalkTypeOK' /\ edges' \in Closures
      BY DEF WalkIInv, WalkTypeOK, Yields
    <3>2. WalkInv'
      BY DEF WalkIInv, WalkInv, QueueReady, Elements
    <3>3. YieldsLeavesFirst' /\ RootLast'
      <4>1. YieldsLeavesFirst'
        <5>1. \A i : Before(i)' = Before(i)
          BY DEF Before
        <5> QED BY <5>1 DEF WalkIInv, YieldInv, YieldsLeavesFirst
      <4>2. RootLast'
        BY DEF WalkIInv, YieldInv, RootLast
      <4> QED BY <4>1, <4>2
    <3>4. YieldInv'
      BY <3>3 DEF WalkIInv, YieldInv, Yields, Elements
    <3> QED BY <3>1, <3>2, <3>4 DEF WalkIInv
  <2> QED BY <2>1, <2>2, <2>3 DEF WalkNext
<1> QED BY <1>1, WalkInitInv, PTL DEF WalkSpec

-----------------------------------------------------------------------------
(* Theorems *)

\* Every variable keeps its type, for every closure and iteration order.
THEOREM WalkTypeCorrect == WalkSpec => []WalkTypeOK
<1>1. WalkIInv => WalkTypeOK
  BY DEF WalkIInv
<1> QED BY <1>1, WalkInvariance, PTL

\* Both early continues of the loop are dead and the deque never spins.
THEOREM DequeReady == WalkSpec => []QueueReady
<1>1. WalkIInv => QueueReady
  BY DEF WalkIInv, WalkInv
<1> QED BY <1>1, WalkInvariance, PTL

\* Leaves first, no path twice, and no lookup of the consumer misses.
THEOREM LeavesComeFirst == WalkSpec => []YieldsLeavesFirst
<1>1. WalkIInv => YieldsLeavesFirst
  BY DEF WalkIInv, YieldInv
<1> QED BY <1>1, WalkInvariance, PTL

\* The last tree build_or_get sees is the root's.
THEOREM RootComesLast == WalkSpec => []RootLast
<1>1. WalkIInv => RootLast
  BY DEF WalkIInv, YieldInv
<1> QED BY <1>1, WalkInvariance, PTL

\* The consumer's loop is right about both.
THEOREM OrderKept == WalkSpec => []YieldOrder
<1>1. YieldsLeavesFirst /\ RootLast => YieldOrder
  BY DEF YieldOrder
<1> QED BY <1>1, LeavesComeFirst, RootComesLast, PTL

\* When the deque is dry the unprocessed paths are exactly the stuck ones.
LEMMA DryDeque ==
  ASSUME WalkIInv, to_process = <<>>
  PROVE  processed = StorePath \ Stuck
<1>0. processed \in SUBSET StorePath /\ edges \in [StorePath -> SUBSET StorePath]
  BY DEF WalkIInv, WalkTypeOK
<1>1. \A p \in processed : edges[p] \subseteq processed /\ p \notin edges[p]
  BY DEF WalkIInv, WalkInv
<1>2. ASSUME NEW p \in processed
      PROVE  p \notin Stuck
  <2> SUFFICES ASSUME p \in Stuck PROVE FALSE
    OBVIOUS
  <2>1. PICK q \in StorePath :
          /\ q \in edges[q]
          /\ \A S \in SUBSET StorePath :
               (p \in S /\ \A r \in S : edges[r] \subseteq S) => q \in S
    BY DEF Stuck
  <2>2. q \in processed
    BY <2>1, <1>0, <1>1
  <2> QED BY <2>1, <2>2, <1>1
<1>3. ASSUME NEW p \in StorePath \ processed
      PROVE  p \in Stuck
  <2> DEFINE Below == {q \in StorePath : \A S \in SUBSET StorePath :
                (p \in S /\ \A r \in S : edges[r] \subseteq S) => q \in S}
             U == Below \ processed
  <2>1. p \in U
    BY <1>3
  <2>2. \A r \in Below : edges[r] \subseteq Below
    BY <1>0
  <2>3. PICK q \in U : (edges[q] \ {q}) \cap U = {}
    <3>1. AcyclicClosure(edges)
      BY DEF WalkIInv, Closures
    <3> HIDE DEF Below
    <3>2. U \in SUBSET StorePath
      BY DEF Below
    <3> QED BY <2>1, <3>1, <3>2 DEF AcyclicClosure
  <2> HIDE DEF Below
  <2>4. edges[q] \ {q} \subseteq processed
    BY <2>2, <2>3
  <2>5. q \in StorePath \ processed
    BY <2>3 DEF Below
  <2>6. ~ edges[q] \subseteq processed
    BY <2>5 DEF WalkIInv, WalkInv, Elements
  <2>7. q \in edges[q]
    BY <2>4, <2>6
  <2> QED BY <2>3, <2>5, <2>7 DEF Stuck, Below
<1> QED BY <1>0, <1>2, <1>3

\* What the walk leaves out is exactly what is at or above a self-reference,
\* the root excepted.
THEOREM OmitsStuck == WalkSpec => []OmitsExactlyStuck
<1>1. WalkIInv => OmitsExactlyStuck
  BY DryDeque DEF WalkIInv, YieldInv, OmitsExactlyStuck
<1> QED BY <1>1, WalkInvariance, PTL

\* Without self-references the walk yields the whole closure.
THEOREM Complete == WalkSpec => []CompleteWithoutSelfReference
<1>1. WalkIInv => CompleteWithoutSelfReference
  <2> SUFFICES ASSUME WalkIInv, ~running, \A p \in StorePath : p \notin edges[p]
               PROVE  /\ Yields = StorePath
                      /\ \A p \in StorePath : deps_by_id[p] = edges[p]
    BY DEF CompleteWithoutSelfReference
  <2>1. Stuck = {}
    BY DEF Stuck
  <2>2. processed = StorePath
    BY <2>1, DryDeque DEF WalkIInv, YieldInv
  <2> QED BY <2>2, DepDagAssumption DEF WalkIInv, YieldInv
<1> QED BY <1>1, WalkInvariance, PTL

-----------------------------------------------------------------------------
(* The walk implements Toposort *)

\* A turn emits the path it pops.
LEMMA TurnEmits ==
  ASSUME WalkIInv, Turn
  PROVE  Promise!Emit(Head(to_process))
<1>1. /\ Head(to_process) \in StorePath \ processed
      /\ edges[Head(to_process)] \subseteq processed
      /\ yielded' = Append(yielded, Head(to_process))
  BY TurnBuilds
<1>2. running /\ UNCHANGED <<edges, running>>
  BY DEF Turn
<1>3. Yields = processed
  BY <1>2 DEF WalkIInv, YieldInv
<1> QED BY <1>1, <1>2, <1>3
        DEF Promise!Emit, Promise!Ready, Promise!Emitted, Yields

\* The fallback finishes: the deque is dry only when nothing is ready.
LEMMA FallbackFinishes ==
  ASSUME WalkIInv, Fallback
  PROVE  Promise!Finish
<1>1. /\ running /\ ~running'
      /\ to_process = <<>>
      /\ edges' = edges
  BY DEF Fallback
<1>2. Yields = processed
  BY <1>1 DEF WalkIInv, YieldInv
<1>3. \A p \in StorePath : ~Promise!Ready(p)
  <2> SUFFICES ASSUME NEW p \in StorePath, p \notin processed, edges[p] \subseteq processed
               PROVE  FALSE
    BY <1>2 DEF Promise!Ready, Promise!Emitted, Yields
  <2> QED BY <1>1 DEF WalkIInv, WalkInv, Elements
<1>4. yielded' = IF root \in Yields THEN yielded ELSE Append(yielded, root)
  BY <1>2 DEF Fallback
<1> QED BY <1>1, <1>3, <1>4 DEF Promise!Finish, Promise!Emitted, Yields

\* The walk, deque and dead branches included, is a topological sort that only
\* gives up when nothing is left to emit: for every closure.
THEOREM ImplementsToposort == WalkSpec => IsToposort
<1>1. WalkInit => Promise!Init
  BY DEF WalkInit, Closures, Promise!Init
<1>2. WalkIInv /\ [WalkNext]_walkVars => [Promise!Next]_Promise!vars
  <2> SUFFICES ASSUME WalkIInv, [WalkNext]_walkVars PROVE [Promise!Next]_Promise!vars
    OBVIOUS
  <2>1. CASE Turn
    <3>1. Head(to_process) \in StorePath
      BY <2>1, TurnBuilds
    <3> QED BY <2>1, <3>1, TurnEmits DEF Promise!Next
  <2>2. CASE Fallback
    BY <2>2, FallbackFinishes DEF Promise!Next
  <2>3. CASE UNCHANGED walkVars
    BY <2>3 DEF walkVars, Promise!vars
  <2> QED BY <2>1, <2>2, <2>3 DEF WalkNext
<1> QED BY <1>1, <1>2, WalkInvariance, PTL DEF WalkSpec, IsToposort, Promise!Spec

-----------------------------------------------------------------------------
(* Transport *)

\* What holds of a list _topo_order has not finished.
PartlyOrdered(s, S) ==
  /\ s \in Seq(Path)
  /\ Elements(s) \subseteq S
  /\ \A i, j \in 1..Len(s) : s[i] = s[j] => i = j
  /\ \A i \in 1..Len(s) : Deps(s[i]) \subseteq {s[j] : j \in 1..(i - 1)}

\* A's half of the inductive invariant.
ExportInv ==
  /\ \A r \in Root : PartlyOrdered(ordered[r], Closure(r))
  /\ ManifestInDependencyOrder
  /\ \A r \in Root : exporting[r] = "write" => car[r].state = "cut"

\* B's half, for one importer: what it has replayed is in the store.
ImporterInv(i) ==
  /\ importer[i].step = "load" => importer[i].next = 1
  /\ importer[i].step = "replay" =>
       /\ Elements(importer[i].paths) \subseteq blocks
       /\ LeavesFirst(importer[i].paths, Closure(Target[i]))
       /\ ~importer[i].collected =>
            \A j \in 1..(importer[i].next - 1) :
              j \in 1..Len(importer[i].paths) => importer[i].paths[j] \in store
  /\ (importer[i].step = "done" /\ ~importer[i].collected) =>
       Closure(Target[i]) \subseteq store
  /\ importer[i].step = "refused" => importer[i].collected

ImportInv == \A i \in Importer : ImporterInv(i)

IInv == TypeOK /\ ExportInv /\ ImportInv

-----------------------------------------------------------------------------
(* Lemmas about closures and the ordering *)

\* A closure contains its root and is closed under references.
LEMMA ClosureClosed ==
  ASSUME NEW r \in Root, references \in Graphs
  PROVE  /\ Closure(r) \subseteq Path
         /\ r \in Closure(r)
         /\ \A p \in Closure(r) : references[p] \subseteq Closure(r)
<1>1. references \in [Path -> SUBSET Path]
  BY TransportAssumption
<1>2. Closure(r) \subseteq Path /\ r \in Closure(r)
  BY TransportAssumption DEF Closure
<1>3. ASSUME NEW p \in Closure(r), NEW q \in references[p]
      PROVE  q \in Closure(r)
  <2>1. q \in Path
    BY <1>1, <1>2, <1>3
  <2>2. ASSUME NEW S \in SUBSET Path, r \in S, ClosedUnder(S)
        PROVE  q \in S
    <3>1. p \in S
      BY <1>3, <2>2 DEF Closure
    <3> QED BY <3>1, <1>3, <2>2 DEF ClosedUnder
  <2> QED BY <2>1, <2>2 DEF Closure
<1> QED BY <1>2, <1>3

\* Until the order is complete some member is ready, and only ready members
\* are emitted: _topo_order's `emit the rest' branch is never taken.
LEMMA ReadyMembers ==
  ASSUME NEW r \in Root, references \in Graphs,
         NEW done, done \subseteq Closure(r), done # Closure(r)
  PROVE  /\ Ready(r, done) \subseteq Closure(r) \ done
         /\ Ready(r, done) \in SUBSET Path
         /\ \A p \in Ready(r, done) : Deps(p) \subseteq done
<1> DEFINE left == Closure(r) \ done
           ready == {p \in left : Deps(p) \subseteq done}
<1>1. left # {} /\ left \in SUBSET Path
  BY ClosureClosed
<1>2. PICK p \in left : (references[p] \ {p}) \cap left = {}
  <2>1. Acyclic(references)
    BY TransportAssumption
  <2> QED BY <1>1, <2>1 DEF Acyclic
<1>3. references[p] \subseteq Closure(r)
  BY ClosureClosed, <1>2
<1>4. p \in ready
  BY <1>2, <1>3 DEF Deps
<1>5. Ready(r, done) = ready
  BY <1>4 DEF Ready
<1> QED BY <1>1, <1>5

\* A round keeps the list leaves first.
LEMMA RoundOrdered ==
  ASSUME NEW r \in Root, references \in Graphs,
         NEW s, PartlyOrdered(s, Closure(r)), Elements(s) # Closure(r)
  PROVE  PartlyOrdered(s \o Sorted(Ready(r, Elements(s))), Closure(r))
<1> DEFINE R == Ready(r, Elements(s))
           b == Sorted(R)
           t == s \o b
<1>1. /\ R \subseteq Closure(r) \ Elements(s)
      /\ R \in SUBSET Path
      /\ \A p \in R : Deps(p) \subseteq Elements(s)
  <2>1. Elements(s) \subseteq Closure(r)
    BY DEF PartlyOrdered
  <2> HIDE DEF R
  <2> QED BY <2>1, ReadyMembers DEF R
<1>2. /\ b \in Seq(R)
      /\ \A i, j \in 1..Len(b) : b[i] = b[j] => i = j
  BY <1>1, SortedAssumption
<1>3. s \in Seq(Path) /\ b \in Seq(Path) /\ t \in Seq(Path)
  BY <1>1, <1>2 DEF PartlyOrdered
<1> HIDE DEF R, b
<1>4. /\ Len(t) = Len(s) + Len(b)
      /\ Len(s) \in Nat /\ Len(b) \in Nat
      /\ \A i \in 1..Len(s) : t[i] = s[i]
      /\ \A i \in (Len(s) + 1)..Len(t) : t[i] = b[i - Len(s)] /\ i - Len(s) \in 1..Len(b)
  BY <1>3
<1>5. \A i \in 1..Len(b) : b[i] \in R
  BY <1>2
<1>6. \A i \in 1..Len(s) : s[i] \in Elements(s)
  BY DEF Elements
<1>7. Elements(t) \subseteq Closure(r)
  BY <1>1, <1>4, <1>5, <1>6 DEF Elements, PartlyOrdered
<1>8. ASSUME NEW i \in 1..Len(t), NEW j \in 1..Len(t), t[i] = t[j]
      PROVE  i = j
  <2>1. CASE i \in 1..Len(s) /\ j \in 1..Len(s)
    BY <2>1, <1>4, <1>8 DEF PartlyOrdered
  <2>2. CASE i \notin 1..Len(s) /\ j \notin 1..Len(s)
    <3>1. i \in (Len(s) + 1)..Len(t) /\ j \in (Len(s) + 1)..Len(t)
      BY <2>2, <1>4
    <3>2. b[i - Len(s)] = b[j - Len(s)]
      BY <3>1, <1>4, <1>8
    <3>3. i - Len(s) = j - Len(s)
      BY <3>1, <3>2, <1>4, <1>2
    <3> QED BY <3>3, <1>4
  <2>3. CASE i \in 1..Len(s) /\ j \notin 1..Len(s)
    BY <2>3, <1>1, <1>4, <1>5, <1>6, <1>8
  <2>4. CASE i \notin 1..Len(s) /\ j \in 1..Len(s)
    BY <2>4, <1>1, <1>4, <1>5, <1>6, <1>8
  <2> QED BY <2>1, <2>2, <2>3, <2>4
<1>9. ASSUME NEW i \in 1..Len(t)
      PROVE  Deps(t[i]) \subseteq {t[j] : j \in 1..(i - 1)}
  <2>1. CASE i \in 1..Len(s)
    <3>1. Deps(s[i]) \subseteq {s[j] : j \in 1..(i - 1)}
      BY <2>1 DEF PartlyOrdered
    <3>2. \A j \in 1..(i - 1) : t[j] = s[j]
      BY <2>1, <1>4
    <3> QED BY <2>1, <3>1, <3>2, <1>4
  <2>2. CASE i \notin 1..Len(s)
    <3>1. Deps(t[i]) \subseteq Elements(s)
      BY <2>2, <1>1, <1>4, <1>5
    <3>2. \A j \in 1..Len(s) : j \in 1..(i - 1) /\ t[j] = s[j]
      BY <2>2, <1>4
    <3> QED BY <3>1, <3>2 DEF Elements
  <2> QED BY <2>1, <2>2
<1> QED BY <1>3, <1>7, <1>8, <1>9 DEF PartlyOrdered, R, b

-----------------------------------------------------------------------------
(* Peer A: the manifests *)

\* A list that is leaves first and complete is what a CAR may carry.
LEMMA CompleteOrder ==
  ASSUME NEW s, NEW S, PartlyOrdered(s, S), Elements(s) = S
  PROVE  LeavesFirst(s, S) /\ s \in Seq(Path)
BY DEF PartlyOrdered, LeavesFirst

\* The initial state satisfies the invariant.
LEMMA InitInv == Init => IInv
<1> SUFFICES ASSUME Init PROVE IInv
  OBVIOUS
<1>1. TypeOK
  BY DEF Init, TypeOK, Steps, Ended
<1>2. ExportInv
  <2>1. \A r \in Root : PartlyOrdered(ordered[r], Closure(r))
    BY DEF Init, PartlyOrdered, Elements
  <2>2. ManifestInDependencyOrder
    BY DEF Init, ManifestInDependencyOrder
  <2> QED BY <2>1, <2>2 DEF Init, ExportInv
<1>3. ImportInv
  BY DEF Init, ImportInv, ImporterInv, Ended
<1> QED BY <1>1, <1>2, <1>3 DEF IInv

\* What A has listed, and its manifests, survive every step; nothing B does
\* changes them.
LEMMA ExportStep ==
  ASSUME IInv, [Next]_vars
  PROVE  ExportInv'
<1> USE DEF IInv
<1>0. references' = references
  BY DEF vars, Next, Export, StartExport, OrderRound, OpenCar, CarWritten,
         CrashExport, Import, StartImport, LoadCar, LoadCutCar, ImportPath,
         RefusePath, FinishImport, CrashImport, AcquirePath, Collect
<1>1. /\ references \in Graphs
      /\ \A r \in Root : Closure(r)' = Closure(r)
      /\ \A s, S : PartlyOrdered(s, S)' <=> PartlyOrdered(s, S)
      /\ \A s, S : LeavesFirst(s, S)' <=> LeavesFirst(s, S)
  BY <1>0 DEF TypeOK, Closure, ClosedUnder, PartlyOrdered, LeavesFirst,
              Elements, Deps
<1>2. PartlyOrdered(<<>>, {}) /\ \A r \in Root : PartlyOrdered(<<>>, Closure(r))
  BY DEF PartlyOrdered, Elements
<1>3. CASE UNCHANGED <<exporting, ordered, car>>
  BY <1>3, <1>1 DEF ExportInv, ManifestInDependencyOrder
<1>4. ASSUME NEW r \in Root, StartExport(r)
      PROVE  ExportInv'
  BY <1>4, <1>1 DEF StartExport, ExportInv, ManifestInDependencyOrder, TypeOK
<1>5. ASSUME NEW r \in Root, OrderRound(r)
      PROVE  ExportInv'
  <2>1. PartlyOrdered(ordered[r] \o Sorted(Ready(r, Elements(ordered[r]))),
                      Closure(r))
    BY <1>1, <1>5, RoundOrdered DEF OrderRound, ExportInv
  <2>2. ordered' = [ordered EXCEPT ![r] =
                      ordered[r] \o Sorted(Ready(r, Elements(ordered[r])))]
    BY <1>5 DEF OrderRound
  <2>3. \A q \in Root : PartlyOrdered(ordered'[q], Closure(q))
    BY <2>1, <2>2 DEF ExportInv, TypeOK
  <2> QED BY <2>3, <1>5, <1>1 DEF OrderRound, ExportInv, ManifestInDependencyOrder
<1>6. ASSUME NEW r \in Root, OpenCar(r)
      PROVE  ExportInv'
  <2>1. LeavesFirst(ordered[r], Closure(r))
    BY <1>6, CompleteOrder DEF OpenCar, ExportInv
  <2>2. \A q \in Root : car'[q] = IF q = r
                                  THEN [state |-> "cut", paths |-> ordered[r]]
                                  ELSE car[q]
    BY <1>6 DEF OpenCar, TypeOK
  <2>3. ManifestInDependencyOrder'
    BY <2>1, <2>2, <1>1 DEF ManifestInDependencyOrder, ExportInv
  <2>4. \A q \in Root : exporting'[q] = "write" => car'[q].state = "cut"
    BY <2>2, <1>6 DEF OpenCar, TypeOK, ExportInv
  <2> QED BY <2>3, <2>4, <1>6, <1>1 DEF OpenCar, ExportInv
<1>7. ASSUME NEW r \in Root, CarWritten(r)
      PROVE  ExportInv'
  <2>1. \A q \in Root : ordered'[q] = IF q = r THEN <<>> ELSE ordered[q]
    BY <1>7 DEF CarWritten, TypeOK
  <2>2. \A q \in Root : /\ car'[q].paths = car[q].paths
                        /\ q # r => car'[q] = car[q]
    BY <1>7 DEF CarWritten, TypeOK
  <2>3. car[r].state # "none"
    BY <1>7 DEF CarWritten, ExportInv
  <2>4. ManifestInDependencyOrder'
    BY <2>2, <2>3, <1>1 DEF ManifestInDependencyOrder, ExportInv
  <2>5. \A q \in Root : exporting'[q] = "write" => car'[q].state = "cut"
    BY <2>2, <1>7 DEF CarWritten, TypeOK, ExportInv
  <2> QED BY <2>1, <2>4, <2>5, <1>1, <1>2 DEF ExportInv
<1>8. ASSUME NEW r \in Root, CrashExport(r)
      PROVE  ExportInv'
  <2>1. \A q \in Root : ordered'[q] = IF q = r THEN <<>> ELSE ordered[q]
    BY <1>8 DEF CrashExport, TypeOK
  <2>2. \A q \in Root : exporting'[q] = "write" => exporting[q] = "write"
    BY <1>8 DEF CrashExport, TypeOK
  <2> QED BY <2>1, <2>2, <1>8, <1>1, <1>2
          DEF CrashExport, ExportInv, ManifestInDependencyOrder
<1>9. ASSUME NEW i \in Importer, Import(i)
      PROVE  UNCHANGED <<exporting, ordered, car>>
  BY <1>9 DEF Import, StartImport, LoadCar, LoadCutCar, ImportPath,
              RefusePath, FinishImport, CrashImport, aVars
<1>10. ASSUME NEW p \in Path, AcquirePath(p) \/ Collect(p)
       PROVE  UNCHANGED <<exporting, ordered, car>>
  BY <1>10 DEF AcquirePath, Collect, aVars
<1> QED BY <1>3, <1>4, <1>5, <1>6, <1>7, <1>8, <1>9, <1>10
        DEF Next, Export, vars

-----------------------------------------------------------------------------
(* Types *)

\* Every step keeps the types.
LEMMA TypeStep ==
  ASSUME IInv, [Next]_vars
  PROVE  TypeOK'
<1> USE DEF IInv
<1>1. ASSUME NEW r \in Root, Export(r)
      PROVE  TypeOK'
  <2>1. CASE StartExport(r)
    BY <2>1 DEF StartExport, bVars, TypeOK
  <2>2. CASE OrderRound(r)
    <3>1. ordered[r] \o Sorted(Ready(r, Elements(ordered[r]))) \in Seq(Path)
      BY <2>2, RoundOrdered DEF OrderRound, ExportInv, PartlyOrdered, TypeOK
    <3>2. ordered' \in [Root -> Seq(Path)]
      BY <2>2, <3>1 DEF OrderRound, TypeOK
    <3> QED BY <2>2, <3>2 DEF OrderRound, bVars, TypeOK
  <2>3. CASE OpenCar(r)
    BY <2>3 DEF OpenCar, bVars, TypeOK
  <2>4. CASE CarWritten(r)
    <3>1. ordered' \in [Root -> Seq(Path)]
      BY <2>4 DEF CarWritten, TypeOK
    <3>2. car' \in [Root -> [state : {"none", "cut", "whole"},
                             paths : Seq(Path)]]
      BY <2>4 DEF CarWritten, TypeOK
    <3> QED BY <2>4, <3>1, <3>2 DEF CarWritten, bVars, TypeOK
  <2>5. CASE CrashExport(r)
    BY <2>5 DEF CrashExport, bVars, TypeOK
  <2> QED BY <1>1, <2>1, <2>2, <2>3, <2>4, <2>5 DEF Export
<1>2. ASSUME NEW i \in Importer, Import(i)
      PROVE  TypeOK'
  <2> USE DEF aVars, Ended, Steps
  <2>1. Target[i] \in Root
    BY TransportAssumption
  <2>2. CASE StartImport(i)
    BY <2>2 DEF StartImport, TypeOK
  <2>3. CASE LoadCar(i)
    <3>1. car[Target[i]].paths \in Seq(Path)
      BY <2>1 DEF TypeOK
    <3>2. Elements(car[Target[i]].paths) \subseteq Path
      BY <3>1 DEF Elements
    <3>3. importer' \in [Importer -> [step : Steps, paths : Seq(Path),
                                      next : Nat \ {0}, collected : BOOLEAN]]
      BY <2>3, <3>1 DEF LoadCar, TypeOK
    <3> QED BY <2>3, <3>2, <3>3 DEF LoadCar, TypeOK
  <2>4. CASE LoadCutCar(i)
    <3>1. car[Target[i]].paths \in Seq(Path)
      BY <2>1 DEF TypeOK
    <3>2. blocks' \subseteq Path
      BY <2>4, <3>1 DEF LoadCutCar, TypeOK
    <3> QED BY <2>4, <3>2 DEF LoadCutCar, TypeOK
  <2>5. CASE ImportPath(i)
    <3>1. Entry(i) \in Path
      BY <2>5 DEF ImportPath, Entry, TypeOK
    <3>2. importer' \in [Importer -> [step : Steps, paths : Seq(Path),
                                      next : Nat \ {0}, collected : BOOLEAN]]
      <4>1. importer' = [importer EXCEPT ![i] =
                           [importer[i] EXCEPT !.next = importer[i].next + 1]]
        BY <2>5 DEF ImportPath
      <4>2. importer[i].next + 1 \in Nat \ {0}
        BY DEF TypeOK
      <4>3. [importer[i] EXCEPT !.next = importer[i].next + 1]
              \in [step : Steps, paths : Seq(Path),
                   next : Nat \ {0}, collected : BOOLEAN]
        BY <4>2 DEF TypeOK
      <4> HIDE DEF Steps
      <4> QED BY <4>1, <4>3 DEF TypeOK
    <3> QED BY <2>5, <3>1, <3>2 DEF ImportPath, TypeOK
  <2>6. CASE RefusePath(i)
    BY <2>6 DEF RefusePath, TypeOK
  <2>7. CASE FinishImport(i)
    BY <2>7 DEF FinishImport, TypeOK
  <2>8. CASE CrashImport(i)
    BY <2>8 DEF CrashImport, TypeOK
  <2> QED BY <1>2, <2>2, <2>3, <2>4, <2>5, <2>6, <2>7, <2>8 DEF Import
<1>3. ASSUME NEW p \in Path, AcquirePath(p) \/ Collect(p)
      PROVE  TypeOK'
  <2>1. CASE AcquirePath(p)
    BY <2>1 DEF AcquirePath, aVars, TypeOK
  <2>2. CASE Collect(p)
    <3>1. importer' \in [Importer -> [step : Steps, paths : Seq(Path),
                                      next : Nat \ {0}, collected : BOOLEAN]]
      BY <2>2 DEF Collect, TypeOK, Steps
    <3> QED BY <2>2, <3>1 DEF Collect, aVars, TypeOK
  <2> QED BY <1>3, <2>1, <2>2
<1>4. CASE UNCHANGED vars
  BY <1>4 DEF vars, TypeOK
<1> QED BY <1>1, <1>2, <1>3, <1>4 DEF Next

-----------------------------------------------------------------------------
(* Peer B: the imports *)

\* The entry an undisturbed importer is at can always be imported: its NAR was
\* in the CAR, and its references came before it in the manifest.
LEMMA EntryImportable ==
  ASSUME IInv, NEW i \in Importer,
         importer[i].step = "replay", ~importer[i].collected,
         importer[i].next <= Len(importer[i].paths)
  PROVE  Importable(Entry(i))
<1> DEFINE paths == importer[i].paths
           n == importer[i].next
<1>1. paths \in Seq(Path) /\ n \in 1..Len(paths)
  BY DEF IInv, TypeOK
<1>2. /\ Elements(paths) \subseteq blocks
      /\ LeavesFirst(paths, Closure(Target[i]))
      /\ \A j \in 1..(n - 1) : j \in 1..Len(paths) => paths[j] \in store
  BY DEF IInv, ImportInv, ImporterInv
<1>3. paths[n] \in blocks
  BY <1>1, <1>2 DEF Elements
<1>4. Deps(paths[n]) \subseteq store
  <2>1. Deps(paths[n]) \subseteq {paths[j] : j \in 1..(n - 1)}
    BY <1>1, <1>2 DEF LeavesFirst
  <2>2. \A j \in 1..(n - 1) : paths[j] \in store
    BY <1>1, <1>2
  <2> QED BY <2>1, <2>2
<1> QED BY <1>3, <1>4 DEF Importable, Entry

\* A step of importer i keeps what is known of importer i.
LEMMA OwnImportStep ==
  ASSUME IInv, NEW i \in Importer, Import(i)
  PROVE  ImporterInv(i)'
<1> USE DEF IInv
<1>0. references' = references /\ UNCHANGED aVars
  BY DEF Import, StartImport, LoadCar, LoadCutCar, ImportPath, RefusePath,
         FinishImport, CrashImport
<1>1. /\ Closure(Target[i])' = Closure(Target[i])
      /\ \A s, S : LeavesFirst(s, S)' <=> LeavesFirst(s, S)
  BY <1>0 DEF Closure, ClosedUnder, LeavesFirst, Elements, Deps
<1>2. ImporterInv(i)
  BY DEF ImportInv, ImporterInv
<1>3. importer[i].paths \in Seq(Path) /\ importer[i].next \in Nat \ {0}
  BY DEF TypeOK
<1>4. CASE StartImport(i) \/ LoadCutCar(i) \/ CrashImport(i)
  <2>1. importer'[i].step \in {"load", "failed", "idle"} /\ importer'[i].next = 1
    BY <1>4 DEF StartImport, LoadCutCar, CrashImport, Ended, TypeOK
  <2> QED BY <2>1 DEF ImporterInv
<1>5. CASE LoadCar(i)
  <2>1. /\ importer'[i].step = "replay"
        /\ importer'[i].paths = car[Target[i]].paths
        /\ blocks' = blocks \cup Elements(car[Target[i]].paths)
        /\ importer'[i].next = importer[i].next
    BY <1>5 DEF LoadCar, TypeOK
  <2>2. LeavesFirst(car[Target[i]].paths, Closure(Target[i]))
    BY <1>5, TransportAssumption
    DEF LoadCar, ExportInv, ManifestInDependencyOrder
  <2>3. importer[i].next = 1
    BY <1>5, <1>2 DEF LoadCar, ImporterInv
  <2> QED BY <2>1, <2>2, <2>3, <1>1 DEF ImporterInv, Elements
<1>6. CASE ImportPath(i)
  <2>1. /\ importer'[i].step = "replay"
        /\ importer'[i].paths = importer[i].paths
        /\ importer'[i].next = importer[i].next + 1
        /\ importer'[i].collected = importer[i].collected
        /\ store' = store \cup {importer[i].paths[importer[i].next]}
        /\ blocks' = blocks
        /\ importer[i].step = "replay"
    BY <1>6 DEF ImportPath, Entry, TypeOK
  <2>2. ASSUME ~importer[i].collected,
               NEW j \in 1..importer[i].next, j \in 1..Len(importer[i].paths)
        PROVE  importer[i].paths[j] \in store'
    BY <2>1, <2>2, <1>2, <1>3 DEF ImporterInv
  <2> QED BY <2>1, <2>2, <1>1, <1>2, <1>3 DEF ImporterInv, Elements
<1>7. CASE RefusePath(i)
  <2>1. importer'[i].step = "refused" /\ importer'[i].collected = importer[i].collected
    BY <1>7 DEF RefusePath, Ended, TypeOK
  <2>2. importer[i].collected
    BY <1>7, EntryImportable DEF RefusePath, TypeOK
  <2> QED BY <2>1, <2>2 DEF ImporterInv
<1>8. CASE FinishImport(i)
  <2>1. importer'[i].step = "done" /\ importer'[i].collected = importer[i].collected
        /\ store' = store
    BY <1>8 DEF FinishImport, Ended, TypeOK
  <2>2. importer[i].step = "replay" /\ importer[i].next > Len(importer[i].paths)
    BY <1>8 DEF FinishImport
  <2>3. ~importer[i].collected => Closure(Target[i]) \subseteq store
    BY <2>2, <1>2, <1>3 DEF ImporterInv, LeavesFirst, Elements
  <2> QED BY <2>1, <2>3, <1>1 DEF ImporterInv
<1> QED BY <1>4, <1>5, <1>6, <1>7, <1>8 DEF Import

\* Another importer's step takes nothing from importer i: the store and the
\* repo only grow.
LEMMA OtherImportStep ==
  ASSUME IInv, NEW i \in Importer, NEW k \in Importer, k # i, Import(k)
  PROVE  ImporterInv(i)'
<1> USE DEF IInv
<1>1. /\ references' = references
      /\ importer'[i] = importer[i]
      /\ store \subseteq store'
      /\ blocks \subseteq blocks'
  BY DEF Import, StartImport, LoadCar, LoadCutCar, ImportPath, RefusePath,
         FinishImport, CrashImport, TypeOK
<1>2. /\ Closure(Target[i])' = Closure(Target[i])
      /\ \A s, S : LeavesFirst(s, S)' <=> LeavesFirst(s, S)
  BY <1>1 DEF Closure, ClosedUnder, LeavesFirst, Elements, Deps
<1>3. ImporterInv(i)
  BY DEF ImportInv
<1> QED BY <1>1, <1>2, <1>3 DEF ImporterInv, Elements

\* Nor does a step of A or a path acquired otherwise; and the collector marks
\* the importers it may hurt.
LEMMA EnvironmentStep ==
  ASSUME IInv, NEW i \in Importer,
         \/ \E r \in Root : Export(r)
         \/ \E p \in Path : AcquirePath(p) \/ Collect(p)
         \/ UNCHANGED vars
  PROVE  ImporterInv(i)'
<1> USE DEF IInv
<1>1. references' = references /\ blocks' = blocks
  BY DEF Export, StartExport, OrderRound, OpenCar, CarWritten, CrashExport,
         AcquirePath, Collect, bVars, vars
<1>2. /\ Closure(Target[i])' = Closure(Target[i])
      /\ \A s, S : LeavesFirst(s, S)' <=> LeavesFirst(s, S)
  BY <1>1 DEF Closure, ClosedUnder, LeavesFirst, Elements, Deps
<1>3. ImporterInv(i)
  BY DEF ImportInv
<1>4. CASE importer' = importer /\ store \subseteq store'
  BY <1>1, <1>2, <1>3, <1>4 DEF ImporterInv, Elements
<1>5. ASSUME NEW p \in Path, Collect(p)
      PROVE  ImporterInv(i)'
  <2>1. /\ importer'[i].step = importer[i].step
        /\ importer'[i].paths = importer[i].paths
        /\ importer'[i].next = importer[i].next
        /\ importer[i].collected => importer'[i].collected
        /\ importer[i].step \in {"load", "replay", "done"} =>
             importer'[i].collected
    BY <1>5 DEF Collect, TypeOK
  <2> QED BY <2>1, <1>1, <1>2, <1>3 DEF ImporterInv, Elements
<1>6. ASSUME \/ \E r \in Root : Export(r)
             \/ \E p \in Path : AcquirePath(p)
             \/ UNCHANGED vars
      PROVE  importer' = importer /\ store \subseteq store'
  BY <1>6 DEF Export, StartExport, OrderRound, OpenCar, CarWritten,
              CrashExport, AcquirePath, bVars, vars
<1> QED BY <1>4, <1>5, <1>6

-----------------------------------------------------------------------------
(* Theorems *)

\* The inductive invariant holds throughout.
THEOREM Invariance == Spec => []IInv
<1>1. IInv /\ [Next]_vars => IInv'
  <2> SUFFICES ASSUME IInv, [Next]_vars PROVE IInv'
    OBVIOUS
  <2>1. TypeOK' /\ ExportInv'
    BY TypeStep, ExportStep
  <2>2. ASSUME NEW i \in Importer
        PROVE  ImporterInv(i)'
    <3>1. ASSUME NEW k \in Importer, Import(k)
          PROVE  ImporterInv(i)'
      BY <3>1, OwnImportStep, OtherImportStep
    <3>2. CASE \/ \E r \in Root : Export(r)
               \/ \E p \in Path : AcquirePath(p) \/ Collect(p)
               \/ UNCHANGED vars
      BY <3>2, EnvironmentStep
    <3> QED BY <3>1, <3>2 DEF Next
  <2> QED BY <2>1, <2>2 DEF IInv, ImportInv
<1> QED BY <1>1, InitInv, PTL DEF Spec

\* The state of both peers is well typed.
THEOREM TypeCorrect == Spec => []TypeOK
<1>1. IInv => TypeOK
  BY DEF IInv
<1> QED BY <1>1, Invariance, PTL

\* Whatever crashes and rewrites an export goes through, the manifest of its
\* CAR is the whole closure, leaves first: _topo_order needs no cycle branch.
THEOREM ManifestOrder == Spec => []ManifestInDependencyOrder
<1>1. IInv => ManifestInDependencyOrder
  BY DEF IInv, ExportInv
<1> QED BY <1>1, Invariance, PTL

\* No manifest entry is ever refused by the receiving store, however many
\* importers interleave, crash and retry, unless nix's collector interfered.
THEOREM NeverRefused == Spec => []RefusedOnlyByCollector
<1>1. IInv => RefusedOnlyByCollector
  BY DEF IInv, ImportInv, ImporterInv, RefusedOnlyByCollector
<1> QED BY <1>1, Invariance, PTL

\* An import that returns has installed the closure of its root.
THEOREM ImportInstalls == Spec => []DoneMeansInstalled
<1>1. IInv => DoneMeansInstalled
  BY DEF IInv, ImportInv, ImporterInv, DoneMeansInstalled
<1> QED BY <1>1, Invariance, PTL

\* An importer's copy of the manifest stays sound while A rewrites the CAR.
THEOREM ReplaySound == Spec => []ReplayIsSound
<1>1. IInv => ReplayIsSound
  BY DEF IInv, ImportInv, ImporterInv, ReplayIsSound
<1> QED BY <1>1, Invariance, PTL

=============================================================================
