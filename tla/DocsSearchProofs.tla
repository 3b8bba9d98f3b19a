-------------------------- MODULE DocsSearchProofs --------------------------
(***************************************************************************)
(* The documentation search for any items, fields and terms: the page      *)
(* shows what belongs to its term, and spelling out a name finds it.       *)
(***************************************************************************)
EXTENDS DocsSearch, FiniteSetTheorems, WellFoundedInduction, TLAPS

-----------------------------------------------------------------------------
(* What a search finds, and how much *)

Text == Seq(Char)

\* A search finds items, by their words.
LEMMA Found ==
  ASSUME NEW text, NEW ref \in search(text)
  PROVE  \E i \in DOMAIN Docs : \E f \in Field \cap DOMAIN Docs[i] :
           /\ ref = Docs[i]["fullname"]
           /\ \E t \in tokens(text), w \in tokens(Docs[i][f]) : IsPrefix(t, w)
<1>1. PICK t \in tokens(text) : \E e \in expandToken(t) : ref = e.ref
  BY DEF search
<1>2. PICK e \in searchIndex : IsPrefix(t, e.word) /\ ref = e.ref
  BY <1>1 DEF expandToken
<1>3. PICK i \in DOMAIN Docs : e \in addDoc(Docs[i])
  BY <1>2 DEF searchIndex
<1>4. PICK f \in Field \cap DOMAIN Docs[i] : \E w \in tokens(Docs[i][f]) :
        e = [field |-> f, word |-> w, ref |-> Docs[i]["fullname"]]
  BY <1>3 DEF addDoc
<1>5. e.word \in tokens(Docs[i][f]) /\ e.ref = Docs[i]["fullname"]
  BY <1>4
<1> QED BY <1>2, <1>5

\* So no more are found than there are.
LEMMA FiniteHits ==
  ASSUME NEW text
  PROVE  IsFiniteSet(search(text))
<1> DEFINE names == {Docs[i]["fullname"] : i \in DOMAIN Docs}
<1>1. IsFiniteSet(names)
  <2> DEFINE name == [i \in DOMAIN Docs |-> Docs[i]["fullname"]]
  <2>1. name \in Surjection(DOMAIN Docs, names)
    BY DEF Surjection
  <2> QED BY <2>1, FS_Surjection, DocsSearchAssumption
<1>2. search(text) \subseteq names
  BY Found
<1> QED BY <1>1, <1>2, FS_Subset

\* A set of natural numbers has a least member, and a bounded one a greatest.
LEMMA Least ==
  ASSUME NEW S \in SUBSET Nat, S # {}
  PROVE  \E x \in S : \A y \in S : x <= y
<1>1. PICK x \in S : \A y \in S : ~(<<y, x>> \in OpToRel(<, Nat))
  BY WFMin, NatLessThanWellFounded
<1>2. \A y \in S : ~(y < x)
  BY <1>1 DEF OpToRel
<1> QED BY <1>2

\* The greatest is where what is left to the bound is least.
LEMMA Greatest ==
  ASSUME NEW n \in Nat, NEW S \in SUBSET (0..n), S # {}
  PROVE  \E x \in S : \A y \in S : x >= y
<1> DEFINE C == {n - x : x \in S}
<1>0. \A x \in S : x \in 0..n /\ n - x \in Nat
  OBVIOUS
<1>1. C \subseteq Nat /\ C # {}
  BY <1>0
<1>2. PICK c \in C : \A d \in C : c <= d
  BY <1>1, Least
<1>3. PICK x \in S : c = n - x
  OBVIOUS
<1>4. \A y \in S : n - x <= n - y
  BY <1>2, <1>3
<1> QED BY <1>4, <1>0

-----------------------------------------------------------------------------
(* The page *)

SearchTypeOK ==
  /\ term \in Terms \cup {NoTerm}
  /\ script \in {"unasked", "loading", "ready", "failed"}
  /\ shown \in [what : {"page", "error", "searching", "hits"}, term : Terms \cup {NoTerm},
                hits : SUBSET UNION {search(t) : t \in Terms}, focused : Nat]

\* Hits are all that the search of their term finds.
HitsInv == shown.hits = IF shown.what = "hits" THEN search(shown.term) ELSE {}

SearchInv == SearchTypeOK /\ HitsInv /\ ShownIsCurrent

\* Ten or all of a finite set, whichever is less, is a number.
LEMMA Counted ==
  ASSUME NEW S, IsFiniteSet(S)
  PROVE  Min({10, Cardinality(S)}) \in Nat
<1> DEFINE counts == {10, Cardinality(S)}
<1>1. counts \in SUBSET Nat /\ counts # {}
  BY FS_CardinalityType
<1>2. \E x \in counts : \A y \in counts : x <= y
  BY <1>1, Least
<1>3. Min(counts) \in counts
  BY <1>2 DEF Min
<1> QED BY <1>1, <1>3

\* So is the number of results that are listed.
LEMMA ListedNat == HitsInv => Listed \in Nat
  BY Counted, FiniteHits, FS_EmptySet DEF HitsInv, Listed

\* What onInput puts on the page is right for the term and the script it is called with.
LEMMA Input ==
  ASSUME NEW t \in Terms \cup {NoTerm}, NEW s \in {"unasked", "loading", "ready", "failed"},
         term' = t, script' = s, shown' = onInput(t, s)
  PROVE  SearchInv'
<1>1. SearchTypeOK' /\ HitsInv'
  BY DEF onInput, Message, SearchTypeOK, HitsInv
<1>2. Listed' \in Nat
  BY <1>1, Counted, FiniteHits, FS_EmptySet DEF HitsInv, Listed
<1> QED BY <1>1, <1>2 DEF SearchInv, ShownIsCurrent, onInput, Message

\* A page is loaded with or without a term.
LEMMA SearchInitInv == Init => SearchInv
<1> SUFFICES ASSUME Init PROVE SearchInv
  OBVIOUS
<1>1. SearchTypeOK /\ HitsInv
  BY DEF Init, onInput, Message, SearchTypeOK, HitsInv
<1>2. Listed \in Nat
  BY <1>1, ListedNat
<1> QED BY <1>1, <1>2 DEF SearchInv, ShownIsCurrent, Init, onInput, Message

\* No event spoils it: most end with onInput; Focus and Mark change one thing.
LEMMA SearchStep == SearchInv /\ [Next]_vars => SearchInv'
<1> SUFFICES ASSUME SearchInv, [Next]_vars PROVE SearchInv'
  OBVIOUS
<1> USE DEF SearchInv
<1>1. CASE Focus \/ UNCHANGED vars
  <2>1. shown' = shown /\ term' = term /\ Listed' = Listed
    BY <1>1 DEF Focus, vars, Listed
  <2>2. SearchTypeOK' /\ HitsInv'
    BY <1>1, <2>1 DEF Focus, vars, SearchTypeOK, HitsInv
  <2>3. ShownIsCurrent'
    BY <1>1, <2>1 DEF Focus, vars, ShownIsCurrent
  <2> QED BY <2>2, <2>3
<1>2. CASE Load
  <2>1. PICK s \in {"ready", "failed"} : script' = s
    BY <1>2 DEF Load
  <2> QED BY <1>2, <2>1, Input DEF Load, SearchTypeOK
<1>3. CASE Choose
  BY <1>3, Input DEF Choose, SearchTypeOK
<1>4. CASE Mark
  <2>1. PICK i \in 1..Listed : shown' = [shown EXCEPT !.focused = i]
    BY <1>4 DEF Mark
  <2>2. Listed \in Nat /\ i \in Nat /\ i <= Listed
    BY <2>1, ListedNat
  <2>3. /\ shown'.focused = i /\ shown'.what = shown.what /\ shown'.term = shown.term
        /\ shown'.hits = shown.hits
    BY <2>1 DEF SearchTypeOK
  <2>4. Listed' = Listed
    BY <2>3 DEF Listed
  <2>5. SearchTypeOK'
    BY <1>4, <2>1, <2>2 DEF Mark, SearchTypeOK
  <2>6. HitsInv' /\ ShownIsCurrent'
    BY <1>4, <2>2, <2>3, <2>4 DEF Mark, HitsInv, ShownIsCurrent
  <2> QED BY <2>5, <2>6
<1>5. CASE Follow
  BY <1>5, Input DEF Follow
<1>6. ASSUME NEW text \in Terms \cup {NoTerm}, (text \in Terms /\ Type(text)) \/ Back(text)
      PROVE  SearchInv'
  <2>1. term' \in Terms \cup {NoTerm} /\ script' = script
    BY <1>6 DEF Type, Back
  <2>2. shown' = onInput(term', script)
    BY <1>6 DEF Type, Back
  <2> QED BY <2>1, <2>2, Input DEF SearchTypeOK
<1> QED BY <1>1, <1>2, <1>3, <1>4, <1>5, <1>6 DEF Next

\* The page is never out of step with its term, its script and the index.
THEOREM SearchInvariance == Spec => []SearchInv
  BY SearchInitInv, SearchStep, PTL DEF Spec

\* Whatever is typed, gone back to, chosen or marked before and after the script
\* comes, the page shows the hits of its present term, and no others.
THEOREM HitsAreCurrent == Spec => []ShownIsCurrent
<1>1. SearchInv => ShownIsCurrent
  BY DEF SearchInv
<1> QED BY <1>1, SearchInvariance, PTL

-----------------------------------------------------------------------------
(* Finding a name *)

\* Lowering keeps the length and the word characters.
LEMMA Lowered ==
  ASSUME NEW text \in Text
  PROVE  /\ Lower(text) \in Text /\ Len(Lower(text)) = Len(text)
         /\ DOMAIN Lower(text) = 1..Len(text)
         /\ \A i \in 1..Len(text) : text[i] \in Word => Lower(text)[i] \in Word
<1>1. Len(text) \in Nat /\ DOMAIN text = 1..Len(text) /\ text \in [1..Len(text) -> Char]
  BY DEF Text
<1>2. Lower(text) \in [1..Len(text) -> Char]
  <2>1. \A i \in 1..Len(text) : (IF text[i] = "A" THEN "a" ELSE text[i]) \in Char
    <3>1. "a" \in Char
      BY DocsSearchAssumption DEF Word
    <3>2. \A i \in 1..Len(text) : text[i] \in Char
      BY <1>1
    <3> QED BY <3>1, <3>2
  <2> QED BY <2>1, <1>1 DEF Lower
<1>3. Lower(text) \in Text /\ Len(Lower(text)) = Len(text)
  BY <1>1, <1>2 DEF Text
<1>4. \A i \in 1..Len(text) : text[i] \in Word => Lower(text)[i] \in Word
  BY <1>1 DEF Lower, Word
<1> QED BY <1>2, <1>3, <1>4

\* A prefix is its text up to its own length.
LEMMA PrefixAt ==
  ASSUME NEW s \in Text, NEW w \in Text, IsPrefix(s, w)
  PROVE  Len(s) <= Len(w) /\ \A k \in 1..Len(s) : s[k] = w[k]
<1> DEFINE n == Len(s)
<1>1. n \in Nat /\ n <= Len(w) /\ SubSeq(s, 1, n) = SubSeq(w, 1, n)
  BY DEF IsPrefix, Text
<1>2. \A k \in 1..n : SubSeq(s, 1, n)[k] = s[k] /\ SubSeq(w, 1, n)[k] = w[k]
  BY <1>1 DEF Text
<1> QED BY <1>1, <1>2

\* Where the first piece of a text that begins with a word character ends.
FirstEnd(s, j) ==
  /\ j \in DOMAIN s
  /\ \A k \in 1..j : s[k] \notin Separators
  /\ j + 1 \notin DOMAIN s \/ s[j + 1] \in Separators

\* There is such a place: the last up to which nothing separates.
LEMMA FirstEndExists ==
  ASSUME NEW s \in Text, s # <<>>, s[1] \in Word
  PROVE  \E j \in 1..Len(s) : FirstEnd(s, j)
<1> DEFINE S == {j \in 1..Len(s) : \A k \in 1..j : s[k] \notin Separators}
<1>1. Len(s) \in Nat /\ Len(s) >= 1 /\ DOMAIN s = 1..Len(s)
  BY DEF Text
<1>2. 1 \in S
  <2>1. s[1] \notin Separators
    BY DEF Word, Separators
  <2>2. \A k \in 1..1 : k = 1
    OBVIOUS
  <2> QED BY <2>1, <2>2, <1>1
<1>3. PICK j \in S : \A i \in S : j >= i
  <2>1. S \in SUBSET (0..Len(s)) /\ S # {}
    BY <1>1, <1>2
  <2> HIDE DEF S
  <2> QED BY <2>1, <1>1, Greatest
<1>4. ASSUME j + 1 \in 1..Len(s), s[j + 1] \notin Separators PROVE FALSE
  <2>1. j + 1 \in S
    BY <1>4, <1>1
  <2> QED BY <2>1, <1>3, <1>1
<1> QED BY <1>1, <1>3, <1>4 DEF FirstEnd

\* The beginning of a text.
LEMMA Beginning ==
  ASSUME NEW s \in Text, NEW m \in 1..Len(s)
  PROVE  SubSeq(s, 1, m) = [k \in 1..m |-> s[k]] /\ SubSeq(s, 1, m) \in Text
         /\ Len(SubSeq(s, 1, m)) = m
<1>1. Len(s) \in Nat /\ m \in Nat /\ 1 + m - 1 = m /\ (m + 1) - 1 = m
  BY DEF Text
<1>2. SubSeq(s, 1, m) \in Text /\ Len(SubSeq(s, 1, m)) = m
  BY <1>1 DEF Text
<1>3. \A k \in 1..m : SubSeq(s, 1, m)[k] = s[k]
  BY <1>1 DEF Text
<1>4. SubSeq(s, 1, m) \in [1..m -> Char]
  <2>1. \A x \in Seq(Char) : x \in [1..Len(x) -> Char]
    OBVIOUS
  <2> QED BY <1>2, <2>1 DEF Text
<1> QED BY <1>2, <1>3, <1>4

\* The first token: from the first letter to the last word character before a separator.
LEMMA FirstToken ==
  ASSUME NEW text \in Text, NEW s, s = Lower(text), NEW j \in 1..Len(s), FirstEnd(s, j),
         s[1] \in Word, NEW m \in 1..j, s[m] \in Word, \A k \in 1..j : s[k] \in Word => k <= m
  PROVE  SubSeq(s, 1, m) \in tokens(text)
<1> DEFINE p == SubSeq(s, 1, j)
<1> DEFINE words == {i \in DOMAIN p : p[i] \in Word}
<1>1. s \in Text /\ Len(s) \in Nat /\ DOMAIN s = 1..Len(s) /\ m \in 1..Len(s)
  BY Lowered DEF Text
<1>2. p = [k \in 1..j |-> s[k]] /\ SubSeq(s, 1, m) = [k \in 1..m |-> s[k]] /\ p \in Text
      /\ Len(p) = j
  BY <1>1, Beginning
<1>3. 1 \in words /\ m \in words /\ \A i \in words : 1 <= i /\ i <= m
  BY <1>2
<1>4. words # {} /\ Min(words) = 1 /\ Max(words) = m
  <2> HIDE DEF words
  <2>1. words \subseteq Nat
    BY <1>2 DEF words
  <2>2. Min(words) = 1
    <3>1. \E x \in words : \A y \in words : x <= y
      BY <1>3, <2>1
    <3>2. PICK x \in words : x = Min(words) /\ \A y \in words : x <= y
      BY <3>1 DEF Min
    <3>3. x <= 1 /\ 1 <= x /\ x \in Nat /\ 1 \in Nat
      BY <3>2, <1>3, <2>1
    <3> QED BY <3>2, <3>3
  <2>3. Max(words) = m
    <3>1. \E x \in words : \A y \in words : x >= y
      BY <1>3, <2>1
    <3>2. PICK x \in words : x = Max(words) /\ \A y \in words : x >= y
      BY <3>1 DEF Max
    <3>3. x >= m /\ m >= x /\ x \in Nat /\ m \in Nat
      BY <3>2, <1>3, <2>1
    <3> QED BY <3>2, <3>3
  <2> QED BY <1>3, <2>2, <2>3
<1>5. SubSeq(p, 1, m) = SubSeq(s, 1, m)
  BY <1>2, <1>1, Beginning
<1>6. run(p) = SubSeq(s, 1, m)
  BY <1>4, <1>5 DEF run, trimmer
<1>7. SubSeq(s, 1, m) # <<>>
  BY <1>1, Beginning
<1>8. \E q \in (DOMAIN s) \X (DOMAIN s) :
        /\ q = <<1, j>>
        /\ q[1] - 1 \notin DOMAIN s
        /\ q[2] + 1 \notin DOMAIN s \/ s[q[2] + 1] \in Separators
        /\ \A k \in q[1]..q[2] : k \in DOMAIN s /\ s[k] \notin Separators
  <2>1. <<1, j>> \in (DOMAIN s) \X (DOMAIN s)
    BY <1>1
  <2> QED BY <2>1, <1>1 DEF FirstEnd
<1>9. PICK q \in (DOMAIN s) \X (DOMAIN s) :
        /\ q = <<1, j>>
        /\ q[1] - 1 \notin DOMAIN s
        /\ q[2] + 1 \notin DOMAIN s \/ s[q[2] + 1] \in Separators
        /\ \A k \in q[1]..q[2] : k \in DOMAIN s /\ s[k] \notin Separators
  BY <1>8
<1>10. SubSeq(s, q[1], q[2]) = p
  BY <1>9
<1> HIDE DEF p, words
<1> QED BY <1>6, <1>7, <1>9, <1>10 DEF tokens

\* A piece that begins with a word character has a last one.
LEMMA LastOfWord ==
  ASSUME NEW s \in Text, NEW j \in 1..Len(s), s[1] \in Word
  PROVE  \E m \in 1..j : s[m] \in Word /\ \A k \in 1..j : s[k] \in Word => k <= m
<1> DEFINE S == {i \in 1..j : s[i] \in Word}
<1>1. Len(s) \in Nat /\ j \in Nat /\ 1 \in S /\ S \in SUBSET (0..j)
  BY DEF Text
<1>2. PICK m \in S : \A k \in S : m >= k
  <2> HIDE DEF S
  <2> QED BY <1>1, Greatest
<1> QED BY <1>2

\* The words of a text that begins another are, the first of them at least, the
\* beginnings of words of the other.
LEMMA Spelled ==
  ASSUME NEW a \in Text, NEW b \in Text, a # <<>>, a[1] \in Word, IsPrefix(Lower(a), Lower(b))
  PROVE  \E t \in tokens(a) : \E w \in tokens(b) : IsPrefix(t, w)
<1> DEFINE s == Lower(a)
<1> DEFINE r == Lower(b)
<1>1. /\ s \in Text /\ Len(s) \in Nat /\ Len(s) >= 1 /\ DOMAIN s = 1..Len(s) /\ s[1] \in Word
      /\ r \in Text /\ Len(r) \in Nat /\ DOMAIN r = 1..Len(r)
  BY Lowered DEF Text
<1>2. Len(s) <= Len(r) /\ \A k \in 1..Len(s) : s[k] = r[k]
  BY <1>1, PrefixAt
<1> HIDE DEF s, r
<1>3. r[1] \in Word /\ s # <<>> /\ r # <<>>
  BY <1>1, <1>2
<1>4. PICK j \in 1..Len(s) : FirstEnd(s, j)
  BY <1>1, <1>3, FirstEndExists
<1>5. PICK e \in 1..Len(r) : FirstEnd(r, e)
  BY <1>1, <1>3, FirstEndExists
<1>6. j <= e
  <2> SUFFICES ASSUME e < j PROVE FALSE
    BY <1>1
  <2>1. e + 1 \in 1..j /\ e + 1 \in 1..Len(s) /\ e + 1 \in 1..Len(r)
    BY <1>1, <1>2
  <2>2. s[e + 1] \notin Separators /\ r[e + 1] \in Separators
    BY <2>1, <1>1, <1>4, <1>5 DEF FirstEnd
  <2> QED BY <2>1, <2>2, <1>2
<1>7. PICK m \in 1..j : s[m] \in Word /\ \A k \in 1..j : s[k] \in Word => k <= m
  BY <1>1, LastOfWord
<1>8. PICK n \in 1..e : r[n] \in Word /\ \A k \in 1..e : r[k] \in Word => k <= n
  BY <1>1, <1>3, LastOfWord
<1>9. m <= n
  <2>1. m \in 1..e /\ m \in 1..Len(s)
    BY <1>1, <1>6
  <2> QED BY <2>1, <1>2, <1>7, <1>8
<1> DEFINE t == SubSeq(s, 1, m)
<1> DEFINE w == SubSeq(r, 1, n)
<1>10. t \in tokens(a) /\ w \in tokens(b)
  <2>1. t \in tokens(a)
    BY <1>1, <1>4, <1>7, FirstToken DEF s
  <2>2. w \in tokens(b)
    BY <1>1, <1>3, <1>5, <1>8, FirstToken DEF r
  <2> QED BY <2>1, <2>2
<1>11. IsPrefix(t, w)
  <2>1. m \in 1..Len(s) /\ n \in 1..Len(r) /\ m \in 1..n
    BY <1>1, <1>9
  <2>2. t = [k \in 1..m |-> s[k]] /\ t \in Text /\ Len(t) = m
    BY <1>1, <2>1, Beginning
  <2>3. w = [k \in 1..n |-> r[k]] /\ w \in Text /\ Len(w) = n
    BY <1>1, <2>1, Beginning
  <2> HIDE DEF t, w
  <2>4. SubSeq(t, 1, m) = [k \in 1..m |-> t[k]] /\ SubSeq(w, 1, m) = [k \in 1..m |-> w[k]]
    BY <2>1, <2>2, <2>3, Beginning
  <2>5. \A k \in 1..m : t[k] = w[k]
    BY <2>1, <2>2, <2>3, <1>1, <1>2
  <2>6. SubSeq(t, 1, Len(t)) = SubSeq(w, 1, Len(t))
    BY <2>2, <2>4, <2>5
  <2>7. Len(t) <= Len(w)
    BY <2>1, <2>2, <2>3
  <2> QED BY <2>6, <2>7 DEF IsPrefix
<1> QED BY <1>10, <1>11

\* What begins one of an item's words in a field finds the item.
LEMMA Indexed ==
  ASSUME NEW text, NEW i \in DOMAIN Docs, NEW f \in Field \cap DOMAIN Docs[i],
         NEW t \in tokens(text), NEW w \in tokens(Docs[i][f]), IsPrefix(t, w)
  PROVE  Docs[i]["fullname"] \in search(text)
<1> DEFINE e == [field |-> f, word |-> w, ref |-> Docs[i]["fullname"]]
<1>1. e \in addDoc(Docs[i])
  BY DEF addDoc
<1>2. e \in searchIndex
  BY <1>1 DEF searchIndex
<1>3. e \in expandToken(t)
  BY <1>2 DEF expandToken
<1> QED BY <1>3 DEF search

\* Spelling out a name from its first letter on never loses what it names; and every
\* hit has a word that begins as a word of the term does.
THEOREM SpellingFinds == Spec => []NamesAreFound
<1>1. SearchInv => NamesAreFound
  <2> SUFFICES ASSUME SearchInv, shown.what = "hits" PROVE NamesAreFound
    BY DEF NamesAreFound
  <2>1. shown.term = term /\ term # NoTerm /\ term \in Terms /\ shown.hits = search(shown.term)
    BY DEF SearchInv, SearchTypeOK, ShownIsCurrent, HitsInv
  <2>2. shown.term \in Text /\ shown.term # <<>>
    BY <2>1, DocsSearchAssumption DEF NoTerm, Text
  <2>3. ASSUME NEW i \in DOMAIN Docs, NEW f \in {"fullname", "qualname"} \cap DOMAIN Docs[i],
               IsPrefix(Lower(shown.term), Lower(Docs[i][f])), shown.term[1] \in Word
        PROVE  Docs[i]["fullname"] \in shown.hits
    <3>1. f \in Field \cap DOMAIN Docs[i] /\ Docs[i][f] \in Text
      BY <2>3, DocsSearchAssumption DEF Text
    <3>2. PICK t \in tokens(shown.term) : \E w \in tokens(Docs[i][f]) : IsPrefix(t, w)
      BY <2>2, <2>3, <3>1, Spelled
    <3>3. PICK w \in tokens(Docs[i][f]) : IsPrefix(t, w)
      BY <3>2
    <3> QED BY <2>1, <3>1, <3>3, Indexed
  <2>4. ASSUME NEW ref \in shown.hits
        PROVE  \E i \in DOMAIN Docs :
                 /\ Docs[i]["fullname"] = ref
                 /\ \E f \in DOMAIN Docs[i] :
                      \E t \in tokens(shown.term), w \in tokens(Docs[i][f]) : IsPrefix(t, w)
    <3>1. ref \in search(shown.term)
      BY <2>1
    <3> QED BY <3>1, Found
  <2> QED BY <2>3, <2>4 DEF NamesAreFound
<1> QED BY <1>1, SearchInvariance, PTL

=============================================================================
