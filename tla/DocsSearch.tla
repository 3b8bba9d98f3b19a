----------------------------- MODULE DocsSearch -----------------------------
(***************************************************************************)
(* The search box of the generated documentation: docs/search.js, which    *)
(* puts the documented items in an elasticlunr index and returns a search  *)
(* function, and the script of every page (docs/desmata.html), which loads *)
(* it when it is first needed, keeps the term in the URL and shows what    *)
(* was found.  A handler runs to its end before the next event.            *)
(*                                                                         *)
(* A text is a sequence of symbols; a tag is one symbol.  Scores, by which *)
(* the page orders the hits and picks the ten it lists, are left out: a    *)
(* result is known by its place.  The items come as a plain array, so the  *)
(* branch for a prebuilt index is never taken.                             *)
(***************************************************************************)
EXTENDS Naturals, SequencesExt

CONSTANTS
  Char,     \* the symbols of a text
  Docs,     \* the items, in order: functions from some of Field to texts
  Field,    \* the fields indexed
  Stop,     \* the words elasticlunr leaves out by default
  Terms     \* the terms typed

NoTerm == <<>>
Separators == {" ", ".", "_", ",", "<p>"}
Word == {"a", "A", "b", "o", "r"}

\* Every item has the name that setRef("fullname") makes its key.
ASSUME DocsSearchAssumption ==
  /\ Word \subseteq Char
  /\ {"fullname", "qualname"} \subseteq Field
  /\ IsFiniteSet(DOMAIN Docs)
  /\ \A i \in DOMAIN Docs :
       "fullname" \in DOMAIN Docs[i] /\ \A f \in DOMAIN Docs[i] : Docs[i][f] \in Seq(Char)
  /\ Terms \subseteq Seq(Char)

VARIABLES
  term,     \* the URL's `search' parameter
  script,   \* search.js: "unasked", "loading", "ready" or "failed"
  shown     \* the page's content: its own, or what onInput put there
vars == <<term, script, shown>>

-----------------------------------------------------------------------------
(* elasticlunr, as search.js sets it up *)

Lower(text) == [i \in DOMAIN text |-> IF text[i] = "A" THEN "a" ELSE text[i]]

\* The pipeline's one function: what is not a word character is taken off both ends.
trimmer(t) ==
  LET words == {i \in DOMAIN t : t[i] \in Word} IN
  IF words = {} THEN <<>> ELSE SubSeq(t, Min(words), Max(words))

\* Mutant: the stop word filter is left in the pipeline.
run_stops(t) == IF trimmer(t) \in Stop THEN <<>> ELSE trimmer(t)

run(t) == trimmer(t)

\* The tokens of a text.  The empty ones are kept at the trie's root, where no
\* search looks, and are left out.
tokens(text) ==
  LET s == Lower(text)
      Cut(i) == i \notin DOMAIN s \/ s[i] \in Separators
      ends == {p \in (DOMAIN s) \X (DOMAIN s) :
                 /\ Cut(p[1] - 1) /\ Cut(p[2] + 1)
                 /\ \A k \in p[1]..p[2] : ~Cut(k)}
      pieces == {SubSeq(s, p[1], p[2]) : p \in ends}
  IN {run(p) : p \in pieces} \ {<<>>}

\* addDoc, for every item.  The trie of a field, a node for every prefix and the items at
\* the nodes where their tokens end, is the entries of that field.
addDoc(doc) ==
  UNION {{[field |-> f, word |-> w, ref |-> doc["fullname"]] : w \in tokens(doc[f])} :
           f \in Field \cap DOMAIN doc}

searchIndex == UNION {addDoc(Docs[i]) : i \in DOMAIN Docs}

\* Mutant: `expand' is not asked for.
expandTokenNot(t) == {e \in searchIndex : e.word = t}

\* The indexed words that begin with t.
expandToken(t) == {e \in searchIndex : IsPrefix(t, e.word)}

\* An item is a hit if any field has a word for any word of the term (OR).
search(text) == {e.ref : e \in UNION {expandToken(t) : t \in tokens(text)}}

-----------------------------------------------------------------------------
(* The page *)

\* What is shown: the page's own content, a message, or a term's hits, with the place
\* of the result that is focused (0: none is).
Message(m) == [what |-> m, term |-> NoTerm, hits |-> {}, focused |-> 0]

onInput(t, s) ==
  IF t = NoTerm THEN Message("page")
  ELSE IF s = "failed" THEN Message("error")
  ELSE IF s # "ready" THEN Message("searching")
  ELSE [what |-> "hits", term |-> t, hits |-> search(t), focused |-> 0]

\* How many results are listed.
Listed == Min({10, Cardinality(shown.hits)})

Init ==
  /\ term \in Terms \cup {NoTerm}
  /\ script = IF term = NoTerm THEN "unasked" ELSE "loading"
  /\ shown = onInput(term, script)

\* The box gets the focus for the first time: initialize() asks for search.js.
Focus ==
  /\ script = "unasked"
  /\ script' = "loading"
  /\ UNCHANGED <<term, shown>>

\* Mutant: initialize() ends without a last onInput().
LoadQuiet ==
  /\ script = "loading"
  /\ script' \in {"ready", "failed"}
  /\ UNCHANGED <<term, shown>>

\* search.js has run, or could not be fetched; initialize() goes on.
Load ==
  /\ script = "loading"
  /\ script' \in {"ready", "failed"}
  /\ shown' = onInput(term, script')
  /\ UNCHANGED term

\* The box changes: blanks alone take the term out of the URL.
Type(text) ==
  /\ script # "unasked"
  /\ term' = IF \A i \in DOMAIN text : text[i] = " " THEN NoTerm ELSE text
  /\ shown' = onInput(term', script)
  /\ UNCHANGED script

\* popstate, registered from the start: the history holds a term this page had before,
\* or none.  Nobody asks for search.js: after a reload where there was no term, going
\* forward to one shows `Searching' until the box gets the focus.
Back(text) ==
  /\ term' = text
  /\ shown' = onInput(term', script)
  /\ UNCHANGED script

\* A heading is chosen in the sidebar; initialize() registers this when it ends.
Choose ==
  /\ script \in {"ready", "failed"}
  /\ term' = NoTerm
  /\ shown' = onInput(term', script)
  /\ UNCHANGED script

\* An arrow key, or Enter while no result is focused.  (Where nothing is listed the
\* handler raises a TypeError and changes nothing.)
Mark ==
  /\ script # "unasked"
  /\ \E i \in 1..Listed :
       /\ IF shown.focused = 0 THEN i = 1 ELSE i \in {shown.focused - 1, shown.focused + 1}
       /\ shown' = [shown EXCEPT !.focused = i]
  /\ UNCHANGED <<term, script>>

\* Enter on the focused result: the page it is on is loaded.
Follow ==
  /\ shown.focused > 0
  /\ term' = NoTerm
  /\ script' = "unasked"
  /\ shown' = onInput(term', script')

Next ==
  \/ Focus \/ Load \/ Choose \/ Mark \/ Follow
  \/ \E text \in Terms : Type(text)
  \/ \E text \in Terms \cup {NoTerm} : Back(text)

Spec == Init /\ [][Next]_vars

-----------------------------------------------------------------------------
(* Properties *)

\* However typing, going back and the script's arrival are interleaved, the
\* page shows the hits of the term it has now and of no earlier one, with the
\* focus on one of them or on none, an error only when there is no script, and
\* never says that it searches when the script is there or could not be had.
ShownIsCurrent ==
  /\ shown.what = "page" <=> term = NoTerm
  /\ shown.what = "hits" => shown.term = term
  /\ shown.focused <= Listed
  /\ shown.what = "error" => script = "failed"
  /\ shown.what = "searching" => script \in {"unasked", "loading"}

\* Spelling out an item's name or qualified name, from its first letter on,
\* never loses the item, whatever the words of the name and in either case; and
\* a hit has, in some field, a word that begins as a word of the term does.
NamesAreFound ==
  shown.what = "hits" =>
    /\ \A i \in DOMAIN Docs : \A f \in {"fullname", "qualname"} \cap DOMAIN Docs[i] :
         (IsPrefix(Lower(shown.term), Lower(Docs[i][f])) /\ shown.term[1] \in Word) =>
           Docs[i]["fullname"] \in shown.hits
    /\ \A ref \in shown.hits : \E i \in DOMAIN Docs :
         /\ Docs[i]["fullname"] = ref
         /\ \E f \in DOMAIN Docs[i] : \E t \in tokens(shown.term), w \in tokens(Docs[i][f]) :
              IsPrefix(t, w)

=============================================================================
