-------------------------------- MODULE Wit ---------------------------------
(***************************************************************************)
(* The renderer of interface types (wit.py): canonical_signature over the  *)
(* JSON that wasm-tools prints of a component's world.  Its text is hashed *)
(* into exports claims, so two types must have one text exactly when they  *)
(* are one type.                                                           *)
(*                                                                         *)
(* A text is a sequence of symbols.  A type reference is <<"name", p>> or  *)
(* <<"index", n>>, n counting from 0 in the table of types; an entry of    *)
(* the table is <<"alias", p>>, <<"list", ref>>, <<"record", fields>> with *)
(* each field <<name, ref>>, or <<"other">> (an option, a variant, ...).   *)
(* The world is built step by step: wasm-tools puts a type in the table    *)
(* after the types it is made of.                                          *)
(***************************************************************************)
EXTENDS Naturals, FiniteSets, SequencesExt

CONSTANTS
  Primitive,   \* type keywords, rendered as they are
  Opaque,      \* other keywords, as that of a resource
  Field,       \* names of the fields of records
  Function,    \* names of functions
  Interfaces,  \* the tables of interfaces a world may have: sequences of functions from
               \*   some of Function to [params |-> refs, result |-> ref or NoResult]
  MaxTypes,    \* bounds on the table of types
  MaxExports   \*   and on the exports of the world

NoResult == <<"none">>
Abstain == <<>>

VARIABLES types, interfaces, exports
vars == <<types, interfaces, exports>>

-----------------------------------------------------------------------------

Join(texts) == FoldLeft(LAMBDA s, t : IF s = <<>> THEN t ELSE s \o <<", ">> \o t, <<>>, texts)

InTable(table, ref) == ref[2] \in 0..(Len(table) - 1)

RECURSIVE render_ref(_, _)

\* Mutant: the names of fields are dropped, as those of parameters are.
render_fields_bare(table, fields) ==
  LET texts == [i \in DOMAIN fields |-> render_ref(table, fields[i][2])] IN
  IF \E i \in DOMAIN texts : texts[i] = Abstain THEN Abstain
  ELSE <<"record { ">> \o Join(texts) \o <<" }">>

render_fields(table, fields) ==
  LET texts == [i \in DOMAIN fields |-> render_ref(table, fields[i][2])] IN
  IF \E i \in DOMAIN texts : texts[i] = Abstain THEN Abstain
  ELSE <<"record { ">> \o Join([i \in DOMAIN fields |-> <<fields[i][1], ": ">> \o texts[i]])
         \o <<" }">>

\* Mutant: an alias renders as the name it has.
render_kind_named(table, kind) ==
  CASE kind[1] = "alias"  -> <<kind[2]>>
    [] kind[1] = "list"   -> LET inner == render_ref(table, kind[2]) IN
                             IF inner = Abstain THEN Abstain ELSE <<"list<">> \o inner \o <<">">>
    [] kind[1] = "record" -> render_fields(table, kind[2])
    [] kind[1] = "other"  -> Abstain

render_kind(table, kind) ==
  CASE kind[1] = "alias"  -> IF kind[2] \in Primitive THEN <<kind[2]>> ELSE Abstain
    [] kind[1] = "list"   -> LET inner == render_ref(table, kind[2]) IN
                             IF inner = Abstain THEN Abstain ELSE <<"list<">> \o inner \o <<">">>
    [] kind[1] = "record" -> render_fields(table, kind[2])
    [] kind[1] = "other"  -> Abstain

render_ref(table, ref) ==
  CASE ref[1] = "name"  -> IF ref[2] \in Primitive THEN <<ref[2]>> ELSE Abstain
    [] ref[1] = "index" -> IF InTable(table, ref) THEN render_kind(table, table[ref[2] + 1])
                                                  ELSE Abstain

\* Mutant: a single parameter is a tuple too.
params_text_wrapped(texts) == <<"(">> \o Join(texts) \o <<")">>

\* A single parameter is its type; any other number of them is a tuple.
params_text(texts) == IF Len(texts) = 1 THEN texts[1] ELSE <<"(">> \o Join(texts) \o <<")">>

\* Mutant: the last interface that has the function speaks for it.
find_last(function, ids, table) ==
  LET have == {i \in DOMAIN ids : ids[i] \in DOMAIN table /\ function \in DOMAIN table[ids[i]]}
  IN IF have = {} THEN Abstain ELSE table[ids[Max(have)]][function]

\* The first exported interface that has the function.  (Ids count from 1 here.)
find_function(function, ids, table) ==
  LET have == {i \in DOMAIN ids : ids[i] \in DOMAIN table /\ function \in DOMAIN table[ids[i]]}
  IN IF have = {} THEN Abstain ELSE table[ids[Min(have)]][function]

signature(table, fn) ==
  LET texts  == [i \in DOMAIN fn.params |-> render_ref(table, fn.params[i])]
      result == IF fn.result = NoResult THEN <<>> ELSE render_ref(table, fn.result)
  IN IF \/ \E i \in DOMAIN texts : texts[i] = Abstain
        \/ fn.result # NoResult /\ result = Abstain
     THEN Abstain ELSE <<params_text(texts), result>>

canonical_signature(function) ==
  LET fn == find_function(function, exports, interfaces) IN
  IF fn = Abstain THEN Abstain ELSE signature(types, fn)

-----------------------------------------------------------------------------

Refs == {<<"name", p>> : p \in Primitive \cup Opaque} \cup
        {<<"index", n>> : n \in 0..(Len(types) - 1)}

Kinds ==
  {<<"alias", p>> : p \in Primitive \cup Opaque} \cup {<<"other">>} \cup
  {<<"list", r>> : r \in Refs} \cup
  {<<"record", fs>> : fs \in {gs \in BoundedSeq(Field \X Refs, 2) :
     Len(gs) = 2 => gs[1][1] # gs[2][1]}}

Init ==
  /\ types = <<>>
  /\ interfaces \in Interfaces
  /\ exports = <<>>

AddType ==
  /\ Len(types) < MaxTypes
  /\ \E k \in Kinds : types' = Append(types, k)
  /\ UNCHANGED <<interfaces, exports>>

\* An export that is not of an interface in the table is passed over.
AddExport ==
  /\ Len(exports) < MaxExports
  /\ \E n \in 1..(Len(interfaces) + 1) : exports' = Append(exports, n)
  /\ UNCHANGED <<types, interfaces>>

Next == AddType \/ AddExport

Spec == Init /\ [][Next]_vars

-----------------------------------------------------------------------------

\* The type a reference stands for, with nothing left of the table.
RECURSIVE Resolved(_)
Resolved(ref) ==
  LET kind == IF ref[1] = "name" THEN <<"alias", ref[2]>> ELSE types[ref[2] + 1] IN
  CASE kind[1] \in {"alias", "other"} -> kind
    [] kind[1] = "list"   -> <<"list", Resolved(kind[2])>>
    [] kind[1] = "record" ->
         <<"record", [i \in DOMAIN kind[2] |-> <<kind[2][i][1], Resolved(kind[2][i][2])>>]>>

Lists == BoundedSeq(Refs, 2)
Texts(refs) == [i \in DOMAIN refs |-> render_ref(types, refs[i])]
Rendered(refs) == Abstain \notin Range(Texts(refs))

\* Two lists of parameters have one text exactly when they are one list of types: an alias
\* or another place in the table makes no difference; a field's name or place, and how
\* lists and records nest, does.  With a single parameter that is its type's text, so a
\* result is taken for the input of another function exactly when their types are one.
OneTextPerType ==
  LET resolved(refs) == [i \in DOMAIN refs |-> Resolved(refs[i])]
      lists   == {<<params_text(Texts(refs)), resolved(refs)>> :
                    refs \in {l \in Lists : Rendered(l)}}
      results == {<<render_ref(types, r), <<Resolved(r)>>>> :
                    r \in {q \in Refs : Rendered(<<q>>)}}
  IN \A p \in lists, q \in lists \cup results : p[1] = q[1] <=> p[2] = q[2]

\* The entries of the table a set of references leads to.
Parts(ref) ==
  LET kind == types[ref[2] + 1] IN
  CASE ref[1] = "name" -> {}
    [] ref[1] = "index" /\ kind[1] = "list"   -> {kind[2]}
    [] ref[1] = "index" /\ kind[1] = "record" -> {kind[2][i][2] : i \in DOMAIN kind[2]}
    [] OTHER -> {}
RECURSIVE LeadsTo(_)
LeadsTo(refs) == LET more == refs \cup UNION {Parts(r) : r \in refs} IN
                 IF more = refs THEN refs ELSE LeadsTo(more)
Unsupported(ref) ==
  \/ ref[1] = "name" /\ ref[2] \notin Primitive
  \/ ref[1] = "index" /\ types[ref[2] + 1] \in
       {<<"other">>} \cup {<<"alias", p>> : p \in Opaque}

\* The renderer gives no text exactly when the types lead, through any number of lists and
\* records, to one it does not support: it never guesses, and never abstains for less.
AbstainsExactly ==
  \A refs \in Lists, result \in Refs \cup {NoResult} :
    LET fn == [params |-> refs, result |-> result] IN
    signature(types, fn) = Abstain <=>
      \E r \in LeadsTo(ToSet(refs) \cup ({result} \ {NoResult})) : Unsupported(r)

\* A supported type, and no other, has a text, and it is its own.
TextIsTheType == OneTextPerType /\ AbstainsExactly

\* A signature that was witnessed stands, whatever the component comes to define and
\* export after it.
SignatureStays ==
  [][\A f \in Function : canonical_signature(f) # Abstain =>
       canonical_signature(f)' = canonical_signature(f)]_vars

=============================================================================
