------------------------------ MODULE MCCodec -------------------------------
(* The handlers of texts in one run: Wave and Wit, the two codecs whose texts *)
(* go into claims, and the search of the documentation.  They share no state: *)
(* a behaviour is one of Wave, one of Wit or one of DocsSearch.               *)
EXTENDS Naturals, FiniteSets, DocsSearch

CONSTANT MaxEdits, Primitive, Opaque, FieldName, MaxTypes, MaxExports

Symbol == {"[", "]", "(", ")", "{", "}", "\"", "'", "\\", ",", ":", " ", "\n", "+", ".", "0",
           "1", "-", "n", "u", "x", "true", "false", "none", "some", "inf", "nan", "U+1"}
One == <<"number", <<"1">>>>
Scalars == {<<"none">>, <<"bool", TRUE>>, One, <<"number", <<"-", "1", "0">>>>,
            <<"number", <<"0", ".", "1">>>>, <<"number", <<"inf">>>>, <<"number", <<"-", "inf">>>>,
            <<"number", <<"nan">>>>}
Strings == {<<"string", s>> : s \in BoundedSeq({"x", "n", "u", "\"", "\\", "\n"}, 2)}
Simple == Scalars \cup {<<"string", <<>>>>, <<"string", <<"\\">>>>}
Lists(S) == {<<"list", s>> : s \in BoundedSeq(S, 2)}
Records(S) == {<<"record", <<>>>>} \cup {<<"record", <<<<<<"x">>, v>>>>>> : v \in S} \cup
  {<<"record", <<<<<<"x", "-", "1">>, v>>, <<<<"n">>, w>>>>>> : v, w \in S}
Nested == Lists({<<"list", <<>>>>, <<"list", <<One>>>>,
                 <<"record", <<<<<<"u">>, <<"none">>>>>>>>})
Value == Scalars \cup Strings \cup Lists(Simple) \cup Records(Simple) \cup Nested
Printed == {
  <<<<"some", "(", "some", "(", "1", ")", ")">>, One>>,
  <<<<"(", "1", ",", "\n", "'", "x", "'", ")">>, <<"list", <<One, <<"string", <<"x">>>>>>>>>>,
  <<<<"'", "\\", "n", "'">>, <<"string", <<"\n">>>>>>,
  <<<<"\"", "\\", "u", "{", "0", "1", "}", "x", "\"">>, <<"string", <<"U+1", "x">>>>>>,
  <<<<"{", "x", ":", "0", "1", ",", "n", ":", "x", ",", "x", ":", "+", "1", ".", "0", "}">>,
    <<"record", <<<<<<"x">>, <<"number", <<"1", ".", "0">>>>>>,
                  <<<<"n">>, <<"string", <<"x">>>>>>>>>>>>,
  <<<<" ", "[", "x", "-", "1", ",", "-", "0", "]">>,
    <<"list", <<<<"string", <<"x", "-", "1">>>>, <<"number", <<"0">>>>>>>>>>,
  <<<<>>, <<"none">>>>}

Function == {"run", "init"}
Fn(params, result) == [params |-> params, result |-> result]
Interfaces == {
  <<[run |-> Fn(<<<<"name", "u8">>>>, <<"index", 0>>)],
    [run |-> Fn(<<>>, <<"none">>),
     init |-> Fn(<<<<"index", 1>>, <<"index", 0>>>>, <<"none">>)]>>}

\* A module, a class in it, a method whose name has a word that is left out of
\* an index by default, and a function named by such a word.
MCDocs == <<
  [fullname |-> <<"b">>, doc |-> <<"<p>", "o", "r", ":", " ", "a", "b", "<p>">>],
  [fullname |-> <<"b", ".", "A", "o">>, qualname |-> <<"A", "o">>, bases |-> <<"r", ".", "A">>],
  [fullname |-> <<"b", ".", "A", "o", ".", "a", "_", "o", "r", "_", "b">>,
   qualname |-> <<"A", "o", ".", "a", "_", "o", "r", "_", "b">>,
   signature |-> <<"<p>", "r", ",", "b">>, doc |-> <<"<p>", "o", "a", "<p>">>],
  [fullname |-> <<"b", ".", "o", "r">>, qualname |-> <<"o", "r">>,
   annotation |-> <<":", " ", "r", ".", "A">>, default_value |-> <<"b">>]>>
MCChar == Word \cup Separators \cup {":"}
MCField == {"qualname", "fullname", "annotation", "default_value", "signature", "bases", "doc"}
MCStop == {<<"o", "r">>, <<"a">>}
ItemNames == UNION {{MCDocs[i][f] : f \in {"fullname", "qualname"} \cap DOMAIN MCDocs[i]} : i \in DOMAIN MCDocs}
MCTerms == {<<" ">>, <<"_">>, <<":", "a">>, <<"r", " ", "o", "a">>} \cup
  UNION {Prefixes(n) \ {<<>>} : n \in ItemNames \cup {<<"a", "o", ".", "a", "_", "o">>}}

VARIABLES value, text, edits, cut, types, interfaces, exports

Wave == INSTANCE Wave
Wit == INSTANCE Wit WITH Field <- FieldName

WaveStill == text = <<>> /\ edits = 0
WitStill == types = <<>> /\ exports = <<>>
SearchStill == script = "unasked" /\ term = NoTerm

CodecInit == Wave!Init /\ Wit!Init /\ Init /\ (WaveStill \/ SearchStill)

WaveMoves == WitStill /\ SearchStill /\ Wave!Next
               /\ UNCHANGED <<types, interfaces, exports, term, script, shown>>
WitMoves == WaveStill /\ SearchStill /\ Wit!Next
               /\ UNCHANGED <<value, text, edits, cut, term, script, shown>>
SearchMoves == WaveStill /\ WitStill /\ Next
               /\ UNCHANGED <<value, text, edits, cut, types, interfaces, exports>>

CodecNext == WaveMoves \/ WitMoves \/ SearchMoves

CodecSpec ==
  CodecInit /\ [][CodecNext]_<<value, text, edits, cut, types, interfaces, exports, term, script, shown>>

\* The properties of the two codecs, which their modules state and explain in their parts.
\* Texts that mean one value are read as that value, and written as one text.
RoundTrip == Wave!RoundTrip
\* A text is read whole or not at all.
WholeTextOnly == Wave!WholeTextOnly
\* A supported type, and no other, has a text, and it is its own.  (It is about the table
\* of types alone, and every table is met before anything is exported.)
TextIsTheType == (WaveStill /\ exports = <<>>) => Wit!TextIsTheType
\* A signature that was witnessed stands, whatever the component comes to export.
SignatureStays == Wit!SignatureStays
=============================================================================
