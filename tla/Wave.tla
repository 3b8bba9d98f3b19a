-------------------------------- MODULE Wave --------------------------------
(***************************************************************************)
(* The WAVE codec (wave.py): encode, encode_args and the parser behind     *)
(* decode.  A value is written, and its text is then damaged on its way    *)
(* back: cut short, a symbol lost, put in or replaced.                     *)
(*                                                                         *)
(* A text is a sequence of symbols.  A symbol is a character, or a word    *)
(* that only matters whole.  A value is a tuple that starts with its kind: *)
(*   <<"none">>   <<"bool", b>>   <<"number", its shortest text>>          *)
(*   <<"string", symbols>>   <<"list", values>>                            *)
(*   <<"record", pairs of a name and a value, in order>>                   *)
(* Exponents are left out, and bytes, which are written as the list they   *)
(* are.  nan is the number it prints as, and so equal to itself.           *)
(***************************************************************************)
EXTENDS Naturals, FiniteSets, SequencesExt

CONSTANTS
  Symbol,    \* the symbols a damaged text may hold
  Value,     \* the values written
  Printed,   \* <<text, value>>: another text a runner may print for a value
  MaxEdits   \* a bound on the damage

VARIABLES value, text, edits, cut
vars == <<value, text, edits, cut>>

Digits == {"0", "1"}
Space == {" ", "\n"}
Ident == Digits \cup {"-", "n", "u", "x", "true", "false", "none", "some", "inf", "nan"}

-----------------------------------------------------------------------------
(* encode *)

JoinWith(between, texts) ==
  FoldLeft(LAMBDA s, t : IF s = <<>> THEN t ELSE s \o between \o t, <<>>, texts)

\* Mutant: nothing is put between the items.
JoinBare(texts) == JoinWith(<<>>, texts)

Join(texts) == JoinWith(<<",", " ">>, texts)

\* Mutant: the backslash is not escaped.
EscapeQuotes(c) == IF c = "\"" THEN <<"\\", c>> ELSE IF c = "\n" THEN <<"\\", "n">> ELSE <<c>>

\* _ESCAPES
Escape(c) ==
  IF c \in {"\\", "\""} THEN <<"\\", c>> ELSE IF c = "\n" THEN <<"\\", "n">> ELSE <<c>>

RECURSIVE encode(_)
encode(v) ==
  CASE v[1] = "none"   -> <<"none">>
    [] v[1] = "bool"   -> IF v[2] THEN <<"true">> ELSE <<"false">>
    [] v[1] = "number" -> v[2]
    [] v[1] = "string" ->
         <<"\"">> \o FlattenSeq([i \in DOMAIN v[2] |-> Escape(v[2][i])]) \o <<"\"">>
    [] v[1] = "list"   -> <<"[">> \o Join([i \in DOMAIN v[2] |-> encode(v[2][i])]) \o <<"]">>
    [] v[1] = "record" ->
         <<"{">> \o Join([i \in DOMAIN v[2] |->
                            v[2][i][1] \o <<":", " ">> \o encode(v[2][i][2])]) \o <<"}">>

encode_args(args) == Join([i \in DOMAIN args |-> encode(args[i])])

-----------------------------------------------------------------------------
(* decode: each reader takes the text and a position in it, and gives what it read *)
(* and where it stopped, or the exception it raised.                                *)

Read(v, p) == [value |-> v, pos |-> p]
Raise(e) == [value |-> e, pos |-> 0]
Raised(r) == r.pos = 0

peek(t, p) == IF p <= Len(t) THEN t[p] ELSE ""

\* The first position from p on that holds none of the symbols of S.
After(t, p, S) ==
  CHOOSE q \in p..(Len(t) + 1) : peek(t, q) \notin S /\ \A i \in p..(q - 1) : t[i] \in S

\* Mutant: a line break is not a space.
skip_blanks(t, p) == After(t, p, {" "})

skip_ws(t, p) == After(t, p, Space)

AfterComma(t, p) ==
  LET q == skip_ws(t, p) IN IF peek(t, q) = "," THEN skip_ws(t, q + 1) ELSE q

\* What int and float make of a token: its shortest text, or <<>> if they refuse it.
Shortest(token) ==
  LET signed == token # <<>> /\ token[1] \in {"+", "-"}
      body   == IF signed THEN Tail(token) ELSE token
      point  == IF Contains(body, ".") THEN CHOOSE i \in DOMAIN body : body[i] = "."
                                       ELSE Len(body) + 1
      whole  == SubSeq(body, 1, point - 1)
      part   == SubSeq(body, point + 1, Len(body))
      lead   == After(whole, 1, {"0"})
      lasts  == {i \in DOMAIN part : part[i] # "0"}
      shown  == IF lead > Len(whole) THEN <<"0">> ELSE SubSeq(whole, lead, Len(whole))
      tail   == IF point > Len(body) THEN <<>>
                ELSE <<".">> \o (IF lasts = {} THEN <<"0">> ELSE SubSeq(part, 1, Max(lasts)))
  IN IF ToSet(whole \o part) \subseteq Digits /\ whole \o part # <<>>
     THEN (IF signed /\ token[1] = "-" /\ shown \o tail # <<"0">> THEN <<"-">> ELSE <<>>)
            \o shown \o tail
     ELSE <<>>

\* A number: a sign, digits and points.  (At the end of the text peek is "", which Python
\* finds in "+-": the token is then empty, and int refuses it.)
number(t, p) ==
  LET from  == IF peek(t, p) \in {"+", "-"} THEN p + 1 ELSE p
      to    == After(t, from, Digits \cup {"."})
      token == SubSeq(t, p, to - 1)
  IN IF Shortest(token) = <<>> THEN Raise("ValueError")
                               ELSE Read(<<"number", Shortest(token)>>, to)

ident(t, p) ==
  LET to == After(t, p, Ident) IN
  IF to = p THEN Raise("ValueError") ELSE Read(SubSeq(t, p, to - 1), to)

\* _UNESCAPES
Unescape == [e \in {"\\", "\"", "'", "n"} |-> IF e = "n" THEN "\n" ELSE e]

\* \u{1} is the character of that number; the symbols know no other.
CodePoint(digits) ==
  IF digits # <<>> /\ Shortest(digits) = <<"1">> /\ digits[1] # "-" THEN "U+1" ELSE ""

char(t, p) ==
  LET escaped == peek(t, p) = "\\"
      q == IF escaped THEN p + 1 ELSE p
      c == IF escaped /\ peek(t, q) \in DOMAIN Unescape THEN Unescape[t[q]] ELSE peek(t, q)
  IN CASE q > Len(t) -> Raise("IndexError")
       [] q <= Len(t) /\ peek(t, q + 1) # "'" -> Raise("ValueError")
       [] OTHER -> Read(<<"string", <<c>>>>, q + 2)

\* Mutant: a string that does not end is what there is of it.
UnendedString(t, p, sofar) ==
  LET q == After(t, p, Symbol \ {"\"", "\\"})
  IN IF peek(t, q) = "\\" THEN Raise("ValueError")
     ELSE Read(<<"string", SubSeq(t, p, q - 1)>>, IF q > Len(t) THEN q ELSE q + 1)

RECURSIVE string(_, _, _)
string(t, p, sofar) ==
  CASE p > Len(t)     -> Raise("ValueError")
    [] peek(t, p) = "\"" -> Read(<<"string", sofar>>, p + 1)
    [] peek(t, p) \notin {"", "\"", "\\"} -> string(t, p + 1, Append(sofar, t[p]))
    [] peek(t, p) = "\\" ->
         LET esc == peek(t, p + 1)
             end == After(t, p + 3, Symbol \ {"}"})
             chr == CodePoint(SubSeq(t, p + 3, end - 1))
         IN CASE esc = "" -> Raise("IndexError")
              [] esc \in DOMAIN Unescape -> string(t, p + 2, Append(sofar, Unescape[esc]))
              [] esc = "u" -> IF peek(t, p + 2) = "{" /\ peek(t, end) = "}" /\ chr # ""
                              THEN string(t, end + 1, Append(sofar, chr))
                              ELSE Raise("ValueError")
              [] OTHER -> Raise("ValueError")

\* fields[name] = value: a name met again keeps its place and takes the new value.
Put(fields, name, v) ==
  IF \E i \in DOMAIN fields : fields[i][1] = name
  THEN [i \in DOMAIN fields |-> IF fields[i][1] = name THEN <<name, v>> ELSE fields[i]]
  ELSE Append(fields, <<name, v>>)

RECURSIVE ReadValue(_, _), sequence(_, _, _, _), record(_, _, _)

sequence(t, p, close, sofar) ==
  IF peek(t, p) = close THEN Read(<<"list", sofar>>, p + 1)
  ELSE LET item == ReadValue(t, p)
       IN IF Raised(item) THEN item
          ELSE sequence(t, AfterComma(t, item.pos), close, Append(sofar, item.value))

record(t, p, fields) ==
  IF peek(t, p) = "}" THEN Read(<<"record", fields>>, p + 1)
  ELSE LET name  == ident(t, p)
           colon == skip_ws(t, name.pos)
           v     == ReadValue(t, colon + 1)
       IN CASE Raised(name) -> name
            [] ~Raised(name) /\ peek(t, colon) # ":" -> Raise("ValueError")
            [] ~Raised(name) /\ peek(t, colon) = ":" ->
                 IF Raised(v) THEN v
                 ELSE record(t, AfterComma(t, v.pos), Put(fields, name.value, v.value))

\* true, false, none, inf and nan; some(v); or the case of an enum.
keyword_or_enum(t, p) ==
  LET word == ident(t, p)
      next == skip_ws(t, word.pos)
      args == sequence(t, skip_ws(t, next + 1), ")", <<>>)
  IN CASE Raised(word) -> word
       [] ~Raised(word) /\ word.value = <<"true">>  -> Read(<<"bool", TRUE>>, word.pos)
       [] ~Raised(word) /\ word.value = <<"false">> -> Read(<<"bool", FALSE>>, word.pos)
       [] ~Raised(word) /\ word.value = <<"none">>  -> Read(<<"none">>, word.pos)
       [] ~Raised(word) /\ word.value \in {<<"inf">>, <<"nan">>} ->
            Read(<<"number", word.value>>, word.pos)
       [] OTHER ->
            IF peek(t, next) # "(" THEN Read(<<"string", word.value>>, next)
            ELSE IF Raised(args) THEN args
            ELSE IF word.value = <<"some">> /\ Len(args.value[2]) = 1
                 THEN Read(args.value[2][1], args.pos)
            ELSE Raise("ValueError")

ReadValue(t, p0) ==
  LET p == skip_ws(t, p0)
      c == peek(t, p)
  IN CASE c = "["  -> sequence(t, skip_ws(t, p + 1), "]", <<>>)
       [] c = "("  -> sequence(t, skip_ws(t, p + 1), ")", <<>>)
       [] c = "{"  -> record(t, skip_ws(t, p + 1), <<>>)
       [] c = "\"" -> string(t, p + 1, <<>>)
       [] c = "'"  -> char(t, p + 1)
       [] c \in Digits \cup {"+", "-", ""} -> number(t, p)
       [] OTHER    -> keyword_or_enum(t, p)

\* Mutant: what is left of the text is not looked at.
decodeLoosely(t) ==
  IF skip_ws(t, 1) > Len(t) THEN Read(<<"none">>, 1) ELSE ReadValue(t, 1)

decode(t) ==
  IF skip_ws(t, 1) > Len(t) THEN Read(<<"none">>, 1)
  ELSE LET r == ReadValue(t, 1) IN
       IF Raised(r) \/ skip_ws(t, r.pos) > Len(t) THEN r ELSE Raise("ValueError")

-----------------------------------------------------------------------------

Init ==
  /\ \/ value \in Value /\ text = encode(value)
     \/ \E w \in Printed : text = w[1] /\ value = w[2]
  /\ edits = 0 /\ cut = FALSE

\* The runner's output is cut short.
Cut ==
  /\ edits = 0 /\ ~cut
  /\ \E n \in 1..(Len(text) - 1) : text' = SubSeq(text, 1, n)
  /\ cut' = TRUE
  /\ UNCHANGED <<value, edits>>

\* It is another text altogether.
Damage ==
  /\ ~cut /\ edits < MaxEdits
  /\ \/ \E i \in DOMAIN text : text' = RemoveAt(text, i)
     \/ \E i \in DOMAIN text, c \in Symbol : c # text[i] /\ text' = ReplaceAt(text, i, c)
     \/ \E i \in 1..(Len(text) + 1), c \in Symbol : text' = InsertAt(text, i, c)
  /\ edits' = edits + 1
  /\ UNCHANGED <<value, cut>>

Next == Cut \/ Damage

Spec == Init /\ [][Next]_vars

-----------------------------------------------------------------------------

\* decode takes the sign of -inf for that of a number, and raises.
NegativeInfinity(t) == \E i \in 1..(Len(t) - 1) : t[i] = "-" /\ t[i + 1] = "inf"

\* What encode writes, or a runner prints, decode reads: alone, and as the arguments of a
\* call, which a verifier wraps in parentheses and hands to a runner again.  A value with
\* -inf in it is not read at all, rather than as another.
Reads(t, v) == LET r == decode(t) IN ~Raised(r) /\ r.value = v
EncodedIsRead ==
  edits = 0 /\ ~cut =>
    IF NegativeInfinity(text) THEN Raised(decode(text))
    ELSE /\ Reads(text, value)
         /\ value[1] = "list" =>
              Reads(<<"(">> \o encode_args(value[2]) \o <<")">>, value)

\* The result of a call is decoded, and encoded into the claim; a verifier decodes what its
\* runner prints and encodes that.  Whatever the text was (other spaces, an option, a
\* tuple, an enum case, leading zeros), the text in the claim stands for one value: decoding
\* it gives the value again.
NormalForm ==
  LET r == decode(text) IN
  ~Raised(r) => Reads(encode(r.value), r.value)

\* Spaces do not matter but in a string: all that encode writes may go, and one may be put
\* before or after any punctuation.
Punctuation == {"[", "]", "{", "}", ",", ":"}
SpacesDoNotMatter ==
  edits = 0 /\ ~cut /\ text = encode(value)
      /\ ~Contains(text, "\"") /\ ~NegativeInfinity(text) =>
    /\ Reads(SelectSeq(text, LAMBDA c : c \notin Space), value)
    /\ \A i \in DOMAIN text, c \in Space : text[i] \in Punctuation =>
         Reads(InsertAt(text, i, c), value) /\ Reads(InsertAt(text, i + 1, c), value)

\* Texts that mean one value are read as that value, and written as one text.
RoundTrip == EncodedIsRead /\ NormalForm /\ SpacesDoNotMatter

\* A text is read whole or not at all: a list, a record or a string that was cut short is
\* never taken for a shorter one, and a value with a stray mark after it is none.
WholeTextOnly ==
  /\ cut /\ text[1] \in {"[", "(", "{", "\"", "'"} => Raised(decode(text))
  /\ edits = 0 /\ ~cut => \A c \in {"]", ")", "}", ",", ":"} : Raised(decode(Append(text, c)))

=============================================================================
