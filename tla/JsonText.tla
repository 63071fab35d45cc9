------------------------------- MODULE JsonText -------------------------------
(* json_value of generate_libs/make_json.cpp: get_repr prints a value, parse  *)
(* reads a text.  A text is a sequence of characters, where a number, true,   *)
(* false and null are one character each, "ws" is a run of whitespace, and the *)
(* escape of a control character (u00xx) is one.  A value is a pair of its    *)
(* type and its contents: the text of a scalar, the characters of a string,   *)
(* the elements of a list, the <<key, value>> pairs of an object in order.    *)
(* The header says "Refer to RFC 8259"; that standard is not modelled.        *)
EXTENDS Integers, Sequences, SequencesExt

QuoteChar == "\""
Esc       == "\\"
Numbers   == {"-1", "0", "0.9999999", "1", "3.14159", "3.1415926", "5", "16", "20",
              "32", "32.0", "64", "65"}
Literals  == {"true", "false", "null"}

\* The characters that the code looks at, and any other.
Marks == {QuoteChar, Esc, "{", "}", "[", "]", ",", ":", "ws", "\n", "vt", "ctl",
          "n", "v", "/", "u00xx", "00xx"} \cup Numbers \cup Literals
Char  == Marks \cup STRING

Num(c)  == <<"num", <<c>>>>
Lit(c)  == <<"lit", <<c>>>>
Str(s)  == <<"str", s>>
List(l) == <<"list", l>>
Obj(o)  == <<"obj", o>>

NumLits == ({"num"} \X {<<c>> : c \in Numbers}) \cup ({"lit"} \X {<<c>> : c \in Literals})
Atoms == NumLits \cup ({"str"} \X Seq(Char))

----------------------------------------------------------------------------
(* Printing. *)

EscapedNoQuote(c) == IF c = Esc THEN <<Esc, Esc>> ELSE <<c>>    \* mutant
EscapedChar(c) ==
    CASE c = QuoteChar -> <<Esc, QuoteChar>>
      [] c = Esc     -> <<Esc, Esc>>
      [] c = "\n"    -> <<Esc, "n">>
      [] c = "vt"    -> <<Esc, "v">>
      [] c = "ctl"   -> <<Esc, "u00xx">>
      [] OTHER       -> <<c>>

QuotedText(s) ==
    <<QuoteChar>> \o FlattenSeq([i \in DOMAIN s |-> EscapedChar(s[i])]) \o <<QuoteChar>>

\* The text of a scalar, exact.
AtomText(v) == IF v[1] = "str" THEN QuotedText(v[2]) ELSE v[2]

\* A number with a fraction is a double, which get_repr prints with six
\* significant digits: the others are lost, and what is left may be an integer.
Rounded ==
    [c \in Numbers |-> CASE c = "0.9999999" -> "1"
                         [] c = "3.1415926" -> "3.14159"
                         [] c = "32.0"      -> "32"
                         [] OTHER           -> c]
Shown(v) == IF v[1] = "num" THEN Num(Rounded[v[2][1]]) ELSE v

\* The elements of a container between its brackets: a comma between two, and
\* whitespace (pad, which may be none) before each mark.
Separated(texts) ==
    FlattenSeq([i \in DOMAIN texts |-> (IF i = 1 THEN <<>> ELSE <<",">>) \o texts[i]])
Bracketed(open, texts, close, pad) ==
    <<open>> \o Separated([i \in DOMAIN texts |-> pad \o texts[i]]) \o pad \o <<close>>
PairText(key, text, pad) == QuotedText(key) \o <<":">> \o pad \o text

\* A value when the texts of its elements are known.
Printed(v, text, pad) ==
    CASE v[1] = "list" ->
            Bracketed("[", [i \in DOMAIN v[2] |-> text[v[2][i]]], "]", pad)
      [] v[1] = "obj"  ->
            Bracketed("{", [i \in DOMAIN v[2] |->
                               PairText(v[2][i][1], text[v[2][i][2]], pad)], "}", pad)
      [] OTHER         -> AtomText(v)

\* Bound: the code recurses; what it prints of the users' values are step files,
\* objects that hold no containers.
AtomTexts == [v \in Atoms |-> AtomText(v)]
ReprTexts == [v \in Atoms |-> AtomText(Shown(v))]
get_repr(v) == Printed(Shown(v), ReprTexts, <<"ws">>)

----------------------------------------------------------------------------
(* Reading. *)

strip(s) ==
    LET Ink == {i \in DOMAIN s : s[i] # "ws"}
    IN  IF Ink = {} THEN <<>> ELSE SubSeq(s, Min(Ink), Max(Ink))

\* Of a \u escape only the u is skipped: its digits stay in the string (for digits
\* that read as a surrogate, which are not modelled, the code adds a character and
\* may throw).  After an unknown escape the backslash stays and the character goes.
Unescaped(c) ==
    CASE c = "n"     -> <<"\n">>
      [] c = "u00xx" -> <<"00xx">>
      [] c \in {QuoteChar, Esc, "/"} -> <<c>>
      [] OTHER       -> <<Esc>>

UnescapeStep(st, c) ==
    IF st.escape THEN [r |-> st.r \o Unescaped(c), escape |-> FALSE]
    ELSE IF c = Esc THEN [st EXCEPT !.escape = TRUE]
    ELSE [st EXCEPT !.r = Append(@, c)]
UnescapeLoop(s) ==
    LET st[i \in 0..Len(s)] ==
          IF i = 0 THEN [r |-> <<>>, escape |-> FALSE] ELSE UnescapeStep(st[i - 1], s[i])
    IN  st
unescapify(s) == UnescapeLoop(s)[Len(s)].r

\* The scanner that both containers share: brackets are counted wherever they
\* are, quotes toggle in_string unless they are escaped, and the character after
\* a backslash is otherwise looked at as any other.
ScanStart == [in_object |-> 0, in_list |-> 0, in_string |-> FALSE, escape |-> FALSE]

Count(c, open, close) == IF c = open THEN 1 ELSE IF c = close THEN -1 ELSE 0

CountedAnyQuote(st, c) ==       \* mutant: an escaped quote ends a string
    [in_object |-> st.in_object + Count(c, "{", "}"),
     in_list   |-> st.in_list + Count(c, "[", "]"),
     in_string |-> IF c = QuoteChar THEN ~st.in_string ELSE st.in_string,
     escape    |-> c = Esc /\ ~st.escape]
Counted(st, c) ==
    [in_object |-> st.in_object + Count(c, "{", "}"),
     in_list   |-> st.in_list + Count(c, "[", "]"),
     in_string |-> IF c = QuoteChar /\ ~st.escape THEN ~st.in_string ELSE st.in_string,
     escape    |-> c = Esc /\ ~st.escape]

\* The counters after each character.
Counters(s) ==
    LET st[i \in 0..Len(s)] == IF i = 0 THEN ScanStart ELSE Counted(st[i - 1], s[i])
    IN  st

\* The commas that separate: in a list even inside a string.
ListCommas(s) ==
    LET at == Counters(s)
    IN  {i \in DOMAIN s : s[i] = "," /\ at[i].in_object = 0 /\ at[i].in_list = 0}
ObjectCommas(s) == {i \in ListCommas(s) : ~Counters(s)[i].in_string}

\* The characters between one separator and the next.
CutStep(parts, c, cut) ==
    IF cut THEN Append(parts, <<>>) ELSE [parts EXCEPT ![Len(parts)] = Append(@, c)]
CutLoop(s, commas) ==
    LET parts[i \in 0..Len(s)] ==
          IF i = 0 THEN <<<<>>>> ELSE CutStep(parts[i - 1], s[i], i \in commas)
    IN  parts
Cut(s, commas) == CutLoop(s, commas)[Len(s)]

\* The name ends at the first colon of the part.  At a separator the counters are
\* what they were at the start, so each part is scanned from the start.
Colons(part) ==
    LET at == Counters(part)
    IN  {i \in DOMAIN part : part[i] = ":" /\ at[i].in_object = 0 /\ ~at[i].in_string}
NameOf(part) ==
    IF Colons(part) = {} THEN part ELSE SubSeq(part, 1, Min(Colons(part)) - 1)
ValueOf(part) ==
    IF Colons(part) = {} THEN <<>> ELSE SubSeq(part, Min(Colons(part)) + 1, Len(part))

Inner(s) == SubSeq(s, 2, Len(s) - 1)

\* The last part is added even when it is empty: {} becomes {"": 0}.
ObjectParts(s) == Cut(Inner(s), ObjectCommas(Inner(s)))

ListParts(s) ==
    LET parts == Cut(Inner(s), ListCommas(Inner(s)))
    IN  IF Last(parts) = <<>> THEN Front(parts) ELSE parts

\* operator[]: the first pair with the key is assigned, or one is added.
AssignAppend(pairs, k, v) == Append(pairs, <<k, v>>)    \* mutant: no search
Assign(pairs, k, v) ==
    IF \E i \in DOMAIN pairs : pairs[i][1] = k
    THEN [pairs EXCEPT ![Min({i \in DOMAIN pairs : pairs[i][1] = k})] = <<k, v>>]
    ELSE Append(pairs, <<k, v>>)
AssignLoop(pairs) ==
    LET o[i \in 0..Len(pairs)] ==
          IF i = 0 THEN <<>> ELSE Assign(o[i - 1], pairs[i][1], pairs[i][2])
    IN  o
Assigned(pairs) == AssignLoop(pairs)[Len(pairs)]

val_string(v) == IF v[1] = "str" THEN v[2] ELSE <<>>
val_object(v) == IF v[1] = "obj" THEN v[2] ELSE <<>>

\* A text when the values of the shorter ones are known.
Parsed(text, value) ==
    LET s == strip(text)
    IN  CASE s = <<>>    -> Num("0")
          [] s # <<>> /\ s[1] = "{"  ->
                LET parts == ObjectParts(s)
                IN  Obj(Assigned([i \in DOMAIN parts |->
                        <<val_string(value[NameOf(parts[i])]), value[ValueOf(parts[i])]>>]))
          [] s # <<>> /\ s[1] = "["  ->
                LET parts == ListParts(s)
                IN  List([i \in DOMAIN parts |-> value[parts[i]]])
          [] s # <<>> /\ s[1] = QuoteChar -> Str(unescapify(Inner(s)))
          [] Len(s) = 1 /\ s[1] \in Numbers  -> Num(s[1])
          [] Len(s) = 1 /\ s[1] \in Literals -> Lit(s[1])
          [] OTHER        -> Num("0")

parse[text \in Seq(Char)] == Parsed(text, parse)
=============================================================================
