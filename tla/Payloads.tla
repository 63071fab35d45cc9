------------------------------- MODULE Payloads -------------------------------
(* The payloads that Discord sends and json_value::parse can read.            *)
EXTENDS JsonText

\* Characters whose escapes the parser does not read back, and those it counts in a string.
Dropped  == {"ctl", "vt"}
Brackets == {"{", "}", "[", "]"}
StringsWithout(marks) == {"str"} \X Seq(Char \ (Dropped \cup marks))

\* What it can read in a list, where a comma separates even inside a string, and
\* in an object, which has a key and has no key twice.
InList(nested) == NumLits \cup StringsWithout(Brackets \cup {","}) \cup nested
InObject(nested) == NumLits \cup StringsWithout(Brackets) \cup nested
Pairs(nested) ==
    {o \in Seq(Seq(Char \ (Dropped \cup Brackets)) \X InObject(nested)) :
        o # <<>> /\ \A i, j \in DOMAIN o : o[i][1] = o[j][1] => i = j}

\* Containers of at most so many levels.
Containers(depth) ==
    LET upto[n \in 0..depth] ==
          IF n = 0 THEN {}
          ELSE ({"list"} \X Seq(InList(upto[n - 1]))) \cup ({"obj"} \X Pairs(upto[n - 1]))
    IN  upto
Readable(depth) == NumLits \cup StringsWithout({}) \cup Containers(depth)[depth]

\* External: Discord prints JSON without whitespace, and escapes what it must.
CompactTexts(depth) ==
    LET text[n \in 0..depth] ==
          IF n = 0 THEN AtomTexts
          ELSE [v \in Atoms \cup Containers(depth)[n] |-> Printed(v, text[n - 1], <<>>)]
    IN  text
Compact(v, depth) == CompactTexts(depth)[depth][v]

\* What determine_what_to_do has of a payload.
Received(v, depth) == parse[Compact(v, depth)]
=============================================================================
