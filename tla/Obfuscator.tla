------------------------------ MODULE Obfuscator ------------------------------
(* generate_libs/obfuscator.cpp.  A text is a sequence of bytes; the result   *)
(* is one of <<"byte", b>> and <<"unit", u>>, the escape \uXXXX of the UTF-16 *)
(* unit u.                                                                    *)
EXTENDS Integers, Sequences

Quote == 34
Backslash == 92
White == {9, 10, 13, 32}

Byte(b) == <<"byte", b>>
Unit(u) == <<"unit", u>>

----------------------------------------------------------------------------
(* unicodeEscape. *)

\* How many bytes the character has that starts with b.
WidthShort(b) ==        \* mutant: the masks are tested in the wrong order
    CASE b \div 64 = 3 -> 2 [] b \div 16 = 14 -> 3 [] b \div 8 = 30 -> 4 [] OTHER -> 1
Width(b) ==
    CASE b \div 32 = 6 -> 2 [] b \div 16 = 14 -> 3 [] b \div 8 = 30 -> 4 [] OTHER -> 1

\* The low bits of the first byte, then six of each that follows.
decode_utf8(bytes) ==
    CASE Width(bytes[1]) = 2 -> (bytes[1] % 32) * 64 + (bytes[2] % 64)
      [] Width(bytes[1]) = 3 -> (bytes[1] % 16) * 4096 + (bytes[2] % 64) * 64 + (bytes[3] % 64)
      [] Width(bytes[1]) = 4 -> (bytes[1] % 8) * 262144 + (bytes[2] % 64) * 4096
                                  + (bytes[3] % 64) * 64 + (bytes[4] % 64)
      [] OTHER -> bytes[1]

\* Above the first plane 65536 is not taken off before the code is split.
Units(code) ==
    IF code > 65535 THEN <<Unit(55296 + code \div 1024), Unit(56320 + (code % 1024))>>
                    ELSE <<Unit(code)>>

\* As the code does, this takes the bytes to be valid UTF-8.
EscapeNext(bytes, st, i) ==
    IF i < st.next THEN st
    ELSE LET width == Width(bytes[i])
         IN  [next |-> i + width,
              out  |-> st.out \o Units(decode_utf8(SubSeq(bytes, i, i + width - 1)))]
EscapeLoop(bytes) ==
    LET st[i \in 0..Len(bytes)] ==
          IF i = 0 THEN [next |-> 1, out |-> <<>>] ELSE EscapeNext(bytes, st[i - 1], i)
    IN  st
unicodeEscape(bytes) == EscapeLoop(bytes)[Len(bytes)].out

----------------------------------------------------------------------------
(* minify, on what the escaping has left.  It throws, which is the result     *)
(* Thrown, when a string does not end.                                        *)

Thrown == <<<<"thrown", 0>>>>

\* in: inside a string; skip: the character after a backslash there.
MinifyStep(st, c) ==
    CASE st.skip -> [st EXCEPT !.out = Append(@, c), !.skip = FALSE]
      [] ~st.in /\ c \in {Byte(w) : w \in White} -> st
      [] OTHER   -> [st EXCEPT !.out  = Append(@, c),
                               !.in   = IF c = Byte(Quote) THEN ~@ ELSE @,
                               !.skip = st.in /\ c = Byte(Backslash)]

MinifyLoop(text) ==
    LET st[i \in 0..Len(text)] ==
          IF i = 0 THEN [in |-> FALSE, skip |-> FALSE, out |-> <<>>]
                   ELSE MinifyStep(st[i - 1], text[i])
    IN  st
minify(text) ==
    LET end == MinifyLoop(text)[Len(text)]
    IN  IF end.in THEN Thrown ELSE end.out

----------------------------------------------------------------------------
\* The regular expression pairs quotes as they come, escaped or not; a last one
\* without a partner, and what follows it, is copied.
EscapeStepNoPrefix(st, c) ==    \* mutant: what is before a string is lost
    IF c # Quote THEN [st EXCEPT !.inner = Append(@, c)]
    ELSE IF st.open
         THEN [open |-> FALSE, inner |-> <<>>,
               out |-> st.out \o <<Byte(Quote)>> \o unicodeEscape(st.inner) \o <<Byte(Quote)>>]
         ELSE [st EXCEPT !.open = TRUE, !.inner = <<>>]
EscapeStep(st, c) ==
    IF c # Quote
    THEN IF st.open THEN [st EXCEPT !.inner = Append(@, c)]
                    ELSE [st EXCEPT !.out = Append(@, Byte(c))]
    ELSE IF st.open
         THEN [open |-> FALSE, inner |-> <<>>,
               out |-> st.out \o <<Byte(Quote)>> \o unicodeEscape(st.inner) \o <<Byte(Quote)>>]
         ELSE [st EXCEPT !.open = TRUE]

PairLoop(text) ==
    LET st[i \in 0..Len(text)] ==
          IF i = 0 THEN [open |-> FALSE, inner |-> <<>>, out |-> <<>>]
                   ELSE EscapeStep(st[i - 1], text[i])
    IN  st

Raw(bytes) == [i \in DOMAIN bytes |-> Byte(bytes[i])]
EscapedNoRest(text) == PairLoop(text)[Len(text)].out    \* mutant: a quote alone is lost
Escaped(text) ==
    LET end == PairLoop(text)[Len(text)]
    IN  end.out \o IF end.open THEN Raw(<<Quote>> \o end.inner) ELSE <<>>

obfuscateMain(text, do_minify) ==
    IF do_minify THEN minify(Escaped(text)) ELSE Escaped(text)
=============================================================================
