--------------------------- MODULE ObfuscatorProofs ---------------------------
(* What the obfuscator does with every text: proofs about the loops of         *)
(* Obfuscator, by induction over their positions, and the properties of the    *)
(* texts and payloads of Generators that rest on them.                         *)
EXTENDS Generators, JsonProofs

----------------------------------------------------------------------------
(* The loops are recursive functions over positions.  Each one exists, so each *)
(* state of a loop is the step from the state before.                          *)

PairStart == [open |-> FALSE, inner |-> <<>>, out |-> <<>>]

\* The pairing of quotes takes one step for each byte.
LEMMA PairLoopSteps ==
    ASSUME NEW text, Len(text) \in Nat
    PROVE  /\ PairLoop(text)[0] = PairStart
           /\ \A i \in 1..Len(text) : PairLoop(text)[i] = EscapeStep(PairLoop(text)[i - 1], text[i])
<1> DEFINE Trace(g, n) ==
        g = [i \in 0..n |-> IF i = 0 THEN PairStart ELSE EscapeStep(g[i - 1], text[i])]
           S == {n \in 0..Len(text) : \E g : Trace(g, n)}
<1>0. Len(text) \in Nat
  OBVIOUS
<1>1. 0 \in S
  <2> DEFINE g == [i \in 0..0 |-> PairStart]
  <2>1. Trace(g, 0)
    OBVIOUS
  <2>2. 0 \in 0..Len(text)
    BY <1>0
  <2> HIDE DEF Trace
  <2> QED
    BY Zenon, <2>1, <2>2
<1>2. ASSUME NEW n \in 0..Len(text), n \in S, n < Len(text) PROVE n + 1 \in S
  <2>1. PICK g : Trace(g, n)
    BY <1>2
  <2> DEFINE h == [i \in 0..(n + 1) |->
                     IF i = n + 1 THEN EscapeStep(g[n], text[n + 1]) ELSE g[i]]
  <2>2. \A i \in 0..(n + 1) :
           h[i] = IF i = 0 THEN PairStart ELSE EscapeStep(h[i - 1], text[i])
    <3> SUFFICES ASSUME NEW i \in 0..(n + 1)
                 PROVE  h[i] = IF i = 0 THEN PairStart ELSE EscapeStep(h[i - 1], text[i])
      OBVIOUS
    <3>1. CASE i = n + 1
      <4>1. h[i - 1] = g[n] /\ i # 0
        BY <3>1
      <4> QED
        BY <3>1, <4>1
    <3>2. CASE i = 0
      BY <2>1, <3>2
    <3>3. CASE i # 0 /\ i # n + 1
      <4>1. i \in 0..n /\ i - 1 \in 0..n /\ h[i] = g[i] /\ h[i - 1] = g[i - 1]
        BY <3>3
      <4>2. g[i] = EscapeStep(g[i - 1], text[i])
        BY <2>1, <3>3, <4>1
      <4> QED
        BY <3>3, <4>1, <4>2
    <3> QED
      BY <3>1, <3>2, <3>3
  <2>3. Trace(h, n + 1)
    <3> HIDE DEF Trace
    <3> QED
      BY Zenon, <2>2 DEF Trace
  <2>4. n + 1 \in 0..Len(text)
    BY <1>0, <1>2
  <2> HIDE DEF Trace
  <2> QED
    BY Zenon, <2>3, <2>4
<1>3. Len(text) \in S
  <2> HIDE DEF S
  <2>1. \A n \in 0..Len(text) : n \in S /\ n < Len(text) => n + 1 \in S
    BY <1>2
  <2>2. 0..Len(text) \subseteq S
    BY <1>0, <1>1, <2>1, Ascend
  <2> QED
    BY <1>0, <2>2
<1>4. Trace(PairLoop(text), Len(text))
  <2>1. \E g : Trace(g, Len(text))
    BY <1>3
  <2>2. PairLoop(text) = CHOOSE g : Trace(g, Len(text))
    BY Zenon DEF PairLoop, PairStart
  <2> HIDE DEF Trace
  <2> QED
    BY Zenon, <2>1, <2>2
<1>5. ASSUME NEW i \in 0..Len(text)
      PROVE  PairLoop(text)[i] = IF i = 0 THEN PairStart
                                 ELSE EscapeStep(PairLoop(text)[i - 1], text[i])
  BY ZenonT(60), <1>4
<1> QED
  BY <1>0, <1>5

MinifyStart == [in |-> FALSE, skip |-> FALSE, out |-> <<>>]

\* minify takes one step for each element.
LEMMA MinifyLoopSteps ==
    ASSUME NEW text, Len(text) \in Nat
    PROVE  /\ MinifyLoop(text)[0] = MinifyStart
           /\ \A i \in 1..Len(text) : MinifyLoop(text)[i] = MinifyStep(MinifyLoop(text)[i - 1], text[i])
<1> DEFINE Trace(g, n) ==
        g = [i \in 0..n |-> IF i = 0 THEN MinifyStart ELSE MinifyStep(g[i - 1], text[i])]
           S == {n \in 0..Len(text) : \E g : Trace(g, n)}
<1>0. Len(text) \in Nat
  OBVIOUS
<1>1. 0 \in S
  <2> DEFINE g == [i \in 0..0 |-> MinifyStart]
  <2>1. Trace(g, 0)
    OBVIOUS
  <2>2. 0 \in 0..Len(text)
    BY <1>0
  <2> HIDE DEF Trace
  <2> QED
    BY Zenon, <2>1, <2>2
<1>2. ASSUME NEW n \in 0..Len(text), n \in S, n < Len(text) PROVE n + 1 \in S
  <2>1. PICK g : Trace(g, n)
    BY <1>2
  <2> DEFINE h == [i \in 0..(n + 1) |->
                     IF i = n + 1 THEN MinifyStep(g[n], text[n + 1]) ELSE g[i]]
  <2>2. \A i \in 0..(n + 1) :
           h[i] = IF i = 0 THEN MinifyStart ELSE MinifyStep(h[i - 1], text[i])
    <3> SUFFICES ASSUME NEW i \in 0..(n + 1)
                 PROVE  h[i] = IF i = 0 THEN MinifyStart ELSE MinifyStep(h[i - 1], text[i])
      OBVIOUS
    <3>1. CASE i = n + 1
      <4>1. h[i - 1] = g[n] /\ i # 0
        BY <3>1
      <4> QED
        BY <3>1, <4>1
    <3>2. CASE i = 0
      BY <2>1, <3>2
    <3>3. CASE i # 0 /\ i # n + 1
      <4>1. i \in 0..n /\ i - 1 \in 0..n /\ h[i] = g[i] /\ h[i - 1] = g[i - 1]
        BY <3>3
      <4>2. g[i] = MinifyStep(g[i - 1], text[i])
        BY <2>1, <3>3, <4>1
      <4> QED
        BY <3>3, <4>1, <4>2
    <3> QED
      BY <3>1, <3>2, <3>3
  <2>3. Trace(h, n + 1)
    <3> HIDE DEF Trace
    <3> QED
      BY Zenon, <2>2 DEF Trace
  <2>4. n + 1 \in 0..Len(text)
    BY <1>0, <1>2
  <2> HIDE DEF Trace
  <2> QED
    BY Zenon, <2>3, <2>4
<1>3. Len(text) \in S
  <2> HIDE DEF S
  <2>1. \A n \in 0..Len(text) : n \in S /\ n < Len(text) => n + 1 \in S
    BY <1>2
  <2>2. 0..Len(text) \subseteq S
    BY <1>0, <1>1, <2>1, Ascend
  <2> QED
    BY <1>0, <2>2
<1>4. Trace(MinifyLoop(text), Len(text))
  <2>1. \E g : Trace(g, Len(text))
    BY <1>3
  <2>2. MinifyLoop(text) = CHOOSE g : Trace(g, Len(text))
    BY Zenon DEF MinifyLoop, MinifyStart
  <2> HIDE DEF Trace
  <2> QED
    BY Zenon, <2>1, <2>2
<1>5. ASSUME NEW i \in 0..Len(text)
      PROVE  MinifyLoop(text)[i] = IF i = 0 THEN MinifyStart
                                 ELSE MinifyStep(MinifyLoop(text)[i - 1], text[i])
  BY Zenon, <1>4
<1> QED
  BY <1>0, <1>5

EscapeStart == [next |-> 1, out |-> <<>>]

\* unicodeEscape takes one step for each byte, and passes over those it has read.
LEMMA EscapeLoopSteps ==
    ASSUME NEW bytes, Len(bytes) \in Nat
    PROVE  /\ EscapeLoop(bytes)[0] = EscapeStart
           /\ \A i \in 1..Len(bytes) : EscapeLoop(bytes)[i] = EscapeNext(bytes, EscapeLoop(bytes)[i - 1], i)
<1> DEFINE Trace(g, n) ==
        g = [i \in 0..n |-> IF i = 0 THEN EscapeStart ELSE EscapeNext(bytes, g[i - 1], i)]
           S == {n \in 0..Len(bytes) : \E g : Trace(g, n)}
<1>0. Len(bytes) \in Nat
  OBVIOUS
<1>1. 0 \in S
  <2> DEFINE g == [i \in 0..0 |-> EscapeStart]
  <2>1. Trace(g, 0)
    OBVIOUS
  <2>2. 0 \in 0..Len(bytes)
    BY <1>0
  <2> HIDE DEF Trace
  <2> QED
    BY Zenon, <2>1, <2>2
<1>2. ASSUME NEW n \in 0..Len(bytes), n \in S, n < Len(bytes) PROVE n + 1 \in S
  <2>1. PICK g : Trace(g, n)
    BY <1>2
  <2> DEFINE h == [i \in 0..(n + 1) |->
                     IF i = n + 1 THEN EscapeNext(bytes, g[n], n + 1) ELSE g[i]]
  <2>2. \A i \in 0..(n + 1) :
           h[i] = IF i = 0 THEN EscapeStart ELSE EscapeNext(bytes, h[i - 1], i)
    <3> SUFFICES ASSUME NEW i \in 0..(n + 1)
                 PROVE  h[i] = IF i = 0 THEN EscapeStart ELSE EscapeNext(bytes, h[i - 1], i)
      OBVIOUS
    <3>1. CASE i = n + 1
      <4>1. h[i - 1] = g[n] /\ i # 0
        BY <3>1
      <4> QED
        BY <3>1, <4>1
    <3>2. CASE i = 0
      BY <2>1, <3>2
    <3>3. CASE i # 0 /\ i # n + 1
      <4>1. i \in 0..n /\ i - 1 \in 0..n /\ h[i] = g[i] /\ h[i - 1] = g[i - 1]
        BY <3>3
      <4>2. g[i] = EscapeNext(bytes, g[i - 1], i)
        BY <2>1, <3>3, <4>1
      <4> QED
        BY <3>3, <4>1, <4>2
    <3> QED
      BY <3>1, <3>2, <3>3
  <2>3. Trace(h, n + 1)
    <3> HIDE DEF Trace
    <3> QED
      BY Zenon, <2>2 DEF Trace
  <2>4. n + 1 \in 0..Len(bytes)
    BY <1>0, <1>2
  <2> HIDE DEF Trace
  <2> QED
    BY Zenon, <2>3, <2>4
<1>3. Len(bytes) \in S
  <2> HIDE DEF S
  <2>1. \A n \in 0..Len(bytes) : n \in S /\ n < Len(bytes) => n + 1 \in S
    BY <1>2
  <2>2. 0..Len(bytes) \subseteq S
    BY <1>0, <1>1, <2>1, Ascend
  <2> QED
    BY <1>0, <2>2
<1>4. Trace(EscapeLoop(bytes), Len(bytes))
  <2>1. \E g : Trace(g, Len(bytes))
    BY <1>3
  <2>2. EscapeLoop(bytes) = CHOOSE g : Trace(g, Len(bytes))
    BY Zenon DEF EscapeLoop, EscapeStart
  <2> HIDE DEF Trace
  <2> QED
    BY Zenon, <2>1, <2>2
<1>5. ASSUME NEW i \in 0..Len(bytes)
      PROVE  EscapeLoop(bytes)[i] = IF i = 0 THEN EscapeStart
                                 ELSE EscapeNext(bytes, EscapeLoop(bytes)[i - 1], i)
  BY Zenon, <1>4
<1> QED
  BY <1>0, <1>5

----------------------------------------------------------------------------
(* Texts of ASCII characters.                                               *)

Plain == Seq(0..127)
Outputs == {"byte", "unit"} \X Nat

\* The quotes before a position, one by one.
LEMMA BeforeCounts ==
    ASSUME NEW text \in Seq(Nat)
    PROVE  /\ Before(text, 1) = 0
           /\ \A i \in 1..Len(text) :
                 /\ Before(text, i) \in Nat
                 /\ Before(text, i + 1) = Before(text, i) + (IF text[i] = Quote THEN 1 ELSE 0)
<1> DEFINE Q(i) == {j \in 1 .. i - 1 : text[j] = Quote}
<1>1. Q(1) = {}
  OBVIOUS
<1>2. ASSUME NEW i \in 1..Len(text)
      PROVE  /\ Before(text, i) \in Nat
             /\ Before(text, i + 1) = Before(text, i) + (IF text[i] = Quote THEN 1 ELSE 0)
  <2>1. IsFiniteSet(Q(i))
    <3>1. IsFiniteSet(1 .. i - 1)
      BY FS_Interval
    <3> QED
      BY <3>1, FS_Subset
  <2>2. Q(i + 1) = IF text[i] = Quote THEN Q(i) \cup {i} ELSE Q(i)
    OBVIOUS
  <2>3. i \notin Q(i)
    OBVIOUS
  <2> HIDE DEF Q
  <2>4. Cardinality(Q(i)) \in Nat
    BY <2>1, FS_CardinalityType
  <2>5. Cardinality(Q(i) \cup {i}) = Cardinality(Q(i)) + 1
    BY <2>1, <2>3, FS_AddElement
  <2>6. Before(text, i) = Cardinality(Q(i))
    BY DEF Before, Q
  <2>7. Before(text, i + 1) = Cardinality(Q(i + 1))
    BY Zenon DEF Before, Q
  <2> QED
    BY <2>2, <2>4, <2>5, <2>6, <2>7
<1> QED
  BY <1>1, <1>2, FS_EmptySet DEF Before

\* A text of one position.
LEMMA OneOf ==
    ASSUME NEW S, NEW s \in Seq(S), NEW i \in 1..Len(s)
    PROVE  s[i] \in S /\ SubSeq(s, i, i) = <<s[i]>>
<1>1. SubSeq(s, i, i) \in Seq(S) /\ Len(SubSeq(s, i, i)) = 1
  BY SubSeqProperties
<1>2. SubSeq(s, i, i)[1] = s[i]
  BY SubSeqProperties
<1>3. <<s[i]>> \in Seq(S) /\ Len(<<s[i]>>) = 1
  BY ElementOfSeq
<1>4. \A j \in 1..Len(SubSeq(s, i, i)) : SubSeq(s, i, i)[j] = <<s[i]>>[j]
  BY SMTT(60), <1>1, <1>2
<1>5. SubSeq(s, i, i) = <<s[i]>>
  BY <1>1, <1>3, <1>4, SeqEqual
<1> QED
  BY <1>5, ElementOfSeq

\* An ASCII character is one unit.
LEMMA PlainUnit ==
    ASSUME NEW b \in 0..127, NEW bytes, bytes = <<b>>
    PROVE  Width(b) = 1 /\ Units(decode_utf8(bytes)) = <<Unit(b)>>
<1>1. b \div 32 # 6 /\ b \div 16 # 14 /\ b \div 8 # 30
  OBVIOUS
<1>2. Width(b) = 1
  BY <1>1 DEF Width
<1>3. bytes[1] = b
  OBVIOUS
<1>4. decode_utf8(bytes) = b
  BY <1>2, <1>3 DEF decode_utf8
<1>5. Units(b) = <<Unit(b)>>
  BY DEF Units
<1> QED
  BY <1>2, <1>4, <1>5

\* unicodeEscape turns each ASCII character into its unit.
LEMMA PlainEscape ==
    ASSUME NEW bytes \in Plain
    PROVE  unicodeEscape(bytes) = [i \in 1..Len(bytes) |-> Unit(bytes[i])]
<1> DEFINE st == EscapeLoop(bytes)
           Out(i) == [j \in 1..i |-> Unit(bytes[j])]
           S == {i \in 0..Len(bytes) : st[i] = [next |-> i + 1, out |-> Out(i)]}
<1>0. Len(bytes) \in Nat
  BY LenProperties DEF Plain
<1>5. ASSUME NEW i \in 1..Len(bytes)
      PROVE  bytes[i] \in 0..127 /\ SubSeq(bytes, i, i) = <<bytes[i]>>
  BY OneOf DEF Plain
<1> HIDE DEF st
<1>1. /\ st[0] = EscapeStart
      /\ \A i \in 1..Len(bytes) : st[i] = EscapeNext(bytes, st[i - 1], i)
  BY <1>0, EscapeLoopSteps DEF st
<1>2. 0 \in S
  BY <1>0, <1>1 DEF EscapeStart
<1>3. ASSUME NEW n \in 0..Len(bytes), n \in S, n < Len(bytes) PROVE n + 1 \in S
  <2>1. n + 1 \in 1..Len(bytes) /\ n + 1 - 1 = n /\ n + 1 + 1 - 1 = n + 1
    BY <1>3
  <2>2. st[n] = [next |-> n + 1, out |-> Out(n)]
    BY <1>3
  <2>3. bytes[n + 1] \in 0..127 /\ SubSeq(bytes, n + 1, n + 1) = <<bytes[n + 1]>>
    BY SMTT(60), <1>5, <2>1
  <2>4. /\ Width(bytes[n + 1]) = 1
        /\ Units(decode_utf8(SubSeq(bytes, n + 1, n + 1))) = <<Unit(bytes[n + 1])>>
    BY <2>3, PlainUnit
  <2>5. Out(n) \o <<Unit(bytes[n + 1])>> = Out(n + 1)
    OBVIOUS
  <2>6. st[n + 1] = EscapeNext(bytes, st[n], n + 1)
    BY SMTT(60), <1>1, <2>1
  <2>7. EscapeNext(bytes, st[n], n + 1)
          = [next |-> n + 1 + 1, out |-> Out(n) \o <<Unit(bytes[n + 1])>>]
    <3>1. ~(n + 1 < st[n].next) /\ st[n].out = Out(n)
      BY <2>2
    <3>2. n + 1 + Width(bytes[n + 1]) - 1 = n + 1 /\ n + 1 + Width(bytes[n + 1]) = n + 1 + 1
      BY <2>4
    <3> QED
      BY <2>4, <3>1, <3>2 DEF EscapeNext
  <2> QED
    BY <2>1, <2>5, <2>6, <2>7
<1>4. Len(bytes) \in S
  <2>1. 0..Len(bytes) \subseteq S
    <3> HIDE DEF S
    <3>1. \A n \in 0..Len(bytes) : n \in S /\ n < Len(bytes) => n + 1 \in S
      BY <1>3
    <3> QED
      BY <1>0, <1>2, <3>1, Ascend
  <2> HIDE DEF S
  <2> QED
    BY <1>0, <2>1
<1> QED
  BY SMTT(60), <1>4 DEF unicodeEscape, st

----------------------------------------------------------------------------
(* The pairing of quotes: what is outside the strings is copied, what is       *)
(* inside them becomes units.                                                  *)

Sign(text, j) ==
    IF text[j] = Quote \/ Before(text, j) % 2 = 0 THEN Byte(text[j]) ELSE Unit(text[j])

\* After i characters: a string is open when the quotes so far are odd in number,
\* its characters wait in inner, and all others are in out.
PairsSo(text, i, st) ==
    /\ st \in [open : BOOLEAN, inner : Seq(0..127), out : Seq(Outputs)]
    /\ st.open <=> Before(text, i + 1) % 2 = 1
    /\ \A j \in 1..Len(st.out) : st.out[j] = Sign(text, j)
    /\ st.open =>
          /\ Len(st.out) + 1 + Len(st.inner) = i
          /\ text[Len(st.out) + 1] = Quote /\ Before(text, Len(st.out) + 1) % 2 = 0
          /\ \A j \in 1..Len(st.inner) :
                /\ st.inner[j] = text[Len(st.out) + 1 + j] /\ st.inner[j] # Quote
                /\ Before(text, Len(st.out) + 1 + j) % 2 = 1
    /\ ~st.open => Len(st.out) = i /\ st.inner = <<>>

\* A string between two others.
LEMMA Assembled ==
    ASSUME NEW out \in Seq(Outputs), NEW e \in Seq(Outputs), NEW a \in Outputs, NEW b \in Outputs
    PROVE  LET r == out \o <<a>> \o e \o <<b>>
           IN  /\ r \in Seq(Outputs) /\ Len(r) = Len(out) + Len(e) + 2
               /\ \A j \in 1..Len(out) : r[j] = out[j]
               /\ r[Len(out) + 1] = a
               /\ \A j \in 1..Len(e) : r[Len(out) + 1 + j] = e[j]
               /\ r[Len(out) + Len(e) + 2] = b
<1> DEFINE r1 == out \o <<a>>
           r2 == r1 \o e
           r3 == r2 \o <<b>>
<1>0. Len(out) \in Nat /\ Len(e) \in Nat /\ <<a>> \in Seq(Outputs) /\ <<b>> \in Seq(Outputs)
  BY LenProperties
<1>1. /\ r1 \in Seq(Outputs) /\ Len(r1) = Len(out) + 1
      /\ \A j \in 1..Len(out) + 1 : r1[j] = IF j <= Len(out) THEN out[j] ELSE a
  <2>1. /\ r1 \in Seq(Outputs) /\ Len(r1) = Len(out) + Len(<<a>>)
        /\ \A j \in 1..Len(out) + Len(<<a>>) :
              r1[j] = IF j <= Len(out) THEN out[j] ELSE <<a>>[j - Len(out)]
    BY <1>0, ConcatProperties
  <2> QED
    BY SMTT(60), <1>0, <2>1
<1>2. /\ r2 \in Seq(Outputs) /\ Len(r2) = Len(r1) + Len(e)
      /\ \A j \in 1..Len(r1) + Len(e) : r2[j] = IF j <= Len(r1) THEN r1[j] ELSE e[j - Len(r1)]
  <2> HIDE DEF r1
  <2> QED
    BY <1>1, ConcatProperties
<1>3. /\ r3 \in Seq(Outputs) /\ Len(r3) = Len(r2) + 1
      /\ \A j \in 1..Len(r2) + 1 : r3[j] = IF j <= Len(r2) THEN r2[j] ELSE b
  <2> HIDE DEF r2
  <2>0. r2 \in Seq(Outputs) /\ <<b>> \in Seq(Outputs)
    BY <1>0, <1>2
  <2>1. /\ r3 \in Seq(Outputs) /\ Len(r3) = Len(r2) + Len(<<b>>)
        /\ \A j \in 1..Len(r2) + Len(<<b>>) :
              r3[j] = IF j <= Len(r2) THEN r2[j] ELSE <<b>>[j - Len(r2)]
    BY <2>0, ConcatProperties
  <2>2. Len(r2) \in Nat
    BY <1>2, LenProperties
  <2> QED
    BY SMTT(60), <2>1, <2>2
<1> HIDE DEF r1, r2, r3
<1>4. \A j \in 1..Len(out) : r3[j] = out[j]
  BY <1>0, <1>1, <1>2, <1>3
<1>5. r3[Len(out) + 1] = a
  BY SMTT(60), <1>0, <1>1, <1>2, <1>3
<1>6. \A j \in 1..Len(e) : r3[Len(out) + 1 + j] = e[j]
  BY SMTT(60), <1>0, <1>1, <1>2, <1>3
<1>7. r3[Len(out) + Len(e) + 2] = b /\ Len(r3) = Len(out) + Len(e) + 2
  BY <1>0, <1>1, <1>2, <1>3
<1> QED
  BY <1>3, <1>4, <1>5, <1>6, <1>7 DEF r1, r2, r3

\* The escape of ASCII characters, as marks.
LEMMA PlainMarks ==
    ASSUME NEW bytes \in Plain
    PROVE  /\ unicodeEscape(bytes) \in Seq(Outputs) /\ Len(unicodeEscape(bytes)) = Len(bytes)
           /\ \A j \in 1..Len(bytes) : unicodeEscape(bytes)[j] = Unit(bytes[j])
<1> DEFINE e == [i \in 1..Len(bytes) |-> Unit(bytes[i])]
<1>0. bytes \in Seq(0..127)
  BY DEF Plain
<1>1. Len(bytes) \in Nat /\ \A i \in 1..Len(bytes) : bytes[i] \in Nat
  <2>1. ASSUME NEW i \in 1..Len(bytes) PROVE bytes[i] \in Nat
    <3>1. bytes[i] \in 0..127
      BY SMTT(60), <1>0, ElementOfSeq
    <3>2. 0..127 \subseteq Nat
      OBVIOUS
    <3> QED
      BY Zenon, <3>1, <3>2
  <2>2. Len(bytes) \in Nat
    BY <1>0, LenProperties
  <2> QED
    BY <2>1, <2>2
<1>2. \A i \in 1..Len(bytes) : Unit(bytes[i]) \in Outputs
  BY <1>1 DEF Unit, Outputs
<1>3. e \in Seq(Outputs) /\ Len(e) = Len(bytes)
  <2> HIDE DEF Outputs
  <2>1. e \in [1..Len(bytes) -> Outputs]
    BY Zenon, <1>2
  <2> QED
    BY <1>1, <2>1
<1> QED
  BY <1>3, PlainEscape

\* A byte keeps the pairing.
LEMMA PairsStep ==
    ASSUME NEW text \in Plain, NEW i \in 1..Len(text), NEW st, PairsSo(text, i - 1, st)
    PROVE  PairsSo(text, i, EscapeStep(st, text[i]))
<1> DEFINE c == text[i]
           B == Before(text, i)
           nx == EscapeStep(st, c)
           Len1 == Len(st.out)
           Len2 == Len(st.inner)
<1> SUFFICES PairsSo(text, i, nx)
  OBVIOUS
<1>t. Len(text) \in Nat /\ text \in Seq(Nat) /\ c \in 0..127
  <2>1. text \in Seq(0..127) /\ 0..127 \subseteq Nat
    BY DEF Plain
  <2>2. text \in Seq(Nat)
    BY <2>1, SeqMonotonic
  <2> QED
    BY <2>1, <2>2, LenProperties, ElementOfSeq
<1>0. /\ Len(text) \in Nat /\ text \in Seq(Nat) /\ c \in 0..127 /\ c \in Nat
      /\ i \in Nat /\ i >= 1 /\ i - 1 + 1 = i
  BY <1>t
<1>1. B \in Nat /\ Before(text, i + 1) = B + (IF c = Quote THEN 1 ELSE 0)
  BY <1>0, BeforeCounts
<1>2. /\ st \in [open : BOOLEAN, inner : Seq(0..127), out : Seq(Outputs)]
      /\ st.open \in BOOLEAN /\ st.inner \in Seq(0..127) /\ st.out \in Seq(Outputs)
      /\ Len1 \in Nat /\ Len2 \in Nat
      /\ st.open <=> B % 2 = 1
      /\ \A j \in 1..Len1 : st.out[j] = Sign(text, j)
  <2>1. st \in [open : BOOLEAN, inner : Seq(0..127), out : Seq(Outputs)]
    BY DEF PairsSo
  <2> QED
    BY <1>0, <2>1, LenProperties DEF PairsSo
<1>3. st.open => /\ Len1 + 1 + Len2 = i - 1
                 /\ text[Len1 + 1] = Quote /\ Before(text, Len1 + 1) % 2 = 0
                 /\ \A j \in 1..Len2 :
                       /\ st.inner[j] = text[Len1 + 1 + j] /\ st.inner[j] # Quote
                       /\ Before(text, Len1 + 1 + j) % 2 = 1
  BY Zenon DEF PairsSo
<1>4. ~st.open => Len1 = i - 1 /\ st.inner = <<>>
  BY Zenon DEF PairsSo
<1>q. Byte(Quote) \in Outputs /\ Byte(c) \in Outputs
  BY <1>0 DEF Byte, Outputs, Quote
<1>5. CASE c # Quote /\ st.open
  <2> DEFINE inner == Append(st.inner, c)
  <2>1. nx = [st EXCEPT !.inner = inner]
    BY <1>5 DEF EscapeStep
  <2>2. /\ inner \in Seq(0..127) /\ Len(inner) = Len2 + 1
        /\ \A j \in 1..Len2 + 1 : inner[j] = IF j = Len2 + 1 THEN c ELSE st.inner[j]
    BY SMTT(60), <1>0, <1>2, AppendProperties
  <2>3. /\ nx.open = st.open /\ nx.out = st.out /\ nx.inner = inner
        /\ nx \in [open : BOOLEAN, inner : Seq(0..127), out : Seq(Outputs)]
    BY <1>2, <2>1, <2>2
  <2>4. ASSUME NEW j \in 1..Len(nx.inner)
        PROVE  /\ nx.inner[j] = text[Len1 + 1 + j] /\ nx.inner[j] # Quote
               /\ Before(text, Len1 + 1 + j) % 2 = 1
    <3>1. j \in 1..Len2 + 1 /\ nx.inner[j] = IF j = Len2 + 1 THEN c ELSE st.inner[j]
      BY SMTT(60), <2>2, <2>3
    <3>2. CASE j = Len2 + 1
      <4>1. Len1 + 1 + j = i
        BY <1>2, <1>3, <1>5, <3>2, <1>0
      <4> QED
        BY <1>2, <1>5, <3>1, <3>2, <4>1
    <3>3. CASE j # Len2 + 1
      <4>1. j \in 1..Len2
        BY SMTT(60), <1>2, <3>1, <3>3
      <4> QED
        BY <1>3, <1>5, <3>1, <3>3, <4>1
    <3> QED
      BY <3>2, <3>3
  <2>5. Len1 + 1 + Len(nx.inner) = i
    BY <1>0, <1>2, <1>3, <1>5, <2>2, <2>3
  <2>6. Before(text, i + 1) % 2 = 1
    BY <1>1, <1>2, <1>5
  <2> HIDE DEF nx, c, B
  <2> QED
    BY SMTT(60), <1>2, <1>3, <1>5, <2>3, <2>4, <2>5, <2>6 DEF PairsSo
<1>6. CASE c # Quote /\ ~st.open
  <2> DEFINE out == Append(st.out, Byte(c))
  <2>1. nx = [st EXCEPT !.out = out]
    BY <1>6 DEF EscapeStep
  <2>2. /\ out \in Seq(Outputs) /\ Len(out) = Len1 + 1
        /\ \A j \in 1..Len1 + 1 : out[j] = IF j = Len1 + 1 THEN Byte(c) ELSE st.out[j]
    BY <1>q, <1>2, AppendProperties
  <2>3. /\ nx.open = st.open /\ nx.out = out /\ nx.inner = st.inner
        /\ nx \in [open : BOOLEAN, inner : Seq(0..127), out : Seq(Outputs)]
    BY <1>2, <2>1, <2>2
  <2>4. Sign(text, i) = Byte(c)
    BY <1>1, <1>2, <1>6 DEF Sign
  <2>5. ASSUME NEW j \in 1..Len(nx.out) PROVE nx.out[j] = Sign(text, j)
    <3>1. j \in 1..Len1 + 1 /\ nx.out[j] = IF j = Len1 + 1 THEN Byte(c) ELSE st.out[j]
      BY <2>2, <2>3
    <3>2. CASE j = Len1 + 1
      BY <1>0, <1>4, <1>6, <2>4, <3>1, <3>2
    <3>3. CASE j # Len1 + 1
      <4>1. j \in 1..Len1
        BY SMTT(60), <1>2, <3>1, <3>3
      <4> QED
        BY <1>2, <3>1, <3>3, <4>1
    <3> QED
      BY <3>2, <3>3
  <2>6. Before(text, i + 1) % 2 # 1
    BY <1>1, <1>2, <1>6
  <2>7. Len(nx.out) = i
    BY <1>0, <1>4, <1>6, <2>2, <2>3
  <2> HIDE DEF nx, c, B
  <2> QED
    BY <1>4, <1>6, <2>3, <2>5, <2>6, <2>7 DEF PairsSo
<1>7. CASE c = Quote /\ st.open
  <2> DEFINE e == unicodeEscape(st.inner)
             q == Byte(Quote)
             out == st.out \o <<q>> \o e \o <<q>>
  <2>1. nx = [open |-> FALSE, inner |-> <<>>, out |-> out]
    BY <1>7 DEF EscapeStep
  <2>2. /\ e \in Seq(Outputs) /\ Len(e) = Len2
        /\ \A j \in 1..Len2 : e[j] = Unit(st.inner[j])
    BY <1>2, PlainMarks DEF Plain
  <2>3. /\ out \in Seq(Outputs) /\ Len(out) = Len1 + Len(e) + 2
        /\ \A j \in 1..Len1 : out[j] = st.out[j]
        /\ out[Len1 + 1] = q
        /\ \A j \in 1..Len(e) : out[Len1 + 1 + j] = e[j]
        /\ out[Len1 + Len(e) + 2] = q
    <3> HIDE DEF e, q
    <3>1. q \in Outputs /\ e \in Seq(Outputs) /\ st.out \in Seq(Outputs)
      BY <1>q, <1>2, <2>2 DEF q
    <3> QED
      BY SMTT(60), <3>1, Assembled
  <2> HIDE DEF e, out
  <2>4. Len1 + Len2 + 2 = i
    BY <1>0, <1>2, <1>3, <1>7
  <2>5. ASSUME NEW j \in 1..Len(out) PROVE out[j] = Sign(text, j)
    <3>1. j \in 1 .. Len1 + Len2 + 2
      BY <2>2, <2>3
    <3>2. CASE j \in 1..Len1
      BY <1>2, <2>3, <3>2
    <3>3. CASE j = Len1 + 1
      BY <1>3, <1>7, <2>3, <3>3 DEF Sign
    <3>4. CASE j \in Len1 + 2 .. Len1 + Len2 + 1
      <4> DEFINE k == j - (Len1 + 1)
      <4>1. k \in 1..Len2 /\ j = Len1 + 1 + k
        BY <1>2, <3>4
      <4> HIDE DEF k
      <4>2. out[j] = Unit(st.inner[k])
        BY <2>2, <2>3, <4>1
      <4>3. /\ st.inner[k] = text[j] /\ st.inner[k] # Quote
            /\ Before(text, j) % 2 = 1
        BY <1>3, <1>7, <4>1
      <4> QED
        BY <4>2, <4>3 DEF Sign
    <3>5. CASE j = Len1 + Len2 + 2
      <4>1. j = i /\ out[j] = q
        BY <2>2, <2>3, <2>4, <3>5
      <4>2. text[j] = Quote
        BY <1>7, <4>1
      <4>3. Sign(text, j) = Byte(Quote)
        BY <4>2 DEF Sign
      <4> QED
        BY <4>1, <4>3
    <3>6. Len1 \in Nat /\ Len2 \in Nat /\ j \in 1 .. Len1 + Len2 + 2
      BY <1>2, <3>1
    <3>7. \/ j \in 1..Len1 \/ j = Len1 + 1
          \/ j \in Len1 + 2 .. Len1 + Len2 + 1 \/ j = Len1 + Len2 + 2
      <4> HIDE DEF Len1, Len2
      <4> QED
        BY <3>6
    <3> QED
      BY Zenon, <3>2, <3>3, <3>4, <3>5, <3>7
  <2>6. Before(text, i + 1) % 2 # 1
    BY SMTT(60), <1>1, <1>2, <1>7
  <2>7. nx.open = FALSE /\ nx.inner = <<>> /\ nx.out = out
        /\ nx \in [open : BOOLEAN, inner : Seq(0..127), out : Seq(Outputs)]
    BY <2>1, <2>3
  <2>8. Len(out) = i
    BY <2>2, <2>3, <2>4
  <2> HIDE DEF nx, c, B
  <2> QED
    BY <2>5, <2>6, <2>7, <2>8 DEF PairsSo
<1>8. CASE c = Quote /\ ~st.open
  <2>1. nx = [st EXCEPT !.open = TRUE]
    BY <1>8 DEF EscapeStep
  <2>2. /\ nx.open = TRUE /\ nx.out = st.out /\ nx.inner = <<>>
        /\ nx \in [open : BOOLEAN, inner : Seq(0..127), out : Seq(Outputs)]
    BY <1>2, <1>4, <1>8, <2>1
  <2>3. Before(text, i + 1) % 2 = 1 /\ B % 2 = 0
    <3>1. B \in Nat /\ Before(text, i + 1) = B + 1 /\ B % 2 # 1
      BY <1>1, <1>2, <1>8
    <3> HIDE DEF B
    <3> QED
      BY <3>1
  <2>4. Len1 + 1 = i
    BY <1>0, <1>4, <1>8
  <2>5. Len(nx.inner) = 0
    BY <2>2
  <2> HIDE DEF nx
  <2>6. /\ Len(nx.out) + 1 + Len(nx.inner) = i
        /\ text[Len(nx.out) + 1] = Quote /\ Before(text, Len(nx.out) + 1) % 2 = 0
    BY SMTT(60), <1>0, <1>8, <2>2, <2>3, <2>4, <2>5
  <2>7. \A j \in 1..Len(nx.inner) : FALSE
    BY <2>5
  <2>8. \A j \in 1..Len(nx.out) : nx.out[j] = Sign(text, j)
    BY <1>2, <2>2
  <2> QED
    BY <2>2, <2>3, <2>6, <2>7, <2>8 DEF PairsSo
<1> QED
  BY <1>2, <1>5, <1>6, <1>7, <1>8

LEMMA PairsAlways ==
    ASSUME NEW text \in Plain, NEW i \in 0..Len(text)
    PROVE  PairsSo(text, i, PairLoop(text)[i])
<1> DEFINE S == {n \in 0..Len(text) : PairsSo(text, n, PairLoop(text)[n])}
<1>0. Len(text) \in Nat /\ text \in Seq(Nat)
  <2>1. text \in Seq(0..127) /\ 0..127 \subseteq Nat
    BY DEF Plain
  <2> QED
    BY <2>1, SeqMonotonic, LenProperties
<1>1. /\ PairLoop(text)[0] = PairStart
      /\ \A n \in 1..Len(text) : PairLoop(text)[n] = EscapeStep(PairLoop(text)[n - 1], text[n])
  BY <1>0, PairLoopSteps
<1>2. 0 \in S
  <2>1. Before(text, 1) = 0
    BY <1>0, BeforeCounts
  <2>2. PairStart \in [open : BOOLEAN, inner : Seq(0..127), out : Seq(Outputs)]
    BY DEF PairStart
  <2>3. PairStart.open = FALSE /\ PairStart.inner = <<>> /\ PairStart.out = <<>> /\ Len(<<>>) = 0
    BY DEF PairStart
  <2>4. PairsSo(text, 0, PairStart)
    BY <2>1, <2>2, <2>3 DEF PairsSo
  <2> QED
    BY <1>0, <1>1, <2>4
<1>3. ASSUME NEW n \in 0..Len(text), n \in S, n < Len(text) PROVE n + 1 \in S
  <2>1. n + 1 \in 1..Len(text) /\ n + 1 - 1 = n /\ n + 1 \in 0..Len(text)
    BY <1>0, <1>3
  <2>2. PairsSo(text, n, PairLoop(text)[n])
    BY <1>3
  <2>3. PairsSo(text, n + 1, EscapeStep(PairLoop(text)[n], text[n + 1]))
    <3>1. PairsSo(text, n + 1 - 1, PairLoop(text)[n])
      BY <2>1, <2>2
    <3> QED
      BY <2>1, <3>1, PairsStep
  <2>4. PairLoop(text)[n + 1] = EscapeStep(PairLoop(text)[n], text[n + 1])
    BY <1>1, <2>1
  <2> QED
    BY <2>1, <2>3, <2>4
<1>4. \A n \in 0..Len(text) : n \in S /\ n < Len(text) => n + 1 \in S
  BY <1>3
<1>5. 0..Len(text) \subseteq S
  <2> HIDE DEF S
  <2> QED
    BY <1>0, <1>2, <1>4, Ascend
<1> QED
  BY <1>5

\* When all strings end, each character has become its sign.
LEMMA EscapedPaired ==
    ASSUME NEW text \in Plain, Paired(text)
    PROVE  /\ Escaped(text) \in Seq(Outputs) /\ Len(Escaped(text)) = Len(text)
           /\ \A j \in 1..Len(text) : Escaped(text)[j] = Sign(text, j)
<1> DEFINE end == PairLoop(text)[Len(text)]
<1>0. Len(text) \in Nat
  BY LenProperties DEF Plain
<1>1. PairsSo(text, Len(text), end)
  BY <1>0, PairsAlways
<1> HIDE DEF end
<1>2. ~end.open
  BY <1>1 DEF PairsSo, Paired
<1>3. end.out \in Seq(Outputs) /\ Len(end.out) = Len(text)
      /\ \A j \in 1..Len(end.out) : end.out[j] = Sign(text, j)
  BY <1>1, <1>2 DEF PairsSo
<1>4. Escaped(text) = end.out
  <2>1. Escaped(text) = end.out \o <<>>
    BY <1>2 DEF Escaped, end
  <2> QED
    BY <1>3, <2>1, ConcatEmptySeq
<1> QED
  BY <1>3, <1>4

\* When a string does not end, it and what follows is copied.
LEMMA EscapedUnpaired ==
    ASSUME NEW text \in Plain, ~Paired(text)
    PROVE  /\ Escaped(text) \in Seq(Outputs) /\ Len(Escaped(text)) = Len(text)
           /\ \E k \in 1..Len(text) :
                 /\ text[k] = Quote /\ Before(text, k) % 2 = 0
                 /\ \A j \in 1 .. k - 1 : Escaped(text)[j] = Sign(text, j)
                 /\ \A j \in k .. Len(text) : Escaped(text)[j] = Byte(text[j])
                 /\ \A j \in k + 1 .. Len(text) : text[j] # Quote
<1> DEFINE end == PairLoop(text)[Len(text)]
           rest == Raw(<<Quote>> \o end.inner)
           Len1 == Len(end.out)
           Len2 == Len(end.inner)
<1>0. Len(text) \in Nat /\ text \in Seq(Nat)
  <2>1. text \in Seq(0..127) /\ 0..127 \subseteq Nat
    BY DEF Plain
  <2> QED
    BY <2>1, SeqMonotonic, LenProperties
<1>1. PairsSo(text, Len(text), end)
  BY <1>0, PairsAlways
<1>2. end.open
  <2>0. 1..Len(text) = {} => Before(text, Len(text) + 1) = 0
    BY <1>0, BeforeCounts
  <2>1. Before(text, Len(text) + 1) \in Nat
    <3>1. CASE Len(text) = 0
      BY <1>0, <2>0, <3>1
    <3>2. CASE Len(text) # 0
      <4>1. Len(text) \in 1..Len(text)
        BY <1>0, <3>2
      <4> QED
        BY SMTT(60), <1>0, <4>1, BeforeCounts
    <3> QED
      BY <3>1, <3>2
  <2>2. Before(text, Len(text) + 1) % 2 = 1
    BY <2>1 DEF Paired
  <2> QED
    BY <1>1, <2>2 DEF PairsSo
<1> HIDE DEF end
<1>3. /\ end.out \in Seq(Outputs) /\ Len1 \in Nat /\ end.inner \in Seq(0..127) /\ Len2 \in Nat
      /\ Len1 + 1 + Len2 = Len(text)
      /\ \A j \in 1..Len1 : end.out[j] = Sign(text, j)
      /\ text[Len1 + 1] = Quote /\ Before(text, Len1 + 1) % 2 = 0
      /\ \A j \in 1..Len2 : end.inner[j] = text[Len1 + 1 + j] /\ end.inner[j] # Quote
  <2>1. /\ end.out \in Seq(Outputs) /\ end.inner \in Seq(0..127)
    BY <1>1 DEF PairsSo
  <2> QED
    BY <1>1, <1>2, <2>1, LenProperties DEF PairsSo
<1>4. /\ rest \in Seq(Outputs) /\ Len(rest) = Len2 + 1
      /\ \A j \in 1..Len2 + 1 : rest[j] = Byte(text[Len1 + j])
  <2> DEFINE whole == <<Quote>> \o end.inner
  <2>1. <<Quote>> \in Seq(0..127) /\ Len(<<Quote>>) = 1
    BY DEF Quote
  <2>2. /\ whole \in Seq(0..127) /\ Len(whole) = 1 + Len2
        /\ \A j \in 1 .. 1 + Len2 :
              whole[j] = IF j <= 1 THEN <<Quote>>[j] ELSE end.inner[j - 1]
    BY <1>3, <2>1, ConcatProperties
  <2>3. DOMAIN whole = 1..Len2 + 1
    BY <1>3, <2>2, LenProperties
  <2> HIDE DEF whole
  <2>4. rest = [j \in 1..Len2 + 1 |-> Byte(whole[j])]
    BY <2>3 DEF Raw, whole
  <2>5. ASSUME NEW j \in 1..Len2 + 1
        PROVE  whole[j] = text[Len1 + j] /\ Byte(whole[j]) \in Outputs
    <3>1. whole[j] = text[Len1 + j]
      <4>1. CASE j = 1
        <5>1. whole[j] = Quote
          BY <1>3, <2>2, <4>1
        <5> QED
          BY <1>3, <4>1, <5>1
      <4>2. CASE j # 1
        <5>1. j - 1 \in 1..Len2 /\ j \in 1 .. 1 + Len2 /\ ~(j <= 1) /\ Len1 + 1 + (j - 1) = Len1 + j
          BY <1>3, <4>2
        <5>2. whole[j] = end.inner[j - 1]
          BY <2>2, <5>1
        <5>3. end.inner[j - 1] = text[Len1 + 1 + (j - 1)]
          BY <1>3, <5>1
        <5> QED
          BY <5>1, <5>2, <5>3
      <4> QED
        BY <4>1, <4>2
    <3>2. whole[j] \in Nat
      <4>1. j \in 1..Len(whole)
        BY <1>3, <2>2
      <4>2. whole[j] \in 0..127
        BY <2>2, <4>1, ElementOfSeq
      <4>3. 0..127 \subseteq Nat
        OBVIOUS
      <4> QED
        BY Zenon, <4>2, <4>3
    <3> QED
      BY <3>1, <3>2 DEF Byte, Outputs
  <2> HIDE DEF rest
  <2>6. rest \in Seq(Outputs) /\ Len(rest) = Len2 + 1
    <3>1. rest \in [1..Len2 + 1 -> Outputs]
      BY Zenon, <2>4, <2>5
    <3>2. Len2 + 1 \in Nat
      BY <1>3
    <3> HIDE DEF Outputs
    <3> QED
      BY <3>1, <3>2
  <2>7. \A j \in 1..Len2 + 1 : rest[j] = Byte(text[Len1 + j])
    BY <2>4, <2>5
  <2> QED
    BY <2>6, <2>7
<1> HIDE DEF rest
<1>a. /\ Len(text) \in Nat /\ Len1 \in Nat /\ Len2 \in Nat /\ Len(rest) = Len2 + 1
      /\ Len1 + 1 + Len2 = Len(text) /\ Len1 + Len(rest) = Len(text)
  <2>1. Len(text) \in Nat /\ Len1 \in Nat /\ Len2 \in Nat /\ Len1 + 1 + Len2 = Len(text)
    BY <1>0, <1>3
  <2>2. Len(rest) = Len2 + 1
    BY <1>4
  <2> DEFINE n == Len(text)
             r == Len(rest)
  <2>3. n \in Nat /\ Len1 \in Nat /\ Len2 \in Nat /\ Len1 + 1 + Len2 = n /\ r = Len2 + 1
    BY <2>1, <2>2
  <2>4. Len1 + r = n
    <3> HIDE DEF n, r, Len1, Len2
    <3> QED
      BY <2>3
  <2> QED
    BY <2>3, <2>4
<1>5. Escaped(text) = end.out \o rest
  BY <1>2 DEF Escaped, end, rest
<1>6. /\ Escaped(text) \in Seq(Outputs) /\ Len(Escaped(text)) = Len(text)
      /\ \A j \in 1..Len(text) :
            Escaped(text)[j] = IF j <= Len1 THEN end.out[j] ELSE rest[j - Len1]
  <2>0. end.out \in Seq(Outputs) /\ rest \in Seq(Outputs)
    BY <1>3, <1>4
  <2>1. /\ Escaped(text) \in Seq(Outputs) /\ Len(Escaped(text)) = Len1 + Len(rest)
        /\ \A j \in 1..Len1 + Len(rest) :
              Escaped(text)[j] = IF j <= Len1 THEN end.out[j] ELSE rest[j - Len1]
    BY <2>0, <1>5, ConcatProperties
  <2>2. Len1 + Len(rest) = Len(text)
    BY <1>a
  <2> QED
    BY <2>1, <2>2
<1> DEFINE k == Len1 + 1
           n == Len(text)
<1>b. n \in Nat /\ Len1 \in Nat /\ Len2 \in Nat /\ Len1 + 1 + Len2 = n
  BY <1>a
<1>7. k \in 1..Len(text) /\ text[k] = Quote /\ Before(text, k) % 2 = 0
  <2>1. k \in 1..n
    <3> HIDE DEF n, Len1, Len2
    <3> QED
      BY <1>b
  <2> QED
    BY <1>3, <2>1
<1>8. ASSUME NEW j \in 1 .. k - 1 PROVE Escaped(text)[j] = Sign(text, j)
  <2>1. j \in 1..n /\ j \in 1..Len1 /\ j <= Len1
    <3> HIDE DEF n, Len1, Len2
    <3> QED
      BY <1>b
  <2> QED
    BY <1>3, <1>6, <2>1
<1>9. ASSUME NEW j \in k..Len(text) PROVE Escaped(text)[j] = Byte(text[j])
  <2>1. j \in 1..n /\ ~(j <= Len1) /\ j - Len1 \in 1..Len2 + 1 /\ Len1 + (j - Len1) = j
    <3>1. j \in k..n
      OBVIOUS
    <3> HIDE DEF n, Len1, Len2
    <3> QED
      BY <1>b, <3>1
  <2>2. rest[j - Len1] = Byte(text[Len1 + (j - Len1)])
    BY <1>4, <2>1
  <2> QED
    BY <1>6, <2>1, <2>2
<1>10. ASSUME NEW j \in k + 1 .. Len(text) PROVE text[j] # Quote
  <2>1. j - k \in 1..Len2 /\ Len1 + 1 + (j - k) = j
    <3>1. j \in k + 1 .. n
      OBVIOUS
    <3> HIDE DEF n, Len1, Len2
    <3> QED
      BY <1>b, <3>1
  <2>2. end.inner[j - k] = text[Len1 + 1 + (j - k)] /\ end.inner[j - k] # Quote
    BY <1>3, <2>1
  <2> QED
    BY <2>1, <2>2
<1> HIDE DEF k, n
<1> QED
  BY <1>6, <1>7, <1>8, <1>9, <1>10

----------------------------------------------------------------------------
(* minify: what it keeps and when it throws.                                *)

LEMMA MarkFacts ==
    /\ \A a, b : Byte(a) = Byte(b) <=> a = b
    /\ \A a, b : Unit(a) # Byte(b)
    /\ \A a : Byte(a)[2] = a /\ Unit(a)[2] = a
  BY DEF Byte, Unit

LEMMA SignFacts ==
    ASSUME NEW text \in Plain, NEW j \in 1..Len(text)
    PROVE  /\ text[j] \in Nat /\ Sign(text, j) \in Outputs /\ Sign(text, j)[2] = text[j]
           /\ Sign(text, j) = Byte(Quote) <=> text[j] = Quote
           /\ Before(text, j) % 2 = 0 => Sign(text, j) = Byte(text[j])
           /\ Before(text, j) % 2 # 0 => Sign(text, j) # Byte(Backslash)
<1>1. text[j] \in Nat
  <2>1. text[j] \in 0..127
    BY ElementOfSeq DEF Plain
  <2>2. 0..127 \subseteq Nat
    OBVIOUS
  <2> QED
    BY Zenon, <2>1, <2>2
<1>2. Byte(text[j]) \in Outputs /\ Unit(text[j]) \in Outputs
  BY <1>1 DEF Byte, Unit, Outputs
<1>3. Sign(text, j) \in Outputs /\ Sign(text, j)[2] = text[j]
  BY <1>2, MarkFacts DEF Sign
<1>4. Sign(text, j) = Byte(Quote) <=> text[j] = Quote
  BY MarkFacts DEF Sign
<1>5. Before(text, j) % 2 = 0 => Sign(text, j) = Byte(text[j])
  BY DEF Sign
<1>6. Before(text, j) % 2 # 0 => Sign(text, j) # Byte(Backslash)
  BY MarkFacts DEF Sign, Quote, Backslash
<1> QED
  BY <1>1, <1>3, <1>4, <1>5, <1>6

\* The characters to be kept, one by one.
LEMMA RankCounts ==
    ASSUME NEW text \in Plain
    PROVE  /\ Rank(text, 0) = 0 /\ Rank(text, Len(text)) = Cardinality(Needed(text))
           /\ \A i \in 1..Len(text) :
                 /\ Rank(text, i - 1) \in Nat
                 /\ Rank(text, i) = Rank(text, i - 1) + (IF i \in Needed(text) THEN 1 ELSE 0)
<1> DEFINE T == Needed(text)
           R(i) == {j \in T : j <= i}
           n == Len(text)
<1>1. Len(text) \in Nat /\ DOMAIN text = 1..Len(text)
  BY LenProperties DEF Plain
<1>2. n \in Nat /\ T \subseteq 1..n
  BY <1>1 DEF Needed
<1>6. ASSUME NEW j \in T PROVE j \in Int /\ 1 <= j /\ j <= n
  <2> HIDE DEF T, n
  <2>1. j \in 1..n
    BY <1>2
  <2> QED
    BY <1>2, <2>1
<1>3. R(0) = {} /\ R(n) = T
  <2> HIDE DEF T, n
  <2>1. R(0) = {}
    BY <1>6
  <2>2. R(n) = T
    BY <1>6
  <2> QED
    BY <2>1, <2>2
<1>4. ASSUME NEW i \in 1..n
      PROVE  /\ Rank(text, i - 1) \in Nat
             /\ Rank(text, i) = Rank(text, i - 1) + (IF i \in T THEN 1 ELSE 0)
  <2> HIDE DEF T, n
  <2>1. IsFiniteSet(R(i - 1))
    <3>1. IsFiniteSet(1..n)
      BY <1>2, FS_Interval
    <3>2. R(i - 1) \subseteq 1..n
      BY <1>2
    <3> QED
      BY <3>1, <3>2, FS_Subset
  <2>2. R(i) = IF i \in T THEN R(i - 1) \cup {i} ELSE R(i - 1)
    BY <1>6
  <2>3. i \notin R(i - 1)
    OBVIOUS
  <2> HIDE DEF R
  <2>4. Cardinality(R(i - 1)) \in Nat /\ Cardinality(R(i - 1) \cup {i}) = Cardinality(R(i - 1)) + 1
    BY <2>1, <2>3, FS_CardinalityType, FS_AddElement
  <2>5. Rank(text, i) = Cardinality(R(i)) /\ Rank(text, i - 1) = Cardinality(R(i - 1))
    BY Zenon DEF Rank, R, T
  <2> QED
    BY <2>2, <2>4, <2>5
<1>5. Rank(text, 0) = Cardinality(R(0)) /\ Rank(text, Len(text)) = Cardinality(R(Len(text)))
  BY Zenon DEF Rank
<1> HIDE DEF R
<1> QED
  BY <1>3, <1>4, <1>5, FS_EmptySet

\* After i characters: minify is inside a string when the quotes are odd in number,
\* skips nothing, and has each character to be kept at its rank.
KeptSo(text, i, st) ==
    /\ st \in [in : BOOLEAN, skip : {FALSE}, out : Seq(Outputs)]
    /\ st.in <=> Before(text, i + 1) % 2 = 1
    /\ Len(st.out) = Rank(text, i)
    /\ \A j \in Needed(text) : j <= i =>
          Rank(text, j) \in 1..Len(st.out) /\ st.out[Rank(text, j)][2] = text[j]

\* A character that became its sign keeps this.
LEMMA KeptStep ==
    ASSUME NEW text \in Plain, NEW i \in 1..Len(text), NEW st, KeptSo(text, i - 1, st)
    PROVE  KeptSo(text, i, MinifyStep(st, Sign(text, i)))
<1> DEFINE c == Sign(text, i)
           B == Before(text, i)
           r == Rank(text, i - 1)
           nx == MinifyStep(st, c)
<1> SUFFICES KeptSo(text, i, nx)
  OBVIOUS
<1>0. text \in Seq(Nat) /\ Len(text) \in Nat /\ DOMAIN text = 1..Len(text)
  <2>1. text \in Seq(0..127) /\ 0..127 \subseteq Nat
    BY DEF Plain
  <2> QED
    <3>1. text \in Seq(Nat)
      BY Zenon, <2>1, SeqMonotonic
    <3> QED
      BY <3>1, LenProperties
<1>1. B \in Nat /\ Before(text, i + 1) = B + (IF text[i] = Quote THEN 1 ELSE 0)
  BY <1>0, BeforeCounts
<1>2. r \in Nat /\ Rank(text, i) = r + (IF i \in Needed(text) THEN 1 ELSE 0)
  BY RankCounts
<1>3. /\ c \in Outputs /\ c[2] = text[i] /\ (c = Byte(Quote) <=> text[i] = Quote)
      /\ B % 2 = 0 => c = Byte(text[i])
      /\ B % 2 # 0 => c # Byte(Backslash)
  BY SignFacts
<1>4. i \in Needed(text) <=> text[i] \notin White \/ B % 2 = 1
  BY <1>0 DEF Needed
<1>5. \A j \in Needed(text) : j \in Int /\ (j <= i <=> j <= i - 1 \/ j = i)
  <2>1. Needed(text) \subseteq 1..Len(text)
    BY <1>0 DEF Needed
  <2> QED
    BY <1>0, <2>1
<1>6. i - 1 + 1 = i
  OBVIOUS
<1>7. /\ st \in [in : BOOLEAN, skip : {FALSE}, out : Seq(Outputs)]
      /\ st.in \in BOOLEAN /\ st.skip = FALSE /\ st.out \in Seq(Outputs)
      /\ st.in <=> B % 2 = 1
      /\ Len(st.out) = r
      /\ \A j \in Needed(text) : j <= i - 1 =>
            Rank(text, j) \in 1..r /\ st.out[Rank(text, j)][2] = text[j]
  BY <1>6 DEF KeptSo
<1>8. B % 2 \in {0, 1}
  <2> HIDE DEF B
  <2> QED
    BY <1>1
<1> HIDE DEF c, B, r
<1>9. CASE ~st.in /\ text[i] \in White
  <2>1. c = Byte(text[i])
    BY <1>3, <1>7, <1>8, <1>9
  <2>2. nx = st
    BY <1>7, <1>9, <2>1 DEF MinifyStep
  <2>3. i \notin Needed(text) /\ text[i] # Quote
    BY <1>4, <1>7, <1>9 DEF White, Quote
  <2>4. Before(text, i + 1) = B /\ Rank(text, i) = r
    BY <1>1, <1>2, <2>3
  <2> HIDE DEF nx
  <2>5. \A j \in Needed(text) : j <= i =>
            Rank(text, j) \in 1..r /\ st.out[Rank(text, j)][2] = text[j]
    BY <1>5, <1>7, <2>3
  <2> QED
    BY <1>7, <2>2, <2>4, <2>5 DEF KeptSo
<1>10. CASE st.in \/ text[i] \notin White
  <2> DEFINE out == Append(st.out, c)
             in == IF c = Byte(Quote) THEN ~st.in ELSE st.in
  <2>1. ~(~st.in /\ c \in {Byte(w) : w \in White})
    BY <1>3, <1>7, <1>8, <1>10, MarkFacts
  <2>2. ~(st.in /\ c = Byte(Backslash))
    BY <1>3, <1>7, <1>8
  <2>3. nx = [st EXCEPT !.out = out, !.in = in, !.skip = FALSE]
    BY <1>7, <2>1, <2>2 DEF MinifyStep
  <2>4. i \in Needed(text)
    BY <1>4, <1>7, <1>10
  <2>5. /\ out \in Seq(Outputs) /\ Len(out) = r + 1
        /\ \A m \in 1 .. r + 1 : out[m] = IF m = r + 1 THEN c ELSE st.out[m]
    <3>1. st.out \in Seq(Outputs) /\ c \in Outputs /\ Len(st.out) = r
      BY <1>3, <1>7
    <3>2. /\ out \in Seq(Outputs) /\ Len(out) = Len(st.out) + 1
          /\ \A m \in 1 .. Len(st.out) + 1 :
                out[m] = IF m = Len(st.out) + 1 THEN c ELSE st.out[m]
      BY <3>1, AppendProperties
    <3> QED
      BY <3>1, <3>2
  <2>6. /\ nx.out = out /\ nx.in = in
        /\ nx \in [in : BOOLEAN, skip : {FALSE}, out : Seq(Outputs)]
    <3> HIDE DEF out, in, nx
    <3>1. in \in BOOLEAN
      BY <1>7 DEF in
    <3> QED
      BY <1>7, <2>3, <2>5, <3>1
  <2>7. in <=> Before(text, i + 1) % 2 = 1
    <3>1. CASE text[i] = Quote
      <4>1. in = ~st.in /\ Before(text, i + 1) = B + 1
        BY <1>1, <1>3, <3>1
      <4>2. (B + 1) % 2 = 1 <=> B % 2 # 1
        BY <1>1
      <4> QED
        BY <1>7, <4>1, <4>2
    <3>2. CASE text[i] # Quote
      <4>1. in = st.in /\ Before(text, i + 1) = B
        BY <1>1, <1>3, <3>2
      <4> QED
        BY <1>7, <4>1
    <3> QED
      BY <3>1, <3>2
  <2>8. Rank(text, i) = r + 1
    BY <1>2, <2>4
  <2> HIDE DEF nx, out, in
  <2>9. ASSUME NEW j \in Needed(text), j <= i
        PROVE  Rank(text, j) \in 1 .. r + 1 /\ out[Rank(text, j)][2] = text[j]
    <3>1. CASE j = i
      <4>1. out[r + 1] = c /\ r + 1 \in 1 .. r + 1
        BY <1>2, <2>5
      <4> QED
        BY <1>3, <2>8, <3>1, <4>1
    <3>2. CASE j # i
      <4>1. j <= i - 1
        BY <1>5, <2>9, <3>2
      <4>2. Rank(text, j) \in 1..r /\ st.out[Rank(text, j)][2] = text[j]
        BY <1>7, <4>1
      <4>3. Rank(text, j) \in 1 .. r + 1 /\ Rank(text, j) # r + 1
        BY <1>2, <4>2
      <4> QED
        BY <2>5, <4>2, <4>3
    <3> QED
      BY <3>1, <3>2
  <2> QED
    BY <2>5, <2>6, <2>7, <2>8, <2>9 DEF KeptSo
<1> QED
  BY <1>7, <1>9, <1>10

\* As long as characters became their signs, minify keeps what is to be kept.
LEMMA KeptUpTo ==
    ASSUME NEW text \in Plain, NEW e, Len(e) = Len(text), NEW last \in 0..Len(text),
           \A j \in 1..last : e[j] = Sign(text, j)
    PROVE  KeptSo(text, last, MinifyLoop(e)[last])
<1> DEFINE S == {n \in 0..last : KeptSo(text, n, MinifyLoop(e)[n])}
<1>0. Len(text) \in Nat /\ text \in Seq(Nat) /\ last \in Nat
  <2>1. text \in Seq(0..127) /\ 0..127 \subseteq Nat
    BY DEF Plain
  <2>2. text \in Seq(Nat) /\ Len(text) \in Nat
    BY ZenonT(60), <2>1, SeqMonotonic, LenProperties
  <2> QED
    BY <2>2
<1>1. /\ MinifyLoop(e)[0] = MinifyStart
      /\ \A n \in 1..Len(text) : MinifyLoop(e)[n] = MinifyStep(MinifyLoop(e)[n - 1], e[n])
  <2>1. Len(e) \in Nat
    BY <1>0
  <2> QED
    BY <2>1, MinifyLoopSteps
<1>2. 0 \in S
  <2>1. Before(text, 0 + 1) = 0 /\ Rank(text, 0) = 0
    BY <1>0, BeforeCounts, RankCounts
  <2>2. /\ MinifyStart \in [in : BOOLEAN, skip : {FALSE}, out : Seq(Outputs)]
        /\ MinifyStart.in = FALSE /\ MinifyStart.out = <<>> /\ Len(<<>>) = 0
    BY DEF MinifyStart
  <2>3. \A j \in Needed(text) : ~(j <= 0)
    <3>1. Needed(text) \subseteq 1..Len(text)
      BY LenProperties DEF Needed, Plain
    <3> QED
      BY <1>0, <3>1
  <2>5. MinifyStart.in <=> Before(text, 0 + 1) % 2 = 1
    BY <2>1, <2>2
  <2>6. Len(MinifyStart.out) = Rank(text, 0)
    BY <2>1, <2>2
  <2>4. KeptSo(text, 0, MinifyStart)
    BY Zenon, <2>2, <2>3, <2>5, <2>6 DEF KeptSo
  <2> QED
    BY <1>0, <1>1, <2>4
<1>3. ASSUME NEW n \in 0..last, n \in S, n < last PROVE n + 1 \in S
  <2>1. /\ n + 1 \in 1..last /\ n + 1 \in 1..Len(text) /\ n + 1 - 1 = n
        /\ n + 1 \in 0..last
    BY <1>0, <1>3
  <2>2. KeptSo(text, n + 1 - 1, MinifyLoop(e)[n])
    BY <1>3, <2>1
  <2>3. KeptSo(text, n + 1, MinifyStep(MinifyLoop(e)[n], Sign(text, n + 1)))
    BY <2>1, <2>2, KeptStep
  <2>4. MinifyLoop(e)[n + 1] = MinifyStep(MinifyLoop(e)[n], Sign(text, n + 1))
    BY <1>1, <2>1
  <2> QED
    BY <2>1, <2>3, <2>4
<1>4. \A n \in 0..last : n \in S /\ n < last => n + 1 \in S
  BY <1>3
<1>5. 0..last \subseteq S
  <2> HIDE DEF S
  <2> QED
    BY <1>0, <1>2, <1>4, Ascend
<1>6. last \in S
  <2> HIDE DEF S
  <2> QED
    BY <1>0, <1>5
<1> QED
  BY <1>6

\* No text becomes the exception.
LEMMA NotThrown ==
    ASSUME NEW s \in Seq(Outputs)
    PROVE  s # Thrown
<1> SUFFICES ASSUME s = Thrown PROVE FALSE
  OBVIOUS
<1>1. Len(s) = 1 /\ s[1] = <<"thrown", 0>>
  BY DEF Thrown
<1>2. s[1] \in Outputs
  BY <1>1, ElementOfSeq
<1> QED
  BY <1>1, <1>2 DEF Outputs

\* minify on a text whose strings end.
LEMMA MinifyPaired ==
    ASSUME NEW text \in Plain, Paired(text)
    PROVE  /\ minify(Escaped(text)) \in Seq(Outputs)
           /\ Len(minify(Escaped(text))) = Cardinality(Needed(text))
           /\ \A j \in Needed(text) : minify(Escaped(text))[Rank(text, j)][2] = text[j]
<1> DEFINE e == Escaped(text)
           end == MinifyLoop(e)[Len(text)]
<1>0. Len(text) \in Nat /\ Len(text) \in 0..Len(text) /\ DOMAIN text = 1..Len(text)
  BY LenProperties DEF Plain
<1>1. Len(e) = Len(text) /\ \A j \in 1..Len(text) : e[j] = Sign(text, j)
  BY EscapedPaired
<1> HIDE DEF e
<1>2. KeptSo(text, Len(text), end)
  BY <1>0, <1>1, KeptUpTo
<1>3. minify(e) = IF end.in THEN Thrown ELSE end.out
  BY <1>1 DEF minify
<1> HIDE DEF end
<1>4. ~end.in
  BY <1>2 DEF KeptSo, Paired
<1>5. \A j \in Needed(text) : j <= Len(text)
  BY <1>0 DEF Needed
<1>6. end.out \in Seq(Outputs)
  BY <1>2 DEF KeptSo
<1>7. Len(end.out) = Cardinality(Needed(text))
  BY <1>2, RankCounts DEF KeptSo
<1>8. \A j \in Needed(text) : end.out[Rank(text, j)][2] = text[j]
  BY <1>2, <1>5 DEF KeptSo
<1> QED
  BY <1>3, <1>4, <1>6, <1>7, <1>8 DEF e

\* minify on a text with a string that does not end: it never gets out of it.
LEMMA MinifyUnpaired ==
    ASSUME NEW text \in Plain, ~Paired(text)
    PROVE  minify(Escaped(text)) = Thrown
<1> DEFINE e == Escaped(text)
           M == MinifyLoop(e)
<1>0. Len(text) \in Nat /\ text \in Seq(Nat)
  <2>1. text \in Seq(0..127) /\ 0..127 \subseteq Nat
    BY DEF Plain
  <2> QED
    BY <2>1, SeqMonotonic, LenProperties
<1>1. /\ Len(e) = Len(text)
      /\ \E k \in 1..Len(text) :
            /\ text[k] = Quote /\ Before(text, k) % 2 = 0
            /\ \A j \in 1 .. k - 1 : e[j] = Sign(text, j)
            /\ \A j \in k .. Len(text) : e[j] = Byte(text[j])
            /\ \A j \in k + 1 .. Len(text) : text[j] # Quote
  BY EscapedUnpaired
<1>2. PICK k \in 1..Len(text) :
            /\ text[k] = Quote /\ Before(text, k) % 2 = 0
            /\ \A j \in 1 .. k - 1 : e[j] = Sign(text, j)
            /\ \A j \in k .. Len(text) : e[j] = Byte(text[j])
            /\ \A j \in k + 1 .. Len(text) : text[j] # Quote
  BY <1>1
<1> DEFINE n == Len(text)
<1> HIDE DEF e
<1>3. k \in Nat /\ k \in 0..n /\ k \in k..n /\ n \in Nat /\ k <= n
  <2> HIDE DEF n
  <2>1. k \in 1..n /\ n \in Nat
    BY <1>0 DEF n
  <2> QED
    BY <2>1
<1>4. \A j \in 1..k : e[j] = Sign(text, j)
  <2>1. e[k] = Sign(text, k)
    BY <1>2, <1>3 DEF Sign
  <2>2. \A j \in 1..k : j = k \/ j \in 1 .. k - 1
    BY <1>3
  <2> QED
    BY <1>2, <2>1, <2>2
<1>5. KeptSo(text, k, M[k])
  BY <1>1, <1>3, <1>4, KeptUpTo
<1>6. \A i \in 1..n : M[i] = MinifyStep(M[i - 1], e[i])
  <2>1. Len(e) \in Nat /\ Len(e) = n
    BY <1>0, <1>1
  <2> QED
    BY <2>1, MinifyLoopSteps
<1> HIDE DEF M, n
<1> DEFINE S == {i \in k..n : M[i].in = TRUE /\ M[i] \in [in : BOOLEAN, skip : BOOLEAN, out : Seq(Outputs)]}
<1>7. k \in S
  <2>1. Before(text, k + 1) = Before(text, k) + 1 /\ Before(text, k) \in Nat
    BY <1>0, <1>2, BeforeCounts
  <2>2. Before(text, k + 1) % 2 = 1
    BY SMTT(60), <1>2, <2>1
  <2>3. M[k].in = TRUE /\ M[k] \in [in : BOOLEAN, skip : {FALSE}, out : Seq(Outputs)]
    BY <1>5, <2>2 DEF KeptSo
  <2> QED
    BY <1>3, <2>3
<1>8. ASSUME NEW i \in k..n, i \in S, i < n PROVE i + 1 \in S
  <2>1. i + 1 \in 1..n /\ i + 1 - 1 = i /\ i + 1 \in k + 1 .. n /\ i + 1 \in k..n
    BY <1>3, <1>8
  <2> DEFINE c == e[i + 1]
             st == M[i]
  <2>2. /\ c = Byte(text[i + 1]) /\ text[i + 1] # Quote
    BY <1>2, <2>1 DEF n
  <2>3. c # Byte(Quote) /\ c \in Outputs
    <3>1. text[i + 1] \in Nat
      BY <1>0, <2>1, ElementOfSeq DEF n
    <3> QED
      BY <2>2, <3>1, MarkFacts DEF Byte, Outputs
  <2>4. st.in = TRUE /\ st \in [in : BOOLEAN, skip : BOOLEAN, out : Seq(Outputs)]
    BY <1>8
  <2>5. M[i + 1] = MinifyStep(st, c)
    BY <1>6, <2>1
  <2> HIDE DEF c, st
  <2>6. Append(st.out, c) \in Seq(Outputs)
    BY <2>3, <2>4, AppendProperties
  <2>7. CASE st.skip
    <3>1. MinifyStep(st, c) = [st EXCEPT !.out = Append(st.out, c), !.skip = FALSE]
      <4>1. ~(~st.in /\ c \in {Byte(w) : w \in White})
        BY <2>4
      <4> QED
        BY <2>7, <4>1 DEF MinifyStep
    <3>2. M[i + 1].in = TRUE /\ M[i + 1] \in [in : BOOLEAN, skip : BOOLEAN, out : Seq(Outputs)]
      BY <2>4, <2>5, <2>6, <3>1
    <3> QED
      BY <2>1, <3>2
  <2>8. CASE ~st.skip
    <3>0. /\ ~(~st.in /\ c \in {Byte(w) : w \in White})
          /\ (IF c = Byte(Quote) THEN ~st.in ELSE st.in) = st.in
      BY <2>3, <2>4
    <3>1. CASE c = Byte(Backslash)
      <4>1. MinifyStep(st, c) = [st EXCEPT !.out = Append(st.out, c), !.in = st.in, !.skip = TRUE]
        <5>1. (st.in /\ c = Byte(Backslash)) = TRUE
          BY <2>4, <3>1
        <5> QED
          BY <2>4, <2>8, <3>0, <5>1 DEF MinifyStep
      <4>2. M[i + 1].in = TRUE /\ M[i + 1] \in [in : BOOLEAN, skip : BOOLEAN, out : Seq(Outputs)]
        BY ZenonT(60), <2>4, <2>5, <2>6, <4>1
      <4> QED
        BY <2>1, <4>2
    <3>2. CASE c # Byte(Backslash)
      <4>1. MinifyStep(st, c) = [st EXCEPT !.out = Append(st.out, c), !.in = st.in, !.skip = FALSE]
        BY <2>4, <2>8, <3>0, <3>2 DEF MinifyStep
      <4>2. M[i + 1].in = TRUE /\ M[i + 1] \in [in : BOOLEAN, skip : BOOLEAN, out : Seq(Outputs)]
        BY <2>4, <2>5, <2>6, <4>1
      <4> QED
        BY <2>1, <4>2
    <3> QED
      BY <3>1, <3>2
  <2> QED
    BY <2>7, <2>8
<1>9. \A i \in k..n : i \in S /\ i < n => i + 1 \in S
  BY <1>8
<1>10. n \in S
  <2> HIDE DEF S
  <2>1. k..n \subseteq S
    BY <1>3, <1>7, <1>9, Ascend
  <2> QED
    BY <1>3, <2>1
<1>11. minify(e) = IF M[n].in THEN Thrown ELSE M[n].out
  BY <1>1 DEF minify, M, n
<1> QED
  BY <1>10, <1>11 DEF e

----------------------------------------------------------------------------
(* The properties of Generators.                                            *)

\* What /obfuscate answers to a text of ASCII characters.
LEMMA Obfuscated ==
    ASSUME NEW text \in Plain, NEW do_minify \in BOOLEAN
    PROVE  LET answer == obfuscateMain(text, do_minify)
           IN  /\ answer = Thrown <=> do_minify /\ ~Paired(text)
               /\ Paired(text) =>
                     IF do_minify
                     THEN /\ Len(answer) = Cardinality(Needed(text))
                          /\ \A i \in Needed(text) : answer[Rank(text, i)][2] = text[i]
                     ELSE [i \in DOMAIN answer |-> answer[i][2]] = text
<1>1. CASE Paired(text) /\ do_minify
  <2>1. obfuscateMain(text, do_minify) = minify(Escaped(text))
    BY <1>1 DEF obfuscateMain
  <2>2. /\ minify(Escaped(text)) \in Seq(Outputs)
        /\ Len(minify(Escaped(text))) = Cardinality(Needed(text))
        /\ \A j \in Needed(text) : minify(Escaped(text))[Rank(text, j)][2] = text[j]
    BY <1>1, MinifyPaired
  <2>3. minify(Escaped(text)) # Thrown
    BY <2>2, NotThrown
  <2> QED
    BY <1>1, <2>1, <2>2, <2>3
<1>2. CASE Paired(text) /\ ~do_minify
  <2> DEFINE e == Escaped(text)
  <2>1. obfuscateMain(text, do_minify) = e
    BY <1>2 DEF obfuscateMain
  <2>2. e \in Seq(Outputs) /\ Len(e) = Len(text) /\ \A j \in 1..Len(text) : e[j] = Sign(text, j)
    BY <1>2, EscapedPaired
  <2> HIDE DEF e
  <2>3. e # Thrown
    BY <2>2, NotThrown
  <2>4. DOMAIN e = 1..Len(text) /\ DOMAIN text = 1..Len(text) /\ text \in [1..Len(text) -> 0..127]
    BY <2>2, LenProperties DEF Plain
  <2>5. \A j \in 1..Len(text) : e[j][2] = text[j]
    BY <2>2, SignFacts
  <2>6. [i \in DOMAIN e |-> e[i][2]] = text
    <3>1. [i \in 1..Len(text) |-> e[i][2]] = [i \in 1..Len(text) |-> text[i]]
      BY Zenon, <2>5
    <3>2. text = [i \in 1..Len(text) |-> text[i]]
      BY Zenon, <2>4
    <3> QED
      BY Zenon, <2>4, <3>1, <3>2
  <2> QED
    BY <1>2, <2>1, <2>3, <2>6
<1>3. CASE ~Paired(text) /\ do_minify
  <2>1. obfuscateMain(text, do_minify) = Thrown
    BY <1>3, MinifyUnpaired DEF obfuscateMain
  <2> QED
    BY <1>3, <2>1
<1>4. CASE ~Paired(text) /\ ~do_minify
  <2>1. obfuscateMain(text, do_minify) = Escaped(text)
    BY <1>4 DEF obfuscateMain
  <2>2. Escaped(text) # Thrown
    BY <1>4, EscapedUnpaired, NotThrown
  <2> QED
    BY <1>4, <2>1, <2>2
<1> QED
  BY <1>1, <1>2, <1>3, <1>4

\* What a step makes of the request: it is set aside, or it is served.
LEMMA Requests ==
    ASSUME Next
    PROVE  \/ request' = Idle
           \/ \E v \in PayloadValues : Read(v)
           \/ \E text \in RawTexts, do_minify \in BOOLEAN : Obfuscate(text, do_minify)
           \/ \E codes \in Codes, do_minify \in BOOLEAN : Escape(codes, do_minify)
           \/ \E o \in PackOptions : MakeIndependent(o)
           \/ \E o \in PairOptions : MakeDependent(o)
           \/ \E o \in ItemOptions : MakeItem(o)
           \/ \E o \in EntityOptions : MakeEntity(o)
  BY Zenon DEF Next, Answer

LEMMA PlainTexts == RawTexts \subseteq Plain
<1>1. RawTexts \subseteq Seq(Ascii)
  BY Zenon, TextsAssumption
<1>2. Seq(Ascii) = Plain
  BY DEF Ascii, Plain
<1> QED
  BY Zenon, <1>1, <1>2

\* A request to obfuscate comes with the answer to it.
ObfuscateAnswered ==
    request.op = "obfuscate" =>
        /\ request.text \in RawTexts /\ request.minify \in BOOLEAN
        /\ result = obfuscateMain(request.text, request.minify)

\* The answer of /obfuscate is always that of obfuscateMain to a text of the user's.
LEMMA ObfuscateAnswers == Spec => []ObfuscateAnswered
<1>1. Init => ObfuscateAnswered
  BY DEF Init, Idle, ObfuscateAnswered
<1>2. ObfuscateAnswered /\ [Next]_vars => ObfuscateAnswered'
  <2> SUFFICES ASSUME ObfuscateAnswered, [Next]_vars, request.op' = "obfuscate"
               PROVE  /\ request.text' \in RawTexts /\ request.minify' \in BOOLEAN
                      /\ result' = obfuscateMain(request.text', request.minify')
    BY DEF ObfuscateAnswered
  <2>1. CASE UNCHANGED vars
    BY <2>1 DEF ObfuscateAnswered, vars
  <2>2. ASSUME NEW text \in RawTexts, NEW do_minify \in BOOLEAN, Obfuscate(text, do_minify)
        PROVE  /\ request.text' \in RawTexts /\ request.minify' \in BOOLEAN
               /\ result' = obfuscateMain(request.text', request.minify')
    BY <2>2 DEF Obfuscate, Serve
  <2>3. CASE Next
    BY <2>2, <2>3, Requests
       DEF Idle, Read, Escape, MakeIndependent, MakeDependent, MakeItem, MakeEntity, Serve
  <2> QED
    BY <2>1, <2>3
<1> QED
  BY <1>1, <1>2, PTL DEF Spec

\* For every text of ASCII characters without escapes: minify ends the process exactly
\* when it is asked to and a string is not closed (obfuscator::minify).
THEOREM ThrowsUnpairedOnly == Spec => []ThrowsOnlyUnpaired
<1>1. ObfuscateAnswered => ThrowsOnlyUnpaired
  <2> SUFFICES ASSUME ObfuscateAnswered, request.op = "obfuscate", Escapeless(request.text)
               PROVE  result = Thrown <=> request.minify /\ ~Paired(request.text)
    BY DEF ThrowsOnlyUnpaired
  <2>1. /\ request.text \in Plain /\ request.minify \in BOOLEAN
        /\ result = obfuscateMain(request.text, request.minify)
    <3>1. request.text \in RawTexts
      BY DEF ObfuscateAnswered
    <3> QED
      BY <3>1, PlainTexts DEF ObfuscateAnswered
  <2> QED
    BY <2>1, Obfuscated
<1> QED
  BY <1>1, ObfuscateAnswers, PTL

\* For every text of ASCII characters without escapes and whose strings end: obfuscating
\* keeps each character, and minify drops whitespace between strings and nothing else.
THEOREM KeepsCharacters == Spec => []ObfuscationKeeps
<1>1. ObfuscateAnswered => ObfuscationKeeps
  <2> SUFFICES ASSUME ObfuscateAnswered, request.op = "obfuscate",
                      Escapeless(request.text), Paired(request.text)
               PROVE  IF request.minify
                      THEN /\ Len(result) = Cardinality(Needed(request.text))
                           /\ \A i \in Needed(request.text) :
                                 result[Rank(request.text, i)][2] = request.text[i]
                      ELSE [i \in DOMAIN result |-> result[i][2]] = request.text
    BY DEF ObfuscationKeeps
  <2>1. /\ request.text \in Plain /\ request.minify \in BOOLEAN
        /\ result = obfuscateMain(request.text, request.minify)
    <3>1. request.text \in RawTexts
      BY SMTT(60) DEF ObfuscateAnswered
    <3> QED
      BY <3>1, PlainTexts DEF ObfuscateAnswered
  <2> QED
    BY <2>1, Obfuscated
<1> QED
  BY <1>1, ObfuscateAnswers, PTL

----------------------------------------------------------------------------
(* Texts of any character of the first plane.                               *)

LEMMA PlaneOfNumbers ==
    ASSUME NEW c \in FirstPlane
    PROVE  c \in Nat
BY SMTT(60) DEF FirstPlane

\* The bytes of a character tell its width, give its code, and hold no quote that
\* is not one.
LEMMA Utf8Facts ==
    ASSUME NEW c \in FirstPlane
    PROVE  LET u == Utf8(c)
           IN  /\ u \in Seq(Nat) /\ Len(u) \in 1..3 /\ Width(u[1]) = Len(u)
               /\ decode_utf8(u) = c /\ Units(c) = <<Unit(c)>>
               /\ c # Quote => \A i \in 1..Len(u) : u[i] # Quote
<1> DEFINE u == Utf8(c)
<1>0. c \in Nat /\ 1 <= c /\ c <= 65535
  BY SMTT(60) DEF FirstPlane
<1>u. Units(c) = <<Unit(c)>>
  BY <1>0 DEF Units
<1>1. CASE c < 128
  <2>1. u = <<c>> /\ Len(u) = 1 /\ u[1] = c /\ u \in Seq(Nat)
    BY <1>0, <1>1 DEF Utf8
  <2>2. Width(c) = 1
    <3>1. c \div 32 # 6 /\ c \div 16 # 14 /\ c \div 8 # 30
      BY <1>0, <1>1
    <3> QED
      BY <3>1 DEF Width
  <2>3. decode_utf8(u) = c
    BY <2>1, <2>2 DEF decode_utf8
  <2> HIDE DEF u
  <2>4. Len(u) \in 1..3 /\ Width(u[1]) = Len(u)
    BY <2>1, <2>2
  <2>5. c # Quote => \A i \in 1..Len(u) : u[i] # Quote
    BY <2>1
  <2> QED
    BY <1>u, <2>1, <2>3, <2>4, <2>5 DEF u
<1>2. CASE c >= 128 /\ c < 2048
  <2> DEFINE x == c \div 64
             y == c % 64
  <2>1. x \in 2..31 /\ y \in 0..63 /\ c = x * 64 + y
    BY <1>0, <1>2
  <2>2. u = <<192 + x, 128 + y>>
    BY <1>0, <1>2 DEF Utf8
  <2> HIDE DEF x, y
  <2> DEFINE p == 192 + x
             q == 128 + y
  <2>3. Len(u) = 2 /\ u[1] = 192 + x /\ u[2] = 128 + y /\ u \in Seq(Nat)
    <3>1. u = <<p, q>> /\ p \in Nat /\ q \in Nat
      BY <2>1, <2>2
    <3>2. Len(u) = 2 /\ u[1] = p /\ u[2] = q /\ u \in Seq(Nat)
      <4> HIDE DEF p, q, u
      <4> QED
        BY <3>1
    <3> QED
      BY <3>2
  <2>4. Width(192 + x) = 2
    <3>1. (192 + x) \div 32 = 6 /\ (192 + x) \div 16 # 14 /\ (192 + x) \div 8 # 30
      BY <2>1
    <3> QED
      BY <3>1 DEF Width
  <2>5. (192 + x) % 32 = x /\ (128 + y) % 64 = y
    BY <2>1
  <2> HIDE DEF u
  <2>6. decode_utf8(u) = x * 64 + y
    BY <2>3, <2>4, <2>5 DEF decode_utf8
  <2>7. Len(u) \in 1..3 /\ Width(u[1]) = Len(u)
    BY <2>3, <2>4
  <2>8. \A i \in 1..Len(u) : u[i] # Quote
    BY <2>1, <2>3 DEF Quote
  <2> QED
    BY <1>u, <2>1, <2>3, <2>6, <2>7, <2>8 DEF u
<1>3. CASE c >= 2048
  <2> DEFINE x == c \div 4096
             y == (c \div 64) % 64
             z == c % 64
  <2>1. x \in 0..15 /\ y \in 0..63 /\ z \in 0..63 /\ c = x * 4096 + y * 64 + z
    BY <1>0, <1>3
  <2>2. u = <<224 + x, 128 + y, 128 + z>>
    BY <1>0, <1>3 DEF Utf8
  <2> HIDE DEF x, y, z
  <2> DEFINE p == 224 + x
             q == 128 + y
             r == 128 + z
  <2>3. /\ Len(u) = 3 /\ u[1] = 224 + x /\ u[2] = 128 + y /\ u[3] = 128 + z
        /\ u \in Seq(Nat)
    <3>1. u = <<p, q, r>> /\ p \in Nat /\ q \in Nat /\ r \in Nat
      BY <2>1, <2>2
    <3>2. Len(u) = 3 /\ u[1] = p /\ u[2] = q /\ u[3] = r /\ u \in Seq(Nat)
      <4> HIDE DEF p, q, r, u
      <4> QED
        BY <3>1
    <3> QED
      BY <3>2
  <2>4. Width(224 + x) = 3
    <3>1. (224 + x) \div 32 # 6 /\ (224 + x) \div 16 = 14 /\ (224 + x) \div 8 # 30
      BY <2>1
    <3> QED
      BY <3>1 DEF Width
  <2>5. (224 + x) % 16 = x /\ (128 + y) % 64 = y /\ (128 + z) % 64 = z
    BY <2>1
  <2> HIDE DEF u
  <2>6. decode_utf8(u) = x * 4096 + y * 64 + z
    BY <2>3, <2>4, <2>5 DEF decode_utf8
  <2>7. Len(u) \in 1..3 /\ Width(u[1]) = Len(u)
    BY <2>3, <2>4
  <2>8. \A i \in 1..Len(u) : u[i] # Quote
    BY <2>1, <2>3 DEF Quote
  <2> QED
    BY <1>u, <2>1, <2>3, <2>6, <2>7, <2>8 DEF u
<1> QED
  BY SMTT(30), <1>0, <1>1, <1>2, <1>3

Encoded(codes) == FlattenSeq([i \in DOMAIN codes |-> Utf8(codes[i])])

\* The characters of a text and where their bytes are.
LEMMA EncodedFacts ==
    ASSUME NEW codes \in Seq(FirstPlane), NEW T \in SUBSET Nat,
           \A i \in 1..Len(codes) : Utf8(codes[i]) \in Seq(T)
    PROVE  /\ Encoded(codes) \in Seq(T)
           /\ \E off \in [0..Len(codes) -> Nat] :
                 /\ off[0] = 0 /\ off[Len(codes)] = Len(Encoded(codes))
                 /\ \A i \in 1..Len(codes) :
                       /\ off[i] = off[i - 1] + Len(Utf8(codes[i]))
                       /\ \A k \in 1..Len(Utf8(codes[i])) :
                             Encoded(codes)[off[i - 1] + k] = Utf8(codes[i])[k]
<1> DEFINE seqs == [i \in DOMAIN codes |-> Utf8(codes[i])]
<1>1. Len(codes) \in Nat /\ DOMAIN codes = 1..Len(codes)
  BY LenProperties
<1>2. seqs \in Seq(Seq(T)) /\ Len(seqs) = Len(codes)
  <2>1. seqs \in [1..Len(codes) -> Seq(T)]
    BY <1>1
  <2> HIDE DEF seqs
  <2> QED
    BY <1>1, <2>1
<1>3. \A i \in 1..Len(codes) : seqs[i] = Utf8(codes[i])
  BY <1>1
<1>4. Encoded(codes) = FlattenSeq(seqs)
  BY Zenon DEF Encoded
<1> HIDE DEF seqs
<1>5. /\ FlattenSeq(seqs) \in Seq(T)
      /\ \E off \in [0..Len(seqs) -> Nat] :
             /\ off[0] = 0 /\ off[Len(seqs)] = Len(FlattenSeq(seqs))
             /\ \A i \in 1..Len(seqs) :
                   /\ off[i] = off[i - 1] + Len(seqs[i])
                   /\ \A k \in 1..Len(seqs[i]) :
                         FlattenSeq(seqs)[off[i - 1] + k] = seqs[i][k]
  BY <1>2, Offsets
<1>6. PICK off \in [0..Len(codes) -> Nat] :
         /\ off[0] = 0 /\ off[Len(codes)] = Len(Encoded(codes))
         /\ \A i \in 1..Len(codes) :
               /\ off[i] = off[i - 1] + Len(seqs[i])
               /\ \A k \in 1..Len(seqs[i]) :
                     Encoded(codes)[off[i - 1] + k] = seqs[i][k]
  <2> DEFINE m == Len(codes)
             flat == Encoded(codes)
  <2>1. Len(seqs) = m /\ FlattenSeq(seqs) = flat
    BY <1>2, <1>4
  <2> HIDE DEF m, flat
  <2>2. \E off \in [0..m -> Nat] :
           /\ off[0] = 0 /\ off[m] = Len(flat)
           /\ \A i \in 1..m :
                 /\ off[i] = off[i - 1] + Len(seqs[i])
                 /\ \A k \in 1..Len(seqs[i]) : flat[off[i - 1] + k] = seqs[i][k]
    BY <1>5, <2>1
  <2> QED
    BY <2>2 DEF m, flat
<1>7. \A i \in 1..Len(codes) :
         /\ off[i] = off[i - 1] + Len(Utf8(codes[i]))
         /\ \A k \in 1..Len(Utf8(codes[i])) :
               Encoded(codes)[off[i - 1] + k] = Utf8(codes[i])[k]
  BY Zenon, <1>3, <1>6
<1> QED
  BY Zenon, <1>4, <1>5, <1>6, <1>7

\* The loop of unicodeEscape reads one character after the other.
LEMMA Utf8Escape ==
    ASSUME NEW codes \in Seq(FirstPlane)
    PROVE  unicodeEscape(Encoded(codes)) = [i \in 1..Len(codes) |-> Unit(codes[i])]
<1> DEFINE n == Len(codes)
           flat == Encoded(codes)
           st == EscapeLoop(flat)
           Out(i) == [j \in 1..i |-> Unit(codes[j])]
<1>0. n \in Nat /\ \A i \in 1..n : codes[i] \in FirstPlane
  BY LenProperties, ElementOfSeq
<1>1. ASSUME NEW i \in 1..n
      PROVE  /\ Utf8(codes[i]) \in Seq(Nat) /\ Len(Utf8(codes[i])) \in 1..3
             /\ Width(Utf8(codes[i])[1]) = Len(Utf8(codes[i]))
             /\ Units(decode_utf8(Utf8(codes[i]))) = <<Unit(codes[i])>>
  BY <1>0, Utf8Facts
<1>2. /\ flat \in Seq(Nat)
      /\ \E off \in [0..n -> Nat] :
                 /\ off[0] = 0 /\ off[n] = Len(flat)
                 /\ \A i \in 1..n :
                       /\ off[i] = off[i - 1] + Len(Utf8(codes[i]))
                       /\ \A k \in 1..Len(Utf8(codes[i])) :
                             flat[off[i - 1] + k] = Utf8(codes[i])[k]
  BY <1>1, EncodedFacts
<1>3. PICK off \in [0..n -> Nat] :
                 /\ off[0] = 0 /\ off[n] = Len(flat)
                 /\ \A i \in 1..n :
                       /\ off[i] = off[i - 1] + Len(Utf8(codes[i]))
                       /\ \A k \in 1..Len(Utf8(codes[i])) :
                             flat[off[i - 1] + k] = Utf8(codes[i])[k]
  BY <1>2
<1>4. Len(flat) \in Nat
  BY <1>2, LenProperties
<1>5. st[0] = EscapeStart /\ \A t \in 1..Len(flat) : st[t] = EscapeNext(flat, st[t - 1], t)
  BY <1>4, EscapeLoopSteps
<1> HIDE DEF n, flat, st
\* No character begins beyond the end.
<1>6. \A i \in 0..n : off[i] <= Len(flat)
  <2> SUFFICES ASSUME NEW i \in 0..n PROVE off[i] <= off[n]
    BY <1>3
  <2> DEFINE S == {m \in i..n : off[i] <= off[m]}
  <2>1. i \in S /\ n \in i..n /\ i \in Nat
    BY <1>0, <1>3
  <2>2. ASSUME NEW m \in i..n, m \in S, m < n PROVE m + 1 \in S
    <3> DEFINE k == m + 1
               w == Len(Utf8(codes[k]))
    <3>1. k \in 1..n /\ k - 1 = m /\ k \in i..n /\ m \in 0..n
      BY <1>0, <2>2
    <3> HIDE DEF k
    <3>2. w \in 1..3 /\ off[k] = off[m] + w
      BY <1>1, <1>3, <3>1
    <3> HIDE DEF w
    <3>3. off[i] <= off[k]
      <4>1. off[i] \in Nat /\ off[m] \in Nat /\ off[i] <= off[m]
        BY <1>3, <2>2, <3>1
      <4> QED
        BY <3>2, <4>1
    <3>4. k \in S
      BY <3>1, <3>3
    <3> QED
      BY <3>4 DEF k
  <2>3. \A m \in i..n : m \in S /\ m < n => m + 1 \in S
    BY <2>2
  <2>4. i..n \subseteq S
    <3> HIDE DEF S
    <3> QED
      BY <1>0, <2>1, <2>3, Ascend
  <2> QED
    BY <2>1, <2>4
<1> DEFINE Done(i) == [next |-> off[i] + 1, out |-> Out(i)]
           S == {i \in 0..n : st[off[i]] = Done(i)}
<1>7. 0 \in S
  <2>1. EscapeStart = Done(0)
    BY <1>3 DEF EscapeStart
  <2> QED
    BY <1>0, <1>3, <1>5, <2>1
<1>8. ASSUME NEW m \in 0..n, m \in S, m < n PROVE m + 1 \in S
  <2> DEFINE k == m + 1
             u == Utf8(codes[k])
             w == Len(u)
             a == off[m]
  <2>1. k \in 1..n /\ k - 1 = m /\ k \in 0..n /\ m \in Nat
    BY <1>0, <1>8
  <2>2. st[a] = Done(m)
    BY <1>8
  <2>3. Out(m) \o <<Unit(codes[k])>> = Out(k)
    BY <2>1
  <2> HIDE DEF k, Out
  <2>4. /\ u \in Seq(Nat) /\ w \in 1..3 /\ Width(u[1]) = w
        /\ Units(decode_utf8(u)) = <<Unit(codes[k])>>
    BY <1>1, <2>1
  <2>5. a \in Nat /\ off[k] = a + w /\ off[k] <= Len(flat)
    <3>1. m \in 0..n /\ off[k] = off[k - 1] + w
      BY <1>3, <2>1
    <3>2. off[m] \in Nat
      BY <1>3, <3>1
    <3> QED
      BY <1>6, <2>1, <3>1, <3>2
  <2>6. \A j \in 1..w : flat[a + j] = u[j]
    BY <1>3, <2>1
  <2> HIDE DEF u, w, a
  <2>7. SubSeq(flat, a + 1, a + 1 + w - 1) = u
    <3> DEFINE b == a + 1
               c == a + 1 + w - 1
               v == SubSeq(flat, b, c)
    <3>1. b \in Int /\ c \in Int /\ b <= c /\ c - b + 1 = w /\ \A j \in 1..w : b + j - 1 = a + j
      BY <2>4, <2>5
    <3>2. \A j \in b..c : flat[j] \in Nat
      <4>1. ASSUME NEW j \in b..c PROVE flat[j] \in Nat
        <5>1. j \in 1..Len(flat)
          BY <1>4, <2>4, <2>5
        <5> QED
          BY <1>2, <5>1, ElementOfSeq
      <4> QED
        BY <4>1
    <3> HIDE DEF b, c
    <3>3. /\ v \in Seq(Nat) /\ Len(v) = IF b <= c THEN c - b + 1 ELSE 0
          /\ \A j \in 1 .. c - b + 1 : v[j] = flat[b + j - 1]
      BY <3>1, <3>2, SubSeqProperties
    <3> HIDE DEF v
    <3>4. Len(v) = w /\ \A j \in 1..w : v[j] = flat[a + j]
      BY <3>1, <3>3
    <3>5. v = u
      <4>1. Len(u) = w
        BY DEF w
      <4>2. \A j \in 1..Len(v) : v[j] = u[j]
        BY <2>6, <3>4
      <4> QED
        BY <2>4, <3>3, <3>4, <4>1, <4>2, SeqEqual
    <3> QED
      BY <3>5 DEF v, b, c
  <2>8. flat[a + 1] = u[1]
    BY <2>4, <2>6
  <2> DEFINE N == [next |-> a + w + 1, out |-> Out(k)]
  <2>9. st[a + 1] = N
    <3>1. a + 1 \in 1..Len(flat) /\ a + 1 - 1 = a
      BY SMTT(60), <1>4, <2>4, <2>5
    <3>2. st[a + 1] = EscapeNext(flat, st[a], a + 1)
      <4> DEFINE x == a + 1
      <4>1. x \in 1..Len(flat) /\ x - 1 = a
        BY SMTT(60), <1>4, <2>4, <2>5
      <4> HIDE DEF x
      <4>2. st[x] = EscapeNext(flat, st[a], x)
        BY <1>5, <4>1
      <4> QED
        BY <4>2 DEF x
    <3>3. ~(a + 1 < Done(m).next) /\ Done(m).out = Out(m)
      BY <2>5 DEF a
    <3>4. EscapeNext(flat, st[a], a + 1) = [next |-> a + 1 + w, out |-> Out(m) \o <<Unit(codes[k])>>]
      <4>1. Units(decode_utf8(SubSeq(flat, a + 1, a + 1 + Width(flat[a + 1]) - 1))) = <<Unit(codes[k])>>
        BY <2>4, <2>7, <2>8
      <4>2. Width(flat[a + 1]) = w
        BY <2>4, <2>8
      <4> HIDE DEF Done
      <4> QED
        BY <2>2, <3>3, <4>1, <4>2 DEF EscapeNext
    <3>5. a + 1 + w = a + w + 1
      BY <2>4, <2>5
    <3> QED
      BY <2>3, <3>2, <3>4, <3>5
  <2> DEFINE R == {t \in a + 1 .. a + w : st[t] = N}
  <2>10. a + w \in R
    <3>1. a + 1 \in R /\ a + 1 \in Nat /\ a + w \in Nat
      BY SMTT(60), <2>4, <2>5, <2>9
    <3>2. ASSUME NEW t \in a + 1 .. a + w, t \in R, t < a + w PROVE t + 1 \in R
      <4> DEFINE x == t + 1
      <4>1. x \in a + 1 .. a + w /\ x \in 1..Len(flat) /\ x - 1 = t /\ x < a + w + 1
        BY <1>4, <2>4, <2>5, <3>2
      <4>2. st[t] = N
        BY <3>2
      <4> HIDE DEF x
      <4>3. st[x] = EscapeNext(flat, N, x)
        BY <1>5, <4>1, <4>2
      <4>4. EscapeNext(flat, N, x) = N
        BY <4>1 DEF EscapeNext
      <4>5. x \in R
        BY <4>1, <4>3, <4>4
      <4> QED
        BY <4>5 DEF x
    <3>3. \A t \in a + 1 .. a + w : t \in R /\ t < a + w => t + 1 \in R
      BY <3>2
    <3> HIDE DEF R
    <3>4. a + 1 .. a + w \subseteq R
      BY <3>1, <3>3, Ascend
    <3>5. a + w \in a + 1 .. a + w
      BY <2>4, <2>5
    <3> QED
      BY <3>4, <3>5
  <2>11. st[off[k]] = Done(k)
    BY <2>5, <2>10
  <2>12. k \in S
    BY <2>1, <2>11
  <2> QED
    BY <2>12 DEF k
<1>9. \A m \in 0..n : m \in S /\ m < n => m + 1 \in S
  BY <1>8
<1>10. n \in S
  <2> HIDE DEF S
  <2>1. 0..n \subseteq S
    BY <1>0, <1>7, <1>9, Ascend
  <2> QED
    BY <1>0, <2>1
<1>11. st[Len(flat)].out = Out(n)
  <2>1. st[off[n]] = Done(n) /\ off[n] = Len(flat)
    BY <1>3, <1>10
  <2> HIDE DEF Out
  <2>2. Done(n).out = Out(n)
    OBVIOUS
  <2> HIDE DEF Done
  <2> QED
    BY <2>1, <2>2
<1> QED
  BY <1>11 DEF unicodeEscape, st, flat, n

\* The answer to a string of characters.
Units2(codes) == [i \in 1..Len(codes) |-> Unit(codes[i])]
Wrapped(codes) == <<Byte(Quote)>> \o Units2(codes) \o <<Byte(Quote)>>

\* A quoted text without another quote is one string.
LEMMA QuotedEscaped ==
    ASSUME NEW codes \in Seq(FirstPlane), ~Occurs(Quote, codes)
    PROVE  Escaped(Quoted(codes)) = Wrapped(codes)
<1> DEFINE T == Nat \ {Quote}
           flat == Encoded(codes)
           text == Quoted(codes)
           L == Len(flat)
           p == PairLoop(text)
           In(i) == [j \in 1 .. i - 1 |-> flat[j]]
           Open(i) == [open |-> TRUE, inner |-> In(i), out |-> <<>>]
<1>1. flat \in Seq(T)
  <2>1. ASSUME NEW i \in 1..Len(codes) PROVE Utf8(codes[i]) \in Seq(T)
    <3> DEFINE u == Utf8(codes[i])
    <3>1. codes[i] \in FirstPlane /\ codes[i] # Quote
      <4>1. codes[i] \in FirstPlane /\ DOMAIN codes = 1..Len(codes)
        BY Zenon, ElementOfSeq, LenProperties
      <4> QED
        BY Zenon, <4>1 DEF Occurs
    <3>2. u \in Seq(Nat) /\ \A k \in 1..Len(u) : u[k] # Quote
      BY <3>1, Utf8Facts
    <3> HIDE DEF u
    <3>3. Len(u) \in Nat /\ u \in [1..Len(u) -> Nat]
      BY <3>2, LenProperties
    <3>4. u \in [1..Len(u) -> T]
      BY <3>2, <3>3
    <3> HIDE DEF T
    <3>5. u \in Seq(T)
      BY <3>3, <3>4
    <3> QED
      BY <3>5 DEF u
  <2>2. T \in SUBSET Nat
    OBVIOUS
  <2> HIDE DEF T
  <2> QED
    BY <2>1, <2>2, EncodedFacts
<1>2. /\ L \in Nat /\ flat \in Seq(Nat) /\ flat \in [1..L -> Nat]
      /\ \A j \in 1..L : flat[j] \in Nat /\ flat[j] # Quote
  <2> HIDE DEF flat
  <2>1. T \subseteq Nat
    OBVIOUS
  <2>2. flat \in Seq(Nat)
    BY <1>1, <2>1, SeqMonotonic
  <2>3. \A j \in 1..L : flat[j] \in T
    BY <1>1, ElementOfSeq
  <2> QED
    BY <2>2, <2>3, LenProperties
<1>3. /\ Len(text) = L + 2 /\ text[1] = Quote /\ text[L + 2] = Quote
      /\ \A j \in 1..L : text[1 + j] = flat[j]
  <2> DEFINE a == <<Quote>> \o flat
             t == a \o <<Quote>>
  <2>0. text = t
    BY Zenon DEF Quoted, Encoded
  <2>1. <<Quote>> \in Seq(Nat) /\ Len(<<Quote>>) = 1
    BY DEF Quote
  <2> HIDE DEF flat, L
  <2>2. /\ a \in Seq(Nat) /\ Len(a) = 1 + L
        /\ \A j \in 1 .. 1 + L : a[j] = IF j <= 1 THEN <<Quote>>[j] ELSE flat[j - 1]
    BY <1>2, <2>1, ConcatProperties DEF L
  <2> HIDE DEF a
  <2>3. /\ t \in Seq(Nat) /\ Len(t) = 1 + L + 1
        /\ \A j \in 1 .. 1 + L + 1 : t[j] = IF j <= 1 + L THEN a[j] ELSE <<Quote>>[j - (1 + L)]
    BY <2>1, <2>2, ConcatProperties
  <2> HIDE DEF t, text
  <2>4. Len(t) = L + 2 /\ t[1] = Quote /\ t[L + 2] = Quote
    <3>1. t[1] = a[1] /\ a[1] = <<Quote>>[1]
      BY <1>2, <2>2, <2>3
    <3>2. t[L + 2] = <<Quote>>[1]
      <4> DEFINE j == L + 2
      <4>1. j \in 1 .. 1 + L + 1 /\ ~(j <= 1 + L) /\ j - (1 + L) = 1
        BY <1>2
      <4> HIDE DEF j
      <4>2. t[j] = <<Quote>>[1]
        BY <2>3, <4>1
      <4> QED
        BY <4>2 DEF j
    <3> QED
      BY <1>2, <2>3, <3>1, <3>2
  <2>5. ASSUME NEW j \in 1..L PROVE t[1 + j] = flat[j]
    <3> DEFINE k == 1 + j
    <3>1. k \in 1 .. 1 + L + 1 /\ k \in 1 .. 1 + L /\ k <= 1 + L /\ ~(k <= 1) /\ k - 1 = j
      BY <1>2
    <3> HIDE DEF k
    <3>2. t[k] = flat[j]
      BY <2>2, <2>3, <3>1
    <3> QED
      BY <3>2 DEF k
  <2> QED
    BY <2>0, <2>4, <2>5
<1>4. p[0] = PairStart /\ \A i \in 1..L + 2 : p[i] = EscapeStep(p[i - 1], text[i])
  <2>1. Len(text) \in Nat
    BY <1>2, <1>3
  <2>2. p[0] = PairStart /\ \A i \in 1..Len(text) : p[i] = EscapeStep(p[i - 1], text[i])
    BY <2>1, PairLoopSteps
  <2> QED
    BY <1>3, <2>2
<1> HIDE DEF flat, text, L, p
<1> DEFINE S == {i \in 1..L + 1 : p[i] = Open(i)}
<1>5. 1 \in S
  <2>1. p[1] = EscapeStep(PairStart, Quote)
    <3>1. 1 \in 1..L + 2 /\ 1 - 1 = 0
      BY <1>2
    <3> QED
      BY <1>3, <1>4, <3>1
  <2>2. EscapeStep(PairStart, Quote) = [open |-> TRUE, inner |-> <<>>, out |-> <<>>]
    BY DEF EscapeStep, PairStart
  <2>3. In(1) = <<>>
    OBVIOUS
  <2>4. 1 \in 1..L + 1
    BY <1>2
  <2> QED
    BY <2>1, <2>2, <2>3, <2>4
<1>6. ASSUME NEW i \in 1..L + 1, i \in S, i < L + 1 PROVE i + 1 \in S
  <2> DEFINE k == i + 1
             c == flat[i]
  <2>1. k \in 1..L + 2 /\ k \in 1..L + 1 /\ k - 1 = i /\ i \in 1..L /\ k = 1 + i
    BY <1>2, <1>6
  <2>2. text[k] = c /\ c # Quote
    BY <1>2, <1>3, <2>1
  <2>3. p[i] = Open(i)
    BY <1>6
  <2>4. Append(In(i), c) = In(k)
    <3> DEFINE m == i - 1
               f == [j \in 1..m |-> flat[j]]
               g == [j \in 1..(m + 1) |-> flat[j]]
    <3>1. f \in Seq(Nat) /\ g \in Seq(Nat) /\ Len(f) = m /\ Len(g) = m + 1
      BY <1>2, <2>1
    <3>2. Append(f, c) \in Seq(Nat) /\ Len(Append(f, c)) = m + 1
      BY <1>2, <2>1, <3>1, AppendProperties
    <3>3. \A j \in 1..(m + 1) : Append(f, c)[j] = g[j]
      BY SMTT(60), <2>1, <3>1
    <3>4. Append(f, c) = g
      <4> HIDE DEF f, g, m, c
      <4>1. Len(Append(f, c)) = Len(g) /\ \A j \in 1..Len(Append(f, c)) : Append(f, c)[j] = g[j]
        BY <3>1, <3>2, <3>3
      <4> QED
        BY <3>1, <3>2, <4>1, SeqEqual
    <3>5. m + 1 = k - 1
      BY <2>1
    <3> QED
      BY <3>4, <3>5
  <2> HIDE DEF k, c, In
  <2>5. p[k] = EscapeStep(Open(i), c)
    BY <1>4, <2>1, <2>2, <2>3
  <2>6. EscapeStep(Open(i), c) = Open(k)
    BY <2>2, <2>4 DEF EscapeStep
  <2>7. k \in S
    BY <2>1, <2>5, <2>6
  <2> QED
    BY <2>7 DEF k
<1>7. p[L + 1] = Open(L + 1)
  <2>1. \A i \in 1..L + 1 : i \in S /\ i < L + 1 => i + 1 \in S
    BY <1>6
  <2>2. L + 1 \in S
    <3> DEFINE high == L + 1
    <3>1. 1 \in Nat /\ high \in Nat /\ high \in 1..high
      BY <1>2
    <3>2. \A i \in 1..high : i \in S /\ i < high => i + 1 \in S
      BY <2>1
    <3> HIDE DEF S, high
    <3>3. 1..high \subseteq S
      BY <1>5, <3>1, <3>2, Ascend
    <3> QED
      BY <3>1, <3>3 DEF high
  <2> QED
    BY <2>2
<1>8. In(L + 1) = flat
  <2>1. L + 1 - 1 = L
    BY <1>2
  <2>2. flat = [j \in 1..L |-> flat[j]]
    BY Zenon, <1>2
  <2> DEFINE k == L + 1
             m == k - 1
  <2>3. In(k) = [j \in 1..m |-> flat[j]]
    OBVIOUS
  <2>4. m = L
    BY <1>2
  <2> HIDE DEF m, In
  <2>5. In(k) = flat
    BY Zenon, <2>2, <2>3, <2>4
  <2> QED
    BY Zenon, <2>5
<1>9. unicodeEscape(flat) = Units2(codes)
  BY Utf8Escape DEF Units2, flat
<1> DEFINE q == Byte(Quote)
<1>10. p[L + 2] = [open |-> FALSE, inner |-> <<>>,
                   out |-> <<>> \o <<q>> \o Units2(codes) \o <<q>>]
  <2> DEFINE k == L + 2
  <2>1. k \in 1..L + 2 /\ k - 1 = L + 1
    BY <1>2
  <2>2. text[k] = Quote
    BY <1>3
  <2> HIDE DEF k, In
  <2>3. p[k] = EscapeStep(Open(L + 1), Quote)
    BY <1>4, <1>7, <2>1, <2>2
  <2>4. EscapeStep(Open(L + 1), Quote)
           = [open |-> FALSE, inner |-> <<>>, out |-> <<>> \o <<q>> \o unicodeEscape(flat) \o <<q>>]
    BY <1>8 DEF EscapeStep
  <2> QED
    BY <1>9, <2>3, <2>4 DEF k
<1>11. Units2(codes) \in Seq(Outputs) /\ q \in Outputs
  <2>1. Len(codes) \in Nat
    BY LenProperties
  <2>2. ASSUME NEW i \in 1..Len(codes) PROVE Unit(codes[i]) \in Outputs
    <3>1. codes[i] \in FirstPlane
      BY Zenon, ElementOfSeq
    <3>2. codes[i] \in Nat
      BY Zenon, <3>1, PlaneOfNumbers
    <3> QED
      BY <3>2 DEF Unit, Outputs
  <2>3. Units2(codes) \in [1..Len(codes) -> Outputs]
    BY Zenon, <2>2 DEF Units2
  <2>4. q \in Outputs
    BY DEF Byte, Quote, Outputs
  <2> HIDE DEF Outputs
  <2> QED
    BY <2>1, <2>3, <2>4
<1>12. <<>> \o <<q>> = <<q>>
  <2>1. <<q>> \in Seq(Outputs)
    BY <1>11
  <2> QED
    BY <2>1, ConcatEmptySeq
<1> HIDE DEF q
<1> DEFINE w == <<q>> \o Units2(codes) \o <<q>>
<1>13. w \o <<>> = w
  <2>1. <<>> \in Seq(Outputs)
    BY EmptySeq
  <2>2. w \in Seq(Outputs)
    <3>1. <<>> \o <<q>> \o Units2(codes) \o <<q>> \in Seq(Outputs)
      BY <1>11, <2>1, Assembled
    <3> QED
      BY <1>12, <3>1
  <2> HIDE DEF w
  <2> QED
    BY <2>2, ConcatEmptySeq
<1>14. Escaped(text) = w \o <<>>
  <2>1. PairLoop(text)[Len(text)] = [open |-> FALSE, inner |-> <<>>, out |-> w]
    BY <1>3, <1>10, <1>12 DEF p
  <2> HIDE DEF w
  <2>2. /\ PairLoop(text)[Len(text)].open = FALSE
        /\ PairLoop(text)[Len(text)].out = w
    BY <2>1
  <2> QED
    BY Zenon, <2>2 DEF Escaped
<1> QED
  BY <1>13, <1>14 DEF Wrapped, q, text

\* What the text of one string looks like.
LEMMA WrappedFacts ==
    ASSUME NEW codes \in Seq(FirstPlane)
    PROVE  /\ Len(codes) \in Nat
           /\ Wrapped(codes) \in Seq(Outputs) /\ Len(Wrapped(codes)) = Len(codes) + 2
           /\ Wrapped(codes)[1] = Byte(Quote)
           /\ \A j \in 1..Len(codes) : Wrapped(codes)[1 + j] = Unit(codes[j])
           /\ Wrapped(codes)[Len(codes) + 2] = Byte(Quote)
<1> DEFINE n == Len(codes)
           q == Byte(Quote)
           u == Units2(codes)
<1>1. n \in Nat
  BY LenProperties
<1>2. u \in Seq(Outputs) /\ q \in Outputs
  <2>1. ASSUME NEW i \in 1..Len(codes) PROVE Unit(codes[i]) \in Outputs
    <3>1. codes[i] \in FirstPlane
      BY Zenon, ElementOfSeq
    <3>2. codes[i] \in Nat
      BY Zenon, <3>1, PlaneOfNumbers
    <3> QED
      BY <3>2 DEF Unit, Outputs
  <2>2. u \in [1..Len(codes) -> Outputs]
    BY Zenon, <2>1 DEF Units2
  <2>3. q \in Outputs
    BY DEF Byte, Quote, Outputs
  <2> HIDE DEF u
  <2> QED
    BY <1>1, <2>2, <2>3
<1>3. Len(u) = n /\ \A j \in 1..n : u[j] = Unit(codes[j])
  BY <1>1 DEF Units2
<1> DEFINE r == <<>> \o <<q>> \o u \o <<q>>
<1>4. r = Wrapped(codes)
  <2>1. <<q>> \in Seq(Outputs)
    BY <1>2
  <2>2. <<>> \o <<q>> = <<q>>
    BY <2>1, ConcatEmptySeq
  <2> QED
    BY <2>2 DEF Wrapped
<1>5. /\ r \in Seq(Outputs) /\ Len(r) = n + 2 /\ r[1] = q
      /\ \A j \in 1..n : r[1 + j] = u[j]
      /\ r[n + 2] = q
  <2>1. <<>> \in Seq(Outputs) /\ Len(<<>>) = 0
    BY EmptySeq
  <2> DEFINE z == <<>>
             m == Len(u)
  <2>2. z \in Seq(Outputs) /\ Len(z) = 0
    BY <2>1
  <2> DEFINE w == z \o <<q>> \o u \o <<q>>
  <2> HIDE DEF q, u, z
  <2>3. /\ w \in Seq(Outputs) /\ Len(w) = Len(z) + m + 2
        /\ w[Len(z) + 1] = q
        /\ \A j \in 1..m : w[Len(z) + 1 + j] = u[j]
        /\ w[Len(z) + m + 2] = q
    BY <1>2, <2>2, Assembled
  <2> HIDE DEF w, n, m
  <2>4. m = n
    BY <1>3 DEF m
  <2>5. /\ w \in Seq(Outputs) /\ Len(w) = n + 2 /\ w[1] = q
        /\ \A j \in 1..n : w[1 + j] = u[j]
        /\ w[n + 2] = q
    BY <1>1, <2>2, <2>3, <2>4
  <2>6. w = r
    BY DEF w, z
  <2> QED
    BY <2>5, <2>6
<1> HIDE DEF r, u, n, q
<1> QED
  BY <1>1, <1>3, <1>4, <1>5 DEF n, q

\* minify keeps the whole of a text that is one string.
LEMMA WrappedKept ==
    ASSUME NEW codes \in Seq(FirstPlane)
    PROVE  minify(Wrapped(codes)) = Wrapped(codes)
<1> DEFINE e == Wrapped(codes)
           n == Len(codes)
           p == MinifyLoop(e)
           First(i) == [j \in 1..i |-> e[j]]
           Inside(i) == [in |-> TRUE, skip |-> FALSE, out |-> First(i)]
           q == Byte(Quote)
<1>1. /\ n \in Nat /\ e \in Seq(Outputs) /\ Len(e) = n + 2 /\ e[1] = q
      /\ \A j \in 1..n : e[1 + j] = Unit(codes[j])
      /\ e[n + 2] = q
  BY WrappedFacts
<1>2. p[0] = MinifyStart /\ \A i \in 1..n + 2 : p[i] = MinifyStep(p[i - 1], e[i])
  <2>1. Len(e) \in Nat
    BY <1>1
  <2>2. p[0] = MinifyStart /\ \A i \in 1..Len(e) : p[i] = MinifyStep(p[i - 1], e[i])
    BY <2>1, MinifyLoopSteps
  <2> QED
    BY <1>1, <2>2
<1>3. minify(e) = IF p[n + 2].in THEN Thrown ELSE p[n + 2].out
  BY <1>1 DEF minify
<1> HIDE DEF e, n, p
<1>4. /\ q \notin {Byte(b) : b \in White} /\ q # Byte(Backslash)
      /\ \A c : Unit(c) # q /\ Unit(c) # Byte(Backslash)
  BY MarkFacts DEF White, Quote, Backslash
<1>5. ASSUME NEW i \in Nat, i + 1 \in 1..n + 2 PROVE Append(First(i), e[i + 1]) = First(i + 1)
  <2> DEFINE k == i + 1
             f == First(i)
             g == First(k)
             c == e[k]
  <2>1. ASSUME NEW j \in 1..k PROVE e[j] \in Outputs
    <3>1. j \in 1..Len(e)
      BY <1>1, <1>5
    <3> QED
      BY <1>1, <3>1, ElementOfSeq
  <2>2. f \in [1..i -> Outputs] /\ g \in [1..k -> Outputs] /\ c \in Outputs
    <3>1. \A j \in 1..i : j \in 1..k
      BY <1>5
    <3>2. k \in 1..k
      BY <1>5
    <3> QED
      BY <2>1, <3>1, <3>2
  <2>3. \A j \in 1..k : g[j] = IF j = k THEN c ELSE f[j]
    BY <1>5
  <2>4. k = i + 1 /\ k \in Nat
    BY <1>5
  <2> HIDE DEF f, g, c, k, Outputs
  <2>5. f \in Seq(Outputs) /\ Len(f) = i /\ g \in Seq(Outputs) /\ Len(g) = k
    BY <1>5, <2>2, <2>4
  <2>6. /\ Append(f, c) \in Seq(Outputs) /\ Len(Append(f, c)) = k
        /\ \A j \in 1..k : Append(f, c)[j] = IF j = k THEN c ELSE f[j]
    BY <2>2, <2>4, <2>5, AppendProperties
  <2>7. Append(f, c) = g
    BY <2>3, <2>5, <2>6, SeqEqual
  <2> QED
    BY <2>7 DEF f, g, c, k
<1>6. First(0) = <<>>
  OBVIOUS
<1> HIDE DEF First, q
<1>7. p[1] = Inside(1)
  <2>1. 1 \in 1..n + 2 /\ 1 - 1 = 0 /\ 0 + 1 = 1 /\ 0 \in Nat
    BY <1>1
  <2>2. p[1] = MinifyStep(MinifyStart, q)
    BY <1>1, <1>2, <2>1
  <2>3. MinifyStep(MinifyStart, q) = [in |-> TRUE, skip |-> FALSE, out |-> Append(<<>>, q)]
    BY <1>4 DEF MinifyStep, MinifyStart, q
  <2>4. Append(First(0), e[0 + 1]) = First(0 + 1)
    BY <1>5, <2>1
  <2>5. Append(<<>>, q) = First(1)
    BY <1>1, <1>6, <2>1, <2>4
  <2> QED
    BY <2>2, <2>3, <2>5
<1> DEFINE S == {i \in 1..n + 1 : p[i] = Inside(i)}
           high == n + 1
<1>8. ASSUME NEW i \in 1..high, i \in S, i < high PROVE i + 1 \in S
  <2> DEFINE k == i + 1
             c == e[k]
  <2>1. k \in 1..n + 2 /\ k \in 1..high /\ k - 1 = i /\ i \in 1..n /\ k = 1 + i /\ i \in Nat
    BY <1>1, <1>8
  <2>2. c = Unit(codes[i])
    BY <1>1, <2>1
  <2>3. p[i] = Inside(i)
    BY <1>8
  <2>4. Append(First(i), c) = First(k)
    BY <1>5, <2>1
  <2> HIDE DEF k, c, high
  <2>5. p[k] = MinifyStep(Inside(i), e[k])
    BY <1>2, <2>1, <2>3
  <2>6. MinifyStep(Inside(i), c) = Inside(k)
    BY <1>4, <2>2, <2>4 DEF MinifyStep, q
  <2>7. p[k] = Inside(k)
    BY <2>5, <2>6 DEF c
  <2> QED
    BY <2>1, <2>7 DEF k, high
<1>9. p[high] = Inside(high)
  <2>1. 1 \in Nat /\ high \in Nat /\ high \in 1..high /\ 1 \in S
    BY <1>1, <1>7
  <2>2. \A i \in 1..high : i \in S /\ i < high => i + 1 \in S
    BY <1>8
  <2> HIDE DEF S, high
  <2>3. 1..high \subseteq S
    BY <2>1, <2>2, Ascend
  <2> QED
    BY <2>1, <2>3 DEF S, high
<1>10. p[n + 2] = [in |-> FALSE, skip |-> FALSE, out |-> First(n + 2)]
  <2> DEFINE k == n + 2
  <2>1. k \in 1..n + 2 /\ k - 1 = high /\ high + 1 = k /\ high \in Nat /\ e[k] = q
    BY <1>1
  <2>2. Append(First(high), q) = First(k)
    <3>1. high + 1 \in 1..n + 2
      BY <2>1
    <3> HIDE DEF high, k
    <3>2. Append(First(high), e[high + 1]) = First(high + 1)
      BY <1>5, <2>1, <3>1
    <3> QED
      BY <2>1, <3>2
  <2> HIDE DEF k, high
  <2>3. p[k] = MinifyStep(Inside(high), q)
    BY <1>2, <1>9, <2>1
  <2>4. MinifyStep(Inside(high), q) = [in |-> FALSE, skip |-> FALSE, out |-> First(k)]
    BY <1>4, <2>2 DEF MinifyStep, q
  <2> QED
    BY <2>3, <2>4 DEF k
<1>11. First(n + 2) = e
  <2> DEFINE k == n + 2
  <2>1. Len(e) = k /\ k \in Nat
    BY <1>1
  <2> HIDE DEF k
  <2>2. e = [j \in 1..k |-> e[j]]
    BY <1>1, <2>1, LenProperties
  <2>3. First(k) = e
    BY Zenon, <2>2 DEF First
  <2> QED
    BY <2>3 DEF k
<1>12. p[n + 2].in = FALSE /\ p[n + 2].out = e
  BY <1>10, <1>11
<1> QED
  BY <1>3, <1>12 DEF e

\* A request to escape comes with the answer to it.
EscapeAnswered ==
    request.op = "escape" =>
        /\ request.codes \in Codes /\ request.minify \in BOOLEAN
        /\ result = obfuscateMain(Quoted(request.codes), request.minify)

LEMMA EscapeAnswers == Spec => []EscapeAnswered
<1>1. Init => EscapeAnswered
  BY DEF Init, Idle, EscapeAnswered
<1>2. EscapeAnswered /\ [Next]_vars => EscapeAnswered'
  <2> SUFFICES ASSUME EscapeAnswered, [Next]_vars, request.op' = "escape"
               PROVE  /\ request.codes' \in Codes /\ request.minify' \in BOOLEAN
                      /\ result' = obfuscateMain(Quoted(request.codes'), request.minify')
    BY DEF EscapeAnswered
  <2>1. CASE UNCHANGED vars
    BY <2>1 DEF EscapeAnswered, vars
  <2>2. ASSUME NEW codes \in Codes, NEW do_minify \in BOOLEAN, Escape(codes, do_minify)
        PROVE  /\ request.codes' \in Codes /\ request.minify' \in BOOLEAN
               /\ result' = obfuscateMain(Quoted(request.codes'), request.minify')
    BY <2>2 DEF Escape, Serve
  <2>3. CASE Next
    BY <2>2, <2>3, Requests
       DEF Idle, Read, Obfuscate, MakeIndependent, MakeDependent, MakeItem, MakeEntity, Serve
  <2> QED
    BY <2>1, <2>3
<1> QED
  BY <1>1, <1>2, PTL DEF Spec

\* For every sequence of characters of the first plane but the quote, minified or
\* not: the answer is the quotes and one escape per character, with the UTF-16 unit
\* of that character (obfuscator::unicodeEscape).
THEOREM EscapesEachCharacter == Spec => []EscapesRight
<1>1. EscapeAnswered => EscapesRight
  <2> SUFFICES ASSUME EscapeAnswered, request.op = "escape", ~Occurs(Quote, request.codes)
               PROVE  result = <<Byte(Quote)>>
                                 \o [i \in DOMAIN request.codes |-> Unit(request.codes[i])]
                                 \o <<Byte(Quote)>>
    BY DEF EscapesRight
  <2> DEFINE codes == request.codes
             minified == request.minify
  <2>1. codes \in Seq(FirstPlane) /\ minified \in BOOLEAN
    <3>1. codes \in Codes /\ minified \in BOOLEAN
      BY DEF EscapeAnswered
    <3>2. Codes \subseteq Seq(FirstPlane)
      BY Zenon, TextsAssumption
    <3> QED
      BY Zenon, <3>1, <3>2
  <2>2. result = obfuscateMain(Quoted(codes), minified)
    BY DEF EscapeAnswered
  <2>3. ~Occurs(Quote, codes)
    OBVIOUS
  <2> HIDE DEF codes, minified
  <2>4. obfuscateMain(Quoted(codes), minified) = Wrapped(codes)
    BY Zenon, <2>1, <2>3, QuotedEscaped, WrappedKept DEF obfuscateMain
  <2>5. DOMAIN codes = 1..Len(codes)
    BY <2>1, LenProperties
  <2>6. result = <<Byte(Quote)>> \o [i \in DOMAIN codes |-> Unit(codes[i])] \o <<Byte(Quote)>>
    BY Zenon, <2>2, <2>4, <2>5 DEF Wrapped, Units2
  <2> QED
    BY <2>6 DEF codes
<1> QED
  BY <1>1, EscapeAnswers, PTL

----------------------------------------------------------------------------
(* The payloads.                                                            *)

\* A request to read comes with what the parser makes of the payload.
ReadAnswered ==
    request.op = "read" =>
        request.value \in PayloadValues /\ result = Received(request.value, Nesting)

LEMMA ReadAnswers == Spec => []ReadAnswered
<1>1. Init => ReadAnswered
  BY DEF Init, Idle, ReadAnswered
<1>2. ReadAnswered /\ [Next]_vars => ReadAnswered'
  <2> SUFFICES ASSUME ReadAnswered, [Next]_vars, request.op' = "read"
               PROVE  /\ request.value' \in PayloadValues
                      /\ result' = Received(request.value', Nesting)
    BY DEF ReadAnswered
  <2>1. CASE UNCHANGED vars
    BY <2>1 DEF ReadAnswered, vars
  <2>2. ASSUME NEW v \in PayloadValues, Read(v)
        PROVE  /\ request.value' \in PayloadValues
               /\ result' = Received(request.value', Nesting)
    BY <2>2 DEF Read, Serve
  <2>3. CASE Next
    BY <2>2, <2>3, Requests
       DEF Idle, Obfuscate, Escape, MakeIndependent, MakeDependent, MakeItem, MakeEntity, Serve
  <2> QED
    BY <2>1, <2>3
<1> QED
  BY <1>1, <1>2, PTL DEF Spec

\* Every payload of those in Readable, of any nesting, is read as the value that was
\* sent (json_value::parse on what Discord prints): the scanner tells the brackets,
\* quotes, commas and colons of each level from those inside it.  Readable leaves
\* out what it cannot tell: brackets in strings inside containers, commas in the
\* strings of lists, empty objects, and control characters escaped by their number.
THEOREM PayloadsReadBack == Spec => []ReadsPayload
<1>1. ReadAnswered => ReadsPayload
  <2> SUFFICES ASSUME ReadAnswered, request.op = "read" PROVE result = request.value
    BY DEF ReadsPayload
  <2> DEFINE v == request.value
  <2>1. v \in PayloadValues /\ result = Received(v, Nesting)
    BY DEF ReadAnswered
  <2>2. Nesting \in Nat /\ v \in Readable(Nesting)
    BY Zenon, <2>1, PayloadsAssumption
  <2> HIDE DEF v
  <2>3. Received(v, Nesting) = v
    BY Zenon, <2>2, PayloadsRead
  <2> QED
    BY Zenon, <2>1, <2>3 DEF v
<1> QED
  BY <1>1, ReadAnswers, PTL
=============================================================================
