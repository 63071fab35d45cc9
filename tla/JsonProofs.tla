------------------------------ MODULE JsonProofs ------------------------------
(* What json_value::parse makes of what get_repr prints, for every text and    *)
(* every value: proofs about the loops of JsonText and Payloads.               *)
EXTENDS Payloads, FiniteSetTheorems, SequenceTheorems, WellFoundedInduction, TLAPS

----------------------------------------------------------------------------
(* Induction over the natural numbers, for sets in place of predicates: what  *)
(* holds of which numbers is written as the set of those numbers.  The proofs *)
(* about loops over texts, paths and trees rest on it.                        *)

LessThan == {pair \in Nat \X Nat : pair[1] < pair[2]}

\* Every set of natural numbers that is not empty has a least element.
LEMMA LeastElement ==
    ASSUME NEW T, T \subseteq Nat, T # {}
    PROVE  \E x \in T : \A y \in T : x <= y
<1>1. OpToRel(<, Nat) = LessThan
  BY Zenon DEF OpToRel, LessThan
<1>2. IsWellFoundedOn(LessThan, Nat)
  BY Zenon, <1>1, NatLessThanWellFounded
<1>3. PICK x \in T : \A y \in T : <<y, x>> \notin LessThan
  BY <1>2, WFMin
<1>4. ASSUME NEW y \in T PROVE x <= y
  <2>1. x \in Nat /\ y \in Nat /\ <<y, x>> \in Nat \X Nat
    OBVIOUS
  <2> QED
    BY <1>3, <2>1 DEF LessThan
<1> QED
  BY <1>3, <1>4

\* A set with the first of the numbers low..high, and with the next one of each,
\* has them all.
LEMMA Ascend ==
    ASSUME NEW low \in Nat, NEW high \in Nat, NEW S, low \in S,
           \A n \in low..high : n \in S /\ n < high => n + 1 \in S
    PROVE  low..high \subseteq S
<1> SUFFICES ASSUME NEW m \in low..high, m \notin S PROVE FALSE
  OBVIOUS
<1> DEFINE T == (low..high) \ S
<1>1. PICK x \in T : \A y \in T : x <= y
  <2>1. T \subseteq Nat /\ T # {}
    OBVIOUS
  <2> HIDE DEF T
  <2> QED
    BY <2>1, LeastElement
<1>2. x # low /\ x \in Nat /\ x - 1 \in low..high /\ x - 1 < high /\ x - 1 + 1 = x
  OBVIOUS
<1>3. x - 1 \in S
  BY <1>1, <1>2
<1> QED
  BY <1>2, <1>3

\* The same without a last number.
LEMMA AscendAll ==
    ASSUME NEW S, 0 \in S, \A n \in Nat : n \in S => n + 1 \in S
    PROVE  Nat \subseteq S
<1> SUFFICES ASSUME NEW m \in Nat PROVE m \in S
  OBVIOUS
<1>1. 0..m \subseteq S
  BY Ascend
<1> QED
  BY <1>1

----------------------------------------------------------------------------
(* Loops.  Each is a recursive function over positions that applies one step   *)
(* to what it has; it exists, so each state is the step from the state before. *)

\* The steps of a loop over the states D.
Steps(n, D) == [(1..n) \X D -> D]

LEMMA Iterates ==
    ASSUME NEW n \in Nat, NEW D, NEW base \in D, NEW F \in Steps(n, D)
    PROVE  \E g \in [0..n -> D] :
              g[0] = base /\ \A i \in 1..n : g[i] = F[<<i, g[i - 1]>>]
<1> DEFINE Trace(m, g) == /\ g \in [0..m -> D] /\ g[0] = base
                          /\ \A i \in 1..m : g[i] = F[<<i, g[i - 1]>>]
           S == {m \in 0..n : \E g : Trace(m, g)}
<1>1. 0 \in S
  <2> DEFINE g == [i \in 0..0 |-> base]
  <2>1. Trace(0, g)
    OBVIOUS
  <2>2. 0 \in 0..n
    OBVIOUS
  <2> HIDE DEF Trace, g
  <2> QED
    BY Zenon, <2>1, <2>2
<1>2. ASSUME NEW m \in 0..n, m \in S, m < n PROVE m + 1 \in S
  <2>1. PICK g : Trace(m, g)
    BY <1>2
  <2> DEFINE k == m + 1
             h == [i \in 0..k |-> IF i = k THEN F[<<k, g[m]>>] ELSE g[i]]
  <2>2. k \in 1..n /\ k \in 0..n /\ m \in 0..m /\ k - 1 = m /\ k # 0 /\ m # k
    BY <1>2
  <2>3. g[m] \in D /\ F[<<k, g[m]>>] \in D
    <3>1. <<k, g[m]>> \in (1..n) \X D
      BY <2>1, <2>2
    <3> QED
      BY <2>1, <2>2, <3>1 DEF Steps
  <2>4. h \in [0..k -> D]
    BY <2>1, <2>3
  <2>5. h[0] = base
    BY <2>1, <2>2
  <2>6. ASSUME NEW i \in 1..k PROVE h[i] = F[<<i, h[i - 1]>>]
    <3>1. CASE i = k
      BY SMTT(60), <2>2, <3>1
    <3>2. CASE i # k
      <4>1. i \in 1..m /\ i - 1 # k /\ i \in 0..k /\ i - 1 \in 0..k
        BY <2>2, <3>2
      <4>2. h[i] = g[i] /\ h[i - 1] = g[i - 1]
        BY <3>2, <4>1
      <4>3. g[i] = F[<<i, g[i - 1]>>]
        BY <2>1, <4>1
      <4> QED
        BY <4>2, <4>3
    <3> QED
      BY <3>1, <3>2
  <2>7. Trace(k, h)
    <3> HIDE DEF h
    <3> QED
      BY <2>4, <2>5, <2>6
  <2> HIDE DEF Trace, h
  <2>8. k \in S
    BY Zenon, <2>2, <2>7
  <2> QED
    BY <2>8
<1>3. 0..n \subseteq S
  <2>1. \A m \in 0..n : m \in S /\ m < n => m + 1 \in S
    BY <1>2
  <2> HIDE DEF S
  <2> QED
    BY <1>1, <2>1, Ascend
<1>4. n \in S
  BY <1>3
<1> QED
  BY <1>4

\* The parts of a flattened sequence, put together one by one.
LEMMA Flattening ==
    ASSUME NEW T, NEW seqs \in Seq(Seq(T))
    PROVE  \E P \in [0..Len(seqs) -> Seq(T)] :
              /\ P[0] = <<>> /\ FlattenSeq(seqs) = P[Len(seqs)]
              /\ \A i \in 1..Len(seqs) : P[i] = P[i - 1] \o seqs[i]
<1> DEFINE n == Len(seqs)
           Trace(g, m) ==
             g = [i \in 1..m |-> IF i = 1 THEN seqs[i] ELSE g[i - 1] \o seqs[i]]
           S == {m \in 1..n : \E g : Trace(g, m)}
<1>0. n \in Nat /\ \A i \in 1..n : seqs[i] \in Seq(T)
  BY LenProperties, ElementOfSeq
<1>1. CASE n = 0
  <2> DEFINE P == [i \in 0..0 |-> <<>>]
  <2>1. seqs = <<>>
    BY <1>1, EmptySeq
  <2>2. FlattenSeq(seqs) = <<>>
    BY <1>1, <2>1 DEF FlattenSeq
  <2>3. P \in [0..Len(seqs) -> Seq(T)] /\ P[0] = <<>> /\ P[Len(seqs)] = <<>>
    BY <1>1
  <2>4. \A i \in 1..Len(seqs) : P[i] = P[i - 1] \o seqs[i]
    BY <1>1
  <2> HIDE DEF P
  <2> QED
    BY <2>2, <2>3, <2>4
<1>2. CASE n # 0
  <2> HIDE DEF n
  <2>1. 1 \in S
    <3> DEFINE g == [i \in 1..1 |-> seqs[i]]
    <3>1. Trace(g, 1)
      OBVIOUS
    <3>2. 1 \in 1..n
      BY <1>0, <1>2
    <3> HIDE DEF Trace
    <3> QED
      BY Zenon, <3>1, <3>2
  <2>2. ASSUME NEW m \in 1..n, m \in S, m < n PROVE m + 1 \in S
    <3>1. PICK g : Trace(g, m)
      BY <2>2
    <3> DEFINE h == [i \in 1..(m + 1) |-> IF i = m + 1 THEN g[m] \o seqs[i] ELSE g[i]]
    <3>2. ASSUME NEW i \in 1..(m + 1)
          PROVE  h[i] = IF i = 1 THEN seqs[i] ELSE h[i - 1] \o seqs[i]
      <4>1. CASE i = m + 1
        <5>0. m \in 1..(m + 1) /\ m # m + 1 /\ i # 1 /\ i - 1 = m
          BY <1>0, <4>1
        <5>1. h[i] = g[m] \o seqs[i]
          BY <4>1
        <5>2. h[m] = g[m]
          BY <5>0
        <5> QED
          BY Zenon, <5>0, <5>1, <5>2
      <4>2. CASE i # m + 1
        <5>1. i \in 1..m /\ h[i] = g[i] /\ (i # 1 => h[i - 1] = g[i - 1])
          BY <4>2
        <5>2. g[i] = IF i = 1 THEN seqs[i] ELSE g[i - 1] \o seqs[i]
          BY Zenon, <3>1, <5>1
        <5> QED
          BY Zenon, <5>1, <5>2
      <4> QED
        BY <4>1, <4>2
    <3>3. Trace(h, m + 1)
      <4> HIDE DEF Trace
      <4> QED
        BY Zenon, <3>2 DEF Trace
    <3>4. m + 1 \in 1..n
      BY <1>0, <2>2
    <3> HIDE DEF Trace
    <3> QED
      BY Zenon, <3>3, <3>4
  <2>3. n \in S
    <3> HIDE DEF S
    <3>1. \A m \in 1..n : m \in S /\ m < n => m + 1 \in S
      BY <2>2
    <3>2. 1..n \subseteq S
      BY <1>0, <2>1, <3>1, Ascend
    <3> QED
      BY <1>0, <1>2, <3>2
  <2> DEFINE f == CHOOSE g : Trace(g, n)
  <2>4. Trace(f, n)
    <3>1. \E g : Trace(g, n)
      BY <2>3
    <3> HIDE DEF Trace
    <3> QED
      BY Zenon, <3>1
  <2>5. FlattenSeq(seqs) = f[n]
    BY Zenon, <1>2 DEF FlattenSeq, n
  <2> HIDE DEF f
  <2>6. \A i \in 1..n : f[i] = IF i = 1 THEN seqs[i] ELSE f[i - 1] \o seqs[i]
    BY Zenon, <2>4
  <2> DEFINE P == [i \in 0..n |-> IF i = 0 THEN <<>> ELSE f[i]]
             G == {i \in 1..n : f[i] \in Seq(T)}
  <2>7. \A i \in 1..n : f[i] \in Seq(T)
    <3>1. 1 \in G
      BY <1>0, <1>2, <2>6
    <3>2. ASSUME NEW i \in 1..n, i \in G, i < n PROVE i + 1 \in G
      <4> DEFINE k == i + 1
      <4>1. k \in 1..n /\ k # 1 /\ k - 1 = i
        BY <1>0, <3>2
      <4> HIDE DEF k
      <4>2. f[k] = f[i] \o seqs[k]
        BY <2>6, <4>1
      <4>3. f[i] \in Seq(T) /\ seqs[k] \in Seq(T)
        BY <1>0, <3>2, <4>1
      <4>4. f[k] \in Seq(T)
        BY <4>2, <4>3, ConcatProperties
      <4> QED
        BY <4>1, <4>4 DEF k
    <3>3. \A i \in 1..n : i \in G /\ i < n => i + 1 \in G
      BY <3>2
    <3>4. 1..n \subseteq G
      <4> HIDE DEF G
      <4> QED
        BY <1>0, <3>1, <3>3, Ascend
    <3> QED
      BY <3>4
  <2>8. P \in [0..n -> Seq(T)] /\ P[0] = <<>> /\ FlattenSeq(seqs) = P[n]
    <3>1. <<>> \in Seq(T)
      BY EmptySeq
    <3>2. ASSUME NEW i \in 0..n PROVE P[i] \in Seq(T)
      <4>1. i # 0 => i \in 1..n
        BY <1>0
      <4> QED
        BY <2>7, <3>1, <4>1
    <3>3. n \in 0..n /\ 0 \in 0..n
      BY SMTT(60), <1>0
    <3> QED
      BY <1>2, <2>5, <3>2, <3>3
  <2>9. ASSUME NEW i \in 1..n PROVE P[i] = P[i - 1] \o seqs[i]
    <3>1. i \in 0..n /\ i - 1 \in 0..n /\ P[i] = f[i]
      BY <1>0
    <3>2. CASE i = 1
      <4>1. P[i - 1] = <<>> /\ f[i] = seqs[i]
        BY <2>6, <3>1, <3>2
      <4>2. <<>> \o seqs[i] = seqs[i]
        BY <1>0, ConcatEmptySeq
      <4> QED
        BY <3>1, <4>1, <4>2
    <3>3. CASE i # 1
      <4>1. P[i - 1] = f[i - 1]
        BY <3>1, <3>3
      <4> QED
        BY <2>6, <3>1, <3>3, <4>1
    <3> QED
      BY <3>2, <3>3
  <2> HIDE DEF P
  <2> QED
    BY <2>8, <2>9 DEF n
<1> QED
  BY <1>1, <1>2

\* Where each part begins in the flattened sequence.
LEMMA Offsets ==
    ASSUME NEW T, NEW seqs \in Seq(Seq(T))
    PROVE  /\ FlattenSeq(seqs) \in Seq(T)
           /\ \E off \in [0..Len(seqs) -> Nat] :
                 /\ off[0] = 0 /\ off[Len(seqs)] = Len(FlattenSeq(seqs))
                 /\ \A i \in 1..Len(seqs) :
                       /\ off[i] = off[i - 1] + Len(seqs[i])
                       /\ \A k \in 1..Len(seqs[i]) :
                             FlattenSeq(seqs)[off[i - 1] + k] = seqs[i][k]
<1> DEFINE n == Len(seqs)
           flat == FlattenSeq(seqs)
<1>0. n \in Nat /\ \A i \in 1..n : seqs[i] \in Seq(T)
  BY LenProperties, ElementOfSeq
<1>1. PICK P \in [0..n -> Seq(T)] :
              /\ P[0] = <<>> /\ flat = P[n]
              /\ \A i \in 1..n : P[i] = P[i - 1] \o seqs[i]
  BY Flattening
<1> HIDE DEF n, flat
<1> DEFINE off == [i \in 0..n |-> Len(P[i])]
<1>2. ASSUME NEW i \in 1..n
      PROVE  /\ i - 1 \in 0..n /\ i \in 0..n /\ P[i - 1] \in Seq(T) /\ P[i] \in Seq(T)
             /\ Len(P[i - 1]) \in Nat /\ Len(P[i]) = Len(P[i - 1]) + Len(seqs[i])
             /\ \A t \in 1 .. Len(P[i - 1]) + Len(seqs[i]) :
                   P[i][t] = IF t <= Len(P[i - 1]) THEN P[i - 1][t] ELSE seqs[i][t - Len(P[i - 1])]
  <2>1. i - 1 \in 0..n /\ i \in 0..n
    BY <1>0
  <2>2. P[i - 1] \in Seq(T) /\ P[i] \in Seq(T) /\ seqs[i] \in Seq(T) /\ P[i] = P[i - 1] \o seqs[i]
    BY <1>0, <1>1, <2>1
  <2>3. /\ Len(P[i]) = Len(P[i - 1]) + Len(seqs[i])
        /\ \A t \in 1 .. Len(P[i - 1]) + Len(seqs[i]) :
              P[i][t] = IF t <= Len(P[i - 1]) THEN P[i - 1][t] ELSE seqs[i][t - Len(P[i - 1])]
    <3> DEFINE A == P[i - 1]
               B == seqs[i]
               C == P[i]
    <3>1. A \in Seq(T) /\ B \in Seq(T) /\ C = A \o B
      BY <2>2
    <3> HIDE DEF A, B, C
    <3>2. /\ Len(C) = Len(A) + Len(B)
          /\ \A t \in 1 .. Len(A) + Len(B) : C[t] = IF t <= Len(A) THEN A[t] ELSE B[t - Len(A)]
      BY <3>1, ConcatProperties
    <3> QED
      BY <3>2 DEF A, B, C
  <2>4. Len(P[i - 1]) \in Nat
    BY <2>2, LenProperties
  <2> QED
    BY Zenon, <2>1, <2>2, <2>3, <2>4
<1>3. ASSUME NEW i \in 0..n
      PROVE  \A t \in 1..Len(P[i]) : flat[t] = P[i][t]
  <2> DEFINE S == {m \in i..n : /\ Len(P[i]) <= Len(P[m])
                                /\ \A t \in 1..Len(P[i]) : P[m][t] = P[i][t]}
  <2>1. i \in S
    <3>1. Len(P[i]) \in Nat
      BY <1>1, LenProperties
    <3>2. i \in i..n
      BY <1>0
    <3> QED
      BY <3>1, <3>2
  <2>2. ASSUME NEW m \in i..n, m \in S, m < n PROVE m + 1 \in S
    <3> DEFINE k == m + 1
               L == Len(P[i])
               M == Len(P[m])
               N == Len(seqs[k])
    <3>1. k \in 1..n /\ k \in i..n /\ k - 1 = m /\ i \in 0..n /\ m \in 0..n
      BY <1>0, <2>2
    <3> HIDE DEF k
    <3>2. /\ Len(P[k]) = M + N /\ M \in Nat
          /\ \A t \in 1 .. M + N : P[k][t] = IF t <= M THEN P[m][t] ELSE seqs[k][t - M]
      BY <1>2, <3>1
    <3>3. N \in Nat /\ L \in Nat
      <4>1. seqs[k] \in Seq(T) /\ P[i] \in Seq(T)
        BY <1>0, <1>1, <3>1
      <4> QED
        BY <4>1, LenProperties
    <3>4. L <= M /\ \A t \in 1..L : P[m][t] = P[i][t]
      BY <2>2
    <3> HIDE DEF L, M, N
    <3>5. L <= M + N
      BY <3>2, <3>3, <3>4
    <3>6. ASSUME NEW t \in 1..L PROVE P[k][t] = P[i][t]
      <4>1. t \in 1 .. M + N /\ t <= M
        BY <3>2, <3>3, <3>4
      <4>2. P[k][t] = P[m][t]
        BY <3>2, <4>1
      <4> QED
        BY <3>4, <4>2
    <3>7. k \in S
      BY <3>1, <3>2, <3>5, <3>6 DEF L
    <3> QED
      BY <3>7 DEF k
  <2>3. \A m \in i..n : m \in S /\ m < n => m + 1 \in S
    BY <2>2
  <2>4. i \in Nat /\ n \in i..n
    BY <1>0
  <2>5. i..n \subseteq S
    <3> HIDE DEF S
    <3> QED
      BY <1>0, <2>1, <2>3, <2>4, Ascend
  <2>6. n \in S
    BY <2>4, <2>5
  <2> QED
    BY <1>1, <2>6
<1>4. off \in [0..n -> Nat] /\ off[0] = 0 /\ off[n] = Len(flat) /\ flat \in Seq(T)
  <2>1. ASSUME NEW i \in 0..n PROVE Len(P[i]) \in Nat
    BY <1>1, LenProperties
  <2>2. 0 \in 0..n /\ n \in 0..n
    BY <1>0
  <2>3. Len(P[0]) = 0
    BY <1>1
  <2> QED
    BY <1>1, <2>1, <2>2, <2>3
<1>5. ASSUME NEW i \in 1..n
      PROVE  /\ off[i] = off[i - 1] + Len(seqs[i])
             /\ \A k \in 1..Len(seqs[i]) : flat[off[i - 1] + k] = seqs[i][k]
  <2> DEFINE M == Len(P[i - 1])
             N == Len(seqs[i])
  <2>1. off[i] = Len(P[i]) /\ off[i - 1] = M
    BY <1>2
  <2>2. Len(P[i]) = M + N /\ M \in Nat /\ i \in 0..n
    BY <1>2
  <2>3. N \in Nat
    <3>1. seqs[i] \in Seq(T)
      BY <1>0
    <3> QED
      BY <3>1, LenProperties
  <2>4. ASSUME NEW k \in 1..N PROVE flat[M + k] = seqs[i][k]
    <3> HIDE DEF M, N
    <3> DEFINE t == M + k
    <3>1. t \in 1 .. M + N /\ ~(t <= M) /\ t - M = k
      BY <2>2, <2>3
    <3>2. \A x \in 1 .. M + N : P[i][x] = IF x <= M THEN P[i - 1][x] ELSE seqs[i][x - M]
      BY Zenon, <1>2 DEF M, N
    <3>3. \A x \in 1..Len(P[i]) : flat[x] = P[i][x]
      BY Zenon, <1>3, <2>2
    <3> HIDE DEF t
    <3>4. P[i][t] = seqs[i][k]
      BY <3>1, <3>2
    <3>5. flat[t] = P[i][t]
      BY <2>2, <3>1, <3>3
    <3> QED
      BY <3>4, <3>5 DEF t
  <2> HIDE DEF M, N, off
  <2> QED
    BY <2>1, <2>2, <2>4 DEF N
<1> HIDE DEF off
<1> QED
  BY <1>4, <1>5 DEF n, flat

----------------------------------------------------------------------------
(* Characters and texts.                                                    *)

CharTexts == Seq(Char)

LEMMA CharFacts ==
    /\ QuoteChar \in Char /\ Esc \in Char /\ QuoteChar # Esc
    /\ {"{", "}", "[", "]", ",", ":", "ws", "\n", "vt", "ctl", "n", "v", "/", "u00xx"} \subseteq Char
    /\ Numbers \subseteq Char /\ Literals \subseteq Char
BY DEF Char, Marks, QuoteChar, Esc

\* A text has a length and characters.
LEMMA TextFacts ==
    ASSUME NEW s \in CharTexts
    PROVE  /\ Len(s) \in Nat /\ DOMAIN s = 1..Len(s)
           /\ \A i \in 1..Len(s) : s[i] \in Char
BY LenProperties, ElementOfSeq DEF CharTexts

ScanStates == [in_object : Int, in_list : Int, in_string : BOOLEAN, escape : BOOLEAN]

LEMMA CountedFacts ==
    ASSUME NEW st \in ScanStates, NEW c
    PROVE  Counted(st, c) \in ScanStates
<1>1. Count(c, "{", "}") \in Int /\ Count(c, "[", "]") \in Int
  BY DEF Count
<1>2. (IF c = QuoteChar /\ ~st.escape THEN ~st.in_string ELSE st.in_string) \in BOOLEAN
  BY DEF ScanStates
<1>3. (c = Esc /\ ~st.escape) \in BOOLEAN
  OBVIOUS
<1>4. st.in_object \in Int /\ st.in_list \in Int
  BY DEF ScanStates
<1> DEFINE u == Count(c, "{", "}")
           v == Count(c, "[", "]")
           x == st.in_object
           y == st.in_list
<1>5. x + u \in Int /\ y + v \in Int
  <2>1. x \in Int /\ y \in Int /\ u \in Int /\ v \in Int
    BY <1>1, <1>4
  <2> HIDE DEF x, y, u, v
  <2> QED
    BY <2>1
<1> QED
  BY Zenon, <1>2, <1>3, <1>5 DEF Counted, ScanStates

LEMMA CountedCounts ==
    ASSUME NEW st, NEW c
    PROVE  /\ Counted(st, c).in_object = st.in_object + Count(c, "{", "}")
           /\ Counted(st, c).in_list = st.in_list + Count(c, "[", "]")
BY DEF Counted

\* Quotes and escapes.
LEMMA CountedPlain ==
    ASSUME NEW st, NEW c, c # QuoteChar, c # Esc
    PROVE  Counted(st, c).in_string = st.in_string /\ Counted(st, c).escape = FALSE
<1>1. (c = QuoteChar /\ ~st.escape) = FALSE /\ (c = Esc /\ ~st.escape) = FALSE
  OBVIOUS
<1>2. /\ Counted(st, c).in_string =
            (IF c = QuoteChar /\ ~st.escape THEN ~st.in_string ELSE st.in_string)
      /\ Counted(st, c).escape = (c = Esc /\ ~st.escape)
  BY Zenon DEF Counted
<1> QED
  BY Zenon, <1>1, <1>2

LEMMA CountedEscaped ==
    ASSUME NEW st, NEW c, st.escape = TRUE
    PROVE  Counted(st, c).in_string = st.in_string /\ Counted(st, c).escape = FALSE
<1>1. (c = QuoteChar /\ ~st.escape) = FALSE /\ (c = Esc /\ ~st.escape) = FALSE
  OBVIOUS
<1>2. /\ Counted(st, c).in_string =
            (IF c = QuoteChar /\ ~st.escape THEN ~st.in_string ELSE st.in_string)
      /\ Counted(st, c).escape = (c = Esc /\ ~st.escape)
  BY Zenon DEF Counted
<1> QED
  BY Zenon, <1>1, <1>2

LEMMA CountedEsc ==
    ASSUME NEW st, st.escape = FALSE
    PROVE  Counted(st, Esc).in_string = st.in_string /\ Counted(st, Esc).escape = TRUE
<1>1. (Esc = QuoteChar /\ ~st.escape) = FALSE /\ (Esc = Esc /\ ~st.escape) = TRUE
  BY CharFacts
<1>2. /\ Counted(st, Esc).in_string =
            (IF Esc = QuoteChar /\ ~st.escape THEN ~st.in_string ELSE st.in_string)
      /\ Counted(st, Esc).escape = (Esc = Esc /\ ~st.escape)
  BY Zenon DEF Counted
<1> QED
  BY Zenon, <1>1, <1>2

LEMMA CountedQuote ==
    ASSUME NEW st, st.escape = FALSE
    PROVE  /\ Counted(st, QuoteChar).in_string = ~st.in_string
           /\ Counted(st, QuoteChar).escape = FALSE
<1>1. (QuoteChar = QuoteChar /\ ~st.escape) = TRUE /\ (QuoteChar = Esc /\ ~st.escape) = FALSE
  BY CharFacts
<1>2. /\ Counted(st, QuoteChar).in_string =
            (IF QuoteChar = QuoteChar /\ ~st.escape THEN ~st.in_string ELSE st.in_string)
      /\ Counted(st, QuoteChar).escape = (QuoteChar = Esc /\ ~st.escape)
  BY Zenon DEF Counted
<1> QED
  BY Zenon, <1>1, <1>2

\* The scanner takes one step for each character.
LEMMA CountersSteps ==
    ASSUME NEW s \in CharTexts
    PROVE  /\ Counters(s) \in [0..Len(s) -> ScanStates]
           /\ Counters(s)[0] = ScanStart
           /\ \A i \in 1..Len(s) : Counters(s)[i] = Counted(Counters(s)[i - 1], s[i])
<1> DEFINE n == Len(s)
           Sol(st) == st = [i \in 0..n |-> IF i = 0 THEN ScanStart ELSE Counted(st[i - 1], s[i])]
           F == [p \in (1..n) \X ScanStates |-> Counted(p[2], s[p[1]])]
<1>0. n \in Nat
  BY TextFacts
<1>1. ScanStart \in ScanStates
  BY DEF ScanStart, ScanStates
<1>2. F \in Steps(n, ScanStates)
  BY CountedFacts DEF Steps
<1>3. PICK g \in [0..n -> ScanStates] :
          g[0] = ScanStart /\ \A i \in 1..n : g[i] = F[<<i, g[i - 1]>>]
  <2> HIDE DEF F, n
  <2> QED
    BY SMTT(60), <1>0, <1>1, <1>2, Iterates
<1>4. \A i \in 1..n : g[i] = Counted(g[i - 1], s[i])
  <2> SUFFICES ASSUME NEW i \in 1..n PROVE g[i] = Counted(g[i - 1], s[i])
    OBVIOUS
  <2>1. i - 1 \in 0..n /\ g[i - 1] \in ScanStates
    BY <1>0
  <2>2. F[<<i, g[i - 1]>>] = Counted(g[i - 1], s[i])
    BY <2>1
  <2> QED
    BY <1>3, <2>2
<1>5. Sol(g)
  <2>1. \A i \in 0..n : i # 0 => i \in 1..n
    BY <1>0
  <2> HIDE DEF n, F
  <2> QED
    BY <1>3, <1>4, <2>1
<1>6. Counters(s) = CHOOSE st : Sol(st)
  BY Zenon DEF Counters
<1>7. Sol(Counters(s))
  <2> HIDE DEF Sol
  <2> QED
    BY Zenon, <1>5, <1>6
<1> HIDE DEF F
<1>8. \A i \in 0..n : Counters(s)[i] = IF i = 0 THEN ScanStart ELSE Counted(Counters(s)[i - 1], s[i])
  BY Zenon, <1>7
<1> DEFINE C == Counters(s)
           S == {i \in 0..n : C[i] \in ScanStates}
<1>9. 0..n \subseteq S
  <2> HIDE DEF C
  <2>1. 0 \in S
    BY <1>0, <1>1, <1>8 DEF C
  <2>2. ASSUME NEW i \in 0..n, i \in S, i < n PROVE i + 1 \in S
    <3>1. i + 1 \in 0..n /\ i + 1 # 0 /\ i + 1 - 1 = i
      BY <1>0, <2>2
    <3>2. C[i + 1] = Counted(C[i], s[i + 1])
      BY <1>8, <3>1 DEF C
    <3> QED
      BY <2>2, <3>1, <3>2, CountedFacts
  <2>3. \A i \in 0..n : i \in S /\ i < n => i + 1 \in S
    BY <2>2
  <2> HIDE DEF S
  <2> QED
    BY <1>0, <2>1, <2>3, Ascend
<1>10. C \in [0..n -> ScanStates]
  <2>1. \A i \in 0..n : C[i] \in ScanStates
    BY <1>9
  <2>2. C = [i \in 0..n |-> C[i]]
    BY <1>7
  <2> HIDE DEF C
  <2> QED
    BY <2>1, <2>2
<1>11. 0 \in 0..n /\ \A i \in 1..n : i \in 0..n /\ i # 0
  BY <1>0
<1> QED
  BY <1>8, <1>10, <1>11
----------------------------------------------------------------------------
(* A text inside another, behind its first characters.                      *)

Holds(s, a, B) ==
    a \in Nat /\ a + Len(B) <= Len(s) /\ \A k \in 1..Len(B) : s[a + k] = B[k]

LEMMA Concatenated ==
    ASSUME NEW A \in CharTexts, NEW B \in CharTexts
    PROVE  /\ A \o B \in CharTexts /\ Len(A \o B) = Len(A) + Len(B)
           /\ Holds(A \o B, 0, A) /\ Holds(A \o B, Len(A), B)
<1> DEFINE AB == A \o B
           m == Len(A)
           n == Len(B)
<1>1. /\ AB \in CharTexts /\ Len(AB) = m + n
      /\ \A i \in 1 .. m + n : AB[i] = IF i <= m THEN A[i] ELSE B[i - m]
  BY ConcatProperties DEF CharTexts
<1>2. m \in Nat /\ n \in Nat
  BY TextFacts
<1> HIDE DEF AB, m, n
<1>3. \A k \in 1..m : AB[0 + k] = A[k]
  BY <1>1, <1>2
<1>4. \A k \in 1..n : AB[m + k] = B[k]
  <2> SUFFICES ASSUME NEW k \in 1..n PROVE AB[m + k] = B[k]
    OBVIOUS
  <2> DEFINE t == m + k
  <2>1. t \in 1 .. m + n /\ ~(t <= m) /\ t - m = k
    BY <1>2
  <2> HIDE DEF t
  <2>2. AB[t] = B[k]
    BY <1>1, <2>1
  <2> QED
    BY <2>2 DEF t
<1>5. Holds(AB, 0, A) /\ Holds(AB, m, B)
  <2>1. 0 + m <= m + n /\ m + n <= m + n /\ 0 \in Nat
    BY <1>2
  <2> QED
    BY <1>1, <1>2, <1>3, <1>4, <2>1 DEF Holds, m, n
<1> QED
  BY <1>1, <1>5 DEF AB, m, n

LEMMA HoldsBoth ==
    ASSUME NEW s \in CharTexts, NEW A \in CharTexts, NEW B \in CharTexts, NEW a, Holds(s, a, A \o B)
    PROVE  Holds(s, a, A) /\ Holds(s, a + Len(A), B)
<1> DEFINE AB == A \o B
           m == Len(A)
           n == Len(B)
<1>1. Len(AB) = m + n /\ Holds(AB, 0, A) /\ Holds(AB, m, B)
  BY Concatenated
<1>2. m \in Nat /\ n \in Nat /\ Len(s) \in Nat
  BY TextFacts
<1>3. a \in Nat /\ a + Len(AB) <= Len(s) /\ \A k \in 1..Len(AB) : s[a + k] = AB[k]
  BY DEF Holds
<1>4. (\A k \in 1..m : AB[0 + k] = A[k]) /\ (\A k \in 1..n : AB[m + k] = B[k])
  BY <1>1 DEF Holds
<1> HIDE DEF AB, m, n
<1>5. ASSUME NEW k \in 1..m PROVE s[a + k] = A[k]
  <2>1. k \in 1 .. m + n /\ 0 + k = k
    BY <1>2
  <2> QED
    BY <1>1, <1>3, <1>4, <2>1
<1>6. ASSUME NEW k \in 1..n PROVE s[a + m + k] = B[k]
  <2>1. m + k \in 1 .. m + n /\ a + m + k = a + (m + k)
    BY <1>2, <1>3
  <2> QED
    BY <1>1, <1>3, <1>4, <2>1
<1>7. a + m <= Len(s) /\ a + m + n <= Len(s) /\ a + m \in Nat
  BY <1>1, <1>2, <1>3
<1> QED
  BY <1>3, <1>5, <1>6, <1>7 DEF Holds, m, n

\* A text of one character.
LEMMA OneChar ==
    ASSUME NEW c \in Char
    PROVE  <<c>> \in CharTexts /\ Len(<<c>>) = 1 /\ <<c>>[1] = c
BY DEF CharTexts

LEMMA TwoChars ==
    ASSUME NEW c \in Char, NEW d \in Char
    PROVE  /\ <<c, d>> \in CharTexts /\ Len(<<c, d>>) = 2
           /\ <<c, d>>[1] = c /\ <<c, d>>[2] = d
BY DEF CharTexts

LEMMA HoldsChar ==
    ASSUME NEW s, NEW a, NEW c \in Char, Holds(s, a, <<c>>)
    PROVE  a + 1 <= Len(s) /\ s[a + 1] = c
BY OneChar DEF Holds

\* Two texts with the same characters are the same.
LEMMA SameText ==
    ASSUME NEW s \in CharTexts, NEW t, t \in CharTexts, Len(t) = Len(s),
           \A k \in 1..Len(s) : s[k] = t[k]
    PROVE  s = t
BY SeqEqual DEF CharTexts

LEMMA HoldsAll ==
    ASSUME NEW s \in CharTexts, NEW B \in CharTexts, Holds(s, 0, B), Len(s) = Len(B)
    PROVE  s = B
<1>1. Len(B) \in Nat
  BY TextFacts
<1>2. \A k \in 1..Len(s) : s[k] = B[k]
  <2> SUFFICES ASSUME NEW k \in 1..Len(s) PROVE s[k] = B[k]
    OBVIOUS
  <2>1. 0 + k = k
    BY <1>1
  <2> QED
    BY <2>1 DEF Holds
<1> QED
  BY <1>2, SameText

LEMMA PartOf ==
    ASSUME NEW s \in CharTexts, NEW a \in Nat, NEW e \in Nat, e <= Len(s), a <= e
    PROVE  /\ SubSeq(s, a + 1, e) \in CharTexts /\ Len(SubSeq(s, a + 1, e)) = e - a
           /\ Holds(s, a, SubSeq(s, a + 1, e))
           /\ \A k \in 1..(e - a) : SubSeq(s, a + 1, e)[k] = s[a + k]
<1> DEFINE P == SubSeq(s, a + 1, e)
<1>0. Len(s) \in Nat /\ a + 1 \in Int /\ e \in Int
  BY TextFacts
<1>1. \A i \in (a + 1)..e : s[i] \in Char
  BY <1>0, TextFacts
<1>2. /\ P \in CharTexts /\ Len(P) = IF a + 1 <= e THEN e - (a + 1) + 1 ELSE 0
      /\ \A i \in 1..(e - (a + 1) + 1) : P[i] = s[a + 1 + i - 1]
  BY <1>0, <1>1, SubSeqProperties DEF CharTexts
<1> HIDE DEF P
<1>3. Len(P) = e - a /\ e - (a + 1) + 1 = e - a /\ \A i \in Int : a + 1 + i - 1 = a + i
  BY <1>0, <1>2
<1>4. \A i \in 1..(e - a) : P[i] = s[a + i]
  BY <1>2, <1>3
<1>5. Holds(s, a, P)
  <2>1. a + (e - a) <= Len(s)
    BY <1>0
  <2> QED
    BY <1>3, <1>4, <2>1 DEF Holds
<1> QED
  BY <1>2, <1>3, <1>4, <1>5 DEF P

\* What a text holds is its part.
LEMMA HeldPart ==
    ASSUME NEW s \in CharTexts, NEW B \in CharTexts, NEW a, Holds(s, a, B)
    PROVE  SubSeq(s, a + 1, a + Len(B)) = B
<1>0. Len(s) \in Nat /\ Len(B) \in Nat /\ a \in Nat /\ a + Len(B) \in Nat /\ a <= a + Len(B)
      /\ a + Len(B) - a = Len(B) /\ a + Len(B) <= Len(s)
  BY TextFacts DEF Holds
<1> DEFINE e == a + Len(B)
           P == SubSeq(s, a + 1, e)
<1>1. P \in CharTexts /\ Len(P) = e - a /\ \A k \in 1..(e - a) : P[k] = s[a + k]
  <2> HIDE DEF e
  <2>1. e \in Nat /\ e <= Len(s) /\ a <= e /\ a \in Nat
    BY <1>0 DEF e
  <2> QED
    BY <2>1, PartOf
<1> HIDE DEF P
<1>2. \A k \in 1..Len(B) : B[k] = P[k]
  BY SMTT(60), <1>0, <1>1 DEF Holds
<1>3. P = B
  BY SMTT(60), <1>0, <1>1, <1>2, SameText
<1> QED
  BY <1>3 DEF P

\* A part of a part.
LEMMA HoldsDeep ==
    ASSUME NEW s \in CharTexts, NEW A \in CharTexts, NEW B \in CharTexts, NEW a, NEW b,
           Holds(s, a, A), Holds(A, b, B)
    PROVE  Holds(s, a + b, B)
<1>0. Len(s) \in Nat /\ Len(A) \in Nat /\ Len(B) \in Nat /\ a \in Nat /\ b \in Nat
  BY TextFacts DEF Holds
<1>1. a + b + Len(B) <= Len(s) /\ a + b \in Nat
  BY <1>0 DEF Holds
<1>2. ASSUME NEW k \in 1..Len(B) PROVE s[a + b + k] = B[k]
  <2>1. b + k \in 1..Len(A) /\ a + b + k = a + (b + k)
    BY <1>0 DEF Holds
  <2> QED
    BY <2>1 DEF Holds
<1> QED
  BY <1>1, <1>2 DEF Holds

----------------------------------------------------------------------------
(* The scanner inside a text.                                               *)

Beyond(st, base, rel) ==
    /\ st.in_object = base.in_object + rel.in_object
    /\ st.in_list = base.in_list + rel.in_list
    /\ st.in_string = rel.in_string /\ st.escape = rel.escape

LEMMA CountedBeyond ==
    ASSUME NEW st \in ScanStates, NEW base \in ScanStates, NEW rel \in ScanStates, NEW c,
           Beyond(st, base, rel)
    PROVE  Beyond(Counted(st, c), base, Counted(rel, c))
<1> DEFINE u == Count(c, "{", "}")
           v == Count(c, "[", "]")
<1>1. u \in Int /\ v \in Int
  BY DEF Count
<1>2. /\ Counted(st, c).in_object = st.in_object + u
      /\ Counted(rel, c).in_object = rel.in_object + u
      /\ Counted(st, c).in_list = st.in_list + v
      /\ Counted(rel, c).in_list = rel.in_list + v
  BY DEF Counted
<1> HIDE DEF u, v
<1>3. /\ st.in_object = base.in_object + rel.in_object /\ st.in_list = base.in_list + rel.in_list
      /\ base.in_object \in Int /\ rel.in_object \in Int
      /\ base.in_list \in Int /\ rel.in_list \in Int
  BY DEF Beyond, ScanStates
<1>4. /\ Counted(st, c).in_object = base.in_object + Counted(rel, c).in_object
      /\ Counted(st, c).in_list = base.in_list + Counted(rel, c).in_list
  BY <1>1, <1>2, <1>3
<1>5. st.in_string = rel.in_string /\ st.escape = rel.escape
  BY DEF Beyond
<1>6. /\ Counted(st, c).in_string = Counted(rel, c).in_string
      /\ Counted(st, c).escape = Counted(rel, c).escape
  BY Zenon, <1>5 DEF Counted
<1> QED
  BY <1>4, <1>6 DEF Beyond

\* From a place outside strings on, a text inside another is scanned as alone.
LEMMA ScanInside ==
    ASSUME NEW s \in CharTexts, NEW B \in CharTexts, NEW a, Holds(s, a, B),
           Counters(s)[a].in_string = FALSE, Counters(s)[a].escape = FALSE
    PROVE  /\ a \in 0..Len(s)
           /\ \A k \in 0..Len(B) :
                 a + k \in 0..Len(s) /\ Beyond(Counters(s)[a + k], Counters(s)[a], Counters(B)[k])
<1> DEFINE C == Counters(s)
           R == Counters(B)
           n == Len(B)
<1>0. Len(s) \in Nat /\ n \in Nat /\ a \in Nat /\ a + n <= Len(s)
  BY TextFacts DEF Holds
<1>1. /\ C \in [0..Len(s) -> ScanStates] /\ R \in [0..n -> ScanStates]
      /\ \A i \in 1..Len(s) : C[i] = Counted(C[i - 1], s[i])
      /\ \A i \in 1..n : R[i] = Counted(R[i - 1], B[i])
      /\ R[0] = ScanStart
  BY CountersSteps
<1>2. C[a].in_string = FALSE /\ C[a].escape = FALSE /\ \A k \in 1..n : s[a + k] = B[k]
  BY DEF Holds
<1> HIDE DEF C, R, n
<1> DEFINE S == {k \in 0..n : Beyond(C[a + k], C[a], R[k])}
<1>3. 0 \in S
  <2>1. a + 0 = a /\ 0 \in 0..n /\ C[a] \in ScanStates
    BY <1>0, <1>1
  <2>2. C[a].in_object + 0 = C[a].in_object /\ C[a].in_list + 0 = C[a].in_list
    BY <2>1 DEF ScanStates
  <2>3. /\ R[0].in_object = 0 /\ R[0].in_list = 0
        /\ R[0].in_string = FALSE /\ R[0].escape = FALSE
    BY <1>1 DEF ScanStart
  <2>4. Beyond(C[a], C[a], R[0])
    BY Zenon, <1>2, <2>2, <2>3 DEF Beyond
  <2> QED
    BY <2>1, <2>4
<1>4. ASSUME NEW k \in 0..n, k \in S, k < n PROVE k + 1 \in S
  <2> DEFINE m == k + 1
  <2>1. /\ m \in 0..n /\ m \in 1..n /\ m - 1 = k /\ a + m \in 1..Len(s) /\ a + m - 1 = a + k
        /\ a + k \in 0..Len(s) /\ a \in 0..Len(s)
    BY <1>0, <1>4
  <2> HIDE DEF m
  <2>2. C[a + m] = Counted(C[a + k], B[m]) /\ R[m] = Counted(R[k], B[m])
    BY <1>1, <1>2, <2>1
  <2>3. C[a + k] \in ScanStates /\ C[a] \in ScanStates /\ R[k] \in ScanStates
    BY <1>1, <2>1
  <2>4. Beyond(C[a + m], C[a], R[m])
    BY <1>4, <2>2, <2>3, CountedBeyond
  <2> QED
    BY <2>1, <2>4 DEF m
<1>5. 0..n \subseteq S
  <2>1. \A k \in 0..n : k \in S /\ k < n => k + 1 \in S
    BY <1>4
  <2> HIDE DEF S
  <2> QED
    BY <1>0, <1>3, <2>1, Ascend
<1>6. a \in 0..Len(s) /\ \A k \in 0..n : a + k \in 0..Len(s)
  BY <1>0
<1> QED
  BY <1>5, <1>6 DEF C, R, n

----------------------------------------------------------------------------
(* Texts that are put together from parts.                                  *)

LEMMA FlatTexts ==
    ASSUME NEW seqs \in Seq(CharTexts)
    PROVE  /\ FlattenSeq(seqs) \in CharTexts /\ Len(seqs) \in Nat
           /\ \A i \in 1..Len(seqs) : seqs[i] \in CharTexts
           /\ \E off \in [0..Len(seqs) -> Nat] :
                 /\ off[0] = 0 /\ off[Len(seqs)] = Len(FlattenSeq(seqs))
                 /\ \A i \in 1..Len(seqs) :
                       /\ off[i] = off[i - 1] + Len(seqs[i])
                       /\ Holds(FlattenSeq(seqs), off[i - 1], seqs[i])
<1> DEFINE n == Len(seqs)
           flat == FlattenSeq(seqs)
<1>0. n \in Nat /\ \A i \in 1..n : seqs[i] \in CharTexts
  BY LenProperties, ElementOfSeq
<1>1. flat \in CharTexts
  BY Offsets DEF CharTexts
<1>2. PICK off \in [0..n -> Nat] :
          /\ off[0] = 0 /\ off[n] = Len(flat)
          /\ \A i \in 1..n :
                /\ off[i] = off[i - 1] + Len(seqs[i])
                /\ \A k \in 1..Len(seqs[i]) : flat[off[i - 1] + k] = seqs[i][k]
  BY SMTT(60), Offsets DEF CharTexts
<1> HIDE DEF n, flat
<1>3. ASSUME NEW i \in 1..n PROVE off[i] <= Len(flat)
  <2> DEFINE S == {m \in i..n : off[i] <= off[m]}
  <2>1. i \in S
    BY <1>0, <1>2
  <2>2. ASSUME NEW m \in i..n, m \in S, m < n PROVE m + 1 \in S
    <3> DEFINE j == m + 1
    <3>1. j \in 1..n /\ j \in i..n /\ j - 1 = m /\ m \in 0..n /\ j \in 0..n /\ i \in 0..n
      BY <1>0, <2>2
    <3> HIDE DEF j
    <3>2. off[j] = off[m] + Len(seqs[j]) /\ Len(seqs[j]) \in Nat
      BY <1>0, <1>2, <3>1, TextFacts
    <3>3. off[i] \in Nat /\ off[m] \in Nat /\ off[i] <= off[m]
      BY <1>2, <2>2, <3>1
    <3>4. off[i] <= off[j]
      BY <3>2, <3>3
    <3> QED
      BY <3>1, <3>4 DEF j
  <2>3. i..n \subseteq S
    <3>1. \A m \in i..n : m \in S /\ m < n => m + 1 \in S
      BY <2>2
    <3>2. i \in Nat
      BY <1>0
    <3> HIDE DEF S
    <3> QED
      BY <1>0, <2>1, <3>1, <3>2, Ascend
  <2>4. n \in i..n
    BY <1>0
  <2> QED
    BY <1>2, <2>3, <2>4
<1>4. ASSUME NEW i \in 1..n PROVE Holds(flat, off[i - 1], seqs[i])
  <2>1. i - 1 \in 0..n
    BY <1>0
  <2>2. off[i - 1] \in Nat /\ off[i - 1] + Len(seqs[i]) <= Len(flat)
    BY <1>2, <1>3, <2>1
  <2> QED
    BY <1>2, <2>2 DEF Holds
<1> QED
  BY <1>0, <1>1, <1>2, <1>4 DEF n, flat

\* What get_repr writes for a character, and what it does not.
LEMMA EscapedFacts ==
    ASSUME NEW c \in Char
    PROVE  /\ EscapedChar(c) \in CharTexts
           /\ \/ /\ Len(EscapedChar(c)) = 1 /\ EscapedChar(c)[1] = c
                 /\ c # QuoteChar /\ c # Esc
              \/ /\ Len(EscapedChar(c)) = 2 /\ EscapedChar(c)[1] = Esc
                 /\ EscapedChar(c)[2] \in {QuoteChar, Esc, "n", "v", "u00xx"}
                 /\ c \notin Dropped => Unescaped(EscapedChar(c)[2]) = <<c>>
<1> DEFINE After == {QuoteChar, Esc, "n", "v", "u00xx"}
<1>0. After \subseteq Char
  BY CharFacts
<1>1. ASSUME NEW d \in After, EscapedChar(c) = <<Esc, d>>
      PROVE  /\ EscapedChar(c) \in CharTexts /\ Len(EscapedChar(c)) = 2
             /\ EscapedChar(c)[1] = Esc /\ EscapedChar(c)[2] = d
  <2>1. d \in Char /\ Esc \in Char
    BY <1>0, CharFacts
  <2>2. /\ <<Esc, d>> \in CharTexts /\ Len(<<Esc, d>>) = 2
        /\ <<Esc, d>>[1] = Esc /\ <<Esc, d>>[2] = d
    BY <2>1, TwoChars
  <2> QED
    BY <1>1, <2>2
<1>2. CASE c = QuoteChar
  <2>1. EscapedChar(c) = <<Esc, QuoteChar>>
    BY <1>2 DEF EscapedChar, QuoteChar, Esc
  <2>2. Unescaped(QuoteChar) = <<QuoteChar>>
    BY DEF Unescaped, QuoteChar, Esc
  <2> QED
    BY <1>1, <1>2, <2>1, <2>2
<1>3. CASE c = Esc
  <2>1. EscapedChar(c) = <<Esc, Esc>>
    BY <1>3 DEF EscapedChar, QuoteChar, Esc
  <2>2. Unescaped(Esc) = <<Esc>>
    BY DEF Unescaped, QuoteChar, Esc
  <2> QED
    BY <1>1, <1>3, <2>1, <2>2
<1>4. CASE c = "\n"
  <2>1. EscapedChar(c) = <<Esc, "n">>
    BY <1>4 DEF EscapedChar, QuoteChar, Esc
  <2>2. Unescaped("n") = <<"\n">>
    BY DEF Unescaped, QuoteChar, Esc
  <2> QED
    BY <1>1, <1>4, <2>1, <2>2
<1>5. CASE c = "vt"
  <2>1. EscapedChar(c) = <<Esc, "v">>
    BY <1>5 DEF EscapedChar, QuoteChar, Esc
  <2> QED
    BY <1>1, <1>5, <2>1 DEF Dropped
<1>6. CASE c = "ctl"
  <2>1. EscapedChar(c) = <<Esc, "u00xx">>
    BY <1>6 DEF EscapedChar, QuoteChar, Esc
  <2> QED
    BY <1>1, <1>6, <2>1 DEF Dropped
<1>7. CASE c \notin {QuoteChar, Esc, "\n", "vt", "ctl"}
  <2>1. EscapedChar(c) = <<c>>
    BY <1>7 DEF EscapedChar, QuoteChar, Esc
  <2> QED
    BY <1>7, <2>1, OneChar
<1> QED
  BY <1>2, <1>3, <1>4, <1>5, <1>6, <1>7

EscapedTexts(s) == [i \in DOMAIN s |-> EscapedChar(s[i])]
EscapedText(s) == FlattenSeq(EscapedTexts(s))

LEMMA EscapedTextsFacts ==
    ASSUME NEW s \in CharTexts
    PROVE  /\ EscapedTexts(s) \in Seq(CharTexts) /\ Len(EscapedTexts(s)) = Len(s)
           /\ \A i \in 1..Len(s) : EscapedTexts(s)[i] = EscapedChar(s[i])
<1>1. Len(s) \in Nat /\ DOMAIN s = 1..Len(s) /\ \A i \in 1..Len(s) : s[i] \in Char
  BY TextFacts
<1>2. EscapedTexts(s) = [i \in 1..Len(s) |-> EscapedChar(s[i])]
  BY <1>1 DEF EscapedTexts
<1>3. \A i \in 1..Len(s) : EscapedChar(s[i]) \in CharTexts
  BY <1>1, EscapedFacts
<1> QED
  BY <1>1, <1>2, <1>3

LEMMA QuotedParts ==
    ASSUME NEW s \in CharTexts
    PROVE  /\ EscapedText(s) \in CharTexts /\ QuotedText(s) \in CharTexts
           /\ Len(QuotedText(s)) = Len(EscapedText(s)) + 2
           /\ QuotedText(s)[1] = QuoteChar /\ QuotedText(s)[Len(QuotedText(s))] = QuoteChar
           /\ Holds(QuotedText(s), 1, EscapedText(s))
<1> DEFINE F == EscapedText(s)
           q == <<QuoteChar>>
           A == q \o F
           Q == A \o q
<1>1. F \in CharTexts
  BY EscapedTextsFacts, FlatTexts DEF EscapedText
<1>2. q \in CharTexts /\ Len(q) = 1 /\ q[1] = QuoteChar
  BY OneChar, CharFacts
<1>3. QuotedText(s) = Q
  BY DEF QuotedText, EscapedText, EscapedTexts
<1> HIDE DEF F, q
<1>4. A \in CharTexts /\ Len(A) = 1 + Len(F) /\ Holds(A, 0, q) /\ Holds(A, 1, F)
  BY <1>1, <1>2, Concatenated
<1> HIDE DEF A
<1>5. Q \in CharTexts /\ Len(Q) = Len(A) + 1 /\ Holds(Q, 0, A) /\ Holds(Q, Len(A), q)
  BY ZenonT(60), <1>2, <1>4, Concatenated
<1> HIDE DEF Q
<1>6. Len(F) \in Nat
  BY <1>1, TextFacts
<1>7. Holds(Q, 0 + 0, q) /\ Holds(Q, 0 + 1, F)
  BY <1>1, <1>2, <1>4, <1>5, HoldsDeep
<1>8. Q[1] = QuoteChar /\ Q[Len(A) + 1] = QuoteChar /\ Holds(Q, 1, F)
  <2>1. \A k \in 1..1 : Q[0 + k] = q[k] /\ Q[Len(A) + k] = q[k]
    BY <1>2, <1>5, <1>7 DEF Holds
  <2>2. 1 \in 1..1 /\ 0 + 1 = 1
    OBVIOUS
  <2> QED
    BY <1>2, <1>7, <2>1, <2>2
<1> QED
  BY <1>1, <1>3, <1>4, <1>5, <1>6, <1>8 DEF F

\* A printed string is inside quotes from its first character to its last, and
\* has no other characters than those of the string and of the escapes.
LEMMA QuotedScan ==
    ASSUME NEW s \in CharTexts
    PROVE  /\ \A k \in 1..(Len(QuotedText(s)) - 1) :
                 Counters(QuotedText(s))[k].in_string = TRUE
           /\ Counters(QuotedText(s))[Len(QuotedText(s))].in_string = FALSE
           /\ Counters(QuotedText(s))[Len(QuotedText(s))].escape = FALSE
<1> DEFINE Q == QuotedText(s)
           F == EscapedText(s)
           C == Counters(Q)
           n == Len(s)
           E == EscapedTexts(s)
<1>1. /\ F \in CharTexts /\ Q \in CharTexts /\ Len(Q) = Len(F) + 2
      /\ Q[1] = QuoteChar /\ Q[Len(Q)] = QuoteChar /\ Holds(Q, 1, F)
  BY QuotedParts
<1>2. /\ C \in [0..Len(Q) -> ScanStates] /\ C[0] = ScanStart
      /\ \A i \in 1..Len(Q) : C[i] = Counted(C[i - 1], Q[i])
  BY <1>1, CountersSteps
<1>3. /\ E \in Seq(CharTexts) /\ Len(E) = n /\ \A i \in 1..n : E[i] = EscapedChar(s[i])
  BY EscapedTextsFacts
<1>4. PICK off \in [0..n -> Nat] :
          /\ off[0] = 0 /\ off[n] = Len(F)
          /\ \A i \in 1..n : off[i] = off[i - 1] + Len(E[i]) /\ Holds(F, off[i - 1], E[i])
  <2> HIDE DEF n, E
  <2>1. F = FlattenSeq(E)
    BY DEF E, F, EscapedText
  <2> HIDE DEF F
  <2> QED
    BY <1>3, <2>1, FlatTexts
<1>5. n \in Nat /\ Len(F) \in Nat /\ \A i \in 1..n : s[i] \in Char
  BY <1>1, TextFacts
<1> HIDE DEF Q, F, C, n, E
<1> DEFINE Open(k) == C[k].in_string = TRUE
           S == {i \in 0..n : /\ \A k \in 1..(1 + off[i]) : Open(k)
                              /\ C[1 + off[i]].escape = FALSE}
<1>6. 0 \in S
  <2>1. 1 \in 1..Len(Q) /\ 1 - 1 = 0
    BY <1>1, <1>5
  <2>2. C[1] = Counted(ScanStart, QuoteChar)
    BY <1>1, <1>2, <2>1
  <2>3. Open(1) /\ C[1].escape = FALSE
    <3>1. ScanStart.in_string = FALSE /\ ScanStart.escape = FALSE
      BY DEF ScanStart
    <3>2. (~FALSE) = TRUE
      OBVIOUS
    <3> QED
      BY Zenon, <2>2, <3>1, <3>2, CountedQuote
  <2>4. 1 + off[0] = 1 /\ 0 \in 0..n
    BY <1>4, <1>5
  <2> QED
    BY <2>3, <2>4
<1>7. ASSUME NEW i \in 0..n, i \in S, i < n PROVE i + 1 \in S
  <2> DEFINE j == i + 1
             p == 1 + off[i]
  <2>1. j \in 1..n /\ j \in 0..n /\ j - 1 = i
    BY <1>5, <1>7
  <2>2. /\ s[j] \in Char /\ E[j] = EscapedChar(s[j]) /\ off[j] = off[i] + Len(E[j])
        /\ Holds(F, off[i], E[j]) /\ off[i] \in Nat /\ off[j] \in Nat
    BY <1>3, <1>4, <1>5, <2>1
  <2>3. E[j] \in CharTexts
    BY <2>2, EscapedFacts
  <2>4. Holds(Q, p, E[j])
    BY <1>1, <2>2, <2>3, HoldsDeep
  <2>5. p \in Nat /\ p >= 1 /\ p + Len(E[j]) <= Len(Q) /\ \A k \in 1..Len(E[j]) : Q[p + k] = E[j][k]
    BY <2>2, <2>4 DEF Holds
  <2>6. (\A k \in 1..p : Open(k)) /\ C[p].escape = FALSE
    BY <1>7
  <2> HIDE DEF j, p
  <2>7. CASE Len(E[j]) = 1 /\ E[j][1] = s[j] /\ s[j] # QuoteChar /\ s[j] # Esc
    <3>1. p + 1 \in 1..Len(Q) /\ p + 1 - 1 = p /\ p \in 1..p /\ Q[p + 1] = s[j]
      BY <1>1, <1>5, <2>5, <2>7
    <3>2. C[p + 1] = Counted(C[p], s[j]) /\ Open(p)
      BY <1>2, <2>6, <3>1
    <3>3. Open(p + 1) /\ C[p + 1].escape = FALSE
      <4> DEFINE st == C[p]
                 c == s[j]
      <4>1. c # QuoteChar /\ c # Esc
        BY <2>7
      <4> HIDE DEF st, c
      <4>2. Counted(st, c).in_string = st.in_string /\ Counted(st, c).escape = FALSE
        BY <4>1, CountedPlain
      <4> QED
        BY Zenon, <3>2, <4>2 DEF st, c
    <3>4. 1 + off[j] = p + 1
      BY <2>2, <2>7 DEF p
    <3>5. \A k \in 1..(p + 1) : k \in 1..p \/ k = p + 1
      BY <2>5
    <3>6. \A k \in 1..(p + 1) : Open(k)
      BY <2>6, <3>3, <3>5
    <3>7. j \in S
      <4> HIDE DEF Open
      <4> QED
        BY <2>1, <3>3, <3>4, <3>6
    <3> QED
      BY <3>7 DEF j
  <2>8. CASE Len(E[j]) = 2 /\ E[j][1] = Esc
    <3>1. /\ p + 1 \in 1..Len(Q) /\ p + 1 - 1 = p /\ p \in 1..p /\ Q[p + 1] = Esc
          /\ p + 2 \in 1..Len(Q) /\ p + 2 - 1 = p + 1
      BY <1>1, <1>5, <2>5, <2>8
    <3>2. C[p + 1] = Counted(C[p], Esc) /\ Open(p) /\ C[p + 2] = Counted(C[p + 1], Q[p + 2])
      BY SMTT(60), <1>2, <2>6, <3>1
    <3>3. Open(p + 1) /\ C[p + 1].escape = TRUE
      BY Zenon, <2>6, <3>2, CountedEsc
    <3>4. Open(p + 2) /\ C[p + 2].escape = FALSE
      <4> DEFINE st == C[p + 1]
                 c == Q[p + 2]
      <4>1. st.escape = TRUE
        BY Zenon, <3>3
      <4> HIDE DEF st, c
      <4>2. Counted(st, c).in_string = st.in_string /\ Counted(st, c).escape = FALSE
        BY Zenon, <4>1, CountedEscaped
      <4> QED
        BY Zenon, <3>2, <3>3, <4>2 DEF st, c
    <3>5. 1 + off[j] = p + 2
      BY <2>2, <2>8 DEF p
    <3>6. \A k \in 1..(p + 2) : k \in 1..p \/ k = p + 1 \/ k = p + 2
      BY <2>5
    <3>7. \A k \in 1..(p + 2) : Open(k)
      BY <2>6, <3>3, <3>4, <3>6
    <3>8. j \in S
      <4> HIDE DEF Open
      <4> QED
        BY <2>1, <3>4, <3>5, <3>7
    <3> QED
      BY <3>8 DEF j
  <2> QED
    BY <2>2, <2>7, <2>8, EscapedFacts
<1>8. 0..n \subseteq S
  <2>1. \A i \in 0..n : i \in S /\ i < n => i + 1 \in S
    BY <1>7
  <2> HIDE DEF S
  <2> QED
    BY <1>5, <1>6, <2>1, Ascend
<1>9. (\A k \in 1..(1 + Len(F)) : Open(k)) /\ C[1 + Len(F)].escape = FALSE
  <2>1. n \in S
    BY <1>5, <1>8
  <2> QED
    BY <1>4, <2>1
<1>10. /\ Len(Q) - 1 = 1 + Len(F) /\ Len(Q) \in 1..Len(Q) /\ 1 + Len(F) \in 1..(1 + Len(F))
  BY <1>1, <1>5
<1>11. C[Len(Q)] = Counted(C[1 + Len(F)], QuoteChar) /\ Open(1 + Len(F))
  BY <1>1, <1>2, <1>9, <1>10
<1>12. C[Len(Q)].in_string = FALSE /\ C[Len(Q)].escape = FALSE
  <2>1. (~TRUE) = FALSE
    OBVIOUS
  <2> QED
    BY Zenon, <1>9, <1>11, <2>1, CountedQuote
<1> QED
  BY <1>9, <1>10, <1>12 DEF C, Q

\* A text of which all characters are of a kind.
LEMMA Narrow ==
    ASSUME NEW t \in CharTexts, NEW T, \A k \in 1..Len(t) : t[k] \in T
    PROVE  t \in Seq(T)
<1>1. Len(t) \in Nat /\ t \in [1..Len(t) -> Char]
  BY LenProperties DEF CharTexts
<1>2. t = [k \in 1..Len(t) |-> t[k]]
  BY <1>1
<1>3. [k \in 1..Len(t) |-> t[k]] \in Seq(T)
  BY <1>1
<1> QED
  BY <1>2, <1>3

\* Printing a string adds quotes and escapes, and nothing else.
LEMMA QuotedKind ==
    ASSUME NEW M, {QuoteChar, Esc, "n", "v", "u00xx"} \cap M = {}, NEW s \in Seq(Char \ M)
    PROVE  s \in CharTexts /\ QuotedText(s) \in Seq(Char \ M)
<1> DEFINE T == Char \ M
           E == EscapedTexts(s)
           q == <<QuoteChar>>
<1>1. s \in CharTexts
  <2>1. T \subseteq Char
    OBVIOUS
  <2> HIDE DEF T
  <2> QED
    BY <2>1, SeqMonotonic DEF CharTexts, T
<1>2. /\ E \in Seq(CharTexts) /\ Len(E) = Len(s) /\ Len(s) \in Nat
      /\ \A i \in 1..Len(s) : E[i] = EscapedChar(s[i])
  BY <1>1, EscapedTextsFacts, TextFacts
<1>3. QuoteChar \in T /\ Esc \in T /\ "n" \in T /\ "v" \in T /\ "u00xx" \in T
  BY CharFacts
<1>4. ASSUME NEW i \in 1..Len(s) PROVE E[i] \in Seq(T)
  <2>1. s[i] \in T
    BY ElementOfSeq
  <2> DEFINE t == EscapedChar(s[i])
  <2>2. t \in CharTexts /\ (Len(t) = 1 \/ Len(t) = 2)
        /\ (Len(t) = 1 => t[1] \in T)
        /\ (Len(t) = 2 => t[1] \in T /\ t[2] \in T)
    BY <1>3, <2>1, EscapedFacts
  <2> HIDE DEF t, T
  <2>3. \A k \in 1..Len(t) : t[k] \in T
    BY <2>2
  <2>4. t \in Seq(T)
    BY <2>2, <2>3, Narrow
  <2> QED
    BY <1>2, <2>4 DEF t
<1> HIDE DEF T
<1>5. E \in Seq(Seq(T))
  <2> HIDE DEF E
  <2>1. E = [i \in 1..Len(s) |-> E[i]]
    BY <1>2, LenProperties
  <2>2. [i \in 1..Len(s) |-> E[i]] \in Seq(Seq(T))
    BY <1>2, <1>4
  <2> QED
    BY <2>1, <2>2
<1>6. EscapedText(s) \in Seq(T)
  BY <1>5, Offsets DEF EscapedText
<1>7. q \in Seq(T)
  BY <1>3
<1>8. q \o EscapedText(s) \in Seq(T)
  BY <1>6, <1>7, ConcatProperties
<1>9. (q \o EscapedText(s)) \o q \in Seq(T)
  BY <1>7, <1>8, ConcatProperties
<1> QED
  BY <1>1, <1>9 DEF QuotedText, EscapedText, EscapedTexts, T

\* Without brackets the counters stay at 0.
LEMMA CountersFlat ==
    ASSUME NEW B \in Seq(Char \ Brackets)
    PROVE  /\ B \in CharTexts
           /\ \A k \in 0..Len(B) : Counters(B)[k].in_object = 0 /\ Counters(B)[k].in_list = 0
<1> DEFINE n == Len(B)
           C == Counters(B)
           S == {k \in 0..n : C[k].in_object = 0 /\ C[k].in_list = 0}
<1>1. B \in CharTexts
  BY SeqMonotonic DEF CharTexts
<1>2. /\ n \in Nat /\ C[0] = ScanStart
      /\ \A i \in 1..n : C[i] = Counted(C[i - 1], B[i])
  BY <1>1, CountersSteps, TextFacts
<1>3. \A i \in 1..n : B[i] \notin Brackets
  BY ElementOfSeq
<1> HIDE DEF n, C
<1>4. 0 \in S
  <2>1. ScanStart.in_object = 0 /\ ScanStart.in_list = 0
    BY DEF ScanStart
  <2> QED
    BY <1>2, <2>1
<1>5. ASSUME NEW i \in 0..n, i \in S, i < n PROVE i + 1 \in S
  <2> DEFINE j == i + 1
  <2>1. j \in 1..n /\ j \in 0..n /\ j - 1 = i
    BY <1>2, <1>5
  <2> HIDE DEF j
  <2>2. C[j] = Counted(C[i], B[j]) /\ B[j] \notin Brackets
    BY <1>2, <1>3, <2>1
  <2>3. Count(B[j], "{", "}") = 0 /\ Count(B[j], "[", "]") = 0
    BY <2>2 DEF Count, Brackets
  <2>4. /\ C[j].in_object = C[i].in_object + Count(B[j], "{", "}")
        /\ C[j].in_list = C[i].in_list + Count(B[j], "[", "]")
    <3>1. /\ Counted(C[i], B[j]).in_object = C[i].in_object + Count(B[j], "{", "}")
          /\ Counted(C[i], B[j]).in_list = C[i].in_list + Count(B[j], "[", "]")
      BY Zenon, CountedCounts
    <3> QED
      BY Zenon, <2>2, <3>1
  <2>5. C[j].in_object = 0 /\ C[j].in_list = 0
    <3>1. C[i].in_object = 0 /\ C[i].in_list = 0 /\ 0 + 0 = 0
      BY <1>5
    <3> QED
      BY Zenon, <2>3, <2>4, <3>1
  <2> QED
    BY <2>1, <2>5 DEF j
<1>6. 0..n \subseteq S
  <2>1. \A i \in 0..n : i \in S /\ i < n => i + 1 \in S
    BY <1>5
  <2> HIDE DEF S
  <2> QED
    BY <1>2, <1>4, <2>1, Ascend
<1> QED
  BY <1>1, <1>6 DEF n, C

----------------------------------------------------------------------------
(* Strings are read as what was printed.                                    *)

UnescapeStates == [r : CharTexts, escape : BOOLEAN]

LEMMA UnescapedFacts ==
    ASSUME NEW st \in UnescapeStates, NEW c \in Char
    PROVE  UnescapeStep(st, c) \in UnescapeStates
<1>1. Unescaped(c) \in CharTexts
  <2>1. <<>> \in CharTexts
    BY EmptySeq DEF CharTexts
  <2>2. Unescaped(c) \in {<<"\n">>, <<"00xx">>, <<c>>, <<Esc>>}
    BY DEF Unescaped
  <2>3. "00xx" \in Char
    BY DEF Char, Marks
  <2>4. <<"\n">> \in CharTexts /\ <<c>> \in CharTexts /\ <<Esc>> \in CharTexts
        /\ <<"00xx">> \in CharTexts
    BY <2>3, CharFacts, OneChar
  <2> QED
    BY <2>1, <2>2, <2>4
<1>2. st.r \in CharTexts /\ st.escape \in BOOLEAN /\ st = [r |-> st.r, escape |-> st.escape]
  BY DEF UnescapeStates
<1>3. CASE st.escape = TRUE
  <2>1. st.r \o Unescaped(c) \in CharTexts
    BY <1>1, <1>2, Concatenated
  <2> QED
    BY <1>3, <2>1 DEF UnescapeStep, UnescapeStates
<1>4. CASE st.escape = FALSE /\ c = Esc
  BY <1>2, <1>4 DEF UnescapeStep, UnescapeStates
<1>5. CASE st.escape = FALSE /\ c # Esc
  <2>1. Append(st.r, c) \in CharTexts
    BY <1>2, AppendProperties DEF CharTexts
  <2> QED
    BY <1>2, <1>5, <2>1 DEF UnescapeStep, UnescapeStates
<1> QED
  BY <1>2, <1>3, <1>4, <1>5

\* The loop over the characters of a string.
LEMMA UnescapeSteps ==
    ASSUME NEW s \in CharTexts
    PROVE  /\ UnescapeLoop(s) \in [0..Len(s) -> UnescapeStates]
           /\ UnescapeLoop(s)[0] = [r |-> <<>>, escape |-> FALSE]
           /\ \A i \in 1..Len(s) : UnescapeLoop(s)[i] = UnescapeStep(UnescapeLoop(s)[i - 1], s[i])
           /\ unescapify(s) \in CharTexts
<1> DEFINE n == Len(s)
           start == [r |-> <<>>, escape |-> FALSE]
           Sol(st) == st = [i \in 0..n |-> IF i = 0 THEN start ELSE UnescapeStep(st[i - 1], s[i])]
           F == [p \in (1..n) \X UnescapeStates |-> UnescapeStep(p[2], s[p[1]])]
<1>0. n \in Nat
  BY TextFacts
<1>c. \A i \in 1..n : s[i] \in Char
  BY TextFacts
<1>1. start \in UnescapeStates
  BY EmptySeq DEF UnescapeStates, CharTexts
<1>2. F \in Steps(n, UnescapeStates)
  BY <1>c, UnescapedFacts DEF Steps
<1>3. PICK g \in [0..n -> UnescapeStates] :
          g[0] = start /\ \A i \in 1..n : g[i] = F[<<i, g[i - 1]>>]
  <2> HIDE DEF F, n, start
  <2> QED
    BY <1>0, <1>1, <1>2, Iterates
<1>4. \A i \in 1..n : g[i] = UnescapeStep(g[i - 1], s[i])
  <2> SUFFICES ASSUME NEW i \in 1..n PROVE g[i] = UnescapeStep(g[i - 1], s[i])
    OBVIOUS
  <2>1. i - 1 \in 0..n /\ g[i - 1] \in UnescapeStates
    BY <1>0
  <2>2. F[<<i, g[i - 1]>>] = UnescapeStep(g[i - 1], s[i])
    BY <2>1
  <2> QED
    BY <1>3, <2>2
<1>5. Sol(g)
  <2>1. \A i \in 0..n : i # 0 => i \in 1..n
    BY <1>0
  <2> HIDE DEF n, F, start
  <2> QED
    BY <1>3, <1>4, <2>1
<1>6. UnescapeLoop(s) = CHOOSE st : Sol(st)
  BY Zenon DEF UnescapeLoop
<1>7. Sol(UnescapeLoop(s))
  <2> HIDE DEF Sol
  <2> QED
    BY Zenon, <1>5, <1>6
<1> HIDE DEF F
<1> DEFINE U == UnescapeLoop(s)
           S == {i \in 0..n : U[i] = g[i]}
<1>8. \A i \in 0..n : U[i] = IF i = 0 THEN start ELSE UnescapeStep(U[i - 1], s[i])
  BY Zenon, <1>7
<1> HIDE DEF start
<1>9. 0..n \subseteq S
  <2> HIDE DEF U
  <2>1. 0 \in S
    BY <1>0, <1>3, <1>8
  <2>2. ASSUME NEW i \in 0..n, i \in S, i < n PROVE i + 1 \in S
    <3>1. i + 1 \in 0..n /\ i + 1 \in 1..n /\ i + 1 # 0 /\ i + 1 - 1 = i
      BY <1>0, <2>2
    <3>2. U[i + 1] = UnescapeStep(U[i], s[i + 1]) /\ g[i + 1] = UnescapeStep(g[i], s[i + 1])
      BY <1>4, <1>8, <3>1
    <3> QED
      BY <2>2, <3>1, <3>2
  <2>3. \A i \in 0..n : i \in S /\ i < n => i + 1 \in S
    BY <2>2
  <2> HIDE DEF S
  <2> QED
    BY <1>0, <2>1, <2>3, Ascend
<1>10. U \in [0..n -> UnescapeStates]
  <2>1. \A i \in 0..n : U[i] \in UnescapeStates
    BY <1>9
  <2>2. U = [i \in 0..n |-> U[i]]
    BY <1>7
  <2> HIDE DEF U
  <2> QED
    BY <2>1, <2>2
<1>11. n \in 0..n /\ 0 \in 0..n /\ \A i \in 1..n : i \in 0..n /\ i # 0
  BY <1>0
<1>12. unescapify(s) = U[n].r
  BY DEF unescapify
<1>13. U[n].r \in CharTexts
  <2> HIDE DEF U
  <2> QED
    BY <1>10, <1>11 DEF UnescapeStates
<1> QED
  BY <1>8, <1>10, <1>11, <1>12, <1>13 DEF start

LEMMA Unescapes ==
    ASSUME NEW s \in Seq(Char \ Dropped)
    PROVE  s \in CharTexts /\ unescapify(EscapedText(s)) = s
<1> DEFINE F == EscapedText(s)
           U == UnescapeLoop(F)
           n == Len(s)
           E == EscapedTexts(s)
<1>0. s \in CharTexts
  BY SeqMonotonic DEF CharTexts
<1>1. F \in CharTexts
  BY <1>0, QuotedParts
<1>2. /\ U \in [0..Len(F) -> UnescapeStates] /\ U[0] = [r |-> <<>>, escape |-> FALSE]
      /\ \A i \in 1..Len(F) : U[i] = UnescapeStep(U[i - 1], F[i])
  BY <1>1, UnescapeSteps
<1>3. /\ E \in Seq(CharTexts) /\ Len(E) = n /\ \A i \in 1..n : E[i] = EscapedChar(s[i])
  BY <1>0, EscapedTextsFacts
<1>4. PICK off \in [0..n -> Nat] :
          /\ off[0] = 0 /\ off[n] = Len(F)
          /\ \A i \in 1..n : off[i] = off[i - 1] + Len(E[i]) /\ Holds(F, off[i - 1], E[i])
  <2> HIDE DEF n, E
  <2>1. F = FlattenSeq(E)
    BY DEF E, F, EscapedText
  <2> HIDE DEF F
  <2> QED
    BY <1>3, <2>1, FlatTexts
<1>5. n \in Nat /\ Len(F) \in Nat /\ \A i \in 1..n : s[i] \in Char /\ s[i] \notin Dropped
  BY <1>0, <1>1, TextFacts, ElementOfSeq
<1>6. unescapify(F) = U[Len(F)].r
  BY DEF unescapify
<1> HIDE DEF F, U, n, E
<1> DEFINE Done(st, i) == /\ st.escape = FALSE /\ st.r \in CharTexts /\ Len(st.r) = i
                          /\ \A k \in 1..i : st.r[k] = s[k]
           S == {i \in 0..n : Done(U[off[i]], i)}
<1>7. 0 \in S
  <2>1. U[off[0]].escape = FALSE /\ U[off[0]].r = <<>>
    BY <1>2, <1>4
  <2> QED
    BY SMTT(60), <1>5, <2>1, EmptySeq DEF CharTexts
<1>8. ASSUME NEW i \in 0..n, i \in S, i < n PROVE i + 1 \in S
  <2> DEFINE j == i + 1
             p == off[i]
             c == s[j]
             r == U[p].r
  <2>1. j \in 1..n /\ j \in 0..n /\ j - 1 = i /\ i \in Nat
    BY <1>5, <1>8
  <2>2. /\ c \in Char /\ c \notin Dropped /\ E[j] = EscapedChar(c) /\ off[j] = p + Len(E[j])
        /\ Holds(F, p, E[j]) /\ p \in Nat
    BY <1>3, <1>4, <1>5, <2>1
  <2>3. p + Len(E[j]) <= Len(F) /\ \A k \in 1..Len(E[j]) : F[p + k] = E[j][k]
    BY <2>2 DEF Holds
  <2>4. Done(U[p], i)
    BY <1>8
  <2> HIDE DEF j, p, c
  <2>5. U[p].escape = FALSE /\ r \in CharTexts /\ Len(r) = i /\ \A k \in 1..i : r[k] = s[k]
    BY <2>4
  <2> HIDE DEF r
  <2>6. ASSUME NEW st, st.escape = FALSE, st.r = Append(r, c) PROVE Done(st, j)
    <3>1. /\ Append(r, c) \in CharTexts /\ Len(Append(r, c)) = i + 1
          /\ \A k \in 1..i : Append(r, c)[k] = r[k]
          /\ Append(r, c)[i + 1] = c
      BY <2>2, <2>5, AppendProperties DEF CharTexts
    <3>2. ASSUME NEW k \in 1..j PROVE st.r[k] = s[k]
      <4>1. k \in 1..i \/ k = i + 1
        BY <2>1
      <4> QED
        BY <2>5, <2>6, <3>1, <4>1 DEF c, j
    <3> QED
      BY <2>6, <3>1, <3>2 DEF j
  <2>7. CASE Len(E[j]) = 1 /\ E[j][1] = c /\ c # Esc
    <3>1. p + 1 \in 1..Len(F) /\ p + 1 - 1 = p /\ F[p + 1] = c
      BY <1>5, <2>2, <2>3, <2>7
    <3>2. U[p + 1] = UnescapeStep(U[p], c)
      BY <1>2, <2>2, <3>1
    <3>3. U[p + 1].escape = FALSE /\ U[p + 1].r = Append(r, c)
      <4> DEFINE st == U[p]
      <4>1. st \in UnescapeStates /\ st.escape = FALSE /\ st.r = r
        <5>1. p \in 0..Len(F)
          BY <1>5, <2>2, <2>3, <2>7
        <5> QED
          BY <1>2, <2>5, <5>1 DEF r
      <4> HIDE DEF st
      <4>2. UnescapeStep(st, c).escape = FALSE /\ UnescapeStep(st, c).r = Append(r, c)
        BY <2>7, <4>1 DEF UnescapeStep, UnescapeStates
      <4> QED
        BY <3>2, <4>2 DEF st
    <3>4. Done(U[off[j]], j)
      <4>1. off[j] = p + 1
        BY <2>2, <2>7
      <4> HIDE DEF Done
      <4> QED
        BY <2>6, <3>3, <4>1
    <3> QED
      BY <2>1, <3>4 DEF j
  <2>8. CASE Len(E[j]) = 2 /\ E[j][1] = Esc /\ Unescaped(E[j][2]) = <<c>>
    <3>1. /\ p + 1 \in 1..Len(F) /\ p + 1 - 1 = p /\ F[p + 1] = Esc
          /\ p + 2 \in 1..Len(F) /\ p + 2 - 1 = p + 1 /\ F[p + 2] = E[j][2]
          /\ p \in 0..Len(F)
      BY SMTT(60), <1>5, <2>2, <2>3, <2>8
    <3>2. U[p + 1] = UnescapeStep(U[p], Esc) /\ U[p + 2] = UnescapeStep(U[p + 1], E[j][2])
      BY SMTT(30), <1>2, <3>1
    <3>3. U[p + 1].escape = TRUE /\ U[p + 1].r = r
      <4> DEFINE st == U[p]
      <4>1. st \in UnescapeStates /\ st.escape = FALSE /\ st.r = r
        BY <1>2, <2>5, <3>1 DEF r
      <4> HIDE DEF st
      <4>2. UnescapeStep(st, Esc).escape = TRUE /\ UnescapeStep(st, Esc).r = r
        BY <4>1 DEF UnescapeStep, UnescapeStates
      <4> QED
        BY <3>2, <4>2 DEF st
    <3>4. U[p + 2].escape = FALSE /\ U[p + 2].r = Append(r, c)
      <4>1. r \o <<c>> = Append(r, c)
        BY <2>2, <2>5, AppendIsConcat DEF CharTexts
      <4>2. UnescapeStep(U[p + 1], E[j][2]).escape = FALSE
            /\ UnescapeStep(U[p + 1], E[j][2]).r = r \o <<c>>
        BY <2>8, <3>3 DEF UnescapeStep
      <4> QED
        BY <3>2, <4>1, <4>2
    <3>5. Done(U[off[j]], j)
      <4>1. off[j] = p + 2
        BY <2>2, <2>8
      <4> HIDE DEF Done
      <4> QED
        BY <2>6, <3>4, <4>1
    <3> QED
      BY <2>1, <3>5 DEF j
  <2> QED
    BY ZenonT(60), <2>2, <2>7, <2>8, EscapedFacts
<1>9. 0..n \subseteq S
  <2>1. \A i \in 0..n : i \in S /\ i < n => i + 1 \in S
    BY <1>8
  <2> HIDE DEF S
  <2> QED
    BY <1>5, <1>7, <2>1, Ascend
<1>10. Done(U[Len(F)], n)
  <2>1. n \in S
    BY <1>5, <1>9
  <2> HIDE DEF Done
  <2> QED
    BY <1>4, <2>1
<1>11. U[Len(F)].r = s
  BY <1>0, <1>10, SameText DEF n
<1> QED
  BY <1>0, <1>6, <1>11 DEF F

----------------------------------------------------------------------------
(* Cutting a text at separators.                                            *)

\* A part that grows by the next character.
LEMMA PartGrows ==
    ASSUME NEW s \in CharTexts, NEW a \in Nat, NEW e \in Nat, a <= e, e + 1 <= Len(s)
    PROVE  Append(SubSeq(s, a + 1, e), s[e + 1]) = SubSeq(s, a + 1, e + 1)
<1> DEFINE f == e + 1
           A == SubSeq(s, a + 1, e)
           B == SubSeq(s, a + 1, f)
           c == s[e + 1]
<1>0. Len(s) \in Nat /\ f \in Nat /\ a <= f /\ f <= Len(s) /\ e <= Len(s) /\ c \in Char
  BY TextFacts
<1>1. A \in CharTexts /\ Len(A) = e - a /\ \A k \in 1..(e - a) : A[k] = s[a + k]
  BY <1>0, PartOf
<1>2. B \in CharTexts /\ Len(B) = f - a /\ \A k \in 1..(f - a) : B[k] = s[a + k]
  <2> HIDE DEF f
  <2> QED
    BY <1>0, PartOf
<1> HIDE DEF A, B, c
<1>3. /\ Append(A, c) \in CharTexts /\ Len(Append(A, c)) = e - a + 1
      /\ \A k \in 1..(e - a) : Append(A, c)[k] = A[k]
      /\ Append(A, c)[e - a + 1] = c
  BY <1>0, <1>1, AppendProperties DEF CharTexts
<1>4. ASSUME NEW k \in 1..(f - a) PROVE Append(A, c)[k] = B[k]
  <2>1. k \in 1..(e - a) \/ (k = e - a + 1 /\ a + k = e + 1)
    BY <1>0
  <2> QED
    BY <1>1, <1>2, <1>3, <2>1 DEF c
<1>5. Append(A, c) = B
  <2>1. f - a = e - a + 1
    BY <1>0
  <2> QED
    BY <1>2, <1>3, <1>4, <2>1, SameText
<1> QED
  BY <1>5 DEF A, B, c

CutStates == {parts \in Seq(CharTexts) : parts # <<>>}

LEMMA CutFacts ==
    ASSUME NEW parts \in CutStates, NEW c \in Char, NEW cut
    PROVE  /\ CutStep(parts, c, cut) \in CutStates
           /\ Len(parts) \in Nat /\ Len(parts) >= 1 /\ \A j \in 1..Len(parts) : parts[j] \in CharTexts
           /\ \/ /\ cut
                 /\ Len(CutStep(parts, c, cut)) = Len(parts) + 1
                 /\ \A j \in 1..Len(parts) : CutStep(parts, c, cut)[j] = parts[j]
                 /\ CutStep(parts, c, cut)[Len(parts) + 1] = <<>>
              \/ /\ ~cut
                 /\ Len(CutStep(parts, c, cut)) = Len(parts)
                 /\ \A j \in 1..(Len(parts) - 1) : CutStep(parts, c, cut)[j] = parts[j]
                 /\ CutStep(parts, c, cut)[Len(parts)] = Append(parts[Len(parts)], c)
<1> DEFINE m == Len(parts)
<1>1. parts \in Seq(CharTexts) /\ m \in Nat /\ m >= 1 /\ \A j \in 1..m : parts[j] \in CharTexts
  <2>1. parts \in Seq(CharTexts) /\ parts # <<>>
    BY DEF CutStates
  <2>2. m \in Nat \ {0}
    BY <2>1, EmptySeq
  <2> QED
    BY <2>1, <2>2, ElementOfSeq
<1>2. CASE cut
  <2>1. CutStep(parts, c, cut) = Append(parts, <<>>)
    BY <1>2 DEF CutStep
  <2>2. <<>> \in CharTexts
    BY EmptySeq DEF CharTexts
  <2>3. /\ Append(parts, <<>>) \in Seq(CharTexts) /\ Append(parts, <<>>) # <<>>
        /\ Len(Append(parts, <<>>)) = m + 1
        /\ \A j \in 1..m : Append(parts, <<>>)[j] = parts[j]
        /\ Append(parts, <<>>)[m + 1] = <<>>
    BY <1>1, <2>2, AppendProperties
  <2> QED
    BY <1>1, <1>2, <2>1, <2>3 DEF CutStates
<1>3. CASE ~cut
  <2> DEFINE e == Append(parts[m], c)
             Q == [parts EXCEPT ![m] = e]
  <2>1. m \in 1..m /\ parts[m] \in CharTexts
    BY <1>1
  <2>2. e \in CharTexts
    BY <2>1, AppendProperties DEF CharTexts
  <2>3. CutStep(parts, c, cut) = Q
    BY <1>3 DEF CutStep
  <2> HIDE DEF m, e
  <2>4. Q \in Seq(CharTexts) /\ Len(Q) = m /\ \A j \in 1..m : Q[j] = IF j = m THEN e ELSE parts[j]
    BY <1>1, <2>1, <2>2, ExceptSeq DEF m
  <2> HIDE DEF Q
  <2>5. Q # <<>>
    BY <1>1, <2>4, EmptySeq
  <2>6. \A j \in 1..(m - 1) : j \in 1..m /\ j # m
    BY <1>1
  <2> QED
    BY <1>1, <1>3, <2>1, <2>3, <2>4, <2>5, <2>6 DEF CutStates, m, e
<1> QED
  BY <1>2, <1>3

LEMMA CutSame ==
    ASSUME NEW parts \in CutStates, NEW c \in Char, NEW cut, ~cut
    PROVE  /\ Len(CutStep(parts, c, cut)) = Len(parts)
           /\ \A j \in 1..(Len(parts) - 1) : CutStep(parts, c, cut)[j] = parts[j]
           /\ CutStep(parts, c, cut)[Len(parts)] = Append(parts[Len(parts)], c)
BY CutFacts

LEMMA CutSteps ==
    ASSUME NEW s \in CharTexts, NEW commas
    PROVE  /\ CutLoop(s, commas) \in [0..Len(s) -> CutStates]
           /\ CutLoop(s, commas)[0] = <<<<>>>>
           /\ \A i \in 1..Len(s) :
                 CutLoop(s, commas)[i] = CutStep(CutLoop(s, commas)[i - 1], s[i], i \in commas)
<1> DEFINE n == Len(s)
           start == <<<<>>>>
           Sol(st) == st = [i \in 0..n |-> IF i = 0 THEN start
                                           ELSE CutStep(st[i - 1], s[i], i \in commas)]
           F == [p \in (1..n) \X CutStates |-> CutStep(p[2], s[p[1]], p[1] \in commas)]
<1>0. n \in Nat
  BY TextFacts
<1>c. \A i \in 1..n : s[i] \in Char
  BY TextFacts
<1>1. start \in CutStates
  BY EmptySeq DEF CutStates, CharTexts
<1>2. F \in Steps(n, CutStates)
  BY <1>c, CutFacts DEF Steps
<1>3. PICK g \in [0..n -> CutStates] :
          g[0] = start /\ \A i \in 1..n : g[i] = F[<<i, g[i - 1]>>]
  <2> HIDE DEF F, n, start
  <2> QED
    BY <1>0, <1>1, <1>2, Iterates
<1>4. \A i \in 1..n : g[i] = CutStep(g[i - 1], s[i], i \in commas)
  <2> SUFFICES ASSUME NEW i \in 1..n PROVE g[i] = CutStep(g[i - 1], s[i], i \in commas)
    OBVIOUS
  <2>1. i - 1 \in 0..n /\ g[i - 1] \in CutStates
    BY <1>0
  <2>2. F[<<i, g[i - 1]>>] = CutStep(g[i - 1], s[i], i \in commas)
    BY <2>1
  <2> QED
    BY <1>3, <2>2
<1>5. Sol(g)
  <2>1. \A i \in 0..n : i # 0 => i \in 1..n
    BY <1>0
  <2> HIDE DEF n, F, start
  <2> QED
    BY <1>3, <1>4, <2>1
<1>6. CutLoop(s, commas) = CHOOSE st : Sol(st)
  BY Zenon DEF CutLoop
<1>7. Sol(CutLoop(s, commas))
  <2> HIDE DEF Sol
  <2> QED
    BY Zenon, <1>5, <1>6
<1> HIDE DEF F
<1> DEFINE U == CutLoop(s, commas)
           S == {i \in 0..n : U[i] = g[i]}
<1>8. \A i \in 0..n : U[i] = IF i = 0 THEN start ELSE CutStep(U[i - 1], s[i], i \in commas)
  BY Zenon, <1>7
<1> HIDE DEF start
<1>9. 0..n \subseteq S
  <2> HIDE DEF U
  <2>1. 0 \in S
    BY <1>0, <1>3, <1>8
  <2>2. ASSUME NEW i \in 0..n, i \in S, i < n PROVE i + 1 \in S
    <3> DEFINE j == i + 1
    <3>1. j \in 0..n /\ j \in 1..n /\ j # 0 /\ j - 1 = i
      BY <1>0, <2>2
    <3> HIDE DEF j
    <3>2. /\ U[j] = CutStep(U[i], s[j], j \in commas)
          /\ g[j] = CutStep(g[i], s[j], j \in commas)
      BY <1>4, <1>8, <3>1
    <3>3. U[j] = g[j]
      BY Zenon, <2>2, <3>2
    <3> QED
      BY <3>1, <3>3 DEF j
  <2>3. \A i \in 0..n : i \in S /\ i < n => i + 1 \in S
    BY <2>2
  <2> HIDE DEF S
  <2> QED
    BY <1>0, <2>1, <2>3, Ascend
<1>10. U \in [0..n -> CutStates]
  <2>1. \A i \in 0..n : U[i] \in CutStates
    BY <1>9
  <2>2. U = [i \in 0..n |-> U[i]]
    BY <1>7
  <2> HIDE DEF U
  <2> QED
    BY <2>1, <2>2
<1>11. 0 \in 0..n /\ \A i \in 1..n : i \in 0..n /\ i # 0
  BY <1>0
<1> QED
  BY Zenon, <1>8, <1>10, <1>11 DEF start

\* Where the parts are that a text is cut into: part j is what is between the
\* places b[j - 1] and b[j], and the places between the two ends are the separators.
CutAt(s, commas, parts, b) ==
    /\ parts \in Seq(CharTexts) /\ Len(parts) \in Nat /\ Len(parts) >= 1
    /\ b \in [0..Len(parts) -> Nat] /\ b[0] = 0 /\ b[Len(parts)] = Len(s) + 1
    /\ \A j \in 1..Len(parts) :
          b[j - 1] < b[j] /\ parts[j] = SubSeq(s, b[j - 1] + 1, b[j] - 1)
    /\ \A j \in 1..(Len(parts) - 1) : b[j] \in commas
    /\ \A x \in commas : \E j \in 1..(Len(parts) - 1) : x = b[j]

LEMMA CutPlaces ==
    ASSUME NEW s \in CharTexts, NEW commas, commas \subseteq 1..Len(s)
    PROVE  \E b : CutAt(s, commas, Cut(s, commas), b)
<1> DEFINE U == CutLoop(s, commas)
           n == Len(s)
           Upto(i, b) ==
             /\ b \in [0..Len(U[i]) -> Nat] /\ b[0] = 0 /\ b[Len(U[i])] = i + 1
             /\ \A j \in 1..Len(U[i]) :
                   b[j - 1] < b[j] /\ U[i][j] = SubSeq(s, b[j - 1] + 1, b[j] - 1)
             /\ \A j \in 1..(Len(U[i]) - 1) : b[j] \in commas
             /\ \A x \in commas : x <= i => \E j \in 1..(Len(U[i]) - 1) : x = b[j]
           S == {i \in 0..n : \E b : Upto(i, b)}
<1>0. n \in Nat /\ \A i \in 1..n : s[i] \in Char
  BY TextFacts
<1>1. /\ U \in [0..n -> CutStates] /\ U[0] = <<<<>>>>
      /\ \A i \in 1..n : U[i] = CutStep(U[i - 1], s[i], i \in commas)
  BY CutSteps
<1> HIDE DEF U
<1>2. 0 \in S
  <2> DEFINE b == [j \in 0..1 |-> j]
  <2>1. Len(U[0]) = 1 /\ U[0][1] = <<>>
    BY <1>1
  <2>2. SubSeq(s, 0 + 1, 1 - 1) = <<>>
    BY SubSeqEmpty
  <2>3. b \in [0..1 -> Nat] /\ b[0] = 0 /\ b[1] = 0 + 1
    OBVIOUS
  <2>4. \A j \in 1..1 : b[j - 1] < b[j] /\ U[0][j] = SubSeq(s, b[j - 1] + 1, b[j] - 1)
    <3> HIDE DEF b
    <3>1. b[1 - 1] = 0 /\ b[1] = 1
      BY <2>3
    <3>2. b[1 - 1] < b[1] /\ U[0][1] = SubSeq(s, b[1 - 1] + 1, b[1] - 1)
      BY <2>1, <2>2, <3>1
    <3> QED
      BY <3>2
  <2>5. Upto(0, b)
    <3>1. \A x \in commas : ~(x <= 0)
      BY <1>0
    <3> HIDE DEF b
    <3> QED
      BY <2>1, <2>3, <2>4, <3>1
  <2> HIDE DEF Upto, b
  <2> QED
    BY <1>0, <2>5
<1>3. ASSUME NEW i \in 0..n, i \in S, i < n PROVE i + 1 \in S
  <2> DEFINE k == i + 1
             P == U[i]
             R == U[k]
             m == Len(P)
  <2>1. k \in 1..n /\ k \in 0..n /\ k - 1 = i /\ i \in Nat /\ k \in Nat
    BY <1>0, <1>3
  <2>2. PICK b : Upto(i, b)
    BY <1>3
  <2>3. P \in CutStates /\ R = CutStep(P, s[k], k \in commas) /\ s[k] \in Char
    <3> HIDE DEF k
    <3> QED
      BY <1>0, <1>1, <2>1
  <2>4. /\ b \in [0..m -> Nat] /\ b[0] = 0 /\ b[m] = k
        /\ \A j \in 1..m : b[j - 1] < b[j] /\ P[j] = SubSeq(s, b[j - 1] + 1, b[j] - 1)
        /\ \A j \in 1..(m - 1) : b[j] \in commas
        /\ \A x \in commas : x <= i => \E j \in 1..(m - 1) : x = b[j]
    BY <2>2
  <2> HIDE DEF k, P, R
  <2>5. m \in Nat /\ m >= 1 /\ \A j \in 1..m : P[j] \in CharTexts
    BY <2>3, CutFacts
  <2>6. \A x \in commas : x <= k => x <= i \/ x = k
    BY <1>0, <2>1
  <2>7. CASE k \in commas
    <3>1. Len(R) = m + 1 /\ (\A j \in 1..m : R[j] = P[j]) /\ R[m + 1] = <<>>
      BY <2>3, <2>7, CutFacts
    <3> HIDE DEF m
    <3> DEFINE l == m + 1
               d == [j \in 0..l |-> IF j = l THEN k + 1 ELSE b[j]]
    <3>2. l \in Nat /\ l - 1 = m /\ l \in 0..l /\ \A j \in 0..m : j \in 0..l /\ j # l
      BY <2>5
    <3>3. d \in [0..l -> Nat] /\ d[0] = 0 /\ d[l] = k + 1 /\ \A j \in 0..m : d[j] = b[j]
      <4>1. \A j \in 0..l : j = l \/ j \in 0..m
        BY <2>5
      <4>2. 0 \in 0..m
        BY <2>5
      <4> HIDE DEF l
      <4>3. d \in [0..l -> Nat]
        BY <2>1, <2>4, <4>1
      <4> QED
        BY <2>4, <3>2, <4>2, <4>3
    <3> HIDE DEF d
    <3>4. ASSUME NEW j \in 1..l
          PROVE  d[j - 1] < d[j] /\ R[j] = SubSeq(s, d[j - 1] + 1, d[j] - 1)
      <4>1. CASE j = l
        <5>1. d[j - 1] = k /\ d[j] = k + 1
          <6>1. m \in 0..m
            BY <2>5
          <6> QED
            BY <2>4, <3>2, <3>3, <4>1, <6>1
        <5>2. SubSeq(s, k + 1, (k + 1) - 1) = <<>>
          BY <2>1, SubSeqEmpty
        <5>3. k < k + 1
          BY <2>1
        <5>4. R[j] = <<>>
          BY <3>1, <4>1
        <5> QED
          BY Zenon, <5>1, <5>2, <5>3, <5>4
      <4>2. CASE j # l
        <5>1. j \in 1..m /\ j \in 0..m /\ j - 1 \in 0..m
          BY <2>5, <4>2
        <5>2. d[j] = b[j] /\ d[j - 1] = b[j - 1] /\ R[j] = P[j]
          BY <3>1, <3>3, <5>1
        <5>3. b[j - 1] < b[j] /\ P[j] = SubSeq(s, b[j - 1] + 1, b[j] - 1)
          BY <2>4, <5>1
        <5> QED
          BY Zenon, <5>2, <5>3
      <4> QED
        BY <4>1, <4>2
    <3>5. \A j \in 1..(l - 1) : d[j] \in commas
      <4>1. ASSUME NEW j \in 1..m PROVE d[j] \in commas
        <5>1. j \in 1..(m - 1) \/ j = m
          BY <2>5
        <5>2. j \in 0..m
          BY <2>5
        <5> QED
          BY <2>4, <2>7, <3>3, <5>1, <5>2
      <4> QED
        BY <3>2, <4>1
    <3>6. ASSUME NEW x \in commas, x <= k PROVE \E j \in 1..(l - 1) : x = d[j]
      <4>1. CASE x = k
        <5>1. m \in 1..(l - 1) /\ m \in 0..m
          BY <2>5
        <5> QED
          BY <2>4, <3>3, <4>1, <5>1
      <4>2. CASE x <= i
        <5>1. PICK j \in 1..(m - 1) : x = b[j]
          BY <2>4, <4>2
        <5>2. j \in 0..m /\ j \in 1..(l - 1)
          BY <2>5
        <5> QED
          BY <3>3, <5>1, <5>2
      <4> QED
        BY <2>6, <3>6, <4>1, <4>2
    <3>7. Upto(k, d)
      <4> HIDE DEF l
      <4>1. Len(U[k]) = l
        BY <3>1 DEF l, R
      <4> QED
        BY <3>3, <3>4, <3>5, <3>6, <4>1 DEF R
    <3> HIDE DEF Upto
    <3> QED
      BY <2>1, <3>7 DEF k
  <2>8. CASE ~(k \in commas)
    <3>1. Len(R) = m /\ (\A j \in 1..(m - 1) : R[j] = P[j]) /\ R[m] = Append(P[m], s[k])
      <4> DEFINE cut == k \in commas
                 c == s[k]
      <4>1. R = CutStep(P, c, cut) /\ ~cut /\ P \in CutStates /\ c \in Char
        BY <2>3, <2>8
      <4> HIDE DEF cut, c, m
      <4>2. /\ Len(CutStep(P, c, cut)) = Len(P)
            /\ \A j \in 1..(Len(P) - 1) : CutStep(P, c, cut)[j] = P[j]
            /\ CutStep(P, c, cut)[Len(P)] = Append(P[Len(P)], c)
        BY <4>1, CutSame
      <4> QED
        BY Zenon, <4>1, <4>2 DEF c, m
    <3> HIDE DEF m
    <3> DEFINE d == [j \in 0..m |-> IF j = m THEN k + 1 ELSE b[j]]
    <3>2. d \in [0..m -> Nat] /\ d[0] = 0 /\ d[m] = k + 1 /\ \A j \in 0..(m - 1) : d[j] = b[j]
      <4>1. d \in [0..m -> Nat]
        BY <2>1, <2>4
      <4>2. 0 \in 0..m /\ 0 # m /\ m \in 0..m /\ \A j \in 0..(m - 1) : j \in 0..m /\ j # m
        BY <2>5
      <4> QED
        BY <2>4, <4>1, <4>2
    <3> HIDE DEF d
    <3>3. ASSUME NEW j \in 1..m
          PROVE  d[j - 1] < d[j] /\ R[j] = SubSeq(s, d[j - 1] + 1, d[j] - 1)
      <4>1. CASE j = m
        <5> DEFINE a == b[m - 1]
        <5>1. d[j - 1] = a /\ d[j] = k + 1 /\ a \in Nat /\ a < k /\ P[m] = SubSeq(s, a + 1, k - 1)
          <6>1. m - 1 \in 0..(m - 1) /\ m - 1 \in 0..m /\ m \in 1..m
            BY <2>5
          <6> QED
            BY <2>4, <3>2, <4>1, <6>1
        <5> HIDE DEF a
        <5>2. Append(SubSeq(s, a + 1, i), s[i + 1]) = SubSeq(s, a + 1, i + 1)
          <6>1. a <= i /\ i + 1 <= Len(s)
            BY <1>0, <2>1, <5>1
          <6> QED
            BY <2>1, <5>1, <6>1, PartGrows
        <5>3. R[m] = SubSeq(s, a + 1, k)
          BY <2>1, <3>1, <5>1, <5>2 DEF k
        <5>4. (k + 1) - 1 = k /\ a < k + 1
          BY <2>1, <5>1
        <5> QED
          BY Zenon, <4>1, <5>1, <5>3, <5>4
      <4>2. CASE j # m
        <5>1. j \in 1..(m - 1) /\ j \in 0..(m - 1) /\ j - 1 \in 0..(m - 1) /\ j \in 1..m
          BY <2>5, <4>2
        <5>2. d[j] = b[j] /\ d[j - 1] = b[j - 1] /\ R[j] = P[j]
          BY <3>1, <3>2, <5>1
        <5>3. b[j - 1] < b[j] /\ P[j] = SubSeq(s, b[j - 1] + 1, b[j] - 1)
          BY <2>4, <5>1
        <5> QED
          BY Zenon, <5>2, <5>3
      <4> QED
        BY <4>1, <4>2
    <3>4. \A j \in 1..(m - 1) : d[j] \in commas
      <4>1. \A j \in 1..(m - 1) : j \in 0..(m - 1)
        OBVIOUS
      <4> QED
        BY <2>4, <3>2, <4>1
    <3>5. ASSUME NEW x \in commas, x <= k PROVE \E j \in 1..(m - 1) : x = d[j]
      <4>1. x <= i
        BY <2>6, <2>8, <3>5
      <4>2. PICK j \in 1..(m - 1) : x = b[j]
        BY <2>4, <4>1
      <4>3. j \in 0..(m - 1)
        OBVIOUS
      <4> QED
        BY <3>2, <4>2, <4>3
    <3>6. Upto(k, d)
      <4>1. Len(U[k]) = m
        BY <3>1 DEF R
      <4> QED
        BY <3>2, <3>3, <3>4, <3>5, <4>1 DEF R
    <3> HIDE DEF Upto
    <3> QED
      BY <2>1, <3>6 DEF k
  <2> QED
    BY <2>7, <2>8
<1>4. 0..n \subseteq S
  <2>1. \A i \in 0..n : i \in S /\ i < n => i + 1 \in S
    BY <1>3
  <2> HIDE DEF S
  <2> QED
    BY <1>0, <1>2, <2>1, Ascend
<1>5. PICK b : Upto(n, b)
  <2> HIDE DEF Upto
  <2>1. n \in 0..n
    BY <1>0
  <2> QED
    BY <1>4, <2>1
<1>6. Cut(s, commas) = U[n] /\ U[n] \in CutStates
  <2>1. n \in 0..n
    BY <1>0
  <2> QED
    BY <1>1, <2>1 DEF Cut, U
<1>7. /\ U[n] \in Seq(CharTexts) /\ Len(U[n]) \in Nat /\ Len(U[n]) >= 1
  <2>1. U[n] \in Seq(CharTexts) /\ U[n] # <<>>
    BY <1>6 DEF CutStates
  <2>2. Len(U[n]) \in Nat \ {0}
    BY <2>1, EmptySeq
  <2> QED
    BY <2>1, <2>2
<1>8. \A x \in commas : x <= n
  BY <1>0
<1>9. CutAt(s, commas, U[n], b)
  BY <1>5, <1>7, <1>8 DEF CutAt
<1> QED
  BY <1>6, <1>9

\* Numbers of which each is less than the next one are in order.
LEMMA Increasing ==
    ASSUME NEW n \in Nat, NEW f \in [0..n -> Nat], \A j \in 1..n : f[j - 1] < f[j]
    PROVE  \A i, j \in 0..n : i < j <=> f[i] < f[j]
<1>1. ASSUME NEW i \in 0..n, NEW j \in 0..n, i < j PROVE f[i] < f[j]
  <2> DEFINE S == {k \in (i + 1)..n : f[i] < f[k]}
  <2>0. i + 1 \in Nat /\ i + 1 \in 1..n /\ i + 1 \in (i + 1)..n /\ j \in (i + 1)..n /\ (i + 1) - 1 = i
    BY <1>1
  <2>1. i + 1 \in S
    BY <2>0
  <2>2. ASSUME NEW k \in (i + 1)..n, k \in S, k < n PROVE k + 1 \in S
    <3>1. k + 1 \in 1..n /\ k + 1 \in (i + 1)..n /\ (k + 1) - 1 = k /\ k \in 0..n /\ k + 1 \in 0..n
      BY <2>0, <2>2
    <3>2. f[k] < f[k + 1]
      BY <3>1
    <3>3. f[i] < f[k] /\ f[i] \in Nat /\ f[k] \in Nat /\ f[k + 1] \in Nat
      BY <2>2, <3>1
    <3>4. f[i] < f[k + 1]
      BY SMTT(60), <3>2, <3>3
    <3> QED
      BY <3>1, <3>4
  <2>3. (i + 1)..n \subseteq S
    <3>1. \A k \in (i + 1)..n : k \in S /\ k < n => k + 1 \in S
      BY <2>2
    <3> HIDE DEF S
    <3> QED
      BY <2>0, <2>1, <3>1, Ascend
  <2> QED
    BY <2>0, <2>3
<1>2. ASSUME NEW i \in 0..n, NEW j \in 0..n, f[i] < f[j] PROVE i < j
  <2>1. f[i] \in Nat /\ f[j] \in Nat
    OBVIOUS
  <2>2. CASE j < i
    <3>1. f[j] < f[i]
      BY <1>1, <2>2
    <3> QED
      BY <1>2, <2>1, <3>1
  <2>3. CASE i = j
    BY <1>2, <2>1, <2>3
  <2> QED
    BY <2>2, <2>3
<1> QED
  BY <1>1, <1>2

LEMMA CutUnique ==
    ASSUME NEW s \in CharTexts, NEW commas, NEW P, NEW b, NEW W, NEW d,
           CutAt(s, commas, P, b), CutAt(s, commas, W, d)
    PROVE  P = W
<1> DEFINE m == Len(P)
           n == Len(W)
           z == Len(s) + 1
<1>0. z \in Nat
  BY TextFacts
<1>1. /\ P \in Seq(CharTexts) /\ m \in Nat /\ m >= 1
      /\ b \in [0..m -> Nat] /\ b[0] = 0 /\ b[m] = z
      /\ \A j \in 1..m : b[j - 1] < b[j] /\ P[j] = SubSeq(s, b[j - 1] + 1, b[j] - 1)
      /\ \A j \in 1..(m - 1) : b[j] \in commas
      /\ \A x \in commas : \E j \in 1..(m - 1) : x = b[j]
  BY DEF CutAt
<1>2. /\ W \in Seq(CharTexts) /\ n \in Nat /\ n >= 1
      /\ d \in [0..n -> Nat] /\ d[0] = 0 /\ d[n] = z
      /\ \A j \in 1..n : d[j - 1] < d[j] /\ W[j] = SubSeq(s, d[j - 1] + 1, d[j] - 1)
      /\ \A j \in 1..(n - 1) : d[j] \in commas
      /\ \A x \in commas : \E j \in 1..(n - 1) : x = d[j]
  BY DEF CutAt
<1> HIDE DEF m, n, z
<1>3. \A i, j \in 0..m : i < j <=> b[i] < b[j]
  BY <1>1, Increasing
<1>4. \A i, j \in 0..n : i < j <=> d[i] < d[j]
  BY <1>2, Increasing
<1> DEFINE S == {j \in 0..m : j <= n /\ b[j] = d[j]}
<1>5. 0 \in S
  BY <1>1, <1>2
<1>6. ASSUME NEW j \in 0..m, j \in S, j < m PROVE j + 1 \in S
  <2> DEFINE k == j + 1
  <2>1. k \in 1..m /\ k \in 0..m /\ m \in 0..m /\ j \in 0..n /\ n \in 0..n /\ j \in Nat /\ j < k
    BY <1>1, <1>2, <1>6
  <2>2. b[j] = d[j] /\ b[j] < z
    BY <1>1, <1>3, <1>6, <2>1
  <2>3. j < n
    <3>1. d[j] < d[n]
      BY <1>2, <2>2
    <3> QED
      BY <1>4, <2>1, <3>1
  <2>4. k \in 1..n /\ k \in 0..n
    BY <1>2, <2>1, <2>3
  <2>5. b[k] \in Nat /\ d[k] \in Nat /\ j < k
    <3> HIDE DEF k
    <3> QED
      BY <1>1, <1>2, <2>1, <2>4
  <2> HIDE DEF k
  <2>6. ~(b[k] < d[k])
    <3> SUFFICES ASSUME b[k] < d[k] PROVE FALSE
      OBVIOUS
    <3>1. CASE k = m
      <4>1. z < d[k] /\ d[n] = z
        BY <1>1, <1>2, <3>1
      <4>2. n < k
        BY <1>4, <2>1, <2>4, <4>1
      <4> QED
        BY <1>2, <2>4, <4>2
    <3>2. CASE k # m
      <4>1. k \in 1..(m - 1)
        BY <1>1, <2>1, <3>2
      <4>2. PICK i \in 1..(n - 1) : b[k] = d[i]
        BY <1>1, <1>2, <4>1
      <4>3. i \in 0..n
        BY <1>2
      <4>4. d[j] < d[i]
        BY <1>3, <2>1, <2>2, <2>5, <4>2
      <4>5. j < i /\ i < k
        BY <1>4, <2>1, <2>4, <4>2, <4>3, <4>4
      <4> QED
        BY <2>1, <4>3, <4>5 DEF k
    <3> QED
      BY <3>1, <3>2
  <2>7. ~(d[k] < b[k])
    <3> SUFFICES ASSUME d[k] < b[k] PROVE FALSE
      OBVIOUS
    <3>1. CASE k = n
      <4>1. z < b[k] /\ b[m] = z
        BY <1>1, <1>2, <3>1
      <4>2. m < k
        BY <1>3, <2>1, <4>1
      <4> QED
        BY <1>1, <2>1, <4>2
    <3>2. CASE k # n
      <4>1. k \in 1..(n - 1)
        BY <1>2, <2>4, <3>2
      <4>2. PICK i \in 1..(m - 1) : d[k] = b[i]
        BY <1>1, <1>2, <4>1
      <4>3. i \in 0..m
        BY <1>1
      <4>4. b[j] < b[i]
        BY <1>4, <2>1, <2>2, <2>4, <2>5, <4>2
      <4>5. j < i /\ i < k
        BY <1>3, <2>1, <4>2, <4>3, <4>4
      <4> QED
        BY <2>1, <4>3, <4>5 DEF k
    <3> QED
      BY <3>1, <3>2
  <2>8. b[k] = d[k] /\ k <= n
    BY <2>4, <2>5, <2>6, <2>7
  <2>9. k \in S
    BY <2>1, <2>8
  <2> QED
    BY <2>9 DEF k
<1>7. 0..m \subseteq S
  <2>1. \A j \in 0..m : j \in S /\ j < m => j + 1 \in S
    BY <1>6
  <2> HIDE DEF S
  <2> QED
    BY <1>1, <1>5, <2>1, Ascend
<1>8. m = n
  <2>1. m \in 0..m /\ n \in 0..n
    BY <1>1, <1>2
  <2>2. m <= n /\ d[m] = d[n]
    BY <1>1, <1>2, <1>7, <2>1
  <2>3. ~(m < n)
    <3>1. m \in 0..n
      BY <1>1, <1>2, <2>2
    <3>2. ~(d[m] < d[n])
      BY <1>2, <2>1, <2>2
    <3> QED
      BY <1>4, <2>1, <3>1, <3>2
  <2> QED
    BY <1>1, <1>2, <2>2, <2>3
<1>9. ASSUME NEW j \in 1..m PROVE P[j] = W[j]
  <2>1. j \in 0..m /\ j - 1 \in 0..m
    BY <1>1
  <2>2. b[j] = d[j] /\ b[j - 1] = d[j - 1]
    BY <1>7, <2>1
  <2>3. P[j] = SubSeq(s, b[j - 1] + 1, b[j] - 1) /\ W[j] = SubSeq(s, d[j - 1] + 1, d[j] - 1)
    BY <1>1, <1>2, <1>8
  <2> QED
    BY Zenon, <2>2, <2>3
<1> QED
  BY <1>1, <1>2, <1>8, <1>9, SeqEqual DEF m, n

----------------------------------------------------------------------------
(* Whitespace.                                                              *)

LEMMA Least ==
    ASSUME NEW T, T \subseteq Nat, T # {}
    PROVE  Min(T) \in T /\ \A y \in T : Min(T) <= y
<1>1. \E x \in T : \A y \in T : x <= y
  BY LeastElement
<1> QED
  BY <1>1 DEF Min

LEMMA Greatest ==
    ASSUME NEW n \in Nat, NEW T, T \subseteq 0..n, T # {}
    PROVE  Max(T) \in T /\ \A y \in T : y <= Max(T)
<1> DEFINE Z == {n - y : y \in T}
<1>1. Z \subseteq Nat /\ Z # {}
  <2>1. ASSUME NEW z \in Z PROVE z \in Nat
    <3>1. PICK y \in T : z = n - y
      OBVIOUS
    <3>2. y \in 0..n
      OBVIOUS
    <3> QED
      BY <3>1, <3>2
  <2>2. PICK y \in T : TRUE
    OBVIOUS
  <2>3. n - y \in Z
    OBVIOUS
  <2> QED
    BY <2>1, <2>3
<1>2. PICK z \in Z : \A y \in Z : z <= y
  <2> HIDE DEF Z
  <2> QED
    BY <1>1, LeastElement
<1>3. PICK x \in T : z = n - x
  BY <1>2
<1>4. ASSUME NEW y \in T PROVE y <= x
  <2>1. n - y \in Z /\ y \in 0..n /\ x \in 0..n
    OBVIOUS
  <2>2. n - x <= n - y
    BY <1>2, <1>3, <2>1
  <2> QED
    BY <2>1, <2>2
<1>5. \E u \in T : \A y \in T : u >= y
  <2>1. \A y \in T : x >= y
    <3> SUFFICES ASSUME NEW y \in T PROVE x >= y
      OBVIOUS
    <3>1. y <= x /\ y \in 0..n /\ x \in 0..n
      BY <1>4
    <3> QED
      BY <3>1
  <2> QED
    BY <2>1
<1>6. Max(T) \in T /\ \A y \in T : Max(T) >= y
  BY <1>5 DEF Max
<1>7. ASSUME NEW y \in T PROVE y <= Max(T)
  <2>1. Max(T) >= y /\ y \in 0..n /\ Max(T) \in 0..n
    BY <1>6
  <2> QED
    BY <2>1
<1> QED
  BY <1>6, <1>7

\* The first character that is no whitespace is at lo, and the last at hi.
Stripped(s, lo, hi) ==
    /\ lo <= hi /\ strip(s) = SubSeq(s, lo, hi) /\ s[lo] # "ws" /\ s[hi] # "ws"
    /\ Len(strip(s)) = (hi - lo) + 1
    /\ \A k \in 1..((hi - lo) + 1) : strip(s)[k] = s[(lo + k) - 1]
    /\ \A i \in 1..Len(s) : i < lo \/ hi < i => s[i] = "ws"

LEMMA StripFacts ==
    ASSUME NEW s \in CharTexts
    PROVE  /\ strip(s) \in CharTexts /\ Len(strip(s)) <= Len(s)
           /\ \/ strip(s) = <<>> /\ \A i \in 1..Len(s) : s[i] = "ws"
              \/ \E lo, hi \in 1..Len(s) : Stripped(s, lo, hi)
<1> DEFINE Ink == {i \in 1..Len(s) : s[i] # "ws"}
<1>0. Len(s) \in Nat /\ DOMAIN s = 1..Len(s)
  BY TextFacts
<1>1. strip(s) = IF Ink = {} THEN <<>> ELSE SubSeq(s, Min(Ink), Max(Ink))
  BY Zenon, <1>0 DEF strip
<1>2. CASE Ink = {}
  <2>1. strip(s) = <<>>
    BY <1>1, <1>2
  <2>2. \A i \in 1..Len(s) : s[i] = "ws"
    BY <1>2
  <2>3. <<>> \in CharTexts /\ Len(<<>>) = 0
    BY EmptySeq DEF CharTexts
  <2> QED
    BY <1>0, <2>1, <2>2, <2>3
<1>3. CASE Ink # {}
  <2> DEFINE lo == Min(Ink)
             hi == Max(Ink)
  <2>1. lo \in Ink /\ \A y \in Ink : lo <= y
    <3>1. Ink \subseteq Nat
      OBVIOUS
    <3> HIDE DEF Ink
    <3> QED
      BY <1>3, <3>1, Least
  <2>2. hi \in Ink /\ \A y \in Ink : y <= hi
    <3>1. Ink \subseteq 0..Len(s)
      BY <1>0
    <3> HIDE DEF Ink
    <3> QED
      BY <1>0, <1>3, <3>1, Greatest
  <2>3. strip(s) = SubSeq(s, lo, hi)
    BY <1>1, <1>3
  <2> HIDE DEF lo, hi
  <2>4. lo \in 1..Len(s) /\ hi \in 1..Len(s) /\ lo <= hi /\ s[lo] # "ws" /\ s[hi] # "ws"
    BY <2>1, <2>2
  <2>5. ASSUME NEW i \in 1..Len(s), i < lo \/ hi < i PROVE s[i] = "ws"
    <3>1. i \notin Ink
      BY <2>1, <2>2, <2>4, <2>5
    <3> QED
      BY <3>1
  <2> HIDE DEF Ink
  <2> DEFINE a == lo - 1
  <2>6. a \in Nat /\ a + 1 = lo /\ hi \in Nat /\ hi <= Len(s) /\ a <= hi /\ hi - a = (hi - lo) + 1
    BY <1>0, <2>4
  <2> HIDE DEF a
  <2>7. /\ SubSeq(s, a + 1, hi) \in CharTexts /\ Len(SubSeq(s, a + 1, hi)) = hi - a
        /\ \A k \in 1..(hi - a) : SubSeq(s, a + 1, hi)[k] = s[a + k]
    BY <2>6, PartOf
  <2> DEFINE V == strip(s)
  <2>8. V = SubSeq(s, a + 1, hi)
    BY <2>3, <2>6
  <2> HIDE DEF V
  <2>9. V \in CharTexts /\ Len(V) = (hi - lo) + 1 /\ Len(V) <= Len(s)
    BY <1>0, <2>4, <2>6, <2>7, <2>8
  <2>10. ASSUME NEW k \in 1..((hi - lo) + 1) PROVE V[k] = s[(lo + k) - 1]
    <3>1. k \in 1..(hi - a) /\ a + k = (lo + k) - 1
      BY <2>4, <2>6
    <3> QED
      BY <2>7, <2>8, <3>1
  <2>11. Stripped(s, lo, hi)
    BY <2>3, <2>4, <2>5, <2>9, <2>10 DEF V, Stripped
  <2>12. strip(s) \in CharTexts /\ Len(strip(s)) <= Len(s)
    BY <2>9 DEF V
  <2> QED
    BY Zenon, <2>4, <2>11, <2>12
<1> QED
  BY <1>2, <1>3

\* Stripping leaves a text that whitespace surrounds.
LEMMA StripTo ==
    ASSUME NEW s \in CharTexts, NEW V \in CharTexts, Len(V) >= 1, V[1] # "ws", V[Len(V)] # "ws",
           NEW a, Holds(s, a, V),
           \A i \in 1..Len(s) : i <= a \/ a + Len(V) < i => s[i] = "ws"
    PROVE  strip(s) = V
<1>0. /\ Len(s) \in Nat /\ Len(V) \in Nat /\ a \in Nat /\ a + Len(V) <= Len(s)
      /\ \A k \in 1..Len(V) : s[a + k] = V[k]
  BY TextFacts DEF Holds
<1> DEFINE n == Len(V)
<1>1. a + 1 \in 1..Len(s) /\ a + n \in 1..Len(s) /\ 1 \in 1..n /\ n \in 1..n
  BY <1>0
<1>2. s[a + 1] # "ws" /\ s[a + n] # "ws"
  BY <1>0, <1>1
<1>3. ~(strip(s) = <<>> /\ \A i \in 1..Len(s) : s[i] = "ws")
  BY <1>1, <1>2
<1>4. PICK lo \in 1..Len(s), hi \in 1..Len(s) : Stripped(s, lo, hi)
  BY <1>3, StripFacts
<1>5. lo = a + 1
  <2>1. ~(lo <= a)
    BY <1>4 DEF Stripped
  <2>2. ~(a + 1 < lo)
    BY <1>1, <1>2, <1>4 DEF Stripped
  <2> QED
    BY <1>0, <2>1, <2>2
<1>6. hi = a + n
  <2>1. ~(a + n < hi)
    BY <1>4 DEF Stripped
  <2>2. ~(hi < a + n)
    BY <1>1, <1>2, <1>4 DEF Stripped
  <2> QED
    BY SMTT(60), <1>0, <2>1, <2>2
<1>7. SubSeq(s, a + 1, a + n) = V
  BY HeldPart
<1> QED
  BY <1>4, <1>5, <1>6, <1>7 DEF Stripped

\* And it keeps the first character that is no whitespace.
LEMMA StripFrom ==
    ASSUME NEW s \in CharTexts, NEW a \in Nat, a < Len(s), s[a + 1] # "ws",
           \A i \in 1..a : s[i] = "ws"
    PROVE  strip(s) # <<>> /\ strip(s)[1] = s[a + 1]
<1>0. Len(s) \in Nat /\ a + 1 \in 1..Len(s)
  BY TextFacts
<1>3. ~(strip(s) = <<>> /\ \A i \in 1..Len(s) : s[i] = "ws")
  BY <1>0
<1>4. PICK lo \in 1..Len(s), hi \in 1..Len(s) : Stripped(s, lo, hi)
  BY <1>3, StripFacts
<1>5. lo = a + 1
  <2>1. ~(lo <= a)
    BY <1>4 DEF Stripped
  <2>2. ~(a + 1 < lo)
    BY <1>0, <1>4 DEF Stripped
  <2> QED
    BY <1>0, <2>1, <2>2
<1>6. 1 \in 1..((hi - lo) + 1) /\ (lo + 1) - 1 = a + 1
  BY <1>4, <1>5 DEF Stripped
<1>7. strip(s)[1] = s[a + 1] /\ Len(strip(s)) # 0
  BY <1>4, <1>5, <1>6 DEF Stripped
<1> QED
  BY <1>7, EmptySeq

----------------------------------------------------------------------------
(* The recursion of parse: what it reads of a text is shorter.              *)

LEMMA InnerFacts ==
    ASSUME NEW s \in CharTexts, Len(s) >= 1
    PROVE  Inner(s) \in CharTexts /\ Len(Inner(s)) < Len(s)
<1>0. Len(s) \in Nat
  BY TextFacts
<1>1. CASE Len(s) >= 2
  <2> DEFINE e == Len(s) - 1
  <2>1. e \in Nat /\ 1 <= e /\ e <= Len(s) /\ 1 + 1 = 2
    BY <1>0, <1>1
  <2> HIDE DEF e
  <2>2. SubSeq(s, 1 + 1, e) \in CharTexts /\ Len(SubSeq(s, 1 + 1, e)) = e - 1
    BY <2>1, PartOf
  <2>3. Inner(s) = SubSeq(s, 1 + 1, e)
    BY <2>1 DEF Inner, e
  <2>4. e - 1 < Len(s)
    BY <1>0, <2>1
  <2> QED
    BY <2>2, <2>3, <2>4
<1>2. CASE Len(s) = 1
  <2>1. Inner(s) = SubSeq(s, 2, 0)
    BY <1>2 DEF Inner
  <2>2. SubSeq(s, 2, 0) = <<>>
    BY DEF CharTexts
  <2>3. Inner(s) = <<>>
    BY <2>1, <2>2
  <2>4. Inner(s) \in CharTexts /\ Len(Inner(s)) = 0
    BY Zenon, <2>3, EmptySeq DEF CharTexts
  <2> HIDE DEF Inner
  <2> QED
    BY <1>2, <2>4
<1>3. Len(s) >= 2 \/ Len(s) = 1
  <2>1. \A n \in Nat : n >= 1 => n >= 2 \/ n = 1
    OBVIOUS
  <2> QED
    BY Zenon, <1>0, <2>1
<1> QED
  BY Zenon, <1>1, <1>2, <1>3

LEMMA CommasIn ==
    ASSUME NEW s \in CharTexts
    PROVE  /\ ListCommas(s) \subseteq 1..Len(s) /\ ObjectCommas(s) \subseteq 1..Len(s)
           /\ ObjectCommas(s) \subseteq ListCommas(s)
BY TextFacts DEF ListCommas, ObjectCommas

\* Parts are no longer than the text they are cut from.
LEMMA PartsFacts ==
    ASSUME NEW s \in CharTexts, NEW commas, commas \subseteq 1..Len(s)
    PROVE  /\ Cut(s, commas) \in Seq(CharTexts) /\ Len(Cut(s, commas)) \in Nat
           /\ Len(Cut(s, commas)) >= 1
           /\ \A j \in 1..Len(Cut(s, commas)) :
                 Cut(s, commas)[j] \in CharTexts /\ Len(Cut(s, commas)[j]) <= Len(s)
<1> DEFINE P == Cut(s, commas)
           m == Len(P)
<1>1. PICK b : CutAt(s, commas, P, b)
  BY CutPlaces
<1> HIDE DEF P
<1>2. /\ P \in Seq(CharTexts) /\ m \in Nat /\ m >= 1 /\ b \in [0..m -> Nat]
      /\ b[0] = 0 /\ b[m] = Len(s) + 1
      /\ \A j \in 1..m : b[j - 1] < b[j] /\ P[j] = SubSeq(s, b[j - 1] + 1, b[j] - 1)
  BY <1>1 DEF CutAt
<1>3. \A i, j \in 0..m : i < j <=> b[i] < b[j]
  BY <1>2, Increasing
<1>4. ASSUME NEW j \in 1..m PROVE P[j] \in CharTexts /\ Len(P[j]) <= Len(s)
  <2>1. j \in 0..m /\ j - 1 \in 0..m /\ m \in 0..m
    BY <1>2
  <2>2. b[j - 1] \in Nat /\ b[j] \in Nat /\ b[j - 1] < b[j]
    BY <1>2, <2>1
  <2>3. b[j] <= b[m]
    <3>1. CASE j = m
      BY <2>2, <3>1
    <3>2. CASE j # m
      <4>1. j < m
        BY <1>2, <3>2
      <4>2. b[j] < b[m]
        BY Zenon, <1>3, <2>1, <4>1
      <4>3. b[m] \in Nat
        BY <1>2, <2>1
      <4> QED
        BY <2>2, <4>2, <4>3
    <3> QED
      BY <3>1, <3>2
  <2>4. Len(s) \in Nat
    BY TextFacts
  <2> DEFINE a == b[j - 1]
             e == b[j] - 1
  <2>5. a \in Nat /\ e \in Nat /\ e <= Len(s) /\ a <= e /\ e - a <= Len(s)
    BY SMTT(60), <1>2, <2>2, <2>3, <2>4
  <2>6. P[j] = SubSeq(s, a + 1, e)
    BY <1>2
  <2> HIDE DEF a, e
  <2>7. SubSeq(s, a + 1, e) \in CharTexts /\ Len(SubSeq(s, a + 1, e)) = e - a
    BY <2>5, PartOf
  <2> QED
    BY <2>5, <2>6, <2>7
<1> QED
  BY <1>2, <1>4 DEF P

LEMMA NameFacts ==
    ASSUME NEW part \in CharTexts
    PROVE  /\ NameOf(part) \in CharTexts /\ Len(NameOf(part)) <= Len(part)
           /\ ValueOf(part) \in CharTexts /\ Len(ValueOf(part)) <= Len(part)
<1>0. Len(part) \in Nat /\ DOMAIN part = 1..Len(part)
  BY TextFacts
<1>1. CASE Colons(part) = {}
  <2>1. NameOf(part) = part /\ ValueOf(part) = <<>>
    BY <1>1 DEF NameOf, ValueOf
  <2>2. <<>> \in CharTexts /\ Len(<<>>) = 0
    BY EmptySeq DEF CharTexts
  <2> QED
    BY <1>0, <2>1, <2>2
<1>2. CASE Colons(part) # {}
  <2> DEFINE C == Colons(part)
             x == Min(C)
  <2>1. C \subseteq 1..Len(part)
    BY <1>0 DEF Colons
  <2> HIDE DEF C
  <2>2. C \subseteq Nat /\ C # {}
    BY <1>2, <2>1 DEF C
  <2>3. x \in C
    BY <2>2, Least
  <2>4. NameOf(part) = SubSeq(part, 1, x - 1) /\ ValueOf(part) = SubSeq(part, x + 1, Len(part))
    BY <1>2 DEF NameOf, ValueOf, C
  <2> HIDE DEF x
  <2> DEFINE e == x - 1
             z == Len(part)
  <2>5. x \in Nat /\ x <= z /\ e \in Nat /\ e <= z /\ 0 <= e /\ 0 + 1 = 1 /\ z \in Nat
    BY <1>0, <2>1, <2>3
  <2>6. NameOf(part) = SubSeq(part, 0 + 1, e) /\ ValueOf(part) = SubSeq(part, x + 1, z)
    BY <2>4, <2>5
  <2>7. e - 0 <= z /\ z - x <= z
    BY <2>5
  <2> HIDE DEF e
  <2>8. SubSeq(part, 0 + 1, e) \in CharTexts /\ Len(SubSeq(part, 0 + 1, e)) = e - 0
    BY <2>5, PartOf
  <2>9. SubSeq(part, x + 1, z) \in CharTexts /\ Len(SubSeq(part, x + 1, z)) = z - x
    BY <2>5, PartOf
  <2> QED
    BY <2>6, <2>7, <2>8, <2>9
<1> QED
  BY <1>1, <1>2

LEMMA ObjectPartsFacts ==
    ASSUME NEW s \in CharTexts, Len(s) >= 1
    PROVE  /\ ObjectParts(s) \in Seq(CharTexts) /\ Len(ObjectParts(s)) \in Nat
           /\ \A j \in 1..Len(ObjectParts(s)) :
                 ObjectParts(s)[j] \in CharTexts /\ Len(ObjectParts(s)[j]) < Len(s)
<1> DEFINE I == Inner(s)
           M == ObjectCommas(I)
<1>1. I \in CharTexts /\ Len(I) < Len(s)
  BY InnerFacts
<1> HIDE DEF I
<1>2. M \subseteq 1..Len(I)
  BY <1>1, CommasIn
<1> HIDE DEF M
<1>3. ObjectParts(s) = Cut(I, M)
  BY DEF ObjectParts, I, M
<1>4. /\ Cut(I, M) \in Seq(CharTexts) /\ Len(Cut(I, M)) \in Nat
      /\ \A j \in 1..Len(Cut(I, M)) :
            Cut(I, M)[j] \in CharTexts /\ Len(Cut(I, M)[j]) <= Len(I)
  BY <1>1, <1>2, PartsFacts
<1>5. Len(I) \in Nat /\ Len(s) \in Nat /\ \A u \in CharTexts : Len(u) \in Nat
  BY <1>1, TextFacts
<1>6. ASSUME NEW j \in 1..Len(Cut(I, M))
      PROVE  Cut(I, M)[j] \in CharTexts /\ Len(Cut(I, M)[j]) < Len(s)
  <2>1. Cut(I, M)[j] \in CharTexts /\ Len(Cut(I, M)[j]) <= Len(I)
    BY <1>4
  <2>2. Len(Cut(I, M)[j]) \in Nat
    BY <1>5, <2>1
  <2> QED
    BY <1>1, <1>5, <2>1, <2>2
<1> QED
  BY <1>3, <1>4, <1>6

LEMMA ListPartsFacts ==
    ASSUME NEW s \in CharTexts, Len(s) >= 1
    PROVE  /\ ListParts(s) \in Seq(CharTexts) /\ Len(ListParts(s)) \in Nat
           /\ \A j \in 1..Len(ListParts(s)) :
                 ListParts(s)[j] \in CharTexts /\ Len(ListParts(s)[j]) < Len(s)
<1> DEFINE I == Inner(s)
           M == ListCommas(I)
           C == Cut(I, M)
<1>1. I \in CharTexts /\ Len(I) < Len(s)
  BY InnerFacts
<1> HIDE DEF I
<1>2. M \subseteq 1..Len(I)
  BY <1>1, CommasIn
<1> HIDE DEF M
<1>3. ListParts(s) = IF Last(C) = <<>> THEN Front(C) ELSE C
  BY DEF ListParts, I, M
<1>4. /\ C \in Seq(CharTexts) /\ Len(C) \in Nat /\ Len(C) >= 1
      /\ \A j \in 1..Len(C) : C[j] \in CharTexts /\ Len(C[j]) <= Len(I)
  BY <1>1, <1>2, PartsFacts
<1> HIDE DEF C
<1>5. Len(I) \in Nat /\ Len(s) \in Nat /\ \A u \in CharTexts : Len(u) \in Nat
  BY <1>1, TextFacts
<1>6. ASSUME NEW j \in 1..Len(C) PROVE C[j] \in CharTexts /\ Len(C[j]) < Len(s)
  <2>1. C[j] \in CharTexts /\ Len(C[j]) <= Len(I)
    BY <1>4
  <2>2. Len(C[j]) \in Nat
    BY <1>5, <2>1
  <2> QED
    BY <1>1, <1>5, <2>1, <2>2
<1>7. /\ Front(C) \in Seq(CharTexts) /\ Len(Front(C)) = Len(C) - 1
      /\ \A j \in 1..(Len(C) - 1) : Front(C)[j] = C[j]
  <2> DEFINE q == Len(C) - 1
  <2>1. Len(C) \in Nat /\ 1 \in 1..(Len(C) + 1) /\ q \in (1 - 1)..Len(C) /\ (q - 1) + 1 = q
    BY <1>4
  <2>2. C \in Seq(CharTexts)
    BY <1>4
  <2>3. Front(C) = SubSeq(C, 1, q)
    BY DEF Front
  <2> HIDE DEF q
  <2>4. /\ SubSeq(C, 1, q) \in Seq(CharTexts)
        /\ Len(SubSeq(C, 1, q)) = (q - 1) + 1
        /\ \A i \in 1..((q - 1) + 1) : SubSeq(C, 1, q)[i] = C[(1 + i) - 1]
    BY <2>1, <2>2, SubSeqProperties
  <2>5. \A i \in 1..q : (1 + i) - 1 = i
    OBVIOUS
  <2>6. /\ Front(C) \in Seq(CharTexts) /\ Len(Front(C)) = q
        /\ \A j \in 1..q : Front(C)[j] = C[j]
    BY <2>1, <2>3, <2>4, <2>5
  <2> QED
    BY Zenon, <2>6 DEF q
<1>8. \A j \in 1..(Len(C) - 1) : j \in 1..Len(C)
  BY <1>4
<1>9. Len(C) - 1 \in Nat
  BY <1>4
<1> QED
  <2>1. CASE Last(C) = <<>>
    <3>1. ListParts(s) = Front(C)
      BY <1>3, <2>1
    <3>2. \A j \in 1..Len(Front(C)) : Front(C)[j] \in CharTexts /\ Len(Front(C)[j]) < Len(s)
      BY <1>6, <1>7, <1>8
    <3> QED
      BY <1>7, <1>9, <3>1, <3>2
  <2>2. CASE Last(C) # <<>>
    BY <1>3, <1>4, <1>6, <2>2
  <2> QED
    BY <2>1, <2>2

\* The pairs of an object and the elements of a list, when the values are known.
PairsRead(parts, value) ==
    [i \in DOMAIN parts |->
        <<val_string(value[NameOf(parts[i])]), value[ValueOf(parts[i])]>>]
ListRead(parts, value) == [i \in DOMAIN parts |-> value[parts[i]]]

LEMMA ParsedCases ==
    ASSUME NEW text, NEW value, NEW s, s = strip(text)
    PROVE  /\ s = <<>> => Parsed(text, value) = Num("0")
           /\ s # <<>> /\ s[1] = "{" =>
                 Parsed(text, value) = Obj(Assigned(PairsRead(ObjectParts(s), value)))
           /\ s # <<>> /\ s[1] = "[" => Parsed(text, value) = List(ListRead(ListParts(s), value))
           /\ s # <<>> /\ s[1] = QuoteChar => Parsed(text, value) = Str(unescapify(Inner(s)))
           /\ s # <<>> /\ s[1] \notin {"{", "[", QuoteChar} =>
                 /\ Len(s) = 1 /\ s[1] \in Numbers => Parsed(text, value) = Num(s[1])
                 /\ Len(s) = 1 /\ s[1] \in Literals => Parsed(text, value) = Lit(s[1])
                 /\ ~(Len(s) = 1 /\ s[1] \in Numbers \cup Literals) =>
                        Parsed(text, value) = Num("0")
<1>0. Len(<<>>) = 0
  BY EmptySeq
<1>1. /\ "{" \notin Numbers \cup Literals /\ "[" \notin Numbers \cup Literals
      /\ QuoteChar \notin Numbers \cup Literals /\ Numbers \cap Literals = {}
      /\ "{" # "[" /\ "{" # QuoteChar /\ "[" # QuoteChar
  BY DEF Numbers, Literals, QuoteChar
<1> DEFINE A == Obj(Assigned(PairsRead(ObjectParts(s), value)))
           B == List(ListRead(ListParts(s), value))
           C == Str(unescapify(Inner(s)))
<1>2. Parsed(text, value) =
        CASE s = <<>>    -> Num("0")
          [] s # <<>> /\ s[1] = "{"  -> A
          [] s # <<>> /\ s[1] = "["  -> B
          [] s # <<>> /\ s[1] = QuoteChar -> C
          [] Len(s) = 1 /\ s[1] \in Numbers  -> Num(s[1])
          [] Len(s) = 1 /\ s[1] \in Literals -> Lit(s[1])
          [] OTHER        -> Num("0")
  BY Zenon DEF Parsed, PairsRead, ListRead
<1> HIDE DEF A, B, C
<1>3. s = <<>> => ~(Len(s) = 1)
  BY <1>0
<1> DEFINE p1 == s = <<>>
           p2 == s # <<>> /\ s[1] = "{"
           p3 == s # <<>> /\ s[1] = "["
           p4 == s # <<>> /\ s[1] = QuoteChar
           p5 == Len(s) = 1 /\ s[1] \in Numbers
           p6 == Len(s) = 1 /\ s[1] \in Literals
           N == Num("0")
           D == Num(s[1])
           E == Lit(s[1])
           R == Parsed(text, value)
<1>4. /\ ~(p1 /\ p2) /\ ~(p1 /\ p3) /\ ~(p1 /\ p4) /\ ~(p1 /\ p5) /\ ~(p1 /\ p6)
      /\ ~(p2 /\ p3) /\ ~(p2 /\ p4) /\ ~(p2 /\ p5) /\ ~(p2 /\ p6)
      /\ ~(p3 /\ p4) /\ ~(p3 /\ p5) /\ ~(p3 /\ p6) /\ ~(p4 /\ p5) /\ ~(p4 /\ p6)
      /\ ~(p5 /\ p6)
  BY <1>1, <1>3
<1>5. R = CASE p1 -> N [] p2 -> A [] p3 -> B [] p4 -> C [] p5 -> D [] p6 -> E [] OTHER -> N
  BY Zenon, <1>2
<1> HIDE DEF N, D, E, R
<1>6. /\ p2 => R = A
      /\ p3 => R = B
      /\ p4 => R = C
      /\ p5 => R = D
      /\ p6 => R = E
      /\ p1 => R = N
      /\ ~p2 /\ ~p3 /\ ~p4 /\ ~p5 /\ ~p6 => R = N
  <2> HIDE DEF p1, p2, p3, p4, p5, p6
  <2> QED
    BY <1>4, <1>5
<1> QED
  BY <1>6 DEF N, D, E, R, A, B, C

\* What is read of a text is decided by its shorter texts.
LEMMA ParsedLocal ==
    ASSUME NEW t \in CharTexts, NEW f, NEW g,
           \A u \in CharTexts : Len(u) < Len(t) => f[u] = g[u]
    PROVE  Parsed(t, f) = Parsed(t, g)
<1> DEFINE s == strip(t)
<1>0. s \in CharTexts /\ Len(s) <= Len(t)
  BY StripFacts
<1>1. Len(t) \in Nat /\ \A u \in CharTexts : Len(u) \in Nat
  BY TextFacts
<1> HIDE DEF s
<1>2. s = strip(t)
  BY DEF s
<1>3. s # <<>> => Len(s) >= 1
  <2>1. s # <<>> => Len(s) # 0
    BY <1>0, EmptySeq DEF CharTexts
  <2>2. Len(s) \in Nat
    BY <1>0, <1>1
  <2> QED
    BY <2>1, <2>2
<1>4. ASSUME s # <<>> PROVE PairsRead(ObjectParts(s), f) = PairsRead(ObjectParts(s), g)
  <2> DEFINE P == ObjectParts(s)
  <2>1. /\ P \in Seq(CharTexts) /\ Len(P) \in Nat
        /\ \A j \in 1..Len(P) : P[j] \in CharTexts /\ Len(P[j]) < Len(s)
    BY <1>0, <1>3, <1>4, ObjectPartsFacts
  <2> HIDE DEF P
  <2>2. DOMAIN P = 1..Len(P)
    BY <2>1
  <2>3. ASSUME NEW i \in DOMAIN P
        PROVE  f[NameOf(P[i])] = g[NameOf(P[i])] /\ f[ValueOf(P[i])] = g[ValueOf(P[i])]
    <3> DEFINE q == P[i]
    <3>1. q \in CharTexts /\ Len(q) < Len(s)
      BY <2>1, <2>2
    <3> HIDE DEF q
    <3> DEFINE a == NameOf(q)
               b == ValueOf(q)
    <3>2. a \in CharTexts /\ Len(a) <= Len(q) /\ b \in CharTexts /\ Len(b) <= Len(q)
      BY <3>1, NameFacts
    <3> HIDE DEF a, b
    <3>3. Len(a) < Len(t) /\ Len(b) < Len(t)
      <4>1. /\ Len(a) \in Nat /\ Len(b) \in Nat /\ Len(q) \in Nat /\ Len(s) \in Nat
            /\ Len(t) \in Nat
        BY <1>0, <1>1, <3>1, <3>2
      <4> QED
        BY <1>0, <3>1, <3>2, <4>1
    <3>4. f[a] = g[a] /\ f[b] = g[b]
      BY <3>2, <3>3
    <3> QED
      BY <3>4 DEF a, b, q
  <2>4. PairsRead(P, f) = PairsRead(P, g)
    BY Zenon, <2>3 DEF PairsRead
  <2> QED
    BY <2>4 DEF P
<1>5. ASSUME s # <<>> PROVE ListRead(ListParts(s), f) = ListRead(ListParts(s), g)
  <2> DEFINE P == ListParts(s)
  <2>1. /\ P \in Seq(CharTexts) /\ Len(P) \in Nat
        /\ \A j \in 1..Len(P) : P[j] \in CharTexts /\ Len(P[j]) < Len(s)
    BY <1>0, <1>3, <1>5, ListPartsFacts
  <2> HIDE DEF P
  <2>2. DOMAIN P = 1..Len(P)
    BY <2>1
  <2>3. ASSUME NEW i \in DOMAIN P PROVE f[P[i]] = g[P[i]]
    <3> DEFINE q == P[i]
    <3>1. q \in CharTexts /\ Len(q) < Len(s)
      BY <2>1, <2>2
    <3> HIDE DEF q
    <3>2. Len(q) \in Nat /\ Len(s) \in Nat /\ Len(t) \in Nat
      BY <1>0, <1>1, <3>1
    <3>3. f[q] = g[q]
      BY <1>0, <3>1, <3>2
    <3> QED
      BY <3>3 DEF q
  <2>4. ListRead(P, f) = ListRead(P, g)
    BY Zenon, <2>3 DEF ListRead
  <2> QED
    BY <2>4 DEF P
<1> DEFINE X == Parsed(t, f)
           Y == Parsed(t, g)
<1>6. /\ s = <<>> => X = Num("0")
      /\ s # <<>> /\ s[1] = "{" => X = Obj(Assigned(PairsRead(ObjectParts(s), f)))
      /\ s # <<>> /\ s[1] = "[" => X = List(ListRead(ListParts(s), f))
      /\ s # <<>> /\ s[1] = QuoteChar => X = Str(unescapify(Inner(s)))
      /\ s # <<>> /\ s[1] \notin {"{", "[", QuoteChar} =>
            /\ Len(s) = 1 /\ s[1] \in Numbers => X = Num(s[1])
            /\ Len(s) = 1 /\ s[1] \in Literals => X = Lit(s[1])
            /\ ~(Len(s) = 1 /\ s[1] \in Numbers \cup Literals) => X = Num("0")
  BY ZenonT(60), <1>2, ParsedCases
<1>7. /\ s = <<>> => Y = Num("0")
      /\ s # <<>> /\ s[1] = "{" => Y = Obj(Assigned(PairsRead(ObjectParts(s), g)))
      /\ s # <<>> /\ s[1] = "[" => Y = List(ListRead(ListParts(s), g))
      /\ s # <<>> /\ s[1] = QuoteChar => Y = Str(unescapify(Inner(s)))
      /\ s # <<>> /\ s[1] \notin {"{", "[", QuoteChar} =>
            /\ Len(s) = 1 /\ s[1] \in Numbers => Y = Num(s[1])
            /\ Len(s) = 1 /\ s[1] \in Literals => Y = Lit(s[1])
            /\ ~(Len(s) = 1 /\ s[1] \in Numbers \cup Literals) => Y = Num("0")
  BY ZenonT(60), <1>2, ParsedCases
<1> HIDE DEF X, Y
<1>8. CASE s = <<>>
  BY <1>6, <1>7, <1>8 DEF X, Y
<1>9. CASE s # <<>> /\ s[1] = "{"
  BY Zenon, <1>4, <1>6, <1>7, <1>9 DEF X, Y
<1>10. CASE s # <<>> /\ s[1] = "["
  BY Zenon, <1>5, <1>6, <1>7, <1>10 DEF X, Y
<1>11. CASE s # <<>> /\ s[1] = QuoteChar
  BY Zenon, <1>6, <1>7, <1>11 DEF X, Y
<1>12. CASE s # <<>> /\ s[1] \notin {"{", "[", QuoteChar}
  <2>1. \/ Len(s) = 1 /\ s[1] \in Numbers
        \/ Len(s) = 1 /\ s[1] \in Literals
        \/ ~(Len(s) = 1 /\ s[1] \in Numbers \cup Literals)
    OBVIOUS
  <2> QED
    BY Zenon, <1>6, <1>7, <1>12, <2>1 DEF X, Y
<1> QED
  BY <1>8, <1>9, <1>10, <1>11, <1>12

\* A function that agrees with what is read of the texts of length up to n.
ReadsUpTo(n, f) == \A t \in CharTexts : Len(t) <= n => f[t] = Parsed(t, f)

LEMMA ReadsSame ==
    ASSUME NEW n \in Nat, NEW f, NEW g, ReadsUpTo(n, f), ReadsUpTo(n, g)
    PROVE  \A t \in CharTexts : Len(t) <= n => f[t] = g[t]
<1> DEFINE S == {k \in Nat : \A t \in CharTexts : Len(t) <= k /\ Len(t) <= n => f[t] = g[t]}
<1>0. \A t \in CharTexts : Len(t) \in Nat
  BY TextFacts
<1>1. ASSUME NEW t \in CharTexts, Len(t) <= n,
             \A u \in CharTexts : Len(u) < Len(t) => f[u] = g[u]
      PROVE  f[t] = g[t]
  <2>1. Parsed(t, f) = Parsed(t, g)
    BY <1>1, ParsedLocal
  <2>2. f[t] = Parsed(t, f) /\ g[t] = Parsed(t, g)
    BY <1>1 DEF ReadsUpTo
  <2> QED
    BY Zenon, <2>1, <2>2
<1>2. 0 \in S
  <2>1. ASSUME NEW t \in CharTexts, Len(t) <= 0, Len(t) <= n PROVE f[t] = g[t]
    <3>1. \A u \in CharTexts : ~(Len(u) < Len(t))
      BY <1>0, <2>1
    <3> QED
      BY <1>1, <2>1, <3>1
  <2> QED
    BY <2>1
<1>3. ASSUME NEW k \in Nat, k \in S PROVE k + 1 \in S
  <2>1. ASSUME NEW t \in CharTexts, Len(t) <= k + 1, Len(t) <= n PROVE f[t] = g[t]
    <3>1. ASSUME NEW u \in CharTexts, Len(u) < Len(t) PROVE f[u] = g[u]
      <4>1. Len(u) <= k /\ Len(u) <= n
        BY <1>0, <2>1, <3>1
      <4> QED
        BY <1>3, <4>1
    <3> QED
      BY <1>1, <2>1, <3>1
  <2> QED
    BY <2>1
<1>4. n \in S
  <2> HIDE DEF S
  <2>1. \A k \in Nat : k \in S => k + 1 \in S
    BY <1>3
  <2> QED
    BY <1>2, <2>1, AscendAll
<1> QED
  BY <1>4

LEMMA ReadsLess ==
    ASSUME NEW n \in Nat, NEW m \in Nat, m <= n, NEW f, ReadsUpTo(n, f)
    PROVE  ReadsUpTo(m, f)
<1>1. \A t \in CharTexts : Len(t) \in Nat
  BY TextFacts
<1> SUFFICES ASSUME NEW t \in CharTexts, Len(t) <= m PROVE f[t] = Parsed(t, f)
  BY DEF ReadsUpTo
<1>2. Len(t) <= n
  BY <1>1
<1> QED
  BY Zenon, <1>2 DEF ReadsUpTo

LEMMA ReadsNext ==
    ASSUME NEW n \in Nat, NEW f,
           \A t \in CharTexts : Len(t) < n => f[t] = Parsed(t, f)
    PROVE  \E g : ReadsUpTo(n, g)
<1> DEFINE Short == {t \in CharTexts : Len(t) <= n}
           g == [t \in Short |-> Parsed(t, f)]
<1>0. \A t \in CharTexts : Len(t) \in Nat
  BY TextFacts
<1>1. ASSUME NEW t \in CharTexts, Len(t) <= n PROVE g[t] = Parsed(t, f)
  BY <1>1
<1> HIDE DEF g
<1>2. ASSUME NEW t \in CharTexts, Len(t) <= n PROVE g[t] = Parsed(t, g)
  <2>1. ASSUME NEW u \in CharTexts, Len(u) < Len(t) PROVE f[u] = g[u]
    <3>1. Len(u) <= n /\ Len(u) < n
      BY <1>0, <1>2, <2>1
    <3> QED
      BY Zenon, <1>1, <3>1
  <2>2. Parsed(t, f) = Parsed(t, g)
    BY <2>1, ParsedLocal
  <2> QED
    BY Zenon, <1>1, <1>2, <2>2
<1> QED
  BY Zenon, <1>2 DEF ReadsUpTo

LEMMA ReadsExist ==
    ASSUME NEW n \in Nat
    PROVE  \E f : ReadsUpTo(n, f)
<1> DEFINE S == {k \in Nat : \E f : ReadsUpTo(k, f)}
<1>0. \A t \in CharTexts : Len(t) \in Nat
  BY TextFacts
<1>1. 0 \in S
  <2>1. \A t \in CharTexts : Len(t) < 0 => <<>>[t] = Parsed(t, <<>>)
    BY <1>0
  <2>2. \E g : ReadsUpTo(0, g)
    BY <2>1, ReadsNext
  <2> QED
    BY <2>2
<1>2. ASSUME NEW k \in Nat, k \in S PROVE k + 1 \in S
  <2>1. PICK f : ReadsUpTo(k, f)
    BY <1>2
  <2>2. \A t \in CharTexts : Len(t) < k + 1 => Len(t) <= k
    BY <1>0
  <2>3. \A t \in CharTexts : Len(t) < k + 1 => f[t] = Parsed(t, f)
    BY Zenon, <2>1, <2>2 DEF ReadsUpTo
  <2>4. k + 1 \in Nat
    OBVIOUS
  <2>5. \E g : ReadsUpTo(k + 1, g)
    BY <2>3, <2>4, ReadsNext
  <2> QED
    BY <2>4, <2>5
<1> HIDE DEF S
<1>3. Nat \subseteq S
  BY <1>1, <1>2, AscendAll
<1> QED
  BY <1>3 DEF S

\* parse is the function that its definition says.
LEMMA ParseText ==
    ASSUME NEW text \in CharTexts
    PROVE  parse[text] = Parsed(text, parse)
<1> DEFINE Sol(f) == f = [t \in Seq(Char) |-> Parsed(t, f)]
           c(n) == CHOOSE f : ReadsUpTo(n, f)
           F == [t \in Seq(Char) |-> c(Len(t))[t]]
<1>0. \A t \in CharTexts : Len(t) \in Nat
  BY TextFacts
<1>1. ASSUME NEW n \in Nat PROVE ReadsUpTo(n, c(n))
  BY ReadsExist
<1> HIDE DEF c
<1>2. ASSUME NEW t \in Seq(Char) PROVE F[t] = Parsed(t, F)
  <2>0. t \in CharTexts
    BY DEF CharTexts
  <2>1. F[t] = c(Len(t))[t]
    OBVIOUS
  <2>2. c(Len(t))[t] = Parsed(t, c(Len(t)))
    <3>1. Len(t) \in Nat /\ Len(t) <= Len(t)
      BY <1>0, <2>0
    <3>2. ReadsUpTo(Len(t), c(Len(t)))
      BY <1>1, <3>1
    <3> QED
      BY Zenon, <2>0, <3>1, <3>2 DEF ReadsUpTo
  <2>3. ASSUME NEW u \in CharTexts, Len(u) < Len(t) PROVE c(Len(t))[u] = F[u]
    <3> DEFINE n == Len(u)
               m == Len(t)
    <3>1. n \in Nat /\ m \in Nat /\ n <= m /\ n <= n
      BY <1>0, <2>0, <2>3
    <3>2. ReadsUpTo(n, c(n)) /\ ReadsUpTo(m, c(m))
      BY <1>1, <3>1
    <3>3. ReadsUpTo(n, c(m))
      BY <3>1, <3>2, ReadsLess
    <3>4. \A v \in CharTexts : Len(v) <= n => c(m)[v] = c(n)[v]
      BY <3>1, <3>2, <3>3, ReadsSame
    <3>5. c(m)[u] = c(n)[u]
      BY Zenon, <3>1, <3>4
    <3>6. F[u] = c(Len(u))[u]
      BY DEF CharTexts
    <3> QED
      BY Zenon, <3>5, <3>6
  <2> HIDE DEF F
  <2>4. Parsed(t, c(Len(t))) = Parsed(t, F)
    BY <2>0, <2>3, ParsedLocal
  <2> QED
    BY Zenon, <2>1, <2>2, <2>4
<1>3. Sol(F)
  <2>1. F = [t \in Seq(Char) |-> F[t]]
    OBVIOUS
  <2> HIDE DEF F
  <2> QED
    BY Zenon, <1>2, <2>1
<1> HIDE DEF F, Sol
<1>4. parse = CHOOSE f : Sol(f)
  BY Zenon DEF parse, Sol
<1>5. Sol(parse)
  BY Zenon, <1>3, <1>4
<1>6. parse = [t \in Seq(Char) |-> Parsed(t, parse)]
  BY Zenon, <1>5 DEF Sol
<1> QED
  BY Zenon, <1>6 DEF CharTexts

----------------------------------------------------------------------------
(* Texts after which the scanner is where it was before.                    *)

LEMMA StartFacts ==
    /\ ScanStart \in ScanStates /\ ScanStart.in_object = 0 /\ ScanStart.in_list = 0
    /\ ScanStart.in_string = FALSE /\ ScanStart.escape = FALSE
BY DEF ScanStart, ScanStates

LEMMA FromStart ==
    ASSUME NEW st \in ScanStates, NEW rel \in ScanStates, Beyond(st, ScanStart, rel)
    PROVE  st = rel
<1>1. /\ st.in_object = rel.in_object /\ st.in_list = rel.in_list
      /\ st.in_string = rel.in_string /\ st.escape = rel.escape
  <2>1. rel.in_object \in Int /\ rel.in_list \in Int
    BY DEF ScanStates
  <2> QED
    BY <2>1, StartFacts DEF Beyond
<1>2. /\ st = [in_object |-> st.in_object, in_list |-> st.in_list,
               in_string |-> st.in_string, escape |-> st.escape]
      /\ rel = [in_object |-> rel.in_object, in_list |-> rel.in_list,
                in_string |-> rel.in_string, escape |-> rel.escape]
  BY DEF ScanStates
<1> QED
  BY Zenon, <1>1, <1>2

\* From such a place on, a text inside another is scanned as alone.
LEMMA ScanFrom ==
    ASSUME NEW s \in CharTexts, NEW B \in CharTexts, NEW a, Holds(s, a, B),
           Counters(s)[a] = ScanStart
    PROVE  /\ a \in 0..Len(s)
           /\ \A k \in 0..Len(B) :
                 a + k \in 0..Len(s) /\ Counters(s)[a + k] = Counters(B)[k]
<1>1. Counters(s)[a].in_string = FALSE /\ Counters(s)[a].escape = FALSE
  BY StartFacts
<1>2. /\ a \in 0..Len(s)
      /\ \A k \in 0..Len(B) :
            a + k \in 0..Len(s) /\ Beyond(Counters(s)[a + k], Counters(s)[a], Counters(B)[k])
  BY <1>1, ScanInside
<1>3. ASSUME NEW k \in 0..Len(B) PROVE Counters(s)[a + k] = Counters(B)[k]
  <2> DEFINE st == Counters(s)[a + k]
             rel == Counters(B)[k]
  <2>1. st \in ScanStates
    <3>1. a + k \in 0..Len(s)
      BY <1>2
    <3> QED
      BY <3>1, CountersSteps
  <2>2. rel \in ScanStates
    BY CountersSteps
  <2>3. Beyond(st, ScanStart, rel)
    BY Zenon, <1>2
  <2> HIDE DEF st, rel
  <2>4. st = rel
    BY <2>1, <2>2, <2>3, FromStart
  <2> QED
    BY <2>4 DEF st, rel
<1> QED
  BY <1>2, <1>3

LEMMA ScanPrefix ==
    ASSUME NEW s \in CharTexts, NEW B \in CharTexts, Holds(s, 0, B)
    PROVE  \A k \in 0..Len(B) : k \in 0..Len(s) /\ Counters(s)[k] = Counters(B)[k]
<1>1. Counters(s)[0] = ScanStart
  BY CountersSteps
<1>2. \A k \in 0..Len(B) : 0 + k \in 0..Len(s) /\ Counters(s)[0 + k] = Counters(B)[k]
  BY <1>1, ScanFrom
<1>3. ASSUME NEW k \in 0..Len(B) PROVE 0 + k = k
  BY TextFacts
<1> QED
  BY <1>2, <1>3

\* Its commas separate there as alone.
LEMMA CommasInside ==
    ASSUME NEW s \in CharTexts, NEW B \in CharTexts, NEW a, Holds(s, a, B),
           Counters(s)[a] = ScanStart, NEW k \in 1..Len(B)
    PROVE  /\ a + k \in ListCommas(s) <=> k \in ListCommas(B)
           /\ a + k \in ObjectCommas(s) <=> k \in ObjectCommas(B)
<1>0. DOMAIN s = 1..Len(s) /\ DOMAIN B = 1..Len(B) /\ Len(B) \in Nat /\ Len(s) \in Nat
  BY TextFacts
<1>1. a \in 0..Len(s) /\ a + k \in 1..Len(s) /\ s[a + k] = B[k] /\ k \in 0..Len(B)
  BY <1>0 DEF Holds
<1>2. Counters(s)[a + k] = Counters(B)[k]
  BY <1>1, ScanFrom
<1> DEFINE x == a + k
<1>3. x \in DOMAIN s /\ k \in DOMAIN B /\ s[x] = B[k] /\ Counters(s)[x] = Counters(B)[k]
  BY <1>0, <1>1, <1>2
<1> HIDE DEF x
<1>4. x \in ListCommas(s) <=> k \in ListCommas(B)
  BY <1>3 DEF ListCommas
<1>5. x \in ObjectCommas(s) <=> k \in ObjectCommas(B)
  BY <1>3, <1>4 DEF ObjectCommas
<1> QED
  BY <1>4, <1>5 DEF x

\* All its brackets and quotes are closed, and no bracket is closed before it opens.
Level ==
    {B \in CharTexts :
        /\ Counters(B)[Len(B)] = ScanStart
        /\ \A k \in 0..Len(B) : Counters(B)[k].in_object >= 0 /\ Counters(B)[k].in_list >= 0}

LEMMA LevelEmpty == <<>> \in Level /\ ListCommas(<<>>) = {} /\ ObjectCommas(<<>>) = {}
<1>1. <<>> \in CharTexts /\ Len(<<>>) = 0
  BY EmptySeq DEF CharTexts
<1>2. Counters(<<>>)[0] = ScanStart
  BY <1>1, CountersSteps
<1>3. \A k \in 0..0 : Counters(<<>>)[k].in_object >= 0 /\ Counters(<<>>)[k].in_list >= 0
  <2>1. \A k \in 0..0 : k = 0
    OBVIOUS
  <2> QED
    BY <1>2, <2>1, StartFacts
<1>4. <<>> \in Level
  BY <1>1, <1>2, <1>3 DEF Level
<1>5. 1..0 = {}
  OBVIOUS
<1> QED
  BY <1>1, <1>4, <1>5, CommasIn

\* A character that is no bracket, quote or backslash.
LEMMA LevelChar ==
    ASSUME NEW c \in Char, c \notin Brackets, c # QuoteChar, c # Esc
    PROVE  /\ <<c>> \in Level
           /\ c # "," => ListCommas(<<c>>) = {} /\ ObjectCommas(<<c>>) = {}
<1> DEFINE s == <<c>>
<1>1. s \in CharTexts /\ Len(s) = 1 /\ s[1] = c
  BY OneChar
<1> HIDE DEF s
<1>2. /\ Counters(s) \in [0..Len(s) -> ScanStates] /\ Counters(s)[0] = ScanStart
      /\ \A i \in 1..Len(s) : Counters(s)[i] = Counted(Counters(s)[i - 1], s[i])
  BY <1>1, CountersSteps
<1>3. Counters(s)[1] = Counted(ScanStart, c)
  <2>1. 1 \in 1..Len(s) /\ 1 - 1 = 0
    BY <1>1
  <2> QED
    BY <1>1, <1>2, <2>1
<1>4. Counted(ScanStart, c) = ScanStart
  <2>1. /\ Counted(ScanStart, c).in_object = 0 /\ Counted(ScanStart, c).in_list = 0
    <3>1. Count(c, "{", "}") = 0 /\ Count(c, "[", "]") = 0
      BY DEF Count, Brackets
    <3>2. /\ Counted(ScanStart, c).in_object = ScanStart.in_object + Count(c, "{", "}")
          /\ Counted(ScanStart, c).in_list = ScanStart.in_list + Count(c, "[", "]")
      BY Zenon, CountedCounts
    <3>3. /\ Counted(ScanStart, c).in_object = 0 + 0 /\ Counted(ScanStart, c).in_list = 0 + 0
      BY Zenon, <3>1, <3>2, StartFacts
    <3> QED
      BY <3>3
  <2>2. Counted(ScanStart, c).in_string = FALSE /\ Counted(ScanStart, c).escape = FALSE
    BY StartFacts, CountedPlain
  <2>3. Counted(ScanStart, c) \in ScanStates
    BY StartFacts, CountedFacts
  <2> DEFINE st == Counted(ScanStart, c)
  <2> HIDE DEF st
  <2>6. st.in_object = 0 /\ st.in_list = 0 /\ st.in_string = FALSE /\ st.escape = FALSE
    BY Zenon, <2>1, <2>2 DEF st
  <2>7. 0 = 0 + 0
    OBVIOUS
  <2>4. Beyond(st, ScanStart, ScanStart)
    BY Zenon, <2>6, <2>7, StartFacts DEF Beyond
  <2>5. st = ScanStart
    <3>1. st \in ScanStates
      BY <2>3 DEF st
    <3> QED
      BY <2>4, <3>1, StartFacts, FromStart
  <2> QED
    BY <2>5 DEF st
<1>5. \A k \in 0..Len(s) : Counters(s)[k] = ScanStart
  <2>1. \A k \in 0..1 : k = 0 \/ k = 1
    OBVIOUS
  <2> QED
    BY <1>1, <1>2, <1>3, <1>4, <2>1
<1>6. s \in Level
  <2>1. Len(s) \in 0..Len(s)
    BY <1>1
  <2>2. Counters(s)[Len(s)] = ScanStart
    BY Zenon, <1>5, <2>1
  <2>3. \A k \in 0..Len(s) : Counters(s)[k].in_object >= 0 /\ Counters(s)[k].in_list >= 0
    BY <1>5, StartFacts
  <2> QED
    BY <1>1, <2>2, <2>3 DEF Level
<1>7. ASSUME c # "," PROVE ListCommas(s) = {} /\ ObjectCommas(s) = {}
  <2>1. ListCommas(s) \subseteq 1..1 /\ ObjectCommas(s) \subseteq ListCommas(s)
    BY <1>1, CommasIn
  <2>2. 1 \notin ListCommas(s)
    BY <1>1, <1>7 DEF ListCommas
  <2>3. \A x \in 1..1 : x = 1
    OBVIOUS
  <2> QED
    BY <2>1, <2>2, <2>3
<1> QED
  BY <1>6, <1>7 DEF s

LEMMA LevelBoth ==
    ASSUME NEW A \in Level, NEW B \in Level
    PROVE  /\ A \o B \in Level
           /\ ListCommas(A) = {} /\ ListCommas(B) = {} => ListCommas(A \o B) = {}
           /\ ObjectCommas(A) = {} /\ ObjectCommas(B) = {} => ObjectCommas(A \o B) = {}
<1> DEFINE s == A \o B
           m == Len(A)
           n == Len(B)
<1>0. /\ A \in CharTexts /\ Counters(A)[m] = ScanStart
      /\ \A k \in 0..m : Counters(A)[k].in_object >= 0 /\ Counters(A)[k].in_list >= 0
      /\ B \in CharTexts /\ Counters(B)[n] = ScanStart
      /\ \A k \in 0..n : Counters(B)[k].in_object >= 0 /\ Counters(B)[k].in_list >= 0
  BY DEF Level
<1>1. m \in Nat /\ n \in Nat
  BY <1>0, TextFacts
<1>2. s \in CharTexts /\ Len(s) = m + n /\ Holds(s, 0, A) /\ Holds(s, m, B)
  BY <1>0, Concatenated
<1> HIDE DEF s
<1>3. \A k \in 0..m : Counters(s)[k] = Counters(A)[k]
  BY <1>0, <1>2, ScanPrefix
<1>4. Counters(s)[m] = ScanStart
  <2>1. m \in 0..m
    BY <1>1
  <2> QED
    BY Zenon, <1>0, <1>3, <2>1
<1>5. \A k \in 0..n : Counters(s)[m + k] = Counters(B)[k]
  BY <1>0, <1>2, <1>4, ScanFrom
<1> HIDE DEF m, n
<1>6. ASSUME NEW x \in 0..Len(s), x > m PROVE \E k \in 1..n : x = m + k
  <2>1. x - m \in 1..n /\ x = m + (x - m)
    BY <1>1, <1>2, <1>6
  <2> QED
    BY <2>1
<1>7. s \in Level
  <2>1. Counters(s)[Len(s)] = ScanStart
    <3>1. n \in 0..n
      BY <1>1
    <3> QED
      BY Zenon, <1>0, <1>2, <1>5, <3>1
  <2>2. ASSUME NEW x \in 0..Len(s)
        PROVE  Counters(s)[x].in_object >= 0 /\ Counters(s)[x].in_list >= 0
    <3>1. CASE x <= m
      <4>1. x \in 0..m
        BY <1>1, <1>2, <3>1
      <4> QED
        BY Zenon, <1>0, <1>3, <4>1
    <3>2. CASE x > m
      <4>1. PICK k \in 1..n : x = m + k
        BY <1>6, <3>2
      <4>2. k \in 0..n
        BY <1>1
      <4> QED
        BY Zenon, <1>0, <1>5, <4>1, <4>2
    <3> QED
      BY <1>1, <1>2, <3>1, <3>2
  <2> QED
    BY <1>2, <2>1, <2>2 DEF Level
<1>8. ASSUME NEW x \in 1..Len(s)
      PROVE  \/ /\ x \in 1..m /\ 0 + x = x
             \/ \E k \in 1..n : x = m + k
  <2>1. CASE x <= m
    BY <1>1, <2>1
  <2>2. CASE x > m
    BY <1>6, <2>2
  <2> QED
    BY <1>1, <2>1, <2>2
<1>9. Counters(s)[0] = ScanStart
  BY <1>2, CountersSteps
<1>10. \A k \in 1..m :
          /\ 0 + k \in ListCommas(s) <=> k \in ListCommas(A)
          /\ 0 + k \in ObjectCommas(s) <=> k \in ObjectCommas(A)
  BY <1>0, <1>2, <1>9, CommasInside DEF m
<1>11. \A k \in 1..n :
          /\ m + k \in ListCommas(s) <=> k \in ListCommas(B)
          /\ m + k \in ObjectCommas(s) <=> k \in ObjectCommas(B)
  BY <1>0, <1>2, <1>4, CommasInside DEF n
<1>12. ListCommas(s) \subseteq 1..Len(s) /\ ObjectCommas(s) \subseteq 1..Len(s)
  BY <1>2, CommasIn
<1>13. ASSUME ListCommas(A) = {}, ListCommas(B) = {} PROVE ListCommas(s) = {}
  BY Zenon, <1>8, <1>10, <1>11, <1>12, <1>13
<1>14. ASSUME ObjectCommas(A) = {}, ObjectCommas(B) = {} PROVE ObjectCommas(s) = {}
  BY Zenon, <1>8, <1>10, <1>11, <1>12, <1>14
<1> QED
  BY <1>7, <1>13, <1>14 DEF s

----------------------------------------------------------------------------
(* What is between the brackets of a container: texts with commas between.  *)

LEMMA HoldsJoin ==
    ASSUME NEW s \in CharTexts, NEW A \in CharTexts, NEW B \in CharTexts, NEW a,
           Holds(s, a, A), Holds(s, a + Len(A), B)
    PROVE  Holds(s, a, A \o B)
<1>0. Len(A) \in Nat /\ Len(B) \in Nat /\ Len(s) \in Nat
  BY TextFacts
<1> DEFINE C == A \o B
           m == Len(A)
<1>1. /\ C \in CharTexts /\ Len(C) = m + Len(B) /\ Holds(C, 0, A) /\ Holds(C, m, B)
  BY Concatenated
<1> HIDE DEF C, m
<1>2. /\ a \in Nat /\ (a + m) + Len(B) <= Len(s)
      /\ \A k \in 1..m : s[a + k] = A[k]
      /\ \A k \in 1..Len(B) : s[(a + m) + k] = B[k]
      /\ \A k \in 1..m : C[0 + k] = A[k]
      /\ \A k \in 1..Len(B) : C[m + k] = B[k]
  BY <1>1 DEF Holds, m
<1>3. m \in Nat
  BY <1>0 DEF m
<1>4. ASSUME NEW k \in 1..Len(C) PROVE s[a + k] = C[k]
  <2>1. CASE k <= m
    <3>1. k \in 1..m /\ 0 + k = k
      BY <1>3, <2>1
    <3> QED
      BY <1>2, <3>1
  <2>2. CASE k > m
    <3> DEFINE j == k - m
    <3>1. j \in 1..Len(B) /\ m + j = k /\ (a + m) + j = a + k
      BY <1>0, <1>1, <1>2, <1>3, <2>2
    <3> HIDE DEF j
    <3>2. s[(a + m) + j] = B[j] /\ C[m + j] = B[j]
      BY <1>2, <3>1
    <3> QED
      BY <3>1, <3>2
  <2> QED
    BY <1>0, <1>1, <1>3, <2>1, <2>2
<1>5. a + Len(C) <= Len(s)
  BY <1>0, <1>1, <1>2, <1>3
<1> QED
  BY <1>2, <1>4, <1>5 DEF Holds, C

\* The texts W are in s one after the other, with a comma between two: W[j] begins
\* after place d[j - 1].
JoinedAt(s, W, d) ==
    /\ W \in Seq(CharTexts) /\ Len(W) \in Nat /\ Len(W) >= 1
    /\ d \in [0..Len(W) -> Nat] /\ d[0] = 0 /\ d[Len(W)] = Len(s) + 1
    /\ \A j \in 1..Len(W) :
          W[j] \in CharTexts /\ d[j] = (d[j - 1] + Len(W[j])) + 1 /\ Holds(s, d[j - 1], W[j])
    /\ \A j \in 1..(Len(W) - 1) : s[d[j]] = ","

Joins(W, d) == {d[j] : j \in 1..(Len(W) - 1)}

LEMMA JoinedOrder ==
    ASSUME NEW s \in CharTexts, NEW W, NEW d, JoinedAt(s, W, d)
    PROVE  /\ \A j \in 1..Len(W) : d[j - 1] \in Nat /\ d[j] \in Nat /\ d[j - 1] < d[j]
           /\ \A i, j \in 0..Len(W) : i < j <=> d[i] < d[j]
           /\ \A j \in 1..(Len(W) - 1) : d[j] \in 1..Len(s)
           /\ Len(s) \in Nat
<1> DEFINE n == Len(W)
<1>0. Len(s) \in Nat /\ \A t \in CharTexts : Len(t) \in Nat
  BY TextFacts
<1>1. /\ n \in Nat /\ n >= 1 /\ d \in [0..n -> Nat] /\ d[0] = 0 /\ d[n] = Len(s) + 1
      /\ \A j \in 1..n : W[j] \in CharTexts /\ d[j] = (d[j - 1] + Len(W[j])) + 1
  BY DEF JoinedAt
<1> HIDE DEF n
<1>2. ASSUME NEW j \in 1..n PROVE d[j - 1] \in Nat /\ d[j] \in Nat /\ d[j - 1] < d[j]
  <2>1. j \in 0..n /\ j - 1 \in 0..n
    BY <1>1
  <2>2. d[j - 1] \in Nat /\ d[j] \in Nat /\ Len(W[j]) \in Nat
    BY <1>0, <1>1, <2>1
  <2>3. d[j] = (d[j - 1] + Len(W[j])) + 1
    BY <1>1
  <2> QED
    BY <2>2, <2>3
<1>3. \A i, j \in 0..n : i < j <=> d[i] < d[j]
  <2>1. \A j \in 1..n : d[j - 1] < d[j]
    BY <1>2
  <2> QED
    BY <1>1, <2>1, Increasing
<1>4. ASSUME NEW j \in 1..(n - 1) PROVE d[j] \in 1..Len(s)
  <2>1. j \in 0..n /\ n \in 0..n /\ 0 \in 0..n /\ 0 < j /\ j < n
    BY <1>1
  <2>2. d[0] < d[j] /\ d[j] < d[n] /\ d[j] \in Nat
    BY <1>1, <1>3, <2>1
  <2> QED
    BY SMTT(60), <1>0, <1>1, <2>2
<1> QED
  BY <1>0, <1>2, <1>3, <1>4 DEF n

\* Cut at its joins, the text is in the parts that were joined.
LEMMA JoinedCut ==
    ASSUME NEW s \in CharTexts, NEW W, NEW d, JoinedAt(s, W, d)
    PROVE  Joins(W, d) \subseteq 1..Len(s) /\ Cut(s, Joins(W, d)) = W
<1> DEFINE n == Len(W)
           M == Joins(W, d)
<1>1. /\ W \in Seq(CharTexts) /\ n \in Nat /\ n >= 1 /\ d \in [0..n -> Nat] /\ d[0] = 0
      /\ d[n] = Len(s) + 1
      /\ \A j \in 1..n :
            W[j] \in CharTexts /\ d[j] = (d[j - 1] + Len(W[j])) + 1 /\ Holds(s, d[j - 1], W[j])
  BY DEF JoinedAt
<1>2. /\ \A j \in 1..n : d[j - 1] \in Nat /\ d[j] \in Nat /\ d[j - 1] < d[j]
      /\ \A j \in 1..(n - 1) : d[j] \in 1..Len(s)
  BY JoinedOrder
<1>3. M = {d[j] : j \in 1..(n - 1)}
  BY DEF Joins
<1> HIDE DEF n, M
<1>4. M \subseteq 1..Len(s)
  BY <1>2, <1>3
<1>5. ASSUME NEW j \in 1..n PROVE W[j] = SubSeq(s, d[j - 1] + 1, d[j] - 1)
  <2> DEFINE a == d[j - 1]
             B == W[j]
  <2>1. B \in CharTexts /\ Holds(s, a, B) /\ d[j] = (a + Len(B)) + 1 /\ a \in Nat
    BY <1>1, <1>2
  <2> HIDE DEF a, B
  <2>2. SubSeq(s, a + 1, a + Len(B)) = B
    BY <2>1, HeldPart
  <2>3. d[j] - 1 = a + Len(B)
    BY <2>1, TextFacts
  <2> QED
    BY Zenon, <2>2, <2>3 DEF a, B
<1>6. \A x \in M : \E j \in 1..(n - 1) : x = d[j]
  BY <1>3
<1>7. \A j \in 1..(n - 1) : d[j] \in M
  BY <1>3
<1>8. CutAt(s, M, W, d)
  <2> USE DEF n
  <2> QED
    BY Zenon, <1>1, <1>2, <1>5, <1>6, <1>7 DEF CutAt
<1>9. PICK b : CutAt(s, M, Cut(s, M), b)
  BY <1>4, CutPlaces
<1>10. Cut(s, M) = W
  BY <1>8, <1>9, CutUnique
<1> QED
  BY <1>4, <1>10 DEF M

\* Every character is one of a part or a join.
LEMMA JoinedPlaces ==
    ASSUME NEW s \in CharTexts, NEW W, NEW d, JoinedAt(s, W, d), NEW x \in 1..Len(s)
    PROVE  \/ x \in Joins(W, d)
           \/ \E j \in 1..Len(W) : \E k \in 1..Len(W[j]) : x = d[j - 1] + k
<1> DEFINE n == Len(W)
<1>1. /\ n \in Nat /\ n >= 1 /\ d \in [0..n -> Nat] /\ d[0] = 0 /\ d[n] = Len(s) + 1
      /\ \A j \in 1..n : W[j] \in CharTexts /\ d[j] = (d[j - 1] + Len(W[j])) + 1
  BY DEF JoinedAt
<1>2. /\ \A j \in 1..n : d[j - 1] \in Nat /\ d[j] \in Nat /\ d[j - 1] < d[j]
      /\ Len(s) \in Nat
  BY JoinedOrder
<1> HIDE DEF n
<1> DEFINE T == {j \in 0..n : d[j] < x}
           m == Max(T)
<1>3. T \subseteq 0..n /\ 0 \in T
  BY <1>1
<1>4. m \in T /\ \A y \in T : y <= m
  <2> HIDE DEF T
  <2>1. T # {}
    BY <1>3
  <2> QED
    BY <1>1, <1>3, <2>1, Greatest
<1> HIDE DEF m
<1>5. m \in 0..n /\ d[m] < x /\ d[m] \in Nat /\ m # n
  <2>1. m \in 0..n /\ d[m] < x
    BY <1>4
  <2>2. d[m] \in Nat
    BY <1>1, <2>1
  <2> QED
    BY <1>1, <1>2, <2>1, <2>2
<1> DEFINE j == m + 1
<1>6. j \in 1..n /\ j - 1 = m /\ j \in 0..n
  BY <1>1, <1>5
<1>7. x <= d[j]
  <2>1. j \notin T
    BY <1>4, <1>5
  <2> HIDE DEF j
  <2>2. ~(d[j] < x) /\ d[j] \in Nat
    BY <1>1, <1>6, <2>1
  <2> QED
    BY <2>2
<1> HIDE DEF j, T
<1>8. CASE x = d[j]
  <2>1. j # n
    BY <1>1, <1>2, <1>8
  <2>2. j \in 1..(n - 1)
    BY <1>1, <1>6, <2>1
  <2> QED
    BY <1>8, <2>2 DEF Joins, n
<1>9. CASE x # d[j]
  <2> DEFINE k == x - d[m]
             z == Len(W[j])
  <2>1. d[j] = (d[m] + z) + 1 /\ z \in Nat /\ d[j] \in Nat
    BY <1>1, <1>2, <1>6, TextFacts
  <2> HIDE DEF z
  <2>2. k \in 1..z /\ x = d[m] + k
    BY SMTT(60), <1>5, <1>7, <1>9, <2>1
  <2> HIDE DEF k
  <2>3. k \in 1..Len(W[j]) /\ x = d[j - 1] + k
    BY Zenon, <1>6, <2>2 DEF z
  <2> QED
    BY Zenon, <1>6, <2>3 DEF n
<1> QED
  BY <1>8, <1>9

\* A comma leaves the scanner where it was.
LEMMA CountedComma ==
    ASSUME NEW st \in ScanStates, st = ScanStart
    PROVE  Counted(st, ",") = ScanStart
<1>1. "," \in Char /\ "," \notin Brackets /\ "," # QuoteChar /\ "," # Esc
  BY DEF Char, Marks, Brackets, QuoteChar, Esc
<1>2. <<",">> \in Level
  BY <1>1, LevelChar
<1> DEFINE s == <<",">>
<1>3. s \in CharTexts /\ Len(s) = 1 /\ s[1] = ","
  BY <1>1, OneChar
<1> HIDE DEF s
<1>4. Counters(s)[1] = Counted(Counters(s)[0], ",") /\ Counters(s)[0] = ScanStart
  <2>0. 1 \in 1..1 /\ 1 - 1 = 0
    OBVIOUS
  <2>1. 1 \in 1..Len(s) /\ 1 - 1 = 0
    BY Zenon, <1>3, <2>0
  <2>2. \A i \in 1..Len(s) : Counters(s)[i] = Counted(Counters(s)[i - 1], s[i])
    BY <1>3, CountersSteps
  <2>3. Counters(s)[0] = ScanStart
    BY <1>3, CountersSteps
  <2>4. Counters(s)[1] = Counted(Counters(s)[1 - 1], s[1])
    BY Zenon, <2>1, <2>2
  <2> QED
    BY Zenon, <1>3, <2>1, <2>3, <2>4
<1>5. Counters(s)[1] = ScanStart
  BY Zenon, <1>2, <1>3 DEF Level, s
<1> QED
  BY Zenon, <1>4, <1>5

\* At the joins of level texts the scanner is at its start.
LEMMA JoinedStarts ==
    ASSUME NEW s \in CharTexts, NEW W, NEW d, JoinedAt(s, W, d), \A j \in 1..Len(W) : W[j] \in Level
    PROVE  \A j \in 0..(Len(W) - 1) : Counters(s)[d[j]] = ScanStart
<1> DEFINE n == Len(W)
           at == Counters(s)
           S == {j \in 0..(n - 1) : at[d[j]] = ScanStart}
<1>1. /\ n \in Nat /\ n >= 1 /\ d \in [0..n -> Nat] /\ d[0] = 0
      /\ \A j \in 1..n :
            W[j] \in CharTexts /\ d[j] = (d[j - 1] + Len(W[j])) + 1 /\ Holds(s, d[j - 1], W[j])
      /\ \A j \in 1..(n - 1) : s[d[j]] = ","
  BY DEF JoinedAt
<1>2. /\ \A j \in 1..(n - 1) : d[j] \in 1..Len(s)
  BY JoinedOrder
<1>3. /\ at \in [0..Len(s) -> ScanStates] /\ at[0] = ScanStart
      /\ \A i \in 1..Len(s) : at[i] = Counted(at[i - 1], s[i])
  BY CountersSteps
<1>4. \A j \in 1..n : W[j] \in Level
  OBVIOUS
<1> HIDE DEF n
<1>0. n \in Nat /\ n >= 1
  BY Zenon, <1>1
<1>5. 0 \in S
  <2>1. 0 \in 0..(n - 1)
    BY <1>0
  <2> QED
    BY <1>1, <1>3, <2>1
<1>6. ASSUME NEW i \in 0..(n - 1), i \in S, i < n - 1 PROVE i + 1 \in S
  <2> DEFINE j == i + 1
             a == d[i]
             B == W[j]
             x == d[j]
  <2>1. j \in 1..n /\ j \in 1..(n - 1) /\ j \in 0..(n - 1) /\ j - 1 = i
    <3>1. i \in 0..(n - 1) /\ i < n - 1
      BY <1>6
    <3> QED
      BY <1>0, <3>1
  <2>2. B \in CharTexts /\ x = (a + Len(B)) + 1 /\ Holds(s, a, B) /\ s[x] = "," /\ x \in 1..Len(s)
    BY <1>1, <1>2, <2>1
  <2>3. at[a] = ScanStart
    BY <1>6
  <2>4. at[x] = Counted(at[x - 1], s[x])
    BY <1>3, <2>2
  <2>5. B \in Level
    BY <1>4, <2>1
  <2> HIDE DEF a, B, x, j, at
  <2>6. Len(B) \in Nat /\ a \in Nat
    BY <2>2, TextFacts DEF Holds
  <2>7. x - 1 = a + Len(B) /\ Len(B) \in 0..Len(B)
    <3>1. x = (a + Len(B)) + 1
      BY <2>2
    <3> DEFINE z == Len(B)
    <3> HIDE DEF z
    <3>2. x = (a + z) + 1 /\ z \in Nat
      BY <2>6, <3>1 DEF z
    <3>3. x - 1 = a + z /\ z \in 0..z
      BY <2>6, <3>2
    <3> QED
      BY <3>3 DEF z
  <2>8. at[a + Len(B)] = Counters(B)[Len(B)]
    BY ZenonT(60), <2>2, <2>3, <2>7, ScanFrom DEF at
  <2>9. Counters(B)[Len(B)] = ScanStart
    BY <2>5 DEF Level
  <2>10. at[x - 1] = ScanStart
    BY Zenon, <2>7, <2>8, <2>9
  <2>11. Counted(at[x - 1], s[x]) = ScanStart
    BY Zenon, <2>2, <2>10, StartFacts, CountedComma
  <2>12. at[x] = ScanStart
    BY Zenon, <2>4, <2>11
  <2> QED
    BY <2>1, <2>12 DEF x, j
<1>7. 0..(n - 1) \subseteq S
  <2> HIDE DEF S
  <2>1. n - 1 \in Nat
    BY <1>0
  <2> DEFINE m == n - 1
  <2> HIDE DEF m
  <2>2. m \in Nat /\ 0 \in S /\ \A i \in 0..m : i \in S /\ i < m => i + 1 \in S
    BY <1>5, <1>6, <2>1 DEF m
  <2>3. 0..m \subseteq S
    BY <2>2, Ascend
  <2> QED
    BY <2>3 DEF m
<1> QED
  BY <1>7 DEF n

LEMMA JoinedLevel ==
    ASSUME NEW s \in CharTexts, NEW W, NEW d, JoinedAt(s, W, d), \A j \in 1..Len(W) : W[j] \in Level
    PROVE  /\ s \in Level
           /\ (\A j \in 1..Len(W) : ListCommas(W[j]) = {}) => ListCommas(s) = Joins(W, d)
           /\ (\A j \in 1..Len(W) : ObjectCommas(W[j]) = {}) => ObjectCommas(s) = Joins(W, d)
<1> DEFINE n == Len(W)
           at == Counters(s)
           M == Joins(W, d)
<1>1. /\ n \in Nat /\ n >= 1 /\ d \in [0..n -> Nat] /\ d[0] = 0 /\ d[n] = Len(s) + 1
      /\ \A j \in 1..n :
            W[j] \in CharTexts /\ d[j] = (d[j - 1] + Len(W[j])) + 1 /\ Holds(s, d[j - 1], W[j])
      /\ \A j \in 1..(n - 1) : s[d[j]] = ","
  BY DEF JoinedAt
<1>2. /\ \A j \in 1..n : d[j - 1] \in Nat /\ d[j] \in Nat
      /\ \A j \in 1..(n - 1) : d[j] \in 1..Len(s)
      /\ Len(s) \in Nat
  BY JoinedOrder
<1>3. \A j \in 0..(n - 1) : at[d[j]] = ScanStart
  BY JoinedStarts
<1>4. \A j \in 1..n : W[j] \in Level
  OBVIOUS
<1>5. M = {d[j] : j \in 1..(n - 1)}
  BY DEF Joins
<1>6. ASSUME NEW x \in 1..Len(s)
      PROVE  \/ x \in M
             \/ \E j \in 1..n : \E k \in 1..Len(W[j]) : x = d[j - 1] + k
  BY JoinedPlaces
<1> HIDE DEF n, M
<1>0. n \in Nat /\ n >= 1
  BY Zenon, <1>1
<1>7. ASSUME NEW j \in 1..n
      PROVE  /\ \A k \in 0..Len(W[j]) :
                   d[j - 1] + k \in 0..Len(s) /\ at[d[j - 1] + k] = Counters(W[j])[k]
             /\ \A k \in 1..Len(W[j]) :
                   /\ d[j - 1] + k \in ListCommas(s) <=> k \in ListCommas(W[j])
                   /\ d[j - 1] + k \in ObjectCommas(s) <=> k \in ObjectCommas(W[j])
  <2> DEFINE a == d[j - 1]
             B == W[j]
  <2>1. B \in CharTexts /\ Holds(s, a, B)
    BY <1>1
  <2>2. Counters(s)[a] = ScanStart
    <3>1. j - 1 \in 0..(n - 1)
      BY <1>0
    <3> QED
      BY <1>3, <3>1
  <2> HIDE DEF a, B, at
  <2>3. \A k \in 0..Len(B) : a + k \in 0..Len(s) /\ Counters(s)[a + k] = Counters(B)[k]
    BY <2>1, <2>2, ScanFrom
  <2>4. \A k \in 1..Len(B) :
            /\ a + k \in ListCommas(s) <=> k \in ListCommas(B)
            /\ a + k \in ObjectCommas(s) <=> k \in ObjectCommas(B)
    BY <2>1, <2>2, CommasInside
  <2> QED
    BY Zenon, <2>3, <2>4 DEF a, B, at
<1>8. ASSUME NEW x \in M
      PROVE  x \in 1..Len(s) /\ at[x] = ScanStart /\ s[x] = ","
  <2>1. PICK j \in 1..(n - 1) : x = d[j]
    BY <1>5
  <2>2. j \in 0..(n - 1)
    OBVIOUS
  <2> QED
    BY Zenon, <1>1, <1>2, <1>3, <2>1, <2>2
<1>9. M \subseteq ListCommas(s) /\ M \subseteq ObjectCommas(s)
  <2> SUFFICES ASSUME NEW x \in M PROVE x \in ListCommas(s) /\ x \in ObjectCommas(s)
    OBVIOUS
  <2>1. x \in DOMAIN s /\ Counters(s)[x] = ScanStart /\ s[x] = ","
    BY <1>8, TextFacts
  <2>2. /\ Counters(s)[x].in_object = 0 /\ Counters(s)[x].in_list = 0
        /\ Counters(s)[x].in_string = FALSE
    BY Zenon, <2>1, StartFacts
  <2>3. x \in ListCommas(s)
    BY <2>1, <2>2 DEF ListCommas
  <2>4. x \in ObjectCommas(s)
    BY <2>2, <2>3 DEF ObjectCommas
  <2> QED
    BY <2>3, <2>4
<1>10. ListCommas(s) \subseteq 1..Len(s) /\ ObjectCommas(s) \subseteq 1..Len(s)
  BY CommasIn
<1>11. ASSUME \A j \in 1..n : ListCommas(W[j]) = {} PROVE ListCommas(s) \subseteq M
  <2> SUFFICES ASSUME NEW x \in ListCommas(s), x \notin M PROVE FALSE
    OBVIOUS
  <2>1. x \in 1..Len(s)
    BY Zenon, <1>10
  <2>2. PICK j \in 1..n : \E k \in 1..Len(W[j]) : x = d[j - 1] + k
    BY Zenon, <1>6, <2>1
  <2>3. PICK k \in 1..Len(W[j]) : x = d[j - 1] + k
    BY Zenon, <2>2
  <2>4. k \in ListCommas(W[j])
    BY Zenon, <1>7, <2>3
  <2> QED
    BY Zenon, <1>11, <2>4
<1>12. ASSUME \A j \in 1..n : ObjectCommas(W[j]) = {} PROVE ObjectCommas(s) \subseteq M
  <2> SUFFICES ASSUME NEW x \in ObjectCommas(s), x \notin M PROVE FALSE
    OBVIOUS
  <2>1. x \in 1..Len(s)
    BY Zenon, <1>10
  <2>2. PICK j \in 1..n : \E k \in 1..Len(W[j]) : x = d[j - 1] + k
    BY Zenon, <1>6, <2>1
  <2>3. PICK k \in 1..Len(W[j]) : x = d[j - 1] + k
    BY Zenon, <2>2
  <2>4. k \in ObjectCommas(W[j])
    BY Zenon, <1>7, <2>3
  <2> QED
    BY Zenon, <1>12, <2>4
<1>13. s \in Level
  <2>1. at[Len(s)] = ScanStart
    <3> DEFINE z == Len(W[n])
    <3>1. n \in 1..n
      BY <1>0
    <3>5. W[n] \in CharTexts /\ d[n] = (d[n - 1] + z) + 1 /\ d[n - 1] \in Nat
      BY Zenon, <1>1, <1>2, <3>1
    <3>6. z \in Nat
      BY <3>5, TextFacts
    <3>2. Len(s) = d[n - 1] + z /\ z \in 0..z
      <4> DEFINE a == d[n - 1]
                 y == Len(s)
      <4>1. y + 1 = (a + z) + 1 /\ a \in Nat /\ y \in Nat
        BY Zenon, <1>1, <1>2, <3>5
      <4> HIDE DEF a, z, y
      <4>2. y = a + z /\ z \in 0..z
        BY <3>6, <4>1
      <4> QED
        BY Zenon, <4>2 DEF a, y, z
    <3>3. at[d[n - 1] + z] = Counters(W[n])[z]
      BY Zenon, <1>7, <3>1, <3>2
    <3>4. Counters(W[n])[z] = ScanStart
      BY <1>4, <3>1 DEF Level
    <3> QED
      BY Zenon, <3>2, <3>3, <3>4
  <2>2. ASSUME NEW x \in 0..Len(s)
        PROVE  at[x].in_object >= 0 /\ at[x].in_list >= 0
    <3>1. CASE x = 0
      <4>1. at[x] = ScanStart
        BY <3>1, CountersSteps
      <4> QED
        BY <4>1, StartFacts
    <3>2. CASE x \in M
      <4>1. at[x] = ScanStart
        BY <1>8, <3>2
      <4> QED
        BY <4>1, StartFacts
    <3>3. CASE x # 0 /\ x \notin M
      <4>1. PICK j \in 1..n : \E k \in 1..Len(W[j]) : x = d[j - 1] + k
        <5>1. x \in 1..Len(s)
          BY <1>2, <3>3
        <5> QED
          BY Zenon, <1>6, <3>3, <5>1
      <4>2. PICK k \in 1..Len(W[j]) : x = d[j - 1] + k
        BY <4>1
      <4>3. k \in 0..Len(W[j])
        <5>1. W[j] \in CharTexts
          BY Zenon, <1>1
        <5>2. Len(W[j]) \in Nat
          BY <5>1, TextFacts
        <5> QED
          BY <5>2
      <4>4. at[x] = Counters(W[j])[k]
        BY Zenon, <1>7, <4>2, <4>3
      <4>5. Counters(W[j])[k].in_object >= 0 /\ Counters(W[j])[k].in_list >= 0
        BY <1>4, <4>3 DEF Level
      <4> QED
        BY Zenon, <4>4, <4>5
    <3> QED
      BY <3>1, <3>2, <3>3
  <2> QED
    BY <2>1, <2>2 DEF Level
<1> QED
  BY <1>9, <1>11, <1>12, <1>13 DEF n, M

----------------------------------------------------------------------------
(* Texts that close their quotes and have commas inside them only: whatever   *)
(* the strings of a printed object hold, its joins are the only separators.   *)

Quiet ==
    {B \in CharTexts :
        /\ Counters(B)[Len(B)].in_string = FALSE /\ Counters(B)[Len(B)].escape = FALSE
        /\ \A k \in 1..Len(B) : B[k] = "," => Counters(B)[k].in_string = TRUE}

\* The quotes of a text inside another are found as in it alone.
LEMMA QuietInside ==
    ASSUME NEW s \in CharTexts, NEW B \in Quiet, NEW a, Holds(s, a, B),
           Counters(s)[a].in_string = FALSE, Counters(s)[a].escape = FALSE
    PROVE  /\ Counters(s)[a + Len(B)].in_string = FALSE /\ Counters(s)[a + Len(B)].escape = FALSE
           /\ \A k \in 1..Len(B) : s[a + k] = "," => Counters(s)[a + k].in_string = TRUE
<1>0. /\ B \in CharTexts
      /\ Counters(B)[Len(B)].in_string = FALSE /\ Counters(B)[Len(B)].escape = FALSE
      /\ \A k \in 1..Len(B) : B[k] = "," => Counters(B)[k].in_string = TRUE
  BY DEF Quiet
<1>1. \A k \in 0..Len(B) : Beyond(Counters(s)[a + k], Counters(s)[a], Counters(B)[k])
  BY <1>0, ScanInside
<1>2. \A k \in 0..Len(B) : /\ Counters(s)[a + k].in_string = Counters(B)[k].in_string
                           /\ Counters(s)[a + k].escape = Counters(B)[k].escape
  BY Zenon, <1>1 DEF Beyond
<1>3. Len(B) \in 0..Len(B) /\ \A k \in 1..Len(B) : k \in 0..Len(B)
  <2>1. Len(B) \in Nat
    BY <1>0, TextFacts
  <2> QED
    BY <2>1
<1>4. \A k \in 1..Len(B) : s[a + k] = B[k]
  BY DEF Holds
<1> QED
  BY ZenonT(60), <1>0, <1>2, <1>3, <1>4

LEMMA QuietBoth ==
    ASSUME NEW A \in Quiet, NEW B \in Quiet
    PROVE  A \o B \in Quiet
<1> DEFINE s == A \o B
           m == Len(A)
           n == Len(B)
<1>0. A \in CharTexts /\ B \in CharTexts
  BY DEF Quiet
<1>1. m \in Nat /\ n \in Nat
  BY <1>0, TextFacts
<1>2. s \in CharTexts /\ Len(s) = m + n /\ Holds(s, 0, A) /\ Holds(s, m, B)
  BY <1>0, Concatenated
<1> HIDE DEF s
<1>3. Counters(s)[0].in_string = FALSE /\ Counters(s)[0].escape = FALSE
  BY Zenon, <1>2, CountersSteps, StartFacts
<1>4. /\ Counters(s)[0 + m].in_string = FALSE /\ Counters(s)[0 + m].escape = FALSE
      /\ \A k \in 1..m : s[0 + k] = "," => Counters(s)[0 + k].in_string = TRUE
  BY <1>2, <1>3, QuietInside
<1>5. 0 + m = m /\ \A k \in 1..m : 0 + k = k
  BY <1>1
<1>6. /\ Counters(s)[m + n].in_string = FALSE /\ Counters(s)[m + n].escape = FALSE
      /\ \A k \in 1..n : s[m + k] = "," => Counters(s)[m + k].in_string = TRUE
  <2>1. Counters(s)[m].in_string = FALSE /\ Counters(s)[m].escape = FALSE
    BY Zenon, <1>4, <1>5
  <2> QED
    BY <1>2, <2>1, QuietInside
<1> HIDE DEF m, n
<1>7. ASSUME NEW x \in 1..Len(s), s[x] = "," PROVE Counters(s)[x].in_string = TRUE
  <2>1. CASE x <= m
    <3>1. x \in 1..m
      BY <1>1, <1>2, <2>1
    <3>2. 0 + x = x
      BY <1>5, <3>1
    <3> QED
      BY Zenon, <1>4, <1>7, <3>1, <3>2
  <2>2. CASE x > m
    <3> DEFINE k == x - m
    <3>1. k \in 1..n /\ x = m + k
      BY <1>1, <1>2, <2>2
    <3> HIDE DEF k
    <3> QED
      BY Zenon, <1>6, <1>7, <3>1
  <2>3. x <= m \/ x > m
    BY <1>1, <1>2
  <2> QED
    BY Zenon, <2>1, <2>2, <2>3
<1>8. s \in Quiet
  BY Zenon, <1>2, <1>6, <1>7 DEF Quiet
<1> QED
  BY <1>8 DEF s

LEMMA QuietQuoted ==
    ASSUME NEW s \in CharTexts
    PROVE  QuotedText(s) \in Quiet
<1> DEFINE q == QuotedText(s)
<1>1. q \in CharTexts /\ q[Len(q)] = QuoteChar /\ Len(q) \in Nat
  BY QuotedParts, TextFacts
<1>2. /\ \A k \in 1..(Len(q) - 1) : Counters(q)[k].in_string = TRUE
      /\ Counters(q)[Len(q)].in_string = FALSE
      /\ Counters(q)[Len(q)].escape = FALSE
  BY QuotedScan
<1> HIDE DEF q
<1>3. ASSUME NEW k \in 1..Len(q), q[k] = "," PROVE Counters(q)[k].in_string = TRUE
  <2>1. k # Len(q)
    BY <1>1, <1>3 DEF QuoteChar
  <2>2. k \in 1..(Len(q) - 1)
    BY <1>1, <2>1
  <2> QED
    BY Zenon, <1>2, <2>2
<1> QED
  BY Zenon, <1>1, <1>2, <1>3 DEF Quiet, q

Comma == ","

LEMMA QuietChar ==
    ASSUME NEW c \in Char, c \notin {QuoteChar, Esc, Comma}
    PROVE  <<c>> \in Quiet
<1> DEFINE s == <<c>>
<1>1. s \in CharTexts /\ Len(s) = 1 /\ s[1] = c
  BY OneChar
<1> HIDE DEF s
<1>2. Counters(s)[0] = ScanStart /\ Counters(s)[1] = Counted(ScanStart, c)
  <2>0. 1 \in 1..1 /\ 1 - 1 = 0
    OBVIOUS
  <2>1. /\ Counters(s)[0] = ScanStart
        /\ \A i \in 1..Len(s) : Counters(s)[i] = Counted(Counters(s)[i - 1], s[i])
    BY <1>1, CountersSteps
  <2>2. Counters(s)[1] = Counted(Counters(s)[1 - 1], s[1])
    BY Zenon, <1>1, <2>0, <2>1
  <2> QED
    BY Zenon, <1>1, <2>0, <2>1, <2>2
<1>3. Counters(s)[1].in_string = FALSE /\ Counters(s)[1].escape = FALSE
  <2>1. c # QuoteChar /\ c # Esc
    OBVIOUS
  <2> QED
    <3>1. /\ Counted(ScanStart, c).in_string = ScanStart.in_string
          /\ Counted(ScanStart, c).escape = FALSE
      BY Zenon, <2>1, CountedPlain
    <3> QED
      BY Zenon, <1>2, <3>1, StartFacts
<1>4. \A k \in 1..Len(s) : s[k] # Comma
  <2>1. \A k \in 1..1 : k = 1
    OBVIOUS
  <2> QED
    BY <1>1, <2>1
<1> QED
  BY Zenon, <1>1, <1>3, <1>4 DEF Quiet, s, Comma

LEMMA QuietEmpty == <<>> \in Quiet
<1>1. <<>> \in CharTexts /\ Len(<<>>) = 0
  BY EmptySeq DEF CharTexts
<1>2. Counters(<<>>)[0] = ScanStart
  BY <1>1, CountersSteps
<1>3. \A k \in 1..0 : FALSE
  OBVIOUS
<1> QED
  BY Zenon, <1>1, <1>2, <1>3, StartFacts DEF Quiet

\* Joined, such texts are separated at joins only.
LEMMA JoinedQuiet ==
    ASSUME NEW s \in CharTexts, NEW W, NEW d, JoinedAt(s, W, d), \A j \in 1..Len(W) : W[j] \in Quiet
    PROVE  ObjectCommas(s) \subseteq Joins(W, d)
<1> DEFINE n == Len(W)
           at == Counters(s)
           S == {j \in 0..(n - 1) : at[d[j]].in_string = FALSE /\ at[d[j]].escape = FALSE}
<1>1. /\ n \in Nat /\ n >= 1 /\ d \in [0..n -> Nat] /\ d[0] = 0
      /\ \A j \in 1..n :
            W[j] \in CharTexts /\ d[j] = (d[j - 1] + Len(W[j])) + 1 /\ Holds(s, d[j - 1], W[j])
      /\ \A j \in 1..(n - 1) : s[d[j]] = ","
  BY DEF JoinedAt
<1>2. /\ \A j \in 1..(n - 1) : d[j] \in 1..Len(s)
  BY JoinedOrder
<1>3. /\ at \in [0..Len(s) -> ScanStates] /\ at[0] = ScanStart
      /\ \A i \in 1..Len(s) : at[i] = Counted(at[i - 1], s[i])
  BY CountersSteps
<1>4. \A j \in 1..n : W[j] \in Quiet
  OBVIOUS
<1>x. ASSUME NEW x \in 1..Len(s)
      PROVE  \/ x \in Joins(W, d)
             \/ \E j \in 1..n : \E k \in 1..Len(W[j]) : x = d[j - 1] + k
  BY JoinedPlaces
<1> HIDE DEF n
<1>0. n \in Nat /\ n >= 1
  BY Zenon, <1>1
<1>5. 0 \in S
  <2>1. 0 \in 0..(n - 1)
    BY <1>0
  <2>2. at[d[0]].in_string = FALSE /\ at[d[0]].escape = FALSE
    BY Zenon, <1>1, <1>3, StartFacts
  <2> QED
    BY Zenon, <2>1, <2>2
<1>6. ASSUME NEW i \in 0..(n - 1), i \in S, i < n - 1 PROVE i + 1 \in S
  <2> DEFINE j == i + 1
             a == d[i]
             B == W[j]
             x == d[j]
             z == Len(B)
  <2>1. j \in 1..n /\ j \in 1..(n - 1) /\ j \in 0..(n - 1) /\ j - 1 = i
    <3>1. i \in 0..(n - 1) /\ i < n - 1
      BY <1>6
    <3> QED
      BY <1>0, <3>1
  <2>2. B \in Quiet /\ x = (a + z) + 1 /\ Holds(s, a, B) /\ s[x] = "," /\ x \in 1..Len(s)
    BY Zenon, <1>1, <1>2, <1>4, <2>1
  <2>3. at[a].in_string = FALSE /\ at[a].escape = FALSE
    BY Zenon, <1>6
  <2>4. at[x] = Counted(at[x - 1], s[x])
    BY <1>3, <2>2
  <2> HIDE DEF a, B, x, j
  <2>6. z \in Nat /\ a \in Nat
    BY <2>2, TextFacts DEF Holds, Quiet
  <2> HIDE DEF z
  <2>7. x - 1 = a + z
    <3>1. x = (a + z) + 1
      BY <2>2
    <3> QED
      BY <2>6, <3>1
  <2>8. at[a + z].in_string = FALSE /\ at[a + z].escape = FALSE
    <3> USE DEF z
    <3> QED
      BY ZenonT(60), <2>2, <2>3, QuietInside
  <2> HIDE DEF at
  <2>9. at[x].in_string = FALSE /\ at[x].escape = FALSE
    <3>1. "," # QuoteChar /\ "," # Esc
      BY DEF QuoteChar, Esc
    <3>2. at[x] = Counted(at[a + z], ",")
      BY Zenon, <2>2, <2>4, <2>7
    <3> QED
      <4> DEFINE st == at[a + z]
      <4> HIDE DEF st
      <4>1. Counted(st, ",").in_string = st.in_string /\ Counted(st, ",").escape = FALSE
        BY Zenon, <3>1, CountedPlain
      <4> QED
        BY Zenon, <2>8, <3>2, <4>1 DEF st
  <2>10. at[d[j]].in_string = FALSE /\ at[d[j]].escape = FALSE
    BY Zenon, <2>9 DEF x
  <2>11. j \in S
    BY Zenon, <2>1, <2>10
  <2> QED
    BY Zenon, <2>11 DEF j
<1>7. 0..(n - 1) \subseteq S
  <2> HIDE DEF S
  <2>1. n - 1 \in Nat
    BY <1>0
  <2> DEFINE m == n - 1
  <2> HIDE DEF m
  <2>2. m \in Nat /\ 0 \in S /\ \A i \in 0..m : i \in S /\ i < m => i + 1 \in S
    BY <1>5, <1>6, <2>1 DEF m
  <2>3. 0..m \subseteq S
    BY <2>2, Ascend
  <2> QED
    BY <2>3 DEF m
<1>8. ASSUME NEW x \in ObjectCommas(s), x \notin Joins(W, d) PROVE FALSE
  <2>1. x \in 1..Len(s) /\ s[x] = "," /\ ~at[x].in_string
    BY <1>8, TextFacts DEF ObjectCommas, ListCommas
  <2>2. PICK j \in 1..n : \E k \in 1..Len(W[j]) : x = d[j - 1] + k
    BY Zenon, <1>x, <1>8, <2>1
  <2>3. PICK k \in 1..Len(W[j]) : x = d[j - 1] + k
    BY Zenon, <2>2
  <2> DEFINE a == d[j - 1]
             B == W[j]
  <2>4. j - 1 \in 0..(n - 1)
    BY <1>0
  <2>5. at[a].in_string = FALSE /\ at[a].escape = FALSE
    BY Zenon, <1>7, <2>4
  <2>6. B \in Quiet /\ Holds(s, a, B) /\ x = a + k /\ k \in 1..Len(B)
    BY Zenon, <1>1, <1>4, <2>3
  <2> HIDE DEF a, B
  <2>7. \A y \in 1..Len(B) : s[a + y] = "," => at[a + y].in_string = TRUE
    BY <2>5, <2>6, QuietInside
  <2> HIDE DEF at
  <2>8. at[x].in_string = TRUE
    BY Zenon, <2>1, <2>6, <2>7
  <2> QED
    BY Zenon, <2>1, <2>8
<1> QED
  BY Zenon, <1>8

----------------------------------------------------------------------------
(* What Bracketed prints between its brackets.                              *)

\* The whitespace before the closing bracket belongs to the last part.
Widened(T, pad) == [j \in DOMAIN T |-> IF j = Len(T) THEN T[j] \o pad ELSE T[j]]

LEMMA WidenedFacts ==
    ASSUME NEW T \in Seq(CharTexts), NEW pad \in CharTexts
    PROVE  /\ Widened(T, pad) \in Seq(CharTexts) /\ Len(Widened(T, pad)) = Len(T)
           /\ \A j \in 1..Len(T) :
                 /\ T[j] \in CharTexts /\ Widened(T, pad)[j] \in CharTexts
                 /\ Widened(T, pad)[j] = IF j = Len(T) THEN T[j] \o pad ELSE T[j]
<1> DEFINE n == Len(T)
           W == Widened(T, pad)
<1>1. n \in Nat /\ DOMAIN T = 1..n /\ \A j \in 1..n : T[j] \in CharTexts
  BY LenProperties, ElementOfSeq
<1>2. \A j \in 1..n : T[j] \o pad \in CharTexts
  BY <1>1, Concatenated
<1>3. W = [j \in 1..n |-> IF j = n THEN T[j] \o pad ELSE T[j]]
  BY Zenon, <1>1 DEF Widened
<1> HIDE DEF n, W
<1>4. \A j \in 1..n : W[j] = IF j = n THEN T[j] \o pad ELSE T[j]
  BY Zenon, <1>3
<1>5. \A j \in 1..n : W[j] \in CharTexts
  BY <1>1, <1>2, <1>4
<1>6. W \in Seq(CharTexts) /\ Len(W) = n
  <2>1. W \in [1..n -> CharTexts]
    BY <1>3, <1>5
  <2> QED
    BY <1>1, <2>1
<1> QED
  BY <1>1, <1>4, <1>5, <1>6 DEF n, W

CommaFirst(T) == [i \in DOMAIN T |-> (IF i = 1 THEN <<>> ELSE <<Comma>>) \o T[i]]

LEMMA BodyShape ==
    ASSUME NEW T \in Seq(CharTexts), Len(T) >= 1, NEW pad \in CharTexts
    PROVE  /\ Separated(T) \o pad \in CharTexts
           /\ \E d : JoinedAt(Separated(T) \o pad, Widened(T, pad), d)
<1> DEFINE n == Len(T)
           Q == CommaFirst(T)
           F == FlattenSeq(Q)
           W == Widened(T, pad)
           s == F \o pad
<1>0. /\ n \in Nat /\ n >= 1 /\ DOMAIN T = 1..n /\ \A j \in 1..n : T[j] \in CharTexts
      /\ W \in Seq(CharTexts) /\ Len(W) = n
      /\ \A j \in 1..n : W[j] \in CharTexts /\ W[j] = IF j = n THEN T[j] \o pad ELSE T[j]
  BY LenProperties, WidenedFacts
<1>1. Separated(T) = F
  BY Zenon DEF Separated, CommaFirst, Comma
<1>2. Comma \in Char
  BY Zenon DEF Char, Marks, Comma
<1>3. /\ <<>> \in CharTexts /\ Len(<<>>) = 0
      /\ <<Comma>> \in CharTexts /\ Len(<<Comma>>) = 1 /\ <<Comma>>[1] = Comma
  <2>1. <<>> \in CharTexts /\ Len(<<>>) = 0
    BY EmptySeq DEF CharTexts
  <2> QED
    BY Zenon, <1>2, <2>1, OneChar
<1> HIDE DEF n, W
<1>4. /\ Q \in Seq(CharTexts) /\ Len(Q) = n
      /\ \A i \in 1..n : Q[i] = (IF i = 1 THEN <<>> ELSE <<Comma>>) \o T[i] /\ Q[i] \in CharTexts
  <2>1. Q = [i \in 1..n |-> (IF i = 1 THEN <<>> ELSE <<Comma>>) \o T[i]]
    BY Zenon, <1>0 DEF CommaFirst
  <2> HIDE DEF Q
  <2>2. \A i \in 1..n : Q[i] = (IF i = 1 THEN <<>> ELSE <<Comma>>) \o T[i]
    BY Zenon, <2>1
  <2>3. ASSUME NEW i \in 1..n PROVE Q[i] \in CharTexts
    <3> DEFINE A == IF i = 1 THEN <<>> ELSE <<Comma>>
    <3>1. A \in CharTexts /\ T[i] \in CharTexts
      BY <1>0, <1>3
    <3> HIDE DEF A
    <3>2. A \o T[i] \in CharTexts
      BY <3>1, Concatenated
    <3>3. Q[i] = A \o T[i]
      BY Zenon, <2>2 DEF A
    <3> QED
      BY <3>2, <3>3
  <2>4. Q \in [1..n -> CharTexts]
    BY <2>1, <2>3
  <2>5. n \in Nat
    BY Zenon, <1>0
  <2>6. Q \in Seq(CharTexts) /\ Len(Q) = n
    BY <2>4, <2>5
  <2> QED
    BY Zenon, <2>2, <2>3, <2>6
<1> HIDE DEF Q
<1>5. /\ F \in CharTexts
      /\ \E off \in [0..n -> Nat] :
            /\ off[0] = 0 /\ off[n] = Len(F)
            /\ \A i \in 1..n : off[i] = off[i - 1] + Len(Q[i]) /\ Holds(F, off[i - 1], Q[i])
  <2>1. /\ FlattenSeq(Q) \in CharTexts
        /\ \E off \in [0..Len(Q) -> Nat] :
              /\ off[0] = 0 /\ off[Len(Q)] = Len(FlattenSeq(Q))
              /\ \A i \in 1..Len(Q) :
                    /\ off[i] = off[i - 1] + Len(Q[i])
                    /\ Holds(FlattenSeq(Q), off[i - 1], Q[i])
    BY <1>4, FlatTexts
  <2>2. Len(Q) = n
    BY Zenon, <1>4
  <2> QED
    BY Zenon, <2>1, <2>2
<1>6. PICK off \in [0..n -> Nat] :
            /\ off[0] = 0 /\ off[n] = Len(F)
            /\ \A i \in 1..n : off[i] = off[i - 1] + Len(Q[i]) /\ Holds(F, off[i - 1], Q[i])
  BY Zenon, <1>5
<1> HIDE DEF F
<1>7. /\ s \in CharTexts /\ Len(s) = Len(F) + Len(pad) /\ Holds(s, 0, F) /\ Holds(s, Len(F), pad)
  BY <1>5, Concatenated
<1> HIDE DEF s
<1>8. Len(F) \in Nat /\ Len(pad) \in Nat /\ n \in Nat /\ n >= 1
  BY Zenon, <1>0, <1>5, TextFacts
<1> DEFINE d == [j \in 0..n |-> IF j = 0 THEN 0 ELSE IF j = n THEN Len(s) + 1 ELSE off[j] + 1]
<1>9. /\ d[0] = 0 /\ d[n] = Len(s) + 1 /\ \A j \in 1..(n - 1) : d[j] = off[j] + 1
      /\ d \in [0..n -> Nat]
  <2>1. \A j \in 0..n : off[j] \in Nat
    BY <1>6
  <2>2. Len(s) \in Nat
    BY <1>7, <1>8
  <2> DEFINE z == Len(s)
  <2> HIDE DEF z
  <2>3. z \in Nat
    BY <2>2 DEF z
  <2>4. d = [j \in 0..n |-> IF j = 0 THEN 0 ELSE IF j = n THEN z + 1 ELSE off[j] + 1]
    BY DEF z
  <2> HIDE DEF d
  <2>5. /\ d[0] = 0 /\ d[n] = z + 1 /\ \A j \in 1..(n - 1) : d[j] = off[j] + 1
        /\ d \in [0..n -> Nat]
    BY <1>8, <2>1, <2>3, <2>4
  <2> QED
    BY <2>5 DEF z
<1> HIDE DEF d
\* Part j without its comma.
<1>10. ASSUME NEW j \in 1..n
       PROVE  /\ Holds(F, d[j - 1], T[j]) /\ off[j] = d[j - 1] + Len(T[j])
              /\ j > 1 => F[d[j - 1]] = Comma
  <2>0. T[j] \in CharTexts /\ Len(T[j]) \in Nat
    BY Zenon, <1>0, TextFacts
  <2> DEFINE U == T[j]
             a == off[j - 1]
             A == IF j = 1 THEN <<>> ELSE <<Comma>>
             q == Q[j]
  <2>1. off[j] = a + Len(q) /\ Holds(F, a, q) /\ q = A \o U
    BY Zenon, <1>4, <1>6
  <2>2. A \in CharTexts /\ Len(A) = IF j = 1 THEN 0 ELSE 1
    BY <1>3
  <2>3. j - 1 \in 0..n
    BY <1>8
  <2>4. a \in Nat
    BY <1>6, <2>3
  <2> HIDE DEF U, q
  <2>5. U \in CharTexts /\ Len(U) \in Nat
    BY Zenon, <2>0 DEF U
  <2>6. CASE j = 1
    <3>1. A = <<>> /\ Len(A) = 0 /\ j - 1 = 0
      BY <1>3, <2>6
    <3>2. a = 0
      BY Zenon, <1>6, <3>1
    <3> HIDE DEF A, a
    <3>3. Holds(F, a + Len(A), U) /\ Len(q) = Len(A) + Len(U)
      <4>1. Holds(F, a, A \o U)
        BY Zenon, <2>1
      <4>2. Len(A \o U) = Len(A) + Len(U)
        BY <2>2, <2>5, Concatenated
      <4>3. Holds(F, a + Len(A), U)
        BY <1>5, <2>2, <2>5, <4>1, HoldsBoth
      <4> QED
        BY Zenon, <2>1, <4>2, <4>3
    <3>4. a + Len(A) = 0 /\ a + Len(q) = 0 + Len(U)
      BY <2>5, <3>1, <3>2, <3>3
    <3>5. d[j - 1] = 0
      BY Zenon, <1>9, <3>1
    <3>6. Holds(F, d[j - 1], U) /\ off[j] = d[j - 1] + Len(U)
      BY Zenon, <2>1, <3>3, <3>4, <3>5
    <3> QED
      BY <2>6, <3>6 DEF U
  <2>7. CASE j # 1
    <3>1. A = <<Comma>> /\ Len(A) = 1
      BY <1>3, <2>7
    <3>2. j - 1 \in 1..(n - 1)
      BY <1>8, <2>7
    <3>3. d[j - 1] = a + 1
      BY Zenon, <1>9, <3>2
    <3> HIDE DEF A, a
    <3>4. Holds(F, a, A) /\ Holds(F, a + Len(A), U) /\ Len(q) = Len(A) + Len(U)
      <4>1. Holds(F, a, A \o U)
        BY Zenon, <2>1
      <4>2. Len(A \o U) = Len(A) + Len(U)
        BY <2>2, <2>5, Concatenated
      <4>3. Holds(F, a, A) /\ Holds(F, a + Len(A), U)
        BY <1>5, <2>2, <2>5, <4>1, HoldsBoth
      <4> QED
        BY Zenon, <2>1, <4>2, <4>3
    <3>5. F[a + 1] = Comma
      <4>1. Holds(F, a, <<Comma>>)
        BY Zenon, <3>1, <3>4
      <4> QED
        BY Zenon, <1>2, <4>1, HoldsChar
    <3>6. a + Len(q) = (a + 1) + Len(U)
      <4> DEFINE y == Len(q)
                 u == Len(U)
      <4>1. y = 1 + u /\ u \in Nat
        BY Zenon, <2>5, <3>1, <3>4
      <4> HIDE DEF y, u
      <4>2. a + y = (a + 1) + u
        BY <2>4, <4>1
      <4> QED
        BY Zenon, <4>2 DEF y, u
    <3>7. Holds(F, d[j - 1], U) /\ off[j] = d[j - 1] + Len(U) /\ F[d[j - 1]] = Comma
      BY Zenon, <2>1, <3>1, <3>3, <3>4, <3>5, <3>6
    <3> QED
      BY Zenon, <3>7 DEF U
  <2> QED
    BY <2>6, <2>7
<1>11. \A j \in 0..n : d[j] \in Nat
  BY <1>9
<1>12. ASSUME NEW j \in 1..n
       PROVE  W[j] \in CharTexts /\ d[j] = (d[j - 1] + Len(W[j])) + 1 /\ Holds(s, d[j - 1], W[j])
  <2> DEFINE U == T[j]
             a == d[j - 1]
  <2>1. /\ W[j] \in CharTexts /\ W[j] = IF j = n THEN U \o pad ELSE U
        /\ Holds(F, a, U) /\ off[j] = a + Len(U) /\ U \in CharTexts
    BY Zenon, <1>0, <1>10
  <2>2. j - 1 \in 0..n
    BY <1>8
  <2>3. a \in Nat
    BY <1>11, <2>2
  <2> HIDE DEF U, a
  <2>4. Len(U) \in Nat
    BY Zenon, <2>1, TextFacts
  <2>5. Holds(s, a, U)
    <3>1. Holds(s, 0 + a, U)
      BY <1>5, <1>7, <2>1, HoldsDeep
    <3> QED
      BY <2>3, <3>1
  <2>6. CASE j # n
    <3>1. j \in 1..(n - 1)
      BY <1>8, <2>6
    <3>2. d[j] = (a + Len(U)) + 1
      BY Zenon, <1>9, <2>1, <3>1
    <3> QED
      BY Zenon, <2>1, <2>5, <2>6, <3>2 DEF a
  <2>7. CASE j = n
    <3>1. W[j] = U \o pad /\ off[j] = Len(F) /\ d[j] = Len(s) + 1
      BY Zenon, <1>6, <1>9, <2>1, <2>7
    <3>2. Holds(s, a + Len(U), pad)
      BY Zenon, <1>7, <2>1, <3>1
    <3>3. Holds(s, a, U \o pad)
      BY <1>7, <2>1, <2>5, <3>2, HoldsJoin
    <3>4. Len(U \o pad) = Len(U) + Len(pad)
      BY <2>1, Concatenated
    <3>5. d[j] = (a + (Len(U) + Len(pad))) + 1
      <4> DEFINE x == Len(F)
                 y == Len(pad)
                 z == Len(U)
      <4>1. d[j] = (x + y) + 1 /\ x = a + z /\ x \in Nat /\ y \in Nat /\ z \in Nat
        BY Zenon, <1>7, <1>8, <2>1, <2>4, <3>1
      <4> HIDE DEF x, y, z
      <4>2. d[j] = (a + (z + y)) + 1
        BY <2>3, <4>1
      <4> QED
        BY Zenon, <4>2 DEF y, z
    <3> QED
      BY Zenon, <2>1, <3>1, <3>3, <3>4, <3>5 DEF a
  <2> QED
    BY <2>6, <2>7
<1>13. ASSUME NEW j \in 1..(n - 1) PROVE s[d[j]] = Comma
  <2>1. j + 1 \in 1..n /\ j + 1 > 1 /\ (j + 1) - 1 = j /\ j \in 1..n /\ j \in 0..n
    BY <1>8
  <2>2. F[d[j]] = Comma
    BY Zenon, <1>10, <2>1
  <2> DEFINE x == d[j]
  <2>3. x = off[j] + 1 /\ off[j] \in Nat
    BY <1>6, <1>9, <2>1
  <2>4. Holds(F, d[(j + 1) - 1], T[j + 1])
    BY Zenon, <1>10, <2>1
  <2>5. Holds(F, x, T[j + 1]) /\ Len(T[j + 1]) \in Nat
    BY Zenon, <1>0, <2>1, <2>4, TextFacts
  <2> HIDE DEF x
  <2>6. x <= Len(F)
    <3> DEFINE u == Len(T[j + 1])
    <3>1. x + u <= Len(F) /\ u \in Nat /\ x \in Nat
      BY Zenon, <2>5 DEF Holds
    <3> HIDE DEF u
    <3> QED
      BY <1>8, <3>1
  <2>7. x \in 1..Len(F) /\ 0 + x = x
    BY SMTT(60), <1>8, <2>3, <2>6
  <2>8. s[0 + x] = F[x]
    BY Zenon, <1>7, <2>7 DEF Holds
  <2> QED
    BY Zenon, <2>2, <2>7, <2>8 DEF x
<1>14. JoinedAt(s, W, d)
  <2>1. Len(W) = n
    BY Zenon, <1>0
  <2>2. /\ W \in Seq(CharTexts) /\ n \in Nat /\ n >= 1
        /\ d \in [0..n -> Nat] /\ d[0] = 0 /\ d[n] = Len(s) + 1
        /\ \A j \in 1..n :
             W[j] \in CharTexts /\ d[j] = (d[j - 1] + Len(W[j])) + 1 /\ Holds(s, d[j - 1], W[j])
        /\ \A j \in 1..(n - 1) : s[d[j]] = ","
    BY Zenon, <1>0, <1>9, <1>12, <1>13 DEF Comma
  <2> QED
    BY Zenon, <2>1, <2>2 DEF JoinedAt
<1>15. s = Separated(T) \o pad
  BY Zenon, <1>1 DEF s
<1> QED
  BY Zenon, <1>7, <1>14, <1>15 DEF W

\* The brackets of an object and of a list, and what the scanner counts for them.
Enclosing == {<<"{", "}">>, <<"[", "]">>}

LEMMA EnclosingFacts ==
    ASSUME NEW p \in Enclosing
    PROVE  /\ p[1] \in Char /\ p[2] \in Char /\ p[1] # Comma /\ p[2] # Comma
           /\ p[1] # QuoteChar /\ p[1] # Esc /\ p[2] # QuoteChar /\ p[2] # Esc
           /\ p[1] # "ws" /\ p[2] # "ws"
           /\ \E u, v \in 0..1 :
                 /\ u + v = 1
                 /\ Count(p[1], "{", "}") = u /\ Count(p[1], "[", "]") = v
                 /\ u + Count(p[2], "{", "}") = 0 /\ v + Count(p[2], "[", "]") = 0
<1>0. 1 \in 0..1 /\ 0 \in 0..1 /\ 1 + 0 = 1 /\ 0 + 1 = 1 /\ 0 + 0 = 0 /\ 1 + (-1) = 0
  OBVIOUS
<1>1. CASE p = <<"{", "}">>
  <2>1. p[1] = "{" /\ p[2] = "}"
    BY <1>1
  <2>2. Count("{", "{", "}") = 1 /\ Count("{", "[", "]") = 0
    BY Zenon DEF Count
  <2>3. Count("}", "{", "}") = -1 /\ Count("}", "[", "]") = 0
    BY Zenon DEF Count
  <2>5. \E u, v \in 0..1 :
                 /\ u + v = 1
                 /\ Count(p[1], "{", "}") = u /\ Count(p[1], "[", "]") = v
                 /\ u + Count(p[2], "{", "}") = 0 /\ v + Count(p[2], "[", "]") = 0
    BY Zenon, <1>0, <2>1, <2>2, <2>3
  <2> QED
    BY Zenon, <2>1, <2>5 DEF Char, Marks, Comma, QuoteChar, Esc
<1>2. CASE p = <<"[", "]">>
  <2>1. p[1] = "[" /\ p[2] = "]"
    BY <1>2
  <2>2. Count("[", "{", "}") = 0 /\ Count("[", "[", "]") = 1
    BY Zenon DEF Count
  <2>3. Count("]", "{", "}") = 0 /\ Count("]", "[", "]") = -1
    BY Zenon DEF Count
  <2>5. \E u, v \in 0..1 :
                 /\ u + v = 1
                 /\ Count(p[1], "{", "}") = u /\ Count(p[1], "[", "]") = v
                 /\ u + Count(p[2], "{", "}") = 0 /\ v + Count(p[2], "[", "]") = 0
    BY Zenon, <1>0, <2>1, <2>2, <2>3
  <2> QED
    BY Zenon, <2>1, <2>5 DEF Char, Marks, Comma, QuoteChar, Esc
<1> QED
  BY Zenon, <1>1, <1>2 DEF Enclosing

\* Inside brackets no comma separates.
LEMMA LevelEnclosed ==
    ASSUME NEW B \in Level, NEW s \in CharTexts, NEW p \in Enclosing,
           Len(s) = Len(B) + 2, Holds(s, 1, B), s[1] = p[1], s[Len(s)] = p[2]
    PROVE  s \in Level /\ ListCommas(s) = {} /\ ObjectCommas(s) = {}
<1> DEFINE n == Len(B)
           at == Counters(s)
<1>0. /\ B \in CharTexts /\ Counters(B)[n] = ScanStart
      /\ \A k \in 0..n : Counters(B)[k].in_object >= 0 /\ Counters(B)[k].in_list >= 0
  BY DEF Level
<1>1. n \in Nat
  BY <1>0, TextFacts
<1>2. PICK u \in 0..1, v \in 0..1 :
         /\ u + v = 1
         /\ Count(p[1], "{", "}") = u /\ Count(p[1], "[", "]") = v
         /\ u + Count(p[2], "{", "}") = 0 /\ v + Count(p[2], "[", "]") = 0
  BY Zenon, EnclosingFacts
<1>u. u \in 0..1 /\ v \in 0..1 /\ u + v = 1
  BY Zenon, <1>2
<1>3. /\ at \in [0..Len(s) -> ScanStates] /\ at[0] = ScanStart
      /\ \A i \in 1..Len(s) : at[i] = Counted(at[i - 1], s[i])
  BY CountersSteps
<1>4. /\ at[1].in_object = u /\ at[1].in_list = v
      /\ at[1].in_string = FALSE /\ at[1].escape = FALSE
  <2>1. 1 \in 1..Len(s) /\ 1 - 1 = 0
    BY <1>1
  <2>2. at[1] = Counted(at[1 - 1], s[1])
    BY Zenon, <1>3, <2>1
  <2>3. at[1] = Counted(ScanStart, p[1])
    BY Zenon, <1>3, <2>1, <2>2
  <2>4. /\ Counted(ScanStart, p[1]).in_object = ScanStart.in_object + Count(p[1], "{", "}")
        /\ Counted(ScanStart, p[1]).in_list = ScanStart.in_list + Count(p[1], "[", "]")
    BY Zenon, CountedCounts
  <2>5. p[1] # QuoteChar /\ p[1] # Esc
    BY Zenon, EnclosingFacts
  <2>6. /\ Counted(ScanStart, p[1]).in_string = ScanStart.in_string
        /\ Counted(ScanStart, p[1]).escape = FALSE
    BY Zenon, <2>5, CountedPlain
  <2>7. 0 + u = u /\ 0 + v = v
    BY <1>u
  <2>8. at[1].in_object = 0 + u /\ at[1].in_list = 0 + v
    BY Zenon, <1>2, <2>3, <2>4, StartFacts
  <2> QED
    BY Zenon, <2>3, <2>6, <2>7, <2>8, StartFacts
<1>5. \A k \in 0..n : Beyond(at[1 + k], at[1], Counters(B)[k])
  <2>1. at[1].in_string = FALSE /\ at[1].escape = FALSE
    BY Zenon, <1>4
  <2> QED
    BY <1>0, <2>1, ScanInside
<1>6. ASSUME NEW k \in 0..n
      PROVE  /\ at[1 + k].in_object >= u /\ at[1 + k].in_list >= v
             /\ at[1 + k].in_object \in Int /\ at[1 + k].in_list \in Int
  <2> DEFINE a == at[1 + k].in_object
             b == at[1 + k].in_list
             x == Counters(B)[k].in_object
             y == Counters(B)[k].in_list
  <2>1. a = u + x /\ b = v + y
    BY Zenon, <1>4, <1>5 DEF Beyond
  <2>2. x >= 0 /\ y >= 0
    BY Zenon, <1>0
  <2>3. x \in Int /\ y \in Int
    <3>1. Counters(B)[k] \in ScanStates
      BY <1>0, CountersSteps
    <3> QED
      BY <3>1 DEF ScanStates
  <2> HIDE DEF a, b, x, y
  <2>4. a >= u /\ b >= v /\ a \in Int /\ b \in Int
    BY <1>u, <2>1, <2>2, <2>3
  <2> QED
    BY Zenon, <2>4 DEF a, b
<1> DEFINE m == 1 + n
<1>7. m \in Nat /\ Len(s) = m + 1 /\ m + 1 \in 1..Len(s) /\ (m + 1) - 1 = m /\ n \in 0..n
  BY <1>1
<1>8. /\ at[m].in_object = u /\ at[m].in_list = v
      /\ at[m].in_string = FALSE /\ at[m].escape = FALSE
  <2>1. Beyond(at[m], at[1], Counters(B)[n])
    BY Zenon, <1>5, <1>7
  <2>2. Beyond(at[m], at[1], ScanStart)
    BY Zenon, <1>0, <2>1
  <2>3. /\ at[m].in_object = u + 0 /\ at[m].in_list = v + 0
        /\ at[m].in_string = FALSE /\ at[m].escape = FALSE
    BY Zenon, <1>4, <2>2, StartFacts DEF Beyond
  <2>4. u + 0 = u /\ v + 0 = v
    BY <1>u
  <2> QED
    BY Zenon, <2>3, <2>4
<1>9. at[m + 1] = ScanStart
  <2> HIDE DEF m, at
  <2>1. at[m + 1] = Counted(at[m], p[2])
    BY Zenon, <1>3, <1>7
  <2> DEFINE st == at[m]
             q == p[2]
  <2> HIDE DEF st, q
  <2>2. q # QuoteChar /\ q # Esc
    BY Zenon, EnclosingFacts DEF q
  <2>3. /\ Counted(st, q).in_object = st.in_object + Count(q, "{", "}")
        /\ Counted(st, q).in_list = st.in_list + Count(q, "[", "]")
    BY Zenon, CountedCounts
  <2>4. Counted(st, q).in_string = st.in_string /\ Counted(st, q).escape = FALSE
    BY Zenon, <2>2, CountedPlain
  <2>5. 0 + 0 = 0
    BY <1>u
  <2> DEFINE z == Counted(st, q)
  <2>6. z.in_object = 0 /\ z.in_list = 0 /\ z.in_string = FALSE /\ z.escape = FALSE
    BY Zenon, <1>2, <1>8, <2>3, <2>4 DEF st, q
  <2>7. z \in ScanStates
    <3>1. at[m] \in ScanStates
      <4>1. m \in 0..Len(s)
        BY <1>7
      <4> QED
        BY Zenon, <1>3, <4>1
    <3>2. st \in ScanStates
      BY Zenon, <3>1 DEF st
    <3> HIDE DEF z
    <3>3. z = Counted(st, q)
      BY DEF z
    <3> QED
      BY Zenon, <3>2, <3>3, CountedFacts
  <2> HIDE DEF z
  <2>8. Beyond(z, ScanStart, ScanStart)
    BY Zenon, <2>5, <2>6, StartFacts DEF Beyond
  <2>9. z = ScanStart
    BY <2>7, <2>8, StartFacts, FromStart
  <2> QED
    BY Zenon, <2>1, <2>9 DEF z, st, q
<1> HIDE DEF m
<1>10. ASSUME NEW x \in 0..Len(s)
       PROVE  \/ x = 0
              \/ x = m + 1
              \/ \E k \in 0..n : x = 1 + k
  <2>1. CASE x = 0 \/ x = m + 1
    BY Zenon, <2>1
  <2>2. CASE x # 0 /\ x # m + 1
    <3>1. x - 1 \in 0..n /\ x = 1 + (x - 1)
      <4> USE DEF m
      <4> HIDE DEF n
      <4> QED
        BY <1>1, <1>7, <2>2
    <3> QED
      BY Zenon, <3>1
  <2> QED
    BY Zenon, <2>1, <2>2
<1>11. s \in Level
  <2>1. ASSUME NEW x \in 0..Len(s) PROVE at[x].in_object >= 0 /\ at[x].in_list >= 0
    <3>0. 0 >= 0
      OBVIOUS
    <3>1. CASE x = 0
      BY Zenon, <1>3, <3>0, <3>1, StartFacts
    <3>2. CASE x = m + 1
      BY Zenon, <1>9, <3>0, <3>2, StartFacts
    <3>3. CASE \E k \in 0..n : x = 1 + k
      <4>1. PICK k \in 0..n : x = 1 + k
        BY <3>3
      <4> DEFINE a == at[1 + k].in_object
                 b == at[1 + k].in_list
      <4>2. a >= u /\ b >= v /\ a \in Int /\ b \in Int
        BY Zenon, <1>6
      <4> HIDE DEF a, b
      <4>3. a >= 0 /\ b >= 0
        BY <1>u, <4>2
      <4> QED
        BY Zenon, <4>1, <4>3 DEF a, b
    <3> QED
      BY Zenon, <1>10, <3>1, <3>2, <3>3
  <2>2. at[Len(s)] = ScanStart
    BY Zenon, <1>7, <1>9
  <2> QED
    BY Zenon, <2>1, <2>2 DEF Level
<1>12. ASSUME NEW x \in ListCommas(s) PROVE FALSE
  <2>1. x \in 1..Len(s) /\ s[x] = Comma /\ at[x].in_object = 0 /\ at[x].in_list = 0
    BY Zenon, <1>12, TextFacts DEF ListCommas, Comma
  <2>2. x # m + 1 /\ x # 1
    BY Zenon, <1>7, <2>1, EnclosingFacts
  <2>3. x \in 0..Len(s) /\ x # 0
    BY <1>7, <2>1
  <2>4. PICK k \in 0..n : x = 1 + k
    BY Zenon, <1>10, <2>2, <2>3
  <2> DEFINE a == at[1 + k].in_object
             b == at[1 + k].in_list
  <2>5. a >= u /\ b >= v /\ a \in Int /\ b \in Int
    BY Zenon, <1>6
  <2>6. a = 0 /\ b = 0
    BY Zenon, <2>1, <2>4
  <2> HIDE DEF a, b
  <2> QED
    BY <1>u, <2>5, <2>6
<1>13. ObjectCommas(s) \subseteq ListCommas(s)
  BY CommasIn
<1> QED
  BY <1>11, <1>12, <1>13

Padded(T, pad) == [i \in DOMAIN T |-> pad \o T[i]]
Body(T, pad) == Separated(Padded(T, pad)) \o pad

LEMMA PaddedFacts ==
    ASSUME NEW T \in Seq(CharTexts), NEW pad \in CharTexts
    PROVE  /\ Padded(T, pad) \in Seq(CharTexts) /\ Len(Padded(T, pad)) = Len(T)
           /\ Len(T) \in Nat /\ DOMAIN T = 1..Len(T)
           /\ \A j \in 1..Len(T) : T[j] \in CharTexts /\ Padded(T, pad)[j] = pad \o T[j]
<1> DEFINE n == Len(T)
           W == Padded(T, pad)
<1>1. n \in Nat /\ DOMAIN T = 1..n /\ \A j \in 1..n : T[j] \in CharTexts
  BY LenProperties, ElementOfSeq
<1>2. \A j \in 1..n : pad \o T[j] \in CharTexts
  BY <1>1, Concatenated
<1>3. W = [j \in 1..n |-> pad \o T[j]]
  BY Zenon, <1>1 DEF Padded
<1> HIDE DEF n, W
<1>4. \A j \in 1..n : W[j] = pad \o T[j]
  BY Zenon, <1>3
<1>5. W \in Seq(CharTexts) /\ Len(W) = n
  <2>1. W \in [1..n -> CharTexts]
    BY <1>2, <1>3
  <2> QED
    BY <1>1, <2>1
<1> QED
  BY <1>1, <1>4, <1>5 DEF n, W

LEMMA SeparatedText ==
    ASSUME NEW T \in Seq(CharTexts)
    PROVE  Separated(T) \in CharTexts
<1> DEFINE n == Len(T)
           Q == CommaFirst(T)
<1>1. n \in Nat /\ DOMAIN T = 1..n /\ \A j \in 1..n : T[j] \in CharTexts
  BY LenProperties, ElementOfSeq
<1>2. Comma \in Char
  BY Zenon DEF Char, Marks, Comma
<1>3. <<>> \in CharTexts /\ <<Comma>> \in CharTexts
  <2>1. <<>> \in CharTexts
    BY EmptySeq DEF CharTexts
  <2> QED
    BY Zenon, <1>2, <2>1, OneChar
<1>4. Q = [i \in 1..n |-> (IF i = 1 THEN <<>> ELSE <<Comma>>) \o T[i]]
  BY Zenon, <1>1 DEF CommaFirst
<1> HIDE DEF Q, n
<1>5. ASSUME NEW i \in 1..n PROVE (IF i = 1 THEN <<>> ELSE <<Comma>>) \o T[i] \in CharTexts
  <2> DEFINE A == IF i = 1 THEN <<>> ELSE <<Comma>>
  <2>1. A \in CharTexts /\ T[i] \in CharTexts
    BY <1>1, <1>3
  <2> HIDE DEF A
  <2>2. A \o T[i] \in CharTexts
    BY <2>1, Concatenated
  <2> QED
    BY <2>2 DEF A
<1>6. Q \in Seq(CharTexts)
  <2>1. Q \in [1..n -> CharTexts]
    BY <1>4, <1>5
  <2> QED
    BY <1>1, <2>1
<1>7. FlattenSeq(Q) \in CharTexts
  BY <1>6, FlatTexts
<1>8. Separated(T) = FlattenSeq(Q)
  BY Zenon DEF Separated, CommaFirst, Comma, Q
<1> QED
  BY <1>7, <1>8

\* A bracketed text is its brackets and the body between.
LEMMA BracketedFacts ==
    ASSUME NEW T \in Seq(CharTexts), NEW pad \in CharTexts, NEW p \in Enclosing, NEW s,
           s = Bracketed(p[1], T, p[2], pad)
    PROVE  /\ s \in CharTexts /\ Body(T, pad) \in CharTexts /\ Len(s) = Len(Body(T, pad)) + 2
           /\ Holds(s, 1, Body(T, pad)) /\ s[1] = p[1] /\ s[Len(s)] = p[2]
           /\ Inner(s) = Body(T, pad)
<1> DEFINE S == Separated(Padded(T, pad))
           o == <<p[1]>>
           c == <<p[2]>>
           B == Body(T, pad)
           A == o \o S
           D == A \o pad
<1>0. p[1] \in Char /\ p[2] \in Char
  BY EnclosingFacts
<1>1. /\ o \in CharTexts /\ Len(o) = 1 /\ o[1] = p[1]
      /\ c \in CharTexts /\ Len(c) = 1 /\ c[1] = p[2]
  BY <1>0, OneChar
<1>2. S \in CharTexts
  <2>1. Padded(T, pad) \in Seq(CharTexts)
    BY PaddedFacts
  <2> QED
    BY <2>1, SeparatedText
<1>3. s = D \o c
  BY Zenon DEF Bracketed, Padded
<1>4. B = S \o pad
  BY DEF Body
<1> HIDE DEF S, B, o, c
<1>5. A \in CharTexts /\ Len(A) = 1 + Len(S) /\ Holds(A, 0, o) /\ Holds(A, 1, S)
  <2>1. A \in CharTexts /\ Len(A) = Len(o) + Len(S) /\ Holds(A, 0, o) /\ Holds(A, Len(o), S)
    BY <1>1, <1>2, Concatenated
  <2> QED
    BY Zenon, <1>1, <2>1
<1> HIDE DEF A
<1>6. D \in CharTexts /\ Len(D) = Len(A) + Len(pad) /\ Holds(D, 0, A) /\ Holds(D, Len(A), pad)
  BY <1>5, Concatenated
<1> HIDE DEF D
<1>7. s \in CharTexts /\ Len(s) = Len(D) + 1 /\ Holds(s, 0, D) /\ Holds(s, Len(D), c)
  <2>1. /\ D \o c \in CharTexts /\ Len(D \o c) = Len(D) + Len(c)
        /\ Holds(D \o c, 0, D) /\ Holds(D \o c, Len(D), c)
    BY <1>1, <1>6, Concatenated
  <2> QED
    BY Zenon, <1>1, <1>3, <2>1
<1>8. B \in CharTexts /\ Len(B) = Len(S) + Len(pad)
  BY <1>2, <1>4, Concatenated
<1>9. Len(S) \in Nat /\ Len(pad) \in Nat
  BY <1>2, TextFacts
<1> DEFINE x == Len(S)
           y == Len(pad)
<1> HIDE DEF x, y
<1>10. /\ Len(D) = (1 + x) + y /\ Len(A) = 1 + x /\ Len(B) = x + y
       /\ x \in Nat /\ y \in Nat /\ Len(s) = ((1 + x) + y) + 1
  BY Zenon, <1>5, <1>6, <1>7, <1>8, <1>9 DEF x, y
<1>11. Holds(s, 0, A) /\ Holds(s, 1 + x, pad)
  <2>1. Holds(s, 0 + 0, A) /\ Holds(s, 0 + Len(A), pad)
    BY <1>5, <1>6, <1>7, HoldsDeep
  <2>2. 0 + 0 = 0 /\ 0 + (1 + x) = 1 + x
    BY <1>10
  <2> QED
    BY Zenon, <1>10, <2>1, <2>2
<1>12. Holds(s, 1, S) /\ Holds(s, 0, o)
  <2>1. Holds(s, 0 + 1, S) /\ Holds(s, 0 + 0, o)
    BY <1>1, <1>2, <1>5, <1>7, <1>11, HoldsDeep
  <2>2. 0 + 1 = 1 /\ 0 + 0 = 0
    OBVIOUS
  <2> QED
    BY Zenon, <2>1, <2>2
<1>13. Holds(s, 1, B)
  <2>1. Holds(s, 1 + Len(S), pad)
    BY Zenon, <1>11 DEF x
  <2>2. Holds(s, 1, S \o pad)
    BY <1>2, <1>7, <1>12, <2>1, HoldsJoin
  <2> QED
    BY Zenon, <1>4, <2>2
<1>14. s[1] = p[1]
  <2>1. Holds(s, 0, <<p[1]>>)
    BY Zenon, <1>12 DEF o
  <2>2. s[0 + 1] = p[1]
    BY Zenon, <1>0, <2>1, HoldsChar
  <2>3. 0 + 1 = 1
    OBVIOUS
  <2> QED
    BY Zenon, <2>2, <2>3
<1>15. s[Len(s)] = p[2]
  <2>1. Holds(s, Len(D), <<p[2]>>)
    BY Zenon, <1>7 DEF c
  <2>2. s[Len(D) + 1] = p[2]
    BY Zenon, <1>0, <2>1, HoldsChar
  <2> QED
    BY Zenon, <1>7, <2>2
<1> DEFINE z == Len(B)
<1> HIDE DEF z
<1>16. z = x + y
  BY Zenon, <1>10 DEF z
<1>17. Len(s) = z + 2
  BY <1>10, <1>16
<1>18. Inner(s) = B
  <2>1. SubSeq(s, 1 + 1, 1 + Len(B)) = B
    BY <1>7, <1>8, <1>13, HeldPart
  <2>2. 1 + 1 = 2 /\ 1 + z = Len(s) - 1
    BY <1>10, <1>16
  <2> QED
    BY Zenon, <2>1, <2>2 DEF Inner, z
<1> QED
  BY Zenon, <1>7, <1>8, <1>13, <1>14, <1>15, <1>17, <1>18 DEF B, z

----------------------------------------------------------------------------
(* Whitespace around a text.                                                *)

Blanks == {p \in CharTexts : \A k \in 1..Len(p) : p[k] = "ws"}

LEMMA WhiteFacts ==
    /\ <<>> \in Blanks /\ <<"ws">> \in Blanks
    /\ \A p \in Blanks : p \in CharTexts /\ \A k \in 1..Len(p) : p[k] = "ws"
<1>1. <<>> \in CharTexts /\ Len(<<>>) = 0
  BY EmptySeq DEF CharTexts
<1>2. <<"ws">> \in CharTexts /\ Len(<<"ws">>) = 1 /\ <<"ws">>[1] = "ws"
  <2>1. "ws" \in Char
    BY Zenon DEF Char, Marks
  <2> QED
    BY Zenon, <2>1, OneChar
<1>3. \A k \in 1..0 : FALSE
  OBVIOUS
<1>4. \A k \in 1..1 : k = 1
  OBVIOUS
<1> QED
  BY Zenon, <1>1, <1>2, <1>3, <1>4 DEF Blanks

\* A text that begins and ends with other characters is found between whitespace.
LEMMA StripBetween ==
    ASSUME NEW V \in CharTexts, Len(V) >= 1, V[1] # "ws", V[Len(V)] # "ws",
           NEW p \in Blanks, NEW q \in Blanks
    PROVE  (p \o V) \o q \in CharTexts /\ strip((p \o V) \o q) = V
<1>0. /\ p \in CharTexts /\ \A k \in 1..Len(p) : p[k] = "ws"
      /\ q \in CharTexts /\ \A k \in 1..Len(q) : q[k] = "ws"
  BY Zenon, WhiteFacts
<1> DEFINE A == p \o V
           s == A \o q
           x == Len(p)
           y == Len(V)
           z == Len(q)
<1>1. x \in Nat /\ y \in Nat /\ z \in Nat /\ y >= 1
  BY <1>0, TextFacts
<1>2. A \in CharTexts /\ Len(A) = x + y /\ Holds(A, 0, p) /\ Holds(A, x, V)
  BY <1>0, Concatenated
<1> HIDE DEF A
<1>3. s \in CharTexts /\ Len(s) = Len(A) + z /\ Holds(s, 0, A) /\ Holds(s, Len(A), q)
  BY <1>0, <1>2, Concatenated
<1> HIDE DEF s
<1>4. Holds(s, 0, p) /\ Holds(s, x, V)
  <2>1. Holds(s, 0 + 0, p) /\ Holds(s, 0 + x, V)
    BY <1>0, <1>2, <1>3, HoldsDeep
  <2>2. 0 + 0 = 0 /\ 0 + x = x
    BY <1>1
  <2> QED
    BY Zenon, <2>1, <2>2
<1>5. ASSUME NEW i \in 1..Len(s), i <= x \/ x + Len(V) < i PROVE s[i] = "ws"
  <2>1. CASE i <= x
    <3>1. i \in 1..x /\ 0 + i = i
      <4> HIDE DEF x
      <4> QED
        BY <1>1, <2>1
    <3>2. s[0 + i] = p[i]
      BY Zenon, <1>4, <3>1 DEF Holds
    <3> QED
      BY Zenon, <1>0, <3>1, <3>2
  <2>2. CASE x + y < i
    <3> DEFINE k == i - (x + y)
               m == Len(s)
    <3>0. m = (x + y) + z /\ i \in 1..m
      BY Zenon, <1>2, <1>3
    <3> HIDE DEF x, y, z, m
    <3>1. k \in 1..z /\ (x + y) + k = i
      BY <1>1, <2>2, <3>0
    <3> HIDE DEF k
    <3>2. s[(x + y) + k] = q[k]
      BY Zenon, <1>2, <1>3, <3>1 DEF Holds, z
    <3> QED
      BY Zenon, <1>0, <3>1, <3>2 DEF z
  <2> QED
    BY Zenon, <1>5, <2>1, <2>2
<1>6. strip(s) = V
  BY <1>3, <1>4, <1>5, StripTo
<1> QED
  BY <1>3, <1>6 DEF s, A

LEMMA Unpadded ==
    ASSUME NEW V \in CharTexts
    PROVE  <<>> \o V = V /\ V \o <<>> = V
BY ConcatEmptySeq DEF CharTexts

----------------------------------------------------------------------------
(* The pairs of an object.                                                  *)

ColonChar == ":"
Pads == {<<>>, <<"ws">>}

LEMMA PadFacts ==
    ASSUME NEW pad \in Pads
    PROVE  /\ pad \in CharTexts /\ pad \in Blanks /\ pad \in Level /\ pad \in Quiet
           /\ ListCommas(pad) = {} /\ ObjectCommas(pad) = {}
<1>1. "ws" \in Char /\ "ws" \notin Brackets /\ "ws" # QuoteChar /\ "ws" # Esc /\ "ws" # ","
  BY Zenon DEF Char, Marks, Brackets, QuoteChar, Esc
<1>2. CASE pad = <<>>
  BY Zenon, <1>2, WhiteFacts, LevelEmpty, QuietEmpty
<1>3. CASE pad = <<"ws">>
  <2>1. /\ <<"ws">> \in Level /\ ListCommas(<<"ws">>) = {} /\ ObjectCommas(<<"ws">>) = {}
    BY Zenon, <1>1, LevelChar
  <2>2. "ws" \notin {QuoteChar, Esc, Comma}
    BY Zenon, <1>1 DEF Comma
  <2>3. <<"ws">> \in Quiet
    BY Zenon, <1>1, <2>2, QuietChar
  <2> QED
    BY Zenon, <1>3, <2>1, <2>3, WhiteFacts
<1> QED
  BY Zenon, <1>2, <1>3 DEF Pads

\* A printed string without brackets is level.
LEMMA QuotedLevel ==
    ASSUME NEW s \in Seq(Char \ Brackets)
    PROVE  s \in CharTexts /\ QuotedText(s) \in Level /\ ObjectCommas(QuotedText(s)) = {}
<1> DEFINE q == QuotedText(s)
<1>1. {QuoteChar, Esc, "n", "v", "u00xx"} \cap Brackets = {}
  BY Zenon DEF Brackets, QuoteChar, Esc
<1>2. s \in CharTexts /\ q \in Seq(Char \ Brackets)
  BY <1>1, QuotedKind
<1> HIDE DEF q
<1>3. q \in CharTexts /\ \A k \in 0..Len(q) : Counters(q)[k].in_object = 0 /\ Counters(q)[k].in_list = 0
  BY <1>2, CountersFlat
<1>4. q \in Quiet
  BY Zenon, <1>2, QuietQuoted DEF q
<1>5. Len(q) \in Nat /\ Counters(q) \in [0..Len(q) -> ScanStates]
  BY <1>3, TextFacts, CountersSteps
<1>6. Counters(q)[Len(q)] = ScanStart
  <2> DEFINE st == Counters(q)[Len(q)]
  <2>1. Len(q) \in 0..Len(q)
    BY <1>5
  <2>2. st.in_object = 0 /\ st.in_list = 0 /\ st.in_string = FALSE /\ st.escape = FALSE
    BY Zenon, <1>3, <1>4, <2>1 DEF Quiet
  <2>3. st \in ScanStates
    BY Zenon, <1>5, <2>1
  <2> HIDE DEF st
  <2>4. 0 = 0 + 0
    OBVIOUS
  <2>5. Beyond(st, ScanStart, ScanStart)
    BY Zenon, <2>2, <2>4, StartFacts DEF Beyond
  <2>6. st = ScanStart
    BY <2>3, <2>5, StartFacts, FromStart
  <2> QED
    BY <2>6 DEF st
<1>7. q \in Level
  <2>1. 0 >= 0
    OBVIOUS
  <2> QED
    BY Zenon, <1>3, <1>6, <2>1 DEF Level
<1>8. ASSUME NEW x \in ObjectCommas(q) PROVE FALSE
  <2>1. x \in 1..Len(q) /\ q[x] = "," /\ ~Counters(q)[x].in_string
    BY Zenon, <1>3, <1>8, TextFacts DEF ObjectCommas, ListCommas
  <2> QED
    BY Zenon, <1>4, <2>1 DEF Quiet
<1> QED
  BY <1>2, <1>7, <1>8 DEF q

\* A character of no meaning to the scanner.
LEMMA CountedNothing ==
    ASSUME NEW c \in Char, c \notin Brackets, c # QuoteChar, c # Esc
    PROVE  Counted(ScanStart, c) = ScanStart
<1> DEFINE s == <<c>>
<1>2. s \in Level
  BY LevelChar
<1>3. s \in CharTexts /\ Len(s) = 1 /\ s[1] = c
  BY OneChar
<1> HIDE DEF s
<1>4. Counters(s)[1] = Counted(ScanStart, c)
  <2>0. 1 \in 1..1 /\ 1 - 1 = 0
    OBVIOUS
  <2>2. /\ \A i \in 1..Len(s) : Counters(s)[i] = Counted(Counters(s)[i - 1], s[i])
        /\ Counters(s)[0] = ScanStart
    BY <1>3, CountersSteps
  <2>4. Counters(s)[1] = Counted(Counters(s)[1 - 1], s[1])
    BY Zenon, <1>3, <2>0, <2>2
  <2> QED
    BY Zenon, <1>3, <2>0, <2>2, <2>4
<1>5. Counters(s)[1] = ScanStart
  BY Zenon, <1>2, <1>3 DEF Level
<1> QED
  BY Zenon, <1>4, <1>5

\* The name of a pair ends at the first colon that follows the printed key.
LEMMA NamePart ==
    ASSUME NEW B \in CharTexts, NEW key \in Seq(Char \ Brackets), NEW pad \in Pads, NEW P,
           P = pad \o QuotedText(key), Holds(B, 0, P), Len(P) + 1 <= Len(B),
           B[Len(P) + 1] = ColonChar
    PROVE  /\ NameOf(B) = P /\ ValueOf(B) = SubSeq(B, (Len(P) + 1) + 1, Len(B))
<1> DEFINE q == QuotedText(key)
           x == Len(P)
           m == Len(pad)
           n == Len(q)
<1>0. /\ pad \in CharTexts /\ pad \in Blanks /\ pad \in Level
      /\ q \in CharTexts /\ q \in Level /\ q[n] = QuoteChar
      /\ \A k \in 1..(n - 1) : Counters(q)[k].in_string = TRUE
  <2>1. pad \in CharTexts /\ pad \in Blanks /\ pad \in Level
    BY PadFacts
  <2>2. key \in CharTexts /\ q \in Level
    BY QuotedLevel
  <2>3. /\ q \in CharTexts /\ q[n] = QuoteChar
        /\ \A k \in 1..(n - 1) : Counters(q)[k].in_string = TRUE
    BY <2>2, QuotedParts, QuotedScan
  <2> QED
    BY <2>1, <2>2, <2>3
<1> HIDE DEF q
<1>1. /\ P \in CharTexts /\ P \in Level /\ x = m + n /\ Holds(P, 0, pad) /\ Holds(P, m, q)
  <2>1. P = pad \o q
    BY DEF q
  <2>2. /\ pad \o q \in CharTexts /\ Len(pad \o q) = m + n
        /\ Holds(pad \o q, 0, pad) /\ Holds(pad \o q, m, q)
    BY <1>0, Concatenated
  <2>3. pad \o q \in Level
    BY <1>0, LevelBoth
  <2> QED
    BY Zenon, <2>1, <2>2, <2>3
<1>2. x \in Nat /\ m \in Nat /\ n \in Nat /\ Len(B) \in Nat
  BY <1>0, <1>1, TextFacts
<1>3. \A k \in 0..x : Counters(B)[k] = Counters(P)[k]
  BY <1>1, ScanPrefix
<1>4. Counters(B)[x] = ScanStart
  <2>1. x \in 0..x
    BY <1>2
  <2>2. Counters(P)[x] = ScanStart
    BY Zenon, <1>1 DEF Level
  <2> QED
    BY Zenon, <1>3, <2>1, <2>2
<1> HIDE DEF x, m, n
<1>5. x + 1 \in 1..Len(B) /\ (x + 1) - 1 = x
  <2>1. x + 1 <= Len(B)
    BY DEF x
  <2> QED
    BY <1>2, <2>1
<1>6. Counters(B)[x + 1] = ScanStart
  <2>1. Counters(B)[x + 1] = Counted(Counters(B)[(x + 1) - 1], B[x + 1])
    BY <1>5, CountersSteps
  <2>2. Counters(B)[x + 1] = Counted(ScanStart, ColonChar)
    BY Zenon, <1>4, <1>5, <2>1 DEF x
  <2>3. ColonChar \in Char /\ ColonChar \notin Brackets /\ ColonChar # QuoteChar /\ ColonChar # Esc
    BY Zenon DEF Char, Marks, Brackets, ColonChar, QuoteChar, Esc
  <2> QED
    BY Zenon, <2>2, <2>3, CountedNothing
<1>7. x + 1 \in Colons(B)
  <2>1. x + 1 \in DOMAIN B
    BY Zenon, <1>5, TextFacts
  <2>2. B[x + 1] = ":"
    BY Zenon DEF x, ColonChar
  <2> QED
    BY Zenon, <1>6, <2>1, <2>2, StartFacts DEF Colons
<1>8. ASSUME NEW y \in Colons(B) PROVE y >= x + 1
  <2>1. y \in 1..Len(B) /\ B[y] = ColonChar /\ ~Counters(B)[y].in_string
    BY Zenon, TextFacts DEF Colons, ColonChar
  <2>2. \A k \in 1..x : P[k] = B[k]
    <3>1. \A k \in 1..x : 0 + k = k
      BY <1>2
    <3> QED
      BY Zenon, <3>1 DEF Holds, x
  <2>3. ~(y <= m)
    <3> SUFFICES ASSUME y <= m PROVE FALSE
      OBVIOUS
    <3>1. y \in 1..m /\ y \in 1..x /\ 0 + y = y
      BY <1>1, <1>2, <2>1
    <3>2. P[0 + y] = pad[y]
      BY Zenon, <1>1, <3>1 DEF Holds, m
    <3>3. pad[y] = "ws"
      BY Zenon, <1>0, <3>1, WhiteFacts DEF m
    <3> QED
      BY Zenon, <2>1, <2>2, <3>1, <3>2, <3>3 DEF ColonChar
  <2>4. ~(m < y /\ y <= x)
    <3> SUFFICES ASSUME m < y, y <= x PROVE FALSE
      OBVIOUS
    <3> DEFINE j == y - m
    <3>1. j \in 1..n /\ m + j = y /\ y \in 1..x /\ y \in 0..x /\ j \in 0..n
      BY <1>1, <1>2, <2>1
    <3>2. Counters(P)[m] = ScanStart
      <4>1. \A k \in 0..m : Counters(P)[k] = Counters(pad)[k]
        BY <1>0, <1>1, ScanPrefix DEF m
      <4>2. m \in 0..m
        BY <1>2
      <4>3. Counters(pad)[m] = ScanStart
        BY Zenon, <1>0 DEF Level, m
      <4> QED
        BY Zenon, <4>1, <4>2, <4>3
    <3>3. \A k \in 0..n : Counters(P)[m + k] = Counters(q)[k]
      BY <1>0, <1>1, <3>2, ScanFrom DEF n
    <3> HIDE DEF j
    <3>4. P[m + j] = q[j]
      BY Zenon, <1>1, <3>1 DEF Holds, n
    <3>5. Counters(B)[y] = Counters(q)[j]
      BY Zenon, <1>3, <3>1, <3>3
    <3>6. CASE j = n
      <4>1. q[j] = QuoteChar
        BY Zenon, <1>0, <3>6 DEF n
      <4> QED
        BY Zenon, <2>1, <2>2, <3>1, <3>4, <4>1 DEF ColonChar, QuoteChar
    <3>7. CASE j # n
      <4>1. j \in 1..(n - 1)
        BY <1>2, <3>1, <3>7
      <4>2. Counters(q)[j].in_string = TRUE
        BY Zenon, <1>0, <4>1 DEF n
      <4> QED
        BY Zenon, <2>1, <3>5, <4>2
    <3> QED
      BY <3>6, <3>7
  <2> QED
    BY <1>1, <1>2, <2>1, <2>3, <2>4
<1> DEFINE C == Colons(B)
           z == Min(C)
<1>9. z = x + 1
  <2>1. C \subseteq Nat /\ C # {} /\ x + 1 \in C
    <3>1. C \subseteq 1..Len(B)
      BY TextFacts DEF Colons
    <3> QED
      BY <1>2, <1>7, <3>1
  <2> HIDE DEF C
  <2>2. z \in C /\ \A y \in C : z <= y
    BY <2>1, Least
  <2>3. z >= x + 1
    BY <1>8, <2>2 DEF C
  <2>4. z <= x + 1 /\ z \in Nat
    BY <2>1, <2>2
  <2> HIDE DEF z
  <2> QED
    BY <1>2, <2>3, <2>4
<1>10. C # {}
  BY <1>7
<1>11. NameOf(B) = SubSeq(B, 1, z - 1) /\ ValueOf(B) = SubSeq(B, z + 1, Len(B))
  BY Zenon, <1>10 DEF NameOf, ValueOf
<1> HIDE DEF C, z
<1>12. z - 1 = x
  BY <1>2, <1>9
<1>13. SubSeq(B, 1, x) = P
  <2>1. SubSeq(B, 0 + 1, 0 + Len(P)) = P
    BY <1>1, HeldPart
  <2>2. 0 + 1 = 1 /\ 0 + x = x
    BY <1>2
  <2> QED
    BY Zenon, <2>1, <2>2 DEF x
<1> QED
  BY Zenon, <1>9, <1>11, <1>12, <1>13 DEF x

\* A pair as the part of a text, with whitespace before and behind it.
KeyPart(key, pad) == pad \o QuotedText(key)
Block(key, V, pad, q) == (pad \o PairText(key, V, pad)) \o q
BlockAt(B, P, X) ==
    /\ B \in CharTexts /\ P \in CharTexts /\ Len(P) \in Nat /\ X \in CharTexts
    /\ Holds(B, 0, P) /\ B[Len(P) + 1] = ColonChar
    /\ Holds(B, Len(P) + 1, X) /\ Len(B) = (Len(P) + 1) + Len(X)

LEMMA PairBlock ==
    ASSUME NEW key \in Seq(Char \ Brackets), NEW V \in CharTexts, NEW pad \in Pads, NEW q \in Pads
    PROVE  /\ PairText(key, V, pad) \in CharTexts
           /\ BlockAt(Block(key, V, pad, q), KeyPart(key, pad), (pad \o V) \o q)
           /\ V \in Level =>
                 /\ Block(key, V, pad, q) \in Level
                 /\ ObjectCommas(V) = {} => ObjectCommas(Block(key, V, pad, q)) = {}
           /\ V \in Quiet => Block(key, V, pad, q) \in Quiet
<1> DEFINE B == Block(key, V, pad, q)
           P == KeyPart(key, pad)
           Q == QuotedText(key)
           c == <<ColonChar>>
           A1 == Q \o c
           A2 == A1 \o pad
           T == A2 \o V
           C == pad \o T
           D == pad \o V
           E == D \o q
           m == Len(pad)
           n == Len(Q)
           v == Len(V)
           w == Len(q)
<1>0. ColonChar \in Char /\ ColonChar \notin Brackets /\ ColonChar # QuoteChar /\ ColonChar # Esc /\ ColonChar # ","
  BY Zenon DEF Char, Marks, Brackets, ColonChar, QuoteChar, Esc
<1>1. /\ pad \in CharTexts /\ pad \in Level /\ pad \in Quiet /\ ObjectCommas(pad) = {}
      /\ q \in CharTexts /\ q \in Level /\ q \in Quiet /\ ObjectCommas(q) = {}
  BY Zenon, PadFacts
<1>2. Q \in CharTexts /\ Q \in Level /\ Q \in Quiet /\ ObjectCommas(Q) = {}
  <2>1. key \in CharTexts /\ Q \in Level /\ ObjectCommas(Q) = {}
    BY QuotedLevel
  <2> QED
    BY <2>1, QuotedParts, QuietQuoted
<1>3. c \in CharTexts /\ Len(c) = 1 /\ c \in Level /\ c \in Quiet /\ ObjectCommas(c) = {}
  <2>1. c \in Level /\ ObjectCommas(c) = {}
    BY Zenon, <1>0, LevelChar
  <2>2. ColonChar \notin {QuoteChar, Esc, Comma}
    BY Zenon, <1>0 DEF Comma
  <2>3. c \in Quiet
    BY Zenon, <1>0, <2>2, QuietChar
  <2> QED
    BY Zenon, <1>0, <2>1, <2>3, OneChar
<1>4. m \in Nat /\ n \in Nat /\ v \in Nat /\ w \in Nat
  BY <1>1, <1>2, TextFacts
<1>5. PairText(key, V, pad) = T /\ B = C \o q /\ P = pad \o Q
  BY Zenon DEF Block, KeyPart, PairText, ColonChar
<1> HIDE DEF B, P
<1> HIDE DEF Q, c
<1>6. A1 \in CharTexts /\ Len(A1) = n + 1 /\ Holds(A1, 0, Q) /\ Holds(A1, n, c)
  <2>1. A1 \in CharTexts /\ Len(A1) = n + Len(c) /\ Holds(A1, 0, Q) /\ Holds(A1, n, c)
    BY <1>2, <1>3, Concatenated
  <2> QED
    BY Zenon, <1>3, <2>1
<1>7. /\ V \in Level => A1 \in Level /\ ObjectCommas(A1) = {}
      /\ A1 \in Quiet
  BY <1>2, <1>3, LevelBoth, QuietBoth
<1> HIDE DEF A1
<1>8. A2 \in CharTexts /\ Len(A2) = Len(A1) + m /\ Holds(A2, 0, A1) /\ Holds(A2, Len(A1), pad)
  BY <1>1, <1>6, Concatenated
<1>9. /\ V \in Level => A2 \in Level /\ ObjectCommas(A2) = {}
      /\ A2 \in Quiet
  BY <1>1, <1>7, LevelBoth, QuietBoth
<1> HIDE DEF A2
<1>10. T \in CharTexts /\ Len(T) = Len(A2) + v /\ Holds(T, 0, A2) /\ Holds(T, Len(A2), V)
  BY <1>8, Concatenated
<1>11. /\ V \in Level => T \in Level /\ (ObjectCommas(V) = {} => ObjectCommas(T) = {})
       /\ V \in Quiet => T \in Quiet
  BY <1>9, LevelBoth, QuietBoth
<1> HIDE DEF T
<1>12. C \in CharTexts /\ Len(C) = m + Len(T) /\ Holds(C, 0, pad) /\ Holds(C, m, T)
  BY <1>1, <1>10, Concatenated
<1>13. /\ V \in Level => C \in Level /\ (ObjectCommas(V) = {} => ObjectCommas(C) = {})
       /\ V \in Quiet => C \in Quiet
  BY <1>1, <1>11, LevelBoth, QuietBoth
<1> HIDE DEF C
<1>14. B \in CharTexts /\ Len(B) = Len(C) + w /\ Holds(B, 0, C) /\ Holds(B, Len(C), q)
  <2>1. /\ C \o q \in CharTexts /\ Len(C \o q) = Len(C) + w
        /\ Holds(C \o q, 0, C) /\ Holds(C \o q, Len(C), q)
    BY <1>1, <1>12, Concatenated
  <2> QED
    BY Zenon, <1>5, <2>1
<1>15. /\ V \in Level => B \in Level /\ (ObjectCommas(V) = {} => ObjectCommas(B) = {})
       /\ V \in Quiet => B \in Quiet
  <2>1. /\ V \in Level => C \o q \in Level /\ (ObjectCommas(V) = {} => ObjectCommas(C \o q) = {})
        /\ V \in Quiet => C \o q \in Quiet
    BY <1>1, <1>13, LevelBoth, QuietBoth
  <2> QED
    BY Zenon, <1>5, <2>1
<1>16. /\ P \in CharTexts /\ Len(P) = m + n
  <2>1. pad \o Q \in CharTexts /\ Len(pad \o Q) = m + n
    BY <1>1, <1>2, Concatenated
  <2> QED
    BY Zenon, <1>5, <2>1
<1>17. D \in CharTexts /\ Len(D) = m + v
  BY <1>1, Concatenated
<1> HIDE DEF D
<1>18. E \in CharTexts /\ Len(E) = Len(D) + w
  BY <1>1, <1>17, Concatenated
<1> HIDE DEF m, n, v, w
<1>19. /\ Len(A1) = n + 1 /\ Len(A2) = (n + 1) + m /\ Len(T) = ((n + 1) + m) + v
       /\ Len(C) = m + (((n + 1) + m) + v)
  BY Zenon, <1>6, <1>8, <1>10, <1>12
<1>20. /\ Holds(B, 0, pad) /\ Holds(B, m, T)
  <2>1. Holds(B, 0 + 0, pad) /\ Holds(B, 0 + m, T)
    BY <1>1, <1>10, <1>12, <1>14, HoldsDeep
  <2>2. 0 + 0 = 0 /\ 0 + m = m
    BY <1>4
  <2> QED
    BY Zenon, <2>1, <2>2
<1>21. /\ Holds(B, m, A2) /\ Holds(B, m + ((n + 1) + m), V)
  <2>1. Holds(B, m + 0, A2) /\ Holds(B, m + Len(A2), V)
    BY <1>8, <1>10, <1>14, <1>20, HoldsDeep
  <2>2. m + 0 = m
    BY <1>4
  <2> QED
    BY Zenon, <1>19, <2>1, <2>2
<1>22. /\ Holds(B, m, A1) /\ Holds(B, m + (n + 1), pad)
  <2>1. Holds(B, m + 0, A1) /\ Holds(B, m + Len(A1), pad)
    BY <1>1, <1>6, <1>8, <1>14, <1>21, HoldsDeep
  <2>2. m + 0 = m
    BY <1>4
  <2> QED
    BY Zenon, <1>19, <2>1, <2>2
<1>23. /\ Holds(B, m, Q) /\ Holds(B, m + n, c)
  <2>1. Holds(B, m + 0, Q) /\ Holds(B, m + n, c)
    BY <1>2, <1>3, <1>6, <1>14, <1>22, HoldsDeep
  <2>2. m + 0 = m
    BY <1>4
  <2> QED
    BY Zenon, <2>1, <2>2
<1>24. Holds(B, 0, P)
  <2>1. Holds(B, 0 + m, Q)
    <3>1. 0 + m = m
      BY <1>4
    <3> QED
      BY Zenon, <1>23, <3>1
  <2>2. Holds(B, 0, pad \o Q)
    BY <1>1, <1>2, <1>14, <1>20, <2>1, HoldsJoin DEF m
  <2> QED
    BY Zenon, <1>5, <2>2
<1>25. B[Len(P) + 1] = ColonChar
  <2>1. B[(m + n) + 1] = ColonChar
    BY Zenon, <1>0, <1>23, HoldsChar DEF c
  <2> QED
    BY Zenon, <1>16, <2>1
<1> DEFINE x == (m + n) + 1
<1>26. /\ m + (n + 1) = x /\ m + ((n + 1) + m) = x + m
       /\ m + (((n + 1) + m) + v) = x + (m + v)
       /\ (m + (((n + 1) + m) + v)) + w = x + ((m + v) + w)
  BY <1>4
<1> HIDE DEF x
<1>27. Holds(B, x, D)
  <2>1. Holds(B, x, pad) /\ Holds(B, x + Len(pad), V)
    BY Zenon, <1>21, <1>22, <1>26 DEF m
  <2> QED
    BY <1>1, <1>14, <2>1, HoldsJoin DEF D
<1>28. Holds(B, x, E)
  <2>1. Holds(B, x + Len(D), q)
    BY Zenon, <1>14, <1>17, <1>19, <1>26
  <2>2. Holds(B, x, D \o q)
    BY <1>1, <1>14, <1>17, <1>27, <2>1, HoldsJoin
  <2> QED
    BY <2>2
<1>29. Len(B) = x + Len(E)
  BY Zenon, <1>14, <1>17, <1>18, <1>19, <1>26
<1>30. Len(P) + 1 = x /\ Len(P) \in Nat
  <2>1. m + n \in Nat
    BY <1>4
  <2> QED
    BY Zenon, <1>16, <2>1 DEF x
<1>31. E = (pad \o V) \o q
  BY DEF D
<1> HIDE DEF E
<1>32. BlockAt(B, P, E)
  <2>1. B \in CharTexts /\ P \in CharTexts /\ Len(P) \in Nat /\ E \in CharTexts
    BY Zenon, <1>5, <1>14, <1>15, <1>16, <1>18, <1>30
  <2>2. Holds(B, 0, P) /\ B[Len(P) + 1] = ColonChar
    BY Zenon, <1>5, <1>24, <1>25, <1>30
  <2>3. Holds(B, Len(P) + 1, E) /\ Len(B) = (Len(P) + 1) + Len(E)
    BY Zenon, <1>28, <1>29, <1>30
  <2> QED
    BY Zenon, <2>1, <2>2, <2>3 DEF BlockAt
<1> QED
  BY Zenon, <1>5, <1>10, <1>14, <1>15, <1>31, <1>32 DEF B, P

----------------------------------------------------------------------------
(* What is read of printed values.                                          *)

LEMMA ParsedStrip ==
    ASSUME NEW t \in CharTexts, NEW u \in CharTexts, strip(t) = strip(u)
    PROVE  parse[t] = parse[u]
<1>1. Parsed(t, parse) = Parsed(u, parse)
  BY Zenon DEF Parsed
<1> QED
  BY Zenon, <1>1, ParseText

\* A text that begins and ends with no whitespace.
Whole == {V \in CharTexts : Len(V) >= 1 /\ V[1] # "ws" /\ V[Len(V)] # "ws"}

LEMMA WholeFacts ==
    ASSUME NEW V \in Whole
    PROVE  V \in CharTexts /\ V # <<>> /\ strip(V) = V /\ Len(V) \in Nat
<1>1. V \in CharTexts /\ Len(V) >= 1 /\ V[1] # "ws" /\ V[Len(V)] # "ws"
  BY DEF Whole
<1>2. strip((<<>> \o V) \o <<>>) = V
  BY Zenon, <1>1, WhiteFacts, StripBetween
<1>3. (<<>> \o V) \o <<>> = V
  BY Zenon, <1>1, Unpadded
<1>4. strip(V) = V
  BY Zenon, <1>2, <1>3
<1>5. V # <<>>
  BY <1>1, EmptySeq
<1>6. Len(V) \in Nat
  BY <1>1, TextFacts
<1> QED
  BY Zenon, <1>1, <1>4, <1>5, <1>6

LEMMA ParseBetween ==
    ASSUME NEW V \in Whole, NEW p \in Blanks, NEW q \in Blanks
    PROVE  (p \o V) \o q \in CharTexts /\ parse[(p \o V) \o q] = parse[V]
<1>1. V \in CharTexts /\ Len(V) >= 1 /\ V[1] # "ws" /\ V[Len(V)] # "ws"
  BY DEF Whole
<1> DEFINE t == (p \o V) \o q
<1>2. t \in CharTexts /\ strip(t) = V
  BY <1>1, StripBetween
<1> HIDE DEF t
<1>3. strip(V) = V
  BY WholeFacts
<1>4. parse[t] = parse[V]
  BY Zenon, <1>1, <1>2, <1>3, ParsedStrip
<1> QED
  BY Zenon, <1>2, <1>4 DEF t

\* A string.
LEMMA ParseString ==
    ASSUME NEW s \in Seq(Char \ Dropped)
    PROVE  s \in CharTexts /\ QuotedText(s) \in Whole /\ parse[QuotedText(s)] = Str(s)
<1> DEFINE Q == QuotedText(s)
<1>1. s \in CharTexts /\ unescapify(EscapedText(s)) = s
  BY Unescapes
<1>2. /\ EscapedText(s) \in CharTexts /\ Q \in CharTexts
      /\ Len(Q) = Len(EscapedText(s)) + 2
      /\ Q[1] = QuoteChar /\ Q[Len(Q)] = QuoteChar /\ Holds(Q, 1, EscapedText(s))
  BY <1>1, QuotedParts
<1> HIDE DEF Q
<1> DEFINE E == EscapedText(s)
<1> HIDE DEF E
<1>3. E \in CharTexts /\ Len(Q) = Len(E) + 2 /\ Holds(Q, 1, E) /\ unescapify(E) = s
  BY <1>1, <1>2 DEF E
<1>4. Len(E) \in Nat
  BY <1>3, TextFacts
<1>5. QuoteChar # "ws"
  BY DEF QuoteChar
<1>6. Q \in Whole
  <2>1. Len(Q) >= 1
    BY <1>3, <1>4
  <2> QED
    BY Zenon, <1>2, <1>5, <2>1 DEF Whole
<1>7. Inner(Q) = E
  <2>1. SubSeq(Q, 1 + 1, 1 + Len(E)) = E
    BY <1>2, <1>3, HeldPart
  <2> DEFINE y == Len(E)
             x == Len(Q)
  <2>2. x = y + 2 /\ y \in Nat
    BY Zenon, <1>3, <1>4
  <2> HIDE DEF x, y
  <2>3. 1 + 1 = 2 /\ 1 + y = x - 1
    BY <2>2
  <2> QED
    BY Zenon, <2>1, <2>3 DEF Inner, x, y
<1>8. strip(Q) = Q /\ Q # <<>>
  BY <1>6, WholeFacts
<1>9. parse[Q] = Parsed(Q, parse)
  BY <1>2, ParseText
<1>10. Parsed(Q, parse) = Str(unescapify(Inner(Q)))
  BY Zenon, <1>2, <1>8, ParsedCases
<1> QED
  BY Zenon, <1>1, <1>3, <1>6, <1>7, <1>9, <1>10 DEF Q

\* A number, true, false or null.
LEMMA ParseMark ==
    ASSUME NEW c \in Numbers \cup Literals
    PROVE  /\ <<c>> \in Whole /\ <<c>> \in Level /\ <<c>> \in Quiet /\ ListCommas(<<c>>) = {}
           /\ c \in Numbers => parse[<<c>>] = Num(c)
           /\ c \in Literals => parse[<<c>>] = Lit(c)
<1> DEFINE s == <<c>>
<1>0. /\ c \in Char /\ c \notin Brackets /\ c # QuoteChar /\ c # Esc /\ c # "," /\ c # "ws"
      /\ c \notin {"{", "[", QuoteChar} /\ c \notin {QuoteChar, Esc, Comma}
  BY Zenon DEF Char, Marks, Brackets, QuoteChar, Esc, Numbers, Literals, Comma
<1>1. s \in CharTexts /\ Len(s) = 1 /\ s[1] = c
  BY Zenon, <1>0, OneChar
<1>2. s \in Level /\ ListCommas(s) = {} /\ s \in Quiet
  BY Zenon, <1>0, LevelChar, QuietChar
<1> HIDE DEF s
<1>3. s \in Whole
  <2>1. 1 >= 1
    OBVIOUS
  <2> QED
    BY Zenon, <1>0, <1>1, <2>1 DEF Whole
<1>4. strip(s) = s /\ s # <<>>
  BY <1>3, WholeFacts
<1>5. parse[s] = Parsed(s, parse)
  BY <1>1, ParseText
<1>6. /\ c \in Numbers => Parsed(s, parse) = Num(c)
      /\ c \in Literals => Parsed(s, parse) = Lit(c)
  BY Zenon, <1>0, <1>1, <1>4, ParsedCases
<1> QED
  BY Zenon, <1>2, <1>3, <1>5, <1>6 DEF s

\* Any text that does not begin with a bracket is read as a value without elements.
LEMMA ParseKind ==
    ASSUME NEW t \in CharTexts, NEW x, strip(t) # <<>> => strip(t)[1] = x,
           x \notin Brackets
    PROVE  parse[t] \in Atoms
<1> DEFINE s == strip(t)
<1>1. s \in CharTexts
  BY StripFacts
<1>2. parse[t] = Parsed(t, parse)
  BY ParseText
<1>3. \A c \in Numbers : Num(c) \in Atoms
  BY Zenon DEF Num, Atoms, NumLits
<1>4. \A c \in Literals : Lit(c) \in Atoms
  BY Zenon DEF Lit, Atoms, NumLits
<1>5. \A u \in CharTexts : Str(u) \in Atoms
  BY Zenon DEF Str, Atoms, CharTexts
<1>6. "0" \in Numbers
  BY Zenon DEF Numbers
<1> HIDE DEF s
<1>7. s = strip(t) /\ (s # <<>> => s[1] \notin {"{", "["})
  BY Zenon DEF s, Brackets
<1> DEFINE R == Parsed(t, parse)
<1>8. /\ s = <<>> => R = Num("0")
      /\ s # <<>> /\ s[1] = QuoteChar => R = Str(unescapify(Inner(s)))
      /\ s # <<>> /\ s[1] \notin {"{", "[", QuoteChar} =>
            /\ Len(s) = 1 /\ s[1] \in Numbers => R = Num(s[1])
            /\ Len(s) = 1 /\ s[1] \in Literals => R = Lit(s[1])
            /\ ~(Len(s) = 1 /\ s[1] \in Numbers \cup Literals) => R = Num("0")
  BY Zenon, <1>7, ParsedCases
<1>13. parse[t] = R
  BY Zenon, <1>2
<1> HIDE DEF R
<1>9. CASE s = <<>>
  BY Zenon, <1>3, <1>6, <1>8, <1>9, <1>13
<1>10. CASE s # <<>> /\ s[1] = QuoteChar
  <2>1. Len(s) >= 1
    <3>1. Len(s) # 0 /\ Len(s) \in Nat
      BY <1>1, <1>10, EmptySeq, TextFacts DEF CharTexts
    <3> QED
      BY <3>1
  <2>2. Inner(s) \in CharTexts
    BY <1>1, <2>1, InnerFacts
  <2>3. unescapify(Inner(s)) \in CharTexts
    BY <2>2, UnescapeSteps
  <2> QED
    BY Zenon, <1>5, <1>8, <1>10, <1>13, <2>3
<1>11. CASE s # <<>> /\ s[1] # QuoteChar
  <2>1. s[1] \notin {"{", "[", QuoteChar}
    BY Zenon, <1>7, <1>11
  <2> QED
    BY Zenon, <1>3, <1>4, <1>6, <1>8, <1>11, <1>13, <2>1
<1> QED
  BY Zenon, <1>9, <1>10, <1>11

\* What is printed of a value that holds no others.
LEMMA AtomFacts ==
    ASSUME NEW v \in Atoms
    PROVE  /\ AtomTexts[v] = AtomText(v)
           /\ AtomText(v) \in CharTexts /\ AtomText(v) \in Quiet /\ AtomText(v) \in Whole
           /\ AtomText(v)[1] \notin Brackets
<1>1. AtomTexts[v] = AtomText(v)
  BY Zenon DEF AtomTexts
<1>2. CASE v \in NumLits
  <2>1. PICK c \in Numbers \cup Literals : v[1] # "str" /\ v[2] = <<c>>
    <3>1. CASE v \in {"num"} \X {<<c>> : c \in Numbers}
      <4>1. v[1] = "num" /\ v[2] \in {<<c>> : c \in Numbers}
        BY Zenon, <3>1
      <4>2. PICK c \in Numbers : v[2] = <<c>>
        BY Zenon, <4>1
      <4> QED
        BY Zenon, <4>1, <4>2
    <3>2. CASE v \in {"lit"} \X {<<c>> : c \in Literals}
      <4>1. v[1] = "lit" /\ v[2] \in {<<c>> : c \in Literals}
        BY Zenon, <3>2
      <4>2. PICK c \in Literals : v[2] = <<c>>
        BY Zenon, <4>1
      <4> QED
        BY Zenon, <4>1, <4>2
    <3> QED
      BY Zenon, <1>2, <3>1, <3>2 DEF NumLits
  <2>2. AtomText(v) = <<c>>
    BY Zenon, <2>1 DEF AtomText
  <2>3. <<c>> \in Whole /\ <<c>> \in Quiet
    BY Zenon, ParseMark
  <2>4. c \in Char /\ c \notin Brackets
    BY Zenon DEF Char, Marks, Brackets, Numbers, Literals
  <2>5. <<c>> \in CharTexts /\ <<c>>[1] = c
    BY Zenon, <2>4, OneChar
  <2> QED
    BY Zenon, <1>1, <2>2, <2>3, <2>4, <2>5
<1>3. CASE v \in {"str"} \X Seq(Char)
  <2>1. v[1] = "str" /\ v[2] \in CharTexts
    BY Zenon, <1>3 DEF CharTexts
  <2> DEFINE s == v[2]
             Q == QuotedText(s)
             E == EscapedText(s)
  <2>2. AtomText(v) = Q
    BY Zenon, <2>1 DEF AtomText
  <2> HIDE DEF s
  <2>3. s \in CharTexts
    BY <2>1 DEF s
  <2>4. /\ E \in CharTexts /\ Q \in CharTexts /\ Len(Q) = Len(E) + 2
        /\ Q[1] = QuoteChar /\ Q[Len(Q)] = QuoteChar
    BY <2>3, QuotedParts
  <2>5. Q \in Quiet
    BY <2>3, QuietQuoted
  <2> HIDE DEF Q, E
  <2>6. Len(Q) >= 1
    <3> DEFINE x == Len(Q)
               y == Len(E)
    <3>1. y \in Nat /\ x = y + 2
      BY Zenon, <2>4, TextFacts
    <3> HIDE DEF x, y
    <3>2. x >= 1
      BY <3>1
    <3> QED
      BY Zenon, <3>2 DEF x
  <2>7. QuoteChar # "ws" /\ QuoteChar \notin Brackets
    BY Zenon DEF QuoteChar, Brackets
  <2>8. Q \in Whole
    BY Zenon, <2>4, <2>6, <2>7 DEF Whole
  <2> QED
    BY Zenon, <1>1, <2>2, <2>4, <2>5, <2>7, <2>8
<1> QED
  BY Zenon, <1>2, <1>3 DEF Atoms

\* A pair is its parts.
LEMMA PairParts ==
    ASSUME NEW A, NEW B, NEW v \in A \X B
    PROVE  v[1] \in A /\ v[2] \in B /\ v = <<v[1], v[2]>>
  OBVIOUS

\* V is a text that can stand in an object and is read as the value v.
Faithful(v, V) == V \in Level /\ V \in Whole /\ ObjectCommas(V) = {} /\ parse[V] = v

LEMMA FaithfulNumber ==
    ASSUME NEW v \in NumLits
    PROVE  v \in Atoms /\ Faithful(v, AtomText(v)) /\ ListCommas(AtomText(v)) = {}
<1>0. v \in Atoms
  BY Zenon DEF Atoms
<1>1. ASSUME NEW c \in Numbers \cup Literals, v[1] # "str", v[2] = <<c>>,
             (c \in Numbers /\ v = Num(c)) \/ (c \in Literals /\ v = Lit(c))
      PROVE  Faithful(v, AtomText(v)) /\ ListCommas(AtomText(v)) = {}
  <2>1. AtomText(v) = <<c>>
    BY Zenon, <1>1 DEF AtomText
  <2> DEFINE s == <<c>>
  <2>2. /\ s \in Whole /\ s \in Level /\ ListCommas(s) = {}
        /\ c \in Numbers => parse[s] = Num(c)
        /\ c \in Literals => parse[s] = Lit(c)
    BY Zenon, ParseMark
  <2> HIDE DEF s
  <2>3. ObjectCommas(s) = {}
    <3>1. s \in CharTexts
      BY Zenon, <2>2 DEF Level
    <3>2. ObjectCommas(s) \subseteq ListCommas(s)
      BY Zenon, <3>1, CommasIn
    <3> QED
      BY Zenon, <2>2, <3>2
  <2>4. parse[s] = v
    BY Zenon, <1>1, <2>2
  <2> QED
    BY Zenon, <2>1, <2>2, <2>3, <2>4 DEF Faithful, s
<1>2. CASE v \in {"num"} \X {<<c>> : c \in Numbers}
  <2>1. v[1] = "num" /\ v[2] \in {<<c>> : c \in Numbers} /\ v = <<v[1], v[2]>>
    BY SMTT(20), <1>2
  <2>2. PICK c \in Numbers : v[2] = <<c>>
    BY Zenon, <2>1
  <2>3. v = Num(c) /\ v[1] # "str" /\ c \in Numbers \cup Literals
    BY Zenon, <2>1, <2>2 DEF Num
  <2> QED
    BY Zenon, <1>0, <1>1, <2>2, <2>3
<1>3. CASE v \in {"lit"} \X {<<c>> : c \in Literals}
  <2>1. v[1] = "lit" /\ v[2] \in {<<c>> : c \in Literals} /\ v = <<v[1], v[2]>>
    BY SMTT(20), <1>3
  <2>2. PICK c \in Literals : v[2] = <<c>>
    BY Zenon, <2>1
  <2>3. v = Lit(c) /\ v[1] # "str" /\ c \in Numbers \cup Literals
    BY Zenon, <2>1, <2>2 DEF Lit
  <2> QED
    BY Zenon, <1>0, <1>1, <2>2, <2>3
<1> QED
  BY Zenon, <1>2, <1>3 DEF NumLits

\* A set of characters is less than another.
LEMMA Wider ==
    ASSUME NEW S, NEW T, S \subseteq T, NEW s \in Seq(S)
    PROVE  s \in Seq(T)
<1>1. Len(s) \in Nat /\ s \in [1..Len(s) -> S]
  BY LenProperties
<1>2. s \in [1..Len(s) -> T]
  BY <1>1
<1> QED
  BY <1>1, <1>2

LEMMA FaithfulString ==
    ASSUME NEW v \in StringsWithout(Brackets)
    PROVE  /\ v \in Atoms /\ Faithful(v, AtomText(v))
           /\ v \in StringsWithout(Brackets \cup {","}) => ListCommas(AtomText(v)) = {}
<1> DEFINE s == v[2]
           Q == QuotedText(s)
<1>1. v[1] = "str" /\ s \in Seq(Char \ (Dropped \cup Brackets)) /\ v = <<"str", s>>
  <2> DEFINE Z == Seq(Char \ (Dropped \cup Brackets))
  <2>1. v \in {"str"} \X Z
    BY Zenon DEF StringsWithout
  <2> HIDE DEF Z
  <2>2. v[1] \in {"str"} /\ v[2] \in Z /\ v = <<v[1], v[2]>>
    BY ZenonT(60), <2>1, PairParts
  <2> QED
    BY Zenon, <2>2 DEF Z
<1>2. AtomText(v) = Q
  BY Zenon, <1>1 DEF AtomText
<1> HIDE DEF s
<1>3. s \in Seq(Char \ Dropped) /\ s \in Seq(Char \ Brackets) /\ s \in Seq(Char)
  <2>1. /\ Char \ (Dropped \cup Brackets) \subseteq Char \ Dropped
        /\ Char \ (Dropped \cup Brackets) \subseteq Char \ Brackets
        /\ Char \ (Dropped \cup Brackets) \subseteq Char
    BY Zenon
  <2> HIDE DEF Q
  <2> QED
    BY Zenon, <1>1, <2>1, Wider
<1>4. Q \in Whole /\ parse[Q] = Str(s)
  BY Zenon, <1>3, ParseString
<1>5. Q \in Level /\ ObjectCommas(Q) = {}
  BY Zenon, <1>3, QuotedLevel
<1> HIDE DEF Q
<1>6. Faithful(v, Q)
  BY Zenon, <1>1, <1>4, <1>5 DEF Faithful, Str
<1>7. v \in Atoms
  BY Zenon, <1>1, <1>3 DEF Atoms
<1>8. ASSUME v \in StringsWithout(Brackets \cup {","}) PROVE ListCommas(Q) = {}
  <2> DEFINE M == {Comma}
  <2>1. s \in Seq(Char \ (Dropped \cup (Brackets \cup {","})))
    BY Zenon, <1>8 DEF StringsWithout, s
  <2>2. Char \ (Dropped \cup (Brackets \cup {","})) \subseteq Char \ M
    BY Zenon DEF Comma
  <2>3. {QuoteChar, Esc, "n", "v", "u00xx"} \cap M = {}
    BY Zenon DEF Comma, QuoteChar, Esc
  <2> HIDE DEF M
  <2>4. s \in Seq(Char \ M)
    BY Zenon, <2>1, <2>2, Wider
  <2>5. s \in CharTexts /\ Q \in Seq(Char \ M)
    BY Zenon, <2>3, <2>4, QuotedKind DEF Q
  <2>6. \A x \in ListCommas(Q) : FALSE
    <3> SUFFICES ASSUME NEW x \in ListCommas(Q) PROVE FALSE
      OBVIOUS
    <3>1. Q \in CharTexts
      BY Zenon, <2>5, QuotedParts DEF Q
    <3>2. x \in 1..Len(Q) /\ Q[x] = ","
      BY Zenon, <3>1, TextFacts DEF ListCommas
    <3>3. Q[x] \in Char \ M
      BY Zenon, <2>5, <3>2, ElementOfSeq
    <3> QED
      BY Zenon, <3>2, <3>3 DEF M, Comma
  <2> QED
    BY Zenon, <2>6
<1> QED
  BY Zenon, <1>2, <1>6, <1>7, <1>8

----------------------------------------------------------------------------
(* Containers are read as what was printed.                                 *)

LEMMA BodyEmpty ==
    ASSUME NEW pad \in CharTexts
    PROVE  Body(<<>>, pad) = pad
<1> DEFINE R == [i \in DOMAIN Padded(<<>>, pad) |->
                    (IF i = 1 THEN <<>> ELSE <<",">>) \o Padded(<<>>, pad)[i]]
<1>1. <<>> \in Seq(CharTexts) /\ Len(<<>>) = 0
  BY DEF CharTexts
<1>2. Padded(<<>>, pad) \in Seq(CharTexts) /\ Len(Padded(<<>>, pad)) = 0
  BY Zenon, <1>1, PaddedFacts
<1>3. Padded(<<>>, pad) = <<>>
  <2> DEFINE Z == Padded(<<>>, pad)
  <2>1. Z \in Seq(CharTexts) /\ Len(Z) = 0
    BY <1>2
  <2> HIDE DEF Z
  <2>2. Z = <<>>
    BY <2>1, EmptySeq
  <2> QED
    BY Zenon, <2>2 DEF Z
<1>4. Separated(Padded(<<>>, pad)) = FlattenSeq(R)
  BY Zenon DEF Separated
<1>5. R = [i \in DOMAIN <<>> |-> (IF i = 1 THEN <<>> ELSE <<",">>) \o <<>>[i]]
  BY Zenon, <1>3
<1>6. R = <<>>
  <2>1. DOMAIN R = DOMAIN <<>> /\ DOMAIN <<>> = {}
    <3>1. DOMAIN <<>> = {}
      OBVIOUS
    <3> QED
      BY Zenon, <1>5, <3>1
  <2>2. R = [i \in {} |-> R[i]]
    BY Zenon, <2>1
  <2> HIDE DEF R
  <2>3. R \in [1..0 -> CharTexts]
    <3>1. R \in [{} -> CharTexts]
      BY <2>1, <2>2
    <3>2. 1..0 = {}
      OBVIOUS
    <3> QED
      BY Zenon, <3>1, <3>2
  <2>4. R \in Seq(CharTexts) /\ Len(R) = 0
    BY <2>3
  <2> QED
    BY <2>4, EmptySeq
<1>7. FlattenSeq(<<>>) = <<>>
  <2>1. PICK P \in [0..Len(<<>>) -> Seq(Char)] : P[0] = <<>> /\ FlattenSeq(<<>>) = P[Len(<<>>)]
    <3>1. <<>> \in Seq(Seq(Char))
      BY <1>1 DEF CharTexts
    <3> QED
      BY Zenon, <3>1, Flattening
  <2> QED
    BY Zenon, <1>1, <2>1
<1> HIDE DEF R
<1>8. Separated(Padded(<<>>, pad)) = <<>>
  BY Zenon, <1>4, <1>6, <1>7
<1>9. Body(<<>>, pad) = <<>> \o pad
  BY Zenon, <1>8 DEF Body
<1> QED
  BY Zenon, <1>9, Unpadded

\* The part of element j, with the whitespace around it.
LEMMA Blocks ==
    ASSUME NEW T \in Seq(CharTexts), NEW pad \in Pads
    PROVE  /\ Widened(Padded(T, pad), pad) \in Seq(CharTexts)
           /\ Len(Widened(Padded(T, pad), pad)) = Len(T) /\ Len(T) \in Nat
           /\ \A j \in 1..Len(T) :
                 /\ T[j] \in CharTexts
                 /\ \E q \in Pads : Widened(Padded(T, pad), pad)[j] = (pad \o T[j]) \o q
<1> DEFINE U == Padded(T, pad)
           W == Widened(U, pad)
<1>1. pad \in CharTexts /\ <<>> \in Pads
  BY Zenon, PadFacts DEF Pads
<1>2. /\ U \in Seq(CharTexts) /\ Len(U) = Len(T) /\ Len(T) \in Nat
      /\ \A j \in 1..Len(T) : T[j] \in CharTexts /\ U[j] = pad \o T[j]
  BY Zenon, <1>1, PaddedFacts
<1> HIDE DEF U
<1>3. /\ W \in Seq(CharTexts) /\ Len(W) = Len(U)
      /\ \A j \in 1..Len(U) :
            U[j] \in CharTexts /\ W[j] = IF j = Len(U) THEN U[j] \o pad ELSE U[j]
  BY ZenonT(60), <1>1, <1>2, WidenedFacts
<1> HIDE DEF W
<1>4. ASSUME NEW j \in 1..Len(T) PROVE \E q \in Pads : W[j] = (pad \o T[j]) \o q
  <2>1. U[j] = pad \o T[j] /\ U[j] \in CharTexts
    BY Zenon, <1>2, <1>3
  <2>2. CASE j = Len(U)
    <3>1. W[j] = (pad \o T[j]) \o pad
      BY Zenon, <1>2, <1>3, <2>1, <2>2
    <3> QED
      BY Zenon, <3>1
  <2>3. CASE j # Len(U)
    <3>1. W[j] = U[j]
      BY Zenon, <1>2, <1>3, <2>3
    <3>2. U[j] = U[j] \o <<>>
      BY Zenon, <2>1, Unpadded
    <3>3. W[j] = (pad \o T[j]) \o <<>>
      BY Zenon, <2>1, <3>1, <3>2
    <3> QED
      BY Zenon, <1>1, <3>3
  <2> QED
    BY Zenon, <2>2, <2>3
<1> QED
  BY Zenon, <1>2, <1>3, <1>4 DEF U, W

\* Level elements make a level body, separated where it is joined.
LEMMA BodyLevel ==
    ASSUME NEW T \in Seq(CharTexts), NEW pad \in Pads, Len(T) >= 1,
           \A j \in 1..Len(T) : T[j] \in Level
    PROVE  /\ Body(T, pad) \in Level
           /\ (\A j \in 1..Len(T) : ListCommas(T[j]) = {}) =>
                 Cut(Body(T, pad), ListCommas(Body(T, pad))) = Widened(Padded(T, pad), pad)
           /\ (\A j \in 1..Len(T) : ObjectCommas(T[j]) = {}) =>
                 Cut(Body(T, pad), ObjectCommas(Body(T, pad))) = Widened(Padded(T, pad), pad)
<1> DEFINE U == Padded(T, pad)
           W == Widened(U, pad)
           s == Body(T, pad)
<1>1. /\ pad \in CharTexts /\ pad \in Level /\ ListCommas(pad) = {} /\ ObjectCommas(pad) = {}
      /\ \A q \in Pads : q \in Level /\ ListCommas(q) = {} /\ ObjectCommas(q) = {}
  BY Zenon, PadFacts
<1>2. U \in Seq(CharTexts) /\ Len(U) = Len(T)
  BY Zenon, <1>1, PaddedFacts
<1>3. s = Separated(U) \o pad
  BY Zenon DEF Body
<1>4. s \in CharTexts /\ \E d : JoinedAt(s, W, d)
  <2>1. Len(U) >= 1
    BY Zenon, <1>2
  <2> QED
    BY Zenon, <1>1, <1>2, <1>3, <2>1, BodyShape
<1>5. PICK d : JoinedAt(s, W, d)
  BY Zenon, <1>4
<1>6. Len(W) = Len(T) /\ \A j \in 1..Len(T) : \E q \in Pads : W[j] = (pad \o T[j]) \o q
  BY Zenon, Blocks
<1>7. ASSUME NEW j \in 1..Len(T)
      PROVE  /\ W[j] \in Level
             /\ ListCommas(T[j]) = {} => ListCommas(W[j]) = {}
             /\ ObjectCommas(T[j]) = {} => ObjectCommas(W[j]) = {}
  <2>1. PICK q \in Pads : W[j] = (pad \o T[j]) \o q
    BY Zenon, <1>6
  <2>2. T[j] \in Level /\ q \in Level /\ ListCommas(q) = {} /\ ObjectCommas(q) = {}
    BY Zenon, <1>1
  <2>3. /\ pad \o T[j] \in Level
        /\ ListCommas(T[j]) = {} => ListCommas(pad \o T[j]) = {}
        /\ ObjectCommas(T[j]) = {} => ObjectCommas(pad \o T[j]) = {}
    BY Zenon, <1>1, <2>2, LevelBoth
  <2>4. /\ (pad \o T[j]) \o q \in Level
        /\ ListCommas(pad \o T[j]) = {} => ListCommas((pad \o T[j]) \o q) = {}
        /\ ObjectCommas(pad \o T[j]) = {} => ObjectCommas((pad \o T[j]) \o q) = {}
    BY Zenon, <2>2, <2>3, LevelBoth
  <2> QED
    BY Zenon, <2>1, <2>3, <2>4
<1>8. Cut(s, Joins(W, d)) = W
  BY Zenon, <1>4, <1>5, JoinedCut
<1>9. \A j \in 1..Len(W) : W[j] \in Level
  BY Zenon, <1>6, <1>7
<1>10. /\ s \in Level
       /\ (\A j \in 1..Len(W) : ListCommas(W[j]) = {}) => ListCommas(s) = Joins(W, d)
       /\ (\A j \in 1..Len(W) : ObjectCommas(W[j]) = {}) => ObjectCommas(s) = Joins(W, d)
  BY Zenon, <1>4, <1>5, <1>9, JoinedLevel
<1> HIDE DEF U, W, s
<1>11. ASSUME \A j \in 1..Len(T) : ListCommas(T[j]) = {} PROVE Cut(s, ListCommas(s)) = W
  <2>1. \A j \in 1..Len(W) : ListCommas(W[j]) = {}
    BY Zenon, <1>6, <1>7, <1>11
  <2> QED
    BY Zenon, <1>8, <1>10, <2>1
<1>12. ASSUME \A j \in 1..Len(T) : ObjectCommas(T[j]) = {} PROVE Cut(s, ObjectCommas(s)) = W
  <2>1. \A j \in 1..Len(W) : ObjectCommas(W[j]) = {}
    BY Zenon, <1>6, <1>7, <1>12
  <2> QED
    BY Zenon, <1>8, <1>10, <2>1
<1> QED
  BY Zenon, <1>10, <1>11, <1>12 DEF U, W, s

\* A bracketed text of level elements.
LEMMA BracketedLevel ==
    ASSUME NEW T \in Seq(CharTexts), NEW pad \in Pads, NEW p \in Enclosing, NEW s,
           s = Bracketed(p[1], T, p[2], pad), \A j \in 1..Len(T) : T[j] \in Level
    PROVE  /\ s \in Level /\ s \in Whole /\ ListCommas(s) = {} /\ ObjectCommas(s) = {}
           /\ Inner(s) = Body(T, pad) /\ s[1] = p[1]
<1> DEFINE B == Body(T, pad)
<1>1. /\ pad \in CharTexts /\ pad \in Level
  BY Zenon, PadFacts
<1>2. /\ s \in CharTexts /\ B \in CharTexts /\ Len(s) = Len(B) + 2
      /\ Holds(s, 1, B) /\ s[1] = p[1] /\ s[Len(s)] = p[2] /\ Inner(s) = B
  <2> DEFINE o == p[1]
             c == p[2]
  <2>1. s = Bracketed(p[1], T, p[2], pad) /\ T \in Seq(CharTexts) /\ p \in Enclosing
    BY Zenon
  <2> QED
    BY ZenonT(60), <1>1, <2>1, BracketedFacts
<1>3. B \in Level
  <2>1. Len(T) \in Nat
    BY LenProperties
  <2>2. CASE Len(T) >= 1
    BY Zenon, <2>2, BodyLevel
  <2>3. CASE Len(T) = 0
    <3>1. T = <<>>
      BY <2>3, EmptySeq
    <3> QED
      BY Zenon, <1>1, <3>1, BodyEmpty
  <2>4. Len(T) >= 1 \/ Len(T) = 0
    <3> DEFINE x == Len(T)
    <3>1. x \in Nat
      BY <2>1
    <3> HIDE DEF x
    <3>2. x >= 1 \/ x = 0
      BY <3>1
    <3> QED
      BY Zenon, <3>2 DEF x
  <2> QED
    BY Zenon, <2>2, <2>3, <2>4
<1> HIDE DEF B
<1>4. s \in Level /\ ListCommas(s) = {} /\ ObjectCommas(s) = {}
  BY Zenon, <1>2, <1>3, LevelEnclosed
<1>5. p[1] # "ws" /\ p[2] # "ws"
  BY Zenon, EnclosingFacts
<1>6. Len(s) >= 1
  <2> DEFINE x == Len(s)
             y == Len(B)
  <2>1. y \in Nat /\ x = y + 2
    BY Zenon, <1>2, TextFacts
  <2> HIDE DEF x, y
  <2>2. x >= 1
    BY <2>1
  <2> QED
    BY Zenon, <2>2 DEF x
<1>7. s \in Whole
  BY Zenon, <1>2, <1>5, <1>6 DEF Whole
<1> QED
  BY Zenon, <1>2, <1>4, <1>7 DEF B

ListText(T) == Bracketed("[", T, "]", <<>>)
ObjectText(T, pad) == Bracketed("{", T, "}", pad)

LEMMA ListTextFacts ==
    ASSUME NEW T \in Seq(CharTexts), \A j \in 1..Len(T) : T[j] \in Level
    PROVE  /\ ListText(T) \in Level /\ ListText(T) \in Whole
           /\ ListCommas(ListText(T)) = {} /\ ObjectCommas(ListText(T)) = {}
           /\ Inner(ListText(T)) = Body(T, <<>>)
           /\ parse[ListText(T)] = List(ListRead(ListParts(ListText(T)), parse))
<1> DEFINE p == <<"[", "]">>
           s == ListText(T)
<1>1. p \in Enclosing /\ s = Bracketed(p[1], T, p[2], <<>>) /\ <<>> \in Pads /\ p[1] = "["
  BY Zenon DEF Enclosing, ListText, Pads
<1>2. /\ s \in Level /\ s \in Whole /\ ListCommas(s) = {} /\ ObjectCommas(s) = {}
      /\ Inner(s) = Body(T, <<>>) /\ s[1] = "["
  <2> HIDE DEF p, s
  <2>1. p \in Enclosing /\ s = Bracketed(p[1], T, p[2], <<>>) /\ <<>> \in Pads
    BY Zenon, <1>1
  <2>2. /\ s \in Level /\ s \in Whole /\ ListCommas(s) = {} /\ ObjectCommas(s) = {}
        /\ Inner(s) = Body(T, <<>>) /\ s[1] = p[1]
    BY SMTT(60), <2>1, BracketedLevel
  <2> QED
    BY Zenon, <1>1, <2>2
<1> HIDE DEF s
<1>3. s \in CharTexts /\ s # <<>> /\ strip(s) = s
  BY Zenon, <1>2, WholeFacts
<1>4. parse[s] = List(ListRead(ListParts(s), parse))
  BY Zenon, <1>2, <1>3, ParseText, ParsedCases
<1> QED
  BY Zenon, <1>2, <1>4 DEF s

LEMMA ObjectTextFacts ==
    ASSUME NEW T \in Seq(CharTexts), NEW pad \in Pads, \A j \in 1..Len(T) : T[j] \in Level
    PROVE  /\ ObjectText(T, pad) \in Level /\ ObjectText(T, pad) \in Whole
           /\ ListCommas(ObjectText(T, pad)) = {} /\ ObjectCommas(ObjectText(T, pad)) = {}
           /\ Inner(ObjectText(T, pad)) = Body(T, pad)
           /\ parse[ObjectText(T, pad)] =
                 Obj(Assigned(PairsRead(ObjectParts(ObjectText(T, pad)), parse)))
<1> DEFINE p == <<"{", "}">>
           s == ObjectText(T, pad)
<1>1. p \in Enclosing /\ s = Bracketed(p[1], T, p[2], pad) /\ p[1] = "{"
  BY Zenon DEF Enclosing, ObjectText
<1>2. /\ s \in Level /\ s \in Whole /\ ListCommas(s) = {} /\ ObjectCommas(s) = {}
      /\ Inner(s) = Body(T, pad) /\ s[1] = "{"
  <2> HIDE DEF p, s
  <2>1. p \in Enclosing /\ s = Bracketed(p[1], T, p[2], pad) /\ pad \in Pads
    BY Zenon, <1>1
  <2>2. /\ s \in Level /\ s \in Whole /\ ListCommas(s) = {} /\ ObjectCommas(s) = {}
        /\ Inner(s) = Body(T, pad) /\ s[1] = p[1]
    BY SMTT(60), <2>1, BracketedLevel
  <2> QED
    BY Zenon, <1>1, <2>2
<1> HIDE DEF s
<1>3. s \in CharTexts /\ s # <<>> /\ strip(s) = s
  BY Zenon, <1>2, WholeFacts
<1>4. parse[s] = Obj(Assigned(PairsRead(ObjectParts(s), parse)))
  BY Zenon, <1>2, <1>3, ParseText, ParsedCases
<1> QED
  BY Zenon, <1>2, <1>4 DEF s

\* Two sequences with the same elements are the same.
LEMMA SameSeq ==
    ASSUME NEW S, NEW vs \in Seq(S), NEW f, DOMAIN f = 1..Len(vs), f = [i \in DOMAIN f |-> f[i]],
           \A i \in 1..Len(vs) : f[i] = vs[i]
    PROVE  f = vs
<1>1. DOMAIN vs = 1..Len(vs) /\ vs = [i \in DOMAIN vs |-> vs[i]]
  BY LenProperties
<1> QED
  BY <1>1

\* A list is read as its elements.
LEMMA ReadList ==
    ASSUME NEW T \in Seq(CharTexts), NEW S, NEW vs \in Seq(S), Len(T) = Len(vs),
           \A j \in 1..Len(T) :
              T[j] \in Level /\ T[j] \in Whole /\ ListCommas(T[j]) = {} /\ parse[T[j]] = vs[j]
    PROVE  Faithful(List(vs), ListText(T)) /\ ListCommas(ListText(T)) = {}
<1> DEFINE s == ListText(T)
           B == Body(T, <<>>)
           W == Widened(Padded(T, <<>>), <<>>)
           parts == ListParts(s)
           cut == Cut(B, ListCommas(B))
<1>0. \A j \in 1..Len(T) : T[j] \in Level
  BY Zenon
<1>1. /\ s \in Level /\ s \in Whole /\ ListCommas(s) = {} /\ ObjectCommas(s) = {}
      /\ Inner(s) = B /\ parse[s] = List(ListRead(parts, parse))
  BY Zenon, <1>0, ListTextFacts
<1>2. /\ W \in Seq(CharTexts) /\ Len(W) = Len(T) /\ Len(T) \in Nat
      /\ \A j \in 1..Len(T) :
            T[j] \in CharTexts /\ \E q \in Pads : W[j] = (<<>> \o T[j]) \o q
  <2>1. <<>> \in Pads
    BY Zenon DEF Pads
  <2> QED
    BY Zenon, <2>1, Blocks
<1>3. parts = IF Last(cut) = <<>> THEN Front(cut) ELSE cut
  BY Zenon, <1>1 DEF ListParts
<1> HIDE DEF s, B, W, parts, cut
<1>4. DOMAIN parts = 1..Len(vs) /\ \A j \in 1..Len(vs) : parse[parts[j]] = vs[j]
  <2>1. CASE Len(T) = 0
    <3>1. T = <<>>
      BY <2>1, EmptySeq
    <3>2. B = <<>> /\ <<>> \in CharTexts
      BY Zenon, <3>1, BodyEmpty, LevelEmpty DEF B, Level
    <3>3. cut = <<<<>>>>
      <4>1. ListCommas(B) = {} /\ Len(B) = 0
        <5>1. Len(<<>>) = 0
          OBVIOUS
        <5> QED
          BY Zenon, <3>2, <5>1, LevelEmpty
      <4>2. CutLoop(B, {})[0] = <<<<>>>>
        BY Zenon, <3>2, CutSteps
      <4> QED
        BY Zenon, <4>1, <4>2 DEF cut, Cut
    <3>4. Last(<<<<>>>>) = <<>> /\ Front(<<<<>>>>) = <<>>
      BY DEF Last, Front
    <3>5. parts = <<>>
      BY Zenon, <1>3, <3>3, <3>4
    <3>6. DOMAIN <<>> = 1..0 /\ ~ \E j \in 1..0 : TRUE
      OBVIOUS
    <3> QED
      BY Zenon, <2>1, <3>5, <3>6
  <2>2. CASE Len(T) >= 1
    <3>1. cut = W
      <4>1. <<>> \in Pads
        BY Zenon DEF Pads
      <4>2. \A j \in 1..Len(T) : ListCommas(T[j]) = {}
        BY Zenon
      <4> QED
        BY Zenon, <1>0, <2>2, <4>1, <4>2, BodyLevel DEF cut, B, W
    <3>2. ASSUME NEW j \in 1..Len(T) PROVE parse[W[j]] = vs[j] /\ W[j] # <<>>
      <4>1. PICK q \in Pads : W[j] = (<<>> \o T[j]) \o q
        BY Zenon, <1>2
      <4>2. T[j] \in Whole /\ <<>> \in Blanks /\ q \in Blanks
        BY Zenon, PadFacts, WhiteFacts
      <4>3. parse[(<<>> \o T[j]) \o q] = parse[T[j]] /\ (<<>> \o T[j]) \o q \in CharTexts
        BY ZenonT(60), <4>2, ParseBetween
      <4>4. W[j] # <<>>
        <5>1. strip((<<>> \o T[j]) \o q) = T[j]
          BY ZenonT(60), <4>2, StripBetween DEF Whole
        <5>2. strip(<<>>) = <<>>
          <6>1. <<>> \in CharTexts /\ Len(<<>>) = 0 /\ DOMAIN <<>> = {}
            BY DEF CharTexts
          <6>2. {i \in DOMAIN <<>> : <<>>[i] # "ws"} = {}
            BY Zenon, <6>1
          <6> QED
            BY Zenon, <6>2 DEF strip
        <5>3. T[j] # <<>>
          BY Zenon, <4>2, WholeFacts
        <5> QED
          BY Zenon, <4>1, <5>1, <5>2, <5>3
      <4> QED
        BY Zenon, <4>1, <4>3, <4>4
    <3>3. Last(W) # <<>>
      <4>1. Len(T) \in 1..Len(T)
        BY <1>2, <2>2
      <4> QED
        BY Zenon, <1>2, <3>2, <4>1 DEF Last
    <3>4. parts = W
      BY Zenon, <1>3, <3>1, <3>3
    <3>5. DOMAIN W = 1..Len(W)
      BY <1>2, LenProperties
    <3> QED
      BY Zenon, <1>2, <3>2, <3>4, <3>5
  <2>3. Len(T) = 0 \/ Len(T) >= 1
    <3> DEFINE x == Len(T)
    <3>1. x \in Nat
      BY Zenon, <1>2
    <3> HIDE DEF x
    <3>2. x = 0 \/ x >= 1
      BY <3>1
    <3> QED
      BY Zenon, <3>2 DEF x
  <2> QED
    BY Zenon, <2>1, <2>2, <2>3
<1>5. ListRead(parts, parse) = vs
  <2> DEFINE f == ListRead(parts, parse)
  <2>1. f = [i \in DOMAIN parts |-> parse[parts[i]]]
    BY Zenon DEF ListRead
  <2>2. DOMAIN f = 1..Len(vs) /\ f = [i \in DOMAIN f |-> f[i]] /\ \A i \in 1..Len(vs) : f[i] = vs[i]
    BY Zenon, <1>4, <2>1
  <2> HIDE DEF f
  <2>3. f = vs
    BY Zenon, <2>2, SameSeq
  <2> QED
    BY Zenon, <2>3 DEF f
<1> QED
  BY Zenon, <1>1, <1>5 DEF Faithful, s

\* A part that begins with a printed key and a colon has that key.
LEMMA KeyRead ==
    ASSUME NEW B \in CharTexts, NEW key \in Seq(Char \ (Dropped \cup Brackets)), NEW pad \in Pads,
           NEW P, P = pad \o QuotedText(key), Holds(B, 0, P), Len(P) + 1 <= Len(B),
           B[Len(P) + 1] = ColonChar
    PROVE  val_string(parse[NameOf(B)]) = key
<1>1. key \in Seq(Char \ Brackets) /\ key \in Seq(Char \ Dropped)
  <2>1. /\ Char \ (Dropped \cup Brackets) \subseteq Char \ Dropped
        /\ Char \ (Dropped \cup Brackets) \subseteq Char \ Brackets
    BY Zenon
  <2> QED
    BY Zenon, <2>1, Wider
<1>2. NameOf(B) = P
  BY Zenon, <1>1, NamePart
<1>3. QuotedText(key) \in Whole /\ parse[QuotedText(key)] = Str(key) /\ QuotedText(key) \in CharTexts
  BY Zenon, <1>1, ParseString, WholeFacts
<1>4. pad \in Blanks /\ <<>> \in Blanks /\ pad \in CharTexts
  BY Zenon, PadFacts, WhiteFacts
<1>5. parse[(pad \o QuotedText(key)) \o <<>>] = Str(key)
  BY Zenon, <1>3, <1>4, ParseBetween
<1>6. (pad \o QuotedText(key)) \o <<>> = P
  <2>1. pad \o QuotedText(key) \in CharTexts
    BY Zenon, <1>3, <1>4, Concatenated
  <2> QED
    BY Zenon, <2>1, Unpadded
<1>7. val_string(Str(key)) = key
  BY Zenon DEF val_string, Str
<1> QED
  BY Zenon, <1>2, <1>5, <1>6, <1>7

\* The part of a pair is read as its key and its value.
LEMMA PairRead ==
    ASSUME NEW key \in Seq(Char \ (Dropped \cup Brackets)), NEW V \in Whole, NEW pad \in Pads,
           NEW q \in Pads
    PROVE  /\ val_string(parse[NameOf(Block(key, V, pad, q))]) = key
           /\ parse[ValueOf(Block(key, V, pad, q))] = parse[V]
<1> DEFINE B == Block(key, V, pad, q)
           P == pad \o QuotedText(key)
           X == (pad \o V) \o q
<1>1. key \in Seq(Char \ Brackets)
  <2>1. Char \ (Dropped \cup Brackets) \subseteq Char \ Brackets
    BY Zenon
  <2> QED
    BY Zenon, <2>1, Wider
<1>2. V \in CharTexts
  BY Zenon, WholeFacts
<1>3. /\ B \in CharTexts /\ P \in CharTexts /\ Len(P) \in Nat
      /\ Holds(B, 0, P) /\ B[Len(P) + 1] = ColonChar
      /\ X \in CharTexts /\ Holds(B, Len(P) + 1, X) /\ Len(B) = (Len(P) + 1) + Len(X)
  <2>1. BlockAt(Block(key, V, pad, q), KeyPart(key, pad), (pad \o V) \o q)
    BY Zenon, <1>1, <1>2, PairBlock
  <2>2. P = KeyPart(key, pad)
    BY Zenon DEF KeyPart
  <2> QED
    BY Zenon, <2>1, <2>2 DEF BlockAt
<1> HIDE DEF X
<1>4. P = pad \o QuotedText(key)
  BY Zenon
<1> HIDE DEF P, B
<1>5. Len(P) + 1 <= Len(B)
  <2> DEFINE x == Len(P)
             y == Len(X)
             z == Len(B)
  <2>1. x \in Nat /\ y \in Nat /\ z = (x + 1) + y
    BY Zenon, <1>3, TextFacts
  <2> HIDE DEF x, y, z
  <2>2. x + 1 <= z
    BY <2>1
  <2> QED
    BY Zenon, <2>2 DEF x, z
<1>6. val_string(parse[NameOf(B)]) = key
  BY Zenon, <1>3, <1>4, <1>5, KeyRead
<1>7. ValueOf(B) = SubSeq(B, (Len(P) + 1) + 1, Len(B))
  BY Zenon, <1>1, <1>3, <1>4, <1>5, NamePart
<1>8. SubSeq(B, (Len(P) + 1) + 1, (Len(P) + 1) + Len(X)) = X
  BY Zenon, <1>3, HeldPart
<1>9. parse[X] = parse[V]
  <2>1. pad \in Blanks /\ q \in Blanks
    BY Zenon, PadFacts
  <2> QED
    BY Zenon, <2>1, ParseBetween DEF X
<1> QED
  BY Zenon, <1>3, <1>6, <1>7, <1>8, <1>9 DEF B

\* The texts of the pairs o, when V are the texts of their values.
PairTexts(o, V, pad) == [j \in DOMAIN o |-> PairText(o[j][1], V[j], pad)]
CleanKeys == Seq(Char \ (Dropped \cup Brackets))

PairTextsOf(o, V, pad, T, S) ==
    /\ T \in Seq(CharTexts) /\ Len(T) = Len(o) /\ Len(o) \in Nat /\ DOMAIN o = 1..Len(o)
    /\ \A j \in 1..Len(o) :
          /\ o[j][1] \in CleanKeys /\ o[j][2] \in S /\ o[j] = <<o[j][1], o[j][2]>>
          /\ V[j] \in CharTexts /\ T[j] = PairText(o[j][1], V[j], pad)

LEMMA PairTextsFacts ==
    ASSUME NEW S, NEW o \in Seq(CleanKeys \X S), NEW V \in Seq(CharTexts), Len(V) = Len(o),
           NEW pad \in Pads
    PROVE  PairTextsOf(o, V, pad, PairTexts(o, V, pad), S)
<1> DEFINE T == PairTexts(o, V, pad)
           R == CleanKeys \X S
<1>1. Len(o) \in Nat /\ DOMAIN o = 1..Len(o) /\ \A j \in 1..Len(o) : o[j] \in R
  <2> HIDE DEF R
  <2>1. o \in Seq(R)
    BY DEF R
  <2> QED
    BY <2>1, LenProperties, ElementOfSeq
<1>2. \A j \in 1..Len(V) : V[j] \in CharTexts
  BY ElementOfSeq
<1>3. ASSUME NEW j \in 1..Len(o)
      PROVE  /\ o[j][1] \in CleanKeys /\ o[j][2] \in S /\ o[j] = <<o[j][1], o[j][2]>>
             /\ T[j] = PairText(o[j][1], V[j], pad) /\ T[j] \in CharTexts
  <2>1. o[j] \in CleanKeys \X S
    BY Zenon, <1>1
  <2>2. o[j][1] \in CleanKeys /\ o[j][2] \in S /\ o[j] = <<o[j][1], o[j][2]>>
    BY Zenon, <2>1, PairParts
  <2>3. T[j] = PairText(o[j][1], V[j], pad)
    BY Zenon, <1>1 DEF PairTexts
  <2>4. o[j][1] \in Seq(Char \ Brackets)
    <3>1. Char \ (Dropped \cup Brackets) \subseteq Char \ Brackets
      BY Zenon
    <3> QED
      BY Zenon, <2>2, <3>1, Wider DEF CleanKeys
  <2>5. V[j] \in CharTexts
    BY Zenon, <1>2
  <2>6. PairText(o[j][1], V[j], pad) \in CharTexts
    BY Zenon, <2>4, <2>5, PairBlock
  <2> QED
    BY Zenon, <2>2, <2>3, <2>6
<1>4. T \in [1..Len(o) -> CharTexts]
  <2>1. T = [j \in 1..Len(o) |-> PairText(o[j][1], V[j], pad)]
    BY Zenon, <1>1 DEF PairTexts
  <2> QED
    BY Zenon, <1>3, <2>1
<1> HIDE DEF T
<1>5. T \in Seq(CharTexts) /\ Len(T) = Len(o)
  <2> DEFINE n == Len(o)
  <2>1. n \in Nat /\ T \in [1..n -> CharTexts]
    BY Zenon, <1>1, <1>4
  <2> HIDE DEF n
  <2>2. T \in Seq(CharTexts) /\ Len(T) = n
    BY <2>1
  <2> QED
    BY Zenon, <2>2 DEF n
<1> QED
  BY Zenon, <1>1, <1>2, <1>3, <1>5 DEF T, PairTextsOf

\* Faithful values make a faithful object.
LEMMA ReadObject ==
    ASSUME NEW S, NEW o \in Seq(CleanKeys \X S), Len(o) >= 1, NEW V \in Seq(CharTexts),
           Len(V) = Len(o), NEW pad \in Pads, \A j \in 1..Len(o) : Faithful(o[j][2], V[j])
    PROVE  /\ Faithful(Obj(Assigned(o)), ObjectText(PairTexts(o, V, pad), pad))
           /\ ListCommas(ObjectText(PairTexts(o, V, pad), pad)) = {}
<1> DEFINE T == PairTexts(o, V, pad)
           s == ObjectText(T, pad)
           W == Widened(Padded(T, pad), pad)
           parts == ObjectParts(s)
<1>1. /\ T \in Seq(CharTexts) /\ Len(T) = Len(o)
      /\ Len(o) \in Nat /\ DOMAIN o = 1..Len(o)
      /\ \A j \in 1..Len(o) :
            /\ o[j][1] \in CleanKeys /\ o[j][2] \in S /\ o[j] = <<o[j][1], o[j][2]>>
            /\ V[j] \in CharTexts /\ T[j] = PairText(o[j][1], V[j], pad)
  <2>1. PairTextsOf(o, V, pad, PairTexts(o, V, pad), S)
    BY Zenon, PairTextsFacts
  <2> QED
    BY Zenon, <2>1 DEF PairTextsOf
<1> HIDE DEF T
<1>2. ASSUME NEW j \in 1..Len(T) PROVE T[j] \in Level /\ ObjectCommas(T[j]) = {}
  <2> DEFINE key == o[j][1]
             X == V[j]
  <2>1. key \in Seq(Char \ Brackets)
    <3>1. Char \ (Dropped \cup Brackets) \subseteq Char \ Brackets
      BY Zenon
    <3> QED
      BY ZenonT(40), <1>1, <3>1, Wider DEF CleanKeys
  <2>2. X \in CharTexts /\ X \in Level /\ ObjectCommas(X) = {}
    BY Zenon, <1>1 DEF Faithful
  <2>3. T[j] = PairText(key, X, <<>>) \/ T[j] = PairText(key, X, <<"ws">>)
    BY Zenon, <1>1 DEF Pads
  <2>4. T[j] = PairText(key, X, pad)
    BY Zenon, <1>1
  <2> HIDE DEF key, X
  <2>5. QuotedText(key) \in Level /\ ObjectCommas(QuotedText(key)) = {}
    BY Zenon, <2>1, QuotedLevel
  <2>6. <<ColonChar>> \in Level /\ ObjectCommas(<<ColonChar>>) = {}
    BY Zenon, LevelChar, CharFacts DEF ColonChar, Brackets, QuoteChar, Esc
  <2>7. pad \in Level /\ ObjectCommas(pad) = {}
    BY Zenon, PadFacts
  <2>8. T[j] = ((QuotedText(key) \o <<ColonChar>>) \o pad) \o X
    BY Zenon, <2>4 DEF PairText, ColonChar
  <2>9. QuotedText(key) \o <<ColonChar>> \in Level /\ ObjectCommas(QuotedText(key) \o <<ColonChar>>) = {}
    BY Zenon, <2>5, <2>6, LevelBoth
  <2>10. /\ (QuotedText(key) \o <<ColonChar>>) \o pad \in Level
         /\ ObjectCommas((QuotedText(key) \o <<ColonChar>>) \o pad) = {}
    BY Zenon, <2>7, <2>9, LevelBoth
  <2> QED
    BY Zenon, <2>2, <2>8, <2>10, LevelBoth
<1>3. \A j \in 1..Len(T) : T[j] \in Level
  BY Zenon, <1>2
<1>4. /\ s \in Level /\ s \in Whole /\ ListCommas(s) = {} /\ ObjectCommas(s) = {}
      /\ Inner(s) = Body(T, pad) /\ parse[s] = Obj(Assigned(PairsRead(parts, parse)))
  BY Zenon, <1>1, <1>3, ObjectTextFacts
<1>5. parts = W
  <2>1. Cut(Body(T, pad), ObjectCommas(Body(T, pad))) = W
    <3>1. Len(T) >= 1 /\ \A j \in 1..Len(T) : ObjectCommas(T[j]) = {}
      BY Zenon, <1>1, <1>2
    <3> QED
      BY Zenon, <1>1, <1>3, <3>1, BodyLevel
  <2> QED
    BY Zenon, <1>4, <2>1 DEF ObjectParts
<1>6. /\ W \in Seq(CharTexts) /\ Len(W) = Len(T)
      /\ \A j \in 1..Len(T) : \E q \in Pads : W[j] = (pad \o T[j]) \o q
  BY Zenon, <1>1, Blocks
<1> HIDE DEF s, W, parts
<1>7. ASSUME NEW j \in 1..Len(o)
      PROVE  val_string(parse[NameOf(W[j])]) = o[j][1] /\ parse[ValueOf(W[j])] = o[j][2]
  <2>1. PICK q \in Pads : W[j] = (pad \o T[j]) \o q
    BY Zenon, <1>1, <1>6
  <2>2. W[j] = Block(o[j][1], V[j], pad, q)
    BY Zenon, <1>1, <2>1 DEF Block
  <2>3. V[j] \in Whole /\ parse[V[j]] = o[j][2]
    BY Zenon DEF Faithful
  <2>4. o[j][1] \in Seq(Char \ (Dropped \cup Brackets))
    BY Zenon, <1>1 DEF CleanKeys
  <2> DEFINE B == Block(o[j][1], V[j], pad, q)
  <2>5. val_string(parse[NameOf(B)]) = o[j][1] /\ parse[ValueOf(B)] = parse[V[j]]
    BY Zenon, <2>3, <2>4, PairRead
  <2> HIDE DEF B
  <2>6. W[j] = B
    BY Zenon, <2>2 DEF B
  <2> QED
    BY Zenon, <2>3, <2>5, <2>6
<1>8. PairsRead(parts, parse) = o
  <2> DEFINE f == PairsRead(W, parse)
  <2>1. f = [i \in DOMAIN W |-> <<val_string(parse[NameOf(W[i])]), parse[ValueOf(W[i])]>>]
    BY Zenon DEF PairsRead
  <2>2. DOMAIN W = 1..Len(o)
    BY <1>1, <1>6, LenProperties
  <2>3. /\ DOMAIN f = 1..Len(o) /\ f = [i \in DOMAIN f |-> f[i]]
        /\ \A i \in 1..Len(o) : f[i] = <<val_string(parse[NameOf(W[i])]), parse[ValueOf(W[i])]>>
    BY Zenon, <2>1, <2>2
  <2> HIDE DEF f
  <2>4. \A i \in 1..Len(o) : f[i] = o[i]
    BY Zenon, <1>1, <1>7, <2>3
  <2>5. f = o
    BY Zenon, <2>3, <2>4, SameSeq
  <2> QED
    BY Zenon, <1>5, <2>5 DEF f
<1> QED
  BY Zenon, <1>4, <1>8 DEF Faithful, s, T

----------------------------------------------------------------------------
(* operator[]: of the values that a key is assigned the last one stays.     *)

DistinctKeys(ps) == \A i, j \in 1..Len(ps) : ps[i][1] = ps[j][1] => i = j
PairSeqs(R) == {ps \in Seq(R) : DistinctKeys(ps)}

LEMMA SeqFacts ==
    ASSUME NEW R, NEW ps \in Seq(R)
    PROVE  /\ Len(ps) \in Nat /\ DOMAIN ps = 1..Len(ps) /\ ps \in [1..Len(ps) -> R]
           /\ \A i \in 1..Len(ps) : ps[i] \in R
BY LenProperties, ElementOfSeq

LEMMA AppendFacts ==
    ASSUME NEW R, NEW ps \in Seq(R), NEW e \in R
    PROVE  /\ Append(ps, e) \in Seq(R) /\ Len(Append(ps, e)) = Len(ps) + 1
           /\ \A i \in 1..Len(ps) : Append(ps, e)[i] = ps[i]
           /\ Append(ps, e)[Len(ps) + 1] = e
BY AppendProperties

LEMMA SetFacts ==
    ASSUME NEW R, NEW ps \in Seq(R), NEW m \in 1..Len(ps), NEW e \in R
    PROVE  /\ [ps EXCEPT ![m] = e] \in Seq(R) /\ Len([ps EXCEPT ![m] = e]) = Len(ps)
           /\ \A i \in 1..Len(ps) : [ps EXCEPT ![m] = e][i] = IF i = m THEN e ELSE ps[i]
BY ExceptSeq

LEMMA AssignFacts ==
    ASSUME NEW R, NEW ps \in PairSeqs(R), NEW k, NEW v, <<k, v>> \in R
    PROVE  /\ Assign(ps, k, v) \in PairSeqs(R)
           /\ ToSet(Assign(ps, k, v)) = {e \in ToSet(ps) : e[1] # k} \cup {<<k, v>>}
           /\ (\A i \in 1..Len(ps) : ps[i][1] # k) => Assign(ps, k, v) = Append(ps, <<k, v>>)
<1> DEFINE I == {i \in DOMAIN ps : ps[i][1] = k}
           e == <<k, v>>
           n == Len(ps)
           r == Assign(ps, k, v)
<1>1. ps \in Seq(R) /\ \A i, j \in 1..n : ps[i][1] = ps[j][1] => i = j
  BY Zenon DEF PairSeqs, DistinctKeys
<1>2. n \in Nat /\ DOMAIN ps = 1..n /\ \A i \in 1..n : ps[i] \in R
  BY Zenon, <1>1, SeqFacts
<1>3. e[1] = k /\ e[2] = v /\ e \in R
  BY Zenon
<1>4. r = IF \E i \in DOMAIN ps : ps[i][1] = k THEN [ps EXCEPT ![Min(I)] = e] ELSE Append(ps, e)
  BY Zenon DEF Assign
<1>5. \A q : q \in Seq(R) => DOMAIN q = 1..Len(q)
  BY Zenon, SeqFacts
<1> HIDE DEF e, n, r
<1>6. ToSet(ps) = {ps[i] : i \in 1..n}
  BY Zenon, <1>2 DEF ToSet
<1>7. CASE \A i \in 1..n : ps[i][1] # k
  <2>1. r = Append(ps, e)
    BY Zenon, <1>2, <1>4, <1>7
  <2> DEFINE m == n + 1
  <2>2. /\ r \in Seq(R) /\ Len(r) = m /\ \A i \in 1..n : r[i] = ps[i]
        /\ r[m] = e
    <3>1. /\ Append(ps, e) \in Seq(R) /\ Len(Append(ps, e)) = Len(ps) + 1
          /\ \A i \in 1..Len(ps) : Append(ps, e)[i] = ps[i]
          /\ Append(ps, e)[Len(ps) + 1] = e
      BY ZenonT(60), <1>1, <1>3, AppendFacts
    <3> QED
      BY Zenon, <2>1, <3>1 DEF n
  <2>3. /\ \A i \in 1..m : i \in 1..n \/ i = m
        /\ \A i \in 1..n : i \in 1..m /\ i # m
        /\ m \in 1..m
    BY <1>2
  <2> HIDE DEF m
  <2>4. \A i, j \in 1..m : r[i][1] = r[j][1] => i = j
    BY ZenonT(60), <1>1, <1>3, <1>7, <2>2, <2>3
  <2>5. DOMAIN r = 1..m
    BY Zenon, <1>5, <2>2
  <2>6. ToSet(r) = {r[i] : i \in 1..m}
    BY Zenon, <2>5 DEF ToSet
  <2>7. \A x : x \in ToSet(r) <=> x \in {y \in ToSet(ps) : y[1] # k} \cup {e}
    <3>1. ASSUME NEW x \in ToSet(r) PROVE x \in {y \in ToSet(ps) : y[1] # k} \cup {e}
      <4>1. PICK i \in 1..m : x = r[i]
        BY Zenon, <2>6
      <4> QED
        BY Zenon, <1>6, <1>7, <2>2, <2>3, <4>1
    <3>2. ASSUME NEW x \in ToSet(ps) PROVE x \in ToSet(r)
      <4>1. PICK i \in 1..n : x = ps[i]
        BY Zenon, <1>6
      <4> QED
        BY Zenon, <2>2, <2>3, <2>6, <4>1
    <3>3. e \in ToSet(r)
      BY Zenon, <2>2, <2>3, <2>6
    <3> QED
      BY Zenon, <3>1, <3>2, <3>3
  <2>8. ToSet(r) = {y \in ToSet(ps) : y[1] # k} \cup {e}
    BY Zenon, <2>7
  <2> QED
    BY Zenon, <2>1, <2>2, <2>4, <2>8 DEF PairSeqs, DistinctKeys, r, e
<1>8. CASE ~ \A i \in 1..n : ps[i][1] # k
  <2> DEFINE m == Min(I)
  <2>1. m \in I
    <3>1. I # {} /\ I \subseteq 1..n
      BY Zenon, <1>2, <1>8
    <3>2. 1..n \subseteq Nat
      OBVIOUS
    <3> HIDE DEF I
    <3>3. I \subseteq Nat
      BY Zenon, <3>1, <3>2
    <3> QED
      BY Zenon, <3>1, <3>3, Least
  <2>2. m \in 1..n /\ ps[m][1] = k
    BY Zenon, <1>2, <2>1
  <2>3. r = [ps EXCEPT ![m] = e]
    BY Zenon, <1>2, <1>4, <1>8
  <2> HIDE DEF m
  <2>4. /\ r \in Seq(R) /\ Len(r) = n
        /\ \A i \in 1..n : r[i] = IF i = m THEN e ELSE ps[i]
    <3>1. /\ [ps EXCEPT ![m] = e] \in Seq(R) /\ Len([ps EXCEPT ![m] = e]) = Len(ps)
          /\ \A i \in 1..Len(ps) : [ps EXCEPT ![m] = e][i] = IF i = m THEN e ELSE ps[i]
      <4>1. m \in 1..Len(ps)
        BY Zenon, <2>2 DEF n
      <4> QED
        BY <1>1, <1>3, <4>1, SetFacts
    <3> QED
      BY Zenon, <2>3, <3>1 DEF n
  <2>5. \A i \in 1..n : r[i][1] = ps[i][1]
    BY Zenon, <1>3, <2>2, <2>4
  <2>6. \A i, j \in 1..n : r[i][1] = r[j][1] => i = j
    BY Zenon, <1>1, <2>5
  <2>7. DOMAIN r = 1..n
    BY Zenon, <1>5, <2>4
  <2>8. ToSet(r) = {r[i] : i \in 1..n}
    BY Zenon, <2>7 DEF ToSet
  <2>9. \A x : x \in ToSet(r) <=> x \in {y \in ToSet(ps) : y[1] # k} \cup {e}
    <3>1. ASSUME NEW x \in ToSet(r) PROVE x \in {y \in ToSet(ps) : y[1] # k} \cup {e}
      <4>1. PICK i \in 1..n : x = r[i]
        BY Zenon, <2>8
      <4>2. CASE i = m
        BY Zenon, <2>4, <4>1, <4>2
      <4>3. CASE i # m
        <5>1. x = ps[i]
          BY Zenon, <2>4, <4>1, <4>3
        <5>2. ps[i][1] # k
          BY Zenon, <1>1, <2>2, <4>3
        <5> QED
          BY Zenon, <1>6, <5>1, <5>2
      <4> QED
        BY Zenon, <4>2, <4>3
    <3>2. ASSUME NEW x \in ToSet(ps), x[1] # k PROVE x \in ToSet(r)
      <4>1. PICK i \in 1..n : x = ps[i]
        BY Zenon, <1>6
      <4>2. i # m
        BY Zenon, <2>2, <3>2, <4>1
      <4> QED
        BY Zenon, <2>4, <2>8, <4>1, <4>2
    <3>3. e \in ToSet(r)
      BY Zenon, <2>2, <2>4, <2>8
    <3> QED
      BY Zenon, <3>1, <3>2, <3>3
  <2>10. ToSet(r) = {y \in ToSet(ps) : y[1] # k} \cup {e}
    BY Zenon, <2>9
  <2> QED
    BY Zenon, <1>8, <2>4, <2>6, <2>10 DEF PairSeqs, DistinctKeys, r, e, n
<1> QED
  BY Zenon, <1>7, <1>8

LEMMA AssignSteps ==
    ASSUME NEW R, \A e \in R : e = <<e[1], e[2]>>, NEW pairs \in Seq(R)
    PROVE  /\ AssignLoop(pairs) \in [0..Len(pairs) -> PairSeqs(R)]
           /\ AssignLoop(pairs)[0] = <<>>
           /\ \A i \in 1..Len(pairs) :
                 AssignLoop(pairs)[i] = Assign(AssignLoop(pairs)[i - 1], pairs[i][1], pairs[i][2])
<1> DEFINE n == Len(pairs)
           D == PairSeqs(R)
           start == <<>>
           Sol(st) == st = [i \in 0..n |-> IF i = 0 THEN start
                                           ELSE Assign(st[i - 1], pairs[i][1], pairs[i][2])]
           F == [p \in (1..n) \X D |-> Assign(p[2], pairs[p[1]][1], pairs[p[1]][2])]
<1>0. n \in Nat
  BY SeqFacts
<1>c. \A i \in 1..n : pairs[i] \in R /\ <<pairs[i][1], pairs[i][2]>> \in R
  <2>1. \A i \in 1..n : pairs[i] \in R
    BY Zenon, SeqFacts
  <2> QED
    BY Zenon, <2>1
<1>1. start \in D
  <2>1. start \in Seq(R) /\ Len(start) = 0 /\ ~ \E i \in 1..0 : TRUE
    OBVIOUS
  <2> HIDE DEF start
  <2> QED
    BY Zenon, <2>1 DEF PairSeqs, DistinctKeys
<1>2. F \in Steps(n, D)
  <2>1. \A p \in (1..n) \X D : Assign(p[2], pairs[p[1]][1], pairs[p[1]][2]) \in D
    <3> SUFFICES ASSUME NEW p \in (1..n) \X D
                 PROVE  Assign(p[2], pairs[p[1]][1], pairs[p[1]][2]) \in D
      BY Zenon
    <3> HIDE DEF n, D
    <3>1. p[1] \in 1..n /\ p[2] \in D
      BY Zenon, PairParts
    <3>2. <<pairs[p[1]][1], pairs[p[1]][2]>> \in R
      BY Zenon, <1>c, <3>1
    <3> QED
      BY Zenon, <3>1, <3>2, AssignFacts DEF D
  <2> HIDE DEF D, n
  <2> QED
    BY Zenon, <2>1 DEF Steps
<1>3. PICK g \in [0..n -> D] :
          g[0] = start /\ \A i \in 1..n : g[i] = F[<<i, g[i - 1]>>]
  <2> HIDE DEF F, n, start, D
  <2> QED
    BY <1>0, <1>1, <1>2, Iterates
<1>4. \A i \in 1..n : g[i] = Assign(g[i - 1], pairs[i][1], pairs[i][2])
  <2> SUFFICES ASSUME NEW i \in 1..n PROVE g[i] = Assign(g[i - 1], pairs[i][1], pairs[i][2])
    OBVIOUS
  <2>1. i - 1 \in 0..n
    BY <1>0
  <2>2. g[i - 1] \in D
    BY Zenon, <2>1
  <2>3. <<i, g[i - 1]>> \in (1..n) \X D
    BY Zenon, <2>2
  <2>4. F[<<i, g[i - 1]>>] = Assign(g[i - 1], pairs[i][1], pairs[i][2])
    BY Zenon, <2>3
  <2> HIDE DEF F
  <2> QED
    BY Zenon, <1>3, <2>4
<1>5. Sol(g)
  <2>1. \A i \in 0..n : i # 0 => i \in 1..n
    BY <1>0
  <2> HIDE DEF n, F, start, D
  <2> QED
    BY <1>3, <1>4, <2>1
<1>6. AssignLoop(pairs) = CHOOSE st : Sol(st)
  BY Zenon DEF AssignLoop
<1>7. Sol(AssignLoop(pairs))
  <2> HIDE DEF Sol
  <2> QED
    BY Zenon, <1>5, <1>6
<1> HIDE DEF F
<1> DEFINE U == AssignLoop(pairs)
           S == {i \in 0..n : U[i] = g[i]}
<1>8. \A i \in 0..n : U[i] = IF i = 0 THEN start ELSE Assign(U[i - 1], pairs[i][1], pairs[i][2])
  BY Zenon, <1>7
<1> HIDE DEF start
<1>9. 0..n \subseteq S
  <2> HIDE DEF U
  <2>1. 0 \in S
    BY <1>0, <1>3, <1>8
  <2>2. ASSUME NEW i \in 0..n, i \in S, i < n PROVE i + 1 \in S
    <3> DEFINE j == i + 1
    <3>1. j \in 0..n /\ j \in 1..n /\ j # 0 /\ j - 1 = i
      BY <1>0, <2>2
    <3> HIDE DEF j
    <3>2. /\ U[j] = Assign(U[i], pairs[j][1], pairs[j][2])
          /\ g[j] = Assign(g[i], pairs[j][1], pairs[j][2])
      BY Zenon, <1>4, <1>8, <3>1
    <3>3. U[j] = g[j]
      BY Zenon, <2>2, <3>2
    <3> QED
      BY <3>1, <3>3 DEF j
  <2>3. \A i \in 0..n : i \in S /\ i < n => i + 1 \in S
    BY <2>2
  <2> HIDE DEF S
  <2> QED
    BY <1>0, <2>1, <2>3, Ascend
<1>10. U \in [0..n -> D]
  <2>1. \A i \in 0..n : U[i] \in D
    BY Zenon, <1>9
  <2>2. U = [i \in 0..n |-> U[i]]
    BY <1>7
  <2> HIDE DEF U, D
  <2> QED
    BY Zenon, <2>1, <2>2
<1>11. 0 \in 0..n /\ \A i \in 1..n : i \in 0..n /\ i # 0
  BY <1>0
<1> QED
  BY Zenon, <1>8, <1>10, <1>11 DEF start

\* The pairs among the first i of which the key does not come again.
FinalTo(ps, i) == {ps[j] : j \in {j \in 1..i : \A l \in (j + 1)..i : ps[l][1] # ps[j][1]}}
Final(ps) == FinalTo(ps, Len(ps))

LEMMA FinalNext ==
    ASSUME NEW ps, NEW i \in Nat
    PROVE  /\ FinalTo(ps, 0) = {}
           /\ FinalTo(ps, i + 1) = {e \in FinalTo(ps, i) : e[1] # ps[i + 1][1]} \cup {ps[i + 1]}
<1> DEFINE m == i + 1
           J(h) == {j \in 1..h : \A l \in (j + 1)..h : ps[l][1] # ps[j][1]}
<1>0. FinalTo(ps, 0) = {}
  BY DEF FinalTo
<1>1. \A h : FinalTo(ps, h) = {ps[j] : j \in J(h)}
  BY Zenon DEF FinalTo
<1>2. /\ \A j \in 1..m : j \in 1..i \/ j = m
      /\ \A j \in 1..i : j \in 1..m /\ m \in (j + 1)..m
      /\ m \in 1..m
      /\ \A l \in (m + 1)..m : FALSE
      /\ \A j \in 1..i : \A l \in (j + 1)..m : l \in (j + 1)..i \/ l = m
      /\ \A j \in 1..i : \A l \in (j + 1)..i : l \in (j + 1)..m
  OBVIOUS
<1> HIDE DEF m
<1>3. m \in J(m)
  BY Zenon, <1>2
<1>4. \A j \in 1..i : j \in J(m) <=> j \in J(i) /\ ps[m][1] # ps[j][1]
  BY Zenon, <1>2
<1>5. \A j \in J(m) : j \in 1..m
  BY Zenon
<1>6. \A j \in J(i) : j \in 1..i
  BY Zenon
<1> HIDE DEF J
<1>7. ASSUME NEW x \in FinalTo(ps, m)
      PROVE  x \in {e \in FinalTo(ps, i) : e[1] # ps[m][1]} \cup {ps[m]}
  <2>1. PICK j \in J(m) : x = ps[j]
    BY Zenon, <1>1
  <2>2. j \in 1..i \/ j = m
    BY Zenon, <1>2, <1>5
  <2> QED
    BY Zenon, <1>1, <1>4, <2>1, <2>2
<1>8. ASSUME NEW x \in FinalTo(ps, i), x[1] # ps[m][1] PROVE x \in FinalTo(ps, m)
  <2>1. PICK j \in J(i) : x = ps[j]
    BY Zenon, <1>1
  <2>2. j \in J(m)
    BY Zenon, <1>4, <1>6, <1>8, <2>1
  <2> QED
    BY Zenon, <1>1, <2>1, <2>2
<1>9. ps[m] \in FinalTo(ps, m)
  BY Zenon, <1>1, <1>3
<1>10. \A x : x \in FinalTo(ps, m) <=> x \in {e \in FinalTo(ps, i) : e[1] # ps[m][1]} \cup {ps[m]}
  BY Zenon, <1>7, <1>8, <1>9
<1>11. FinalTo(ps, m) = {e \in FinalTo(ps, i) : e[1] # ps[m][1]} \cup {ps[m]}
  BY Zenon, <1>10
<1> QED
  BY Zenon, <1>0, <1>11 DEF m

LEMMA AssignedFinal ==
    ASSUME NEW R, \A e \in R : e = <<e[1], e[2]>>, NEW pairs \in Seq(R)
    PROVE  /\ Assigned(pairs) \in PairSeqs(R)
           /\ ToSet(Assigned(pairs)) = Final(pairs)
           /\ DistinctKeys(pairs) => Assigned(pairs) = pairs
<1> DEFINE n == Len(pairs)
           U == AssignLoop(pairs)
           S == {i \in 0..n : ToSet(U[i]) = FinalTo(pairs, i)}
           Same == {i \in 0..n : Len(U[i]) = i /\ \A j \in 1..i : U[i][j] = pairs[j]}
<1>1. n \in Nat /\ \A i \in 1..n : pairs[i] \in R /\ pairs[i] = <<pairs[i][1], pairs[i][2]>>
  <2>1. n \in Nat /\ \A i \in 1..n : pairs[i] \in R
    BY Zenon, SeqFacts
  <2> HIDE DEF n
  <2> QED
    BY Zenon, <2>1
<1>2. /\ U \in [0..n -> PairSeqs(R)] /\ U[0] = <<>>
      /\ \A i \in 1..n : U[i] = Assign(U[i - 1], pairs[i][1], pairs[i][2])
  BY Zenon, AssignSteps
<1> HIDE DEF n, U
<1>3. ASSUME NEW i \in 0..n, i < n
      PROVE  /\ i + 1 \in 1..n /\ U[i] \in PairSeqs(R)
             /\ U[i + 1] = Assign(U[i], pairs[i + 1][1], pairs[i + 1][2])
             /\ <<pairs[i + 1][1], pairs[i + 1][2]>> \in R
             /\ <<pairs[i + 1][1], pairs[i + 1][2]>> = pairs[i + 1]
  <2> DEFINE j == i + 1
  <2>1. j \in 1..n /\ j - 1 = i
    BY <1>1, <1>3
  <2> HIDE DEF j
  <2>2. U[i] \in PairSeqs(R)
    BY Zenon, <1>2
  <2>3. U[j] = Assign(U[i], pairs[j][1], pairs[j][2])
    BY Zenon, <1>2, <2>1
  <2>4. <<pairs[j][1], pairs[j][2]>> \in R /\ <<pairs[j][1], pairs[j][2]>> = pairs[j]
    BY Zenon, <1>1, <2>1
  <2> QED
    BY Zenon, <2>1, <2>2, <2>3, <2>4 DEF j
<1>4. 0 \in 0..n /\ n \in 0..n /\ \A i \in 0..n : i < n => i + 1 \in 0..n /\ i \in Nat
  BY <1>1
<1>5. 0..n \subseteq S
  <2>1. 0 \in S
    <3>1. ToSet(<<>>) = {}
      BY DEF ToSet
    <3>2. FinalTo(pairs, 0) = {}
      BY Zenon, <1>1, FinalNext
    <3> QED
      BY Zenon, <1>2, <1>4, <3>1, <3>2
  <2>2. ASSUME NEW i \in 0..n, i \in S, i < n PROVE i + 1 \in S
    <3>1. ToSet(U[i + 1]) = {e \in ToSet(U[i]) : e[1] # pairs[i + 1][1]} \cup {pairs[i + 1]}
      <4> DEFINE k == pairs[i + 1][1]
                 v == pairs[i + 1][2]
      <4>1. U[i] \in PairSeqs(R) /\ <<k, v>> \in R
        BY Zenon, <1>3, <2>2
      <4>2. U[i + 1] = Assign(U[i], k, v) /\ <<k, v>> = pairs[i + 1]
        BY Zenon, <1>3, <2>2
      <4>3. k = pairs[i + 1][1]
        BY Zenon
      <4> HIDE DEF k, v
      <4>4. ToSet(Assign(U[i], k, v)) = {e \in ToSet(U[i]) : e[1] # k} \cup {<<k, v>>}
        BY <4>1, AssignFacts
      <4> QED
        BY Zenon, <4>2, <4>3, <4>4
    <3>2. FinalTo(pairs, i + 1) =
             {e \in FinalTo(pairs, i) : e[1] # pairs[i + 1][1]} \cup {pairs[i + 1]}
      BY Zenon, <1>4, <2>2, FinalNext
    <3> QED
      BY Zenon, <1>4, <2>2, <3>1, <3>2
  <2>3. \A i \in 0..n : i \in S /\ i < n => i + 1 \in S
    BY Zenon, <2>2
  <2> HIDE DEF S
  <2> QED
    BY <1>1, <2>1, <2>3, Ascend
<1>6. Assigned(pairs) = U[n]
  BY Zenon DEF Assigned, U, n
<1>7. U[n] \in PairSeqs(R)
  BY Zenon, <1>2, <1>4
<1>8. ASSUME DistinctKeys(pairs) PROVE U[n] = pairs
  <2>1. 0 \in Same
    <3>1. Len(<<>>) = 0 /\ \A j \in 1..0 : FALSE
      OBVIOUS
    <3> QED
      BY Zenon, <1>2, <1>4, <3>1
  <2>2. ASSUME NEW i \in 0..n, i \in Same, i < n PROVE i + 1 \in Same
    <3> DEFINE m == i + 1
               e == pairs[m]
    <3>1. /\ m \in 1..n /\ U[i] \in PairSeqs(R) /\ <<e[1], e[2]>> \in R /\ <<e[1], e[2]>> = e
          /\ U[m] = Assign(U[i], e[1], e[2])
      BY Zenon, <1>3, <2>2
    <3>2. Len(U[i]) = i /\ \A j \in 1..i : U[i][j] = pairs[j]
      BY Zenon, <2>2
    <3>3. m \in 0..n /\ (\A j \in 1..i : j \in 1..n /\ j # m) /\ \A j \in 1..m : j \in 1..i \/ j = m
      BY <1>1, <2>2
    <3>4. Len(U[i]) + 1 = m /\ Len(U[i]) = i
      BY <3>2
    <3> HIDE DEF m
    <3>5. \A j \in 1..Len(U[i]) : U[i][j][1] # e[1]
      BY Zenon, <1>8, <3>1, <3>2, <3>3 DEF DistinctKeys, n
    <3>6. Assign(U[i], e[1], e[2]) = Append(U[i], <<e[1], e[2]>>)
      <4> DEFINE k == e[1]
                 v == e[2]
                 q == U[i]
      <4>1. q \in PairSeqs(R) /\ <<k, v>> \in R /\ \A j \in 1..Len(q) : q[j][1] # k
        BY Zenon, <3>1, <3>5
      <4> HIDE DEF k, v, q
      <4>2. DOMAIN q = 1..Len(q)
        BY Zenon, <4>1, SeqFacts DEF PairSeqs
      <4>3. Assign(q, k, v) = Append(q, <<k, v>>)
        BY Zenon, <4>1, <4>2 DEF Assign
      <4> QED
        BY Zenon, <4>3 DEF k, v, q
    <3>7. U[m] = Append(U[i], e)
      BY Zenon, <3>1, <3>6
    <3>8. U[i] \in Seq(R) /\ e \in R
      BY Zenon, <3>1 DEF PairSeqs
    <3> HIDE DEF e
    <3>9. /\ Len(Append(U[i], e)) = Len(U[i]) + 1
          /\ \A j \in 1..Len(U[i]) : Append(U[i], e)[j] = U[i][j]
          /\ Append(U[i], e)[Len(U[i]) + 1] = e
      <4> DEFINE q == U[i]
      <4>1. q \in Seq(R) /\ e \in R
        BY Zenon, <3>8
      <4> HIDE DEF q
      <4>2. /\ Append(q, e) \in Seq(R) /\ Len(Append(q, e)) = Len(q) + 1
            /\ \A j \in 1..Len(q) : Append(q, e)[j] = q[j]
            /\ Append(q, e)[Len(q) + 1] = e
        BY Zenon, <4>1, AppendFacts
      <4> QED
        BY Zenon, <4>2 DEF q
    <3>10. Len(U[m]) = m /\ \A j \in 1..m : U[m][j] = pairs[j]
      BY Zenon, <3>2, <3>3, <3>4, <3>7, <3>9 DEF e
    <3> QED
      BY Zenon, <3>3, <3>10 DEF m
  <2>3. 0..n \subseteq Same
    <3>1. \A i \in 0..n : i \in Same /\ i < n => i + 1 \in Same
      BY Zenon, <2>2
    <3> HIDE DEF Same
    <3> QED
      BY <1>1, <2>1, <3>1, Ascend
  <2>4. Len(U[n]) = n /\ \A j \in 1..n : U[n][j] = pairs[j]
    BY Zenon, <1>4, <2>3
  <2>5. U[n] \in Seq(R)
    BY Zenon, <1>7 DEF PairSeqs
  <2> DEFINE f == U[n]
  <2>6. f \in Seq(R) /\ Len(f) = Len(pairs) /\ \A j \in 1..Len(pairs) : f[j] = pairs[j]
    BY Zenon, <2>4, <2>5 DEF n
  <2> HIDE DEF f
  <2>7. f = pairs
    BY <2>6, SeqEqual
  <2> QED
    BY Zenon, <2>7 DEF f
<1> QED
  BY Zenon, <1>4, <1>5, <1>6, <1>7, <1>8 DEF Final, n

----------------------------------------------------------------------------
(* Payloads: containers in containers.                                      *)

\* One level more.
Wrap(nested) == ({"list"} \X Seq(InList(nested))) \cup ({"obj"} \X Pairs(nested))

LEMMA ContainersSteps ==
    ASSUME NEW depth \in Nat
    PROVE  /\ Containers(depth)[0] = {}
           /\ \A i \in 1..depth : Containers(depth)[i] = Wrap(Containers(depth)[i - 1])
<1> DEFINE Sol(n, st) == st = [i \in 0..n |-> IF i = 0 THEN {} ELSE Wrap(st[i - 1])]
           S == {n \in 0..depth : \E st : Sol(n, st)}
<1>1. 0 \in S
  <2> DEFINE f == [i \in 0..0 |-> {}]
  <2>1. \A i \in 0..0 : i = 0
    OBVIOUS
  <2>2. f = [i \in 0..0 |-> IF i = 0 THEN {} ELSE Wrap(f[i - 1])]
    BY Zenon, <2>1
  <2>3. 0 \in 0..depth
    OBVIOUS
  <2> HIDE DEF f
  <2> QED
    BY Zenon, <2>2, <2>3
<1>2. ASSUME NEW n \in 0..depth, n \in S, n < depth PROVE n + 1 \in S
  <2>1. PICK st : Sol(n, st)
    BY Zenon, <1>2
  <2> DEFINE m == n + 1
             f == [i \in 0..m |-> IF i = m THEN Wrap(st[n]) ELSE st[i]]
  <2>2. /\ m \in 0..depth /\ m # 0 /\ m - 1 = n /\ n \in 0..m /\ n # m
        /\ \A i \in 0..m : i = m \/ i \in 0..n
        /\ \A i \in 0..n : i = 0 \/ i - 1 \in 0..n
        /\ \A i \in 0..n : i # m /\ i \in 0..m
    BY <1>2
  <2> HIDE DEF m
  <2>3. ASSUME NEW i \in 0..m PROVE f[i] = IF i = 0 THEN {} ELSE Wrap(f[i - 1])
    <3>1. CASE i = m
      <4>1. f[i] = Wrap(st[n])
        BY Zenon, <3>1
      <4>2. f[n] = st[n]
        BY Zenon, <2>2
      <4>3. i # 0 /\ f[i - 1] = f[n]
        BY Zenon, <2>2, <3>1
      <4> QED
        BY Zenon, <4>1, <4>2, <4>3
    <3>2. CASE i \in 0..n
      <4>1. f[i] = st[i]
        BY Zenon, <2>2, <3>2
      <4>2. st[i] = IF i = 0 THEN {} ELSE Wrap(st[i - 1])
        BY Zenon, <2>1, <3>2
      <4>3. i = 0 \/ f[i - 1] = st[i - 1]
        BY Zenon, <2>2, <3>2
      <4> QED
        BY Zenon, <4>1, <4>2, <4>3
    <3> QED
      BY Zenon, <2>2, <3>1, <3>2
  <2>4. f = [i \in 0..m |-> f[i]]
    BY Zenon
  <2> HIDE DEF f
  <2>5. Sol(m, f)
    BY Zenon, <2>3, <2>4
  <2> QED
    BY Zenon, <2>2, <2>5 DEF m
<1>3. \E st : Sol(depth, st)
  <2>1. \A n \in 0..depth : n \in S /\ n < depth => n + 1 \in S
    BY Zenon, <1>2
  <2>2. 0 \in Nat /\ depth \in 0..depth
    OBVIOUS
  <2>3. 0..depth \subseteq S
    <3> HIDE DEF S
    <3> QED
      BY Zenon, <1>1, <2>1, <2>2, Ascend
  <2> QED
    BY Zenon, <2>2, <2>3
<1>4. Containers(depth) = CHOOSE st : Sol(depth, st)
  BY Zenon DEF Containers, Wrap
<1>5. Sol(depth, Containers(depth))
  <2> HIDE DEF Sol
  <2> QED
    BY Zenon, <1>3, <1>4
<1>6. \A i \in 0..depth : Containers(depth)[i] = IF i = 0 THEN {} ELSE Wrap(Containers(depth)[i - 1])
  BY Zenon, <1>5
<1>7. 0 \in 0..depth /\ \A i \in 1..depth : i \in 0..depth /\ i # 0
  OBVIOUS
<1> QED
  BY Zenon, <1>6, <1>7

\* The texts of the values at one level more.
PrintedAt(nested, text) == [v \in Atoms \cup nested |-> Printed(v, text, <<>>)]

LEMMA CompactSteps ==
    ASSUME NEW depth \in Nat
    PROVE  /\ CompactTexts(depth)[0] = AtomTexts
           /\ \A i \in 1..depth :
                 CompactTexts(depth)[i] = PrintedAt(Containers(depth)[i], CompactTexts(depth)[i - 1])
<1> DEFINE W(i, x) == PrintedAt(Containers(depth)[i], x)
           Sol(n, st) == st = [i \in 0..n |-> IF i = 0 THEN AtomTexts ELSE W(i, st[i - 1])]
           S == {n \in 0..depth : \E st : Sol(n, st)}
<1>4. CompactTexts(depth) = CHOOSE st : Sol(depth, st)
  BY Zenon DEF CompactTexts, PrintedAt
<1> HIDE DEF W
<1>1. 0 \in S
  <2> DEFINE f == [i \in 0..0 |-> AtomTexts]
  <2>1. \A i \in 0..0 : i = 0
    OBVIOUS
  <2>2. f = [i \in 0..0 |-> IF i = 0 THEN AtomTexts ELSE W(i, f[i - 1])]
    BY Zenon, <2>1
  <2>3. 0 \in 0..depth
    OBVIOUS
  <2> HIDE DEF f
  <2> QED
    BY Zenon, <2>2, <2>3
<1>2. ASSUME NEW n \in 0..depth, n \in S, n < depth PROVE n + 1 \in S
  <2>1. PICK st : Sol(n, st)
    BY Zenon, <1>2
  <2> DEFINE m == n + 1
             f == [i \in 0..m |-> IF i = m THEN W(m, st[n]) ELSE st[i]]
  <2>2. /\ m \in 0..depth /\ m # 0 /\ m - 1 = n /\ n \in 0..m /\ n # m
        /\ \A i \in 0..m : i = m \/ i \in 0..n
        /\ \A i \in 0..n : i = 0 \/ i - 1 \in 0..n
        /\ \A i \in 0..n : i # m /\ i \in 0..m
    BY <1>2
  <2> HIDE DEF m
  <2>3. ASSUME NEW i \in 0..m PROVE f[i] = IF i = 0 THEN AtomTexts ELSE W(i, f[i - 1])
    <3>1. CASE i = m
      <4>1. f[i] = W(m, st[n])
        BY Zenon, <3>1
      <4>2. f[n] = st[n]
        BY Zenon, <2>2
      <4>3. i # 0 /\ f[i - 1] = f[n]
        BY Zenon, <2>2, <3>1
      <4> QED
        BY Zenon, <3>1, <4>1, <4>2, <4>3
    <3>2. CASE i \in 0..n
      <4>1. f[i] = st[i]
        BY Zenon, <2>2, <3>2
      <4>2. st[i] = IF i = 0 THEN AtomTexts ELSE W(i, st[i - 1])
        BY Zenon, <2>1, <3>2
      <4>3. i = 0 \/ f[i - 1] = st[i - 1]
        BY Zenon, <2>2, <3>2
      <4> QED
        BY Zenon, <4>1, <4>2, <4>3
    <3> QED
      BY Zenon, <2>2, <3>1, <3>2
  <2>4. f = [i \in 0..m |-> f[i]]
    BY Zenon
  <2> HIDE DEF f
  <2>5. Sol(m, f)
    BY Zenon, <2>3, <2>4
  <2> QED
    BY Zenon, <2>2, <2>5 DEF m
<1>3. \E st : Sol(depth, st)
  <2>1. \A n \in 0..depth : n \in S /\ n < depth => n + 1 \in S
    BY Zenon, <1>2
  <2>2. 0 \in Nat /\ depth \in 0..depth
    OBVIOUS
  <2>3. 0..depth \subseteq S
    <3> HIDE DEF S
    <3> QED
      BY Zenon, <1>1, <2>1, <2>2, Ascend
  <2> QED
    BY Zenon, <2>2, <2>3
<1>5. Sol(depth, CompactTexts(depth))
  <2> HIDE DEF Sol
  <2> QED
    BY Zenon, <1>3, <1>4
<1>6. \A i \in 0..depth :
         CompactTexts(depth)[i] = IF i = 0 THEN AtomTexts ELSE W(i, CompactTexts(depth)[i - 1])
  BY Zenon, <1>5
<1>7. 0 \in 0..depth /\ \A i \in 1..depth : i \in 0..depth /\ i # 0
  OBVIOUS
<1> QED
  BY Zenon, <1>6, <1>7 DEF W

\* V is a text that can stand in a list, too, and is read as v.
Good(v, V) == Faithful(v, V) /\ ListCommas(V) = {}

LEMMA ElementRead ==
    ASSUME NEW nested, NEW text, \A v \in nested : Good(v, text[v]),
           \A v \in Atoms : text[v] = AtomText(v)
    PROVE  /\ \A x \in InList(nested) : Good(x, text[x])
           /\ \A x \in InObject(nested) : Faithful(x, text[x])
<1>1. ASSUME NEW x \in NumLits PROVE Good(x, text[x])
  BY Zenon, <1>1, FaithfulNumber DEF Good
<1>2. ASSUME NEW x \in StringsWithout(Brackets) PROVE Faithful(x, text[x])
  BY Zenon, <1>2, FaithfulString
<1>3. ASSUME NEW x \in StringsWithout(Brackets \cup {","}) PROVE Good(x, text[x])
  <2>1. x \in StringsWithout(Brackets)
    <3> DEFINE Z == Seq(Char \ (Dropped \cup (Brackets \cup {","})))
               Y == Seq(Char \ (Dropped \cup Brackets))
    <3>1. Char \ (Dropped \cup (Brackets \cup {","})) \subseteq Char \ (Dropped \cup Brackets)
      BY Zenon
    <3>2. \A s \in Z : s \in Y
      BY Zenon, <3>1, Wider
    <3>3. x \in {"str"} \X Z
      BY Zenon DEF StringsWithout
    <3> HIDE DEF Z, Y
    <3>4. x[1] \in {"str"} /\ x[2] \in Z /\ x = <<x[1], x[2]>>
      BY ZenonT(60), <3>3, PairParts
    <3>5. x \in {"str"} \X Y
      BY Zenon, <3>2, <3>4
    <3> QED
      BY Zenon, <3>5 DEF StringsWithout, Y
  <2> QED
    BY Zenon, <1>3, <2>1, FaithfulString DEF Good
<1>4. \A x \in nested : Good(x, text[x]) /\ Faithful(x, text[x])
  BY Zenon DEF Good
<1>5. \A x \in NumLits : Faithful(x, text[x])
  BY Zenon, <1>1 DEF Good
<1> QED
  BY Zenon, <1>1, <1>2, <1>3, <1>4, <1>5 DEF InList, InObject

LEMMA WrapRead ==
    ASSUME NEW nested, NEW text, \A v \in nested : Good(v, text[v]),
           \A v \in Atoms : text[v] = AtomText(v), NEW v \in Wrap(nested)
    PROVE  Good(v, Printed(v, text, <<>>))
<1>1. /\ \A x \in InList(nested) : Good(x, text[x])
      /\ \A x \in InObject(nested) : Faithful(x, text[x])
  BY Zenon, ElementRead
<1>2. CASE v \in {"list"} \X Seq(InList(nested))
  <2> DEFINE l == v[2]
             n == Len(l)
             T == [i \in DOMAIN l |-> text[l[i]]]
             R == InList(nested)
  <2>1. v[1] = "list" /\ l \in Seq(R) /\ v = <<v[1], l>>
    <3> HIDE DEF R
    <3>1. v \in {"list"} \X Seq(R)
      BY Zenon, <1>2 DEF R
    <3>2. v[1] \in {"list"} /\ v[2] \in Seq(R) /\ v = <<v[1], v[2]>>
      BY Zenon, <3>1, PairParts
    <3> QED
      BY Zenon, <3>2
  <2>2. Printed(v, text, <<>>) = ListText(T)
    BY Zenon, <2>1 DEF Printed, ListText
  <2>3. v = List(l)
    BY Zenon, <2>1 DEF List
  <2> HIDE DEF l, R
  <2>4. n \in Nat /\ DOMAIN l = 1..n /\ \A i \in 1..n : l[i] \in R
    BY Zenon, <2>1, SeqFacts
  <2>5. \A i \in 1..n : T[i] = text[l[i]] /\ Good(l[i], T[i])
    BY Zenon, <1>1, <2>4 DEF R
  <2>6. \A i \in 1..n :
           /\ T[i] \in Level /\ T[i] \in Whole /\ ListCommas(T[i]) = {} /\ parse[T[i]] = l[i]
           /\ T[i] \in CharTexts
    BY Zenon, <2>5, WholeFacts DEF Good, Faithful
  <2>7. T \in [1..n -> CharTexts]
    <3>1. T = [i \in 1..n |-> text[l[i]]]
      BY Zenon, <2>4
    <3>2. \A i \in 1..n : text[l[i]] \in CharTexts
      BY Zenon, <2>5, <2>6
    <3> HIDE DEF T
    <3> QED
      BY Zenon, <3>1, <3>2
  <2> HIDE DEF T, n
  <2>8. T \in Seq(CharTexts) /\ Len(T) = n
    BY <2>4, <2>7
  <2>9. Len(T) = Len(l)
    BY Zenon, <2>8 DEF n
  <2>10. Faithful(List(l), ListText(T)) /\ ListCommas(ListText(T)) = {}
    BY Zenon, <2>1, <2>6, <2>8, <2>9, ReadList
  <2> QED
    BY Zenon, <2>2, <2>3, <2>10 DEF Good
<1>3. CASE v \in {"obj"} \X Pairs(nested)
  <2> DEFINE o == v[2]
             n == Len(o)
             V == [i \in DOMAIN o |-> text[o[i][2]]]
             S == InObject(nested)
             R == CleanKeys \X S
  <2>1. v[1] = "obj" /\ o \in Pairs(nested) /\ v = <<v[1], o>>
    <3> DEFINE X == Pairs(nested)
    <3>1. v \in {"obj"} \X X
      BY Zenon, <1>3
    <3> HIDE DEF X
    <3>2. v[1] \in {"obj"} /\ v[2] \in X /\ v = <<v[1], v[2]>>
      BY ZenonT(60), <3>1, PairParts
    <3> QED
      BY Zenon, <3>2 DEF X
  <2>2. o \in Seq(R) /\ o # <<>> /\ \A i, j \in DOMAIN o : o[i][1] = o[j][1] => i = j
    BY Zenon, <2>1 DEF Pairs, CleanKeys
  <2>3. v = Obj(o)
    BY Zenon, <2>1 DEF Obj
  <2>4. Printed(v, text, <<>>) =
           ObjectText([i \in DOMAIN o |-> PairText(o[i][1], text[o[i][2]], <<>>)], <<>>)
    BY Zenon, <2>1 DEF Printed, ObjectText
  <2> HIDE DEF o, S
  <2>5. \A e \in R : e[1] \in CleanKeys /\ e[2] \in S /\ e = <<e[1], e[2]>>
    BY Zenon, PairParts
  <2> HIDE DEF R
  <2>6. n \in Nat /\ DOMAIN o = 1..n /\ \A i \in 1..n : o[i] \in R
    BY Zenon, <2>2, SeqFacts
  <2>7. n >= 1
    <3>1. n # 0
      BY <2>2, EmptySeq
    <3> HIDE DEF n
    <3> QED
      BY <2>6, <3>1
  <2>8. \A i \in 1..n : V[i] = text[o[i][2]] /\ Faithful(o[i][2], V[i])
    BY Zenon, <1>1, <2>5, <2>6 DEF S
  <2>9. \A i \in 1..n : V[i] \in CharTexts
    BY Zenon, <2>8, WholeFacts DEF Faithful
  <2>10. V \in [1..n -> CharTexts]
    <3>1. V = [i \in 1..n |-> text[o[i][2]]]
      BY Zenon, <2>6
    <3>2. \A i \in 1..n : text[o[i][2]] \in CharTexts
      BY Zenon, <2>8, <2>9
    <3> HIDE DEF V
    <3> QED
      BY Zenon, <3>1, <3>2
  <2>11. [i \in DOMAIN o |-> PairText(o[i][1], text[o[i][2]], <<>>)] = PairTexts(o, V, <<>>)
    BY Zenon, <2>6, <2>8 DEF PairTexts
  <2> HIDE DEF V, n
  <2>12. V \in Seq(CharTexts) /\ Len(V) = n
    BY <2>6, <2>10
  <2>13. <<>> \in Pads
    BY Zenon DEF Pads
  <2>14. /\ Faithful(Obj(Assigned(o)), ObjectText(PairTexts(o, V, <<>>), <<>>))
         /\ ListCommas(ObjectText(PairTexts(o, V, <<>>), <<>>)) = {}
    <3>1. o \in Seq(CleanKeys \X S)
      BY Zenon, <2>2 DEF R
    <3>2. Len(o) >= 1 /\ Len(V) = Len(o) /\ \A j \in 1..Len(o) : Faithful(o[j][2], V[j])
      BY Zenon, <2>7, <2>8, <2>12 DEF n
    <3> QED
      BY Zenon, <2>12, <2>13, <3>1, <3>2, ReadObject
  <2>15. Assigned(o) = o
    <3>1. DistinctKeys(o)
      BY Zenon, <2>2, <2>6 DEF DistinctKeys, n
    <3>2. \A e \in R : e = <<e[1], e[2]>>
      BY Zenon, <2>5
    <3> QED
      BY Zenon, <2>2, <3>1, <3>2, AssignedFinal
  <2> QED
    BY Zenon, <2>3, <2>4, <2>11, <2>14, <2>15 DEF Good
<1> QED
  BY Zenon, <1>2, <1>3 DEF Wrap

\* Every value that the parser is said to read is read as it was sent.
THEOREM PayloadsRead ==
    ASSUME NEW depth \in Nat, NEW v \in Readable(depth)
    PROVE  Received(v, depth) = v
<1> DEFINE text(n) == CompactTexts(depth)[n]
           upto(n) == Containers(depth)[n]
           S == {n \in 0..depth :
                    /\ \A x \in upto(n) : Good(x, text(n)[x])
                    /\ \A x \in Atoms : text(n)[x] = AtomText(x)}
<1>1. /\ upto(0) = {} /\ text(0) = AtomTexts
      /\ \A i \in 1..depth : upto(i) = Wrap(upto(i - 1)) /\ text(i) = PrintedAt(upto(i), text(i - 1))
  BY Zenon, ContainersSteps, CompactSteps
<1> HIDE DEF text, upto
<1>2. 0 \in S
  <2>1. 0 \in 0..depth
    OBVIOUS
  <2>2. \A x \in Atoms : AtomTexts[x] = AtomText(x)
    BY Zenon, AtomFacts
  <2> QED
    BY Zenon, <1>1, <2>1, <2>2
<1>3. ASSUME NEW n \in 0..depth, n \in S, n < depth PROVE n + 1 \in S
  <2> DEFINE m == n + 1
  <2>1. m \in 0..depth /\ m \in 1..depth /\ m - 1 = n
    BY <1>3
  <2> HIDE DEF m
  <2>2. upto(m) = Wrap(upto(n)) /\ text(m) = PrintedAt(upto(m), text(n))
    BY Zenon, <1>1, <2>1
  <2>3. \A x \in Atoms \cup upto(m) : text(m)[x] = Printed(x, text(n), <<>>)
    BY Zenon, <2>2 DEF PrintedAt
  <2>4. \A x \in upto(m) : Good(x, text(m)[x])
    <3> SUFFICES ASSUME NEW x \in upto(m) PROVE Good(x, text(m)[x])
      BY Zenon
    <3>1. \A y \in upto(n) : Good(y, text(n)[y])
      BY Zenon, <1>3
    <3>2. \A y \in Atoms : text(n)[y] = AtomText(y)
      BY Zenon, <1>3
    <3>3. Good(x, Printed(x, text(n), <<>>))
      BY Zenon, <2>2, <3>1, <3>2, WrapRead
    <3> QED
      BY Zenon, <2>3, <3>3
  <2>5. \A x \in Atoms : text(m)[x] = AtomText(x)
    <3> SUFFICES ASSUME NEW x \in Atoms PROVE text(m)[x] = AtomText(x)
      BY Zenon
    <3>1. x[1] # "list" /\ x[1] # "obj"
      BY Zenon DEF Atoms, NumLits
    <3>2. Printed(x, text(n), <<>>) = AtomText(x)
      BY Zenon, <3>1 DEF Printed
    <3> QED
      BY Zenon, <2>3, <3>2
  <2> QED
    BY Zenon, <2>1, <2>4, <2>5 DEF m
<1>4. depth \in S
  <2>1. \A n \in 0..depth : n \in S /\ n < depth => n + 1 \in S
    BY Zenon, <1>3
  <2>2. 0 \in Nat /\ depth \in 0..depth
    OBVIOUS
  <2>3. 0..depth \subseteq S
    <3> HIDE DEF S
    <3> QED
      BY Zenon, <1>2, <2>1, <2>2, Ascend
  <2> QED
    BY Zenon, <2>2, <2>3
<1>5. Received(v, depth) = parse[text(depth)[v]]
  BY Zenon DEF Received, Compact, text
<1>6. CASE v \in NumLits
  <2>1. v \in Atoms /\ parse[AtomText(v)] = v
    BY Zenon, <1>6, FaithfulNumber DEF Faithful
  <2>2. text(depth)[v] = AtomText(v)
    BY Zenon, <1>4, <2>1
  <2> QED
    BY Zenon, <1>5, <2>1, <2>2
<1>7. CASE v \in StringsWithout({})
  <2> DEFINE s == v[2]
             Z == Seq(Char \ (Dropped \cup {}))
  <2>1. v[1] = "str" /\ s \in Z /\ v = <<v[1], s>>
    <3>1. v \in {"str"} \X Z
      BY Zenon, <1>7 DEF StringsWithout
    <3> HIDE DEF Z
    <3>2. v[1] \in {"str"} /\ v[2] \in Z /\ v = <<v[1], v[2]>>
      BY Zenon, <3>1, PairParts
    <3> QED
      BY Zenon, <3>2
  <2>2. AtomText(v) = QuotedText(s)
    BY Zenon, <2>1 DEF AtomText
  <2>3. v = Str(s)
    BY Zenon, <2>1 DEF Str
  <2> HIDE DEF s
  <2>4. s \in Seq(Char \ Dropped) /\ s \in Seq(Char)
    <3>1. Char \ (Dropped \cup {}) \subseteq Char \ Dropped /\ Char \ (Dropped \cup {}) \subseteq Char
      BY Zenon
    <3> QED
      BY Zenon, <2>1, <3>1, Wider
  <2>5. parse[QuotedText(s)] = Str(s)
    BY Zenon, <2>4, ParseString
  <2>6. v \in Atoms
    BY Zenon, <2>3, <2>4 DEF Atoms, Str
  <2>7. text(depth)[v] = AtomText(v)
    BY Zenon, <1>4, <2>6
  <2> QED
    BY Zenon, <1>5, <2>2, <2>3, <2>5, <2>7
<1>8. CASE v \in upto(depth)
  <2>1. Good(v, text(depth)[v])
    BY Zenon, <1>4, <1>8
  <2> QED
    BY Zenon, <1>5, <2>1 DEF Good, Faithful
<1> QED
  BY Zenon, <1>6, <1>7, <1>8 DEF Readable, upto

----------------------------------------------------------------------------
(* Step files: what is read of an object of get_repr, whatever it holds.    *)

Ws == <<"ws">>

LEMMA ObjectTextShape ==
    ASSUME NEW T \in Seq(CharTexts), NEW pad \in Pads
    PROVE  /\ ObjectText(T, pad) \in CharTexts /\ ObjectText(T, pad) # <<>>
           /\ ObjectText(T, pad)[1] = "{"
           /\ ObjectText(T, pad)[Len(ObjectText(T, pad))] = "}"
           /\ Inner(ObjectText(T, pad)) = Body(T, pad)
           /\ parse[ObjectText(T, pad)] =
                 Obj(Assigned(PairsRead(ObjectParts(ObjectText(T, pad)), parse)))
<1> DEFINE p == <<"{", "}">>
           s == ObjectText(T, pad)
           B == Body(T, pad)
<1>1. p \in Enclosing /\ s = Bracketed(p[1], T, p[2], pad) /\ p[1] = "{" /\ p[2] = "}"
  BY Zenon DEF Enclosing, ObjectText
<1>2. /\ s \in CharTexts /\ B \in CharTexts /\ Len(s) = Len(B) + 2
      /\ s[1] = "{" /\ s[Len(s)] = "}" /\ Inner(s) = B
  <2> HIDE DEF p, s, B
  <2>1. p \in Enclosing /\ s = Bracketed(p[1], T, p[2], pad) /\ pad \in CharTexts
    BY Zenon, <1>1, PadFacts
  <2>2. /\ s \in CharTexts /\ Body(T, pad) \in CharTexts /\ Len(s) = Len(Body(T, pad)) + 2
        /\ s[1] = p[1] /\ s[Len(s)] = p[2] /\ Inner(s) = Body(T, pad)
    BY SMTT(60), <2>1, BracketedFacts
  <2> QED
    BY Zenon, <1>1, <2>2 DEF B
<1> HIDE DEF s, B
<1>3. Len(s) >= 1
  <2> DEFINE x == Len(s)
             y == Len(B)
  <2>1. y \in Nat /\ x = y + 2
    BY Zenon, <1>2, TextFacts
  <2> HIDE DEF x, y
  <2>2. x >= 1
    BY <2>1
  <2> QED
    BY Zenon, <2>2 DEF x
<1>4. s \in Whole
  <2>1. "{" # "ws" /\ "}" # "ws"
    BY Zenon
  <2> QED
    BY Zenon, <1>2, <1>3, <2>1 DEF Whole
<1>5. s \in CharTexts /\ s # <<>> /\ strip(s) = s
  BY Zenon, <1>4, WholeFacts
<1>6. parse[s] = Obj(Assigned(PairsRead(ObjectParts(s), parse)))
  <2>1. parse[s] = Parsed(s, parse)
    BY Zenon, <1>5, ParseText
  <2>2. s = strip(s) /\ s # <<>> /\ s[1] = "{"
    BY Zenon, <1>2, <1>5
  <2>3. Parsed(s, parse) = Obj(Assigned(PairsRead(ObjectParts(s), parse)))
    BY Zenon, <2>2, ParsedCases
  <2> QED
    BY Zenon, <2>1, <2>3
<1> QED
  BY Zenon, <1>2, <1>5, <1>6 DEF s, B

\* An object printed without rounding.
PlainRepr(v) == Printed(v, AtomTexts, Ws)

\* The texts of the values of pairs.
AtomTextsOf(o) == [i \in DOMAIN o |-> AtomTexts[o[i][2]]]

LEMMA ReprText ==
    ASSUME NEW A, A \subseteq Atoms, NEW o \in Seq(CleanKeys \X A)
    PROVE  /\ AtomTextsOf(o) \in Seq(CharTexts) /\ Len(AtomTextsOf(o)) = Len(o)
           /\ Len(o) \in Nat
           /\ \A j \in 1..Len(o) :
                 o[j][1] \in CleanKeys /\ o[j][2] \in A /\ AtomTextsOf(o)[j] = AtomText(o[j][2])
           /\ PlainRepr(Obj(o)) = ObjectText(PairTexts(o, AtomTextsOf(o), Ws), Ws)
<1> DEFINE n == Len(o)
           R == CleanKeys \X A
           V == AtomTextsOf(o)
<1>1. \A e \in R : e[1] \in CleanKeys /\ e[2] \in A
  BY Zenon, PairParts
<1> HIDE DEF R
<1>2. n \in Nat /\ DOMAIN o = 1..n /\ \A j \in 1..n : o[j] \in R
  <2>1. o \in Seq(R)
    BY Zenon DEF R
  <2> QED
    BY Zenon, <2>1, SeqFacts
<1>3. \A j \in 1..n :
         /\ o[j][1] \in CleanKeys /\ o[j][2] \in A
         /\ V[j] = AtomText(o[j][2]) /\ AtomTexts[o[j][2]] \in CharTexts
  <2> SUFFICES ASSUME NEW j \in 1..n
               PROVE  /\ o[j][1] \in CleanKeys /\ o[j][2] \in A
                      /\ V[j] = AtomText(o[j][2]) /\ AtomTexts[o[j][2]] \in CharTexts
    BY Zenon
  <2>1. o[j][1] \in CleanKeys /\ o[j][2] \in A
    BY Zenon, <1>1, <1>2
  <2>2. AtomTexts[o[j][2]] = AtomText(o[j][2]) /\ AtomText(o[j][2]) \in CharTexts
    BY Zenon, <2>1, AtomFacts
  <2>3. V[j] = AtomTexts[o[j][2]]
    BY Zenon, <1>2 DEF AtomTextsOf
  <2> QED
    BY Zenon, <2>1, <2>2, <2>3
<1>4. V \in [1..n -> CharTexts]
  <2>1. V = [j \in 1..n |-> AtomTexts[o[j][2]]]
    BY Zenon, <1>2 DEF AtomTextsOf
  <2> HIDE DEF V, n
  <2> QED
    BY Zenon, <1>3, <2>1
<1>5. V \in Seq(CharTexts) /\ Len(V) = n
  <2> HIDE DEF V, n
  <2> QED
    BY <1>2, <1>4
<1>6. PlainRepr(Obj(o)) = ObjectText(PairTexts(o, V, Ws), Ws)
  <2>1. Obj(o)[1] = "obj" /\ Obj(o)[2] = o
    BY Zenon DEF Obj
  <2>2. Printed(Obj(o), AtomTexts, Ws) =
           ObjectText([i \in DOMAIN o |-> PairText(o[i][1], AtomTexts[o[i][2]], Ws)], Ws)
    BY Zenon, <2>1 DEF Printed, ObjectText
  <2>3. [i \in DOMAIN o |-> PairText(o[i][1], AtomTexts[o[i][2]], Ws)] = PairTexts(o, V, Ws)
    BY Zenon DEF PairTexts, AtomTextsOf
  <2> QED
    BY Zenon, <2>2, <2>3 DEF PlainRepr, Ws
<1> QED
  BY Zenon, <1>2, <1>3, <1>5, <1>6

\* The value {} is read as a pair without a name.
NoPair == <<<<<<>>, Num("0")>>>>

LEMMA EmptyRead ==
    ASSUME NEW o, o = <<>>
    PROVE  parse[PlainRepr(Obj(o))] = Obj(Assigned(NoPair))
<1> DEFINE s == PlainRepr(Obj(o))
           T == PairTexts(o, AtomTextsOf(o), Ws)
           parts == ObjectParts(s)
<1>1. o \in Seq(CleanKeys \X Atoms) /\ Atoms \subseteq Atoms /\ Len(o) = 0 /\ DOMAIN o = {}
  BY DEF CleanKeys
<1>2. s = ObjectText(T, Ws)
  BY Zenon, <1>1, ReprText
<1>3. T = <<>>
  <2>1. /\ AtomTextsOf(o) \in Seq(CharTexts) /\ Len(AtomTextsOf(o)) = Len(o)
    BY Zenon, <1>1, ReprText
  <2>2. Ws \in Pads
    BY Zenon DEF Ws, Pads
  <2>3. PairTextsOf(o, AtomTextsOf(o), Ws, T, Atoms)
    BY Zenon, <1>1, <2>1, <2>2, PairTextsFacts
  <2>4. T \in Seq(CharTexts) /\ Len(T) = 0
    BY Zenon, <1>1, <2>3 DEF PairTextsOf
  <2> HIDE DEF T
  <2> QED
    BY <2>4, EmptySeq
<1>4. Ws \in Pads /\ Ws \in CharTexts /\ ObjectCommas(Ws) = {} /\ <<>> \in Seq(CharTexts)
  <2>1. Ws \in Pads
    BY Zenon DEF Ws, Pads
  <2>2. <<>> \in Seq(CharTexts)
    OBVIOUS
  <2> QED
    BY Zenon, <2>1, <2>2, PadFacts
<1> HIDE DEF s, T
<1>5. Inner(s) = Ws /\ parse[s] = Obj(Assigned(PairsRead(parts, parse)))
  <2>1. Inner(s) = Body(<<>>, Ws) /\ parse[s] = Obj(Assigned(PairsRead(parts, parse)))
    BY Zenon, <1>2, <1>3, <1>4, ObjectTextShape
  <2> QED
    BY Zenon, <1>4, <2>1, BodyEmpty
<1>6. parts = <<Ws>>
  <2> DEFINE c == Cut(Ws, {})
  <2>1. parts = c
    BY Zenon, <1>4, <1>5 DEF ObjectParts
  <2>2. PICK b : CutAt(Ws, {}, c, b)
    <3>1. {} \subseteq 1..Len(Ws)
      BY Zenon
    <3> QED
      BY Zenon, <1>4, <3>1, CutPlaces
  <2> HIDE DEF c
  <2> DEFINE m == Len(c)
  <2>3. /\ c \in Seq(CharTexts) /\ m \in Nat /\ m >= 1 /\ b[0] = 0 /\ b[m] = Len(Ws) + 1
        /\ \A j \in 1..(m - 1) : FALSE
        /\ \A j \in 1..m : c[j] = SubSeq(Ws, b[j - 1] + 1, b[j] - 1)
    BY Zenon, <2>2 DEF CutAt
  <2> HIDE DEF m
  <2>4. m = 1
    <3>1. m # 1 => 1 \in 1..(m - 1)
      BY <2>3
    <3> QED
      BY Zenon, <2>3, <3>1
  <2>5. b[1 - 1] + 1 = 1 /\ b[1] - 1 = 1 /\ 1 \in 1..1
    <3>1. Len(Ws) = 1
      BY DEF Ws
    <3>2. 1 - 1 = 0 /\ 0 + 1 = 1 /\ (1 + 1) - 1 = 1 /\ 1 \in 1..1
      OBVIOUS
    <3> QED
      BY Zenon, <2>3, <2>4, <3>1, <3>2
  <2>6. c[1] = SubSeq(Ws, 1, 1)
    BY Zenon, <2>3, <2>4, <2>5
  <2>7. SubSeq(Ws, 1, 1) = Ws
    <3>1. Len(Ws) = 1 /\ Ws \in CharTexts
      BY Zenon, <1>4, OneChar, CharFacts DEF Ws
    <3>2. Holds(Ws, 0, Ws)
      BY <3>1 DEF Holds
    <3>3. SubSeq(Ws, 0 + 1, 0 + Len(Ws)) = Ws
      BY Zenon, <3>1, <3>2, HeldPart
    <3>4. 0 + 1 = 1
      OBVIOUS
    <3> QED
      BY Zenon, <3>1, <3>3, <3>4
  <2>8. c = <<Ws>>
    <3>1. c \in Seq(CharTexts) /\ Len(c) = 1 /\ c[1] = Ws
      BY Zenon, <2>3, <2>4, <2>6, <2>7 DEF m
    <3> QED
      BY <3>1
  <2> QED
    BY Zenon, <2>1, <2>8
<1> HIDE DEF parts
<1>7. Colons(Ws) = {}
  <2>1. \A i \in DOMAIN Ws : Ws[i] = "ws"
    BY DEF Ws
  <2>2. "ws" # ":"
    BY Zenon
  <2> QED
    BY Zenon, <2>1, <2>2 DEF Colons
<1>8. NameOf(Ws) = Ws /\ ValueOf(Ws) = <<>>
  BY Zenon, <1>7 DEF NameOf, ValueOf
<1>9. strip(Ws) = <<>> /\ strip(<<>>) = <<>>
  <2>1. \A i \in DOMAIN Ws : Ws[i] = "ws"
    BY DEF Ws
  <2>2. DOMAIN <<>> = {}
    OBVIOUS
  <2>3. {i \in DOMAIN Ws : Ws[i] # "ws"} = {} /\ {i \in DOMAIN <<>> : <<>>[i] # "ws"} = {}
    BY Zenon, <2>1, <2>2
  <2> QED
    BY Zenon, <2>3 DEF strip
<1>10. parse[Ws] = Num("0") /\ parse[<<>>] = Num("0")
  <2>1. <<>> \in CharTexts
    BY DEF CharTexts
  <2> QED
    BY Zenon, <1>4, <1>9, <2>1, ParseText, ParsedCases
<1>11. val_string(Num("0")) = <<>>
  BY Zenon DEF val_string, Num
<1>12. PairsRead(parts, parse) = NoPair
  <2> DEFINE e == <<val_string(parse[NameOf(Ws)]), parse[ValueOf(Ws)]>>
             z == <<<<>>, Num("0")>>
  <2>1. e = z
    BY Zenon, <1>8, <1>10, <1>11
  <2>2. DOMAIN <<Ws>> = {1} /\ <<Ws>>[1] = Ws
    OBVIOUS
  <2>3. PairsRead(parts, parse) = [i \in {1} |-> e]
    BY Zenon, <1>6, <2>2 DEF PairsRead
  <2> HIDE DEF e
  <2>4. PairsRead(parts, parse) = [i \in {1} |-> z]
    BY Zenon, <2>1, <2>3
  <2>5. NoPair = <<z>>
    BY Zenon DEF NoPair
  <2> HIDE DEF z
  <2>6. [i \in {1} |-> z] = <<z>>
    OBVIOUS
  <2> QED
    BY Zenon, <2>4, <2>5, <2>6
<1> QED
  BY Zenon, <1>5, <1>12 DEF s

\* A part that is cut at joins only begins with a whole joined text.
LEMMA QuietParts ==
    ASSUME NEW s \in CharTexts, NEW W, NEW d, JoinedAt(s, W, d), NEW commas,
           commas \subseteq Joins(W, d), NEW P, NEW b, CutAt(s, commas, P, b), NEW j \in 1..Len(P)
    PROVE  P[j] \in CharTexts /\ \E i \in 1..Len(W) : Holds(P[j], 0, W[i])
<1> DEFINE n == Len(W)
           m == Len(P)
           z == Len(s)
           a == b[j - 1]
           e == b[j]
<1>1. /\ n \in Nat /\ n >= 1 /\ d \in [0..n -> Nat] /\ d[0] = 0 /\ d[n] = z + 1
      /\ \A i \in 1..n :
            W[i] \in CharTexts /\ d[i] = (d[i - 1] + Len(W[i])) + 1 /\ Holds(s, d[i - 1], W[i])
  BY Zenon DEF JoinedAt
<1>2. /\ m \in Nat /\ b \in [0..m -> Nat] /\ b[0] = 0 /\ b[m] = z + 1
      /\ \A i \in 1..m : b[i - 1] < b[i] /\ P[i] = SubSeq(s, b[i - 1] + 1, b[i] - 1)
      /\ \A i \in 1..(m - 1) : b[i] \in commas
  BY Zenon DEF CutAt
<1>3. z \in Nat /\ \A i, h \in 0..n : i < h <=> d[i] < d[h]
  BY Zenon, JoinedOrder
<1>4. \A x \in commas : \E i \in 1..(n - 1) : x = d[i]
  BY Zenon DEF Joins
<1> HIDE DEF n, m, z
<1>5. PICK i \in 0..(n - 1) : a = d[i]
  <2>1. CASE j = 1
    <3>1. a = b[0] /\ 0 \in 0..(n - 1)
      BY <1>1, <2>1
    <3> QED
      BY Zenon, <1>1, <1>2, <3>1
  <2>2. CASE j # 1
    <3>1. j - 1 \in 1..(m - 1) /\ \A h \in 1..(n - 1) : h \in 0..(n - 1)
      BY <1>2, <2>2 DEF m
    <3> QED
      BY Zenon, <1>2, <1>4, <3>1
  <2> QED
    BY Zenon, <2>1, <2>2
<1>6. PICK h \in 1..n : e = d[h]
  <2>1. CASE j = m
    <3>1. n \in 1..n
      BY <1>1
    <3> QED
      BY Zenon, <1>1, <1>2, <2>1, <3>1
  <2>2. CASE j # m
    <3>1. j \in 1..(m - 1) /\ \A h \in 1..(n - 1) : h \in 1..n
      BY <1>1, <1>2, <2>2 DEF m
    <3> QED
      BY Zenon, <1>2, <1>4, <3>1
  <2> QED
    BY Zenon, <2>1, <2>2
<1>7. /\ a < e /\ P[j] = SubSeq(s, a + 1, e - 1) /\ a \in Nat /\ e \in Nat
  <2>1. a < e /\ P[j] = SubSeq(s, a + 1, e - 1)
    BY Zenon, <1>2 DEF m
  <2>2. i \in 0..n /\ h \in 0..n
    BY <1>1
  <2>3. d[i] \in Nat /\ d[h] \in Nat
    BY Zenon, <1>1, <2>2
  <2> QED
    BY Zenon, <1>5, <1>6, <2>1, <2>3
<1> DEFINE k == i + 1
           B == W[k]
           y == Len(B)
<1>8. /\ i < h /\ k \in 1..n /\ k - 1 = i /\ (h = k \/ k < h) /\ i \in 0..n /\ h \in 0..n /\ k \in 0..n
  <2>1. i \in 0..n /\ h \in 0..n
    BY <1>1
  <2>2. d[i] < d[h]
    BY Zenon, <1>5, <1>6, <1>7
  <2>3. i < h
    BY Zenon, <1>3, <2>1, <2>2
  <2> QED
    BY <1>1, <2>1, <2>3
<1> HIDE DEF k
<1>9. d[k] = (a + y) + 1 /\ Holds(s, a, B) /\ B \in CharTexts
  BY Zenon, <1>1, <1>5, <1>8
<1>10. d[k] \in Nat /\ (d[k] = e \/ d[k] < e)
  <2>1. d[k] \in Nat
    BY Zenon, <1>1, <1>8
  <2>2. h = k \/ d[k] < d[h]
    BY Zenon, <1>3, <1>8
  <2> QED
    BY Zenon, <1>6, <2>1, <2>2
<1>11. e <= z + 1
  <2>1. h = n \/ h < n
    BY <1>1
  <2>2. n \in 0..n
    BY <1>1
  <2>3. d[h] = d[n] \/ d[h] < d[n]
    BY Zenon, <1>3, <1>8, <2>1, <2>2
  <2> DEFINE x == d[h]
  <2>4. x \in Nat /\ (x = z + 1 \/ x < z + 1)
    BY Zenon, <1>1, <1>6, <1>7, <2>3
  <2> HIDE DEF x
  <2>5. x <= z + 1
    BY <1>3, <2>4
  <2> QED
    BY Zenon, <1>6, <2>5 DEF x
<1> HIDE DEF a, e, B, y
<1>12. y \in Nat
  BY Zenon, <1>9, TextFacts DEF y
<1> DEFINE f == e - 1
           w == d[k]
<1>13. f \in Nat /\ f <= z /\ a <= f /\ y <= f - a /\ \A l \in 1..y : l \in 1..(f - a)
  <2>1. w = (a + y) + 1 /\ w \in Nat /\ (w = e \/ w < e)
    BY Zenon, <1>9, <1>10
  <2> HIDE DEF w
  <2> QED
    BY <1>3, <1>7, <1>11, <1>12, <2>1
<1> HIDE DEF f, w
<1>14. P[j] = SubSeq(s, a + 1, f)
  BY Zenon, <1>7 DEF f
<1>15. /\ SubSeq(s, a + 1, f) \in CharTexts /\ Len(SubSeq(s, a + 1, f)) = f - a
       /\ \A l \in 1..(f - a) : SubSeq(s, a + 1, f)[l] = s[a + l]
  BY Zenon, <1>7, <1>13, PartOf DEF z
<1>16. \A l \in 1..y : P[j][0 + l] = B[l]
  <2>1. \A l \in 1..y : 0 + l = l
    BY <1>12
  <2>2. \A l \in 1..y : s[a + l] = B[l]
    BY Zenon, <1>9 DEF Holds, y
  <2> QED
    BY Zenon, <1>13, <1>14, <1>15, <2>1, <2>2
<1>17. Holds(P[j], 0, B)
  <2>1. 0 \in Nat /\ 0 + y = y
    BY <1>12
  <2>2. 0 + y <= Len(P[j])
    BY Zenon, <1>13, <1>14, <1>15, <2>1
  <2> QED
    BY Zenon, <1>16, <2>1, <2>2 DEF Holds, y
<1> QED
  BY Zenon, <1>8, <1>14, <1>15, <1>17 DEF B, n

\* Such a part has the key of its first pair and a value without elements.
LEMMA QuietRead ==
    ASSUME NEW part \in CharTexts, NEW key \in CleanKeys, NEW v \in Atoms, NEW pad \in Pads,
           NEW q \in Pads, Holds(part, 0, Block(key, AtomText(v), pad, q))
    PROVE  val_string(parse[NameOf(part)]) = key /\ parse[ValueOf(part)] \in Atoms
<1> DEFINE V == AtomText(v)
           B == Block(key, V, pad, q)
           P == KeyPart(key, pad)
           X == (pad \o V) \o q
           x == Len(P)
           c == x + 1
           n == Len(part)
           t == SubSeq(part, c + 1, n)
           m == Len(pad)
<1>1. V \in CharTexts /\ V \in Whole /\ V[1] \notin Brackets
  BY Zenon, AtomFacts
<1>2. key \in Seq(Char \ (Dropped \cup Brackets)) /\ key \in Seq(Char \ Brackets)
  <2>1. Char \ (Dropped \cup Brackets) \subseteq Char \ Brackets
    BY Zenon
  <2> QED
    BY Zenon, <2>1, Wider DEF CleanKeys
<1>3. BlockAt(B, P, X)
  <2> HIDE DEF V
  <2> QED
    BY Zenon, <1>1, <1>2, PairBlock
<1>4. P = pad \o QuotedText(key) /\ Holds(part, 0, B) /\ pad \in CharTexts /\ q \in CharTexts
      /\ pad \in Blanks
  BY Zenon, PadFacts DEF KeyPart
<1> HIDE DEF V, B, P
<1>5. /\ B \in CharTexts /\ P \in CharTexts /\ x \in Nat /\ X \in CharTexts
      /\ Holds(B, 0, P) /\ B[c] = ColonChar /\ Holds(B, c, X) /\ Len(B) = c + Len(X)
  BY Zenon, <1>3 DEF BlockAt
<1>6. pad \o V \in CharTexts /\ X = (pad \o V) \o q
  BY Zenon, <1>1, <1>4, Concatenated
<1> HIDE DEF X, x
<1>7. Holds(part, 0, P) /\ Holds(part, c, X)
  <2>1. Holds(part, 0 + 0, P) /\ Holds(part, 0 + c, X)
    BY Zenon, <1>4, <1>5, HoldsDeep
  <2>2. 0 + 0 = 0 /\ 0 + c = c
    BY <1>5
  <2> QED
    BY Zenon, <2>1, <2>2
<1>8. c \in Nat /\ c <= n /\ n \in Nat /\ part[c] = ColonChar /\ c + Len(X) <= n /\ Len(X) \in Nat
  <2> DEFINE l == Len(B)
             w == Len(X)
  <2>1. w \in Nat /\ l \in Nat /\ n \in Nat
    BY Zenon, <1>5, TextFacts
  <2>2. 0 + l <= n /\ \A i \in 1..l : part[0 + i] = B[i]
    BY Zenon, <1>4 DEF Holds
  <2>3. l = c + w
    BY Zenon, <1>5
  <2> HIDE DEF l, w, n
  <2>4. c \in Nat /\ c <= n /\ c \in 1..l /\ 0 + c = c /\ c + w <= n
    BY <1>5, <2>1, <2>2, <2>3
  <2>5. part[c] = ColonChar
    BY Zenon, <1>5, <2>2, <2>4
  <2> QED
    BY Zenon, <2>1, <2>4, <2>5 DEF w
<1>9. val_string(parse[NameOf(part)]) = key
  BY Zenon, <1>2, <1>4, <1>7, <1>8, KeyRead DEF x
<1>10. ValueOf(part) = t
  BY Zenon, <1>2, <1>4, <1>7, <1>8, NamePart DEF x
<1>11. t \in CharTexts /\ Len(t) = n - c /\ \A i \in 1..(n - c) : t[i] = part[c + i]
  <2>1. n = Len(part)
    BY Zenon
  <2> HIDE DEF c, n
  <2>2. n <= n
    BY <1>8
  <2>3. part \in CharTexts /\ c \in Nat /\ n \in Nat /\ n <= Len(part) /\ c <= n
    BY Zenon, <1>8, <2>1, <2>2
  <2>4. /\ SubSeq(part, c + 1, n) \in CharTexts /\ Len(SubSeq(part, c + 1, n)) = n - c
        /\ Holds(part, c, SubSeq(part, c + 1, n))
        /\ \A i \in 1..(n - c) : SubSeq(part, c + 1, n)[i] = part[c + i]
    BY Zenon, <2>3, PartOf
  <2> QED
    BY Zenon, <2>4
<1> HIDE DEF t, c, n
<1>12. Holds(t, 0, X)
  <2> DEFINE w == Len(X)
  <2>1. w \in Nat /\ 0 + w <= n - c /\ 0 \in Nat /\ (\A i \in 1..w : i \in 1..(n - c) /\ 0 + i = i)
    <3>1. w \in Nat /\ c + w <= n
      BY Zenon, <1>8
    <3> HIDE DEF w
    <3> QED
      BY <1>8, <3>1
  <2>2. \A i \in 1..w : part[c + i] = X[i]
    BY Zenon, <1>7 DEF Holds
  <2> QED
    BY Zenon, <1>11, <2>1, <2>2 DEF Holds
<1>13. Holds(t, 0, pad) /\ Holds(t, m, V)
  <2>1. Holds(t, 0, pad \o V)
    BY Zenon, <1>4, <1>6, <1>11, <1>12, HoldsBoth
  <2>2. Holds(t, 0, pad) /\ Holds(t, 0 + Len(pad), V)
    BY Zenon, <1>1, <1>4, <1>11, <2>1, HoldsBoth
  <2>3. 0 + Len(pad) = m
    <3>1. m \in Nat
      BY Zenon, <1>4, TextFacts
    <3> QED
      BY <3>1
  <2> QED
    BY Zenon, <2>2, <2>3
<1>14. strip(t) # <<>> /\ strip(t)[1] = V[1]
  <2> DEFINE y == Len(t)
             l == Len(V)
  <2>1. V[1] # "ws" /\ l >= 1
    BY Zenon, <1>1 DEF Whole
  <2>2. m \in Nat /\ y \in Nat /\ l \in Nat
    BY Zenon, <1>1, <1>4, <1>11, TextFacts
  <2>3. m + l <= y /\ (\A i \in 1..l : t[m + i] = V[i])
    BY Zenon, <1>13 DEF Holds
  <2>4. \A i \in 1..m : t[0 + i] = pad[i] /\ pad[i] = "ws"
    BY Zenon, <1>4, <1>13 DEF Holds, Blanks
  <2> HIDE DEF y, l, m
  <2>5. m < y /\ 1 \in 1..l
    BY <2>1, <2>2, <2>3
  <2>6. \A i \in 1..m : 0 + i = i
    BY <2>2
  <2>7. \A i \in 1..m : t[i] = "ws"
    BY Zenon, <2>4, <2>6
  <2>8. t[m + 1] = V[1] /\ t[m + 1] # "ws"
    BY Zenon, <2>1, <2>3, <2>5
  <2>9. strip(t) # <<>> /\ strip(t)[1] = t[m + 1]
    BY Zenon, <1>11, <2>2, <2>5, <2>7, <2>8, StripFrom DEF y
  <2> QED
    BY Zenon, <2>8, <2>9
<1>15. parse[t] \in Atoms
  BY Zenon, <1>1, <1>11, <1>14, ParseKind
<1> QED
  BY Zenon, <1>9, <1>10, <1>15

\* An object of scalars is read as an object of scalars, with some of its keys.
LEMMA StepFileRead ==
    ASSUME NEW K, K \subseteq CleanKeys, <<>> \in K, NEW o \in Seq(K \X Atoms)
    PROVE  \E ps \in Seq(K \X Atoms) : parse[PlainRepr(Obj(o))] = Obj(Assigned(ps))
<1> DEFINE n == Len(o)
           R == K \X Atoms
           V == AtomTextsOf(o)
           T == PairTexts(o, V, Ws)
           s == PlainRepr(Obj(o))
           B == Body(T, Ws)
           U == Padded(T, Ws)
           W == Widened(U, Ws)
           parts == ObjectParts(s)
<1>0. n \in Nat /\ \A j \in 1..n : o[j] \in R
  <2>1. o \in Seq(R)
    BY Zenon
  <2> HIDE DEF R
  <2> QED
    BY Zenon, <2>1, SeqFacts
<1>1. \A e \in R : e[1] \in K /\ e[2] \in Atoms
  BY Zenon, PairParts
<1>2. o \in Seq(CleanKeys \X Atoms)
  <2>1. R \subseteq CleanKeys \X Atoms
    BY Zenon
  <2> HIDE DEF R
  <2>2. o \in Seq(R)
    BY Zenon DEF R
  <2> QED
    BY Zenon, <2>1, <2>2, Wider
<1>3. Ws \in Pads /\ Ws \in CharTexts
  <2>1. Ws \in Pads
    BY Zenon DEF Ws, Pads
  <2> QED
    BY Zenon, <2>1, PadFacts
<1>4. /\ V \in Seq(CharTexts) /\ Len(V) = n
      /\ \A j \in 1..n : o[j][1] \in CleanKeys /\ o[j][2] \in Atoms /\ V[j] = AtomText(o[j][2])
      /\ s = ObjectText(T, Ws)
  BY Zenon, <1>2, ReprText
<1>5. PairTextsOf(o, V, Ws, T, Atoms)
  BY Zenon, <1>2, <1>3, <1>4, PairTextsFacts
<1>6. /\ T \in Seq(CharTexts) /\ Len(T) = n
      /\ \A j \in 1..n : T[j] = PairText(o[j][1], V[j], Ws)
  BY Zenon, <1>5 DEF PairTextsOf
<1> HIDE DEF V, T, s
<1>7. CASE n = 0
  <2>1. o = <<>>
    BY <1>7, EmptySeq
  <2>2. parse[s] = Obj(Assigned(NoPair))
    BY Zenon, <2>1, EmptyRead DEF s
  <2>3. NoPair \in Seq(R)
    <3> DEFINE z == <<<<>>, Num("0")>>
    <3>1. Num("0") \in NumLits
      BY Zenon DEF Num, NumLits, Numbers
    <3>2. z \in R
      BY Zenon, <3>1 DEF Atoms
    <3>3. NoPair = <<z>>
      BY Zenon DEF NoPair
    <3> HIDE DEF z, R
    <3>4. <<z>> \in Seq(R)
      BY <3>2
    <3> QED
      BY Zenon, <3>3, <3>4
  <2> QED
    BY Zenon, <2>2, <2>3 DEF s
<1>8. CASE n # 0
  <2>1. n >= 1 /\ Len(T) >= 1
    <3>1. n >= 1
      <4> HIDE DEF n
      <4> QED
        BY <1>0, <1>8
    <3> QED
      BY Zenon, <1>6, <3>1
  <2>2. /\ s \in CharTexts /\ s # <<>> /\ Inner(s) = B
        /\ parse[s] = Obj(Assigned(PairsRead(parts, parse)))
    BY Zenon, <1>3, <1>4, <1>6, ObjectTextShape
  <2>3. U \in Seq(CharTexts) /\ Len(U) = Len(T)
    BY Zenon, <1>3, <1>6, PaddedFacts
  <2>4. B \in CharTexts /\ \E d : JoinedAt(B, W, d)
    <3>1. Len(U) >= 1
      BY Zenon, <2>1, <2>3
    <3> HIDE DEF U
    <3>2. /\ Separated(U) \o Ws \in CharTexts
          /\ \E d : JoinedAt(Separated(U) \o Ws, Widened(U, Ws), d)
      BY Zenon, <1>3, <2>3, <3>1, BodyShape
    <3>3. B = Separated(U) \o Ws
      BY Zenon DEF Body, U
    <3> QED
      BY Zenon, <3>2, <3>3
  <2>5. PICK d : JoinedAt(B, W, d)
    BY Zenon, <2>4
  <2>6. /\ Len(W) = Len(T)
        /\ \A j \in 1..Len(T) : \E q \in Pads : W[j] = (Ws \o T[j]) \o q
    BY Zenon, <1>3, <1>6, Blocks
  <2> HIDE DEF B, W, U
  <2>7. ASSUME NEW j \in 1..Len(W)
        PROVE  /\ j \in 1..n /\ o[j][1] \in CleanKeys /\ o[j][2] \in Atoms
               /\ \E q \in Pads : W[j] = Block(o[j][1], AtomText(o[j][2]), Ws, q)
    <3>1. j \in 1..n
      BY Zenon, <1>6, <2>6
    <3>2. PICK q \in Pads : W[j] = (Ws \o T[j]) \o q
      BY Zenon, <1>6, <2>6, <3>1
    <3>3. W[j] = Block(o[j][1], AtomText(o[j][2]), Ws, q)
      BY Zenon, <1>4, <1>6, <3>1, <3>2 DEF Block
    <3> QED
      BY Zenon, <1>4, <3>1, <3>3
  <2>8. ASSUME NEW j \in 1..Len(W) PROVE W[j] \in Quiet
    <3> DEFINE key == o[j][1]
               X == AtomText(o[j][2])
    <3>1. PICK q \in Pads : W[j] = Block(key, X, Ws, q)
      BY Zenon, <2>7
    <3>2. key \in Seq(Char \ Brackets)
      <4>1. Char \ (Dropped \cup Brackets) \subseteq Char \ Brackets
        BY Zenon
      <4>2. key \in Seq(Char \ (Dropped \cup Brackets))
        BY Zenon, <2>7 DEF CleanKeys
      <4> HIDE DEF key
      <4> QED
        BY Zenon, <4>1, <4>2, Wider
    <3>3. X \in CharTexts /\ X \in Quiet
      BY Zenon, <2>7, AtomFacts
    <3> HIDE DEF key, X
    <3>4. Block(key, X, Ws, q) \in Quiet
      BY Zenon, <1>3, <3>2, <3>3, PairBlock
    <3> QED
      BY Zenon, <3>1, <3>4
  <2> DEFINE commas == ObjectCommas(B)
  <2>9. commas \subseteq Joins(W, d)
    <3>1. \A j \in 1..Len(W) : W[j] \in Quiet
      BY Zenon, <2>8
    <3> QED
      BY Zenon, <2>4, <2>5, <3>1, JoinedQuiet
  <2>10. parts = Cut(B, commas)
    BY Zenon, <2>2 DEF ObjectParts
  <2>11. PICK b : CutAt(B, commas, parts, b)
    <3>1. commas \subseteq 1..Len(B)
      BY Zenon, <2>4, CommasIn
    <3> HIDE DEF commas, parts
    <3> QED
      BY Zenon, <2>4, <2>10, <3>1, CutPlaces
  <2> HIDE DEF commas, parts
  <2>12. ASSUME NEW j \in 1..Len(parts)
         PROVE  <<val_string(parse[NameOf(parts[j])]), parse[ValueOf(parts[j])]>> \in R
    <3>1. parts[j] \in CharTexts /\ \E i \in 1..Len(W) : Holds(parts[j], 0, W[i])
      BY Zenon, <2>4, <2>5, <2>9, <2>11, QuietParts
    <3>2. PICK i \in 1..Len(W) : Holds(parts[j], 0, W[i])
      BY Zenon, <3>1
    <3> DEFINE key == o[i][1]
               v == o[i][2]
               t == parts[j]
    <3>3. PICK q \in Pads : W[i] = Block(key, AtomText(v), Ws, q)
      BY Zenon, <2>7
    <3>4. key \in CleanKeys /\ v \in Atoms /\ key \in K
      BY Zenon, <1>0, <1>1, <2>7
    <3>5. t \in CharTexts /\ Holds(t, 0, Block(key, AtomText(v), Ws, q))
      BY Zenon, <3>1, <3>2, <3>3
    <3> HIDE DEF key, v, t
    <3>6. val_string(parse[NameOf(t)]) = key /\ parse[ValueOf(t)] \in Atoms
      BY Zenon, <1>3, <3>4, <3>5, QuietRead
    <3> QED
      BY Zenon, <3>4, <3>6 DEF t
  <2>13. parts \in Seq(CharTexts)
    BY Zenon, <2>11 DEF CutAt
  <2>14. Len(parts) \in Nat /\ DOMAIN parts = 1..Len(parts)
    BY Zenon, <2>13, SeqFacts
  <2> DEFINE ps == PairsRead(parts, parse)
             m == Len(parts)
  <2>15. ps \in [1..m -> R]
    <3>1. ps = [i \in 1..m |-> <<val_string(parse[NameOf(parts[i])]), parse[ValueOf(parts[i])]>>]
      BY Zenon, <2>14 DEF PairsRead
    <3> HIDE DEF R, ps, m
    <3> QED
      BY Zenon, <2>12, <3>1 DEF m
  <2>16. ps \in Seq(R)
    <3> HIDE DEF R, ps
    <3>1. m \in Nat
      BY Zenon, <2>14
    <3> HIDE DEF m
    <3> QED
      BY <2>15, <3>1
  <2> QED
    BY Zenon, <2>2, <2>16 DEF s
<1> QED
  BY Zenon, <1>7, <1>8

\* Scalars whose texts have no brackets and no control characters.
CleanAtoms == NumLits \cup StringsWithout(Brackets)

\* An object of these is read as it was printed.
LEMMA CleanFileRead ==
    ASSUME NEW o \in Seq(CleanKeys \X CleanAtoms), o # <<>>
    PROVE  parse[PlainRepr(Obj(o))] = Obj(Assigned(o))
<1> DEFINE V == AtomTextsOf(o)
           T == PairTexts(o, V, Ws)
<1>1. CleanAtoms \subseteq Atoms /\ \A v \in CleanAtoms : Faithful(v, AtomText(v))
  <2>1. \A v \in NumLits : v \in Atoms /\ Faithful(v, AtomText(v))
    BY Zenon, FaithfulNumber
  <2>2. \A v \in StringsWithout(Brackets) : v \in Atoms /\ Faithful(v, AtomText(v))
    BY Zenon, FaithfulString
  <2> QED
    BY Zenon, <2>1, <2>2 DEF CleanAtoms
<1>2. /\ V \in Seq(CharTexts) /\ Len(V) = Len(o) /\ Len(o) \in Nat
      /\ \A j \in 1..Len(o) : o[j][2] \in CleanAtoms /\ V[j] = AtomText(o[j][2])
      /\ PlainRepr(Obj(o)) = ObjectText(T, Ws)
  BY ZenonT(60), <1>1, ReprText
<1>3. Ws \in Pads
  BY Zenon DEF Ws, Pads
<1> HIDE DEF V
<1>4. \A j \in 1..Len(o) : Faithful(o[j][2], V[j])
  BY Zenon, <1>1, <1>2
<1>5. Len(o) >= 1
  <2>1. Len(o) # 0
    BY EmptySeq
  <2> DEFINE n == Len(o)
  <2>2. n \in Nat /\ n # 0
    BY Zenon, <1>2, <2>1
  <2> HIDE DEF n
  <2>3. n >= 1
    BY <2>2
  <2> QED
    BY Zenon, <2>3 DEF n
<1>6. Faithful(Obj(Assigned(o)), ObjectText(PairTexts(o, V, Ws), Ws))
  BY Zenon, <1>2, <1>3, <1>4, <1>5, ReadObject
<1> QED
  BY Zenon, <1>2, <1>6 DEF Faithful
=============================================================================
