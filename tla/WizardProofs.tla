----------------------------- MODULE WizardProofs -----------------------------
(* The step files of the item wizard: what they hold, for every option.       *)
EXTENDS ItemWizard, JsonProofs

----------------------------------------------------------------------------
(* The last values of sequences that follow each other.                     *)

IsLast(ps, j) == j \in 1..Len(ps) /\ \A l \in (j + 1)..Len(ps) : ps[l][1] # ps[j][1]

LEMMA FinalIs ==
    ASSUME NEW ps, NEW x
    PROVE  x \in Final(ps) <=> \E j : IsLast(ps, j) /\ x = ps[j]
BY Zenon DEF Final, FinalTo, IsLast

\* Every key has a last value.
LEMMA FinalKeys ==
    ASSUME NEW R, NEW ps \in Seq(R), NEW i \in 1..Len(ps)
    PROVE  \E e \in Final(ps) : e[1] = ps[i][1]
<1> DEFINE n == Len(ps)
           T == {j \in 1..n : ps[j][1] = ps[i][1]}
           m == Max(T)
<1>1. n \in Nat
  BY SeqFacts
<1>2. T \subseteq 0..n /\ T # {}
  <2>1. 1..n \subseteq 0..n
    OBVIOUS
  <2> QED
    BY Zenon, <2>1
<1> HIDE DEF T
<1>3. m \in T /\ \A y \in T : y <= m
  BY Zenon, <1>1, <1>2, Greatest
<1> HIDE DEF m
<1>4. m \in 1..n /\ ps[m][1] = ps[i][1]
  BY Zenon, <1>3 DEF T
<1>5. ASSUME NEW l \in (m + 1)..n, ps[l][1] = ps[m][1] PROVE FALSE
  <2>1. l \in 1..n /\ ~(l <= m)
    BY <1>1, <1>4
  <2>2. l \in T
    BY Zenon, <1>4, <1>5, <2>1 DEF T
  <2> QED
    BY Zenon, <1>3, <2>1, <2>2
<1>6. IsLast(ps, m)
  BY Zenon, <1>4, <1>5 DEF IsLast
<1>7. ps[m] \in Final(ps)
  BY Zenon, <1>6, FinalIs
<1> QED
  BY Zenon, <1>4, <1>7

\* Of distinct keys all values are last.
LEMMA FinalDistinct ==
    ASSUME NEW R, NEW ps \in Seq(R), DistinctKeys(ps)
    PROVE  Final(ps) = ToSet(ps)
<1> DEFINE n == Len(ps)
<1>1. n \in Nat /\ DOMAIN ps = 1..n
  BY Zenon, SeqFacts
<1>2. ASSUME NEW j \in 1..n PROVE IsLast(ps, j)
  <2>1. \A l \in (j + 1)..n : l \in 1..n /\ l # j
    <3> HIDE DEF n
    <3> QED
      BY <1>1
  <2> QED
    BY Zenon, <2>1 DEF IsLast, DistinctKeys
<1>3. ASSUME NEW x PROVE x \in Final(ps) <=> \E j \in 1..n : x = ps[j]
  <2>1. x \in Final(ps) <=> \E j : IsLast(ps, j) /\ x = ps[j]
    BY Zenon, FinalIs
  <2>2. \A j : IsLast(ps, j) => j \in 1..n
    BY Zenon DEF IsLast
  <2> QED
    BY Zenon, <1>2, <2>1, <2>2
<1>4. \A x : x \in ToSet(ps) <=> \E j \in 1..n : x = ps[j]
  BY Zenon, <1>1 DEF ToSet
<1>5. \A x : x \in Final(ps) <=> x \in ToSet(ps)
  BY Zenon, <1>3, <1>4
<1> QED
  BY Zenon, <1>5

LEMMA FinalBoth ==
    ASSUME NEW R, NEW a \in Seq(R), NEW b \in Seq(R), NEW x
    PROVE  x \in Final(a \o b) <=>
              x \in Final(b) \/ (x \in Final(a) /\ \A e \in Final(b) : e[1] # x[1])
<1> DEFINE c == a \o b
           n == Len(a)
           m == Len(b)
           z == Len(c)
<1>1. /\ n \in Nat /\ m \in Nat /\ z = n + m
      /\ \A i \in 1..n : c[i] = a[i]
      /\ \A i \in 1..m : c[n + i] = b[i]
  <2>1. n \in Nat /\ m \in Nat
    BY Zenon, SeqFacts
  <2>2. z = n + m /\ \A i \in 1..(n + m) : c[i] = IF i <= n THEN a[i] ELSE b[i - n]
    BY ConcatProperties
  <2> HIDE DEF c, n, m, z
  <2>3. \A i \in 1..n : i \in 1..(n + m) /\ i <= n
    BY <2>1
  <2>4. \A i \in 1..m : n + i \in 1..(n + m) /\ ~(n + i <= n) /\ (n + i) - n = i
    BY <2>1
  <2>5. \A i \in 1..n : c[i] = a[i]
    BY Zenon, <2>2, <2>3
  <2>6. \A i \in 1..m : c[n + i] = b[i]
    BY Zenon, <2>2, <2>4
  <2> QED
    BY Zenon, <2>1, <2>2, <2>5, <2>6
<1>2. /\ \A j : IsLast(a, j) <=> j \in 1..n /\ \A l \in (j + 1)..n : a[l][1] # a[j][1]
      /\ \A j : IsLast(b, j) <=> j \in 1..m /\ \A l \in (j + 1)..m : b[l][1] # b[j][1]
      /\ \A j : IsLast(c, j) <=> j \in 1..z /\ \A l \in (j + 1)..z : c[l][1] # c[j][1]
  BY Zenon DEF IsLast
<1>3. /\ x \in Final(c) <=> \E j : IsLast(c, j) /\ x = c[j]
      /\ x \in Final(a) <=> \E j : IsLast(a, j) /\ x = a[j]
      /\ \A y : y \in Final(b) <=> \E j : IsLast(b, j) /\ y = b[j]
  BY Zenon, FinalIs
<1>4. \A i \in 1..m : \E e \in Final(b) : e[1] = b[i][1]
  BY Zenon, FinalKeys
<1> HIDE DEF c, n, m, z
<1>5. /\ \A j \in 1..z : j \in 1..n \/ \E h \in 1..m : j = n + h
      /\ \A j \in 1..n : j \in 1..z /\ \A l \in (j + 1)..n : l \in 1..n /\ l \in (j + 1)..z
      /\ \A j \in 1..n : \A l \in (j + 1)..z : l \in (j + 1)..n \/ \E h \in 1..m : l = n + h
      /\ \A j \in 1..n : \A h \in 1..m : n + h \in (j + 1)..z
      /\ \A h \in 1..m : /\ n + h \in 1..z
                         /\ \A l \in (h + 1)..m : l \in 1..m /\ n + l \in ((n + h) + 1)..z
                         /\ \A l \in ((n + h) + 1)..z : \E k \in (h + 1)..m : k \in 1..m /\ l = n + k
  <2>1. \A j \in 1..z : j \in 1..n \/ \E h \in 1..m : j = n + h
    <3> SUFFICES ASSUME NEW j \in 1..z, j \notin 1..n PROVE \E h \in 1..m : j = n + h
      OBVIOUS
    <3>1. j - n \in 1..m /\ j = n + (j - n)
      BY <1>1
    <3> QED
      BY <3>1
  <2>2. \A j \in 1..n : j \in 1..z /\ \A l \in (j + 1)..n : l \in 1..n /\ l \in (j + 1)..z
    BY <1>1
  <2>3. \A j \in 1..n : \A l \in (j + 1)..z : l \in (j + 1)..n \/ \E h \in 1..m : l = n + h
    <3> SUFFICES ASSUME NEW j \in 1..n, NEW l \in (j + 1)..z, l \notin (j + 1)..n
                 PROVE  \E h \in 1..m : l = n + h
      OBVIOUS
    <3>1. l - n \in 1..m /\ l = n + (l - n)
      BY <1>1
    <3> QED
      BY <3>1
  <2>4. \A j \in 1..n : \A h \in 1..m : n + h \in (j + 1)..z
    BY <1>1
  <2>5. \A h \in 1..m : /\ n + h \in 1..z
                        /\ \A l \in (h + 1)..m : l \in 1..m /\ n + l \in ((n + h) + 1)..z
    BY <1>1
  <2>6. \A h \in 1..m :
           \A l \in ((n + h) + 1)..z : \E k \in (h + 1)..m : k \in 1..m /\ l = n + k
    <3> SUFFICES ASSUME NEW h \in 1..m, NEW l \in ((n + h) + 1)..z
                 PROVE  \E k \in (h + 1)..m : k \in 1..m /\ l = n + k
      OBVIOUS
    <3>1. l - n \in (h + 1)..m /\ l - n \in 1..m /\ l = n + (l - n)
      BY <1>1
    <3> QED
      BY <3>1
  <2> QED
    BY Zenon, <2>1, <2>2, <2>3, <2>4, <2>5, <2>6
<1>6. ASSUME x \in Final(c)
      PROVE  x \in Final(b) \/ (x \in Final(a) /\ \A e \in Final(b) : e[1] # x[1])
  <2>1. PICK j : IsLast(c, j) /\ x = c[j]
    BY Zenon, <1>3, <1>6
  <2>2. j \in 1..z /\ \A l \in (j + 1)..z : c[l][1] # c[j][1]
    BY Zenon, <1>2, <2>1
  <2>3. CASE j \in 1..n
    <3>1. x = a[j]
      BY Zenon, <1>1, <2>1, <2>3
    <3>2. \A l \in (j + 1)..n : a[l][1] # a[j][1]
      BY Zenon, <1>1, <1>5, <2>2, <2>3
    <3>3. x \in Final(a)
      BY Zenon, <1>2, <1>3, <2>3, <3>1, <3>2
    <3>4. ASSUME NEW e \in Final(b) PROVE e[1] # x[1]
      <4>1. PICK h : IsLast(b, h) /\ e = b[h]
        BY Zenon, <1>3
      <4>2. h \in 1..m
        BY Zenon, <1>2, <4>1
      <4>3. c[n + h][1] # c[j][1]
        BY Zenon, <1>5, <2>2, <2>3, <4>2
      <4> QED
        BY Zenon, <1>1, <2>1, <4>1, <4>2, <4>3
    <3> QED
      BY Zenon, <3>3, <3>4
  <2>4. CASE \E h \in 1..m : j = n + h
    <3>1. PICK h \in 1..m : j = n + h
      BY Zenon, <2>4
    <3>2. x = b[h] /\ c[j] = b[h]
      BY Zenon, <1>1, <2>1, <3>1
    <3>3. \A l \in (h + 1)..m : b[l][1] # b[h][1]
      <4> SUFFICES ASSUME NEW l \in (h + 1)..m PROVE b[l][1] # b[h][1]
        BY Zenon
      <4>1. l \in 1..m /\ n + l \in ((n + h) + 1)..z
        BY Zenon, <1>5
      <4>2. c[n + l][1] # c[j][1]
        BY Zenon, <2>2, <3>1, <4>1
      <4> QED
        BY Zenon, <1>1, <3>2, <4>1, <4>2
    <3> QED
      BY Zenon, <1>2, <1>3, <3>2, <3>3
  <2> QED
    BY Zenon, <1>5, <2>2, <2>3, <2>4
<1>7. ASSUME x \in Final(b) PROVE x \in Final(c)
  <2>1. PICK h : IsLast(b, h) /\ x = b[h]
    BY Zenon, <1>3, <1>7
  <2>2. h \in 1..m /\ \A l \in (h + 1)..m : b[l][1] # b[h][1]
    BY Zenon, <1>2, <2>1
  <2>3. n + h \in 1..z /\ c[n + h] = b[h]
    BY Zenon, <1>1, <1>5, <2>2
  <2>4. ASSUME NEW l \in ((n + h) + 1)..z PROVE c[l][1] # c[n + h][1]
    <3>1. PICK k \in (h + 1)..m : k \in 1..m /\ l = n + k
      BY Zenon, <1>5, <2>2
    <3> QED
      BY ZenonT(60), <1>1, <2>2, <2>3, <3>1
  <2> QED
    BY Zenon, <1>2, <1>3, <2>1, <2>3, <2>4
<1>8. ASSUME x \in Final(a), \A e \in Final(b) : e[1] # x[1] PROVE x \in Final(c)
  <2>1. PICK j : IsLast(a, j) /\ x = a[j]
    BY Zenon, <1>3, <1>8
  <2>2. j \in 1..n /\ \A l \in (j + 1)..n : a[l][1] # a[j][1]
    BY Zenon, <1>2, <2>1
  <2>3. j \in 1..z /\ c[j] = a[j]
    BY Zenon, <1>1, <1>5, <2>2
  <2>4. ASSUME NEW l \in (j + 1)..z PROVE c[l][1] # c[j][1]
    <3>1. CASE l \in (j + 1)..n
      <4>1. c[l] = a[l]
        BY Zenon, <1>1, <1>5, <2>2, <3>1
      <4> QED
        BY Zenon, <2>2, <2>3, <3>1, <4>1
    <3>2. CASE \E h \in 1..m : l = n + h
      <4>1. PICK h \in 1..m : l = n + h
        BY Zenon, <3>2
      <4>2. PICK e \in Final(b) : e[1] = b[h][1]
        BY Zenon, <1>4
      <4>3. c[l] = b[h]
        BY Zenon, <1>1, <4>1
      <4> QED
        BY Zenon, <1>8, <2>1, <2>3, <4>2, <4>3
    <3> QED
      BY Zenon, <1>5, <2>2, <3>1, <3>2
  <2> QED
    BY Zenon, <1>2, <1>3, <2>1, <2>3, <2>4
<1> QED
  BY Zenon, <1>6, <1>7, <1>8 DEF c

----------------------------------------------------------------------------
(* Names and keys.                                                          *)

OptionKeys == {<<>>} \cup {<<n>> : n \in Names}

LEMMA LostIs == Lost = Dropped \cup Brackets
<1>1. \A x : x \in Lost <=> x \in Dropped \cup Brackets
  BY Zenon DEF Lost, Dropped, Brackets
<1> QED
  BY Zenon, <1>1

LEMMA NameOne ==
    ASSUME NEW n
    PROVE  <<n>> # <<>> /\ <<n>>[1] = n /\ Len(<<n>>) = 1 /\ DOMAIN <<n>> = 1..1
OBVIOUS

LEMMA KeyFacts ==
    /\ OptionKeys \subseteq CleanKeys /\ <<>> \in OptionKeys
    /\ Name(<<>>) = ""
    /\ \A n \in Names : /\ Key(n) \in OptionKeys /\ Key(n) # <<>>
                        /\ Name(Key(n)) = n /\ n # ""
    /\ \A k \in OptionKeys : k = <<>> \/ (Name(k) \in Names /\ k = Key(Name(k)))
    /\ \A n : Name(Key(n)) = n
<1>1. ASSUME NEW n \in Names PROVE <<n>> \in CleanKeys
  <2> DEFINE C == Char \ (Dropped \cup Brackets)
  <2>1. n \in C
    BY Zenon, LostIs DEF Names
  <2> HIDE DEF C
  <2>2. <<n>> \in Seq(C)
    BY <2>1
  <2> QED
    BY Zenon, <2>2 DEF CleanKeys, C
<1>2. <<>> \in CleanKeys
  <2> DEFINE C == Char \ (Dropped \cup Brackets)
  <2> HIDE DEF C
  <2>1. <<>> \in Seq(C)
    OBVIOUS
  <2> QED
    BY Zenon, <2>1 DEF CleanKeys, C
<1>3. OptionKeys \subseteq CleanKeys /\ <<>> \in OptionKeys
  BY Zenon, <1>1, <1>2 DEF OptionKeys
<1>4. Name(<<>>) = ""
  BY Zenon DEF Name
<1>5. ASSUME NEW n \in Names
      PROVE  Key(n) \in OptionKeys /\ Key(n) # <<>> /\ Name(Key(n)) = n /\ n # ""
  BY Zenon, NameOne DEF OptionKeys, Key, Name, Names
<1>6. ASSUME NEW k \in OptionKeys, k # <<>> PROVE Name(k) \in Names /\ k = Key(Name(k))
  <2>1. PICK n \in Names : k = <<n>>
    BY Zenon, <1>6 DEF OptionKeys
  <2> QED
    BY Zenon, <1>5, <2>1 DEF Key
<1>7. \A n : Name(Key(n)) = n
  BY Zenon, NameOne DEF Key, Name
<1> QED
  BY Zenon, <1>3, <1>4, <1>5, <1>6, <1>7

\* The pairs hold of each option what was given for it last.
Agrees(pairs, given) ==
    \A n \in Names : \A v : <<Key(n), v>> \in Final(pairs) <=> <<n, v>> \in Final(given)

LEMMA ReduceFacts ==
    ASSUME NEW A, NEW given \in Seq(Names \X A)
    PROVE  /\ reduce_options(given) \in Seq(OptionKeys \X A)
           /\ Agrees(reduce_options(given), given)
<1> DEFINE P == [i \in DOMAIN given |-> <<Key(given[i][1]), given[i][2]>>]
           R == OptionKeys \X A
           r == Assigned(P)
<1>1. /\ Len(given) \in Nat /\ DOMAIN given = 1..Len(given)
      /\ \A i \in 1..Len(given) : given[i] \in Names \X A
  <2> DEFINE S == Names \X A
  <2> HIDE DEF S
  <2> QED
    <3>1. given \in Seq(S)
      BY Zenon DEF S
    <3>2. /\ Len(given) \in Nat /\ DOMAIN given = 1..Len(given)
          /\ \A i \in 1..Len(given) : given[i] \in S
      BY Zenon, <3>1, SeqFacts
    <3> QED
      BY Zenon, <3>2 DEF S
<1>2. ASSUME NEW i \in 1..Len(given)
      PROVE  /\ given[i][1] \in Names /\ given[i][2] \in A
             /\ given[i] = <<given[i][1], given[i][2]>>
  <2>1. given[i] \in Names \X A
    BY Zenon, <1>1
  <2> QED
    BY ZenonT(60), <2>1, PairParts
<1>3. \A i \in 1..Len(given) : P[i] = <<Key(given[i][1]), given[i][2]>>
  BY Zenon, <1>1
<1>4. \A i \in 1..Len(given) :
         P[i][1] = Key(given[i][1]) /\ P[i][2] = given[i][2] /\ P[i] \in R
  <2>1. ASSUME NEW i \in 1..Len(given)
        PROVE  P[i][1] = Key(given[i][1]) /\ P[i][2] = given[i][2] /\ P[i] \in R
    <3> DEFINE k == Key(given[i][1])
               v == given[i][2]
               K == OptionKeys
    <3>1. k \in K /\ v \in A /\ P[i] = <<k, v>>
      BY Zenon, <1>2, <1>3, KeyFacts
    <3> HIDE DEF k, v, K, P
    <3>2. <<k, v>>[1] = k /\ <<k, v>>[2] = v /\ <<k, v>> \in K \X A
      BY <3>1
    <3> QED
      BY Zenon, <3>1, <3>2 DEF k, v, K
  <2> QED
    BY Zenon, <2>1
<1>5. P \in Seq(R) /\ Len(P) = Len(given)
  <2>1. P \in [1..Len(given) -> R]
    BY Zenon, <1>1, <1>4
  <2> HIDE DEF P, R
  <2> QED
    BY SMTT(60), <1>1, <2>1
<1>6. \A e \in R : e = <<e[1], e[2]>>
  BY ZenonT(60), PairParts
<1> HIDE DEF R
<1>7. /\ r \in PairSeqs(R) /\ ToSet(r) = Final(P)
  <2> HIDE DEF P
  <2> QED
    BY Zenon, <1>5, <1>6, AssignedFinal
<1>8. r \in Seq(R) /\ Final(r) = Final(P)
  <2> HIDE DEF r
  <2>1. r \in Seq(R) /\ DistinctKeys(r)
    BY Zenon, <1>7 DEF PairSeqs
  <2> QED
    BY Zenon, <1>7, <2>1, FinalDistinct
<1>9. \A j : IsLast(P, j) <=> IsLast(given, j)
  <2>1. \A i, j \in 1..Len(given) : P[i][1] = P[j][1] <=> given[i][1] = given[j][1]
    <3>1. \A m, n \in Names : Key(m) = Key(n) <=> m = n
      BY Zenon, KeyFacts
    <3> HIDE DEF P
    <3>2. ASSUME NEW i \in 1..Len(given), NEW j \in 1..Len(given)
          PROVE  P[i][1] = P[j][1] <=> given[i][1] = given[j][1]
      <4>1. given[i][1] \in Names /\ given[j][1] \in Names
        BY Zenon, <1>2
      <4>2. P[i][1] = Key(given[i][1]) /\ P[j][1] = Key(given[j][1])
        BY Zenon, <1>4
      <4>3. Key(given[i][1]) = Key(given[j][1]) <=> given[i][1] = given[j][1]
        BY Zenon, <3>1, <4>1
      <4> QED
        BY Zenon, <4>2, <4>3
    <3> QED
      BY Zenon, <3>2
  <2>2. \A j \in 1..Len(given) : \A l \in (j + 1)..Len(given) : l \in 1..Len(given)
    BY <1>1
  <2> HIDE DEF P
  <2>3. ASSUME NEW j
        PROVE  IsLast(P, j) <=> j \in 1..Len(given) /\ \A l \in (j + 1)..Len(given) : P[l][1] # P[j][1]
    BY Zenon, <1>5 DEF IsLast
  <2>4. ASSUME NEW j
        PROVE  IsLast(given, j) <=>
                  j \in 1..Len(given) /\ \A l \in (j + 1)..Len(given) : given[l][1] # given[j][1]
    BY Zenon DEF IsLast
  <2>5. ASSUME NEW j PROVE IsLast(P, j) <=> IsLast(given, j)
    <3>1. ASSUME j \in 1..Len(given)
          PROVE  \A l \in (j + 1)..Len(given) :
                    P[l][1] # P[j][1] <=> given[l][1] # given[j][1]
      BY Zenon, <2>1, <2>2, <3>1
    <3> QED
      BY Zenon, <2>3, <2>4, <3>1
  <2> QED
    BY Zenon, <2>5
<1>10. ASSUME NEW n \in Names, NEW v, NEW j \in 1..Len(given)
       PROVE  <<Key(n), v>> = P[j] <=> <<n, v>> = given[j]
  <2> DEFINE a == Key(n)
             b == Key(given[j][1])
             c == given[j][2]
             d == given[j][1]
             g == given[j]
             p == P[j]
  <2>1. p = <<b, c>> /\ g = <<d, c>> /\ (a = b <=> n = d)
    BY Zenon, <1>2, <1>3, KeyFacts
  <2> HIDE DEF a, b, c, d, p, g
  <2>2. <<a, v>> = p <=> <<n, v>> = g
    BY <2>1
  <2> QED
    BY Zenon, <2>2 DEF a, p, g
<1>11. ASSUME NEW n \in Names, NEW v
       PROVE  <<Key(n), v>> \in Final(r) <=> <<n, v>> \in Final(given)
  <2>1. <<Key(n), v>> \in Final(P) <=> \E j : IsLast(P, j) /\ <<Key(n), v>> = P[j]
    BY Zenon, FinalIs
  <2>2. <<n, v>> \in Final(given) <=> \E j : IsLast(given, j) /\ <<n, v>> = given[j]
    BY Zenon, FinalIs
  <2>3. \A j : IsLast(given, j) => j \in 1..Len(given)
    BY Zenon DEF IsLast
  <2> HIDE DEF P
  <2>4. ASSUME NEW j
        PROVE  IsLast(P, j) /\ <<Key(n), v>> = P[j] <=> IsLast(given, j) /\ <<n, v>> = given[j]
    BY Zenon, <1>9, <1>10, <2>3
  <2>5. <<Key(n), v>> \in Final(P) <=> <<n, v>> \in Final(given)
    BY Zenon, <2>1, <2>2, <2>4
  <2> QED
    BY Zenon, <1>8, <2>5
<1> QED
  BY Zenon, <1>8, <1>11 DEF R, reduce_options, Agrees

LEMMA FinalIn ==
    ASSUME NEW R, NEW ps \in Seq(R), NEW e \in Final(ps)
    PROVE  e \in R
<1>1. PICK j : IsLast(ps, j) /\ e = ps[j]
  BY Zenon, FinalIs
<1>2. j \in 1..Len(ps)
  BY Zenon, <1>1 DEF IsLast
<1> QED
  BY Zenon, <1>1, <1>2, SeqFacts

LEMMA ConcatAgrees ==
    ASSUME NEW A, NEW p \in Seq(OptionKeys \X A), NEW q \in Seq(OptionKeys \X A),
           NEW B, NEW g \in Seq(Names \X B), NEW h \in Seq(Names \X B),
           Agrees(p, g), Agrees(q, h)
    PROVE  Agrees(p \o q, g \o h)
<1> SUFFICES ASSUME NEW n \in Names, NEW v
             PROVE  <<Key(n), v>> \in Final(p \o q) <=> <<n, v>> \in Final(g \o h)
  BY Zenon DEF Agrees
<1> DEFINE R == OptionKeys \X A
           S == Names \X B
           k == Key(n)
           x == <<k, v>>
           y == <<n, v>>
<1>1. x[1] = k /\ y[1] = n
  <2> HIDE DEF k
  <2> QED
    OBVIOUS
<1>2. /\ \A e \in Final(q) : e = <<e[1], e[2]>>
      /\ \A e \in Final(h) : e = <<e[1], e[2]>>
  <2>1. \A e \in R : e = <<e[1], e[2]>>
    BY ZenonT(60), PairParts
  <2>2. \A e \in S : e = <<e[1], e[2]>>
    BY ZenonT(60), PairParts
  <2>3. q \in Seq(R) /\ h \in Seq(S)
    OBVIOUS
  <2> HIDE DEF R, S
  <2> QED
    BY Zenon, <2>1, <2>2, <2>3, FinalIn
<1>3. \A u : <<k, u>> \in Final(q) <=> <<n, u>> \in Final(h)
  BY Zenon DEF Agrees
<1>4. x \in Final(p) <=> y \in Final(g)
  BY Zenon DEF Agrees
<1>5. x \in Final(q) <=> y \in Final(h)
  BY Zenon, <1>3
<1>6. (\E e \in Final(q) : e[1] = k) <=> \E u : <<k, u>> \in Final(q)
  <2>1. \A u : <<k, u>>[1] = k
    OBVIOUS
  <2> HIDE DEF k
  <2> QED
    BY ZenonT(60), <1>2, <2>1
<1>7. (\E e \in Final(h) : e[1] = n) <=> \E u : <<n, u>> \in Final(h)
  <2>1. \A u : <<n, u>>[1] = n
    OBVIOUS
  <2> QED
    BY ZenonT(60), <1>2, <2>1
<1>8. (\A e \in Final(q) : e[1] # x[1]) <=> \A e \in Final(h) : e[1] # y[1]
  <2> HIDE DEF k, x, y
  <2> QED
    BY Zenon, <1>1, <1>3, <1>6, <1>7
<1>9. x \in Final(p \o q) <=>
          x \in Final(q) \/ (x \in Final(p) /\ \A e \in Final(q) : e[1] # x[1])
  <2>1. p \in Seq(R) /\ q \in Seq(R)
    OBVIOUS
  <2> HIDE DEF R, x
  <2> QED
    BY Zenon, <2>1, FinalBoth
<1>10. y \in Final(g \o h) <=>
          y \in Final(h) \/ (y \in Final(g) /\ \A e \in Final(h) : e[1] # y[1])
  <2>1. g \in Seq(S) /\ h \in Seq(S)
    OBVIOUS
  <2> HIDE DEF S, y
  <2> QED
    BY Zenon, <2>1, FinalBoth
<1>11. x \in Final(p \o q) <=> y \in Final(g \o h)
  <2> HIDE DEF x, y
  <2> QED
    BY Zenon, <1>4, <1>5, <1>8, <1>9, <1>10
<1> QED
  BY Zenon, <1>11 DEF x, y, k

\* Texts that survive are strings without the characters that are lost.
LEMMA CleanValues ==
    ASSUME NEW given \in Seq(Names \X Atoms), Clean(given)
    PROVE  given \in Seq(Names \X CleanAtoms)
<1> DEFINE S == Names \X Atoms
           T == Names \X CleanAtoms
           n == Len(given)
<1>1. n \in Nat /\ DOMAIN given = 1..n /\ \A i \in 1..n : given[i] \in S
  <2>1. given \in Seq(S)
    OBVIOUS
  <2> HIDE DEF S
  <2> QED
    BY Zenon, <2>1, SeqFacts
<1>2. ASSUME NEW i \in 1..n PROVE given[i] \in T
  <2> DEFINE a == given[i][1]
             v == given[i][2]
  <2>1. a \in Names /\ v \in Atoms /\ given[i] = <<a, v>>
    BY ZenonT(60), <1>1, PairParts
  <2>2. v \in CleanAtoms
    <3>1. CASE v \in NumLits
      BY Zenon, <3>1 DEF CleanAtoms
    <3>2. CASE v \in {"str"} \X Seq(Char)
      <4>1. v[1] = "str" /\ v[2] \in Seq(Char) /\ v = <<v[1], v[2]>>
        <5>1. v[1] \in {"str"} /\ v[2] \in Seq(Char) /\ v = <<v[1], v[2]>>
          <6> DEFINE X == {"str"}
                     Y == Seq(Char)
          <6>1. v \in X \X Y
            BY Zenon, <3>2
          <6> HIDE DEF v, X, Y
          <6>2. v[1] \in X /\ v[2] \in Y /\ v = <<v[1], v[2]>>
            BY ZenonT(60), <6>1, PairParts
          <6> QED
            BY Zenon, <6>2 DEF X, Y
        <5>2. v[1] = "str"
          BY Zenon, <5>1
        <5> QED
          BY Zenon, <5>1, <5>2
      <4>2. \A j \in DOMAIN v[2] : v[2][j] \notin Lost
        BY Zenon, <1>1, <4>1 DEF Clean
      <4> DEFINE C == Char \ (Dropped \cup Brackets)
                 s == v[2]
                 U == Char
      <4>3. s \in Seq(C)
        <5>1. \A j \in DOMAIN s : s[j] \notin Lost
          BY Zenon, <4>2
        <5>2. Len(s) \in Nat /\ DOMAIN s = 1..Len(s) /\ \A j \in 1..Len(s) : s[j] \in U
          <6>1. s \in Seq(U)
            BY Zenon, <4>1
          <6> HIDE DEF s, U
          <6> QED
            BY Zenon, <6>1, SeqFacts
        <5>3. \A j \in 1..Len(s) : s[j] \in C
          BY Zenon, <5>1, <5>2, LostIs
        <5>4. s \in CharTexts
          BY Zenon, <4>1 DEF CharTexts
        <5> HIDE DEF s, C
        <5> QED
          BY Zenon, <5>3, <5>4, Narrow
      <4>4. v \in {"str"} \X Seq(C)
        <5> HIDE DEF C, v
        <5>1. \A w : v = <<"str", w>> /\ w \in Seq(C) => v \in {"str"} \X Seq(C)
          OBVIOUS
        <5> QED
          BY Zenon, <4>1, <4>3, <5>1
      <4> QED
        BY Zenon, <4>4 DEF CleanAtoms, StringsWithout
    <3> QED
      BY Zenon, <2>1, <3>1, <3>2 DEF Atoms
  <2> HIDE DEF a, v
  <2>3. <<a, v>> \in T
    BY <2>1, <2>2
  <2> QED
    BY Zenon, <2>1, <2>3
<1>3. given \in [DOMAIN given -> S]
  <2>1. given \in Seq(S)
    OBVIOUS
  <2> HIDE DEF S
  <2> QED
    BY <2>1
<1>4. given = [i \in 1..n |-> given[i]]
  <2> HIDE DEF S
  <2> QED
    BY <1>1, <1>3
<1>5. given \in Seq(T)
  <2>1. [i \in 1..n |-> given[i]] \in [1..n -> T]
    BY Zenon, <1>2
  <2>2. given \in [1..n -> T]
    BY Zenon, <1>4, <2>1
  <2> HIDE DEF T, n
  <2> QED
    BY <1>1, <2>2
<1> QED
  BY Zenon, <1>5

LEMMA CleanBoth ==
    ASSUME NEW R, NEW a \in Seq(R), NEW b \in Seq(R), Clean(a \o b)
    PROVE  Clean(a) /\ Clean(b)
<1> DEFINE c == a \o b
           n == Len(a)
           m == Len(b)
<1>1. /\ n \in Nat /\ m \in Nat /\ DOMAIN a = 1..n /\ DOMAIN b = 1..m
      /\ DOMAIN c = 1..(n + m)
      /\ \A i \in 1..(n + m) : c[i] = IF i <= n THEN a[i] ELSE b[i - n]
  <2>1. n \in Nat /\ m \in Nat /\ DOMAIN a = 1..n /\ DOMAIN b = 1..m
    BY Zenon, SeqFacts
  <2>2. c \in Seq(R) /\ Len(c) = n + m
        /\ \A i \in 1..(n + m) : c[i] = IF i <= n THEN a[i] ELSE b[i - n]
    BY ConcatProperties
  <2> HIDE DEF c, n, m
  <2>3. DOMAIN c = 1..(n + m)
    BY Zenon, <2>2, SeqFacts
  <2> QED
    BY Zenon, <2>1, <2>2, <2>3
<1> HIDE DEF c, n, m
<1>2. \A i \in 1..n : i \in 1..(n + m) /\ i <= n
  BY <1>1
<1>3. \A i \in 1..m : n + i \in 1..(n + m) /\ ~(n + i <= n) /\ (n + i) - n = i
  BY <1>1
<1>4. \A i \in DOMAIN a : i \in DOMAIN c /\ c[i] = a[i]
  BY Zenon, <1>1, <1>2
<1>5. \A i \in DOMAIN b : n + i \in DOMAIN c /\ c[n + i] = b[i]
  BY Zenon, <1>1, <1>3
<1>6. \A i \in DOMAIN c : c[i][2][1] = "str" =>
          \A j \in DOMAIN c[i][2][2] : c[i][2][2][j] \notin Lost
  BY Zenon DEF Clean, c
<1>7. \A i \in DOMAIN a : a[i][2][1] = "str" =>
          \A j \in DOMAIN a[i][2][2] : a[i][2][2][j] \notin Lost
  BY Zenon, <1>4, <1>6
<1>8. \A i \in DOMAIN b : b[i][2][1] = "str" =>
          \A j \in DOMAIN b[i][2][2] : b[i][2][2][j] \notin Lost
  BY ZenonT(60), <1>5, <1>6
<1> QED
  BY Zenon, <1>7, <1>8 DEF Clean

----------------------------------------------------------------------------
(* What is left of values that are printed.                                 *)

LEMMA RoundedFacts ==
    \A c \in Numbers : Rounded[c] \in Numbers /\ Rounded[Rounded[c]] = Rounded[c]
BY DEF Rounded, Numbers

LEMMA ShownNumber ==
    ASSUME NEW c \in Numbers
    PROVE  /\ Shown(Num(c)) = Num(Rounded[c]) /\ Num(c) \in NumLits
           /\ Shown(Num(c)) \in NumLits /\ Shown(Shown(Num(c))) = Shown(Num(c))
<1>1. \A d : Num(d)[1] = "num" /\ Num(d)[2][1] = d
  BY DEF Num
<1>2. \A d \in Numbers : Num(d) \in {"num"} \X {<<x>> : x \in Numbers}
  BY DEF Num
<1>3. \A d \in Numbers : Num(d) \in NumLits
  BY Zenon, <1>2 DEF NumLits
<1>4. \A d : Shown(Num(d)) = Num(Rounded[d])
  BY Zenon, <1>1 DEF Shown
<1> QED
  BY Zenon, <1>3, <1>4, RoundedFacts

LEMMA ShownFacts ==
    /\ \A v \in Atoms : Shown(v) \in Atoms /\ Shown(Shown(v)) = Shown(v)
    /\ \A v \in CleanAtoms : Shown(v) \in CleanAtoms
    /\ \A v \in Atoms : v[1] = "num" => Shown(v)[1] = "num"
    /\ \A v : v[1] # "num" => Shown(v) = v
<1>1. \A v : v[1] # "num" => Shown(v) = v
  BY Zenon DEF Shown
<1>2. ASSUME NEW v \in Atoms \cup CleanAtoms
      PROVE  v[1] # "num" \/ \E c \in Numbers : v = Num(c)
  <2>1. CASE v \in {"num"} \X {<<c>> : c \in Numbers}
    <3>1. v[1] = "num" /\ v[2] \in {<<c>> : c \in Numbers} /\ v = <<v[1], v[2]>>
      BY <2>1
    <3> QED
      BY Zenon, <3>1 DEF Num
  <2>2. CASE v \in {"lit"} \X {<<c>> : c \in Literals}
    BY <2>2
  <2>3. ASSUME NEW S, v \in {"str"} \X S PROVE v[1] # "num"
    BY <2>3
  <2> QED
    BY Zenon, <2>1, <2>2, <2>3 DEF Atoms, CleanAtoms, NumLits, StringsWithout
<1>3. NumLits \subseteq Atoms /\ NumLits \subseteq CleanAtoms
  BY Zenon DEF Atoms, CleanAtoms
<1>4. ASSUME NEW v \in Atoms PROVE Shown(v) \in Atoms /\ Shown(Shown(v)) = Shown(v)
  BY Zenon, <1>1, <1>2, <1>3, ShownNumber
<1>5. ASSUME NEW v \in CleanAtoms PROVE Shown(v) \in CleanAtoms
  BY Zenon, <1>1, <1>2, <1>3, ShownNumber
<1>6. ASSUME NEW v \in Atoms, v[1] = "num" PROVE Shown(v)[1] = "num"
  <2>1. \A c : Num(c)[1] = "num"
    BY DEF Num
  <2>2. PICK c \in Numbers : v = Num(c)
    BY Zenon, <1>2, <1>6
  <2>3. Shown(v) = Num(Rounded[c])
    BY Zenon, <2>2, ShownNumber
  <2> QED
    BY Zenon, <2>1, <2>3
<1> QED
  BY Zenon, <1>1, <1>4, <1>5, <1>6

ShownPairs(o) == [i \in DOMAIN o |-> <<o[i][1], Shown(o[i][2])>>]

\* Sequences of pairs whose values are kept in A when they are printed.
KeepsShown(A) == \A v \in A : Shown(v) \in A

\* S is o with its values as they are printed.
ShownOf(K, A, o, S) ==
    /\ S \in Seq(K \X A) /\ Len(S) = Len(o)
    /\ Len(o) \in Nat /\ DOMAIN o = 1..Len(o)
    /\ \A i \in 1..Len(o) :
          /\ o[i][1] \in K /\ o[i][2] \in A
          /\ S[i] = <<o[i][1], Shown(o[i][2])>>
          /\ S[i][1] = o[i][1] /\ S[i][2] = Shown(o[i][2])

LEMMA ShownPairsFacts ==
    ASSUME NEW K, NEW A, KeepsShown(A), NEW o \in Seq(K \X A)
    PROVE  ShownOf(K, A, o, ShownPairs(o))
<1> DEFINE R == K \X A
           n == Len(o)
           S == ShownPairs(o)
<1>1. n \in Nat /\ DOMAIN o = 1..n /\ \A i \in 1..n : o[i] \in R
  <2>1. o \in Seq(R)
    OBVIOUS
  <2> HIDE DEF R
  <2> QED
    BY Zenon, <2>1, SeqFacts
<1>2. \A i \in 1..n : o[i][1] \in K /\ o[i][2] \in A
  BY ZenonT(60), <1>1, PairParts
<1>3. S = [i \in 1..n |-> <<o[i][1], Shown(o[i][2])>>]
  BY Zenon, <1>1 DEF ShownPairs
<1> HIDE DEF S
<1>4. \A i \in 1..n : S[i] = <<o[i][1], Shown(o[i][2])>>
  BY Zenon, <1>3
<1>6. \A i \in 1..n : S[i][1] = o[i][1] /\ S[i][2] = Shown(o[i][2])
  <2> HIDE DEF n
  <2> QED
    BY <1>4
<1>7. \A i \in 1..n : Shown(o[i][2]) \in A
  BY Zenon, <1>2 DEF KeepsShown
<1>8. \A i \in 1..n : S[i] \in R
  <2>1. \A x \in K, y \in A : <<x, y>> \in R
    OBVIOUS
  <2> HIDE DEF R
  <2> QED
    BY Zenon, <1>2, <1>4, <1>7, <2>1
<1>9. S \in [1..n -> R]
  <2>1. S = [i \in 1..n |-> S[i]]
    BY Zenon, <1>3, <1>4
  <2> HIDE DEF R, n
  <2> QED
    BY Zenon, <1>8, <2>1
<1> HIDE DEF R, n
<1>10. S \in Seq(R) /\ Len(S) = n
  BY <1>1, <1>9
<1> QED
  BY Zenon, <1>1, <1>2, <1>4, <1>6, <1>10 DEF R, n, S, ShownOf

LEMMA BothKeepShown == KeepsShown(Atoms) /\ KeepsShown(CleanAtoms)
BY Zenon, ShownFacts DEF KeepsShown

\* An object is printed as one of rounded values is without rounding.
LEMMA ReprShown ==
    ASSUME NEW K, NEW o \in Seq(K \X Atoms)
    PROVE  get_repr(Obj(o)) = PlainRepr(Obj(ShownPairs(o)))
<1> DEFINE S == ShownPairs(o)
<1>1. /\ DOMAIN o = 1..Len(o) /\ DOMAIN S = 1..Len(o)
      /\ \A i \in 1..Len(o) :
            o[i][2] \in Atoms /\ S[i][1] = o[i][1] /\ S[i][2] = Shown(o[i][2])
  <2>1. ShownOf(K, Atoms, o, S)
    BY Zenon, BothKeepShown, ShownPairsFacts
  <2>2. DOMAIN S = DOMAIN o
    BY Zenon DEF ShownPairs
  <2> HIDE DEF S
  <2> QED
    BY Zenon, <2>1, <2>2 DEF ShownOf
<1> HIDE DEF S
<1>2. \A x : Obj(x)[1] = "obj" /\ Obj(x)[2] = x
  BY DEF Obj
<1>3. Shown(Obj(o)) = Obj(o)
  <2>1. Obj(o)[1] # "num"
    BY <1>2
  <2> QED
    BY Zenon, <2>1 DEF Shown
<1>4. \A i \in 1..Len(o) : ReprTexts[o[i][2]] = AtomTexts[S[i][2]]
  <2> SUFFICES ASSUME NEW i \in 1..Len(o) PROVE ReprTexts[o[i][2]] = AtomTexts[S[i][2]]
    BY Zenon
  <2>1. ReprTexts[o[i][2]] = AtomText(Shown(o[i][2]))
    BY Zenon, <1>1 DEF ReprTexts
  <2>2. S[i][2] \in Atoms
    BY Zenon, <1>1, ShownFacts
  <2>3. AtomTexts[S[i][2]] = AtomText(S[i][2])
    BY Zenon, <2>2 DEF AtomTexts
  <2> QED
    BY Zenon, <1>1, <2>1, <2>3
<1>5. Printed(Obj(o), ReprTexts, Ws) =
         Bracketed("{", [i \in DOMAIN o |-> PairText(o[i][1], ReprTexts[o[i][2]], Ws)], "}", Ws)
  BY Zenon, <1>2 DEF Printed
<1>6. Printed(Obj(S), AtomTexts, Ws) =
         Bracketed("{", [i \in DOMAIN S |-> PairText(S[i][1], AtomTexts[S[i][2]], Ws)], "}", Ws)
  BY Zenon, <1>2 DEF Printed
<1>7. [i \in DOMAIN o |-> PairText(o[i][1], ReprTexts[o[i][2]], Ws)] =
         [i \in DOMAIN S |-> PairText(S[i][1], AtomTexts[S[i][2]], Ws)]
  BY Zenon, <1>1, <1>4
<1> QED
  BY Zenon, <1>3, <1>5, <1>6, <1>7 DEF get_repr, PlainRepr, Ws, S

\* The last values are rounded like the others.
LastShown(o, k, v) ==
    <<k, v>> \in Final(ShownPairs(o)) <=> \E u : <<k, u>> \in Final(o) /\ v = Shown(u)

LEMMA FinalShown ==
    ASSUME NEW K, NEW A, KeepsShown(A), NEW o \in Seq(K \X A), NEW k, NEW v
    PROVE  LastShown(o, k, v)
<1> DEFINE S == ShownPairs(o)
           n == Len(o)
           R == K \X A
<1>s. ShownOf(K, A, o, S)
  BY Zenon, ShownPairsFacts
<1> HIDE DEF S
<1>1. /\ Len(S) = n /\ n \in Nat
      /\ \A i \in 1..n : S[i] = <<o[i][1], Shown(o[i][2])>> /\ S[i][1] = o[i][1]
  BY Zenon, <1>s DEF ShownOf
<1>p. \A i \in 1..n : o[i] = <<o[i][1], o[i][2]>>
  <2>1. o \in Seq(R)
    OBVIOUS
  <2>2. \A e \in R : e = <<e[1], e[2]>>
    BY ZenonT(60), PairParts
  <2> HIDE DEF R
  <2>3. \A i \in 1..n : o[i] \in R
    BY Zenon, <2>1, SeqFacts
  <2> QED
    BY Zenon, <2>2, <2>3
<1>2. \A j \in 1..n : \A l \in (j + 1)..n : l \in 1..n
  BY <1>1
<1>3. \A j : IsLast(S, j) <=> IsLast(o, j)
  <2> SUFFICES ASSUME NEW j PROVE IsLast(S, j) <=> IsLast(o, j)
    BY Zenon
  <2>1. IsLast(S, j) <=> j \in 1..n /\ \A l \in (j + 1)..n : S[l][1] # S[j][1]
    BY Zenon, <1>1 DEF IsLast
  <2>2. IsLast(o, j) <=> j \in 1..n /\ \A l \in (j + 1)..n : o[l][1] # o[j][1]
    BY Zenon DEF IsLast
  <2>3. ASSUME j \in 1..n
        PROVE  \A l \in (j + 1)..n : S[l][1] # S[j][1] <=> o[l][1] # o[j][1]
    BY Zenon, <1>1, <1>2, <2>3
  <2> QED
    BY Zenon, <2>1, <2>2, <2>3
<1>5. ASSUME NEW j \in 1..n
      PROVE  <<k, v>> = S[j] <=> \E u : <<k, u>> = o[j] /\ v = Shown(u)
  <2> DEFINE a == o[j][1]
             b == o[j][2]
             c == Shown(b)
             x == o[j]
             y == S[j]
  <2>1. x = <<a, b>> /\ y = <<a, c>>
    BY Zenon, <1>1, <1>p
  <2> HIDE DEF a, b, c, x, y
  <2>2. <<k, v>> = y <=> k = a /\ v = c
    BY <2>1
  <2>3. \A u : <<k, u>> = x <=> k = a /\ u = b
    BY <2>1
  <2> QED
    BY Zenon, <2>2, <2>3 DEF c, x, y
<1>6. \A j : IsLast(o, j) => j \in 1..n
  BY Zenon DEF IsLast
<1>7. <<k, v>> \in Final(S) <=> \E j : IsLast(o, j) /\ <<k, v>> = S[j]
  BY Zenon, <1>3, FinalIs
<1>8. \A u : <<k, u>> \in Final(o) <=> \E j : IsLast(o, j) /\ <<k, u>> = o[j]
  BY Zenon, FinalIs
<1> QED
  BY Zenon, <1>5, <1>6, <1>7, <1>8 DEF S, LastShown

LEMMA AgreesShown ==
    ASSUME NEW A, KeepsShown(A), NEW p \in Seq(OptionKeys \X A),
           NEW B, KeepsShown(B), NEW g \in Seq(Names \X B), Agrees(p, g)
    PROVE  Agrees(ShownPairs(p), ShownPairs(g))
<1> SUFFICES ASSUME NEW n \in Names, NEW v
             PROVE  <<Key(n), v>> \in Final(ShownPairs(p)) <=> <<n, v>> \in Final(ShownPairs(g))
  BY Zenon DEF Agrees
<1> DEFINE k == Key(n)
<1> HIDE DEF k
<1>1. LastShown(p, k, v)
  BY Zenon, FinalShown
<1>2. LastShown(g, n, v)
  BY Zenon, FinalShown
<1>3. \A u : <<k, u>> \in Final(p) <=> <<n, u>> \in Final(g)
  BY Zenon DEF Agrees, k
<1> QED
  BY Zenon, <1>1, <1>2, <1>3 DEF k, LastShown

\* The options of a step behind those that were printed before.
LEMMA ShownBoth ==
    ASSUME NEW g \in Seq(Names \X Atoms), NEW h \in Seq(Names \X Atoms)
    PROVE  /\ ShownPairs(g) \o h \in Seq(Names \X Atoms)
           /\ Len(ShownPairs(g) \o h) = Len(g \o h) /\ Len(g \o h) \in Nat
           /\ DOMAIN (g \o h) = 1..Len(g \o h)
           /\ \A i \in 1..Len(g \o h) :
                 /\ (g \o h)[i][2] \in Atoms
                 /\ (ShownPairs(g) \o h)[i][1] = (g \o h)[i][1]
                 /\ \/ (ShownPairs(g) \o h)[i][2] = (g \o h)[i][2]
                    \/ (ShownPairs(g) \o h)[i][2] = Shown((g \o h)[i][2])
           /\ ShownPairs(ShownPairs(g) \o h) = ShownPairs(g \o h)
<1> DEFINE R == Names \X Atoms
           s == ShownPairs(g)
           a == s \o h
           b == g \o h
           n == Len(g)
           m == Len(h)
<1>s. ShownOf(Names, Atoms, g, s)
  BY Zenon, BothKeepShown, ShownPairsFacts
<1>1. /\ s \in Seq(R) /\ Len(s) = n /\ n \in Nat
      /\ \A i \in 1..n : s[i][1] = g[i][1] /\ s[i][2] = Shown(g[i][2])
  <2> HIDE DEF s
  <2> QED
    BY Zenon, <1>s DEF ShownOf
<1>2. g \in Seq(R) /\ h \in Seq(R) /\ m \in Nat
  OBVIOUS
<1> HIDE DEF R, s
<1>3. a \in Seq(R) /\ Len(a) = n + m
      /\ \A i \in 1..(n + m) : a[i] = IF i <= n THEN s[i] ELSE h[i - n]
  <2>1. s \in Seq(R) /\ Len(s) = n
    BY Zenon, <1>1
  <2>2. /\ a \in Seq(R) /\ Len(a) = Len(s) + m
        /\ \A i \in 1..(Len(s) + m) : a[i] = IF i <= Len(s) THEN s[i] ELSE h[i - Len(s)]
    BY <2>1, <1>2, ConcatProperties
  <2> HIDE DEF a, n, m
  <2> QED
    BY Zenon, <2>1, <2>2
<1>4. b \in Seq(R) /\ Len(b) = n + m
      /\ \A i \in 1..(n + m) : b[i] = IF i <= n THEN g[i] ELSE h[i - n]
  BY <1>1, <1>2, ConcatProperties
<1>5. n + m \in Nat /\ \A i \in 1..(n + m) : i <= n => i \in 1..n
  BY <1>1, <1>2
<1> HIDE DEF a, b, n, m
<1>6. DOMAIN b = 1..(n + m) /\ DOMAIN a = 1..(n + m)
  BY Zenon, <1>3, <1>4, SeqFacts
<1>7. \A i \in 1..(n + m) : a[i][2] \in Atoms /\ b[i][2] \in Atoms
  <2>1. \A e \in R : e[2] \in Atoms
    BY Zenon, PairParts DEF R
  <2> QED
    BY Zenon, <1>3, <1>4, <2>1, SeqFacts
<1>8. ASSUME NEW i \in 1..(n + m)
      PROVE  a[i][1] = b[i][1] /\ (a[i][2] = b[i][2] \/ a[i][2] = Shown(b[i][2]))
  <2>1. CASE i <= n
    <3>1. a[i] = s[i] /\ b[i] = g[i] /\ i \in 1..n
      BY Zenon, <1>3, <1>4, <1>5, <2>1
    <3>2. s[i][1] = g[i][1] /\ s[i][2] = Shown(g[i][2])
      BY Zenon, <1>1, <3>1
    <3>3. a[i][1] = b[i][1]
      BY Zenon, <3>1, <3>2
    <3>4. a[i][2] = Shown(b[i][2])
      BY Zenon, <3>1, <3>2
    <3> QED
      BY Zenon, <3>3, <3>4
  <2>2. CASE ~(i <= n)
    BY Zenon, <1>3, <1>4, <2>2
  <2> QED
    BY Zenon, <2>1, <2>2
<1>9. \A i \in 1..(n + m) : <<a[i][1], Shown(a[i][2])>> = <<b[i][1], Shown(b[i][2])>>
  BY Zenon, <1>7, <1>8, ShownFacts
<1>10. ShownPairs(a) = ShownPairs(b)
  BY Zenon, <1>6, <1>9 DEF ShownPairs
<1>11. /\ a \in Seq(R) /\ Len(a) = Len(b) /\ Len(b) \in Nat /\ DOMAIN b = 1..Len(b)
       /\ \A i \in 1..Len(b) : /\ b[i][2] \in Atoms /\ a[i][1] = b[i][1]
                               /\ a[i][2] = b[i][2] \/ a[i][2] = Shown(b[i][2])
  BY Zenon, <1>3, <1>4, <1>5, <1>6, <1>7, <1>8
<1> QED
  BY Zenon, <1>10, <1>11 DEF a, b, s, R

----------------------------------------------------------------------------
(* The step files.                                                          *)

ReadOf(text) == val_object(parse[text])

\* The text of options that, when all survive, are those that were given.
StepFile(text, given) ==
    \E pairs \in Seq(OptionKeys \X Atoms) :
        /\ text = PlainRepr(Obj(pairs))
        /\ Clean(given) => /\ pairs \in Seq(OptionKeys \X CleanAtoms)
                           /\ Agrees(pairs, ShownPairs(given))

LEMMA ValObject ==
    ASSUME NEW o
    PROVE  val_object(Obj(o)) = o
<1>1. Obj(o)[1] = "obj" /\ Obj(o)[2] = o
  BY DEF Obj
<1> QED
  BY Zenon, <1>1 DEF val_object

LEMMA FewerAtoms == CleanAtoms \subseteq Atoms
<1> DEFINE C == Char \ (Dropped \cup Brackets)
           S == Seq(C)
           T == Seq(Char)
<1>1. S \subseteq T
  BY Zenon, Wider
<1> HIDE DEF S, T
<1>2. {"str"} \X S \subseteq {"str"} \X T
  BY <1>1
<1> QED
  BY Zenon, <1>2 DEF CleanAtoms, Atoms, StringsWithout, S, T

LEMMA SameFinal ==
    ASSUME NEW K, NEW A, NEW pairs \in Seq(K \X A)
    PROVE  /\ Assigned(pairs) \in Seq(K \X A) /\ DistinctKeys(Assigned(pairs))
           /\ Final(Assigned(pairs)) = Final(pairs)
<1> DEFINE R == K \X A
           r == Assigned(pairs)
<1>1. \A e \in R : e = <<e[1], e[2]>>
  BY ZenonT(60), PairParts
<1>2. pairs \in Seq(R)
  OBVIOUS
<1> HIDE DEF R
<1>3. r \in PairSeqs(R) /\ ToSet(r) = Final(pairs)
  BY Zenon, <1>1, <1>2, AssignedFinal
<1> HIDE DEF r
<1>4. r \in Seq(R) /\ DistinctKeys(r)
  BY Zenon, <1>3 DEF PairSeqs
<1>5. Final(r) = Final(pairs)
  BY Zenon, <1>3, <1>4, FinalDistinct
<1> QED
  BY Zenon, <1>4, <1>5 DEF r, R

LEMMA NoPairFacts ==
    /\ NoPair \in Seq(OptionKeys \X CleanAtoms)
    /\ \A e \in Final(NoPair) : e[1] = <<>>
<1> DEFINE e == <<<<>>, Num("0")>>
           K == OptionKeys
           A == CleanAtoms
           z == Num("0")
           k == <<>>
<1>1. z \in A
  <2>1. "0" \in Numbers
    BY Zenon DEF Numbers
  <2>2. z \in NumLits
    <3> DEFINE n == "0"
    <3> HIDE DEF n
    <3>1. n \in Numbers => <<"num", <<n>>>> \in {"num"} \X {<<c>> : c \in Numbers}
      OBVIOUS
    <3> QED
      BY Zenon, <2>1, <3>1 DEF NumLits, Num, n
  <2> QED
    BY Zenon, <2>2 DEF CleanAtoms
<1>2. k \in K
  BY Zenon, KeyFacts
<1>3. NoPair = <<<<k, z>>>>
  BY Zenon DEF NoPair
<1> HIDE DEF k, z, K, A
<1>4. <<<<k, z>>>> \in Seq(K \X A)
  BY <1>1, <1>2
<1>5. <<k, z>>[1] = k /\ Len(<<<<k, z>>>>) = 1 /\ \A j \in 1..1 : <<<<k, z>>>>[j] = <<k, z>>
  OBVIOUS
<1>6. \A x \in Final(NoPair) : x = <<k, z>>
  <2>1. Len(NoPair) = 1 /\ \A j \in 1..1 : NoPair[j] = <<k, z>>
    BY Zenon, <1>3, <1>5
  <2>2. ASSUME NEW x \in Final(NoPair) PROVE x = <<k, z>>
    <3>1. PICK j : IsLast(NoPair, j) /\ x = NoPair[j]
      BY Zenon, FinalIs
    <3>2. j \in 1..Len(NoPair)
      BY Zenon, <3>1 DEF IsLast
    <3> QED
      BY Zenon, <2>1, <3>1, <3>2
  <2> QED
    BY Zenon, <2>2
<1> QED
  BY Zenon, <1>3, <1>4, <1>5, <1>6 DEF k, K, A

LEMMA ReadBack ==
    ASSUME NEW text, NEW given, StepFile(text, given)
    PROVE  /\ ReadOf(text) \in Seq(OptionKeys \X Atoms)
           /\ Clean(given) => /\ ReadOf(text) \in Seq(OptionKeys \X CleanAtoms)
                              /\ Agrees(ReadOf(text), ShownPairs(given))
                              /\ DistinctKeys(ReadOf(text))
<1> DEFINE shown == ShownPairs(given)
<1> HIDE DEF shown
<1>1. PICK pairs \in Seq(OptionKeys \X Atoms) :
         /\ text = PlainRepr(Obj(pairs))
         /\ Clean(given) => pairs \in Seq(OptionKeys \X CleanAtoms) /\ Agrees(pairs, shown)
  BY Zenon DEF StepFile, shown
<1>2. \E ps \in Seq(OptionKeys \X Atoms) : parse[PlainRepr(Obj(pairs))] = Obj(Assigned(ps))
  BY Zenon, KeyFacts, StepFileRead
<1>3. PICK ps \in Seq(OptionKeys \X Atoms) : parse[text] = Obj(Assigned(ps))
  BY Zenon, <1>1, <1>2
<1>4. ReadOf(text) = Assigned(ps)
  BY Zenon, <1>3, ValObject DEF ReadOf
<1>5. ReadOf(text) \in Seq(OptionKeys \X Atoms)
  <2>1. Assigned(ps) \in Seq(OptionKeys \X Atoms)
    BY Zenon, SameFinal
  <2> QED
    BY Zenon, <1>4, <2>1
<1>6. ASSUME Clean(given)
      PROVE  /\ ReadOf(text) \in Seq(OptionKeys \X CleanAtoms)
             /\ Agrees(ReadOf(text), shown)
             /\ DistinctKeys(ReadOf(text))
  <2>1. pairs \in Seq(OptionKeys \X CleanAtoms) /\ Agrees(pairs, shown)
    BY Zenon, <1>1, <1>6
  <2>2. CASE pairs # <<>>
    <3> DEFINE R == OptionKeys \X CleanAtoms
               S == CleanKeys \X CleanAtoms
               K == CleanKeys
               A == CleanAtoms
               L == OptionKeys
    <3>1. pairs \in Seq(S)
      <4>1. L \subseteq K
        BY Zenon, KeyFacts
      <4> HIDE DEF L, K, A
      <4>2. L \X A \subseteq K \X A
        BY <4>1
      <4> QED
        BY Zenon, <2>1, <4>2, Wider DEF L, K, A
    <3>2. parse[text] = Obj(Assigned(pairs))
      BY Zenon, <1>1, <2>2, <3>1, CleanFileRead
    <3>3. ReadOf(text) = Assigned(pairs)
      BY Zenon, <3>2, ValObject DEF ReadOf
    <3>4. /\ Assigned(pairs) \in Seq(OptionKeys \X CleanAtoms) /\ DistinctKeys(Assigned(pairs))
          /\ Final(Assigned(pairs)) = Final(pairs)
      BY Zenon, <2>1, SameFinal
    <3> QED
      BY Zenon, <2>1, <3>3, <3>4 DEF Agrees
  <2>3. CASE pairs = <<>>
    <3>1. parse[text] = Obj(Assigned(NoPair))
      BY Zenon, <1>1, <2>3, EmptyRead
    <3>2. ReadOf(text) = Assigned(NoPair)
      BY Zenon, <3>1, ValObject DEF ReadOf
    <3>3. /\ Assigned(NoPair) \in Seq(OptionKeys \X CleanAtoms)
          /\ DistinctKeys(Assigned(NoPair))
          /\ Final(Assigned(NoPair)) = Final(NoPair)
      BY Zenon, NoPairFacts, SameFinal
    <3>4. ASSUME NEW n \in Names, NEW v
          PROVE  <<Key(n), v>> \notin Final(NoPair) /\ <<n, v>> \notin Final(shown)
      <4>1. <<Key(n), v>>[1] = Key(n)
        OBVIOUS
      <4>2. <<Key(n), v>> \notin Final(NoPair)
        BY Zenon, <4>1, KeyFacts, NoPairFacts
      <4>3. Final(pairs) = {}
        <5>1. \A j : j \notin 1..Len(pairs)
          BY <2>3
        <5>2. \A x : x \notin Final(pairs)
          BY Zenon, <5>1, FinalIs DEF IsLast
        <5> QED
          BY Zenon, <5>2
      <4>4. <<n, v>> \notin Final(shown)
        BY Zenon, <2>1, <4>3 DEF Agrees
      <4> QED
        BY Zenon, <4>2, <4>4
    <3>5. Agrees(Assigned(NoPair), shown)
      BY Zenon, <3>3, <3>4 DEF Agrees
    <3> QED
      BY Zenon, <3>2, <3>3, <3>5
  <2> QED
    BY Zenon, <2>2, <2>3
<1> QED
  BY Zenon, <1>5, <1>6 DEF shown

\* A file of these options, with those of the next step behind them.
LEMMA NextFile ==
    ASSUME NEW g \in Seq(Names \X Atoms), NEW h \in Seq(Names \X Atoms),
           NEW text, StepFile(text, g)
    PROVE  /\ ReadOf(text) \o reduce_options(h) \in Seq(OptionKeys \X Atoms)
           /\ Clean(g \o h) =>
                 /\ ReadOf(text) \o reduce_options(h) \in Seq(OptionKeys \X CleanAtoms)
                 /\ Agrees(ReadOf(text) \o reduce_options(h), ShownPairs(g) \o h)
<1> DEFINE p == ReadOf(text)
           q == reduce_options(h)
           R == OptionKeys \X Atoms
           T == OptionKeys \X CleanAtoms
           S == Names \X Atoms
           s == ShownPairs(g)
<1>1. p \in Seq(R) /\ q \in Seq(R)
  BY Zenon, ReadBack, ReduceFacts
<1>2. p \o q \in Seq(R)
  <2> HIDE DEF p, q, R
  <2> QED
    BY <1>1
<1>3. ASSUME Clean(g \o h) PROVE p \o q \in Seq(T) /\ Agrees(p \o q, s \o h)
  <2>1. Clean(g) /\ Clean(h)
    <3> HIDE DEF S
    <3>1. g \in Seq(S) /\ h \in Seq(S)
      BY Zenon DEF S
    <3> QED
      BY Zenon, <1>3, <3>1, CleanBoth
  <2>2. s \in Seq(Names \X CleanAtoms) /\ h \in Seq(Names \X CleanAtoms)
    <3>1. g \in Seq(Names \X CleanAtoms) /\ h \in Seq(Names \X CleanAtoms)
      BY Zenon, <2>1, CleanValues
    <3>2. ShownOf(Names, CleanAtoms, g, s)
      BY Zenon, <3>1, BothKeepShown, ShownPairsFacts
    <3> HIDE DEF s
    <3> QED
      BY Zenon, <3>1, <3>2 DEF ShownOf
  <2>3. p \in Seq(T) /\ Agrees(p, s)
    BY Zenon, <2>1, ReadBack
  <2>4. q \in Seq(T) /\ Agrees(q, h)
    BY Zenon, <2>2, ReduceFacts
  <2>5. p \o q \in Seq(T)
    <3> HIDE DEF p, q, T
    <3> QED
      BY <2>3, <2>4
  <2>6. Agrees(p \o q, s \o h)
    <3> HIDE DEF p, q, s
    <3> QED
      BY Zenon, <2>2, <2>3, <2>4, ConcatAgrees
  <2> QED
    BY Zenon, <2>5, <2>6
<1> QED
  BY Zenon, <1>2, <1>3

\* Printing pairs that agree with what is given makes a step file of it.
LEMMA PrintedFile ==
    ASSUME NEW pairs \in Seq(OptionKeys \X Atoms), NEW given, NEW e \in Seq(Names \X Atoms),
           ShownPairs(e) = ShownPairs(given),
           Clean(given) => /\ pairs \in Seq(OptionKeys \X CleanAtoms) /\ Agrees(pairs, e)
    PROVE  StepFile(get_repr(Obj(pairs)), given)
<1> DEFINE P == ShownPairs(pairs)
<1>1. get_repr(Obj(pairs)) = PlainRepr(Obj(P))
  BY Zenon, ReprShown
<1>2. ShownOf(OptionKeys, Atoms, pairs, P)
  BY Zenon, BothKeepShown, ShownPairsFacts
<1>3. ASSUME Clean(given)
      PROVE  P \in Seq(OptionKeys \X CleanAtoms) /\ Agrees(P, ShownPairs(given))
  <2>1. pairs \in Seq(OptionKeys \X CleanAtoms) /\ Agrees(pairs, e)
    BY Zenon, <1>3
  <2>2. ShownOf(OptionKeys, CleanAtoms, pairs, P)
    BY Zenon, <2>1, BothKeepShown, ShownPairsFacts
  <2>3. Agrees(P, ShownPairs(e))
    BY Zenon, <2>1, BothKeepShown, AgreesShown
  <2> HIDE DEF P
  <2>4. P \in Seq(OptionKeys \X CleanAtoms)
    BY Zenon, <2>2 DEF ShownOf
  <2> QED
    BY Zenon, <2>3, <2>4
<1> HIDE DEF P
<1>4. P \in Seq(OptionKeys \X Atoms)
  BY Zenon, <1>2 DEF ShownOf
<1> QED
  BY Zenon, <1>1, <1>3, <1>4 DEF StepFile

LEMMA FirstFile ==
    ASSUME NEW given \in Seq(Names \X Atoms)
    PROVE  StepFile(get_repr(Obj(reduce_options(given))), given)
<1>1. reduce_options(given) \in Seq(OptionKeys \X Atoms)
  BY Zenon, ReduceFacts
<1>2. ASSUME Clean(given)
      PROVE  /\ reduce_options(given) \in Seq(OptionKeys \X CleanAtoms)
             /\ Agrees(reduce_options(given), given)
  <2>1. given \in Seq(Names \X CleanAtoms)
    BY Zenon, <1>2, CleanValues
  <2> QED
    BY Zenon, <2>1, ReduceFacts
<1> QED
  BY Zenon, <1>1, <1>2, PrintedFile

LEMMA MergedFile ==
    ASSUME NEW g \in Seq(Names \X Atoms), NEW h \in Seq(Names \X Atoms),
           NEW text, StepFile(text, g)
    PROVE  StepFile(get_repr(Obj(ReadOf(text) \o reduce_options(h))), g \o h)
<1> DEFINE pairs == ReadOf(text) \o reduce_options(h)
           e == ShownPairs(g) \o h
           given == g \o h
<1>1. /\ pairs \in Seq(OptionKeys \X Atoms)
      /\ Clean(given) => pairs \in Seq(OptionKeys \X CleanAtoms) /\ Agrees(pairs, e)
  BY Zenon, NextFile
<1>2. e \in Seq(Names \X Atoms) /\ ShownPairs(e) = ShownPairs(given)
  BY Zenon, ShownBoth
<1> HIDE DEF pairs, e, given
<1>3. StepFile(get_repr(Obj(pairs)), given)
  BY Zenon, <1>1, <1>2, PrintedFile
<1> QED
  BY Zenon, <1>3 DEF pairs, given

LEMMA FileShape ==
    ASSUME NEW text, NEW given, StepFile(text, given)
    PROVE  text \in CharTexts /\ Head(text) = "{" /\ Last(text) = "}"
<1>1. PICK pairs \in Seq(OptionKeys \X Atoms) : text = PlainRepr(Obj(pairs))
  BY Zenon DEF StepFile
<1> DEFINE V == AtomTextsOf(pairs)
           T == PairTexts(pairs, V, Ws)
           L == OptionKeys
           K == CleanKeys
           A == Atoms
<1>2. pairs \in Seq(CleanKeys \X Atoms)
  <2>1. L \subseteq K
    BY Zenon, KeyFacts
  <2> HIDE DEF L, K, A
  <2>2. L \X A \subseteq K \X A
    BY <2>1
  <2> QED
    BY Zenon, <2>2, Wider DEF L, K, A
<1>3. /\ V \in Seq(CharTexts) /\ Len(V) = Len(pairs)
      /\ PlainRepr(Obj(pairs)) = ObjectText(T, Ws)
  <2>1. Atoms \subseteq Atoms
    BY Zenon
  <2> QED
    BY Zenon, <1>2, <2>1, ReprText
<1>4. Ws \in Pads
  BY Zenon DEF Ws, Pads
<1>5. T \in Seq(CharTexts)
  <2> HIDE DEF V
  <2>1. PairTextsOf(pairs, V, Ws, T, Atoms)
    BY Zenon, <1>2, <1>3, <1>4, PairTextsFacts
  <2> QED
    BY Zenon, <2>1 DEF PairTextsOf
<1> HIDE DEF T
<1> DEFINE s == ObjectText(T, Ws)
<1>6. s \in CharTexts /\ s[1] = "{" /\ s[Len(s)] = "}" /\ text = s
  BY Zenon, <1>1, <1>3, <1>4, <1>5, ObjectTextShape
<1>7. \A t : Head(t) = t[1]
  BY DEF Head
<1> HIDE DEF s
<1> QED
  BY Zenon, <1>6, <1>7 DEF Last

\* The latest values are the last ones.
LEMMA LatestFacts ==
    ASSUME NEW B, NEW given \in Seq(Names \X B)
    PROVE  /\ \A n : n \in DOMAIN Latest(given) <=> \E v : <<n, v>> \in Final(given)
           /\ \A n, v : <<n, v>> \in Final(given) => n \in Names /\ Latest(given)[n] = v
<1> DEFINE z == Len(given)
           S == Names \X B
<1>1. z \in Nat /\ DOMAIN given = 1..z /\ \A i \in 1..z : given[i] \in S
  <2>1. given \in Seq(S)
    OBVIOUS
  <2> HIDE DEF S
  <2> QED
    BY Zenon, <2>1, SeqFacts
<1>2. \A i \in 1..z : given[i][1] \in Names /\ given[i] = <<given[i][1], given[i][2]>>
  BY ZenonT(60), <1>1, PairParts
<1>3. \A n, v : <<n, v>>[1] = n /\ <<n, v>>[2] = v
  OBVIOUS
<1>4. ASSUME NEW n, NEW v, <<n, v>> \in Final(given)
      PROVE  n \in Names /\ n \in DOMAIN Latest(given) /\ Latest(given)[n] = v
  <2> DEFINE T == {i \in DOMAIN given : given[i][1] = n}
             m == Max(T)
  <2>1. PICK j : IsLast(given, j) /\ <<n, v>> = given[j]
    BY Zenon, <1>4, FinalIs
  <2>2. j \in 1..z /\ \A l \in (j + 1)..z : given[l][1] # given[j][1]
    BY Zenon, <2>1 DEF IsLast
  <2>3. given[j][1] = n /\ given[j][2] = v
    <3>1. <<n, v>>[1] = n /\ <<n, v>>[2] = v
      BY Zenon, <1>3
    <3>2. given[j] = <<n, v>>
      BY Zenon, <2>1
    <3> QED
      BY Zenon, <3>1, <3>2
  <2>4. j \in T
    BY Zenon, <1>1, <2>2, <2>3
  <2>5. m \in T /\ \A y \in T : y <= m
    <3>1. 1..z \subseteq 0..z
      BY <1>1
    <3>2. T \subseteq 0..z /\ T # {}
      BY Zenon, <1>1, <2>4, <3>1
    <3> HIDE DEF T
    <3> QED
      BY Zenon, <1>1, <3>2, Greatest
  <2>6. m = j
    <3>1. m \in 1..z /\ given[m][1] = n /\ j <= m
      <4> HIDE DEF m
      <4> QED
        BY Zenon, <1>1, <2>4, <2>5
    <3>2. m \notin (j + 1)..z
      <4> HIDE DEF m
      <4> QED
        BY Zenon, <2>2, <2>3, <3>1
    <3> HIDE DEF m, T
    <3> QED
      BY <1>1, <2>2, <3>1, <3>2
  <2>7. n \in {given[i][1] : i \in DOMAIN given}
    BY Zenon, <1>1, <2>2, <2>3
  <2>8. Latest(given)[n] = given[m][2]
    BY Zenon, <2>7 DEF Latest
  <2>9. n \in DOMAIN Latest(given)
    BY Zenon, <2>7 DEF Latest
  <2>10. n \in Names
    BY Zenon, <1>2, <2>2, <2>3
  <2> HIDE DEF m
  <2> QED
    BY Zenon, <2>3, <2>6, <2>8, <2>9, <2>10
<1>5. ASSUME NEW n \in DOMAIN Latest(given) PROVE \E v : <<n, v>> \in Final(given)
  <2>1. n \in {given[i][1] : i \in DOMAIN given}
    BY Zenon DEF Latest
  <2>2. PICK i \in 1..z : n = given[i][1]
    BY Zenon, <1>1, <2>1
  <2>3. PICK e \in Final(given) : e[1] = given[i][1]
    <3>1. given \in Seq(S)
      OBVIOUS
    <3> HIDE DEF S
    <3> QED
      BY Zenon, <3>1, FinalKeys
  <2>4. e = <<e[1], e[2]>>
    <3>1. e \in S
      <4>1. given \in Seq(S)
        OBVIOUS
      <4> HIDE DEF S
      <4> QED
        BY Zenon, <4>1, FinalIn
    <3> QED
      BY ZenonT(60), <3>1, PairParts
  <2>5. e = <<n, e[2]>>
    BY Zenon, <2>2, <2>3, <2>4
  <2> QED
    BY Zenon, <2>3, <2>5
<1> QED
  BY Zenon, <1>4, <1>5

\* What a step file without lost characters is read as.
HoldsLatest(text, given) ==
    LET read == val_object(parse[text])
        named == {j \in DOMAIN read : Name(read[j][1]) # ""}
        latest == Latest(given)
    IN  /\ {Name(read[j][1]) : j \in named} = DOMAIN latest
        /\ \A j \in named : read[j][2] = Shown(latest[Name(read[j][1])])

LEMMA ReadLatest ==
    ASSUME NEW given \in Seq(Names \X Atoms), NEW text, StepFile(text, given), Clean(given)
    PROVE  HoldsLatest(text, given)
<1> DEFINE read == ReadOf(text)
           named == {j \in DOMAIN read : Name(read[j][1]) # ""}
           latest == Latest(given)
           R == OptionKeys \X CleanAtoms
           shown == ShownPairs(given)
<1>0. \A n, v : LastShown(given, n, v)
  BY Zenon, BothKeepShown, FinalShown
<1> HIDE DEF shown
<1>1. read \in Seq(R) /\ Agrees(read, shown) /\ DistinctKeys(read)
  BY Zenon, ReadBack DEF shown
<1>2. DOMAIN read = 1..Len(read) /\ \A j \in 1..Len(read) : read[j] \in R
  <2> HIDE DEF read, R
  <2> QED
    BY Zenon, <1>1, SeqFacts
<1>3. Final(read) = ToSet(read)
  <2> HIDE DEF read, R
  <2> QED
    BY Zenon, <1>1, FinalDistinct
<1> HIDE DEF read
<1>4. \A j \in 1..Len(read) : /\ read[j][1] \in OptionKeys
                              /\ read[j] = <<read[j][1], read[j][2]>>
  BY ZenonT(60), <1>2, PairParts
<1>5. ASSUME NEW j \in named
      PROVE  /\ Name(read[j][1]) \in DOMAIN latest
             /\ read[j][2] = Shown(latest[Name(read[j][1])])
  <2> DEFINE n == Name(read[j][1])
             v == read[j][2]
  <2>1. j \in 1..Len(read) /\ n # ""
    BY Zenon, <1>2
  <2>2. n \in Names /\ read[j][1] = Key(n)
    BY Zenon, <1>4, <2>1, KeyFacts
  <2>3. read[j] = <<Key(n), v>>
    BY Zenon, <1>4, <2>1, <2>2
  <2>4. read[j] \in Final(read)
    BY Zenon, <1>2, <1>3, <2>1 DEF ToSet
  <2>5. PICK u : <<n, u>> \in Final(given) /\ v = Shown(u)
    <3> HIDE DEF n, v
    <3>1. <<n, v>> \in Final(shown)
      BY Zenon, <1>1, <2>2, <2>3, <2>4 DEF Agrees
    <3> QED
      BY Zenon, <1>0, <3>1 DEF LastShown, shown
  <2>6. n \in DOMAIN latest /\ latest[n] = u /\ v = Shown(u)
    <3> HIDE DEF n, v
    <3> QED
      BY Zenon, <2>5, LatestFacts
  <2> QED
    BY Zenon, <2>6
<1>6. ASSUME NEW n \in DOMAIN latest PROVE \E j \in named : n = Name(read[j][1])
  <2>1. PICK v : <<n, v>> \in Final(given)
    BY Zenon, LatestFacts
  <2>2. n \in Names
    BY Zenon, <2>1, LatestFacts
  <2> DEFINE u == Shown(v)
  <2>3. <<Key(n), u>> \in Final(read)
    <3>1. <<n, u>> \in Final(shown)
      BY Zenon, <1>0, <2>1 DEF LastShown, shown
    <3> HIDE DEF u
    <3> QED
      BY Zenon, <1>1, <2>2, <3>1 DEF Agrees
  <2> HIDE DEF u
  <2>4. PICK j \in DOMAIN read : read[j] = <<Key(n), u>>
    BY Zenon, <1>3, <2>3 DEF ToSet
  <2>5. <<Key(n), u>>[1] = Key(n)
    OBVIOUS
  <2>6. Name(read[j][1]) = n /\ n # ""
    BY Zenon, <2>2, <2>4, <2>5, KeyFacts
  <2> QED
    BY Zenon, <2>6
<1>7. {Name(read[j][1]) : j \in named} = DOMAIN latest
  <2>1. \A x : x \in {Name(read[j][1]) : j \in named} <=> x \in DOMAIN latest
    <3> HIDE DEF named, latest
    <3> QED
      BY Zenon, <1>5, <1>6
  <2> QED
    BY Zenon, <2>1
<1> QED
  BY Zenon, <1>5, <1>7 DEF read, ReadOf, HoldsLatest

----------------------------------------------------------------------------
(* The options that writeItem is called with.                               *)

Overrides(w, pairs, m) ==
    m[0] = w /\ \A i \in 1..Len(pairs) : m[i] = OverrideStep(m[i - 1], pairs[i])

LEMMA OverrideSteps ==
    ASSUME NEW w, NEW pairs, Len(pairs) \in Nat
    PROVE  Overrides(w, pairs, OverrideLoop(w, pairs))
<1> DEFINE z == Len(pairs)
           Sol(n, st) ==
              st = [i \in 0..n |-> IF i = 0 THEN w ELSE OverrideStep(st[i - 1], pairs[i])]
           S == {n \in 0..z : \E st : Sol(n, st)}
<1>z. z \in Nat
  OBVIOUS
<1>4. OverrideLoop(w, pairs) = CHOOSE st : Sol(z, st)
  BY Zenon DEF OverrideLoop
<1> HIDE DEF z
<1>1. 0 \in S
  <2> DEFINE f == [i \in 0..0 |-> w]
  <2>1. \A i \in 0..0 : i = 0
    OBVIOUS
  <2>2. f = [i \in 0..0 |-> IF i = 0 THEN w ELSE OverrideStep(f[i - 1], pairs[i])]
    BY Zenon, <2>1
  <2>3. 0 \in 0..z
    BY <1>z
  <2> HIDE DEF f
  <2> QED
    BY Zenon, <2>2, <2>3
<1>2. ASSUME NEW n \in 0..z, n \in S, n < z PROVE n + 1 \in S
  <2>1. PICK st : Sol(n, st)
    BY Zenon, <1>2
  <2> DEFINE m == n + 1
             f == [i \in 0..m |-> IF i = m THEN OverrideStep(st[n], pairs[m]) ELSE st[i]]
  <2>2. /\ m \in 0..z /\ m # 0 /\ m - 1 = n /\ n \in 0..m /\ n # m
        /\ \A i \in 0..m : i = m \/ i \in 0..n
        /\ \A i \in 0..n : i = 0 \/ i - 1 \in 0..n
        /\ \A i \in 0..n : i # m /\ i \in 0..m
    BY <1>2, <1>z
  <2> HIDE DEF m
  <2>3. ASSUME NEW i \in 0..m
        PROVE  f[i] = IF i = 0 THEN w ELSE OverrideStep(f[i - 1], pairs[i])
    <3>1. CASE i = m
      <4>1. f[i] = OverrideStep(st[n], pairs[m])
        BY Zenon, <3>1
      <4>2. f[n] = st[n]
        BY Zenon, <2>2
      <4>3. i # 0 /\ f[i - 1] = f[n]
        BY Zenon, <2>2, <3>1
      <4> QED
        BY Zenon, <3>1, <4>1, <4>2, <4>3
    <3>2. CASE i \in 0..n
      <4>1. f[i] = st[i]
        BY Zenon, <2>2, <3>2
      <4>2. st[i] = IF i = 0 THEN w ELSE OverrideStep(st[i - 1], pairs[i])
        BY Zenon, <2>1, <3>2
      <4>3. i = 0 \/ f[i - 1] = st[i - 1]
        BY Zenon, <2>2, <3>2
      <4> QED
        BY Zenon, <4>1, <4>2, <4>3
    <3> QED
      BY Zenon, <2>2, <3>1, <3>2
  <2>4. f = [i \in 0..m |-> f[i]]
    BY Zenon
  <2> HIDE DEF f
  <2>5. Sol(m, f)
    BY Zenon, <2>3, <2>4
  <2> QED
    BY Zenon, <2>2, <2>5 DEF m
<1>3. \E st : Sol(z, st)
  <2>1. \A n \in 0..z : n \in S /\ n < z => n + 1 \in S
    BY Zenon, <1>2
  <2>2. 0 \in Nat /\ z \in 0..z
    BY <1>z
  <2>3. 0..z \subseteq S
    <3> HIDE DEF S
    <3> QED
      BY Zenon, <1>1, <1>z, <2>1, <2>2, Ascend
  <2> QED
    BY Zenon, <2>2, <2>3
<1>5. Sol(z, OverrideLoop(w, pairs))
  <2> HIDE DEF Sol
  <2> QED
    BY Zenon, <1>3, <1>4
<1> DEFINE m == OverrideLoop(w, pairs)
<1>6. /\ 0 \in 0..z
      /\ \A i \in 1..z : i \in 0..z /\ i # 0
  BY <1>z
<1>7. m[0] = w /\ \A i \in 1..z : m[i] = OverrideStep(m[i - 1], pairs[i])
  <2>1. m = [i \in 0..z |-> IF i = 0 THEN w ELSE OverrideStep(m[i - 1], pairs[i])]
    BY Zenon, <1>5
  <2> HIDE DEF m
  <2>2. \A i \in 0..z : m[i] = IF i = 0 THEN w ELSE OverrideStep(m[i - 1], pairs[i])
    <3> DEFINE g(i) == IF i = 0 THEN w ELSE OverrideStep(m[i - 1], pairs[i])
    <3> HIDE DEF g
    <3>1. m = [i \in 0..z |-> g(i)] => \A i \in 0..z : m[i] = g(i)
      BY Zenon
    <3> QED
      BY Zenon, <2>1, <3>1 DEF g
  <2> QED
    BY Zenon, <1>6, <2>2
<1> QED
  BY Zenon, <1>7 DEF z, Overrides

Unnamed == ""

\* Of each option the last value is taken, and without one its own is kept.
LastTaken(pairs, w, o, n) ==
    /\ \A v : <<Key(n), v>> \in Final(pairs) => o[n] = v
    /\ (\A v : <<Key(n), v>> \notin Final(pairs)) => o[n] = w[n]

LEMMA OverrideIs ==
    ASSUME NEW A, NEW pairs \in Seq(OptionKeys \X A), NEW w, NEW n \in DOMAIN w, n # Unnamed
    PROVE  LastTaken(pairs, w, Override(w, pairs), n)
<1> DEFINE R == OptionKeys \X A
           z == Len(pairs)
           k == Key(n)
           m == OverrideLoop(w, pairs)
           Is(i) == /\ n \in DOMAIN m[i]
                    /\ \A v : <<k, v>> \in FinalTo(pairs, i) => m[i][n] = v
                    /\ (\A v : <<k, v>> \notin FinalTo(pairs, i)) => m[i][n] = w[n]
           S == {i \in 0..z : Is(i)}
<1>1. z \in Nat /\ \A i \in 1..z : pairs[i] \in R
  <2>1. pairs \in Seq(R)
    OBVIOUS
  <2> HIDE DEF R
  <2> QED
    BY Zenon, <2>1, SeqFacts
<1>2. m[0] = w /\ \A i \in 1..z : m[i] = OverrideStep(m[i - 1], pairs[i])
  <2>1. Len(pairs) \in Nat
    BY Zenon, <1>1
  <2>2. Overrides(w, pairs, OverrideLoop(w, pairs))
    BY Zenon, <2>1, OverrideSteps
  <2> QED
    BY Zenon, <2>2 DEF Overrides
<1>3. \A v : <<k, v>>[1] = k /\ <<k, v>>[2] = v
  <2> HIDE DEF k
  <2> QED
    OBVIOUS
<1> HIDE DEF z, m
<1>4. 0 \in S
  <2>1. 0 \in 0..z
    BY <1>1
  <2>2. \A v : <<k, v>> \notin FinalTo(pairs, 0)
    <3>1. FinalTo(pairs, 0) = {}
      <4>1. 0 \in Nat
        OBVIOUS
      <4> QED
        BY Zenon, <4>1, FinalNext
    <3> QED
      BY Zenon, <3>1
  <2>3. Is(0)
    BY Zenon, <1>2, <2>2
  <2> QED
    BY Zenon, <2>1, <2>3
<1>5. ASSUME NEW i \in 0..z, i \in S, i < z PROVE i + 1 \in S
  <2> DEFINE p == pairs[i + 1]
             x == p[1]
             u == p[2]
  <2>1. i \in Nat /\ i + 1 \in 0..z /\ i + 1 \in 1..z /\ (i + 1) - 1 = i
    BY <1>1, <1>5
  <2>2. x \in OptionKeys /\ p = <<x, u>>
    <3>1. p \in OptionKeys \X A
      BY Zenon, <1>1, <2>1
    <3> HIDE DEF p
    <3> QED
      BY ZenonT(60), <3>1, PairParts
  <2>3. FinalTo(pairs, i + 1) = {e \in FinalTo(pairs, i) : e[1] # x} \cup {p}
    BY Zenon, <2>1, FinalNext
  <2>4. m[i + 1] = [name \in DOMAIN m[i] \cup {Name(x)} |->
                       IF name = Name(x) THEN u ELSE m[i][name]]
    BY Zenon, <1>2, <2>1 DEF OverrideStep
  <2>5. Is(i)
    BY Zenon, <1>5
  <2> DEFINE F == FinalTo(pairs, i)
             G == FinalTo(pairs, i + 1)
             a == m[i]
             b == m[i + 1]
  <2>6. n \in DOMAIN b
    <3>1. n \in DOMAIN a \cup {Name(x)}
      BY Zenon, <2>5
    <3> HIDE DEF x, u
    <3> QED
      BY Zenon, <2>4, <3>1
  <2>7. CASE x = k
    <3>1. Name(x) = n
      BY Zenon, <2>7, KeyFacts
    <3>2. b[n] = u
      <4> HIDE DEF x, u
      <4> QED
        BY Zenon, <2>4, <3>1
    <3>3. \A v : <<k, v>> \in G => v = u
      <4>1. ASSUME NEW v, <<k, v>> \in G PROVE v = u
        <5>1. <<k, v>> = p
          <6> HIDE DEF k, p, x
          <6> QED
            BY Zenon, <1>3, <2>3, <2>7, <4>1
        <5> HIDE DEF p
        <5> QED
          BY Zenon, <1>3, <5>1
      <4> QED
        BY Zenon, <4>1
    <3>4. <<k, u>> \in G
      <4>1. p = <<k, u>>
        BY Zenon, <2>2, <2>7
      <4> HIDE DEF k, p, x, u
      <4> QED
        BY Zenon, <2>3, <4>1
    <3> HIDE DEF u, p, x, k
    <3> QED
      BY Zenon, <2>1, <2>6, <3>2, <3>3, <3>4
  <2>8. CASE x # k
    <3>1. Name(x) # n
      <4> HIDE DEF x
      <4>1. x = <<>> \/ x = Key(Name(x))
        BY Zenon, <2>2, KeyFacts
      <4> QED
        BY Zenon, <2>8, <4>1, KeyFacts DEF Unnamed
    <3>2. b[n] = a[n]
      <4>1. n \in DOMAIN a \cup {Name(x)}
        BY Zenon, <2>5
      <4> HIDE DEF x, u
      <4> QED
        BY Zenon, <2>4, <3>1, <4>1
    <3>3. \A v : <<k, v>> \in G <=> <<k, v>> \in F
      <4>1. ASSUME NEW v PROVE <<k, v>> \in G <=> <<k, v>> \in F
        <5>1. <<k, v>>[1] = k
          BY Zenon, <1>3
        <5>2. <<k, v>> # p
          <6> HIDE DEF k, p
          <6> QED
            BY Zenon, <2>8, <5>1
        <5> HIDE DEF k, p, x
        <5> QED
          BY Zenon, <2>3, <2>8, <5>1, <5>2
      <4> QED
        BY Zenon, <4>1
    <3> HIDE DEF u, p, x, k
    <3> QED
      BY Zenon, <2>1, <2>5, <2>6, <3>2, <3>3
  <2> QED
    BY Zenon, <2>7, <2>8
<1>6. z \in S
  <2>1. \A i \in 0..z : i \in S /\ i < z => i + 1 \in S
    BY Zenon, <1>5
  <2>2. 0 \in Nat /\ z \in 0..z
    BY <1>1
  <2>3. 0..z \subseteq S
    <3> HIDE DEF S
    <3> QED
      BY Zenon, <1>1, <1>4, <2>1, <2>2, Ascend
  <2> QED
    BY Zenon, <2>2, <2>3
<1>7. Is(z)
  BY Zenon, <1>6
<1> QED
  BY Zenon, <1>7 DEF Override, Final, LastTaken, z, m

\* The gates, and that every option has a name.
LEMMA GatesAre ==
    Gates = {"creative_category", "wearable_slot", "is_food", "cooldown", "place_block",
             "place_entity", "enchantable", "can_shoot", "shooter_use_ammo", "projectile",
             "throwable", "record"}
BY DEF Gates, Fields

LEMMA OptionsNamed == Unnamed \notin Options
<1>1. /\ "" \notin Fields["creative_category"] /\ "" \notin Fields["wearable_slot"]
      /\ "" \notin Fields["is_food"] /\ "" \notin Fields["cooldown"]
  BY Zenon DEF Fields
<1>2. /\ "" \notin Fields["place_block"] /\ "" \notin Fields["place_entity"]
      /\ "" \notin Fields["enchantable"] /\ "" \notin Fields["can_shoot"]
  BY Zenon DEF Fields
<1>3. /\ "" \notin Fields["shooter_use_ammo"] /\ "" \notin Fields["projectile"]
      /\ "" \notin Fields["throwable"] /\ "" \notin Fields["record"]
  BY Zenon DEF Fields
<1>4. \A g \in Gates : "" \notin Fields[g]
  BY Zenon, <1>1, <1>2, <1>3, GatesAre
<1>5. "" \notin Gates
  BY Zenon, GatesAre
<1>6. "" \notin Scalars
  BY Zenon DEF Scalars, Flags, Denials
<1> QED
  BY Zenon, <1>4, <1>5, <1>6 DEF Options, Unnamed

Signal == "record_comparator_signal"

OpensFor(gate, v, shoot) ==
    CASE gate \in Picks   -> v # none
      [] gate = "shooter_use_ammo" -> shoot = true /\ v = true
      [] OTHER -> v = true

\* Two values that an item does not tell apart: numbers between the same limits
\* that are printed alike.
Close(x, y) ==
    x[1] = "num" /\ y[1] = "num" /\ Number(x) = Number(y) /\ Shown(x) = Shown(y)
Like(x, y) == x = y \/ Close(x, y)

LEMMA LikeFacts ==
    ASSUME NEW x, NEW y, Like(x, y), NEW key
    PROVE  /\ x = true <=> y = true
           /\ x = none <=> y = none
           /\ Wanted(key, x) <=> Wanted(key, y)
           /\ Shown(Copied(key, x)) = Shown(Copied(key, y))
<1>1. CASE x = y
  BY Zenon, <1>1
<1>2. CASE Close(x, y)
  <2>1. x[1] = "num" /\ y[1] = "num" /\ Number(x) = Number(y) /\ Shown(x) = Shown(y)
    BY Zenon, <1>2 DEF Close
  <2>2. \A v : v[1] = "num" => v # true /\ v # none /\ v # empty
    BY DEF true, none, empty, Lit, Str
  <2>3. x # true /\ y # true /\ x # none /\ y # none /\ x # empty /\ y # empty
    BY Zenon, <2>1, <2>2
  <2>4. \A low, high : Within(x, low, high) = Within(y, low, high)
    BY Zenon, <2>1 DEF Within
  <2>5. Wanted(key, x) <=> Wanted(key, y)
    BY Zenon, <2>1, <2>3, <2>4 DEF Wanted
  <2>6. val_string(x) = val_string(y)
    <3>1. x[1] # "str" /\ y[1] # "str"
      BY <2>1
    <3> QED
      BY Zenon, <3>1 DEF val_string
  <2>7. Shown(Copied(key, x)) = Shown(Copied(key, y))
    BY Zenon, <2>1, <2>6 DEF Copied
  <2> QED
    BY Zenon, <2>3, <2>5, <2>7
<1> QED
  BY Zenon, <1>1, <1>2 DEF Like

\* The item depends on the options alone, and not on an unwanted signal.
LEMMA SameItem ==
    ASSUME NEW a, NEW b,
           \A k \in Options :
              Like(a[k], b[k]) \/ (k = Signal /\ ~Wanted(k, a[k]) /\ ~Wanted(k, b[k]))
    PROVE  writeItem(a) = writeItem(b)
<1>1. /\ \A g \in Gates : g \in Options /\ g # Signal
      /\ "can_shoot" \in Gates
  BY Zenon, GatesAre DEF Options, Signal
<1>2. \A g \in Gates : Like(a[g], b[g])
  BY Zenon, <1>1
<1>3. \A g \in Gates : Opens(a, g) <=> Opens(b, g)
  <2> SUFFICES ASSUME NEW g \in Gates PROVE Opens(a, g) <=> Opens(b, g)
    OBVIOUS
  <2>1. Opens(a, g) = OpensFor(g, a[g], a["can_shoot"])
    BY Zenon DEF Opens, OpensFor
  <2>2. Opens(b, g) = OpensFor(g, b[g], b["can_shoot"])
    BY Zenon DEF Opens, OpensFor
  <2>3. Like(a[g], b[g]) /\ Like(a["can_shoot"], b["can_shoot"])
    BY Zenon, <1>1, <1>2
  <2>4. /\ a[g] = true <=> b[g] = true
        /\ a[g] = none <=> b[g] = none
        /\ a["can_shoot"] = true <=> b["can_shoot"] = true
    BY Zenon, <2>3, LikeFacts
  <2>5. OpensFor(g, a[g], a["can_shoot"]) <=> OpensFor(g, b[g], b["can_shoot"])
    BY Zenon, <2>4 DEF OpensFor
  <2> QED
    BY Zenon, <2>1, <2>2, <2>5
<1> DEFINE Open(w) == {g \in Gates : Opens(w, g)}
           From(w) == Scalars \cup UNION {Fields[g] : g \in Open(w)}
           Reached(w) == {k \in From(w) : Wanted(k, w[k])}
<1>4. Open(a) = Open(b)
  <2>1. \A x : x \in Open(a) <=> x \in Open(b)
    BY Zenon, <1>3
  <2> QED
    BY Zenon, <2>1
<1>5. From(a) = From(b) /\ \A k \in From(a) : k \in Options
  <2>1. From(a) = From(b)
    <3> HIDE DEF Open
    <3> QED
      BY Zenon, <1>4
  <2>2. \A k \in From(a) : k \in Options
    <3>1. \A g \in Open(a) : g \in Gates
      BY Zenon
    <3> HIDE DEF Open
    <3> QED
      BY Zenon, <3>1 DEF Options
  <2> QED
    BY Zenon, <2>1, <2>2
<1> HIDE DEF From
<1> DEFINE Part(w, k) == Shown(Copied(k, w[k]))
<1>6. \A k : /\ k \in Reached(a) <=> k \in Reached(b)
             /\ k \in Reached(a) => Part(a, k) = Part(b, k)
  <2> SUFFICES ASSUME NEW k \in From(a)
               PROVE  /\ Wanted(k, a[k]) <=> Wanted(k, b[k])
                      /\ Wanted(k, a[k]) => Part(a, k) = Part(b, k)
    BY Zenon, <1>5
  <2>1. k \in Options
    BY Zenon, <1>5
  <2>2. Like(a[k], b[k]) \/ (~Wanted(k, a[k]) /\ ~Wanted(k, b[k]))
    BY Zenon, <2>1
  <2>3. CASE Like(a[k], b[k])
    BY Zenon, <2>3, LikeFacts
  <2>4. CASE ~Wanted(k, a[k]) /\ ~Wanted(k, b[k])
    BY Zenon, <2>4
  <2> QED
    BY Zenon, <2>2, <2>3, <2>4
<1>7. Reached(a) = Reached(b)
  <2> HIDE DEF Reached
  <2> QED
    BY Zenon, <1>6
<1>8. /\ writeItem(a) = {<<k, Part(a, k)>> : k \in Reached(a)}
                           \cup {<<g, Group>> : g \in Open(a)}
      /\ writeItem(b) = {<<k, Part(b, k)>> : k \in Reached(b)}
                           \cup {<<g, Group>> : g \in Open(b)}
  BY Zenon DEF writeItem, From
<1> HIDE DEF Reached, Open, Part
<1>9. {<<k, Part(a, k)>> : k \in Reached(a)} = {<<k, Part(b, k)>> : k \in Reached(b)}
  <2>1. \A x : x \in {<<k, Part(a, k)>> : k \in Reached(a)} <=>
               x \in {<<k, Part(b, k)>> : k \in Reached(b)}
    <3>1. \A k \in Reached(a) : <<k, Part(a, k)>> = <<k, Part(b, k)>>
      BY Zenon, <1>6
    <3> QED
      BY Zenon, <1>7, <3>1
  <2> QED
    BY Zenon, <2>1
<1> QED
  BY Zenon, <1>4, <1>8, <1>9

LEMMA ItemKinds ==
    ASSUME NEW w, NEW e \in writeItem(w)
    PROVE  e[1] \in Options
<1> DEFINE Open == {g \in Gates : Opens(w, g)}
           Reached == {k \in Scalars \cup UNION {Fields[g] : g \in Open} : Wanted(k, w[k])}
<1>1. (\E k \in Reached : e = <<k, Shown(Copied(k, w[k]))>>) \/ \E g \in Open : e = <<g, Group>>
  BY Zenon DEF writeItem
<1>2. \A x, y : <<x, y>>[1] = x
  OBVIOUS
<1>3. \A k \in Reached : k \in Options
  BY Zenon DEF Options
<1>4. \A g \in Open : g \in Options
  BY Zenon DEF Options
<1> HIDE DEF Reached, Open
<1> QED
  BY Zenon, <1>1, <1>2, <1>3, <1>4

\* Neither -1 nor 16 is a comparator signal.
LEMMA NoSignal ==
    ~Wanted(Signal, Num("-1")) /\ ~Wanted(Signal, Num("16"))
<1>1. \A v : Wanted(Signal, v) = Within(v, 0, 15)
  BY Zenon DEF Wanted, Signal, Flags, Denials, Picks, Texts, Amounts
<1>2. Number(Num("-1")) = -2
  BY DEF Number, Num
<1>3. Number(Num("16")) = 32
  BY DEF Number, Num
<1>4. ~(2 * 0 <= -2) /\ ~(32 <= 2 * 15)
  OBVIOUS
<1>5. ~Within(Num("-1"), 0, 15)
  BY Zenon, <1>2, <1>4 DEF Within
<1>6. ~Within(Num("16"), 0, 15)
  BY Zenon, <1>3, <1>4 DEF Within
<1> QED
  BY Zenon, <1>1, <1>5, <1>6

SameItems(pairs, given, unset) ==
    writeItem(Override(Defaults(unset), pairs)) = writeItem(DirectOptions(given, unset))

LEMMA OverrideDirect ==
    ASSUME NEW A, NEW pairs \in Seq(OptionKeys \X A), NEW B, NEW given \in Seq(Names \X B),
           Agrees(pairs, given), NEW unset
    PROVE  SameItems(pairs, given, unset)
<1> DEFINE a == Override(Defaults(unset), pairs)
           b == DirectOptions(given, unset)
<1>1. ASSUME NEW k \in Options PROVE a[k] = b[k]
  <2>1. k \in DOMAIN Defaults(unset) /\ k # Unnamed /\ Defaults(unset)[k] = DefaultOf(k, unset)
    BY Zenon, OptionsNamed DEF Defaults
  <2>2. /\ \A v : <<Key(k), v>> \in Final(pairs) => a[k] = v
        /\ (\A v : <<Key(k), v>> \notin Final(pairs)) => a[k] = Defaults(unset)[k]
    <3> DEFINE d == Defaults(unset)
               o == Override(d, pairs)
    <3>1. k \in DOMAIN d /\ k # Unnamed
      BY Zenon, <2>1
    <3> HIDE DEF d
    <3>2. LastTaken(pairs, d, o, k)
      BY Zenon, <3>1, OverrideIs
    <3> QED
      BY Zenon, <3>2 DEF d, LastTaken
  <2>3. b[k] = IF k \in DOMAIN Latest(given) THEN Latest(given)[k] ELSE DefaultOf(k, unset)
    BY Zenon DEF DirectOptions
  <2> HIDE DEF a, b
  <2>4. CASE k \in DOMAIN Latest(given)
    <3>1. PICK v : <<k, v>> \in Final(given)
      BY Zenon, <2>4, LatestFacts
    <3>2. k \in Names /\ Latest(given)[k] = v
      BY Zenon, <3>1, LatestFacts
    <3>3. <<Key(k), v>> \in Final(pairs)
      BY Zenon, <3>1, <3>2 DEF Agrees
    <3> QED
      BY Zenon, <2>2, <2>3, <2>4, <3>2, <3>3
  <2>5. CASE k \notin DOMAIN Latest(given)
    <3>1. \A v : <<k, v>> \notin Final(given)
      BY Zenon, <2>5, LatestFacts
    <3>2. ASSUME NEW v, <<Key(k), v>> \in Final(pairs) PROVE FALSE
      <4> DEFINE R == OptionKeys \X A
                 x == Key(k)
                 L == OptionKeys
      <4>1. <<x, v>> \in R
        <5>1. pairs \in Seq(R)
          OBVIOUS
        <5> HIDE DEF R
        <5> QED
          BY Zenon, <3>2, <5>1, FinalIn
      <4>2. x \in L
        <5>1. <<x, v>> \in L \X A
          BY Zenon, <4>1
        <5> HIDE DEF x, L
        <5> QED
          BY <5>1
      <4>3. k \in Names
        <5>1. x # <<>>
          BY Zenon, NameOne DEF Key
        <5> QED
          BY Zenon, <4>2, <5>1, KeyFacts
      <4> QED
        BY Zenon, <3>1, <3>2, <4>3 DEF Agrees
    <3> QED
      BY Zenon, <2>1, <2>2, <2>3, <2>5, <3>2
  <2> QED
    BY Zenon, <2>4, <2>5
<1> HIDE DEF a, b
<1>2. writeItem(a) = writeItem(b)
  BY Zenon, <1>1, SameItem DEF Like
<1> QED
  BY Zenon, <1>2 DEF a, b, SameItems

GivenLike(d, e) ==
    Len(d) = Len(e) /\ \A i \in 1..Len(e) : d[i][1] = e[i][1] /\ Like(d[i][2], e[i][2])

SameDirect(d, e, unset) ==
    writeItem(DirectOptions(d, unset)) = writeItem(DirectOptions(e, unset))

\* Options given alike make the same item.
LEMMA LikeDirect ==
    ASSUME NEW B, NEW d \in Seq(Names \X B), NEW e \in Seq(Names \X B), GivenLike(d, e),
           NEW unset
    PROVE  SameDirect(d, e, unset)
<1> DEFINE n == Len(e)
           R == Names \X B
           a == DirectOptions(d, unset)
           b == DirectOptions(e, unset)
<1>1. n \in Nat /\ DOMAIN d = 1..n /\ DOMAIN e = 1..n
  <2>1. d \in Seq(R) /\ e \in Seq(R)
    OBVIOUS
  <2>2. Len(d) = n
    BY Zenon DEF GivenLike
  <2> HIDE DEF R, n
  <2>3. DOMAIN d = 1..Len(d)
    BY Zenon, <2>1, SeqFacts
  <2> QED
    BY Zenon, <2>1, <2>2, <2>3, SeqFacts DEF n
<1>2. \A i \in 1..n : d[i][1] = e[i][1] /\ Like(d[i][2], e[i][2])
  BY Zenon DEF GivenLike
<1> HIDE DEF n
<1>3. ASSUME NEW k
      PROVE  /\ k \in DOMAIN Latest(d) <=> k \in DOMAIN Latest(e)
             /\ k \in DOMAIN Latest(d) => Like(Latest(d)[k], Latest(e)[k])
  <2> DEFINE T == {i \in 1..n : e[i][1] = k}
             m == Max(T)
  <2>1. T = {i \in DOMAIN d : d[i][1] = k} /\ T = {i \in DOMAIN e : e[i][1] = k}
    BY Zenon, <1>1, <1>2
  <2>2. /\ k \in DOMAIN Latest(d) <=> T # {}
        /\ k \in DOMAIN Latest(e) <=> T # {}
    <3>1. k \in DOMAIN Latest(d) <=> \E i \in DOMAIN d : d[i][1] = k
      BY Zenon DEF Latest
    <3>2. k \in DOMAIN Latest(e) <=> \E i \in DOMAIN e : e[i][1] = k
      BY Zenon DEF Latest
    <3> QED
      BY Zenon, <1>1, <1>2, <3>1, <3>2
  <2>3. ASSUME T # {} PROVE Like(Latest(d)[k], Latest(e)[k])
    <3>1. T \subseteq 0..n
      <4>1. 1..n \subseteq 0..n
        BY <1>1
      <4> QED
        BY Zenon, <4>1
    <3>2. m \in T
      <4> HIDE DEF T
      <4> QED
        BY Zenon, <1>1, <2>3, <3>1, Greatest
    <3>3. m \in 1..n
      <4> HIDE DEF m
      <4> QED
        BY Zenon, <3>2
    <3>4. k \in {d[i][1] : i \in DOMAIN d} /\ k \in {e[i][1] : i \in DOMAIN e}
      BY Zenon, <1>1, <1>2, <2>3
    <3>5. Latest(d)[k] = d[m][2] /\ Latest(e)[k] = e[m][2]
      <4>1. Latest(d)[k] = d[Max({i \in DOMAIN d : d[i][1] = k})][2]
        BY Zenon, <3>4 DEF Latest
      <4>2. Latest(e)[k] = e[Max({i \in DOMAIN e : e[i][1] = k})][2]
        BY Zenon, <3>4 DEF Latest
      <4> HIDE DEF T
      <4> QED
        BY Zenon, <2>1, <4>1, <4>2
    <3> HIDE DEF m
    <3> QED
      BY Zenon, <1>2, <3>3, <3>5
  <2> HIDE DEF T
  <2> QED
    BY Zenon, <2>2, <2>3
<1>4. ASSUME NEW k \in Options PROVE Like(a[k], b[k])
  <2>1. /\ a[k] = IF k \in DOMAIN Latest(d) THEN Latest(d)[k] ELSE DefaultOf(k, unset)
        /\ b[k] = IF k \in DOMAIN Latest(e) THEN Latest(e)[k] ELSE DefaultOf(k, unset)
    BY Zenon DEF DirectOptions
  <2> HIDE DEF a, b
  <2>2. CASE k \in DOMAIN Latest(d)
    <3>1. a[k] = Latest(d)[k] /\ b[k] = Latest(e)[k]
      BY Zenon, <1>3, <2>1, <2>2
    <3> QED
      BY Zenon, <1>3, <2>2, <3>1
  <2>3. CASE k \notin DOMAIN Latest(d)
    <3>1. a[k] = b[k]
      BY Zenon, <1>3, <2>1, <2>3
    <3> QED
      BY Zenon, <3>1 DEF Like
  <2> QED
    BY Zenon, <2>2, <2>3
<1> HIDE DEF a, b
<1>5. writeItem(a) = writeItem(b)
  BY Zenon, <1>4, SameItem
<1> QED
  BY Zenon, <1>5 DEF a, b, SameDirect

\* Options that were printed, and whose numbers cross no limit, are alike.
LEMMA ShownDirect ==
    ASSUME NEW g \in Seq(Names \X Atoms), NEW h \in Seq(Names \X Atoms),
           Steady(g \o h), NEW unset
    PROVE  SameDirect(ShownPairs(g) \o h, g \o h, unset)
<1> DEFINE d == ShownPairs(g) \o h
           e == g \o h
           R == Names \X Atoms
<1>1. /\ d \in Seq(R) /\ Len(d) = Len(e) /\ DOMAIN e = 1..Len(e)
      /\ \A i \in 1..Len(e) : /\ e[i][2] \in Atoms /\ d[i][1] = e[i][1]
                              /\ d[i][2] = e[i][2] \/ d[i][2] = Shown(e[i][2])
  BY ZenonT(60), ShownBoth
<1>2. e \in Seq(R)
  <2>1. g \in Seq(R) /\ h \in Seq(R)
    OBVIOUS
  <2> HIDE DEF R
  <2> QED
    BY <2>1
<1>3. \A i \in DOMAIN e : e[i][2][1] = "num" => Number(Shown(e[i][2])) = Number(e[i][2])
  BY Zenon DEF Steady
<1> HIDE DEF d, e
<1>4. ASSUME NEW i \in 1..Len(e) PROVE Like(d[i][2], e[i][2])
  <2> DEFINE v == e[i][2]
  <2>1. v \in Atoms /\ (d[i][2] = v \/ d[i][2] = Shown(v))
    BY Zenon, <1>1
  <2>2. v[1] = "num" => Number(Shown(v)) = Number(v)
    BY Zenon, <1>1, <1>3
  <2> HIDE DEF v
  <2>3. Like(Shown(v), v)
    <3>1. CASE v[1] = "num"
      BY Zenon, <2>1, <2>2, <3>1, ShownFacts DEF Like, Close
    <3>2. CASE v[1] # "num"
      BY Zenon, <3>2, ShownFacts DEF Like
    <3> QED
      BY Zenon, <3>1, <3>2
  <2> QED
    BY Zenon, <2>1, <2>3 DEF v, Like
<1>5. SameDirect(d, e, unset)
  <2>1. \A i \in 1..Len(e) : d[i][1] = e[i][1]
    BY Zenon, <1>1
  <2>2. GivenLike(d, e)
    BY Zenon, <1>1, <1>4, <2>1 DEF GivenLike
  <2>3. d \in Seq(R)
    BY Zenon, <1>1
  <2> QED
    BY Zenon, <1>2, <2>2, <2>3, LikeDirect
<1> QED
  BY Zenon, <1>5 DEF d, e

\* A signal of 16 that was never set is as little wanted as one of -1.
LEMMA UnsetSignal ==
    ASSUME NEW given
    PROVE  writeItem(DirectOptions(given, Num("16"))) = writeItem(DirectOptions(given, Num("-1")))
<1> DEFINE u == Num("16")
           v == Num("-1")
           a == DirectOptions(given, u)
           b == DirectOptions(given, v)
<1>1. ~Wanted(Signal, u) /\ ~Wanted(Signal, v)
  BY Zenon, NoSignal
<1> HIDE DEF u, v
<1>2. DefaultOf(Signal, u) = u /\ DefaultOf(Signal, v) = v
  <2>1. /\ Signal \notin {"can_destroy_in_creative", "is_explodable", "should_despawn"}
        /\ Signal \notin {"use_animation", "creative_category", "wearable_slot",
                          "enchantable_slot"}
        /\ Signal \notin {"max_stack_size", "shooter_max_draw_duration"}
        /\ Signal \notin Amounts \cup {"armor_protection", "enchantable_value",
                                       "knockback_resistance"}
    BY Zenon DEF Signal, Amounts
  <2> QED
    BY Zenon, <2>1 DEF DefaultOf, Signal
<1>3. \A k : k # Signal => DefaultOf(k, u) = DefaultOf(k, v)
  BY SMTT(30) DEF DefaultOf, Signal
<1>4. ASSUME NEW k \in Options
      PROVE  a[k] = b[k] \/ (k = Signal /\ ~Wanted(k, a[k]) /\ ~Wanted(k, b[k]))
  <2>1. /\ a[k] = IF k \in DOMAIN Latest(given) THEN Latest(given)[k] ELSE DefaultOf(k, u)
        /\ b[k] = IF k \in DOMAIN Latest(given) THEN Latest(given)[k] ELSE DefaultOf(k, v)
    BY Zenon DEF DirectOptions
  <2> HIDE DEF a, b
  <2>2. CASE k \in DOMAIN Latest(given)
    BY Zenon, <2>1, <2>2
  <2>3. CASE k \notin DOMAIN Latest(given)
    <3>1. a[k] = DefaultOf(k, u) /\ b[k] = DefaultOf(k, v)
      BY Zenon, <2>1, <2>3
    <3>2. CASE k = Signal
      <4>1. a[k] = u /\ b[k] = v
        BY Zenon, <1>2, <3>1, <3>2
      <4> QED
        BY Zenon, <1>1, <3>2, <4>1
    <3>3. CASE k # Signal
      BY Zenon, <1>3, <3>1, <3>3
    <3> QED
      BY Zenon, <3>2, <3>3
  <2> QED
    BY Zenon, <2>2, <2>3
<1> HIDE DEF a, b
<1>5. writeItem(a) = writeItem(b)
  BY Zenon, <1>4, SameItem DEF Like
<1> QED
  BY Zenon, <1>5 DEF a, b, u, v

----------------------------------------------------------------------------
(* The wizard.                                                              *)

StepFiles == [text : CharTexts, given : Seq(Names \X Atoms)]

FilesOK ==
    /\ files \in Seq(StepFiles) /\ Len(files) <= MaxFiles
    /\ \A i \in 1..Len(files) : StepFile(files[i].text, files[i].given)

ItemOK == \A e \in item : e[1] \in Options

\* The inductive invariant: what every step file holds.
WizardInv == FilesOK /\ ItemOK /\ SameAsDirect

LEMMA FileParts ==
    ASSUME NEW S, NEW fs \in Seq(S)
    PROVE  Len(fs) \in Nat /\ DOMAIN fs = 1..Len(fs) /\ \A i \in DOMAIN fs : fs[i] \in S
BY Zenon, SeqFacts

LEMMA GivenFiles ==
    ASSUME FilesOK, NEW i \in DOMAIN files
    PROVE  /\ files[i].given \in Seq(Names \X Atoms)
           /\ StepFile(files[i].text, files[i].given)
<1>1. files \in Seq(StepFiles)
  BY Zenon DEF FilesOK
<1>2. i \in 1..Len(files) /\ files[i] \in StepFiles
  BY Zenon, <1>1, FileParts
<1> DEFINE f == files[i]
           G == Seq(Names \X Atoms)
<1>3. f \in [text : CharTexts, given : G]
  BY Zenon, <1>2 DEF StepFiles
<1> HIDE DEF f, G
<1>4. f.given \in G
  BY <1>3
<1> QED
  BY Zenon, <1>2, <1>4 DEF f, G, FilesOK

\* The file option of a step is an option like the others.
LEMMA WithFileFacts ==
    ASSUME NEW name \in FileNames, NEW options \in Seq(Names \X Atoms), WizardAssumption
    PROVE  WithFile(name, options) \in Seq(Names \X Atoms)
<1>1. name \in Names
  BY Zenon DEF WizardAssumption
<1>2. Attachment \in Atoms
  <2>1. "5" \in Char
    BY Zenon DEF Char, Marks, Numbers
  <2> DEFINE c == "5"
             C == Char
  <2> HIDE DEF c, C
  <2>2. c \in C
    BY Zenon, <2>1 DEF c, C
  <2>3. <<c>> \in Seq(C)
    BY <2>2
  <2>4. \A s \in Seq(C) : <<"str", s>> \in {"str"} \X Seq(C)
    OBVIOUS
  <2> QED
    BY Zenon, <2>3, <2>4 DEF Attachment, Str, Atoms, c, C
<1> DEFINE v == Attachment
           N == Names
           A == Atoms
<1> HIDE DEF v, N, A
<1>3. name \in N /\ v \in A /\ options \in Seq(N \X A)
  BY Zenon, <1>1, <1>2 DEF v, N, A
<1>4. <<<<name, v>>>> \in Seq(N \X A)
  BY <1>3
<1>5. <<<<name, v>>>> \o options \in Seq(N \X A)
  BY <1>3, <1>4
<1> QED
  BY Zenon, <1>5 DEF WithFile, v, N, A

LEMMA NewFileKeeps ==
    ASSUME FilesOK, SameAsDirect, NEW pairs, NEW given \in Seq(Names \X Atoms),
           StepFile(get_repr(Obj(pairs)), given), NewFile(pairs, given), MaxFiles \in Nat
    PROVE  FilesOK' /\ asked' = <<>> /\ item' = item
<1> DEFINE text == get_repr(Obj(pairs))
           f == [text |-> text, given |-> given]
           n == Len(files)
<1>1. /\ n < MaxFiles /\ files' = Append(files, f) /\ asked' = <<>> /\ item' = item
  BY Zenon DEF NewFile
<1>2. f \in StepFiles /\ f.text = text /\ f.given = given
  <2>1. text \in CharTexts
    BY Zenon, FileShape
  <2> DEFINE G == Seq(Names \X Atoms)
  <2>2. given \in G
    OBVIOUS
  <2> HIDE DEF text, G
  <2>3. [text |-> text, given |-> given] \in [text : CharTexts, given : G]
    BY <2>1, <2>2
  <2>4. [text |-> text, given |-> given].text = text /\ [text |-> text, given |-> given].given = given
    OBVIOUS
  <2> QED
    BY Zenon, <2>3, <2>4 DEF StepFiles, G
<1>3. StepFile(f.text, f.given)
  <2>1. StepFile(text, given)
    BY Zenon
  <2> HIDE DEF f
  <2> QED
    BY Zenon, <1>2, <2>1
<1> HIDE DEF f
<1>4. files \in Seq(StepFiles) /\ \A i \in 1..n : StepFile(files[i].text, files[i].given)
  BY Zenon DEF FilesOK
<1>5. /\ files' \in Seq(StepFiles) /\ Len(files') = n + 1
      /\ \A i \in 1..n : files'[i] = files[i]
      /\ files'[n + 1] = f
  <2>1. /\ Append(files, f) \in Seq(StepFiles) /\ Len(Append(files, f)) = Len(files) + 1
        /\ \A i \in 1..Len(files) : Append(files, f)[i] = files[i]
        /\ Append(files, f)[Len(files) + 1] = f
    BY ZenonT(60), <1>2, <1>4, AppendFacts
  <2> QED
    BY Zenon, <1>1, <2>1
<1>6. n \in Nat
  BY Zenon, <1>4, SeqFacts
<1> HIDE DEF n
<1>7. n + 1 <= MaxFiles /\ \A i \in 1..(n + 1) : i \in 1..n \/ i = n + 1
  BY <1>1, <1>6
<1>8. \A i \in 1..Len(files') : StepFile(files'[i].text, files'[i].given)
  <2>1. ASSUME NEW i \in 1..(n + 1) PROVE StepFile(files'[i].text, files'[i].given)
    <3>1. CASE i \in 1..n
      BY Zenon, <1>4, <1>5, <3>1
    <3>2. CASE i = n + 1
      BY Zenon, <1>3, <1>5, <3>2
    <3> QED
      BY Zenon, <1>7, <3>1, <3>2
  <2> QED
    BY Zenon, <1>5, <2>1
<1> QED
  BY Zenon, <1>1, <1>5, <1>7, <1>8 DEF FilesOK

LEMMA WizardStart == WizardAssumption /\ Init => WizardInv
<1> SUFFICES ASSUME WizardAssumption, Init PROVE WizardInv
  BY Zenon
<1>1. files = <<>> /\ item = {} /\ asked = <<>>
  BY Zenon DEF Init
<1>2. files \in Seq(StepFiles) /\ Len(files) = 0
  BY <1>1
<1>3. 0 <= MaxFiles /\ \A i \in 1..0 : FALSE
  BY DEF WizardAssumption
<1>4. FilesOK
  BY Zenon, <1>2, <1>3 DEF FilesOK
<1> QED
  BY Zenon, <1>1, <1>4 DEF WizardInv, ItemOK, SameAsDirect

LEMMA WizardStep ==
    ASSUME WizardAssumption, WizardInv, [Next]_vars
    PROVE  WizardInv'
<1>a. MaxFiles \in Nat
  BY Zenon DEF WizardAssumption
<1>b. FilesOK /\ ItemOK /\ SameAsDirect
  BY Zenon DEF WizardInv
<1>c. ASSUME FilesOK', asked' = <<>>, item' = item PROVE WizardInv'
  BY Zenon, <1>b, <1>c DEF WizardInv, ItemOK, SameAsDirect
<1>1. ASSUME NEW options \in StartOptions, Start(options) PROVE WizardInv'
  <2>1. options \in Seq(Names \X Atoms)
    BY Zenon DEF WizardAssumption
  <2>2. StepFile(get_repr(Obj(reduce_options(options))), options)
    BY Zenon, <2>1, FirstFile
  <2>3. NewFile(reduce_options(options), options)
    BY Zenon, <1>1 DEF Start
  <2>4. FilesOK' /\ asked' = <<>> /\ item' = item
    BY Zenon, <1>a, <1>b, <2>1, <2>2, <2>3, NewFileKeeps
  <2> QED
    BY Zenon, <1>c, <2>4
<1>2. ASSUME NEW i \in DOMAIN files, NEW options \in CheckpointOptions,
             Checkpoint(files[i], options)
      PROVE  WizardInv'
  <2> DEFINE g == files[i].given
             text == files[i].text
             h == WithFile("step1_file", options)
             pairs == ReadOf(text) \o reduce_options(h)
  <2>1. g \in Seq(Names \X Atoms) /\ StepFile(text, g)
    BY Zenon, <1>b, GivenFiles
  <2>2. h \in Seq(Names \X Atoms)
    <3>1. options \in Seq(Names \X Atoms)
      BY Zenon DEF WizardAssumption
    <3>2. "step1_file" \in FileNames
      BY Zenon DEF FileNames
    <3> QED
      BY Zenon, <3>1, <3>2, WithFileFacts
  <2>3. NewFile(pairs, g \o h)
    BY Zenon, <1>2 DEF Checkpoint, Merged, ReadOf
  <2> HIDE DEF g, text, h
  <2>4. StepFile(get_repr(Obj(pairs)), g \o h)
    BY Zenon, <2>1, <2>2, MergedFile
  <2>5. g \o h \in Seq(Names \X Atoms)
    <3> DEFINE R == Names \X Atoms
    <3>1. g \in Seq(R) /\ h \in Seq(R)
      BY Zenon, <2>1, <2>2
    <3> HIDE DEF R
    <3>2. g \o h \in Seq(R)
      BY <3>1
    <3> QED
      BY Zenon, <3>2 DEF R
  <2> HIDE DEF pairs
  <2>6. FilesOK' /\ asked' = <<>> /\ item' = item
    BY Zenon, <1>a, <1>b, <2>3, <2>4, <2>5, NewFileKeeps
  <2> QED
    BY Zenon, <1>c, <2>6
<1>3. ASSUME NEW i \in DOMAIN files, NEW options \in FinishOptions, Finish(files[i], options)
      PROVE  WizardInv'
  <2> DEFINE g == files[i].given
             text == files[i].text
             h == WithFile("step2_file", options)
             pairs == ReadOf(text) \o reduce_options(h)
  <2>1. g \in Seq(Names \X Atoms) /\ StepFile(text, g)
    BY Zenon, <1>b, GivenFiles
  <2>2. h \in Seq(Names \X Atoms)
    <3>1. options \in Seq(Names \X Atoms)
      BY Zenon DEF WizardAssumption
    <3>2. "step2_file" \in FileNames
      BY Zenon DEF FileNames
    <3> QED
      BY Zenon, <3>1, <3>2, WithFileFacts
  <2>3. /\ \E unset \in {Num("-1"), Num("0"), Num("16")} :
              item' = writeItem(Override(Defaults(unset), pairs))
        /\ asked' = g \o h /\ files' = files
    BY Zenon, <1>3 DEF Finish, Merged, ReadOf
  <2> HIDE DEF g, text, h
  <2>4. /\ pairs \in Seq(OptionKeys \X Atoms)
        /\ Clean(g \o h) => /\ pairs \in Seq(OptionKeys \X CleanAtoms)
                            /\ Agrees(pairs, ShownPairs(g) \o h)
    BY Zenon, <2>1, <2>2, NextFile
  <2>5. g \o h \in Seq(Names \X Atoms)
    <3> DEFINE R == Names \X Atoms
    <3>1. g \in Seq(R) /\ h \in Seq(R)
      BY Zenon, <2>1, <2>2
    <3> HIDE DEF R
    <3>2. g \o h \in Seq(R)
      BY <3>1
    <3> QED
      BY Zenon, <3>2 DEF R
  <2> DEFINE given == g \o h
             shown == ShownPairs(g) \o h
  <2> HIDE DEF pairs, given, shown
  <2>6. PICK unset \in {Num("-1"), Num("0"), Num("16")} :
           item' = writeItem(Override(Defaults(unset), pairs))
    BY Zenon, <2>3
  <2>7. FilesOK'
    BY Zenon, <1>b, <2>3 DEF FilesOK
  <2>8. ItemOK'
    BY Zenon, <2>6, ItemKinds DEF ItemOK
  <2>9. SameAsDirect'
    <3>1. ASSUME Clean(given), Steady(given)
          PROVE  item' \in {writeItem(DirectOptions(given, Num("-1"))),
                            writeItem(DirectOptions(given, Num("0")))}
      <4>1. shown \in Seq(Names \X Atoms)
        BY Zenon, <2>1, <2>2, ShownBoth DEF shown
      <4>2. Agrees(pairs, shown) /\ pairs \in Seq(OptionKeys \X CleanAtoms)
        BY Zenon, <2>4, <3>1 DEF given, shown
      <4>3. item' = writeItem(DirectOptions(given, unset))
        <5>1. SameItems(pairs, shown, unset)
          BY Zenon, <4>1, <4>2, OverrideDirect
        <5>2. SameDirect(shown, given, unset)
          BY Zenon, <2>1, <2>2, <3>1, ShownDirect DEF given, shown
        <5> QED
          BY Zenon, <2>6, <5>1, <5>2 DEF SameItems, SameDirect
      <4>4. CASE unset = Num("16")
        <5>1. item' = writeItem(DirectOptions(given, Num("16")))
          BY Zenon, <4>3, <4>4
        <5>2. item' = writeItem(DirectOptions(given, Num("-1")))
          BY Zenon, <5>1, UnsetSignal
        <5> QED
          BY Zenon, <5>2
      <4> QED
        BY Zenon, <2>6, <4>3, <4>4
    <3>2. asked' = given
      BY Zenon, <2>3 DEF given
    <3> QED
      BY Zenon, <3>1, <3>2 DEF SameAsDirect
  <2> QED
    BY Zenon, <2>7, <2>8, <2>9 DEF WizardInv
<1>4. ASSUME Again PROVE WizardInv'
  <2>1. files' = <<>> /\ item' = {} /\ asked' = <<>>
    BY Zenon, <1>4 DEF Again
  <2>2. files' \in Seq(StepFiles) /\ Len(files') = 0
    BY <2>1
  <2>3. 0 <= MaxFiles /\ \A i \in 1..0 : FALSE
    BY <1>a
  <2>4. FilesOK'
    BY Zenon, <2>2, <2>3 DEF FilesOK
  <2> QED
    BY Zenon, <2>1, <2>4 DEF WizardInv, ItemOK, SameAsDirect
<1>5. ASSUME UNCHANGED vars PROVE WizardInv'
  <2>1. files' = files /\ item' = item /\ asked' = asked
    BY <1>5 DEF vars
  <2> QED
    BY Zenon, <1>b, <2>1 DEF WizardInv, FilesOK, ItemOK, SameAsDirect
<1> QED
  BY Zenon, <1>1, <1>2, <1>3, <1>4, <1>5 DEF Next

LEMMA WizardInvariant == Spec => []WizardInv
<1>1. Init => WizardInv
  BY Zenon, WizardStart, WizardAssumption
<1>2. WizardInv /\ [Next]_vars => WizardInv'
  BY Zenon, WizardStep, WizardAssumption
<1> QED
  BY PTL, <1>1, <1>2 DEF Spec

\* Every step file is an object from its first character to its last, and every
\* part of an item is an option of it, whatever options the users give.
THEOREM WizardTypeOK == Spec => []TypeOK
<1>1. WizardInv => TypeOK
  <2> SUFFICES ASSUME WizardInv PROVE TypeOK
    BY Zenon
  <2>1. FilesOK /\ ItemOK
    BY Zenon DEF WizardInv
  <2>2. ASSUME NEW i \in DOMAIN files
        PROVE  Head(files[i].text) = "{" /\ Last(files[i].text) = "}"
    <3>1. StepFile(files[i].text, files[i].given)
      BY Zenon, <2>1, GivenFiles
    <3> QED
      BY Zenon, <3>1, FileShape
  <2> QED
    BY Zenon, <2>1, <2>2 DEF TypeOK, FilesOK, ItemOK
<1> QED
  BY PTL, <1>1, WizardInvariant

\* A step file without characters that are lost holds exactly the latest values
\* of the options given in the steps that lead to it, numbers rounded once by
\* get_repr, for any options and however many steps (checkpoint puts the pairs of
\* the attached file before its own).
THEOREM WizardLaterWins == Spec => []LaterWins
<1>1. WizardInv => LaterWins
  <2> SUFFICES ASSUME WizardInv, files # <<>>, asked = <<>>, Clean(Last(files).given)
               PROVE  HoldsLatest(Last(files).text, Last(files).given)
    BY Zenon DEF LaterWins, HoldsLatest
  <2> DEFINE i == Len(files)
             f == Last(files)
  <2>1. FilesOK
    BY Zenon DEF WizardInv
  <2>2. i \in DOMAIN files
    <3>1. files \in Seq(StepFiles)
      BY Zenon, <2>1 DEF FilesOK
    <3>2. i \in Nat /\ DOMAIN files = 1..i /\ i # 0
      BY <3>1
    <3> HIDE DEF i
    <3>3. i \in 1..i
      BY <3>2
    <3> QED
      BY Zenon, <3>2, <3>3
  <2>3. f = files[i]
    BY Zenon DEF Last
  <2> HIDE DEF f, i
  <2>4. f.given \in Seq(Names \X Atoms) /\ StepFile(f.text, f.given)
    BY Zenon, <2>1, <2>2, <2>3, GivenFiles
  <2>5. Clean(f.given)
    BY Zenon DEF f
  <2> DEFINE g == f.given
             t == f.text
  <2>6. g \in Seq(Names \X Atoms) /\ StepFile(t, g) /\ Clean(g)
    BY Zenon, <2>4, <2>5
  <2> HIDE DEF g, t
  <2>7. HoldsLatest(t, g)
    BY Zenon, <2>6, ReadLatest
  <2> QED
    BY Zenon, <2>7 DEF g, t, f
<1> QED
  BY PTL, <1>1, WizardInvariant

\* The item of a finish is the one that all options given at once would have
\* made, with a comparator signal of -1 or 0 where none was given, when rounding
\* takes no number across a limit of writeItem: for any options, and after any
\* number of checkpoints.
THEOREM WizardSameAsDirect == Spec => []SameAsDirect
<1>1. WizardInv => SameAsDirect
  BY Zenon DEF WizardInv
<1> QED
  BY PTL, <1>1, WizardInvariant
=============================================================================
