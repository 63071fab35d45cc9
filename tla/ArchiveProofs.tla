---------------------------- MODULE ArchiveProofs ----------------------------
(* What every archive of packs holds: proofs about the trees of files that     *)
(* Packs writes out and about the manifests in them, and the properties of     *)
(* Generators that rest on them.                                               *)
EXTENDS Generators, JsonProofs

----------------------------------------------------------------------------
(* Sequences written out: what joining two of them gives.                   *)

\* A sequence is the join of two when it has their elements.
LEMMA ConcatIs ==
    ASSUME NEW S, NEW s \in Seq(S), NEW t \in Seq(S), NEW r \in Seq(S),
           Len(r) = Len(s) + Len(t),
           \A i \in 1..Len(s) : r[i] = s[i],
           \A i \in 1..Len(t) : r[Len(s) + i] = t[i]
    PROVE  s \o t = r
<1> DEFINE c == s \o t
<1>1. /\ c \in Seq(S) /\ Len(c) = Len(s) + Len(t)
      /\ \A i \in 1 .. Len(s) + Len(t) : c[i] = IF i <= Len(s) THEN s[i] ELSE t[i - Len(s)]
  BY ConcatProperties
<1>2. Len(s) \in Nat /\ Len(t) \in Nat
  BY LenProperties
<1> HIDE DEF c
<1>3. ASSUME NEW i \in 1..Len(c) PROVE c[i] = r[i]
  <2>1. CASE i <= Len(s)
    BY SMTT(60), <1>1, <1>2, <2>1
  <2>2. CASE ~(i <= Len(s))
    <3> DEFINE j == i - Len(s)
    <3>1. j \in 1..Len(t) /\ Len(s) + j = i
      BY <1>1, <1>2, <2>2
    <3> QED
      BY <1>1, <2>2, <3>1
  <2> QED
    BY <2>1, <2>2
<1>4. c = r
  BY <1>1, <1>3, SeqEqual
<1> QED
  BY <1>4 DEF c

LEMMA Lists11 ==
    ASSUME NEW a, NEW b
    PROVE  <<a>> \o <<b>> = <<a, b>>
<1> DEFINE S == {a, b}
           s == <<a>>
           t == <<b>>
           r == <<a, b>>
<1>1. s \in Seq(S) /\ t \in Seq(S) /\ r \in Seq(S)
  OBVIOUS
<1>2. Len(s) = 1 /\ Len(t) = 1 /\ Len(r) = 2
  OBVIOUS
<1>3. /\ r[1] = s[1]
      /\ r[2] = t[1]
  OBVIOUS
<1> HIDE DEF r, s, t, S
<1>4. Len(r) = Len(s) + Len(t)
  BY <1>2
<1>5. \A i \in 1..Len(s) : r[i] = s[i]
  BY <1>2, <1>3
<1>6. \A i \in 1..Len(t) : r[Len(s) + i] = t[i]
  BY <1>2, <1>3
<1>7. s \o t = r
  BY <1>1, <1>4, <1>5, <1>6, ConcatIs
<1> QED
  BY <1>7 DEF r, s, t

LEMMA Lists12 ==
    ASSUME NEW a, NEW b, NEW c
    PROVE  <<a>> \o <<b, c>> = <<a, b, c>>
<1> DEFINE S == {a, b, c}
           s == <<a>>
           t == <<b, c>>
           r == <<a, b, c>>
<1>1. s \in Seq(S) /\ t \in Seq(S) /\ r \in Seq(S)
  OBVIOUS
<1>2. Len(s) = 1 /\ Len(t) = 2 /\ Len(r) = 3
  OBVIOUS
<1>3. /\ r[1] = s[1]
      /\ r[2] = t[1] /\ r[3] = t[2]
  OBVIOUS
<1> HIDE DEF r, s, t, S
<1>4. Len(r) = Len(s) + Len(t)
  BY <1>2
<1>5. \A i \in 1..Len(s) : r[i] = s[i]
  BY <1>2, <1>3
<1>6. \A i \in 1..Len(t) : r[Len(s) + i] = t[i]
  BY <1>2, <1>3
<1>7. s \o t = r
  BY <1>1, <1>4, <1>5, <1>6, ConcatIs
<1> QED
  BY <1>7 DEF r, s, t

LEMMA Lists14 ==
    ASSUME NEW a, NEW b, NEW c, NEW d, NEW e
    PROVE  <<a>> \o <<b, c, d, e>> = <<a, b, c, d, e>>
<1> DEFINE S == {a, b, c, d, e}
           s == <<a>>
           t == <<b, c, d, e>>
           r == <<a, b, c, d, e>>
<1>1. s \in Seq(S) /\ t \in Seq(S) /\ r \in Seq(S)
  OBVIOUS
<1>2. Len(s) = 1 /\ Len(t) = 4 /\ Len(r) = 5
  OBVIOUS
<1>3. /\ r[1] = s[1]
      /\ r[2] = t[1] /\ r[3] = t[2] /\ r[4] = t[3] /\ r[5] = t[4]
  OBVIOUS
<1> HIDE DEF r, s, t, S
<1>4. Len(r) = Len(s) + Len(t)
  BY <1>2
<1>5. \A i \in 1..Len(s) : r[i] = s[i]
  BY <1>2, <1>3
<1>6. \A i \in 1..Len(t) : r[Len(s) + i] = t[i]
  BY <1>2, <1>3
<1>7. s \o t = r
  BY <1>1, <1>4, <1>5, <1>6, ConcatIs
<1> QED
  BY <1>7 DEF r, s, t

LEMMA Lists21 ==
    ASSUME NEW a, NEW b, NEW c
    PROVE  <<a, b>> \o <<c>> = <<a, b, c>>
<1> DEFINE S == {a, b, c}
           s == <<a, b>>
           t == <<c>>
           r == <<a, b, c>>
<1>1. s \in Seq(S) /\ t \in Seq(S) /\ r \in Seq(S)
  OBVIOUS
<1>2. Len(s) = 2 /\ Len(t) = 1 /\ Len(r) = 3
  OBVIOUS
<1>3. /\ r[1] = s[1] /\ r[2] = s[2]
      /\ r[3] = t[1]
  OBVIOUS
<1> HIDE DEF r, s, t, S
<1>4. Len(r) = Len(s) + Len(t)
  BY <1>2
<1>5. \A i \in 1..Len(s) : r[i] = s[i]
  BY <1>2, <1>3
<1>6. \A i \in 1..Len(t) : r[Len(s) + i] = t[i]
  BY <1>2, <1>3
<1>7. s \o t = r
  BY <1>1, <1>4, <1>5, <1>6, ConcatIs
<1> QED
  BY <1>7 DEF r, s, t

LEMMA Lists24 ==
    ASSUME NEW a, NEW b, NEW c, NEW d, NEW e, NEW f
    PROVE  <<a, b>> \o <<c, d, e, f>> = <<a, b, c, d, e, f>>
<1> DEFINE S == {a, b, c, d, e, f}
           s == <<a, b>>
           t == <<c, d, e, f>>
           r == <<a, b, c, d, e, f>>
<1>1. s \in Seq(S) /\ t \in Seq(S) /\ r \in Seq(S)
  OBVIOUS
<1>2. Len(s) = 2 /\ Len(t) = 4 /\ Len(r) = 6
  OBVIOUS
<1>3. /\ r[1] = s[1] /\ r[2] = s[2]
      /\ r[3] = t[1] /\ r[4] = t[2] /\ r[5] = t[3] /\ r[6] = t[4]
  OBVIOUS
<1> HIDE DEF r, s, t, S
<1>4. Len(r) = Len(s) + Len(t)
  BY <1>2
<1>5. \A i \in 1..Len(s) : r[i] = s[i]
  BY <1>2, <1>3
<1>6. \A i \in 1..Len(t) : r[Len(s) + i] = t[i]
  BY <1>2, <1>3
<1>7. s \o t = r
  BY <1>1, <1>4, <1>5, <1>6, ConcatIs
<1> QED
  BY <1>7 DEF r, s, t

LEMMA Lists31 ==
    ASSUME NEW a, NEW b, NEW c, NEW d
    PROVE  <<a, b, c>> \o <<d>> = <<a, b, c, d>>
<1> DEFINE S == {a, b, c, d}
           s == <<a, b, c>>
           t == <<d>>
           r == <<a, b, c, d>>
<1>1. s \in Seq(S) /\ t \in Seq(S) /\ r \in Seq(S)
  OBVIOUS
<1>2. Len(s) = 3 /\ Len(t) = 1 /\ Len(r) = 4
  OBVIOUS
<1>3. /\ r[1] = s[1] /\ r[2] = s[2] /\ r[3] = s[3]
      /\ r[4] = t[1]
  OBVIOUS
<1> HIDE DEF r, s, t, S
<1>4. Len(r) = Len(s) + Len(t)
  BY <1>2
<1>5. \A i \in 1..Len(s) : r[i] = s[i]
  BY <1>2, <1>3
<1>6. \A i \in 1..Len(t) : r[Len(s) + i] = t[i]
  BY <1>2, <1>3
<1>7. s \o t = r
  BY <1>1, <1>4, <1>5, <1>6, ConcatIs
<1> QED
  BY <1>7 DEF r, s, t

LEMMA Lists41 ==
    ASSUME NEW a, NEW b, NEW c, NEW d, NEW e
    PROVE  <<a, b, c, d>> \o <<e>> = <<a, b, c, d, e>>
<1> DEFINE S == {a, b, c, d, e}
           s == <<a, b, c, d>>
           t == <<e>>
           r == <<a, b, c, d, e>>
<1>1. s \in Seq(S) /\ t \in Seq(S) /\ r \in Seq(S)
  OBVIOUS
<1>2. Len(s) = 4 /\ Len(t) = 1 /\ Len(r) = 5
  OBVIOUS
<1>3. /\ r[1] = s[1] /\ r[2] = s[2] /\ r[3] = s[3] /\ r[4] = s[4]
      /\ r[5] = t[1]
  OBVIOUS
<1> HIDE DEF r, s, t, S
<1>4. Len(r) = Len(s) + Len(t)
  BY <1>2
<1>5. \A i \in 1..Len(s) : r[i] = s[i]
  BY <1>2, <1>3
<1>6. \A i \in 1..Len(t) : r[Len(s) + i] = t[i]
  BY <1>2, <1>3
<1>7. s \o t = r
  BY <1>1, <1>4, <1>5, <1>6, ConcatIs
<1> QED
  BY <1>7 DEF r, s, t

LEMMA Lists51 ==
    ASSUME NEW a, NEW b, NEW c, NEW d, NEW e, NEW f
    PROVE  <<a, b, c, d, e>> \o <<f>> = <<a, b, c, d, e, f>>
<1> DEFINE S == {a, b, c, d, e, f}
           s == <<a, b, c, d, e>>
           t == <<f>>
           r == <<a, b, c, d, e, f>>
<1>1. s \in Seq(S) /\ t \in Seq(S) /\ r \in Seq(S)
  OBVIOUS
<1>2. Len(s) = 5 /\ Len(t) = 1 /\ Len(r) = 6
  OBVIOUS
<1>3. /\ r[1] = s[1] /\ r[2] = s[2] /\ r[3] = s[3] /\ r[4] = s[4] /\ r[5] = s[5]
      /\ r[6] = t[1]
  OBVIOUS
<1> HIDE DEF r, s, t, S
<1>4. Len(r) = Len(s) + Len(t)
  BY <1>2
<1>5. \A i \in 1..Len(s) : r[i] = s[i]
  BY <1>2, <1>3
<1>6. \A i \in 1..Len(t) : r[Len(s) + i] = t[i]
  BY <1>2, <1>3
<1>7. s \o t = r
  BY <1>1, <1>4, <1>5, <1>6, ConcatIs
<1> QED
  BY <1>7 DEF r, s, t

----------------------------------------------------------------------------
(* The tree.                                                                *)

LEMMA FileStays ==
    ASSUME NEW e, FileOf(e).dir = FALSE
    PROVE  add_files_to_zip({e}) = {e}
  BY DEF add_files_to_zip, Opened

\* What opening makes of a set of entries it makes of each of them.
Twice(entries) == add_files_to_zip(add_files_to_zip(entries))

LEMMA OneByOne ==
    ASSUME NEW A, NEW e
    PROVE  e \in add_files_to_zip(A) <=> \E a \in A : e \in add_files_to_zip({a})
  BY DEF add_files_to_zip

LEMMA TwiceOneByOne ==
    ASSUME NEW A, NEW e
    PROVE  e \in Twice(A) <=> \E a \in A : e \in Twice({a})
<1>1. e \in Twice(A) <=> \E b \in add_files_to_zip(A) : e \in add_files_to_zip({b})
  BY Zenon, OneByOne DEF Twice
<1>2. \A b : b \in add_files_to_zip(A) <=> \E a \in A : b \in add_files_to_zip({a})
  BY Zenon, OneByOne
<1>3. \A a : e \in Twice({a})
          <=> \E b \in add_files_to_zip({a}) : e \in add_files_to_zip({b})
  BY Zenon, OneByOne DEF Twice
<1> QED
  BY Zenon, <1>1, <1>2, <1>3

LEMMA DirectoryOpens ==
    ASSUME NEW place, NEW path, NEW name, NEW files
    PROVE  add_files_to_zip({Entry(place, path, Directory(name, files))})
              = {Entry(Append(place, i), Joined(path, files[i].name), files[i]) : i \in DOMAIN files}
<1> DEFINE e == Entry(place, path, Directory(name, files))
<1>1. e[1] = place /\ PathOf(e) = path /\ FileOf(e).dir = TRUE /\ FileOf(e).contents = files
  BY DEF Entry, PathOf, FileOf, Directory
<1> HIDE DEF e
<1>2. Opened(e) = {Entry(Append(place, i), Joined(path, files[i].name), files[i]) : i \in DOMAIN files}
  BY Zenon, <1>1 DEF Opened
<1>3. add_files_to_zip({e}) = Opened(e)
  BY DEF add_files_to_zip
<1> QED
  BY Zenon, <1>2, <1>3 DEF e

\* Each entry of a folder becomes one file, which is the leaf with its number.
LeavesAre(place, path, files, leaf) ==
    \A i \in DOMAIN files :
       Twice({Entry(Append(place, i), Joined(path, files[i].name), files[i])}) = {leaf[i]}

\* The folder becomes those files.
LEMMA FolderOpens ==
    ASSUME NEW place, NEW path, NEW name, NEW files, NEW leaf,
           LeavesAre(place, path, files, leaf)
    PROVE  Twice(add_files_to_zip({Entry(place, path, Directory(name, files))}))
              = {leaf[i] : i \in DOMAIN files}
<1> DEFINE D == DOMAIN files
           g == [i \in D |-> Entry(Append(place, i), Joined(path, files[i].name), files[i])]
           A == {g[i] : i \in D}
<1>1. add_files_to_zip({Entry(place, path, Directory(name, files))}) = A
  <2>1. A = {Entry(Append(place, i), Joined(path, files[i].name), files[i]) : i \in DOMAIN files}
    BY Zenon
  <2> QED
    BY <2>1, DirectoryOpens
<1>2. \A i \in D : Twice({g[i]}) = {leaf[i]}
  BY Zenon DEF LeavesAre
<1> HIDE DEF g, D
<1>3. ASSUME NEW e PROVE e \in Twice(A) <=> e \in {leaf[i] : i \in D}
  <2>1. e \in Twice(A) <=> \E a \in A : e \in Twice({a})
    BY Zenon, TwiceOneByOne
  <2>2. (\E a \in A : e \in Twice({a})) <=> \E i \in D : e \in Twice({g[i]})
    BY Zenon
  <2> QED
    BY Zenon, <1>2, <2>1, <2>2
<1>4. Twice(A) = {leaf[i] : i \in D}
  BY Zenon, <1>3
<1> QED
  BY Zenon, <1>1, <1>4 DEF D

\* An entry that is a file, or directories with one file at the end of them.
LEMMA FileLeaf ==
    ASSUME NEW place, NEW path, NEW name, NEW contents
    PROVE  Twice({Entry(place, path, File(name, contents))})
              = {Entry(place, path, File(name, contents))}
<1> DEFINE e == Entry(place, path, File(name, contents))
<1>1. FileOf(e).dir = FALSE
  BY DEF Entry, FileOf, File
<1> HIDE DEF e
<1>2. Twice({e}) = {e}
  BY Zenon, <1>1, FileStays DEF Twice
<1> QED
  BY Zenon, <1>2 DEF e

LEMMA OneOpens ==
    ASSUME NEW place, NEW path, NEW name, NEW file
    PROVE  add_files_to_zip({Entry(place, path, Directory(name, <<file>>))})
              = {Entry(Append(place, 1), Joined(path, file.name), file)}
<1> DEFINE files == <<file>>
<1>1. DOMAIN files = {1} /\ files[1] = file
  OBVIOUS
<1> HIDE DEF files
<1>2. add_files_to_zip({Entry(place, path, Directory(name, files))})
         = {Entry(Append(place, i), Joined(path, files[i].name), files[i]) : i \in DOMAIN files}
  BY DirectoryOpens
<1>3. {Entry(Append(place, i), Joined(path, files[i].name), files[i]) : i \in DOMAIN files}
         = {Entry(Append(place, 1), Joined(path, file.name), file)}
  BY Zenon, <1>1
<1> QED
  BY Zenon, <1>2, <1>3 DEF files

LEMMA DirectoryLeaf ==
    ASSUME NEW place, NEW path, NEW folder, NEW name, NEW contents
    PROVE  Twice({Entry(place, path, Directory(folder, <<File(name, contents)>>))})
              = {Entry(Append(place, 1), Joined(path, name), File(name, contents))}
<1> DEFINE f == File(name, contents)
           e == Entry(Append(place, 1), Joined(path, f.name), f)
<1>1. f.name = name
  BY DEF File
<1>2. add_files_to_zip({Entry(place, path, Directory(folder, <<f>>))}) = {e}
  <2> HIDE DEF f
  <2> QED
    BY ZenonT(60), OneOpens
<1>3. FileOf(e).dir = FALSE
  BY DEF Entry, FileOf, File
<1>4. add_files_to_zip({e}) = {e}
  BY Zenon, <1>3, FileStays
<1> QED
  BY Zenon, <1>1, <1>2, <1>4 DEF Twice

Becomes(entry, leaf) == Twice({entry}) = {leaf}
LEMMA NestedLeaf ==
    ASSUME NEW place, NEW path, NEW outer, NEW inner, NEW name, NEW contents
    PROVE  Becomes(Entry(place, path,
                         Directory(outer, <<Directory(inner, <<File(name, contents)>>)>>)),
                   Entry(Append(Append(place, 1), 1), Joined(Joined(path, inner), name),
                         File(name, contents)))
<1> DEFINE f == File(name, contents)
           d == Directory(inner, <<f>>)
<1>1. f.name = name /\ d.name = inner
  BY DEF File, Directory
<1>2. add_files_to_zip({Entry(place, path, Directory(outer, <<d>>))})
         = {Entry(Append(place, 1), Joined(path, d.name), d)}
  <2> HIDE DEF d
  <2> QED
    BY ZenonT(60), OneOpens
<1>3. ASSUME NEW p, NEW q
      PROVE  add_files_to_zip({Entry(p, q, d)}) = {Entry(Append(p, 1), Joined(q, f.name), f)}
  <2> HIDE DEF f
  <2> QED
    BY ZenonT(60), OneOpens
<1> HIDE DEF d, f
<1> QED
  BY Zenon, <1>1, <1>2, <1>3 DEF Becomes, Twice, d, f

\* What an archive holds is what its folders hold.
Inside(place, folder) == Twice(add_files_to_zip({Entry(place, folder.name, folder)}))

LEMMA InsideFolder ==
    ASSUME NEW place, NEW name, NEW files, NEW leaf, LeavesAre(place, name, files, leaf)
    PROVE  Inside(place, Directory(name, files)) = {leaf[i] : i \in DOMAIN files}
<1>1. Directory(name, files).name = name
  BY DEF Directory
<1>2. Inside(place, Directory(name, files))
         = Twice(add_files_to_zip({Entry(place, name, Directory(name, files))}))
  BY <1>1 DEF Inside
<1> QED
  BY <1>2, FolderOpens

LEMMA RootEmpty == Entries(Directory(<<>>, <<>>)) = {}
<1> DEFINE files == <<>>
           z == <<>>
           E == {Entry(z, z, Directory(z, files))}
<1>1. DOMAIN files = {}
  OBVIOUS
<1> HIDE DEF files, z
<1>2. add_files_to_zip(E)
         = {Entry(Append(z, i), Joined(z, files[i].name), files[i]) : i \in DOMAIN files}
  BY DirectoryOpens
<1>3. add_files_to_zip(E) = {}
  BY <1>1, <1>2
<1>4. add_files_to_zip({}) = {}
  BY DEF add_files_to_zip
<1> HIDE DEF E
<1>5. Entries(Directory(z, files)) = {}
  BY Zenon, <1>3, <1>4 DEF Entries, E, z
<1> QED
  BY Zenon, <1>5 DEF files, z

LEMMA RootOne ==
    ASSUME NEW f
    PROVE  Entries(Directory(<<>>, <<f>>)) = Inside(Append(<<>>, 1), f)
<1> DEFINE z == <<>>
<1>1. Joined(z, f.name) = f.name
  BY DEF Joined
<1> HIDE DEF z
<1>2. add_files_to_zip({Entry(z, z, Directory(z, <<f>>))}) = {Entry(Append(z, 1), f.name, f)}
  <2>1. add_files_to_zip({Entry(z, z, Directory(z, <<f>>))})
           = {Entry(Append(z, 1), Joined(z, f.name), f)}
    BY OneOpens
  <2> QED
    BY Zenon, <1>1, <2>1
<1>3. Entries(Directory(z, <<f>>)) = Inside(Append(z, 1), f)
  BY Zenon, <1>2 DEF Entries, Inside, Twice, z
<1> QED
  BY Zenon, <1>3 DEF z

LEMMA RootTwo ==
    ASSUME NEW f, NEW g
    PROVE  Entries(Directory(<<>>, <<f, g>>)) = Inside(Append(<<>>, 1), f) \cup Inside(Append(<<>>, 2), g)
<1> DEFINE z == <<>>
           files == <<f, g>>
           E == {Entry(z, z, Directory(z, files))}
           a == Entry(Append(z, 1), f.name, f)
           b == Entry(Append(z, 2), g.name, g)
<1>1. DOMAIN files = {1, 2} /\ files[1] = f /\ files[2] = g
  OBVIOUS
<1>2. \A x : Joined(z, x) = x
  BY DEF Joined
<1> HIDE DEF files, z
<1>3. add_files_to_zip(E)
         = {Entry(Append(z, i), Joined(z, files[i].name), files[i]) : i \in DOMAIN files}
  BY DirectoryOpens
<1>4. add_files_to_zip(E) = {a, b}
  <2>1. Entry(Append(z, 1), Joined(z, files[1].name), files[1]) = a
    BY Zenon, <1>1, <1>2
  <2>2. Entry(Append(z, 2), Joined(z, files[2].name), files[2]) = b
    BY Zenon, <1>1, <1>2
  <2> HIDE DEF a, b, E
  <2> QED
    BY <1>1, <1>3, <2>1, <2>2
<1>5. add_files_to_zip({a, b}) = add_files_to_zip({a}) \cup add_files_to_zip({b})
  <2> HIDE DEF a, b
  <2> QED
    BY Zenon DEF add_files_to_zip
<1>6. \A A, B : Twice(A \cup B) = Twice(A) \cup Twice(B)
  <2> TAKE A, B
  <2>1. ASSUME NEW e PROVE e \in Twice(A \cup B) <=> e \in Twice(A) \cup Twice(B)
    <3>1. \A C : e \in Twice(C) <=> \E c \in C : e \in Twice({c})
      BY Zenon, TwiceOneByOne
    <3> HIDE DEF Twice
    <3> QED
      BY Zenon, <3>1
  <2> QED
    BY Zenon, <2>1
<1> HIDE DEF E, a, b
<1>7. Entries(Directory(z, files)) = Twice(add_files_to_zip(add_files_to_zip(E)))
  BY Zenon DEF Entries, Twice, E, z
<1>8. Entries(Directory(z, files)) = Twice(add_files_to_zip({a})) \cup Twice(add_files_to_zip({b}))
  <2>1. Twice(add_files_to_zip(add_files_to_zip(E)))
           = Twice(add_files_to_zip({a}) \cup add_files_to_zip({b}))
    BY Zenon, <1>4, <1>5
  <2> QED
    BY Zenon, <1>6, <1>7, <2>1
<1> QED
  BY Zenon, <1>8 DEF Inside, a, b, files, z

----------------------------------------------------------------------------
(* Folders at the root.                                                     *)

\* R is what the folder f holds, with the manifest m among it.
FolderHolds(f, R, m) ==
    /\ f # "/"
    /\ \A e \in R : FileOf(e).dir = FALSE /\ Head(PathOf(e)) = f
    /\ \A a, b \in R : PathOf(a) = PathOf(b) => a = b
    /\ \E e \in R : PathOf(e) = ManifestOf(f) /\ FileOf(e).contents = m

\* ZipPaths and Manifests, of any archive.
PathsOf(R) ==
    /\ \A a, b \in R : PathOf(a) = PathOf(b) => a = b
    /\ \A e \in R :
          /\ ~FileOf(e).dir /\ Head(PathOf(e)) # "/"
          /\ \E b \in R : PathOf(b) = ManifestOf(Head(PathOf(e)))
ManifestsOf(R) == {FileOf(e).contents : e \in {e \in R : PathOf(e) = ManifestOf(Head(PathOf(e)))}}

\* An archive whose manifests are M; one that has a file.
ArchiveWith(R, M) == PathsOf(R) /\ ManifestsOf(R) = M
HasFile(R, path, contents) == \E e \in R : PathOf(e) = path /\ FileOf(e).contents = contents

\* The file at the path is then the one there.
LEMMA FileAt ==
    ASSUME NEW path, NEW contents, PathsOf(result), HasFile(result, path, contents)
    PROVE  At(path) = contents
<1>1. PICK e \in result : PathOf(e) = path /\ FileOf(e).contents = contents
  BY DEF HasFile
<1>2. \A b \in result : PathOf(b) = path => b = e
  BY <1>1 DEF PathsOf
<1>3. (CHOOSE b \in result : PathOf(b) = path) = e
  BY Zenon, <1>1, <1>2
<1> QED
  BY Zenon, <1>1, <1>3 DEF At

LEMMA OneFolder ==
    ASSUME NEW f, NEW R, NEW m, FolderHolds(f, R, m)
    PROVE  ArchiveWith(R, {m})
<1>1. PathsOf(R)
  <2>1. ASSUME NEW e \in R
        PROVE  /\ ~FileOf(e).dir /\ Head(PathOf(e)) # "/"
               /\ \E b \in R : PathOf(b) = ManifestOf(Head(PathOf(e)))
    <3>1. FileOf(e).dir = FALSE /\ Head(PathOf(e)) = f /\ f # "/"
      BY DEF FolderHolds
    <3>2. \E b \in R : PathOf(b) = ManifestOf(f)
      BY DEF FolderHolds
    <3> QED
      BY <3>1, <3>2
  <2>2. \A a, b \in R : PathOf(a) = PathOf(b) => a = b
    BY Zenon DEF FolderHolds
  <2> QED
    BY Zenon, <2>1, <2>2 DEF PathsOf
<1>2. PICK e \in R : PathOf(e) = ManifestOf(f) /\ FileOf(e).contents = m
  BY Zenon DEF FolderHolds
<1>3. \A b \in R : PathOf(b) = ManifestOf(Head(PathOf(b))) <=> b = e
  BY Zenon, <1>2 DEF FolderHolds
<1>4. ManifestsOf(R) = {m}
  BY Zenon, <1>2, <1>3 DEF ManifestsOf
<1> QED
  BY <1>1, <1>4 DEF ArchiveWith

LEMMA TwoFolders ==
    ASSUME NEW f, NEW g, f # g, NEW R, NEW T, NEW m, NEW n,
           FolderHolds(f, R, m), FolderHolds(g, T, n)
    PROVE  ArchiveWith(R \cup T, {m, n})
<1>1. PathsOf(R \cup T)
  <2>1. ASSUME NEW a \in R \cup T, NEW b \in R \cup T, PathOf(a) = PathOf(b) PROVE a = b
    BY Zenon, <2>1 DEF FolderHolds
  <2>2. ASSUME NEW e \in R \cup T
        PROVE  /\ ~FileOf(e).dir /\ Head(PathOf(e)) # "/"
               /\ \E b \in R \cup T : PathOf(b) = ManifestOf(Head(PathOf(e)))
    BY Zenon DEF FolderHolds
  <2> QED
    BY Zenon, <2>1, <2>2 DEF PathsOf
<1>2. ManifestsOf(R) = {m} /\ ManifestsOf(T) = {n}
  BY Zenon, OneFolder DEF ArchiveWith
<1>3. ManifestsOf(R \cup T) = ManifestsOf(R) \cup ManifestsOf(T)
  BY Zenon DEF ManifestsOf
<1>4. ManifestsOf(R \cup T) = {m, n}
  BY Zenon, <1>2, <1>3
<1> QED
  BY Zenon, <1>1, <1>4 DEF ArchiveWith

\* The words of paths: any string, and those of the packs.
Words ==
    STRING \cup
    {"/", "manifest.json", "pack_icon.png", "rp", "bp", "resource", "behavior", "textures",
     "item_texture.json", "items", ".item.json", ".png", "resource_pack", "behavior_pack",
     "entity", "models", "texts", "en_US.lang", ".client.json", "render_controllers",
     ".render_controllers.json", "entities", ".json", ".texture", "2uby", "'host", "ghost", "ruby"}

LEMMA Word ==
    ASSUME NEW a \in Words
    PROVE  <<a>> \in Seq(Words) /\ <<a>> # <<>> /\ <<a>>[1] = a /\ Last(<<a>>) = a
<1>1. <<a>> \in Seq(Words) /\ <<a>>[1] = a /\ Len(<<a>>) = 1 /\ Len(<<>>) = 0
  OBVIOUS
<1> QED
  BY Zenon, <1>1 DEF Last

\* Paths within a folder.
LEMMA PathInside ==
    ASSUME NEW f \in Words, NEW name \in Seq(Words), name # <<>>
    PROVE  LET path == Joined(<<f>>, name)
           IN  /\ path = <<f, "/">> \o name /\ path \in Seq(Words) /\ path # <<>>
               /\ Head(path) = f /\ path[3] = name[1] /\ Last(path) = Last(name)
<1> DEFINE path == <<f, "/">> \o name
<1>1. Joined(<<f>>, name) = path
  BY Lists11 DEF Joined
<1>2. path \in Seq(Words) /\ path[1] = f /\ path[3] = name[1] /\ Len(path) >= 2
  <2>1. "/" \in Words
    BY DEF Words
  <2> QED
    BY <2>1
<1>4. path # <<>> /\ Head(path) = f
  BY <1>2
<1>3. Last(path) = Last(name)
  <2>1. "/" \in Words
    BY DEF Words
  <2> QED
    BY <2>1 DEF Last
<1> QED
  BY <1>1, <1>2, <1>3, <1>4

LEMMA ManifestPath ==
    ASSUME NEW f \in Words
    PROVE  Joined(<<f>>, <<"manifest.json">>) = ManifestOf(f) /\ Head(ManifestOf(f)) = f
<1>1. Joined(<<f>>, <<"manifest.json">>) = <<f>> \o <<"/">> \o <<"manifest.json">>
  BY DEF Joined
<1> DEFINE slash == "/"
           name == "manifest.json"
<1>2. <<f>> \o <<slash>> \o <<name>> = <<f, slash, name>>
  <2> HIDE DEF slash, name
  <2>1. <<f>> \o <<slash>> = <<f, slash>>
    BY Lists11
  <2>2. <<f, slash>> \o <<name>> = <<f, slash, name>>
    BY Lists21
  <2> QED
    BY <2>1, <2>2
<1> QED
  BY <1>1, <1>2 DEF ManifestOf

\* The folders of /manifest: a manifest, and an icon if there is one.
LEMMA PackFolder ==
    ASSUME NEW place, NEW f \in Words, f # "/", NEW icon \in BOOLEAN, NEW m
    PROVE  FolderHolds(f,
              Inside(place, Directory(<<f>>, <<File(<<"manifest.json">>, m)>>
                                               \o (IF icon THEN <<Icon>> ELSE <<>>))), m)
<1> DEFINE mname == <<"manifest.json">>
           M == File(mname, m)
           files == <<M>> \o (IF icon THEN <<Icon>> ELSE <<>>)
           a == Entry(Append(place, 1), ManifestOf(f), M)
           b == Entry(Append(place, 2), Joined(<<f>>, <<"pack_icon.png">>), Icon)
           leaf == <<a, b>>
           R == Inside(place, Directory(<<f>>, files))
<1>1. leaf[1] = a /\ leaf[2] = b
  OBVIOUS
<1>2. /\ DOMAIN files = IF icon THEN {1, 2} ELSE {1}
      /\ files[1] = M /\ (icon => files[2] = Icon)
  <2>1. CASE icon
    <3>1. files = <<M, Icon>>
      BY <2>1, Lists11
    <3> HIDE DEF M
    <3> QED
      BY <2>1, <3>1
  <2>2. CASE ~icon
    <3>1. files = <<M>>
      BY <2>2
    <3> HIDE DEF M
    <3> QED
      BY <2>2, <3>1
  <2> QED
    BY <2>1, <2>2
<1>3. M.name = <<"manifest.json">> /\ M.contents = m /\ M.dir = FALSE
  BY DEF File
<1>4. Icon.name = <<"pack_icon.png">> /\ Icon.dir = FALSE
  BY DEF File, Icon
<1>5. Twice({Entry(Append(place, 1), Joined(<<f>>, M.name), M)}) = {a}
  <2>1. Joined(<<f>>, M.name) = ManifestOf(f)
    BY Zenon, <1>3, ManifestPath
  <2> HIDE DEF mname
  <2>2. Twice({Entry(Append(place, 1), ManifestOf(f), M)}) = {a}
    BY FileLeaf
  <2> QED
    BY Zenon, <2>1, <2>2
<1>6. Twice({Entry(Append(place, 2), Joined(<<f>>, Icon.name), Icon)}) = {b}
  <2> DEFINE name == <<"pack_icon.png">>
             what == "icon"
  <2>1. Icon = File(name, what) /\ Icon.name = name
    BY <1>4 DEF Icon
  <2> HIDE DEF name, what
  <2>2. Twice({Entry(Append(place, 2), Joined(<<f>>, name), File(name, what))})
           = {Entry(Append(place, 2), Joined(<<f>>, name), File(name, what))}
    BY FileLeaf
  <2> QED
    BY Zenon, <2>1, <2>2 DEF name
<1>7. /\ PathOf(a) = ManifestOf(f) /\ FileOf(a) = M
      /\ PathOf(b) = Joined(<<f>>, <<"pack_icon.png">>) /\ FileOf(b) = Icon
  BY DEF Entry, PathOf, FileOf
<1>8. Head(PathOf(a)) = f /\ Head(PathOf(b)) = f /\ PathOf(a) # PathOf(b)
  <2> DEFINE name == <<"pack_icon.png">>
  <2>1. name \in Seq(Words) /\ name # <<>> /\ name[1] = "pack_icon.png"
    <3>1. "pack_icon.png" \in Words
      BY DEF Words
    <3> QED
      BY <3>1, Word
  <2> HIDE DEF name
  <2>2. Head(Joined(<<f>>, name)) = f /\ Joined(<<f>>, name)[3] = "pack_icon.png"
    BY <2>1, PathInside
  <2>3. ManifestOf(f)[3] = "manifest.json"
    BY DEF ManifestOf
  <2> QED
    BY <1>7, <2>2, <2>3, ManifestPath DEF name
<1> HIDE DEF M, mname, files, a, b, leaf
<1>9. R = {leaf[i] : i \in DOMAIN files}
  <2>1. \A i \in DOMAIN files :
           Twice({Entry(Append(place, i), Joined(<<f>>, files[i].name), files[i])}) = {leaf[i]}
    BY Zenon, <1>1, <1>2, <1>5, <1>6
  <2> DEFINE g == <<f>>
  <2>3. LeavesAre(place, g, files, leaf)
    BY <2>1 DEF LeavesAre
  <2> HIDE DEF g
  <2>4. Inside(place, Directory(g, files)) = {leaf[i] : i \in DOMAIN files}
    BY <2>3, InsideFolder
  <2> QED
    BY <2>4 DEF g
<1>10. a \in R /\ R \subseteq {a, b}
  BY Zenon, <1>1, <1>2, <1>9
<1> HIDE DEF R
<1>11. FolderHolds(f, R, m)
  BY Zenon, <1>3, <1>4, <1>7, <1>8, <1>10 DEF FolderHolds
<1> QED
  BY <1>11 DEF R, files, M, mname

----------------------------------------------------------------------------
(* Manifests.                                                               *)

\* The UUIDs of a manifest: its own, those it depends on, those of its modules.
Needs(m) == {d.uuid : d \in ToSet(m.dependencies)}
DistinctModules(m) ==
    \A i, j \in DOMAIN m.modules :
       (m.modules[i].uuid = m.modules[j].uuid /\ m.modules[i] # NoModule) => i = j
ModuleIds(m) == {m.modules[i].uuid : i \in DOMAIN m.modules}

LEMMA NeedsOne ==
    ASSUME NEW d, NEW m, m.dependencies = <<d>>
    PROVE  Needs(m) = {d.uuid}
<1>1. ToSet(m.dependencies) = {d}
  BY DEF ToSet
<1> QED
  BY <1>1 DEF Needs

LEMMA NeedsTwo ==
    ASSUME NEW d, NEW e, NEW m, m.dependencies = <<d, e>>
    PROVE  Needs(m) = {d.uuid, e.uuid}
<1>1. ToSet(m.dependencies) = {d, e}
  BY DEF ToSet
<1> QED
  BY <1>1 DEF Needs

LEMMA NeedsNone ==
    ASSUME NEW m, m.dependencies = <<>>
    PROVE  Needs(m) = {}
<1>1. ToSet(m.dependencies) = {}
  BY DEF ToSet
<1> QED
  BY <1>1 DEF Needs

\* The manifests of items and entities.
CommonFacts(both, m) ==
    /\ m.rp.uuid = 2 /\ m.bp.uuid = 1
    /\ Needs(m.rp) = IF both THEN {1} ELSE {}
    /\ Needs(m.bp) = IF both THEN {2} ELSE {}
    /\ m.rp.modules = <<Module("resources", 4)>>
    /\ m.bp.modules = <<Module("data", 3)>>

LEMMA CommonManifests ==
    ASSUME NEW both \in BOOLEAN
    PROVE  CommonFacts(both, genManifest(both))
<1> DEFINE v == <<0, 0, 1>>
           bm == <<Module("data", 3)>>
           rm == <<Module("resources", 4)>>
           bp == Pack(1, v, bm)
           rp == Pack(2, v, rm)
           m == genManifest(both)
<1>1. m = IF both THEN Link(rp, bp) ELSE [rp |-> rp, bp |-> bp]
  BY DEF genManifest
<1> HIDE DEF v, bm, rm, m
<1>2. /\ rp.uuid = 2 /\ rp.modules = rm /\ rp.dependencies = <<>>
      /\ bp.uuid = 1 /\ bp.modules = bm /\ bp.dependencies = <<>>
  BY DEF Pack
<1>3. ASSUME both PROVE CommonFacts(both, m)
  <2>1. /\ m.rp = [rp EXCEPT !.dependencies = <<Dependency(bp.uuid, rp.version)>>]
        /\ m.bp = [bp EXCEPT !.dependencies = <<Dependency(rp.uuid, rp.version)>>]
    BY <1>1, <1>3 DEF Link
  <2>2. /\ m.rp.uuid = 2 /\ m.rp.modules = rm /\ m.bp.uuid = 1 /\ m.bp.modules = bm
        /\ m.rp.dependencies = <<Dependency(bp.uuid, rp.version)>>
        /\ m.bp.dependencies = <<Dependency(rp.uuid, rp.version)>>
    BY <1>2, <2>1 DEF Pack
  <2> DEFINE d == Dependency(bp.uuid, rp.version)
             e == Dependency(rp.uuid, rp.version)
  <2>3. d.uuid = bp.uuid /\ e.uuid = rp.uuid
    BY DEF Dependency
  <2> HIDE DEF d, e, bp, rp
  <2>4. Needs(m.rp) = {bp.uuid} /\ Needs(m.bp) = {rp.uuid}
    <3>1. Needs(m.rp) = {d.uuid}
      BY <2>2, NeedsOne DEF d
    <3>2. Needs(m.bp) = {e.uuid}
      BY <2>2, NeedsOne DEF e
    <3> QED
      BY <2>3, <3>1, <3>2
  <2> QED
    BY <1>2, <1>3, <2>2, <2>4 DEF bm, rm, CommonFacts
<1>4. ASSUME ~both PROVE CommonFacts(both, m)
  <2>1. m.rp = rp /\ m.bp = bp
    BY <1>1, <1>4
  <2> QED
    BY <1>2, <1>4, <2>1, NeedsNone DEF bm, rm, CommonFacts
<1> QED
  BY <1>3, <1>4 DEF m

\* The manifest of a lone pack.
LEMMA LoneManifest ==
    ASSUME NEW o, o.pack_type \in Types, o.pack_use_gametest \in BOOLEAN
    PROVE  LET m == generate_nondependent(o)
           IN  /\ m.uuid = 1 /\ 1 \notin Needs(m) /\ 1 \notin ModuleIds(m)
               /\ DistinctModules(m)
<1> DEFINE m == generate_nondependent(o)
           scripts == o.pack_type = "scripts"
           gametest == o.pack_use_gametest /\ o.pack_type \in {"data", "scripts"}
           first == Module(IF scripts THEN "data" ELSE o.pack_type, 2)
           second == Module("client_data", 3)
           Own == <<first>> \o (IF scripts THEN <<second>> ELSE <<>>)
           Past == 1 + Len(Own)
           game == Module("javascript", Past + 3)
           modules == Own \o (IF gametest THEN <<game>> ELSE <<>>)
           v == <<0, 1, 0>>
           needs == IF gametest THEN <<Dependency(Past + 1, v), Dependency(Past + 2, v)>> ELSE <<>>
<1>1. /\ m.uuid = 1 /\ m.modules = modules /\ m.dependencies = needs
  BY DEF generate_nondependent, Pack
<1>2. \A t, u : Module(t, u).uuid = u /\ (Module(t, u) = NoModule => u = 0)
  BY DEF Module, NoModule
<1>3. \A u, w : Dependency(u, w).uuid = u
  BY DEF Dependency
<1> HIDE DEF m, v, first, second
<1>4. Own = (IF scripts THEN <<first, second>> ELSE <<first>>)
  <2>1. <<first>> \o <<second>> = <<first, second>>
    BY Lists11
  <2>2. <<first>> \o <<>> = <<first>>
    OBVIOUS
  <2> QED
    BY Zenon, <2>1, <2>2
<1>5. Past = IF scripts THEN 3 ELSE 2
  BY <1>4
<1>6. first.uuid = 2 /\ second.uuid = 3
  BY <1>2 DEF first, second
<1> HIDE DEF Own, Past
<1>7. game.uuid = Past + 3
  BY <1>2
<1>8. Needs(m) = IF gametest THEN {Past + 1, Past + 2} ELSE {}
  <2> HIDE DEF gametest
  <2> DEFINE d == Dependency(Past + 1, v)
             e == Dependency(Past + 2, v)
  <2>1. CASE gametest
    <3>1. m.dependencies = <<d, e>> /\ d.uuid = Past + 1 /\ e.uuid = Past + 2
      BY <1>1, <1>3, <2>1
    <3> HIDE DEF d, e
    <3>2. Needs(m) = {d.uuid, e.uuid}
      BY <3>1, NeedsTwo
    <3> QED
      BY <2>1, <3>1, <3>2
  <2>2. CASE ~gametest
    <3>1. m.dependencies = <<>>
      BY <1>1, <2>2
    <3>2. Needs(m) = {}
      BY <3>1, NeedsNone
    <3> QED
      BY <2>2, <3>2
  <2> QED
    BY <2>1, <2>2
<1> HIDE DEF game
<1>9. modules = IF scripts THEN IF gametest THEN <<first, second, game>> ELSE <<first, second>>
                           ELSE IF gametest THEN <<first, game>> ELSE <<first>>
  <2>1. <<first, second>> \o <<game>> = <<first, second, game>>
    BY Lists21
  <2>2. <<first>> \o <<game>> = <<first, game>>
    BY Lists11
  <2>3. <<first, second>> \o <<>> = <<first, second>> /\ <<first>> \o <<>> = <<first>>
    OBVIOUS
  <2> QED
    BY Zenon, <1>4, <2>1, <2>2, <2>3
<1> HIDE DEF scripts, gametest, modules
<1>10. 1 \notin ModuleIds(m) /\ DistinctModules(m)
  <2>1. CASE scripts /\ gametest
    BY <1>1, <1>5, <1>6, <1>7, <1>9, <2>1 DEF ModuleIds, DistinctModules
  <2>2. CASE scripts /\ ~gametest
    BY <1>1, <1>6, <1>9, <2>2 DEF ModuleIds, DistinctModules
  <2>3. CASE ~scripts /\ gametest
    BY <1>1, <1>5, <1>6, <1>7, <1>9, <2>3 DEF ModuleIds, DistinctModules
  <2>4. CASE ~scripts /\ ~gametest
    BY <1>1, <1>6, <1>9, <2>4 DEF ModuleIds, DistinctModules
  <2> QED
    BY <2>1, <2>2, <2>3, <2>4
<1>11. 1 \notin Needs(m)
  BY <1>5, <1>8
<1> QED
  BY SMTT(60), <1>1, <1>10, <1>11 DEF m

\* The two manifests of a pair: rp's UUIDs are between those of bp.
PairFacts(scripts, gametest, m) ==
    LET Ahead == IF scripts THEN 3 ELSE 2
    IN  /\ m.rp.uuid = Ahead + 1 /\ m.bp.uuid = 1
        /\ Needs(m.rp) = {1}
        /\ Needs(m.bp) = IF gametest THEN {Ahead + 3, Ahead + 4} ELSE {Ahead + 1}
        /\ m.rp.modules = <<Module("resources", Ahead + 2)>>
        /\ ModuleIds(m.bp) \subseteq {2, 3, Ahead + 5, 0} /\ DistinctModules(m.bp)
        /\ ~scripts => 3 \notin ModuleIds(m.bp)

LEMMA PairManifests ==
    ASSUME NEW o, o.bp_use_scripts \in BOOLEAN, o.bp_use_gametest \in BOOLEAN
    PROVE  PairFacts(o.bp_use_scripts, o.bp_use_gametest, generate_dependent(o))
<1> DEFINE m == generate_dependent(o)
           Ahead == IF o.bp_use_scripts THEN 3 ELSE 2
           scripts == o.bp_use_scripts
           gametest == o.bp_use_gametest
           Optional == (IF scripts THEN <<"client_data">> ELSE <<>>)
                         \o (IF gametest THEN <<"javascript">> ELSE <<>>)
           uuid(type) == IF type = "javascript" THEN Ahead + 5 ELSE 3
           more == [i \in DOMAIN Optional |-> Module(Optional[i], uuid(Optional[i]))]
           first == Module("data", 2)
           cd == Module("client_data", 3)
           js == Module("javascript", Ahead + 5)
           bm == <<first>> \o more \o <<NoModule>>
           rm == <<Module("resources", Ahead + 2)>>
           v == <<1, 0, 0>>
           w == <<0, 1, 0>>
           rv == split_version(o.rp_version)
           bv == split_version(o.bp_version)
           ra == Authors(o.rp_use_metadata, o.rp_authors)
           ba == Authors(o.bp_use_metadata, o.bp_authors)
           bp == [Pack(1, v, bm) EXCEPT !.engine = bv, !.authors = ba]
           rp == [Pack(Ahead + 1, v, rm) EXCEPT !.engine = rv, !.authors = ra]
           linked == Link(rp, bp)
           d == Dependency(Ahead + 3, w)
           e == Dependency(Ahead + 4, w)
<1>1. m = IF ~gametest THEN linked ELSE [linked EXCEPT !.bp.dependencies = <<d, e>>]
  BY DEF generate_dependent
<1> HIDE DEF m, v, bm, rm, rv, bv, ra, ba
<1>2. /\ rp.uuid = Ahead + 1 /\ rp.modules = rm /\ bp.uuid = 1 /\ bp.modules = bm
  BY DEF Pack
<1> DEFINE x == Dependency(bp.uuid, rp.version)
           y == Dependency(rp.uuid, rp.version)
<1>3. x.uuid = bp.uuid /\ y.uuid = rp.uuid /\ d.uuid = Ahead + 3 /\ e.uuid = Ahead + 4
  BY DEF Dependency
<1>4. /\ m.rp = [rp EXCEPT !.dependencies = <<x>>]
      /\ m.bp = IF ~gametest THEN [bp EXCEPT !.dependencies = <<y>>]
                             ELSE [bp EXCEPT !.dependencies = <<d, e>>]
  <2>1. CASE ~gametest
    <3> HIDE DEF rp, bp, x, y
    <3> QED
      BY <1>1, <2>1 DEF Link, x, y
  <2>2. CASE gametest
    <3>1. linked = [rp |-> [rp EXCEPT !.dependencies = <<x>>], bp |-> [bp EXCEPT !.dependencies = <<y>>]]
      <4> HIDE DEF rp, bp
      <4> QED
        BY DEF Link
    <3>2. m = [linked EXCEPT !.bp.dependencies = <<d, e>>]
      BY <1>1, <2>2
    <3> DEFINE b1 == [bp EXCEPT !.dependencies = <<y>>]
               r1 == [rp EXCEPT !.dependencies = <<x>>]
               de == <<d, e>>
    <3>3. [b1 EXCEPT !.dependencies = de] = [bp EXCEPT !.dependencies = de]
      <4> HIDE DEF x, y, d, e, de
      <4> QED
        BY DEF Pack
    <3>4. linked.bp = b1 /\ linked.rp = r1
      <4> HIDE DEF linked, b1, r1
      <4> QED
        BY <3>1 DEF b1, r1
    <3> HIDE DEF linked, b1, r1, de
    <3>5. m.rp = linked.rp /\ m.bp = [linked.bp EXCEPT !.dependencies = de]
      <4>1. linked = [rp |-> r1, bp |-> b1]
        BY <3>1 DEF b1, r1
      <4> QED
        BY <3>2, <4>1 DEF de
    <3> QED
      BY <2>2, <3>3, <3>4, <3>5 DEF r1, de
  <2> QED
    BY <2>1, <2>2
<1>5. /\ m.rp.uuid = Ahead + 1 /\ m.rp.modules = rm /\ m.rp.dependencies = <<x>>
      /\ m.bp.uuid = 1 /\ m.bp.modules = bm
      /\ m.bp.dependencies = IF ~gametest THEN <<y>> ELSE <<d, e>>
  <2> HIDE DEF x, y, d, e
  <2> QED
    BY <1>4 DEF Pack
<1> HIDE DEF x, y, d, e, rp, bp
<1>6. Needs(m.rp) = {1}
  BY <1>2, <1>3, <1>5, NeedsOne
<1>7. Needs(m.bp) = IF gametest THEN {Ahead + 3, Ahead + 4} ELSE {Ahead + 1}
  <2>1. CASE gametest
    <3>1. Needs(m.bp) = {d.uuid, e.uuid}
      BY <1>5, <2>1, NeedsTwo
    <3> QED
      BY <1>3, <2>1, <3>1
  <2>2. CASE ~gametest
    <3>1. Needs(m.bp) = {y.uuid}
      BY SMTT(60), <1>5, <2>2, NeedsOne
    <3> QED
      BY <1>2, <1>3, <2>2, <3>1
  <2> QED
    BY <2>1, <2>2
<1>8. more = IF scripts THEN IF gametest THEN <<cd, js>> ELSE <<cd>>
                        ELSE IF gametest THEN <<js>> ELSE <<>>
  <2>1. CASE scripts /\ gametest
    <3>1. Optional = <<"client_data", "javascript">>
      BY <2>1, Lists11
    <3> HIDE DEF Optional, Ahead
    <3>2. more = <<cd, js>>
      BY <3>1
    <3> QED
      BY <2>1, <3>2
  <2>2. CASE scripts /\ ~gametest
    <3>1. Optional = <<"client_data">>
      BY <2>2
    <3> HIDE DEF Optional
    <3>2. more = <<cd>>
      BY <3>1
    <3> QED
      BY <2>2, <3>2
  <2>3. CASE ~scripts /\ gametest
    <3>1. Optional = <<"javascript">>
      BY <2>3
    <3> HIDE DEF Optional, Ahead
    <3>2. more = <<js>>
      BY <3>1
    <3> QED
      BY <2>3, <3>2
  <2>4. CASE ~scripts /\ ~gametest
    <3>1. Optional = <<>>
      BY <2>4
    <3> HIDE DEF Optional
    <3>2. more = <<>>
      BY <3>1
    <3> QED
      BY <2>4, <3>2
  <2> QED
    BY <2>1, <2>2, <2>3, <2>4
<1>9. /\ first.uuid = 2 /\ cd.uuid = 3 /\ js.uuid = Ahead + 5 /\ NoModule.uuid = 0
      /\ Ahead \in {2, 3} /\ (~scripts => Ahead = 2)
  BY DEF Module, NoModule
<1> HIDE DEF more, first, cd, js, Ahead
<1> DEFINE nm == NoModule
<1> HIDE DEF nm
<1>10. bm = IF scripts THEN IF gametest THEN <<first, cd, js, nm>> ELSE <<first, cd, nm>>
                       ELSE IF gametest THEN <<first, js, nm>> ELSE <<first, nm>>
  <2>1. <<first>> \o <<cd, js>> = <<first, cd, js>>
    BY Lists12
  <2>2. /\ <<first>> \o <<cd>> = <<first, cd>> /\ <<first>> \o <<js>> = <<first, js>>
        /\ <<first>> \o <<nm>> = <<first, nm>>
    BY Lists11
  <2>3. <<first, cd, js>> \o <<nm>> = <<first, cd, js, nm>>
    BY Lists31
  <2>4. /\ <<first, cd>> \o <<nm>> = <<first, cd, nm>>
        /\ <<first, js>> \o <<nm>> = <<first, js, nm>>
    BY Lists21
  <2>5. <<first>> \o <<>> = <<first>>
    OBVIOUS
  <2>6. bm = <<first>> \o more \o <<nm>>
    BY DEF bm, nm
  <2> QED
    BY Zenon, <1>8, <2>1, <2>2, <2>3, <2>4, <2>5, <2>6
<1>11. /\ ModuleIds(m.bp) \subseteq {2, 3, Ahead + 5, 0} /\ DistinctModules(m.bp)
       /\ ~scripts => 3 \notin ModuleIds(m.bp)
  <2>1. nm.uuid = 0 /\ nm = NoModule
    BY <1>9 DEF nm
  <2> HIDE DEF bm
  <2>2. CASE scripts /\ gametest
    <3>1. m.bp.modules = <<first, cd, js, nm>>
      BY <1>5, <1>10, <2>2
    <3> QED
      BY <1>9, <2>1, <2>2, <3>1 DEF ModuleIds, DistinctModules
  <2>3. CASE scripts /\ ~gametest
    <3>1. m.bp.modules = <<first, cd, nm>>
      BY <1>5, <1>10, <2>3
    <3> QED
      BY <1>9, <2>1, <2>3, <3>1 DEF ModuleIds, DistinctModules
  <2>4. CASE ~scripts /\ gametest
    <3>1. m.bp.modules = <<first, js, nm>>
      BY <1>5, <1>10, <2>4
    <3> QED
      BY <1>9, <2>1, <2>4, <3>1 DEF ModuleIds, DistinctModules
  <2>5. CASE ~scripts /\ ~gametest
    <3>1. m.bp.modules = <<first, nm>>
      BY <1>5, <1>10, <2>5
    <3> QED
      BY <1>9, <2>1, <2>5, <3>1 DEF ModuleIds, DistinctModules
  <2> QED
    BY <2>2, <2>3, <2>4, <2>5
<1>12. PairFacts(scripts, gametest, m)
  BY <1>5, <1>6, <1>7, <1>11 DEF rm, Ahead, PairFacts
<1> QED
  BY <1>12 DEF m

----------------------------------------------------------------------------
(* Names and paths.                                                         *)

LEMMA GreatestElement ==
    ASSUME NEW n \in Nat, NEW I, I \subseteq 1..n, I # {}
    PROVE  Max(I) \in I /\ \A i \in I : Max(I) >= i
<1> DEFINE T == {n - i : i \in I}
<1>0. \A i \in I : i \in Int /\ n - i \in Nat
  <2> SUFFICES ASSUME NEW i \in I PROVE i \in Int /\ n - i \in Nat
    OBVIOUS
  <2>1. i \in 1..n
    OBVIOUS
  <2> QED
    BY <2>1
<1>1. T \subseteq Nat /\ T # {}
  BY <1>0
<1>2. PICK x \in T : \A y \in T : x <= y
  <2> HIDE DEF T
  <2> QED
    BY <1>1, LeastElement
<1>3. PICK i \in I : x = n - i
  OBVIOUS
<1>4. \A j \in I : i >= j
  <2> SUFFICES ASSUME NEW j \in I PROVE i >= j
    OBVIOUS
  <2>1. x <= n - j
    BY <1>2
  <2>2. i \in Int /\ j \in Int
    BY <1>0
  <2> QED
    BY <1>3, <2>1, <2>2
<1>5. \E m \in I : \A j \in I : m >= j
  BY <1>4
<1> QED
  BY Zenon, <1>5 DEF Max

LEMMA LastColonIn ==
    ASSUME NEW S, NEW text \in Seq(S)
    PROVE  LastColon(text) \in 0..Len(text)
<1> DEFINE n == Len(text)
           I == {i \in 1..n : text[i] = Colon}
<1>1. LastColon(text) = IF I # {} THEN Max(I) ELSE 0
  BY DEF LastColon, SelectLastInSeq
<1>2. n \in Nat
  BY LenProperties
<1>3. I \subseteq 1..n
  OBVIOUS
<1> HIDE DEF I, n
<1>4. LastColon(text) \in 0..n
  <2>1. CASE I = {}
    BY <1>1, <1>2, <2>1
  <2>2. CASE I # {}
    <3>1. Max(I) \in I
      BY <1>2, <1>3, <2>2, GreatestElement
    <3>2. Max(I) \in 1..n
      BY Zenon, <1>3, <3>1
    <3> QED
      BY <1>1, <1>2, <2>2, <3>2
  <2> QED
    BY <2>1, <2>2
<1> QED
  BY <1>4 DEF n

LEMMA NameWords ==
    ASSUME NEW S, NEW text \in Seq(S)
    PROVE  get_name(text) \in Seq(S)
<1> DEFINE l == LastColon(text)
           n == Len(text)
<1>1. CASE Matches(text)
  <2>1. l \in 0..n /\ n \in Nat
    BY LastColonIn, LenProperties
  <2>2. l < n
    BY <1>1 DEF Matches
  <2> HIDE DEF l, n
  <2>3. \A i \in l + 1..n : text[i] \in S
    <3> SUFFICES ASSUME NEW i \in l + 1..n PROVE text[i] \in S
      OBVIOUS
    <3>1. i \in 1..Len(text)
      BY <2>1 DEF n
    <3> QED
      BY <3>1, ElementOfSeq
  <2> DEFINE k == l + 1
  <2>4. k \in Int /\ n \in Int
    BY <2>1
  <2> HIDE DEF k
  <2>5. \A i \in k..n : text[i] \in S
    BY <2>3 DEF k
  <2>6. SubSeq(text, k, n) \in Seq(S)
    BY <2>4, <2>5, SubSeqProperties
  <2> QED
    BY <1>1, <2>6 DEF get_name, k, l, n
<1>2. CASE ~Matches(text)
  BY <1>2, EmptySeq DEF get_name
<1> QED
  BY <1>1, <1>2

\* Only a word that is not a separator is at the end of a name.
LEMMA TruncatedName ==
    ASSUME NEW text \in Seq(Words), text # <<>>, Last(text) # "/"
    PROVE  LET name == truncate_slashes(text)
           IN  name \in Seq(Words) /\ name # <<>> /\ Last(name) = Last(text)
<1> DEFINE n == Len(text)
           I == {i \in 1..n : text[i] = "/"}
           Slash == IF I # {} THEN Max(I) ELSE 0
           k == Slash + 1
           name == SubSeq(text, k, n)
<1>1. truncate_slashes(text) = IF Slash < n THEN name ELSE text
  BY DEF truncate_slashes, SelectLastInSeq
<1>2. n \in Nat
  BY LenProperties
<1>3. Slash \in 0..n - 1
  <2>1. n \notin I /\ n # 0
    BY <1>2, EmptySeq DEF Last
  <2>2. I \subseteq 1..n
    OBVIOUS
  <2> HIDE DEF I, n
  <2>3. CASE I = {}
    BY <1>2, <2>1, <2>3
  <2>4. CASE I # {}
    <3>1. Max(I) \in I
      BY <1>2, <2>2, <2>4, GreatestElement
    <3>2. Max(I) \in 1..n /\ Max(I) # n
      BY Zenon, <2>1, <2>2, <3>1
    <3> QED
      BY <1>2, <2>4, <3>2
  <2> QED
    BY <2>3, <2>4
<1>4. Slash < n
  BY <1>2, <1>3
<1> HIDE DEF Slash
<1>5. k \in 1..n /\ k \in Int /\ n \in Int
  BY <1>2, <1>3
<1> HIDE DEF k
<1>6. \A i \in k..n : text[i] \in Words
  <2> SUFFICES ASSUME NEW i \in k..n PROVE text[i] \in Words
    OBVIOUS
  <2>1. i \in 1..Len(text)
    BY <1>2, <1>5
  <2> QED
    BY <2>1, ElementOfSeq
<1> HIDE DEF n
<1>7. /\ name \in Seq(Words) /\ Len(name) = n - k + 1
      /\ \A i \in 1..n - k + 1 : name[i] = text[k + i - 1]
  BY <1>5, <1>6, SubSeqProperties
<1> HIDE DEF name
<1>8. Last(name) = Last(text)
  <2> DEFINE l == n - k + 1
  <2>1. l \in 1..n - k + 1 /\ k + l - 1 = n
    BY <1>5
  <2>2. name[l] = text[n]
    BY <1>7, <2>1
  <2> QED
    BY <1>7, <2>2 DEF Last, n
<1>9. name # <<>>
  BY <1>5, <1>7, EmptySeq
<1> QED
  BY <1>1, <1>4, <1>7, <1>8, <1>9

\* A file in a directory of a folder.
LEMMA PathNested ==
    ASSUME NEW f \in Words, NEW x \in Words, NEW name \in Seq(Words)
    PROVE  LET path == Joined(Joined(<<f>>, <<x>>), name)
           IN  /\ path = <<f, "/", x, "/">> \o name /\ path \in Seq(Words)
               /\ Head(path) = f /\ path[3] = x
               /\ name # <<>> => Last(path) = Last(name)
<1> DEFINE slash == "/"
           path == <<f, slash, x, slash>> \o name
<1>1. slash \in Words
  BY DEF Words
<1> HIDE DEF slash
<1>2. <<f>> \o <<slash>> \o <<x>> = <<f, slash, x>>
  <2>1. <<f>> \o <<slash>> = <<f, slash>>
    BY Lists11
  <2>2. <<f, slash>> \o <<x>> = <<f, slash, x>>
    BY Lists21
  <2> QED
    BY <2>1, <2>2
<1>3. <<f, slash, x>> \o <<slash>> = <<f, slash, x, slash>>
  BY Lists31
<1>4. Joined(<<f>>, <<x>>) = <<f, slash, x>>
  BY <1>2 DEF Joined, slash
<1>5. Joined(<<f, slash, x>>, name) = path
  BY <1>3 DEF Joined, slash
<1>6. path \in Seq(Words) /\ path[1] = f /\ path[3] = x /\ Head(path) = f
  BY <1>1
<1>7. name # <<>> => Last(path) = Last(name)
  BY <1>1 DEF Last
<1> QED
  BY <1>4, <1>5, <1>6, <1>7 DEF slash

----------------------------------------------------------------------------
(* What each kind of archive holds.                                         *)

LEMMA PackArchive ==
    ASSUME NEW o, o.pack_icon \in BOOLEAN
    PROVE  ArchiveWith(Entries(Independent(o)), {generate_nondependent(o)})
<1> DEFINE m == generate_nondependent(o)
           f == IF o.pack_type = "data" THEN "bp" ELSE "rp"
           files == <<File(<<"manifest.json">>, m)>> \o (IF o.pack_icon THEN <<Icon>> ELSE <<>>)
           folder == Directory(<<f>>, files)
           R == Inside(Append(<<>>, 1), folder)
<1>1. f \in Words /\ f # "/"
  BY DEF Words
<1>2. Entries(Independent(o)) = R
  <2>1. Independent(o) = Directory(<<>>, <<folder>>)
    BY DEF Independent
  <2> HIDE DEF folder
  <2> QED
    BY <2>1, RootOne
<1> HIDE DEF m, f
<1>3. FolderHolds(f, R, m)
  BY <1>1, PackFolder
<1> HIDE DEF R
<1>4. ArchiveWith(R, {m})
  BY Zenon, <1>3, OneFolder
<1> QED
  BY <1>2, <1>4 DEF m

LEMMA PairArchive ==
    ASSUME NEW o, o.pack_icon \in BOOLEAN
    PROVE  LET m == generate_dependent(o)
           IN  ArchiveWith(Entries(Dependent(o)), {m.rp, m.bp})
<1> DEFINE m == generate_dependent(o)
           Folder(name, manifest) ==
              Directory(<<name>>, <<File(<<"manifest.json">>, manifest)>>
                                    \o (IF o.pack_icon THEN <<Icon>> ELSE <<>>))
           F == Folder("rp", m.rp)
           G == Folder("bp", m.bp)
           R == Inside(Append(<<>>, 1), F)
           T == Inside(Append(<<>>, 2), G)
<1>1. Entries(Dependent(o)) = R \cup T
  <2>1. Dependent(o) = Directory(<<>>, <<F, G>>)
    BY DEF Dependent
  <2> HIDE DEF F, G
  <2> QED
    BY <2>1, RootTwo
<1> HIDE DEF m
<1>2. "rp" \in Words /\ "rp" # "/" /\ "bp" \in Words /\ "bp" # "/" /\ "rp" # "bp"
  BY DEF Words
<1>3. FolderHolds("rp", R, m.rp) /\ FolderHolds("bp", T, m.bp)
  BY <1>2, PackFolder
<1> HIDE DEF R, T
<1>4. ArchiveWith(R \cup T, {m.rp, m.bp})
  BY Zenon, <1>2, <1>3, TwoFolders
<1> QED
  BY <1>1, <1>4 DEF m

\* The behavior folders of items and entities: a manifest, and one file in a
\* directory.
LEMMA BehaviorFolder ==
    ASSUME NEW place, NEW f \in Words, f # "/", NEW x \in Words, x # "manifest.json",
           NEW name \in Seq(Words), NEW contents, NEW m
    PROVE  LET R == Inside(place, Directory(<<f>>, <<File(<<"manifest.json">>, m),
                                               Directory(<<x>>, <<File(name, contents)>>)>>))
           IN  /\ FolderHolds(f, R, m)
               /\ HasFile(R, <<f, "/", x, "/">> \o name, contents)
<1> DEFINE mname == <<"manifest.json">>
           g == <<f>>
           xs == <<x>>
           M == File(mname, m)
           N == File(name, contents)
           D == Directory(xs, <<N>>)
           files == <<M, D>>
           a == Entry(Append(place, 1), ManifestOf(f), M)
           b == Entry(Append(Append(place, 2), 1), Joined(Joined(g, xs), name), N)
           leaf == <<a, b>>
           R == Inside(place, Directory(g, files))
<1>1. leaf[1] = a /\ leaf[2] = b
  OBVIOUS
<1>2. DOMAIN files = {1, 2} /\ files[1] = M /\ files[2] = D
  OBVIOUS
<1>3. /\ M.name = mname /\ M.contents = m /\ M.dir = FALSE
      /\ N.name = name /\ N.contents = contents /\ N.dir = FALSE /\ D.name = xs
  BY DEF File, Directory
<1>4. Joined(g, mname) = ManifestOf(f) /\ Head(ManifestOf(f)) = f /\ ManifestOf(f)[3] = "manifest.json"
  BY ManifestPath DEF ManifestOf
<1> DEFINE path == Joined(Joined(g, xs), name)
<1>5. path = <<f, "/", x, "/">> \o name /\ Head(path) = f /\ path[3] = x
  BY PathNested
<1> HIDE DEF mname, g, xs
<1>6. Twice({Entry(Append(place, 1), Joined(g, M.name), M)}) = {a}
  <2>1. Twice({Entry(Append(place, 1), ManifestOf(f), M)}) = {a}
    BY FileLeaf
  <2> QED
    BY Zenon, <1>3, <1>4, <2>1
<1>7. Twice({Entry(Append(place, 2), Joined(g, D.name), D)}) = {b}
  <2>1. Twice({Entry(Append(place, 2), Joined(g, xs), D)}) = {b}
    BY DirectoryLeaf
  <2> QED
    BY Zenon, <1>3, <2>1
<1>8. PathOf(a) = ManifestOf(f) /\ FileOf(a) = M /\ PathOf(b) = path /\ FileOf(b) = N
  BY DEF Entry, PathOf, FileOf
<1> HIDE DEF M, N, D, a, b, leaf, files
<1>9. R = {leaf[i] : i \in DOMAIN files}
  <2>1. LeavesAre(place, g, files, leaf)
    BY Zenon, <1>1, <1>2, <1>6, <1>7 DEF LeavesAre
  <2> QED
    BY <2>1, InsideFolder
<1>10. R = {a, b}
  BY <1>1, <1>2, <1>9
<1> HIDE DEF R, path
<1>11. PathOf(a) # PathOf(b)
  BY <1>4, <1>5, <1>8
<1>12. FolderHolds(f, R, m)
  <2>1. \A e \in R : FileOf(e).dir = FALSE /\ Head(PathOf(e)) = f
    BY Zenon, <1>3, <1>4, <1>5, <1>8, <1>10
  <2>2. \A c, e \in R : PathOf(c) = PathOf(e) => c = e
    BY Zenon, <1>10, <1>11
  <2>3. a \in R /\ PathOf(a) = ManifestOf(f) /\ FileOf(a).contents = m
    BY Zenon, <1>3, <1>8, <1>10
  <2> QED
    BY Zenon, <2>1, <2>2, <2>3 DEF FolderHolds
<1>13. b \in R /\ PathOf(b) = <<f, "/", x, "/">> \o name /\ FileOf(b).contents = contents
  BY <1>3, <1>5, <1>8, <1>10
<1>14. HasFile(R, <<f, "/", x, "/">> \o name, contents)
  BY <1>13 DEF HasFile
<1> QED
  BY <1>12, <1>14 DEF R, g, files, M, D, N, mname, xs

\* The resource folder of items: a manifest and, with an image, the atlas and it.
LEMMA ItemResources ==
    ASSUME NEW place, NEW with \in BOOLEAN, NEW m, NEW atlas,
           NEW name \in Seq(Words), name # <<>>, Last(name) = ".png"
    PROVE  LET Textures == Directory(<<"textures">>, <<File(<<"item_texture.json">>, atlas)>>)
               image == File(name, "icon")
               R == Inside(place, Directory(<<"resource">>,
                              <<File(<<"manifest.json">>, m)>>
                                \o (IF with THEN <<Textures, image>> ELSE <<>>)))
           IN  /\ FolderHolds("resource", R, m)
               /\ with => HasFile(R, <<"resource", "/", "textures", "/", "item_texture.json">>, atlas)
<1> DEFINE f == "resource"
           x == "textures"
           g == <<f>>
           xs == <<x>>
           mname == <<"manifest.json">>
           tname == <<"item_texture.json">>
           icon == "icon"
           M == File(mname, m)
           T == File(tname, atlas)
           D == Directory(xs, <<T>>)
           N == File(name, icon)
           files == <<M>> \o (IF with THEN <<D, N>> ELSE <<>>)
           a == Entry(Append(place, 1), ManifestOf(f), M)
           b == Entry(Append(Append(place, 2), 1), Joined(Joined(g, xs), tname), T)
           c == Entry(Append(place, 3), Joined(g, name), N)
           leaf == <<a, b, c>>
           R == Inside(place, Directory(g, files))
<1>1. leaf[1] = a /\ leaf[2] = b /\ leaf[3] = c
  OBVIOUS
<1>2. /\ DOMAIN files = IF with THEN {1, 2, 3} ELSE {1}
      /\ files[1] = M /\ (with => files[2] = D /\ files[3] = N)
  <2> HIDE DEF M, D, N
  <2>1. CASE with
    <3>1. files = <<M, D, N>>
      BY <2>1, Lists12
    <3> QED
      BY <2>1, <3>1
  <2>2. CASE ~with
    <3>1. files = <<M>>
      BY <2>2
    <3> QED
      BY <2>2, <3>1
  <2> QED
    BY <2>1, <2>2
<1>3. /\ M.name = mname /\ M.contents = m /\ M.dir = FALSE
      /\ N.name = name /\ N.dir = FALSE /\ D.name = xs
      /\ T.contents = atlas /\ T.dir = FALSE
  BY DEF File, Directory
<1>4. f \in Words /\ x \in Words /\ "item_texture.json" \in Words /\ f # "/"
  BY DEF Words
<1>5. /\ Joined(g, mname) = ManifestOf(f) /\ Head(ManifestOf(f)) = f
      /\ Last(ManifestOf(f)) = "manifest.json"
  <2>1. Last(ManifestOf(f)) = "manifest.json"
    BY DEF ManifestOf, Last
  <2> QED
    BY <1>4, <2>1, ManifestPath
<1> DEFINE bpath == Joined(Joined(g, xs), tname)
           cpath == Joined(g, name)
<1>6. bpath = <<f, "/", x, "/">> \o tname /\ Head(bpath) = f /\ Last(bpath) = "item_texture.json"
  <2>1. tname \in Seq(Words) /\ tname # <<>> /\ Last(tname) = "item_texture.json"
    BY <1>4, Word
  <2> HIDE DEF tname, f, x
  <2>2. f \in Words /\ x \in Words /\ tname \in Seq(Words) /\ tname # <<>>
    BY <1>4, <2>1
  <2> DEFINE path == Joined(Joined(<<f>>, <<x>>), tname)
  <2>3. Head(path) = f
    BY <2>2, PathNested
  <2>4. path = <<f, "/", x, "/">> \o tname
    BY <2>2, PathNested
  <2>5. Last(path) = Last(tname)
    BY <2>2, PathNested
  <2>6. bpath = path
    OBVIOUS
  <2> HIDE DEF bpath, path
  <2> QED
    BY <2>1, <2>3, <2>4, <2>5, <2>6
<1>7. bpath = <<"resource", "/", "textures", "/", "item_texture.json">>
  <2> DEFINE d == "/"
             y == "item_texture.json"
  <2> HIDE DEF d, f, x, y
  <2>1. <<f, d, x, d>> \o <<y>> = <<f, d, x, d, y>>
    BY Lists41
  <2> QED
    BY <1>6, <2>1 DEF d, f, x, y
<1>8. Head(cpath) = f /\ Last(cpath) = ".png"
  <2> HIDE DEF f
  <2> QED
    BY <1>4, PathInside
<1> HIDE DEF mname, tname, g, xs, icon
<1>9. Twice({Entry(Append(place, 1), Joined(g, M.name), M)}) = {a}
  <2>1. Twice({Entry(Append(place, 1), ManifestOf(f), M)}) = {a}
    BY FileLeaf
  <2> QED
    BY Zenon, <1>3, <1>5, <2>1
<1>10. Twice({Entry(Append(place, 2), Joined(g, D.name), D)}) = {b}
  <2>1. Twice({Entry(Append(place, 2), Joined(g, xs), D)}) = {b}
    BY DirectoryLeaf
  <2> QED
    BY Zenon, <1>3, <2>1
<1>11. Twice({Entry(Append(place, 3), Joined(g, N.name), N)}) = {c}
  <2>1. Twice({Entry(Append(place, 3), Joined(g, name), N)}) = {c}
    BY FileLeaf
  <2> QED
    BY Zenon, <1>3, <2>1
<1>12. /\ PathOf(a) = ManifestOf(f) /\ FileOf(a) = M /\ PathOf(b) = bpath /\ FileOf(b) = T
       /\ PathOf(c) = cpath /\ FileOf(c) = N
  BY DEF Entry, PathOf, FileOf
<1> HIDE DEF M, N, D, T, a, b, c, leaf, files
<1>13. R = {leaf[i] : i \in DOMAIN files}
  <2>1. LeavesAre(place, g, files, leaf)
    BY ZenonT(60), <1>1, <1>2, <1>9, <1>10, <1>11 DEF LeavesAre
  <2> QED
    BY <2>1, InsideFolder
<1>14. a \in R /\ R \subseteq {a, b, c} /\ (with => b \in R)
  BY <1>1, <1>2, <1>13
<1> HIDE DEF R, bpath, cpath
<1>15. PathOf(a) # PathOf(b) /\ PathOf(a) # PathOf(c) /\ PathOf(b) # PathOf(c)
  BY <1>5, <1>6, <1>8, <1>12
<1> HIDE DEF f
<1>16. FolderHolds(f, R, m)
  <2>1. \A e \in R : FileOf(e).dir = FALSE /\ Head(PathOf(e)) = f
    BY Zenon, <1>3, <1>5, <1>6, <1>8, <1>12, <1>14
  <2>2. \A d, e \in R : PathOf(d) = PathOf(e) => d = e
    BY Zenon, <1>14, <1>15
  <2>3. a \in R /\ PathOf(a) = ManifestOf(f) /\ FileOf(a).contents = m
    BY Zenon, <1>3, <1>12, <1>14
  <2> QED
    BY Zenon, <1>4, <2>1, <2>2, <2>3 DEF FolderHolds
<1>17. ASSUME with
       PROVE  HasFile(R, <<"resource", "/", "textures", "/", "item_texture.json">>, atlas)
  <2>1. b \in R /\ PathOf(b) = bpath /\ FileOf(b).contents = atlas
    BY Zenon, <1>3, <1>12, <1>14, <1>17
  <2> QED
    BY Zenon, <1>7, <2>1 DEF HasFile
<1> QED
  BY <1>16, <1>17 DEF f, R, g, files, M, D, N, T, mname, xs, tname, icon

\* The image is named after a word of the path or a part of one, and a .png.
LEMMA ImageName ==
    ASSUME NEW icon \in Seq(Words)
    PROVE  LET name == truncate_slashes(item_to_lower(icon) \o <<".png">>)
           IN  name \in Seq(Words) /\ name # <<>> /\ Last(name) = ".png"
<1> DEFINE lower == item_to_lower(icon)
           png == ".png"
           text == lower \o <<png>>
<1>1. lower \in Seq(Words)
  <2>1. Len(icon) \in Nat /\ DOMAIN icon = 1..Len(icon)
    BY LenProperties
  <2>2. \A i \in 1..Len(icon) : Shifted(icon[i]) \in Words
    <3> SUFFICES ASSUME NEW i \in 1..Len(icon) PROVE Shifted(icon[i]) \in Words
      OBVIOUS
    <3>1. icon[i] \in Words
      BY ElementOfSeq
    <3>2. "2uby" \in Words /\ "'host" \in Words
      BY DEF Words
    <3>3. CASE icon[i] = "Ghost"
      <4>1. Shifted(icon[i]) = "'host"
        BY <3>3 DEF Shifted
      <4> QED
        BY <3>2, <4>1
    <3>4. CASE icon[i] = "Ruby"
      <4>1. Shifted(icon[i]) = "2uby"
        BY <3>4 DEF Shifted
      <4> QED
        BY <3>2, <4>1
    <3>5. CASE icon[i] # "Ghost" /\ icon[i] # "Ruby"
      <4>1. Shifted(icon[i]) = icon[i]
        BY <3>5 DEF Shifted
      <4> QED
        BY <3>1, <4>1
    <3> QED
      BY <3>3, <3>4, <3>5
  <2>3. lower = [i \in 1..Len(icon) |-> Shifted(icon[i])]
    BY Zenon, <2>1 DEF item_to_lower
  <2> DEFINE n == Len(icon)
  <2> HIDE DEF lower, n
  <2>4. lower \in [1..n -> Words]
    BY Zenon, <2>2, <2>3 DEF n
  <2>5. n \in Nat
    BY <2>1 DEF n
  <2> QED
    BY <2>4, <2>5
<1>2. png \in Words /\ png # "/"
  BY DEF Words
<1> HIDE DEF png, lower
<1>3. text \in Seq(Words) /\ Len(text) = Len(lower) + 1 /\ text[Len(lower) + 1] = png
  BY <1>1, <1>2
<1>4. text # <<>> /\ Last(text) = png
  <2>1. Len(lower) \in Nat
    BY <1>1, LenProperties
  <2> HIDE DEF text
  <2> QED
    BY <1>3, <2>1, EmptySeq DEF Last
<1> HIDE DEF text
<1>5. LET name == truncate_slashes(text)
      IN  name \in Seq(Words) /\ name # <<>> /\ Last(name) = png
  BY <1>2, <1>3, <1>4, TruncatedName
<1> QED
  BY <1>5 DEF text, lower, png

\* Both folders of an item.
LEMMA ItemArchive ==
    ASSUME NEW o, o.identifier \in Seq(Words), o.icon \in Seq(Words), o.image \in BOOLEAN
    PROVE  LET R == Entries(ItemPack(o))
               p == genManifest(TRUE)
               name == get_name(o.identifier)
           IN  /\ ArchiveWith(R, {p.rp, p.bp})
               /\ o.image => HasFile(R, <<"resource", "/", "textures", "/", "item_texture.json">>,
                                     [name |-> AtlasName(o.identifier, o.icon, o.atlas),
                                      path |-> o.icon])
               /\ HasFile(R, <<"behavior", "/", "items", "/">> \o (name \o <<".item.json">>),
                          [icon |-> IconTexture(o.identifier, o.icon)])
<1> DEFINE p == genManifest(TRUE)
           atlas == [name |-> AtlasName(o.identifier, o.icon, o.atlas), path |-> o.icon]
           what == [icon |-> IconTexture(o.identifier, o.icon)]
           name == get_name(o.identifier) \o <<".item.json">>
           iname == truncate_slashes(item_to_lower(o.icon) \o <<".png">>)
           Textures == Directory(<<"textures">>, <<File(<<"item_texture.json">>, atlas)>>)
           image == File(iname, "icon")
           F == Directory(<<"resource">>, <<File(<<"manifest.json">>, p.rp)>>
                                            \o (IF o.image THEN <<Textures, image>> ELSE <<>>))
           G == Directory(<<"behavior">>, <<File(<<"manifest.json">>, p.bp),
                                            Directory(<<"items">>, <<File(name, what)>>)>>)
           R == Inside(Append(<<>>, 1), F)
           T == Inside(Append(<<>>, 2), G)
<1>1. Entries(ItemPack(o)) = R \cup T
  <2>1. ItemPack(o) = Directory(<<>>, <<F, G>>)
    BY DEF ItemPack
  <2> HIDE DEF F, G
  <2> QED
    BY <2>1, RootTwo
<1>2. name \in Seq(Words)
  <2>1. ".item.json" \in Words
    BY DEF Words
  <2>3. get_name(o.identifier) \in Seq(Words)
    BY Zenon, NameWords
  <2> DEFINE n == get_name(o.identifier)
             w == ".item.json"
  <2> HIDE DEF n, w
  <2>4. n \o <<w>> \in Seq(Words)
    BY <2>1, <2>3 DEF n, w
  <2> QED
    BY <2>4 DEF n, w
<1>3. iname \in Seq(Words) /\ iname # <<>> /\ Last(iname) = ".png"
  BY ImageName
<1> HIDE DEF p, atlas, what, name, iname
<1>4. /\ FolderHolds("resource", R, p.rp)
      /\ o.image => HasFile(R, <<"resource", "/", "textures", "/", "item_texture.json">>, atlas)
  <2> DEFINE with == o.image
             m == p.rp
             place == Append(<<>>, 1)
  <2>1. with \in BOOLEAN
    OBVIOUS
  <2> HIDE DEF with, m, place
  <2> DEFINE U == Inside(place, Directory(<<"resource">>,
                     <<File(<<"manifest.json">>, m)>>
                       \o (IF with THEN <<Directory(<<"textures">>,
                                                    <<File(<<"item_texture.json">>, atlas)>>),
                                          File(iname, "icon")>>
                                   ELSE <<>>)))
  <2>2. FolderHolds("resource", U, m)
    BY <1>3, <2>1, ItemResources
  <2>3. with => HasFile(U, <<"resource", "/", "textures", "/", "item_texture.json">>, atlas)
    BY <1>3, <2>1, ItemResources
  <2>4. U = R
    BY DEF with, m, place
  <2> HIDE DEF U, R
  <2> QED
    BY <2>2, <2>3, <2>4 DEF with, m
<1>5. /\ FolderHolds("behavior", T, p.bp)
      /\ HasFile(T, <<"behavior", "/", "items", "/">> \o name, what)
  <2> DEFINE f == "behavior"
             x == "items"
             m == p.bp
             place == Append(<<>>, 2)
  <2>1. f \in Words /\ f # "/" /\ x \in Words /\ x # "manifest.json"
    BY DEF Words
  <2> HIDE DEF f, x, m, place
  <2> DEFINE U == Inside(place, Directory(<<f>>, <<File(<<"manifest.json">>, m),
                                            Directory(<<x>>, <<File(name, what)>>)>>))
  <2>2. FolderHolds(f, U, m)
    BY <1>2, <2>1, BehaviorFolder
  <2>3. HasFile(U, <<f, "/", x, "/">> \o name, what)
    BY <1>2, <2>1, BehaviorFolder
  <2>4. U = T
    BY DEF f, x, m, place
  <2> HIDE DEF U, T
  <2> QED
    BY <2>2, <2>3, <2>4 DEF f, x, m
<1> HIDE DEF R, T
<1>6. ArchiveWith(R \cup T, {p.rp, p.bp})
  <2>1. "resource" # "behavior"
    OBVIOUS
  <2> QED
    BY Zenon, <1>4, <1>5, <2>1, TwoFolders
<1>7. o.image => HasFile(R \cup T, <<"resource", "/", "textures", "/", "item_texture.json">>, atlas)
  BY Zenon, <1>4 DEF HasFile
<1>8. HasFile(R \cup T, <<"behavior", "/", "items", "/">> \o name, what)
  BY Zenon, <1>5 DEF HasFile
<1> QED
  BY <1>1, <1>6, <1>7, <1>8 DEF p, atlas, what, name

\* A file two directories down in a folder.
DeepPath(path, f, x, y, name) ==
    /\ path = <<f, "/", x, "/", y, "/">> \o name
    /\ Head(path) = f /\ path[3] = x
LEMMA PathDeep ==
    ASSUME NEW f \in Words, NEW x \in Words, NEW y \in Words, NEW name \in Seq(Words)
    PROVE  DeepPath(Joined(Joined(Joined(<<f>>, <<x>>), <<y>>), name), f, x, y, name)
<1> DEFINE slash == "/"
           ys == <<y>>
           path == <<f, slash, x, slash, y, slash>> \o name
<1>1. slash \in Words /\ ys \in Seq(Words)
  <2>1. slash \in Words
    BY DEF Words
  <2> QED
    BY <2>1, Word
<1>2. Joined(Joined(<<f>>, <<x>>), ys) = <<f, "/", x, "/">> \o ys
  <2> HIDE DEF ys
  <2> QED
    BY <1>1, PathNested
<1> HIDE DEF slash
<1>3. Joined(Joined(<<f>>, <<x>>), ys) = <<f, slash, x, slash, y>>
  <2>1. <<f, slash, x, slash>> \o <<y>> = <<f, slash, x, slash, y>>
    BY Lists41
  <2> QED
    BY <1>2, <2>1 DEF slash
<1>4. Joined(<<f, slash, x, slash, y>>, name) = path
  <2>1. <<f, slash, x, slash, y>> \o <<slash>> = <<f, slash, x, slash, y, slash>>
    BY Lists51
  <2> QED
    BY <2>1 DEF Joined, slash
<1>5. path[1] = f /\ path[3] = x /\ Head(path) = f
  BY <1>1
<1>6. DeepPath(path, f, x, y, name)
  BY <1>5 DEF DeepPath, slash
<1> HIDE DEF path, ys
<1> QED
  BY Zenon, <1>3, <1>4, <1>6 DEF ys

\* The resource folder of an entity.  The texture and the model come first, if they
\* are there; every entry of the folder is at a path of its own by its third word.
LEMMA EntityResources ==
    ASSUME NEW place, NEW texture, NEW model, NEW m, NEW text, NEW client, NEW control,
           texture.name \in Seq(Words), model.name \in Seq(Words),
           NEW cname \in Seq(Words), NEW qname \in Seq(Words)
    PROVE  LET One(folder, name, contents) == Directory(<<folder>>, <<File(name, contents)>>)
               R == Inside(place, Directory(<<"resource_pack">>,
                       Attached("textures", texture) \o Attached("models", model)
                         \o <<File(<<"manifest.json">>, m),
                              One("texts", <<"en_US.lang">>, text),
                              One("entity", cname, client),
                              One("render_controllers", qname, control)>>))
           IN  /\ FolderHolds("resource_pack", R, m)
               /\ texture # NoFile =>
                     HasFile(R, <<"resource_pack", "/", "textures", "/", "entity", "/">> \o texture.name,
                             texture)
               /\ HasFile(R, <<"resource_pack", "/", "entity", "/">> \o cname, client)
               /\ HasFile(R, <<"resource_pack", "/", "render_controllers", "/">> \o qname, control)
<1> DEFINE f == "resource_pack"
           textures == "textures"
           models == "models"
           texts == "texts"
           entity == "entity"
           controllers == "render_controllers"
           g == <<f>>
           mname == <<"manifest.json">>
           pname == <<"en_US.lang">>
           xname == texture.name
           yname == model.name
           fx == File(xname, texture)
           fy == File(yname, model)
           fp == File(pname, text)
           fc == File(cname, client)
           fq == File(qname, control)
           es == <<entity>>
           xs == <<textures>>
           ys == <<models>>
           ps == <<texts>>
           qs == <<controllers>>
           X == Directory(xs, <<Directory(es, <<fx>>)>>)
           Y == Directory(ys, <<Directory(es, <<fy>>)>>)
           M == File(mname, m)
           P == Directory(ps, <<fp>>)
           C == Directory(es, <<fc>>)
           Q == Directory(qs, <<fq>>)
           tx == Attached(textures, texture)
           ty == Attached(models, model)
           files == tx \o ty \o <<M, P, C, Q>>
           R == Inside(place, Directory(g, files))
           xpath == Joined(Joined(Joined(g, xs), es), xname)
           ypath == Joined(Joined(Joined(g, ys), es), yname)
           ppath == Joined(Joined(g, ps), pname)
           cpath == Joined(Joined(g, es), cname)
           qpath == Joined(Joined(g, qs), qname)
           lx(q) == Entry(Append(Append(q, 1), 1), xpath, fx)
           ly(q) == Entry(Append(Append(q, 1), 1), ypath, fy)
           lm(q) == Entry(q, ManifestOf(f), M)
           lp(q) == Entry(Append(q, 1), ppath, fp)
           lc(q) == Entry(Append(q, 1), cpath, fc)
           lq(q) == Entry(Append(q, 1), qpath, fq)
<1>1. /\ f \in Words /\ f # "/" /\ textures \in Words /\ models \in Words
      /\ texts \in Words /\ entity \in Words /\ controllers \in Words
      /\ "en_US.lang" \in Words
  BY DEF Words
<1>2. xname \in Seq(Words) /\ yname \in Seq(Words) /\ pname \in Seq(Words)
  BY <1>1, Word
<1>3. f # "/" /\ ManifestOf(f)[3] = "manifest.json"
  BY DEF ManifestOf
<1>4. /\ textures # "manifest.json" /\ models # "manifest.json" /\ texts # "manifest.json"
      /\ entity # "manifest.json" /\ controllers # "manifest.json"
      /\ textures # models /\ textures # texts /\ textures # entity /\ textures # controllers
      /\ models # texts /\ models # entity /\ models # controllers
      /\ texts # entity /\ texts # controllers /\ entity # controllers
  OBVIOUS
<1>5. /\ fx.dir = FALSE /\ fx.contents = texture /\ fy.dir = FALSE
      /\ M.dir = FALSE /\ M.contents = m /\ M.name = mname
      /\ fp.dir = FALSE /\ fc.dir = FALSE /\ fc.contents = client
      /\ fq.dir = FALSE /\ fq.contents = control
      /\ X.name = xs /\ Y.name = ys /\ P.name = ps /\ C.name = es /\ Q.name = qs
  BY DEF File, Directory
<1>11. /\ tx = IF texture = NoFile THEN <<>> ELSE <<X>>
       /\ ty = IF model = NoFile THEN <<>> ELSE <<Y>>
  BY DEF Attached
<1>12. <<>> \o <<M, P, C, Q>> = <<M, P, C, Q>>
  <2> HIDE DEF M, P, C, Q
  <2> QED
    OBVIOUS
<1> HIDE DEF f, textures, models, texts, entity, controllers, mname, pname, xname, yname
<1>6. Joined(g, mname) = ManifestOf(f) /\ Head(ManifestOf(f)) = f
  BY <1>1, ManifestPath DEF mname
<1>7. /\ xpath = <<f, "/", textures, "/", entity, "/">> \o xname
      /\ Head(xpath) = f /\ xpath[3] = textures
      /\ Head(ypath) = f /\ ypath[3] = models
  <2>1. f \in Words /\ textures \in Words /\ models \in Words /\ entity \in Words
    BY <1>1
  <2>2. DeepPath(xpath, f, textures, entity, xname)
    BY Zenon, <1>2, <2>1, PathDeep
  <2>3. DeepPath(ypath, f, models, entity, yname)
    BY Zenon, <1>2, <2>1, PathDeep
  <2> HIDE DEF xpath, ypath
  <2> QED
    BY <2>2, <2>3 DEF DeepPath
<1>8. /\ Head(ppath) = f /\ ppath[3] = texts
      /\ cpath = <<f, "/", entity, "/">> \o cname /\ Head(cpath) = f /\ cpath[3] = entity
      /\ qpath = <<f, "/", controllers, "/">> \o qname /\ Head(qpath) = f /\ qpath[3] = controllers
  <2>1. f \in Words /\ texts \in Words /\ entity \in Words /\ controllers \in Words
    BY <1>1
  <2>2. Head(ppath) = f /\ ppath[3] = texts
    BY ZenonT(60), <1>2, <2>1, PathNested
  <2>3. cpath = <<f, "/", entity, "/">> \o cname /\ Head(cpath) = f /\ cpath[3] = entity
    BY ZenonT(60), <2>1, PathNested
  <2>4. qpath = <<f, "/", controllers, "/">> \o qname /\ Head(qpath) = f /\ qpath[3] = controllers
    BY ZenonT(60), <2>1, PathNested
  <2> QED
    BY <2>2, <2>3, <2>4
<1> HIDE DEF g, es, xs, ys, ps, qs
<1>13. /\ \A q : Twice({Entry(q, Joined(g, X.name), X)}) = {lx(q)}
       /\ \A q : Twice({Entry(q, Joined(g, Y.name), Y)}) = {ly(q)}
       /\ \A q : Twice({Entry(q, Joined(g, M.name), M)}) = {lm(q)}
       /\ \A q : Twice({Entry(q, Joined(g, P.name), P)}) = {lp(q)}
       /\ \A q : Twice({Entry(q, Joined(g, C.name), C)}) = {lc(q)}
       /\ \A q : Twice({Entry(q, Joined(g, Q.name), Q)}) = {lq(q)}
  <2>1. \A q : Twice({Entry(q, Joined(g, xs), X)}) = {lx(q)}
    <3>1. \A q : Becomes(Entry(q, Joined(g, xs), X), lx(q))
      BY NestedLeaf
    <3> QED
      BY Zenon, <3>1 DEF Becomes
  <2>2. \A q : Twice({Entry(q, Joined(g, ys), Y)}) = {ly(q)}
    <3>1. \A q : Becomes(Entry(q, Joined(g, ys), Y), ly(q))
      BY NestedLeaf
    <3> QED
      BY Zenon, <3>1 DEF Becomes
  <2>3. \A q : Twice({Entry(q, ManifestOf(f), M)}) = {lm(q)}
    BY FileLeaf
  <2>4. \A q : Twice({Entry(q, Joined(g, ps), P)}) = {lp(q)}
    BY SMTT(60), DirectoryLeaf
  <2>5. \A q : Twice({Entry(q, Joined(g, es), C)}) = {lc(q)}
    BY SMTT(60), DirectoryLeaf
  <2>6. \A q : Twice({Entry(q, Joined(g, qs), Q)}) = {lq(q)}
    BY SMTT(60), DirectoryLeaf
  <2> HIDE DEF X, Y, M, P, C, Q, lx, ly, lm, lp, lc, lq
  <2> QED
    BY Zenon, <1>5, <1>6, <2>1, <2>2, <2>3, <2>4, <2>5, <2>6
<1>14. \A q : /\ PathOf(lx(q)) = xpath /\ FileOf(lx(q)) = fx
              /\ PathOf(ly(q)) = ypath /\ FileOf(ly(q)) = fy
              /\ PathOf(lm(q)) = ManifestOf(f) /\ FileOf(lm(q)) = M
              /\ PathOf(lp(q)) = ppath /\ FileOf(lp(q)) = fp
              /\ PathOf(lc(q)) = cpath /\ FileOf(lc(q)) = fc
              /\ PathOf(lq(q)) = qpath /\ FileOf(lq(q)) = fq
  <2> HIDE DEF xpath, ypath, ppath, cpath, qpath, fx, fy, M, fp, fc, fq
  <2> QED
    BY DEF Entry, PathOf, FileOf
<1> HIDE DEF X, Y, M, P, C, Q, fx, fy, fp, fc, fq, lx, ly, lm, lp, lc, lq, tx, ty, R,
             xpath, ypath, ppath, cpath, qpath
<1>15. \E ax, ay, am, ap, ac, aq :
          /\ R \subseteq {lx(ax), ly(ay), lm(am), lp(ap), lc(ac), lq(aq)}
          /\ lm(am) \in R /\ lc(ac) \in R /\ lq(aq) \in R
          /\ texture # NoFile => lx(ax) \in R
  <2>1. CASE texture # NoFile /\ model # NoFile
    <3>1. files = <<X, Y, M, P, C, Q>>
      <4>1. tx \o ty = <<X, Y>>
        BY <1>11, <2>1, Lists11
      <4>2. <<X, Y>> \o <<M, P, C, Q>> = <<X, Y, M, P, C, Q>>
        BY Lists24
      <4> QED
        BY Zenon, <4>1, <4>2
    <3> DEFINE list == <<X, Y, M, P, C, Q>>
               leaf == <<lx(Append(place, 1)),
                         ly(Append(place, 2)),
                         lm(Append(place, 3)),
                         lp(Append(place, 4)),
                         lc(Append(place, 5)),
                         lq(Append(place, 6))>>
    <3>2. /\ DOMAIN list = 1..6
          /\ list[1] = X /\ list[2] = Y /\ list[3] = M /\ list[4] = P /\ list[5] = C /\ list[6] = Q
      OBVIOUS
    <3>3. /\ leaf[1] = lx(Append(place, 1))
          /\ leaf[2] = ly(Append(place, 2))
          /\ leaf[3] = lm(Append(place, 3))
          /\ leaf[4] = lp(Append(place, 4))
          /\ leaf[5] = lc(Append(place, 5))
          /\ leaf[6] = lq(Append(place, 6))
      OBVIOUS
    <3>4. DOMAIN list = {1, 2, 3, 4, 5, 6}
      BY <3>2
    <3> HIDE DEF list, leaf
    <3>5. LeavesAre(place, g, list, leaf)
      <4>1. Twice({Entry(Append(place, 1), Joined(g, list[1].name), list[1])}) = {leaf[1]}
        BY ZenonT(40), <1>13, <3>2, <3>3
      <4>2. Twice({Entry(Append(place, 2), Joined(g, list[2].name), list[2])}) = {leaf[2]}
        BY ZenonT(40), <1>13, <3>2, <3>3
      <4>3. Twice({Entry(Append(place, 3), Joined(g, list[3].name), list[3])}) = {leaf[3]}
        BY ZenonT(40), <1>13, <3>2, <3>3
      <4>4. Twice({Entry(Append(place, 4), Joined(g, list[4].name), list[4])}) = {leaf[4]}
        BY ZenonT(40), <1>13, <3>2, <3>3
      <4>5. Twice({Entry(Append(place, 5), Joined(g, list[5].name), list[5])}) = {leaf[5]}
        BY ZenonT(40), <1>13, <3>2, <3>3
      <4>6. Twice({Entry(Append(place, 6), Joined(g, list[6].name), list[6])}) = {leaf[6]}
        BY ZenonT(40), <1>13, <3>2, <3>3
      <4> QED
        BY Zenon, <4>1, <4>2, <4>3, <4>4, <4>5, <4>6, <3>4 DEF LeavesAre
    <3>6. R = {leaf[i] : i \in DOMAIN list}
      <4>1. files = list
        BY <3>1 DEF list
      <4> HIDE DEF files
      <4>2. Inside(place, Directory(g, list)) = {leaf[i] : i \in DOMAIN list}
        BY <3>5, InsideFolder
      <4> QED
        BY Zenon, <4>1, <4>2 DEF R
    <3> DEFINE ax == Append(place, 1)
               ay == Append(place, 2)
               am == Append(place, 3)
               ap == Append(place, 4)
               ac == Append(place, 5)
               aq == Append(place, 6)
    <3>7. R \subseteq {lx(ax), ly(ay), lm(am), lp(ap), lc(ac), lq(aq)}
      BY Zenon, <3>3, <3>4, <3>6
    <3>8. lm(am) \in R /\ lc(ac) \in R /\ lq(aq) \in R /\ lx(ax) \in R
      BY Zenon, <3>3, <3>4, <3>6
    <3> HIDE DEF ax, ay, am, ap, ac, aq
    <3> QED
      BY <2>1, <3>7, <3>8
  <2>2. CASE texture # NoFile /\ model = NoFile
    <3>1. files = <<X, M, P, C, Q>>
      <4>1. tx \o ty = <<X>>
        BY <1>11, <2>2
      <4>2. <<X>> \o <<M, P, C, Q>> = <<X, M, P, C, Q>>
        BY Lists14
      <4> QED
        BY Zenon, <4>1, <4>2
    <3> DEFINE list == <<X, M, P, C, Q>>
               leaf == <<lx(Append(place, 1)),
                         lm(Append(place, 2)),
                         lp(Append(place, 3)),
                         lc(Append(place, 4)),
                         lq(Append(place, 5))>>
    <3>2. /\ DOMAIN list = 1..5
          /\ list[1] = X /\ list[2] = M /\ list[3] = P /\ list[4] = C /\ list[5] = Q
      OBVIOUS
    <3>3. /\ leaf[1] = lx(Append(place, 1))
          /\ leaf[2] = lm(Append(place, 2))
          /\ leaf[3] = lp(Append(place, 3))
          /\ leaf[4] = lc(Append(place, 4))
          /\ leaf[5] = lq(Append(place, 5))
      OBVIOUS
    <3>4. DOMAIN list = {1, 2, 3, 4, 5}
      BY <3>2
    <3> HIDE DEF list, leaf
    <3>5. LeavesAre(place, g, list, leaf)
      <4>1. Twice({Entry(Append(place, 1), Joined(g, list[1].name), list[1])}) = {leaf[1]}
        BY ZenonT(40), <1>13, <3>2, <3>3
      <4>2. Twice({Entry(Append(place, 2), Joined(g, list[2].name), list[2])}) = {leaf[2]}
        BY ZenonT(40), <1>13, <3>2, <3>3
      <4>3. Twice({Entry(Append(place, 3), Joined(g, list[3].name), list[3])}) = {leaf[3]}
        BY ZenonT(40), <1>13, <3>2, <3>3
      <4>4. Twice({Entry(Append(place, 4), Joined(g, list[4].name), list[4])}) = {leaf[4]}
        BY ZenonT(40), <1>13, <3>2, <3>3
      <4>5. Twice({Entry(Append(place, 5), Joined(g, list[5].name), list[5])}) = {leaf[5]}
        BY ZenonT(40), <1>13, <3>2, <3>3
      <4> QED
        BY Zenon, <4>1, <4>2, <4>3, <4>4, <4>5, <3>4 DEF LeavesAre
    <3>6. R = {leaf[i] : i \in DOMAIN list}
      <4>1. files = list
        BY <3>1 DEF list
      <4> HIDE DEF files
      <4>2. Inside(place, Directory(g, list)) = {leaf[i] : i \in DOMAIN list}
        BY <3>5, InsideFolder
      <4> QED
        BY Zenon, <4>1, <4>2 DEF R
    <3> DEFINE ax == Append(place, 1)
               ay == Append(place, 1)
               am == Append(place, 2)
               ap == Append(place, 3)
               ac == Append(place, 4)
               aq == Append(place, 5)
    <3>7. R \subseteq {lx(ax), ly(ay), lm(am), lp(ap), lc(ac), lq(aq)}
      BY Zenon, <3>3, <3>4, <3>6
    <3>8. lm(am) \in R /\ lc(ac) \in R /\ lq(aq) \in R /\ lx(ax) \in R
      BY Zenon, <3>3, <3>4, <3>6
    <3> HIDE DEF ax, ay, am, ap, ac, aq
    <3> QED
      BY <2>2, <3>7, <3>8
  <2>3. CASE texture = NoFile /\ model # NoFile
    <3>1. files = <<Y, M, P, C, Q>>
      <4>1. tx \o ty = <<Y>>
        BY <1>11, <2>3
      <4>2. <<Y>> \o <<M, P, C, Q>> = <<Y, M, P, C, Q>>
        BY Lists14
      <4> QED
        BY Zenon, <4>1, <4>2
    <3> DEFINE list == <<Y, M, P, C, Q>>
               leaf == <<ly(Append(place, 1)),
                         lm(Append(place, 2)),
                         lp(Append(place, 3)),
                         lc(Append(place, 4)),
                         lq(Append(place, 5))>>
    <3>2. /\ DOMAIN list = 1..5
          /\ list[1] = Y /\ list[2] = M /\ list[3] = P /\ list[4] = C /\ list[5] = Q
      OBVIOUS
    <3>3. /\ leaf[1] = ly(Append(place, 1))
          /\ leaf[2] = lm(Append(place, 2))
          /\ leaf[3] = lp(Append(place, 3))
          /\ leaf[4] = lc(Append(place, 4))
          /\ leaf[5] = lq(Append(place, 5))
      OBVIOUS
    <3>4. DOMAIN list = {1, 2, 3, 4, 5}
      BY <3>2
    <3> HIDE DEF list, leaf
    <3>5. LeavesAre(place, g, list, leaf)
      <4>1. Twice({Entry(Append(place, 1), Joined(g, list[1].name), list[1])}) = {leaf[1]}
        BY ZenonT(40), <1>13, <3>2, <3>3
      <4>2. Twice({Entry(Append(place, 2), Joined(g, list[2].name), list[2])}) = {leaf[2]}
        BY ZenonT(40), <1>13, <3>2, <3>3
      <4>3. Twice({Entry(Append(place, 3), Joined(g, list[3].name), list[3])}) = {leaf[3]}
        BY ZenonT(40), <1>13, <3>2, <3>3
      <4>4. Twice({Entry(Append(place, 4), Joined(g, list[4].name), list[4])}) = {leaf[4]}
        BY ZenonT(40), <1>13, <3>2, <3>3
      <4>5. Twice({Entry(Append(place, 5), Joined(g, list[5].name), list[5])}) = {leaf[5]}
        BY ZenonT(40), <1>13, <3>2, <3>3
      <4> QED
        BY Zenon, <4>1, <4>2, <4>3, <4>4, <4>5, <3>4 DEF LeavesAre
    <3>6. R = {leaf[i] : i \in DOMAIN list}
      <4>1. files = list
        BY <3>1 DEF list
      <4> HIDE DEF files
      <4>2. Inside(place, Directory(g, list)) = {leaf[i] : i \in DOMAIN list}
        BY <3>5, InsideFolder
      <4> QED
        BY Zenon, <4>1, <4>2 DEF R
    <3> DEFINE ax == Append(place, 1)
               ay == Append(place, 1)
               am == Append(place, 2)
               ap == Append(place, 3)
               ac == Append(place, 4)
               aq == Append(place, 5)
    <3>7. R \subseteq {lx(ax), ly(ay), lm(am), lp(ap), lc(ac), lq(aq)}
      BY Zenon, <3>3, <3>4, <3>6
    <3>8. lm(am) \in R /\ lc(ac) \in R /\ lq(aq) \in R
      BY Zenon, <3>3, <3>4, <3>6
    <3> HIDE DEF ax, ay, am, ap, ac, aq
    <3> QED
      BY <2>3, <3>7, <3>8
  <2>4. CASE texture = NoFile /\ model = NoFile
    <3>1. files = <<M, P, C, Q>>
      <4>1. tx \o ty = <<>>
        BY <1>11, <2>4
      <4>2. <<>> \o <<M, P, C, Q>> = <<M, P, C, Q>>
        BY <1>12
      <4> QED
        BY Zenon, <4>1, <4>2
    <3> DEFINE list == <<M, P, C, Q>>
               leaf == <<lm(Append(place, 1)),
                         lp(Append(place, 2)),
                         lc(Append(place, 3)),
                         lq(Append(place, 4))>>
    <3>2. /\ DOMAIN list = 1..4
          /\ list[1] = M /\ list[2] = P /\ list[3] = C /\ list[4] = Q
      OBVIOUS
    <3>3. /\ leaf[1] = lm(Append(place, 1))
          /\ leaf[2] = lp(Append(place, 2))
          /\ leaf[3] = lc(Append(place, 3))
          /\ leaf[4] = lq(Append(place, 4))
      OBVIOUS
    <3>4. DOMAIN list = {1, 2, 3, 4}
      BY <3>2
    <3> HIDE DEF list, leaf
    <3>5. LeavesAre(place, g, list, leaf)
      <4>1. Twice({Entry(Append(place, 1), Joined(g, list[1].name), list[1])}) = {leaf[1]}
        BY ZenonT(40), <1>13, <3>2, <3>3
      <4>2. Twice({Entry(Append(place, 2), Joined(g, list[2].name), list[2])}) = {leaf[2]}
        BY ZenonT(40), <1>13, <3>2, <3>3
      <4>3. Twice({Entry(Append(place, 3), Joined(g, list[3].name), list[3])}) = {leaf[3]}
        BY ZenonT(40), <1>13, <3>2, <3>3
      <4>4. Twice({Entry(Append(place, 4), Joined(g, list[4].name), list[4])}) = {leaf[4]}
        BY ZenonT(40), <1>13, <3>2, <3>3
      <4> QED
        BY Zenon, <4>1, <4>2, <4>3, <4>4, <3>4 DEF LeavesAre
    <3>6. R = {leaf[i] : i \in DOMAIN list}
      <4>1. files = list
        BY <3>1 DEF list
      <4> HIDE DEF files
      <4>2. Inside(place, Directory(g, list)) = {leaf[i] : i \in DOMAIN list}
        BY <3>5, InsideFolder
      <4> QED
        BY Zenon, <4>1, <4>2 DEF R
    <3> DEFINE ax == Append(place, 1)
               ay == Append(place, 1)
               am == Append(place, 1)
               ap == Append(place, 2)
               ac == Append(place, 3)
               aq == Append(place, 4)
    <3>7. R \subseteq {lx(ax), ly(ay), lm(am), lp(ap), lc(ac), lq(aq)}
      BY Zenon, <3>3, <3>4, <3>6
    <3>8. lm(am) \in R /\ lc(ac) \in R /\ lq(aq) \in R
      BY Zenon, <3>3, <3>4, <3>6
    <3> HIDE DEF ax, ay, am, ap, ac, aq
    <3> QED
      BY <2>4, <3>7, <3>8
  <2> QED
    BY <2>1, <2>2, <2>3, <2>4
<1>16. PICK ax, ay, am, ap, ac, aq :
          /\ R \subseteq {lx(ax), ly(ay), lm(am), lp(ap), lc(ac), lq(aq)}
          /\ lm(am) \in R /\ lc(ac) \in R /\ lq(aq) \in R
          /\ texture # NoFile => lx(ax) \in R
  BY <1>15
<1> DEFINE a == lx(ax)
           b == ly(ay)
           c == lm(am)
           d == lp(ap)
           e == lc(ac)
           h == lq(aq)
<1>17. /\ PathOf(a) = xpath /\ FileOf(a) = fx /\ PathOf(b) = ypath /\ FileOf(b) = fy
       /\ PathOf(c) = ManifestOf(f) /\ FileOf(c) = M /\ PathOf(d) = ppath /\ FileOf(d) = fp
       /\ PathOf(e) = cpath /\ FileOf(e) = fc /\ PathOf(h) = qpath /\ FileOf(h) = fq
  BY Zenon, <1>14
<1>18. R \subseteq {a, b, c, d, e, h} /\ c \in R /\ e \in R /\ h \in R
       /\ (texture # NoFile => a \in R)
  BY <1>16
<1> HIDE DEF a, b, c, d, e, h
<1>19. FolderHolds(f, R, m)
  <2>1. \A r \in R : FileOf(r).dir = FALSE /\ Head(PathOf(r)) = f
    <3>1. /\ FileOf(a).dir = FALSE /\ FileOf(b).dir = FALSE /\ FileOf(c).dir = FALSE
          /\ FileOf(d).dir = FALSE /\ FileOf(e).dir = FALSE /\ FileOf(h).dir = FALSE
      BY Zenon, <1>5, <1>17
    <3>2. /\ Head(PathOf(a)) = f /\ Head(PathOf(b)) = f /\ Head(PathOf(c)) = f
          /\ Head(PathOf(d)) = f /\ Head(PathOf(e)) = f /\ Head(PathOf(h)) = f
      BY Zenon, <1>6, <1>7, <1>8, <1>17
    <3> QED
      BY Zenon, <1>18, <3>1, <3>2
  <2> DEFINE t(r) == PathOf(r)[3]
             manifest == "manifest.json"
  <2>2. /\ t(a) = textures /\ t(b) = models /\ t(c) = manifest /\ t(d) = texts
        /\ t(e) = entity /\ t(h) = controllers
    BY <1>3, <1>7, <1>8, <1>17
  <2>3. \A r, s \in R : t(r) = t(s) => r = s
    <3>1. /\ textures # manifest /\ models # manifest /\ texts # manifest
          /\ entity # manifest /\ controllers # manifest
      BY <1>4
    <3> HIDE DEF t, manifest
    <3> QED
      BY <1>4, <1>18, <2>2, <3>1
  <2>4. \A r, s \in R : PathOf(r) = PathOf(s) => r = s
    BY <2>3
  <2>5. c \in R /\ PathOf(c) = ManifestOf(f) /\ FileOf(c).contents = m
    BY Zenon, <1>5, <1>17, <1>18
  <2> QED
    BY Zenon, <1>3, <2>1, <2>4, <2>5 DEF FolderHolds
<1>20. texture # NoFile => HasFile(R, <<f, "/", textures, "/", entity, "/">> \o xname, texture)
  <2>1. PathOf(a) = <<f, "/", textures, "/", entity, "/">> \o xname /\ FileOf(a).contents = texture
    BY <1>5, <1>7, <1>17
  <2> QED
    BY Zenon, <1>18, <2>1 DEF HasFile
<1>21. HasFile(R, <<f, "/", entity, "/">> \o cname, client)
  <2>1. PathOf(e) = <<f, "/", entity, "/">> \o cname /\ FileOf(e).contents = client
    BY <1>5, <1>8, <1>17
  <2> QED
    BY Zenon, <1>18, <2>1 DEF HasFile
<1>22. HasFile(R, <<f, "/", controllers, "/">> \o qname, control)
  <2>1. PathOf(h) = <<f, "/", controllers, "/">> \o qname /\ FileOf(h).contents = control
    BY <1>5, <1>8, <1>17
  <2> QED
    BY Zenon, <1>18, <2>1 DEF HasFile
<1> QED
  BY <1>19, <1>20, <1>21, <1>22
     DEF R, f, textures, models, texts, entity, controllers, g, mname, pname, xname, yname, tx, ty,
         es, xs, ys, ps, qs, X, Y, M, P, C, Q, fx, fy, fp, fc, fq

\* The manifests that an entity's archive holds.
EntityManifests(o) ==
    LET p == genManifest(o.generate = "both")
    IN  IF ~verifyIdentifier(o.identifier) THEN {}
        ELSE IF o.generate = "both" THEN {p.rp, p.bp}
        ELSE IF o.generate = "res" THEN {p.rp} ELSE {p.bp}

\* The resource pack, the behavior pack, both, or nothing at all.
LEMMA EntityArchive ==
    ASSUME NEW o, o.identifier \in Seq(Words), o.generate \in {"both", "res", "beh"},
           o.texture.name \in Seq(Words), o.model.name \in Seq(Words)
    PROVE  LET R == Entries(make(o))
               name == get_name(o.identifier)
           IN  /\ ArchiveWith(R, EntityManifests(o))
               /\ (verifyIdentifier(o.identifier) /\ o.generate # "beh") =>
                     /\ o.texture # NoFile =>
                           HasFile(R, <<"resource_pack", "/", "textures", "/", "entity", "/">>
                                         \o o.texture.name, o.texture)
                     /\ HasFile(R, <<"resource_pack", "/", "entity", "/">>
                                      \o (name \o <<".client.json">>), ClientEntity(o))
                     /\ HasFile(R, <<"resource_pack", "/", "render_controllers", "/">>
                                      \o (name \o <<".render_controllers.json">>),
                                RenderControllers(o))
               /\ ~verifyIdentifier(o.identifier) => R = {}
<1> DEFINE p == genManifest(o.generate = "both")
           n == get_name(o.identifier)
           cname == n \o <<".client.json">>
           qname == n \o <<".render_controllers.json">>
           ename == n \o <<".json">>
           verified == verifyIdentifier(o.identifier)
           res == ResourcePack(o, p.rp)
           beh == BehaviorPack(o, p.bp)
           R == Entries(make(o))
           rf == "resource_pack"
           bf == "behavior_pack"
           client == ClientEntity(o)
           control == RenderControllers(o)
           xpath == <<"resource_pack", "/", "textures", "/", "entity", "/">> \o o.texture.name
           cpath == <<"resource_pack", "/", "entity", "/">> \o cname
           qpath == <<"resource_pack", "/", "render_controllers", "/">> \o qname
           Has(T) == /\ o.texture # NoFile => HasFile(T, xpath, o.texture)
                     /\ HasFile(T, cpath, client)
                     /\ HasFile(T, qpath, control)
<1>1. cname \in Seq(Words) /\ qname \in Seq(Words) /\ ename \in Seq(Words)
  <2> DEFINE c == ".client.json"
             q == ".render_controllers.json"
             e == ".json"
  <2>1. c \in Words /\ q \in Words /\ e \in Words
    BY DEF Words
  <2>2. n \in Seq(Words)
    BY Zenon, NameWords
  <2> HIDE DEF n, c, q, e
  <2>3. n \o <<c>> \in Seq(Words) /\ n \o <<q>> \in Seq(Words) /\ n \o <<e>> \in Seq(Words)
    BY <2>1, <2>2
  <2> QED
    BY <2>3 DEF c, q, e
<1>2. make(o) = Directory(<<>>, IF ~verified THEN <<>>
                                ELSE (IF o.generate = "beh" THEN <<>> ELSE <<res>>)
                                     \o (IF o.generate = "res" THEN <<>> ELSE <<beh>>))
  BY Zenon DEF make
<1>3. rf # bf
  OBVIOUS
<1> HIDE DEF n, cname, qname, ename
<1>4. \A place : /\ FolderHolds(rf, Inside(place, res), p.rp)
                 /\ Has(Inside(place, res))
  <2> SUFFICES ASSUME NEW place
               PROVE  FolderHolds(rf, Inside(place, res), p.rp) /\ Has(Inside(place, res))
    OBVIOUS
  <2> DEFINE One(folder, name, contents) == Directory(<<folder>>, <<File(name, contents)>>)
             texture == o.texture
             model == o.model
             m == p.rp
             text == <<"entity">> \o o.identifier
  <2>1. texture.name \in Seq(Words) /\ model.name \in Seq(Words)
    OBVIOUS
  <2> HIDE DEF texture, model, m, text, client, control, p
  <2> DEFINE U == Inside(place, Directory(<<"resource_pack">>,
                     Attached("textures", texture) \o Attached("models", model)
                       \o <<File(<<"manifest.json">>, m),
                            One("texts", <<"en_US.lang">>, text),
                            One("entity", cname, client),
                            One("render_controllers", qname, control)>>))
  <2>2. FolderHolds("resource_pack", U, m)
    BY ZenonT(60), <1>1, <2>1, EntityResources
  <2>3. texture # NoFile =>
           HasFile(U, <<"resource_pack", "/", "textures", "/", "entity", "/">> \o texture.name, texture)
    BY ZenonT(60), <1>1, <2>1, EntityResources
  <2>4. HasFile(U, <<"resource_pack", "/", "entity", "/">> \o cname, client)
    BY ZenonT(60), <1>1, <2>1, EntityResources
  <2>5. HasFile(U, <<"resource_pack", "/", "render_controllers", "/">> \o qname, control)
    BY ZenonT(60), <1>1, <2>1, EntityResources
  <2>6. Inside(place, res) = U
    BY DEF ResourcePack, texture, model, m, text, client, control, n, cname, qname
  <2> HIDE DEF U, res
  <2> QED
    BY <2>2, <2>3, <2>4, <2>5, <2>6 DEF texture, m
<1>5. \A place : FolderHolds(bf, Inside(place, beh), p.bp)
  <2> SUFFICES ASSUME NEW place PROVE FolderHolds(bf, Inside(place, beh), p.bp)
    OBVIOUS
  <2> DEFINE x == "entities"
             m == p.bp
             what == o.identifier
  <2>1. bf \in Words /\ bf # "/" /\ x \in Words /\ x # "manifest.json"
    BY DEF Words
  <2>2. beh = Directory(<<bf>>, <<File(<<"manifest.json">>, m),
                                 Directory(<<x>>, <<File(ename, what)>>)>>)
    BY DEF BehaviorPack, n, ename
  <2> HIDE DEF bf, x, m, what, beh
  <2>3. FolderHolds(bf, Inside(place, Directory(<<bf>>, <<File(<<"manifest.json">>, m),
                                 Directory(<<x>>, <<File(ename, what)>>)>>)), m)
    BY <1>1, <2>1, BehaviorFolder
  <2> QED
    BY <2>2, <2>3 DEF m
<1> HIDE DEF res, beh, verified, rf, bf, p, xpath, cpath, qpath, client, control
<1>6. CASE ~verified
  <2>1. R = {}
    BY <1>2, <1>6, RootEmpty
  <2>2. PathsOf(R) /\ ManifestsOf(R) = {}
    BY <2>1 DEF PathsOf, ManifestsOf
  <2>3. EntityManifests(o) = {}
    BY <1>6 DEF EntityManifests, verified
  <2> HIDE DEF R
  <2>4. ArchiveWith(R, EntityManifests(o))
    BY <2>2, <2>3 DEF ArchiveWith
  <2> QED
    BY <1>6, <2>1, <2>4 DEF R, verified
<1>7. CASE verified /\ o.generate = "both"
  <2> DEFINE T == Inside(Append(<<>>, 1), res)
             V == Inside(Append(<<>>, 2), beh)
  <2>1. R = T \cup V
    <3>1. <<res>> \o <<beh>> = <<res, beh>>
      BY Lists11
    <3>2. make(o) = Directory(<<>>, <<res, beh>>)
      BY <1>2, <1>7, <3>1
    <3> QED
      BY <3>2, RootTwo
  <2>2. FolderHolds(rf, T, p.rp) /\ Has(T) /\ FolderHolds(bf, V, p.bp)
    BY Zenon, <1>4, <1>5
  <2>3. EntityManifests(o) = {p.rp, p.bp}
    BY <1>7 DEF EntityManifests, verified, p
  <2> HIDE DEF R, T, V
  <2>4. ArchiveWith(T \cup V, {p.rp, p.bp})
    BY Zenon, <1>3, <2>2, TwoFolders DEF rf, bf
  <2>5. Has(T \cup V)
    BY Zenon, <2>2 DEF HasFile
  <2>6. ArchiveWith(R, EntityManifests(o)) /\ Has(R)
    BY <2>1, <2>3, <2>4, <2>5
  <2> QED
    BY <1>7, <2>6 DEF R, verified, xpath, cpath, qpath, cname, qname, client, control, n
<1>8. CASE verified /\ o.generate = "res"
  <2>1. R = Inside(Append(<<>>, 1), res)
    <3>1. <<res>> \o <<>> = <<res>>
      OBVIOUS
    <3>2. make(o) = Directory(<<>>, <<res>>)
      BY <1>2, <1>8, <3>1
    <3> QED
      BY <3>2, RootOne
  <2>2. FolderHolds(rf, R, p.rp) /\ Has(R)
    BY Zenon, <1>4, <2>1
  <2>3. EntityManifests(o) = {p.rp}
    BY <1>8 DEF EntityManifests, verified, p
  <2> HIDE DEF R
  <2>4. ArchiveWith(R, EntityManifests(o))
    BY <2>2, <2>3, OneFolder
  <2> QED
    BY <1>8, <2>2, <2>4 DEF R, verified, xpath, cpath, qpath, cname, qname, client, control, n
<1>9. CASE verified /\ o.generate = "beh"
  <2>1. R = Inside(Append(<<>>, 1), beh)
    <3>1. <<>> \o <<beh>> = <<beh>>
      OBVIOUS
    <3>2. make(o) = Directory(<<>>, <<beh>>)
      BY <1>2, <1>9, <3>1
    <3> QED
      BY <3>2, RootOne
  <2>2. FolderHolds(bf, R, p.bp)
    BY Zenon, <1>5, <2>1
  <2>3. EntityManifests(o) = {p.bp}
    BY <1>9 DEF EntityManifests, verified, p
  <2> HIDE DEF R
  <2>4. ArchiveWith(R, EntityManifests(o))
    BY <2>2, <2>3, OneFolder
  <2> QED
    BY <1>9, <2>4 DEF R, verified
<1> QED
  BY <1>6, <1>7, <1>8, <1>9

----------------------------------------------------------------------------
(* The answers of Generators.                                               *)

\* A request for an archive comes with the options that the user gave and with
\* the archive that they ask for.
ArchiveAnswered ==
    /\ request.op = "pack" =>
          request.o \in PackOptions /\ result = Entries(Independent(request.o))
    /\ request.op = "pair" =>
          request.o \in PairOptions /\ result = Entries(Dependent(request.o))
    /\ request.op = "item" =>
          request.o \in ItemOptions /\ result = Entries(ItemPack(request.o))
    /\ request.op = "entity" =>
          request.o \in EntityOptions /\ result = Entries(make(request.o))

LEMMA ArchiveAnswers == Spec => []ArchiveAnswered
<1>1. Init => ArchiveAnswered
  BY DEF Init, Idle, ArchiveAnswered
<1>2. ArchiveAnswered /\ [Next]_vars => ArchiveAnswered'
  <2> SUFFICES ASSUME ArchiveAnswered, [Next]_vars PROVE ArchiveAnswered'
    OBVIOUS
  <2>1. CASE UNCHANGED vars
    BY <2>1 DEF ArchiveAnswered, vars
  <2>2. ASSUME NEW v \in PayloadValues, Read(v) PROVE ArchiveAnswered'
    BY <2>2 DEF Read, Serve, ArchiveAnswered
  <2>3. ASSUME NEW text \in RawTexts, NEW do_minify \in BOOLEAN, Obfuscate(text, do_minify)
        PROVE  ArchiveAnswered'
    BY <2>3 DEF Obfuscate, Serve, ArchiveAnswered
  <2>4. ASSUME NEW codes \in Codes, NEW do_minify \in BOOLEAN, Escape(codes, do_minify)
        PROVE  ArchiveAnswered'
    BY <2>4 DEF Escape, Serve, ArchiveAnswered
  <2>5. ASSUME NEW o \in PackOptions, MakeIndependent(o) PROVE ArchiveAnswered'
    BY <2>5 DEF MakeIndependent, Serve, ArchiveAnswered
  <2>6. ASSUME NEW o \in PairOptions, MakeDependent(o) PROVE ArchiveAnswered'
    BY <2>6 DEF MakeDependent, Serve, ArchiveAnswered
  <2>7. ASSUME NEW o \in ItemOptions, MakeItem(o) PROVE ArchiveAnswered'
    BY <2>7 DEF MakeItem, Serve, ArchiveAnswered
  <2>8. ASSUME NEW o \in EntityOptions, MakeEntity(o) PROVE ArchiveAnswered'
    BY <2>8 DEF MakeEntity, Serve, ArchiveAnswered
  <2>9. CASE Answer
    BY <2>9 DEF Answer, Idle, ArchiveAnswered
  <2> QED
    BY Zenon, <2>1, <2>2, <2>3, <2>4, <2>5, <2>6, <2>7, <2>8, <2>9 DEF Next
<1> QED
  BY <1>1, <1>2, PTL DEF Spec

\* The texts among the options are made of words.
LEMMA Strings == Seq(STRING) \subseteq Seq(Words)
<1>1. STRING \subseteq Words
  BY Zenon DEF Words
<1> QED
  BY Zenon, <1>1, SeqMonotonic

LEMMA OptionsWords ==
    /\ \A o \in ItemOptions :
          o.identifier \in Seq(Words) /\ o.icon \in Seq(Words) /\ o.image \in BOOLEAN
    /\ \A o \in EntityOptions :
          /\ o.identifier \in Seq(Words) /\ o.generate \in {"both", "res", "beh"}
          /\ o.texture.name \in Seq(Words) /\ o.model.name \in Seq(Words)
          /\ o.texture # NoFile => o.texture.name # <<>>
<1>1. \A o \in ItemOptions :
          o.identifier \in Seq(STRING) /\ o.icon \in Seq(STRING) /\ o.image \in BOOLEAN
  BY Zenon, OptionsAssumption
<1>2. \A o \in EntityOptions :
         /\ o.identifier \in Seq(STRING) /\ o.generate \in {"both", "res", "beh"}
         /\ \A file \in {o.texture, o.model} :
               file = NoFile \/ (file.name \in Seq(STRING) /\ file.name # <<>>)
  BY Zenon, OptionsAssumption
<1>3. NoFile.name \in Seq(Words)
  <2>1. NoFile.name = <<>>
    BY DEF NoFile
  <2> QED
    BY <2>1, EmptySeq
<1>4. \A o \in ItemOptions :
         o.identifier \in Seq(Words) /\ o.icon \in Seq(Words) /\ o.image \in BOOLEAN
  BY Zenon, <1>1, Strings
<1>5. ASSUME NEW o \in EntityOptions
      PROVE  /\ o.identifier \in Seq(Words) /\ o.generate \in {"both", "res", "beh"}
             /\ o.texture.name \in Seq(Words) /\ o.model.name \in Seq(Words)
             /\ o.texture # NoFile => o.texture.name # <<>>
  <2>1. /\ o.texture = NoFile \/ (o.texture.name \in Seq(STRING) /\ o.texture.name # <<>>)
        /\ o.model = NoFile \/ (o.model.name \in Seq(STRING) /\ o.model.name # <<>>)
    BY Zenon, <1>2
  <2>2. o.texture.name \in Seq(Words)
    BY Zenon, <1>3, <2>1, Strings
  <2>3. o.model.name \in Seq(Words)
    BY Zenon, <1>3, <2>1, Strings
  <2>4. o.identifier \in Seq(Words) /\ o.generate \in {"both", "res", "beh"}
    BY Zenon, <1>2, Strings
  <2> QED
    BY Zenon, <2>1, <2>2, <2>3, <2>4
<1> QED
  BY Zenon, <1>4, <1>5

\* The manifests of the archive that was asked for.
Expected(r) ==
    CASE r.op = "pack" -> {generate_nondependent(r.o)}
      [] r.op = "pair" -> {generate_dependent(r.o).rp, generate_dependent(r.o).bp}
      [] r.op = "item" -> {genManifest(TRUE).rp, genManifest(TRUE).bp}
      [] r.op = "entity" -> EntityManifests(r.o)

LEMMA AllArchives ==
    ASSUME ArchiveAnswered, request.op \in Archives
    PROVE  ArchiveWith(result, Expected(request))
<1>1. CASE request.op = "pack"
  <2>1. request.o \in PackOptions /\ result = Entries(Independent(request.o))
    BY <1>1 DEF ArchiveAnswered
  <2>2. request.o.pack_icon \in BOOLEAN
    BY Zenon, <2>1, OptionsAssumption
  <2>3. ArchiveWith(result, {generate_nondependent(request.o)})
    BY <2>1, <2>2, PackArchive
  <2> QED
    BY <1>1, <2>3 DEF Expected
<1>2. CASE request.op = "pair"
  <2>1. request.o \in PairOptions /\ result = Entries(Dependent(request.o))
    BY <1>2 DEF ArchiveAnswered
  <2>2. request.o.pack_icon \in BOOLEAN
    BY Zenon, <2>1, OptionsAssumption
  <2>3. ArchiveWith(result, {generate_dependent(request.o).rp, generate_dependent(request.o).bp})
    BY <2>1, <2>2, PairArchive
  <2> QED
    BY <1>2, <2>3 DEF Expected
<1>3. CASE request.op = "item"
  <2>1. request.o \in ItemOptions /\ result = Entries(ItemPack(request.o))
    BY <1>3 DEF ArchiveAnswered
  <2>2. ArchiveWith(result, {genManifest(TRUE).rp, genManifest(TRUE).bp})
    BY <2>1, OptionsWords, ItemArchive
  <2> QED
    BY <1>3, <2>2 DEF Expected
<1>4. CASE request.op = "entity"
  <2>1. request.o \in EntityOptions /\ result = Entries(make(request.o))
    BY <1>4 DEF ArchiveAnswered
  <2>2. ArchiveWith(result, EntityManifests(request.o))
    BY <2>1, OptionsWords, EntityArchive
  <2> QED
    BY <1>4, <2>2 DEF Expected
<1> QED
  BY <1>1, <1>2, <1>3, <1>4 DEF Archives

\* For all options: the paths of an archive are distinct files in folders that each
\* hold a manifest (add_files_to_zip and the generators' trees).
THEOREM ArchivesWellFormed == Spec => []ZipPaths
<1>1. ArchiveAnswered => ZipPaths
  <2> SUFFICES ASSUME ArchiveAnswered, request.op \in Archives PROVE PathsOf(result)
    BY Zenon DEF ZipPaths, PathsOf
  <2> QED
    BY Zenon, AllArchives DEF ArchiveWith
<1> QED
  BY <1>1, ArchiveAnswers, PTL

----------------------------------------------------------------------------
(* Manifests that go together.                                              *)

\* PairLinked, of the manifests M; games holds when the Gametest modules may take
\* the place of a dependency.
ApartFrom(a, b, games) ==
    /\ a.uuid # b.uuid
    /\ \/ \E d \in ToSet(b.dependencies) : d.uuid = a.uuid
       \/ a.modules[1].type = "resources" /\ games
Unshared(a, b) ==
    \A i \in DOMAIN a.modules, j \in DOMAIN b.modules :
       /\ a.modules[i].uuid # b.uuid
       /\ (a.modules[i].uuid = b.modules[j].uuid /\ a.modules[i] # NoModule) => (a = b /\ i = j)
NeedsOthers(a) == \A d \in ToSet(a.dependencies) : d.uuid # a.uuid

LinkedIn(M, games) ==
    /\ \A a, b \in M : a # b => ApartFrom(a, b, games)
    /\ \A a \in M : NeedsOthers(a) /\ \A b \in M : Unshared(a, b)

LEMMA NeedsOf ==
    ASSUME NEW a, NEW u
    PROVE  u \in Needs(a) <=> \E d \in ToSet(a.dependencies) : d.uuid = u
  BY Zenon DEF Needs

LEMMA IdsOf ==
    ASSUME NEW a, NEW i \in DOMAIN a.modules
    PROVE  a.modules[i].uuid \in ModuleIds(a)
  BY Zenon DEF ModuleIds

LEMMA UnsharedSelf ==
    ASSUME NEW a, a.uuid \notin ModuleIds(a), DistinctModules(a)
    PROVE  Unshared(a, a)
  BY Zenon, IdsOf DEF Unshared, DistinctModules

LEMMA UnsharedOther ==
    ASSUME NEW a, NEW b, b.uuid \notin ModuleIds(a), ModuleIds(a) \cap ModuleIds(b) = {}
    PROVE  Unshared(a, b)
<1>1. \A i \in DOMAIN a.modules : a.modules[i].uuid \in ModuleIds(a)
  BY IdsOf
<1>2. \A i \in DOMAIN b.modules : b.modules[i].uuid \in ModuleIds(b)
  BY IdsOf
<1> QED
  BY <1>1, <1>2 DEF Unshared

LEMMA LoneLinked ==
    ASSUME NEW a, NEW games, a.uuid \notin Needs(a), a.uuid \notin ModuleIds(a), DistinctModules(a)
    PROVE  LinkedIn({a}, games)
<1>1. NeedsOthers(a)
  BY Zenon, NeedsOf DEF NeedsOthers
<1>2. Unshared(a, a)
  BY Zenon, UnsharedSelf
<1> QED
  BY Zenon, <1>1, <1>2 DEF LinkedIn

LEMMA PairIsLinked ==
    ASSUME NEW rp, NEW bp, NEW games,
           rp.uuid # bp.uuid, rp.uuid \notin Needs(rp), bp.uuid \notin Needs(bp),
           bp.uuid \in Needs(rp),
           rp.uuid \in Needs(bp) \/ (rp.modules[1].type = "resources" /\ games),
           {rp.uuid, bp.uuid} \cap (ModuleIds(rp) \cup ModuleIds(bp)) = {},
           ModuleIds(rp) \cap ModuleIds(bp) = {},
           DistinctModules(rp), DistinctModules(bp)
    PROVE  LinkedIn({rp, bp}, games)
<1>1. NeedsOthers(rp) /\ NeedsOthers(bp)
  BY Zenon, NeedsOf DEF NeedsOthers
<1>2. ApartFrom(rp, bp, games) /\ ApartFrom(bp, rp, games)
  BY Zenon, NeedsOf DEF ApartFrom
<1>3. /\ rp.uuid \notin ModuleIds(rp) /\ bp.uuid \notin ModuleIds(rp)
      /\ rp.uuid \notin ModuleIds(bp) /\ bp.uuid \notin ModuleIds(bp)
      /\ ModuleIds(bp) \cap ModuleIds(rp) = {}
  OBVIOUS
<1>4. Unshared(rp, rp) /\ Unshared(bp, bp)
  BY Zenon, <1>3, UnsharedSelf
<1>5. Unshared(rp, bp)
  BY Zenon, <1>3, UnsharedOther
<1>6. Unshared(bp, rp)
  BY Zenon, <1>3, UnsharedOther
<1> QED
  BY Zenon, <1>1, <1>2, <1>4, <1>5, <1>6 DEF LinkedIn

\* A manifest with one module.
LEMMA OneModule ==
    ASSUME NEW a, NEW type, NEW u, a.modules = <<Module(type, u)>>
    PROVE  ModuleIds(a) = {u} /\ DistinctModules(a) /\ a.modules[1].type = type
<1> DEFINE x == Module(type, u)
<1>1. x.uuid = u /\ x.type = type
  BY DEF Module
<1>2. a.modules = <<x>>
  OBVIOUS
<1> HIDE DEF x
<1>3. DOMAIN a.modules = {1} /\ a.modules[1] = x
  BY <1>2
<1>4. ModuleIds(a) = {u}
  BY Zenon, <1>1, <1>3 DEF ModuleIds
<1>5. DistinctModules(a)
  BY Zenon, <1>3 DEF DistinctModules
<1> QED
  BY Zenon, <1>1, <1>3, <1>4, <1>5

LEMMA CommonLinked ==
    ASSUME NEW games
    PROVE  LET m == genManifest(TRUE) IN LinkedIn({m.rp, m.bp}, games)
<1> DEFINE m == genManifest(TRUE)
           rp == m.rp
           bp == m.bp
<1>0. CommonFacts(TRUE, m)
  BY CommonManifests
<1> HIDE DEF m
<1>1. /\ rp.uuid = 2 /\ bp.uuid = 1 /\ Needs(rp) = {1} /\ Needs(bp) = {2}
      /\ rp.modules = <<Module("resources", 4)>> /\ bp.modules = <<Module("data", 3)>>
  BY <1>0 DEF CommonFacts
<1> HIDE DEF rp, bp
<1>2. ModuleIds(rp) = {4} /\ DistinctModules(rp) /\ ModuleIds(bp) = {3} /\ DistinctModules(bp)
  BY <1>1, OneModule
<1>3. LinkedIn({rp, bp}, games)
  BY SMTT(60), <1>1, <1>2, PairIsLinked
<1> QED
  BY <1>3 DEF rp, bp, m

LEMMA PairOptionsLinked ==
    ASSUME NEW o, o.bp_use_scripts \in BOOLEAN, o.bp_use_gametest \in BOOLEAN
    PROVE  LET m == generate_dependent(o) IN LinkedIn({m.rp, m.bp}, o.bp_use_gametest)
<1> DEFINE m == generate_dependent(o)
           rp == m.rp
           bp == m.bp
           Ahead == IF o.bp_use_scripts THEN 3 ELSE 2
           games == o.bp_use_gametest
           scripts == o.bp_use_scripts
<1>1. /\ rp.uuid = Ahead + 1 /\ bp.uuid = 1 /\ Needs(rp) = {1}
      /\ Needs(bp) = IF games THEN {Ahead + 3, Ahead + 4} ELSE {Ahead + 1}
      /\ rp.modules = <<Module("resources", Ahead + 2)>>
      /\ ModuleIds(bp) \subseteq {2, 3, Ahead + 5, 0} /\ DistinctModules(bp)
      /\ ~scripts => 3 \notin ModuleIds(bp)
  <2>1. PairFacts(scripts, games, m)
    BY PairManifests
  <2> HIDE DEF m
  <2> QED
    BY <2>1 DEF PairFacts
<1>2. Ahead \in {2, 3} /\ (Ahead = 3 <=> scripts) /\ games \in BOOLEAN
  OBVIOUS
<1> HIDE DEF rp, bp, Ahead, games, scripts
<1>3. ModuleIds(rp) = {Ahead + 2} /\ DistinctModules(rp) /\ rp.modules[1].type = "resources"
  <2>1. rp.modules = <<Module("resources", Ahead + 2)>>
    BY <1>1
  <2> QED
    BY ZenonT(40), <2>1, OneModule
<1>4. /\ rp.uuid # bp.uuid /\ rp.uuid \notin Needs(rp) /\ bp.uuid \notin Needs(bp)
      /\ bp.uuid \in Needs(rp)
      /\ rp.uuid \in Needs(bp) \/ games
  BY <1>1, <1>2
<1>5. /\ {rp.uuid, bp.uuid} \cap (ModuleIds(rp) \cup ModuleIds(bp)) = {}
      /\ ModuleIds(rp) \cap ModuleIds(bp) = {}
  BY <1>1, <1>2, <1>3
<1>6. LinkedIn({rp, bp}, games)
  BY <1>1, <1>3, <1>4, <1>5, PairIsLinked
<1> QED
  BY <1>6 DEF rp, bp, games

LEMMA CommonAlone ==
    ASSUME NEW m, CommonFacts(FALSE, m), NEW games
    PROVE  LinkedIn({m.rp}, games) /\ LinkedIn({m.bp}, games)
<1> DEFINE rp == m.rp
           bp == m.bp
<1>1. /\ rp.uuid = 2 /\ bp.uuid = 1 /\ Needs(rp) = {} /\ Needs(bp) = {}
      /\ rp.modules = <<Module("resources", 4)>> /\ bp.modules = <<Module("data", 3)>>
  BY DEF CommonFacts
<1> HIDE DEF rp, bp
<1>2. ModuleIds(rp) = {4} /\ DistinctModules(rp) /\ ModuleIds(bp) = {3} /\ DistinctModules(bp)
  <2>1. rp.modules = <<Module("resources", 4)>>
    BY <1>1
  <2>2. bp.modules = <<Module("data", 3)>>
    BY <1>1
  <2>3. ModuleIds(rp) = {4} /\ DistinctModules(rp)
    BY <2>1, OneModule
  <2>4. ModuleIds(bp) = {3} /\ DistinctModules(bp)
    BY <2>2, OneModule
  <2> QED
    BY <2>3, <2>4
<1>3. LinkedIn({rp}, games) /\ LinkedIn({bp}, games)
  BY <1>1, <1>2, LoneLinked
<1> QED
  BY <1>3 DEF rp, bp

LEMMA EntityLinked ==
    ASSUME NEW o, o.generate \in {"both", "res", "beh"}, NEW games
    PROVE  LinkedIn(EntityManifests(o), games)
<1> DEFINE both == o.generate = "both"
           m == genManifest(both)
<1>1. CASE EntityManifests(o) = {}
  BY Zenon, <1>1 DEF LinkedIn
<1>2. CASE both
  BY <1>1, <1>2, CommonLinked DEF EntityManifests
<1>3. CASE ~both
  <2>1. both = FALSE
    BY <1>3
  <2>2. CommonFacts(FALSE, m)
    <3>1. CommonFacts(FALSE, genManifest(FALSE))
      BY CommonManifests
    <3> HIDE DEF both
    <3> QED
      BY <2>1, <3>1
  <2>3. EntityManifests(o) \in {{}, {m.rp}, {m.bp}}
    BY <1>3 DEF EntityManifests
  <2> HIDE DEF m
  <2>4. LinkedIn({m.rp}, games) /\ LinkedIn({m.bp}, games)
    BY <2>2, CommonAlone
  <2> QED
    BY Zenon, <1>1, <2>3, <2>4
<1> QED
  BY <1>2, <1>3

\* For all options: two packs in one archive depend on each other, but for the
\* Gametest modules, and no UUID stands for two things (Link, genManifest,
\* generate_dependent and generate_nondependent).
THEOREM PacksLinked == Spec => []PairLinked
<1>1. ArchiveAnswered => PairLinked
  <2> DEFINE games == request.op = "pair" /\ request.o.bp_use_gametest
  <2> SUFFICES ASSUME ArchiveAnswered, request.op \in Archives
               PROVE  LinkedIn(Manifests, games)
    BY Zenon DEF PairLinked, LinkedIn, ApartFrom, Unshared, NeedsOthers
  <2>1. Manifests = Expected(request)
    <3>1. ManifestsOf(result) = Expected(request)
      BY AllArchives DEF ArchiveWith
    <3> QED
      BY <3>1 DEF Manifests, ManifestsOf
  <2>2. CASE request.op = "pack"
    <3> DEFINE a == generate_nondependent(request.o)
    <3>1. request.o \in PackOptions
      BY <2>2 DEF ArchiveAnswered
    <3>2. request.o.pack_type \in Types /\ request.o.pack_use_gametest \in BOOLEAN
      BY Zenon, <3>1, OptionsAssumption
    <3>3. /\ a.uuid = 1 /\ 1 \notin Needs(a) /\ 1 \notin ModuleIds(a) /\ DistinctModules(a)
      BY <3>2, LoneManifest
    <3>4. Expected(request) = {a}
      BY <2>2 DEF Expected
    <3> HIDE DEF a
    <3>5. LinkedIn({a}, games)
      BY <3>3, LoneLinked
    <3> QED
      BY <2>1, <3>4, <3>5
  <2>3. CASE request.op = "pair"
    <3> DEFINE m == generate_dependent(request.o)
    <3>1. request.o \in PairOptions
      BY <2>3 DEF ArchiveAnswered
    <3>2. request.o.bp_use_scripts \in BOOLEAN /\ request.o.bp_use_gametest \in BOOLEAN
      BY Zenon, <3>1, OptionsAssumption
    <3>3. LinkedIn({m.rp, m.bp}, request.o.bp_use_gametest)
      BY <3>2, PairOptionsLinked
    <3>4. Expected(request) = {m.rp, m.bp} /\ games = request.o.bp_use_gametest
      BY <2>3, <3>2 DEF Expected
    <3> QED
      BY <2>1, <3>3, <3>4
  <2>4. CASE request.op = "item"
    <3> DEFINE m == genManifest(TRUE)
    <3>1. Expected(request) = {m.rp, m.bp}
      BY <2>4 DEF Expected
    <3>2. LinkedIn({m.rp, m.bp}, games)
      BY CommonLinked
    <3> QED
      BY <2>1, <3>1, <3>2
  <2>5. CASE request.op = "entity"
    <3>1. request.o \in EntityOptions
      BY <2>5 DEF ArchiveAnswered
    <3>2. request.o.generate \in {"both", "res", "beh"}
      BY Zenon, <3>1, OptionsAssumption
    <3>3. LinkedIn(EntityManifests(request.o), games)
      BY <3>2, EntityLinked
    <3>4. Expected(request) = EntityManifests(request.o)
      BY <2>5 DEF Expected
    <3> QED
      BY <2>1, <3>3, <3>4
  <2> QED
    BY <2>2, <2>3, <2>4, <2>5 DEF Archives
<1> QED
  BY <1>1, ArchiveAnswers, PTL

----------------------------------------------------------------------------
(* References from one file to another.                                     *)

Rejoins(a, b, c) == a \o b \o c = a \o (b \o c)
LEMMA Rejoined ==
    ASSUME NEW a \in Seq(Words), NEW b \in Seq(Words), NEW c \in Seq(Words)
    PROVE  Rejoins(a, b, c)
  BY SMTT(60), ConcatAssociative DEF Rejoins

\* A name without its extension, and the extension again.
LEMMA ExtensionBack ==
    ASSUME NEW name \in Seq(Words), name # <<>>, NEW extension, Last(name) = extension
    PROVE  Front(name) \in Seq(Words) /\ Front(name) \o <<extension>> = name
<1>1. Len(name) \in Nat \ {0}
  BY EmptySeq, LenProperties
<1>2. Front(name) = SubSeq(name, 1, Len(name) - 1)
  BY DEF Front
<1>3. \A i \in 1 .. Len(name) - 1 : name[i] \in Words
  <2> SUFFICES ASSUME NEW i \in 1 .. Len(name) - 1 PROVE name[i] \in Words
    OBVIOUS
  <2>1. i \in 1 .. Len(name)
    BY <1>1
  <2> QED
    BY <2>1, ElementOfSeq
<1> DEFINE n == Len(name)
           k == n - 1
<1>4. k \in Nat /\ n = k + 1
  BY <1>1
<1> HIDE DEF k, n
<1>5. /\ Front(name) \in Seq(Words) /\ Len(Front(name)) = k
      /\ \A i \in 1..k : Front(name)[i] = name[i]
  <2>1. /\ SubSeq(name, 1, k) \in Seq(Words) /\ Len(SubSeq(name, 1, k)) = IF 1 <= k THEN k - 1 + 1 ELSE 0
        /\ \A i \in 1 .. k - 1 + 1 : SubSeq(name, 1, k)[i] = name[1 + i - 1]
    <3>1. \A i \in 1..k : name[i] \in Words
      BY <1>3 DEF k, n
    <3> QED
      BY <1>4, <3>1, SubSeqProperties
  <2>2. Front(name) = SubSeq(name, 1, k)
    BY <1>2 DEF k, n
  <2> QED
    BY <1>4, <2>1, <2>2
<1>6. name[k + 1] = extension
  BY <1>4 DEF Last, n
<1>7. extension \in Words
  <2>1. k + 1 \in 1..Len(name)
    BY <1>4 DEF n
  <2> QED
    BY <1>6, <2>1, ElementOfSeq
<1> DEFINE t == <<extension>>
           g == Front(name)
<1>8. t \in Seq(Words) /\ Len(t) = 1 /\ t[1] = extension
  BY <1>7
<1> HIDE DEF t, g
<1>9. g \o t = name
  <2>1. g \in Seq(Words) /\ Len(g) = k /\ \A i \in 1..Len(g) : name[i] = g[i]
    BY <1>5 DEF g
  <2>2. Len(name) = Len(g) + Len(t)
    BY <1>4, <1>8, <2>1 DEF n
  <2>3. \A i \in 1..Len(t) : name[Len(g) + i] = t[i]
    BY <1>4, <1>6, <1>8, <2>1
  <2> QED
    BY <1>8, <2>1, <2>2, <2>3, ConcatIs
<1> QED
  BY <1>5, <1>9 DEF t, g

\* The path of a texture from its name in the client entity.
LEMMA TexturePath ==
    ASSUME NEW s \in Seq(Words), NEW t \in Seq(Words),
           NEW name \in Seq(Words), name # <<>>, NEW extension \in Words, Last(name) = extension
    PROVE  s \o (t \o Front(name)) \o <<extension>> = s \o t \o name
<1> DEFINE u == Front(name)
           v == <<extension>>
           st == s \o t
<1>1. u \in Seq(Words) /\ u \o v = name
  BY ExtensionBack
<1>2. v \in Seq(Words)
  OBVIOUS
<1>3. st \in Seq(Words)
  BY ConcatProperties
<1> HIDE DEF u, v
<1>4. s \o (t \o u) = st \o u
  <2>1. Rejoins(s, t, u)
    BY Zenon, <1>1, Rejoined
  <2> QED
    BY Zenon, <2>1 DEF Rejoins
<1> HIDE DEF st
<1>5. st \o u \o v = st \o (u \o v)
  <2>1. Rejoins(st, u, v)
    BY Zenon, <1>1, <1>2, <1>3, Rejoined
  <2> QED
    BY Zenon, <2>1 DEF Rejoins
<1>6. s \o (t \o u) \o v = st \o name
  BY Zenon, <1>1, <1>4, <1>5
<1> QED
  BY <1>6 DEF st, u, v

LEMMA EntityPaths ==
    ASSUME NEW n \in Seq(Words), NEW name \in Seq(Words), name # <<>>
    PROVE  /\ <<"resource_pack", "/", "entity", "/">> \o n \o <<".client.json">>
                 = <<"resource_pack", "/", "entity", "/">> \o (n \o <<".client.json">>)
           /\ <<"resource_pack", "/", "render_controllers", "/">> \o n
                  \o <<".render_controllers.json">>
                 = <<"resource_pack", "/", "render_controllers", "/">>
                     \o (n \o <<".render_controllers.json">>)
           /\ Last(name) = ".png" =>
                 <<"resource_pack", "/">> \o (<<"textures", "/", "entity", "/">> \o Front(name))
                     \o <<".png">>
                    = <<"resource_pack", "/", "textures", "/", "entity", "/">> \o name
<1> DEFINE pack == "resource_pack"
           slash == "/"
           entity == "entity"
           controllers == "render_controllers"
           textures == "textures"
           cext == ".client.json"
           qext == ".render_controllers.json"
           png == ".png"
           cp == <<pack, slash, entity, slash>>
           cx == <<cext>>
           qp == <<pack, slash, controllers, slash>>
           qx == <<qext>>
           tp == <<pack, slash>>
           tq == <<textures, slash, entity, slash>>
           tx == <<png>>
<1>1. /\ pack \in Words /\ slash \in Words /\ entity \in Words /\ controllers \in Words
      /\ textures \in Words /\ cext \in Words /\ qext \in Words /\ png \in Words
  BY DEF Words
<1> HIDE DEF pack, slash, entity, controllers, textures, cext, qext, png
<1>2. /\ cp \in Seq(Words) /\ cx \in Seq(Words) /\ qp \in Seq(Words) /\ qx \in Seq(Words)
      /\ tp \in Seq(Words) /\ tq \in Seq(Words)
  BY <1>1
<1>3. tp \o tq = <<pack, slash, textures, slash, entity, slash>>
  BY Lists24
<1>4. Last(name) = png => tp \o (tq \o Front(name)) \o tx = tp \o tq \o name
  <2> HIDE DEF tp, tq
  <2> QED
    BY SMTT(30), <1>1, <1>2, TexturePath
<1> HIDE DEF cp, cx, qp, qx, tp, tq, tx
<1>5. cp \o n \o cx = cp \o (n \o cx)
  <2>1. Rejoins(cp, n, cx)
    BY Zenon, <1>2, Rejoined
  <2> QED
    BY Zenon, <2>1 DEF Rejoins
<1>6. qp \o n \o qx = qp \o (n \o qx)
  <2>1. Rejoins(qp, n, qx)
    BY Zenon, <1>2, Rejoined
  <2> QED
    BY Zenon, <2>1 DEF Rejoins
<1> QED
  BY Zenon, <1>3, <1>4, <1>5, <1>6
     DEF cp, cx, qp, qx, tp, tq, tx, pack, slash, entity, controllers, textures, cext, qext, png

\* For all options: the texture and the controller of a client entity are files of
\* the pack, and the geometry is the model's, for a .png file and a model in lower
\* case (entity.cpp's clientEntity, renderControllers and make).
THEOREM ReferencesResolve == Spec => []EntityResolves
<1>1. ArchiveAnswered => EntityResolves
  <2> DEFINE o == request.o
             n == get_name(o.identifier)
             client == ClientEntity(o)
             cpath == <<"resource_pack", "/", "entity", "/">> \o n \o <<".client.json">>
             qpath == <<"resource_pack", "/", "render_controllers", "/">> \o n
                         \o <<".render_controllers.json">>
             xpath == <<"resource_pack", "/">> \o client.texture \o <<".png">>
             texture == o.texture
  <2> SUFFICES ASSUME ArchiveAnswered, request.op = "entity", result # {}, o.generate # "beh",
                      texture # NoFile, Last(texture.name) = ".png", o.model # NoFile,
                      to_lower(o.model.geometry) = o.model.geometry
               PROVE  /\ \E e \in result : PathOf(e) = <<"resource_pack", "/">> \o At(cpath).texture
                                                        \o <<".png">>
                      /\ At(cpath).geometry = o.model.geometry
                      /\ At(cpath).controller = At(qpath)
    BY Zenon DEF EntityResolves
  <2>1. /\ o \in EntityOptions /\ result = Entries(make(o))
    BY DEF ArchiveAnswered
  <2>2. /\ o.identifier \in Seq(Words) /\ o.generate \in {"both", "res", "beh"}
        /\ o.texture.name \in Seq(Words) /\ o.model.name \in Seq(Words) /\ texture.name # <<>>
    BY Zenon, <2>1, OptionsWords
  <2>3. n \in Seq(Words)
    BY <2>2, NameWords
  <2>4. verifyIdentifier(o.identifier)
    BY <2>1, <2>2, EntityArchive
  <2>5. PathsOf(result)
    <3>1. request.op \in Archives
      BY DEF Archives
    <3> QED
      BY <3>1, AllArchives DEF ArchiveWith
  <2>6. /\ HasFile(result, <<"resource_pack", "/", "textures", "/", "entity", "/">> \o texture.name,
                   texture)
        /\ HasFile(result, <<"resource_pack", "/", "entity", "/">> \o (n \o <<".client.json">>), client)
        /\ HasFile(result, <<"resource_pack", "/", "render_controllers", "/">>
                              \o (n \o <<".render_controllers.json">>), RenderControllers(o))
    BY <2>1, <2>2, <2>4, EntityArchive
  <2>7. /\ cpath = <<"resource_pack", "/", "entity", "/">> \o (n \o <<".client.json">>)
        /\ qpath = <<"resource_pack", "/", "render_controllers", "/">>
                      \o (n \o <<".render_controllers.json">>)
        /\ xpath = <<"resource_pack", "/", "textures", "/", "entity", "/">> \o texture.name
    <3>1. client.texture = <<"textures", "/", "entity", "/">> \o Front(texture.name)
      BY DEF ClientEntity, strippng
    <3> QED
      BY Zenon, <2>2, <2>3, <3>1, EntityPaths
  <2>8. /\ HasFile(result, cpath, client) /\ HasFile(result, qpath, RenderControllers(o))
        /\ HasFile(result, xpath, texture)
    BY Zenon, <2>6, <2>7
  <2>9. client.geometry = o.model.geometry /\ client.controller = RenderControllers(o)
    BY DEF ClientEntity, RenderControllers, getGeo
  <2> HIDE DEF cpath, qpath, client
  <2>10. At(cpath) = client /\ At(qpath) = RenderControllers(o)
    BY <2>5, <2>8, FileAt
  <2>11. \E e \in result : PathOf(e) = xpath
    BY <2>8 DEF HasFile
  <2> QED
    BY <2>9, <2>10, <2>11
<1> QED
  BY <1>1, ArchiveAnswers, PTL

\* Only the words that item_to_lower would change are changed.
LEMMA LowerName ==
    ASSUME NEW name \in Seq(Words), item_to_lower(name) = name, NEW w \in Words, Shifted(w) = w
    PROVE  item_to_lower(name \o <<w>>) = name \o <<w>>
<1> DEFINE t == <<w>>
           c == name \o t
<1>1. t \in Seq(Words) /\ Len(t) = 1 /\ t[1] = w
  OBVIOUS
<1> HIDE DEF t
<1>2. /\ c \in Seq(Words) /\ Len(c) = Len(name) + 1
      /\ \A i \in 1 .. Len(name) + 1 : c[i] = IF i <= Len(name) THEN name[i] ELSE t[i - Len(name)]
  BY SMTT(60), <1>1, ConcatProperties
<1>3. Len(name) \in Nat /\ DOMAIN name = 1..Len(name) /\ DOMAIN c = 1..Len(c)
  BY <1>2, LenProperties
<1>4. \A i \in 1..Len(name) : Shifted(name[i]) = name[i]
  <2>1. \A i \in DOMAIN name : item_to_lower(name)[i] = Shifted(name[i])
    BY Zenon DEF item_to_lower
  <2> QED
    BY Zenon, <1>3, <2>1
<1> HIDE DEF c
<1>5. \A i \in DOMAIN c : Shifted(c[i]) = c[i]
  <2> SUFFICES ASSUME NEW i \in 1 .. Len(name) + 1 PROVE Shifted(c[i]) = c[i]
    BY <1>2, <1>3
  <2>1. CASE i <= Len(name)
    BY <1>2, <1>3, <1>4, <2>1
  <2>2. CASE ~(i <= Len(name))
    <3>1. i - Len(name) = 1
      BY <1>3, <2>2
    <3> QED
      BY <1>1, <1>2, <2>2, <3>1
  <2> QED
    BY <2>1, <2>2
<1>6. item_to_lower(c) = [i \in DOMAIN c |-> c[i]]
  BY Zenon, <1>5 DEF item_to_lower
<1>7. c = [i \in DOMAIN c |-> c[i]]
  BY <1>2
<1> QED
  BY Zenon, <1>6, <1>7 DEF c, t

\* For all options: the atlas of the resource pack has the icon that the item names,
\* for a name in lower case (writeItem's icon and atlas).
THEOREM IconsResolve == Spec => []IconInAtlas
<1>1. ArchiveAnswered => IconInAtlas
  <2> DEFINE o == request.o
             n == get_name(o.identifier)
             apath == <<"resource", "/", "textures", "/", "item_texture.json">>
             ipath == <<"behavior", "/", "items", "/">> \o n \o <<".item.json">>
             atlas == [name |-> AtlasName(o.identifier, o.icon, o.atlas), path |-> o.icon]
             item == [icon |-> IconTexture(o.identifier, o.icon)]
  <2> SUFFICES ASSUME ArchiveAnswered, request.op = "item", o.image, o.atlas,
                      item_to_lower(n) = n
               PROVE  At(apath).name = At(ipath).icon
    BY Zenon DEF IconInAtlas
  <2>1. /\ o \in ItemOptions /\ result = Entries(ItemPack(o))
    BY DEF ArchiveAnswered
  <2>2. o.identifier \in Seq(Words) /\ o.icon \in Seq(Words) /\ o.image \in BOOLEAN
    BY Zenon, <2>1, OptionsWords
  <2>3. n \in Seq(Words)
    BY <2>2, NameWords
  <2>4. PathsOf(result)
    <3>1. request.op \in Archives
      BY DEF Archives
    <3> QED
      BY <3>1, AllArchives DEF ArchiveWith
  <2>5. /\ HasFile(result, apath, atlas)
        /\ HasFile(result, <<"behavior", "/", "items", "/">> \o (n \o <<".item.json">>), item)
    BY <2>1, <2>2, ItemArchive
  <2>6. ipath = <<"behavior", "/", "items", "/">> \o (n \o <<".item.json">>)
    <3> DEFINE pack == "behavior"
               slash == "/"
               items == "items"
               ext == ".item.json"
    <3>1. pack \in Words /\ slash \in Words /\ items \in Words /\ ext \in Words
      BY DEF Words
    <3> DEFINE ip == <<pack, slash, items, slash>>
               ix == <<ext>>
    <3> HIDE DEF pack, slash, items, ext, n
    <3>2. ip \in Seq(Words) /\ ix \in Seq(Words)
      BY <3>1
    <3> HIDE DEF ip, ix
    <3>3. ip \o n \o ix = ip \o (n \o ix)
      BY <2>3, <3>2, Rejoined DEF Rejoins
    <3> QED
      BY Zenon, <3>3 DEF ip, ix, pack, slash, items, ext
  <2>7. HasFile(result, ipath, item)
    BY Zenon, <2>5, <2>6
  <2>8. atlas.name = item.icon
    <3> DEFINE w == ".texture"
    <3>1. w \in Words /\ Shifted(w) = w
      BY DEF Words, Shifted
    <3> HIDE DEF w, n
    <3>2. item_to_lower(n \o <<w>>) = n \o <<w>>
      BY <2>3, <3>1, LowerName
    <3>3. /\ atlas.name = AtlasName(o.identifier, o.icon, o.atlas)
          /\ item.icon = IconTexture(o.identifier, o.icon)
      OBVIOUS
    <3> HIDE DEF atlas, item
    <3> QED
      BY Zenon, <3>2, <3>3 DEF AtlasName, IconTexture, w, n
  <2> HIDE DEF apath, ipath, atlas, item
  <2>9. At(apath) = atlas /\ At(ipath) = item
    BY <2>4, <2>5, <2>7, FileAt
  <2> QED
    BY <2>8, <2>9
<1> QED
  BY <1>1, ArchiveAnswers, PTL
=============================================================================
