-------------------------- MODULE InteractionProofs --------------------------
(* TLAPS proofs about the interaction handlers, for any set of handlers,      *)
(* requests, file names and help topics, any data and number of restarts.     *)
EXTENDS Interaction, WellFoundedInduction, TLAPS

----------------------------------------------------------------------------
(* The plans.  An answer is an upload or a post.                            *)

Answering == {"upload_data", "upload_file", "post"}
Killing   == {"splash", "fetch", "obfuscate"}
Paging    == {"metadata", "page"}
Zipping   == {"make_zip", "upload_file", "remove"}

Lacks(s, S) == \A i \in 1..Len(s) : s[i] \notin S

OneAnswer(s) ==
    \E i \in 1..Len(s) : /\ s[i] \in Answering
                         /\ \A j \in 1..Len(s) : s[j] \in Answering => j = i

\* An archive is made, uploaded and removed at the end of a plan, or not at all.
Packs(s) ==
    (\E i \in 1..Len(s) : s[i] \in Zipping) =>
        /\ Len(s) >= 3 /\ \A i \in 1..Len(s) - 3 : s[i] \notin Zipping
        /\ s[Len(s) - 2] = "make_zip" /\ s[Len(s) - 1] = "upload_file"
        /\ s[Len(s)] = "remove"

\* What is left of it after make_zip and after the upload.
Uploads(s) == Len(s) = 2 /\ s[1] = "upload_file" /\ s[2] = "remove"
Removes(s) == Len(s) = 1 /\ s[1] = "remove"

\* A step that is taken, and what is left of the plan after it.
LEMMA AfterStep ==
    ASSUME NEW s \in Seq(Steps), s # <<>>
    PROVE  /\ Head(s) \in Steps /\ Head(s) = s[1] /\ 1 \in 1..Len(s)
           /\ Tail(s) \in Seq(Steps) /\ Len(s) \in Nat /\ Len(Tail(s)) = Len(s) - 1
           /\ \A j \in 1..Len(Tail(s)) : Tail(s)[j] = s[j + 1] /\ j + 1 \in 1..Len(s)
OBVIOUS

LEMMA LacksAfterStep ==
    ASSUME NEW s \in Seq(Steps), s # <<>>, NEW S, Lacks(s, S)
    PROVE  Head(s) \notin S /\ Lacks(Tail(s), S)
BY AfterStep DEF Lacks

LEMMA AnswerAfterStep ==
    ASSUME NEW s \in Seq(Steps), s # <<>>, OneAnswer(s)
    PROVE  IF Head(s) \in Answering THEN Lacks(Tail(s), Answering) ELSE OneAnswer(Tail(s))
<1>1. PICK i \in 1..Len(s) : s[i] \in Answering
                             /\ \A j \in 1..Len(s) : s[j] \in Answering => j = i
  BY DEF OneAnswer
<1>2. Head(s) = s[1] /\ 1 \in 1..Len(s) /\ Len(s) \in Nat /\ Len(Tail(s)) = Len(s) - 1
      /\ \A j \in 1..Len(Tail(s)) : Tail(s)[j] = s[j + 1] /\ j + 1 \in 1..Len(s)
  BY AfterStep
<1>3. CASE Head(s) \in Answering
  <2>1. i = 1
    BY <1>1, <1>2, <1>3
  <2>2. \A j \in 1..Len(Tail(s)) : Tail(s)[j] \notin Answering
    BY <1>1, <1>2, <2>1
  <2> QED
    BY <1>3, <2>2 DEF Lacks
<1>4. CASE Head(s) \notin Answering
  <2>1. i # 1
    BY <1>1, <1>2, <1>4
  <2>2. i - 1 \in 1..Len(Tail(s)) /\ Tail(s)[i - 1] = s[i]
    BY <1>2, <2>1
  <2>3. \A j \in 1..Len(Tail(s)) : Tail(s)[j] \in Answering => j = i - 1
    BY <1>1, <1>2
  <2> QED
    BY <1>1, <1>4, <2>2, <2>3 DEF OneAnswer
<1> QED
  BY <1>3, <1>4

LEMMA PackAfterStep ==
    ASSUME NEW s \in Seq(Steps), s # <<>>, Packs(s)
    PROVE  IF Head(s) \in Zipping
           THEN Head(s) = "make_zip" /\ Uploads(Tail(s))
           ELSE Packs(Tail(s))
<1>1. /\ Head(s) = s[1] /\ 1 \in 1..Len(s) /\ Len(s) \in Nat /\ Tail(s) \in Seq(Steps)
      /\ Len(Tail(s)) = Len(s) - 1
      /\ \A j \in 1..Len(Tail(s)) : Tail(s)[j] = s[j + 1] /\ j + 1 \in 1..Len(s)
  BY AfterStep
<1>2. CASE Head(s) \in Zipping
  <2>1. Len(s) = 3 /\ s[1] = "make_zip" /\ s[2] = "upload_file" /\ s[3] = "remove"
    BY <1>1, <1>2 DEF Packs
  <2>2. Len(Tail(s)) = 2
    BY <1>1, <2>1
  <2>3. Tail(s)[1] = s[2] /\ Tail(s)[2] = s[3]
    <3>1. 1 \in 1..Len(Tail(s)) /\ 2 \in 1..Len(Tail(s)) /\ 1 + 1 = 2 /\ 2 + 1 = 3
      BY SMTT(60), <2>2
    <3> QED
      BY <1>1, <3>1
  <2>4. Uploads(Tail(s))
    BY <2>1, <2>2, <2>3 DEF Uploads
  <2> QED
    BY <1>1, <1>2, <2>1, <2>4
<1>3. CASE Head(s) \notin Zipping
  <2> SUFFICES ASSUME NEW j \in 1..Len(Tail(s)), Tail(s)[j] \in Zipping
               PROVE  /\ Len(Tail(s)) >= 3
                      /\ \A i \in 1..Len(Tail(s)) - 3 : Tail(s)[i] \notin Zipping
                      /\ Tail(s)[Len(Tail(s)) - 2] = "make_zip"
                      /\ Tail(s)[Len(Tail(s)) - 1] = "upload_file"
                      /\ Tail(s)[Len(Tail(s))] = "remove"
    BY <1>3 DEF Packs
  <2>1. /\ Len(s) >= 3 /\ \A i \in 1..Len(s) - 3 : s[i] \notin Zipping
        /\ s[Len(s) - 2] = "make_zip" /\ s[Len(s) - 1] = "upload_file"
        /\ s[Len(s)] = "remove"
    BY <1>1 DEF Packs
  <2>2. Len(s) # 3
    BY SMTT(60), <1>1, <1>3, <2>1 DEF Zipping
  <2> QED
    BY SMTT(60), <1>1, <2>1, <2>2
<1> QED
  BY <1>2, <1>3

\* Plans one after the other.
LEMMA Joined ==
    ASSUME NEW s \in Seq(Steps), NEW t \in Seq(Steps)
    PROVE  /\ s \o t \in Seq(Steps)
           /\ \A S : Lacks(s, S) /\ Lacks(t, S) => Lacks(s \o t, S)
           /\ Lacks(s, Answering) /\ OneAnswer(t) => OneAnswer(s \o t)
           /\ Lacks(s, Zipping) /\ Packs(t) => Packs(s \o t)
<1>1. /\ s \o t \in Seq(Steps) /\ Len(s) \in Nat /\ Len(t) \in Nat
      /\ Len(s \o t) = Len(s) + Len(t)
      /\ \A i \in 1..Len(s \o t) :
            (s \o t)[i] = IF i <= Len(s) THEN s[i] ELSE t[i - Len(s)]
  OBVIOUS
<1>2. \A i \in 1..Len(s \o t) : IF i <= Len(s) THEN i \in 1..Len(s)
                                               ELSE i - Len(s) \in 1..Len(t)
  BY <1>1
<1>3. \A S : Lacks(s, S) /\ Lacks(t, S) => Lacks(s \o t, S)
  BY <1>1, <1>2 DEF Lacks
<1>4. ASSUME Lacks(s, Answering), OneAnswer(t) PROVE OneAnswer(s \o t)
  <2>1. PICK i \in 1..Len(t) : t[i] \in Answering
                               /\ \A j \in 1..Len(t) : t[j] \in Answering => j = i
    BY <1>4 DEF OneAnswer
  <2>2. Len(s) + i \in 1..Len(s \o t) /\ (s \o t)[Len(s) + i] = t[i]
    BY <1>1, <2>1
  <2>3. ASSUME NEW j \in 1..Len(s \o t), (s \o t)[j] \in Answering
        PROVE  j = Len(s) + i
    BY SMTT(60), <1>1, <1>2, <1>4, <2>1, <2>3 DEF Lacks
  <2> QED
    BY <2>1, <2>2, <2>3 DEF OneAnswer
<1>5. ASSUME Lacks(s, Zipping), Packs(t) PROVE Packs(s \o t)
  <2>1. \A i \in 1..Len(s) : (s \o t)[i] \notin Zipping
    BY <1>1, <1>5 DEF Lacks
  <2>2. \A i \in 1..Len(t) : (s \o t)[Len(s) + i] = t[i]
    BY <1>1
  <2>3. CASE \A i \in 1..Len(t) : t[i] \notin Zipping
    BY <1>1, <1>2, <1>5, <2>3 DEF Packs, Lacks
  <2>4. CASE \E i \in 1..Len(t) : t[i] \in Zipping
    <3>1. /\ Len(t) >= 3 /\ \A i \in 1..Len(t) - 3 : t[i] \notin Zipping
          /\ t[Len(t) - 2] = "make_zip" /\ t[Len(t) - 1] = "upload_file"
          /\ t[Len(t)] = "remove"
      BY <1>5, <2>4 DEF Packs
    <3>2. \A i \in 1..Len(s \o t) - 3 : (s \o t)[i] \notin Zipping
      <4> SUFFICES ASSUME NEW i \in 1..Len(s \o t) - 3, i > Len(s)
                   PROVE  (s \o t)[i] \notin Zipping
        BY <1>1, <2>1
      <4>1. (s \o t)[i] = t[i - Len(s)] /\ i - Len(s) \in 1..Len(t) - 3
        BY <1>1
      <4> QED
        BY <3>1, <4>1
    <3>3. /\ (s \o t)[Len(s \o t) - 2] = "make_zip"
          /\ (s \o t)[Len(s \o t) - 1] = "upload_file"
          /\ (s \o t)[Len(s \o t)] = "remove"
      BY <1>1, <3>1
    <3>4. Len(s \o t) >= 3
      BY <1>1, <3>1
    <3> QED
      BY <3>2, <3>3, <3>4 DEF Packs
  <2> QED
    BY <2>3, <2>4
<1> QED
  BY <1>1, <1>3, <1>4, <1>5

\* What a plan may still hold back: for requests without a JSON attachment the
\* steps that can end the process.
Barred(r) == IF r.json = "json" THEN Paging ELSE Paging \cup Killing

Silently(s, K) ==
    s \in Seq(Steps) /\ Lacks(s, Answering) /\ Lacks(s, K) /\ Lacks(s, Zipping)
Answers(s, K)  == s \in Seq(Steps) /\ OneAnswer(s) /\ Lacks(s, K) /\ Packs(s)

LEMMA Then ==
    ASSUME NEW K, NEW s, NEW t, Silently(s, K)
    PROVE  /\ Silently(t, K) => Silently(s \o t, K)
           /\ Answers(t, K) => Answers(s \o t, K)
BY Joined DEF Silently, Answers

\* The pieces that plans are put together from.
LEMMA Pieces ==
    ASSUME NEW r \in Request
    PROVE  /\ Silently(<<>>, Barred(r)) /\ Silently(Find, Barred(r))
           /\ Silently(Image(r), Barred(r))
           /\ Answers(Post, Barred(r)) /\ Answers(Pack, Barred(r))
           /\ Answers(<<"upload_data">>, Barred(r))
<1> USE DEF Silently, Answers, Lacks, OneAnswer, Packs, Steps, Answering, Zipping, Barred,
           Paging, Killing
<1>1. Silently(<<>>, Barred(r))
  OBVIOUS
<1>2. Silently(Find, Barred(r))
  BY DEF Find
<1>3. Silently(<<"raw_fetch">>, Barred(r))
  OBVIOUS
<1>4. Silently(Image(r), Barred(r))
  <2>1. Image(r) \in {<<>>, Find, <<"raw_fetch">>}
    BY DEF Image
  <2> QED
    BY ONLY <1>1, <1>2, <1>3, <2>1
<1>5. Answers(Post, Barred(r))
  BY DEF Post
<1>6. Answers(Pack, Barred(r))
  BY DEF Pack
<1>7. Answers(<<"upload_data">>, Barred(r))
  OBVIOUS
<1> QED
  BY ONLY <1>1, <1>2, <1>4, <1>5, <1>6, <1>7

LEMMA JsonPieces ==
    ASSUME NEW r \in Request, r.json = "json"
    PROVE  /\ Silently(<<"fetch">>, Barred(r)) /\ Silently(<<"splash">>, Barred(r))
           /\ Answers(<<"fetch", "obfuscate", "upload_data">>, Barred(r))
BY DEF Silently, Answers, Lacks, OneAnswer, Packs, Steps, Answering, Zipping, Barred,
       Paging, Killing

\* Every plan answers once, but the silent one; it neither turns pages nor, without
\* a JSON attachment, takes a step that can end the process.
LEMMA Plans ==
    ASSUME NEW r \in Request
    PROVE  IF Silent(r) THEN Silently(Plan(r), Barred(r)) ELSE Answers(Plan(r), Barred(r))
<1> DEFINE K == Barred(r)
<1>1. /\ Silently(<<>>, K) /\ Silently(Find, K) /\ Silently(Image(r), K)
      /\ Answers(Post, K) /\ Answers(Pack, K) /\ Answers(<<"upload_data">>, K)
  BY Pieces
<1>2. r.json = "json" => /\ Silently(<<"fetch">>, K) /\ Silently(<<"splash">>, K)
                         /\ Answers(<<"fetch", "obfuscate", "upload_data">>, K)
  BY JsonPieces
<1> HIDE DEF K
<1>3. Answers(Find \o Post, K)
  BY <1>1, Then
<1>4. Answers(Obfuscate(r), K)
  <2>1. CASE r.json = "json"
    <3> DEFINE rest == <<"fetch", "obfuscate", "upload_data">>
               middle == IF r.valid THEN <<>> ELSE Find
    <3>1. Silently(middle, K)
      BY <1>1
    <3> HIDE DEF middle
    <3>2. Answers(rest, K) /\ Silently(<<"splash">>, K)
      BY <1>2, <2>1
    <3> HIDE DEF rest
    <3>3. Answers(middle \o rest, K)
      BY <3>1, <3>2, Then
    <3>4. Answers(<<"splash">> \o (middle \o rest), K)
      BY <3>2, <3>3, Then
    <3>5. Answers((<<"splash">> \o middle) \o rest, K)
      BY <3>1, <3>2, Then
    <3> QED
      BY <2>1, <3>4, <3>5 DEF Obfuscate, rest, middle
  <2>2. CASE r.json # "json"
    BY <2>2, <1>3 DEF Obfuscate
  <2> QED
    BY <2>1, <2>2
<1>5. Answers(Find \o Image(r) \o Pack, K)
  <2>1. Silently(Find \o Image(r), K)
    BY <1>1, Then
  <2> QED
    BY <1>1, <2>1, Then
<1>6. IF r.sub \in {"independent", "dependent"} THEN Answers(Manifest(r), K)
                                               ELSE Silently(Manifest(r), K)
  BY <1>1, <1>5 DEF Manifest
<1>7. Answers(Item(r), K)
  <2>1. Answers(Find \o <<"upload_data">>, K)
    BY <1>1, Then
  <2>2. ASSUME r.json = "json" PROVE Answers(<<"fetch">> \o Find \o <<"upload_data">>, K)
    <3>1. Silently(<<"fetch">> \o Find, K)
      BY <1>1, <1>2, <2>2, Then
    <3> QED
      BY <1>1, <3>1, Then
  <2>3. ASSUME r.json = "json" PROVE Answers(Find \o <<"fetch">> \o Image(r) \o Pack, K)
    <3>1. Silently(Find \o <<"fetch">>, K)
      BY <1>1, <1>2, <2>3, Then
    <3>2. Silently(Find \o <<"fetch">> \o Image(r), K)
      BY <1>1, <3>1, Then
    <3> QED
      BY <1>1, <3>2, Then
  <2>4. \/ Item(r) = Find \o <<"upload_data">>
        \/ r.json = "json" /\ Item(r) = <<"fetch">> \o Find \o <<"upload_data">>
        \/ r.json = "json" /\ Item(r) = Find \o <<"fetch">> \o Image(r) \o Pack
        \/ Item(r) = Find \o Post
    BY Zenon DEF Item
  <2> QED
    BY ONLY <1>3, <2>1, <2>2, <2>3, <2>4
<1>8. Answers(Entity(r), K)
  <2> DEFINE model == CASE r.json = "json"  -> <<"fetch">>
                        [] r.json = "other" -> Find
                        [] OTHER            -> <<>>
  <2>1. Silently(model, K)
    BY <1>1, <1>2
  <2>2. Entity(r) = IF r.valid THEN Image(r) \o model \o Pack
                               ELSE Image(r) \o model \o (Find \o Post)
    BY Zenon DEF Entity
  <2> HIDE DEF model
  <2>3. Silently(Image(r) \o model, K)
    BY <1>1, <2>1, Then
  <2>4. Answers(Image(r) \o model \o Pack, K)
    BY <1>1, <2>3, Then
  <2>5. Answers(Image(r) \o model \o (Find \o Post), K)
    BY <1>3, <2>3, Then
  <2> QED
    BY <2>2, <2>4, <2>5
<1>9. CASE r.cmd = "manifest"
  <2>1. Plan(r) = Manifest(r)
    BY <1>9 DEF Plan
  <2> QED
    BY <1>6, <1>9, <2>1 DEF Silent, K
<1>10. CASE r.cmd # "manifest"
  <2>1. Plan(r) \in {Obfuscate(r), Item(r), Entity(r), Find \o Post, Post}
    BY <1>10 DEF Plan
  <2>2. Answers(Plan(r), K)
    BY ONLY <1>1, <1>3, <1>4, <1>7, <1>8, <2>1
  <2> QED
    BY <1>10, <2>2 DEF Silent, K
<1> QED
  BY <1>9, <1>10

----------------------------------------------------------------------------
(* The steps of a handler: each but the entry of a lookup takes the first of   *)
(* those it has left, and the answers are what posted counts.                  *)

Takes(h) ==
    /\ todo[h] # <<>> /\ todo' = [todo EXCEPT ![h] = Tail(@)]
    /\ posted' = IF Head(todo[h]) \in Answering THEN [posted EXCEPT ![h] = @ + 1] ELSE posted

LEMMA Shape ==
    ASSUME NEW h \in Handlers, HandlerStep(h)
    PROVE  /\ alive /\ UNCHANGED <<req, left, data, starts>>
           /\ \/ Enter(h) /\ UNCHANGED <<todo, posted, zip, tmp, draft, message>>
              \/ Takes(h)
<1> USE DEF Takes, Answering, Step, process, help, tree
<1>1. CASE Enter(h)
  BY <1>1 DEF Enter
<1>2. CASE Leave(h)
  BY <1>2 DEF Leave
<1>3. CASE Fetch(h) \/ RawFetch(h) \/ ObfuscateMain(h)
  BY <1>3 DEF Fetch, RawFetch, ObfuscateMain
<1>4. CASE Upload(h) \/ PostAnswer(h)
  BY <1>4 DEF Upload, PostAnswer
<1>5. CASE MakeZip(h) \/ Remove(h)
  BY <1>5 DEF MakeZip, Remove
<1>6. CASE ReadMetadata(h) \/ ReadPage(h)
  BY <1>6 DEF ReadMetadata, ReadPage
<1> QED
  BY <1>1, <1>2, <1>3, <1>4, <1>5, <1>6 DEF HandlerStep

\* The types of what the plans are about.
Typed ==
    /\ req \in [Handlers -> Requests \cup {NoRequest, Component}]
    /\ todo \in [Handlers -> Seq(Steps)]
    /\ posted \in [Handlers -> Nat]
    /\ data \in 1..Len(Lengths) /\ starts \in 0..Restarts

LEMMA TurnPiece ==
    Turn \in Seq(Steps) /\ OneAnswer(Turn) /\ Lacks(Turn, Killing)
BY DEF Turn, OneAnswer, Lacks, Steps, Answering, Killing

LEMMA TypedInit == Init => Typed
BY InteractionAssumption DEF Init, Typed, Each

LEMMA TypedNext == Typed /\ [Next]_vars => Typed'
<1> SUFFICES ASSUME Typed, [Next]_vars PROVE Typed'
  OBVIOUS
<1>1. ASSUME NEW h \in Handlers, NEW r \in Requests, Begin(h, r) PROVE Typed'
  <2>1. Plan(r) \in Seq(Steps)
    BY InteractionAssumption, Plans DEF Silently, Answers
  <2> QED
    BY <1>1, <2>1 DEF Begin, Start, Typed, process
<1>2. ASSUME NEW h \in Handlers, NEW id, Press(h, id) PROVE Typed'
  BY <1>2, TurnPiece DEF Press, Start, Typed, process
<1>3. ASSUME NEW h \in Handlers, HandlerStep(h) PROVE Typed'
  <2>1. UNCHANGED <<req, data, starts>> /\ (UNCHANGED <<todo, posted>> \/ Takes(h))
    BY <1>3, Shape
  <2>2. CASE UNCHANGED <<todo, posted>>
    BY <2>1, <2>2 DEF Typed
  <2>3. CASE Takes(h)
    <3>1. Tail(todo[h]) \in Seq(Steps)
      BY <2>3, AfterStep DEF Typed, Takes
    <3> QED
      BY SMTT(60), <2>1, <2>3, <3>1 DEF Typed, Takes
  <2> QED
    BY <2>1, <2>2, <2>3
<1>4. CASE Deploy
  BY <1>4, InteractionAssumption DEF Deploy, Typed
<1>5. CASE Restart
  BY <1>5, InteractionAssumption DEF Restart, Typed, Each
<1>6. CASE Stopped \/ UNCHANGED vars
  BY <1>6 DEF Stopped, Typed, vars
<1> QED
  BY <1>1, <1>2, <1>3, <1>4, <1>5, <1>6 DEF Next

----------------------------------------------------------------------------
(* An interaction is answered once: what is still to be sent and what was      *)
(* posted add up to the one answer, whatever the other handlers do.            *)

AnswerOf(h) ==
    \/ req[h] = NoRequest /\ todo[h] = <<>> /\ posted[h] = 0
    \/ posted[h] = 0 /\ ~Silent(req[h]) /\ OneAnswer(todo[h])
    \/ posted[h] = (IF Silent(req[h]) THEN 0 ELSE 1) /\ Lacks(todo[h], Answering)

AnswerInv == \A h \in Handlers : AnswerOf(h)

LEMMA AnswerNext == Typed /\ AnswerInv /\ [Next]_vars => AnswerInv'
<1> SUFFICES ASSUME Typed, AnswerInv, [Next]_vars PROVE AnswerInv'
  OBVIOUS
<1>1. ASSUME NEW h \in Handlers, NEW r \in Requests, Begin(h, r) PROVE AnswerInv'
  <2>1. IF Silent(r) THEN Lacks(Plan(r), Answering) ELSE OneAnswer(Plan(r))
    BY InteractionAssumption, Plans DEF Silently, Answers
  <2>2. AnswerOf(h)'
    BY <1>1, <2>1 DEF Begin, Start, AnswerOf, Typed
  <2>3. \A g \in Handlers \ {h} : AnswerOf(g)'
    BY SMTT(60), <1>1 DEF Begin, Start, AnswerOf, AnswerInv, Typed
  <2> QED
    BY <2>2, <2>3 DEF AnswerInv
<1>2. ASSUME NEW h \in Handlers, NEW id, Press(h, id) PROVE AnswerInv'
  <2>1. ~Silent(Component) /\ OneAnswer(Turn)
    BY TurnPiece DEF Silent, Component, NoRequest
  <2>2. AnswerOf(h)'
    BY <1>2, <2>1 DEF Press, Start, AnswerOf, Typed
  <2>3. \A g \in Handlers \ {h} : AnswerOf(g)'
    BY <1>2 DEF Press, Start, AnswerOf, AnswerInv, Typed
  <2> QED
    BY <2>2, <2>3 DEF AnswerInv
<1>3. ASSUME NEW h \in Handlers, HandlerStep(h) PROVE AnswerInv'
  <2>1. UNCHANGED req /\ (UNCHANGED <<todo, posted>> \/ Takes(h))
    BY <1>3, Shape
  <2>2. CASE UNCHANGED <<todo, posted>>
    BY <2>1, <2>2 DEF AnswerInv, AnswerOf
  <2>3. CASE Takes(h)
    <3>1. /\ todo[h] \in Seq(Steps) /\ todo[h] # <<>> /\ todo'[h] = Tail(todo[h])
          /\ posted'[h] = IF Head(todo[h]) \in Answering THEN posted[h] + 1 ELSE posted[h]
          /\ \A g \in Handlers \ {h} : todo'[g] = todo[g] /\ posted'[g] = posted[g]
      BY <2>3 DEF Takes, Typed
    <3>2. /\ OneAnswer(todo[h]) => IF Head(todo[h]) \in Answering
                                   THEN Lacks(Tail(todo[h]), Answering)
                                   ELSE OneAnswer(Tail(todo[h]))
          /\ Lacks(todo[h], Answering) => /\ Head(todo[h]) \notin Answering
                                          /\ Lacks(Tail(todo[h]), Answering)
      BY <3>1, AnswerAfterStep, LacksAfterStep
    <3>3. AnswerOf(h)'
      BY <2>1, <3>1, <3>2 DEF AnswerInv, AnswerOf
    <3>4. \A g \in Handlers \ {h} : AnswerOf(g)'
      BY <2>1, <3>1 DEF AnswerInv, AnswerOf
    <3> QED
      BY <3>3, <3>4 DEF AnswerInv
  <2> QED
    BY <2>1, <2>2, <2>3
<1>4. CASE Deploy
  BY <1>4 DEF Deploy, AnswerInv, AnswerOf
<1>5. CASE Restart
  BY <1>5 DEF Restart, AnswerInv, AnswerOf, Each
<1>6. CASE Stopped \/ UNCHANGED vars
  BY <1>6 DEF Stopped, AnswerInv, AnswerOf, vars
<1> QED
  BY <1>1, <1>2, <1>3, <1>4, <1>5, <1>6 DEF Next

LEMMA AnswerInductive == Spec => [](Typed /\ AnswerInv)
<1>1. Init => Typed /\ AnswerInv
  <2>1. Init => AnswerInv
    BY DEF Init, AnswerInv, AnswerOf, Each
  <2> QED
    BY <2>1, TypedInit
<1>2. (Typed /\ AnswerInv) /\ [Next]_vars => (Typed /\ AnswerInv)'
  BY TypedNext, AnswerNext
<1> QED
  BY <1>1, <1>2, PTL DEF Spec

\* Every interaction that a handler has finished was answered exactly once, but the
\* unknown subcommand of /manifest, which respond_interaction returns from silently.
THEOREM AnswersOnce == Spec => []AnsweredOnce
<1>1. Typed /\ AnswerInv => AnsweredOnce
  <2> SUFFICES ASSUME AnswerInv, NEW h \in Handlers, req[h] # NoRequest, todo[h] = <<>>
               PROVE  posted[h] = IF Silent(req[h]) THEN 0 ELSE 1
    BY DEF AnsweredOnce, Ended, Busy
  <2>1. ~OneAnswer(<<>>)
    BY DEF OneAnswer
  <2> QED
    BY <2>1 DEF AnswerInv, AnswerOf
<1> QED
  BY <1>1, AnswerInductive, PTL

----------------------------------------------------------------------------
(* Help pages.  A draft is what was asked for until the metadata are read, and *)
(* a page that data/ has from then on; data/ only grows.                       *)

Showing(m) == /\ m \in Messages /\ m.topic \in Topics
              /\ m.page \in 1..m.max /\ m.max <= Pages(m.topic)
Asking(m)  == /\ m \in Messages /\ m.topic \in Topics
              /\ m.page \in {First, Final} \cup 1..Pages(m.topic)
Shown(m)   == m \in {Menu, NoMessage} \/ Showing(m)

HelpOf(h) ==
    \/ todo[h] = Turn /\ Asking(draft[h])
    \/ todo[h] = <<"page", "post">> /\ Showing(draft[h])
    \/ Lacks(todo[h], Paging) /\ Shown(draft[h])

HelpInv ==
    /\ draft \in [Handlers -> Messages]
    /\ Shown(message)
    /\ \A h \in Handlers : HelpOf(h)

LEMMA PagesNat == data \in 1..Len(Lengths) => \A t \in Topics : Pages(t) \in Nat \ {0}
BY InteractionAssumption DEF Pages

LEMMA NoFile == Menu \in Messages /\ NoMessage \in Messages
BY DEF Menu, NoMessage, Messages

\* What a user can ask for on a message that is shown, and what it becomes.
LEMMA AskedPage ==
    ASSUME Typed, Shown(message), message # NoMessage,
           NEW id \in make_help_with_selection(message)
    PROVE  Asking(Asked(id))
<1>1. CASE id \in {Selection(t) : t \in Topics}
  <2>1. PICK t \in Topics : id = Selection(t)
    BY <1>1
  <2>2. Asked(id) = [topic |-> t, page |-> 1, max |-> 0]
    BY <2>1 DEF Asked, Selection
  <2> QED
    BY <2>2, PagesNat DEF Asking, Messages, Typed
<1>2. CASE id \in Buttons(message)
  <2>1. Showing(message) /\ Pages(message.topic) \in Nat
    BY <1>2, PagesNat DEF Shown, Showing, Buttons, Menu, Typed
  <2>2. PICK n \in {First, Final} \cup 1..Pages(message.topic) : id = Id(message.topic, n)
    BY <1>2, <2>1 DEF Buttons, NotAtFirst, NotAtEnd, Showing, Messages
  <2>3. Asked(id) = [topic |-> message.topic, page |-> n, max |-> 0]
    BY <2>2 DEF Asked, Id, parse_hpcid
  <2>4. n \in Int
    BY <2>1, <2>2 DEF First, Final
  <2> QED
    BY <2>1, <2>2, <2>3, <2>4 DEF Asking, Showing, Messages
<1> QED
  BY <1>1, <1>2 DEF make_help_with_selection

LEMMA ResolvedPage ==
    ASSUME Typed, NEW m, Asking(m)
    PROVE  Showing(Resolved(m, Pages(m.topic)))
<1>1. Pages(m.topic) \in Nat \ {0} /\ m.page \in Int
  BY PagesNat DEF Asking, Typed, Messages
<1>2. Pages(m.topic) < First
  BY InteractionAssumption DEF Asking, Typed, Pages
<1> DEFINE n == CASE m.page = First -> 1 [] m.page = Final -> Pages(m.topic) [] OTHER -> m.page
<1>3. n \in 1..Pages(m.topic)
  BY <1>1, <1>2 DEF Asking, First, Final
<1>4. Resolved(m, Pages(m.topic)) = [topic |-> m.topic, page |-> n, max |-> Pages(m.topic)]
  <2>1. Resolved(m, Pages(m.topic)) = [m EXCEPT !.page = n, !.max = Pages(m.topic)]
    BY DEF Resolved
  <2> HIDE DEF n
  <2> QED
    BY <2>1 DEF Asking, Messages
<1> HIDE DEF n
<1> QED
  BY <1>1, <1>3, <1>4 DEF Showing, Asking, Messages

\* A deployment leaves every page that was there.
LEMMA DataGrows ==
    ASSUME Typed, Deploy, NEW m
    PROVE  (Showing(m) => Showing(m)') /\ (Asking(m) => Asking(m)')
<1>1. \A t \in Topics : Pages(t) \in Nat /\ Pages(t)' \in Nat /\ Pages(t) <= Pages(t)'
  <2>1. data \in 1..Len(Lengths) /\ data' \in 1..Len(Lengths) /\ data <= data'
    BY InteractionAssumption DEF Typed, Deploy
  <2>2. \A i \in 1..Len(Lengths) : Lengths[i] \in [Topics -> Nat \ {0}]
    BY InteractionAssumption
  <2>3. \A t \in Topics : Lengths[data][t] <= Lengths[data'][t]
    BY <2>1, InteractionAssumption
  <2> QED
    BY <2>1, <2>2, <2>3 DEF Pages
<1> QED
  BY <1>1 DEF Showing, Asking, Messages

\* The message changes with a post only, and is what that post had drafted.
LEMMA HandlerDraft ==
    ASSUME Typed, HelpInv, NEW h \in Handlers, HandlerStep(h)
    PROVE  HelpInv'
<1>1. UNCHANGED data /\ \A m : (Showing(m)' <=> Showing(m)) /\ (Asking(m)' <=> Asking(m))
  BY Shape DEF Showing, Asking, Pages
<1>2. ASSUME draft' \in [Handlers -> Messages], Shown(message'),
             \A g \in Handlers \ {h} : todo'[g] = todo[g] /\ draft'[g] = draft[g],
             HelpOf(h)'
      PROVE  HelpInv'
  BY <1>1, <1>2 DEF HelpInv, HelpOf, Shown
<1>3. CASE UNCHANGED <<todo, draft, message>>
  BY <1>1, <1>3 DEF HelpInv, HelpOf, Shown
<1>4. ASSUME NEW name \in Steps, Step(h, name)
      PROVE  /\ todo[h] \in Seq(Steps) /\ todo[h] # <<>> /\ Head(todo[h]) = name
             /\ todo'[h] = Tail(todo[h]) /\ \A g \in Handlers \ {h} : todo'[g] = todo[g]
             /\ name \in Paging => ~Lacks(todo[h], Paging)
             /\ Lacks(todo[h], Paging) => Lacks(todo'[h], Paging)
  <2>1. /\ todo[h] \in Seq(Steps) /\ todo[h] # <<>> /\ Head(todo[h]) = name
        /\ todo'[h] = Tail(todo[h]) /\ \A g \in Handlers \ {h} : todo'[g] = todo[g]
    BY <1>4 DEF Step, Typed
  <2> QED
    BY <2>1, LacksAfterStep
<1>5. /\ Head(Turn) = "metadata" /\ Tail(Turn) = <<"page", "post">>
      /\ Head(<<"page", "post">>) = "page" /\ Tail(<<"page", "post">>) = <<"post">>
      /\ Lacks(<<"post">>, Paging)
  BY DEF Turn, Lacks, Paging
<1>6. CASE \/ Leave(h) \/ Fetch(h) \/ RawFetch(h) \/ ObfuscateMain(h) \/ Upload(h)
           \/ MakeZip(h) \/ Remove(h)
  <2>1. UNCHANGED <<draft, message>>
    BY <1>6 DEF Leave, Fetch, RawFetch, ObfuscateMain, Upload, MakeZip, Remove, help
  <2>2. PICK name \in Steps \ {"metadata", "page", "post"} : Step(h, name)
    BY <1>6 DEF Leave, Fetch, RawFetch, ObfuscateMain, Upload, MakeZip, Remove, Steps
  <2>3. Lacks(todo'[h], Paging) /\ Shown(draft[h])
    BY <1>4, <1>5, <2>2 DEF HelpInv, HelpOf
  <2> QED
    BY <1>1, <1>2, <1>4, <2>1, <2>2, <2>3 DEF HelpInv, HelpOf, Shown
<1>7. CASE PostAnswer(h)
  <2>1. Step(h, "post") /\ "post" \in Steps /\ draft' = [draft EXCEPT ![h] = NoMessage]
        /\ message' \in {message, draft[h]}
    BY <1>7 DEF PostAnswer, Steps
  <2>2. Lacks(todo'[h], Paging) /\ Shown(draft[h])
    BY <1>4, <1>5, <2>1 DEF HelpInv, HelpOf
  <2>3. HelpOf(h)'
    BY <2>1, <2>2 DEF HelpInv, HelpOf, Shown
  <2> QED
    BY <1>1, <1>2, <1>4, <2>1, <2>2, <2>3, NoFile DEF HelpInv, Shown
<1>8. CASE ReadMetadata(h)
  <2>1. Step(h, "metadata") /\ "metadata" \in Steps \cap Paging /\ UNCHANGED message
        /\ draft' = [draft EXCEPT ![h] = Resolved(@, Pages(@.topic))]
    BY <1>8 DEF ReadMetadata, Steps, Paging
  <2>2. todo[h] = Turn /\ Asking(draft[h])
    BY <1>4, <1>5, <2>1 DEF HelpInv, HelpOf
  <2>3. Showing(draft'[h])
    BY <2>1, <2>2, ResolvedPage DEF HelpInv
  <2>4. HelpOf(h)' /\ draft'[h] \in Messages
    BY <1>1, <1>4, <1>5, <2>1, <2>2, <2>3 DEF HelpOf, Showing
  <2> QED
    BY <1>1, <1>2, <1>4, <2>1, <2>4 DEF HelpInv
<1>9. CASE ReadPage(h)
  <2>1. Step(h, "page") /\ "page" \in Steps \cap Paging /\ UNCHANGED <<draft, message>>
    BY <1>9 DEF ReadPage, Steps, Paging, help
  <2>2. todo[h] = <<"page", "post">> /\ Showing(draft[h])
    BY <1>4, <1>5, <2>1 DEF HelpInv, HelpOf
  <2>3. HelpOf(h)'
    BY <1>1, <1>4, <1>5, <2>1, <2>2 DEF HelpOf, Shown
  <2> QED
    BY <1>1, <1>2, <1>4, <2>1, <2>3 DEF HelpInv
<1>10. CASE Enter(h)
  BY <1>3, <1>10 DEF Enter, help
<1> QED
  BY <1>6, <1>7, <1>8, <1>9, <1>10 DEF HandlerStep

LEMMA HelpNext == Typed /\ HelpInv /\ [Next]_vars => HelpInv'
<1> SUFFICES ASSUME Typed, HelpInv, [Next]_vars PROVE HelpInv'
  OBVIOUS
<1>1. ASSUME NEW h \in Handlers, NEW r \in Requests, Begin(h, r) PROVE HelpInv'
  <2>1. UNCHANGED <<data, message>> /\ \A m : Showing(m)' <=> Showing(m)
    BY <1>1 DEF Begin, Start, process, Showing, Pages
  <2>2. Lacks(Plan(r), Paging)
    BY InteractionAssumption, Plans DEF Silently, Answers, Barred, Lacks
  <2>3. HelpOf(h)' /\ draft' \in [Handlers -> Messages]
    BY <1>1, <2>2, NoFile DEF Begin, Start, HelpInv, HelpOf, Shown, Typed
  <2>4. \A g \in Handlers \ {h} : HelpOf(g)'
    BY <1>1, <2>1 DEF Begin, Start, HelpInv, HelpOf, Shown, Asking, Pages, Typed
  <2> QED
    BY <2>1, <2>3, <2>4 DEF HelpInv, Shown
<1>2. ASSUME NEW h \in Handlers, NEW id \in make_help_with_selection(message), Press(h, id)
      PROVE  HelpInv'
  <2>1. UNCHANGED <<data, message>> /\ Asking(Asked(id))
        /\ \A m : (Showing(m)' <=> Showing(m)) /\ (Asking(m)' <=> Asking(m))
    BY <1>2, AskedPage DEF Press, Start, process, HelpInv, Showing, Asking, Pages
  <2>2. HelpOf(h)' /\ draft' \in [Handlers -> Messages]
    BY <1>2, <2>1 DEF Press, Start, HelpInv, HelpOf, Asking, Typed
  <2>3. \A g \in Handlers \ {h} : HelpOf(g)'
    BY <1>2, <2>1 DEF Press, Start, HelpInv, HelpOf, Shown, Typed
  <2> QED
    BY <2>1, <2>2, <2>3 DEF HelpInv, Shown
<1>3. ASSUME NEW h \in Handlers, HandlerStep(h) PROVE HelpInv'
  BY <1>3, HandlerDraft
<1>4. CASE Deploy
  BY <1>4, DataGrows DEF Deploy, HelpInv, HelpOf, Shown, help
<1>5. CASE Restart
  <2>1. \A m : (Showing(m)' <=> Showing(m))
    BY SMTT(60), <1>5 DEF Restart, Showing, Pages
  <2> QED
    BY <1>5, <2>1, NoFile DEF Restart, HelpInv, HelpOf, Shown, Each, Lacks
<1>6. CASE Stopped \/ UNCHANGED vars
  BY <1>6 DEF Stopped, HelpInv, HelpOf, Shown, Showing, Asking, Pages, vars
<1> QED
  BY <1>1, <1>2, <1>3, <1>4, <1>5, <1>6 DEF Next

LEMMA HelpInductive == Spec => [](Typed /\ HelpInv)
<1>1. Init => Typed /\ HelpInv
  <2>1. Init => HelpInv
    BY NoFile DEF Init, HelpInv, HelpOf, Shown, Each, Lacks
  <2> QED
    BY <2>1, TypedInit
<1>2. (Typed /\ HelpInv) /\ [Next]_vars => (Typed /\ HelpInv)'
  BY TypedNext, HelpNext
<1> QED
  BY <1>1, <1>2, PTL DEF Spec

\* The page shown exists, with a length that data/ had, however the presses of
\* several users race with each other, with deployments and with restarts.
THEOREM ShownPagesExist == Spec => []PagesExist
<1>1. Typed /\ HelpInv => PagesExist
  <2> SUFFICES ASSUME Typed, HelpInv, message.page > 0 PROVE Showing(message)
    BY PagesNat DEF PagesExist, Showing, Typed, Messages
  <2> QED
    BY DEF HelpInv, Shown, Menu, NoMessage
<1> QED
  BY <1>1, HelpInductive, PTL

----------------------------------------------------------------------------
(* The tree of notifmsg: who is inside it, and who can end the process.        *)

TreeInv ==
    /\ inside \in [Handlers -> {"no", "find", "insert"}]
    /\ map \in {"loaded", "settled", "torn"}
    /\ \A h \in Handlers :
          /\ inside[h] # "no" => todo[h] # <<>> /\ Head(todo[h]) \in {"find", "splash"}
          /\ inside[h] = "insert" => Head(todo[h]) = "splash" /\ map # "settled"

\* Without a JSON attachment a plan has no step that can end the process.
BarredInv == \A h \in Handlers : req[h].json # "json" => Lacks(todo[h], Killing)

\* A lookup clashes only with an insertion, and one of them is of "splash".
LEMMA ClashInserts ==
    ASSUME TreeInv, NEW h \in Handlers, todo[h] # <<>>, Clash(h)
    PROVE  map # "settled" /\ \E g \in Handlers : todo[g] # <<>> /\ Head(todo[g]) = "splash"
BY DEF Clash, Inserts, TreeInv

LEMMA TreeNext == Typed /\ TreeInv /\ [Next]_vars => TreeInv'
<1> SUFFICES ASSUME Typed, TreeInv, [Next]_vars PROVE TreeInv'
  OBVIOUS
<1> USE DEF TreeInv
<1>1. ASSUME NEW h \in Handlers, NEW r \in Requests, Begin(h, r) PROVE TreeInv'
  BY <1>1 DEF Begin, Start, Typed, tree
<1>2. ASSUME NEW h \in Handlers, NEW id, Press(h, id) PROVE TreeInv'
  BY <1>2 DEF Press, Start, Typed, tree
<1>3. ASSUME NEW h \in Handlers, HandlerStep(h) PROVE TreeInv'
  <2>1. CASE Enter(h)
    <3>1. map' \in {map, "torn"} /\ UNCHANGED todo
          /\ inside' = [inside EXCEPT ![h] = IF Inserts(h) THEN "insert" ELSE "find"]
          /\ todo[h] # <<>> /\ Head(todo[h]) \in {"find", "splash"}
      BY <2>1 DEF Enter
    <3>2. map' = "settled" => map = "settled"
      BY <3>1
    <3>3. Inserts(h) => Head(todo[h]) = "splash" /\ map' # "settled"
      BY <3>1 DEF Inserts
    <3> QED
      BY <3>1, <3>2, <3>3
  <2>2. CASE Leave(h)
    <3>1. /\ todo' = [todo EXCEPT ![h] = Tail(@)] /\ inside' = [inside EXCEPT ![h] = "no"]
          /\ map' \in {map, "settled"}
          /\ map' # map => \A g \in Handlers \ {h} : inside[g] # "insert"
      BY <2>2 DEF Leave, Step
    <3> QED
      BY <3>1 DEF Typed
  <2>3. CASE Fetch(h) \/ RawFetch(h) \/ ObfuscateMain(h)
    BY <2>3 DEF Fetch, RawFetch, ObfuscateMain, Step, tree, Typed
  <2>4. CASE Upload(h) \/ PostAnswer(h)
    BY ZenonT(60), <2>4 DEF Upload, PostAnswer, Step, tree, Typed
  <2>5. CASE MakeZip(h) \/ Remove(h)
    BY <2>5 DEF MakeZip, Remove, Step, tree, Typed
  <2>6. CASE ReadMetadata(h) \/ ReadPage(h)
    BY <2>6 DEF ReadMetadata, ReadPage, Step, tree, Typed
  <2> QED
    BY <1>3, <2>1, <2>2, <2>3, <2>4, <2>5, <2>6 DEF HandlerStep
<1>4. CASE Deploy
  BY <1>4 DEF Deploy, tree
<1>5. CASE Restart
  BY <1>5 DEF Restart, Each
<1>6. CASE Stopped \/ UNCHANGED vars
  BY <1>6 DEF Stopped, vars
<1> QED
  BY <1>1, <1>2, <1>3, <1>4, <1>5, <1>6 DEF Next

LEMMA BarredNext == Typed /\ BarredInv /\ [Next]_vars => BarredInv'
<1> SUFFICES ASSUME Typed, BarredInv, [Next]_vars PROVE BarredInv'
  OBVIOUS
<1>1. ASSUME NEW h \in Handlers, NEW r \in Requests, Begin(h, r) PROVE BarredInv'
  <2>1. r.json # "json" => Lacks(Plan(r), Killing)
    BY InteractionAssumption, Plans DEF Silently, Answers, Barred, Lacks
  <2> QED
    BY <1>1, <2>1 DEF Begin, Start, BarredInv, Typed
<1>2. ASSUME NEW h \in Handlers, NEW id, Press(h, id) PROVE BarredInv'
  BY <1>2, TurnPiece DEF Press, Start, BarredInv, Typed
<1>3. ASSUME NEW h \in Handlers, HandlerStep(h) PROVE BarredInv'
  <2>1. UNCHANGED req /\ (UNCHANGED todo \/ Takes(h))
    BY <1>3, Shape
  <2>2. CASE UNCHANGED todo
    BY <2>1, <2>2 DEF BarredInv
  <2>3. CASE Takes(h)
    <3>1. Lacks(todo[h], Killing) => Lacks(Tail(todo[h]), Killing)
      BY <2>3, LacksAfterStep DEF Takes, Typed
    <3> QED
      BY <2>1, <2>3, <3>1 DEF BarredInv, Takes, Typed
  <2> QED
    BY <2>1, <2>2, <2>3
<1>4. CASE Deploy \/ Stopped \/ UNCHANGED vars
  BY <1>4 DEF Deploy, Stopped, BarredInv, vars
<1>5. CASE Restart
  BY <1>5 DEF Restart, Each, BarredInv, Lacks
<1> QED
  BY <1>1, <1>2, <1>3, <1>4, <1>5 DEF Next

LEMMA KillNext ==
    Typed /\ HelpInv /\ TreeInv /\ BarredInv /\ OnlyJsonKills /\ [Next]_vars => OnlyJsonKills'
<1> SUFFICES ASSUME Typed, HelpInv, TreeInv, BarredInv, OnlyJsonKills, [Next]_vars,
                    \A h \in Handlers : req'[h].json # "json", map' # "torn"
             PROVE  alive'
  BY DEF OnlyJsonKills
<1> USE DEF OnlyJsonKills
<1>1. ASSUME NEW h \in Handlers, HandlerStep(h) PROVE alive'
  <2>1. alive /\ \A g \in Handlers : req[g].json # "json"
    BY <1>1, Shape
  <2>2. \A g \in Handlers : todo[g] # <<>> => Head(todo[g]) \notin Killing
    BY <2>1, LacksAfterStep DEF BarredInv, Typed
  <2>3. CASE Enter(h)
    <3>1. todo[h] # <<>> /\ map # "torn"
      BY <2>3 DEF Enter
    <3>2. ~Clash(h)
      BY <2>2, <3>1, ClashInserts DEF Killing
    <3> QED
      BY <2>1, <2>3, <3>1, <3>2 DEF Enter
  <2>4. CASE Fetch(h) \/ ObfuscateMain(h)
    BY <2>2, <2>4 DEF Fetch, ObfuscateMain, Step, Killing
  <2>5. CASE ReadPage(h)
    <3>1. todo[h] \in Seq(Steps) /\ todo[h] # <<>> /\ Head(todo[h]) = "page"
      BY <2>5 DEF ReadPage, Step, Typed
    <3>2. todo[h] # Turn /\ ~Lacks(todo[h], Paging)
      BY <3>1, LacksAfterStep DEF Turn, Paging
    <3>3. Showing(draft[h])
      BY <3>2 DEF HelpInv, HelpOf
    <3>4. draft[h].page \in 1..Pages(draft[h].topic)
      BY SMTT(60), <3>3, PagesNat DEF Showing, Messages, Typed
    <3> QED
      BY <2>1, <2>5, <3>4 DEF ReadPage
  <2> QED
    BY <1>1, <2>1, <2>3, <2>4, <2>5
       DEF HandlerStep, Leave, RawFetch, Upload, PostAnswer, MakeZip, Remove, ReadMetadata
<1>2. ASSUME NEW h \in Handlers, NEW r \in Requests, Begin(h, r) PROVE alive'
  BY <1>2 DEF Begin, Start
<1>3. ASSUME NEW h \in Handlers, NEW id, Press(h, id) PROVE alive'
  BY <1>3 DEF Press, Start
<1>4. CASE Deploy \/ Stopped \/ UNCHANGED vars
  BY <1>4 DEF Deploy, Stopped, vars, tree
<1>5. CASE Restart
  BY <1>5 DEF Restart
<1> QED
  BY <1>1, <1>2, <1>3, <1>4, <1>5 DEF Next

KillInv == TreeInv /\ BarredInv /\ OnlyJsonKills

LEMMA KillInductive == Spec => [](Typed /\ HelpInv /\ KillInv)
<1>1. Init => KillInv
  BY DEF Init, KillInv, TreeInv, BarredInv, OnlyJsonKills, Each, Lacks
<1>2. Typed /\ HelpInv /\ KillInv /\ [Next]_vars => KillInv'
  BY TreeNext, BarredNext, KillNext DEF KillInv
<1> QED
  BY <1>1, <1>2, HelpInductive, PTL DEF Spec

\* As long as no request has a JSON attachment and the tree is whole the process
\* keeps running: the other steps of respond_interaction, the image downloads and
\* the help pages among them, cannot end it.
THEOREM OthersCannotKill == Spec => []OnlyJsonKills
BY KillInductive, PTL DEF KillInv

\* Once the insertion of "splash" is over the tree only sees lookups, and it is not
\* torn before the next start of the process.
THEOREM TreeSettles == Spec => MapSettles
<1>1. Typed /\ TreeInv /\ [Next]_vars
        => (map = "settled" /\ starts' = starts => map' = "settled")
  <2> SUFFICES ASSUME Typed, TreeInv, [Next]_vars, map = "settled", starts' = starts
               PROVE  map' = "settled"
    OBVIOUS
  <2>1. ASSUME NEW h \in Handlers, HandlerStep(h) PROVE map' = "settled"
    <3>1. CASE Enter(h)
      <4>1. ~Clash(h)
        BY <3>1, ClashInserts DEF Enter
      <4> QED
        BY <3>1, <4>1 DEF Enter
    <3>2. CASE Leave(h)
      BY <3>2 DEF Leave
    <3> QED
      BY <2>1, <3>1, <3>2 DEF HandlerStep, Fetch, RawFetch, ObfuscateMain, Upload,
                              PostAnswer, MakeZip, Remove, ReadMetadata, ReadPage, tree
  <2>2. ASSUME NEW h \in Handlers, NEW r \in Requests, Begin(h, r) PROVE map' = "settled"
    BY <2>2 DEF Begin, Start, tree
  <2>3. ASSUME NEW h \in Handlers, NEW id, Press(h, id) PROVE map' = "settled"
    BY <2>3 DEF Press, Start, tree
  <2>4. CASE Deploy \/ Stopped \/ UNCHANGED vars
    BY <2>4 DEF Deploy, Stopped, vars, tree
  <2>5. ~Restart
    BY InteractionAssumption DEF Restart, Typed
  <2> QED
    BY <2>1, <2>2, <2>3, <2>4, <2>5 DEF Next
<1> QED
  BY <1>1, KillInductive, PTL DEF KillInv, Spec, MapSettles

----------------------------------------------------------------------------
(* The files in tmp/: each is one of an earlier process or belongs to the one  *)
(* handler between its make_zip and its remove.                                *)

PackOf(h) ==
    \/ zip[h] \in Names /\ (Uploads(todo[h]) \/ Removes(todo[h]))
    \/ zip[h] = "none" /\ Packs(todo[h])

TmpInv ==
    /\ zip \in [Handlers -> Names \cup {"none"}]
    /\ tmp \subseteq Names /\ left \subseteq tmp
    /\ \A h \in Handlers : PackOf(h)
    /\ \A h \in Handlers : zip[h] # "none" => zip[h] \in tmp \ left
    /\ \A g, h \in Handlers : zip[g] = zip[h] /\ zip[h] # "none" => g = h
    /\ \A n \in tmp \ left : \E h \in Handlers : zip[h] = n

LEMMA TmpHandler ==
    ASSUME Typed, TmpInv, NEW h \in Handlers, HandlerStep(h)
    PROVE  TmpInv'
<1>1. UNCHANGED left
  BY Shape
<1>2. ASSUME NEW name \in Steps, Step(h, name)
      PROVE  /\ todo[h] \in Seq(Steps) /\ todo[h] # <<>> /\ Head(todo[h]) = name
             /\ todo[h][1] = name /\ Len(todo[h]) \in Nat /\ Len(todo'[h]) = Len(todo[h]) - 1
             /\ \A j \in 1..Len(todo'[h]) : todo'[h][j] = todo[h][j + 1]
             /\ \A g \in Handlers \ {h} : todo'[g] = todo[g]
             /\ Packs(todo[h]) => IF name \in Zipping
                                  THEN name = "make_zip" /\ Uploads(todo'[h])
                                  ELSE Packs(todo'[h])
  <2>1. /\ todo[h] \in Seq(Steps) /\ todo[h] # <<>> /\ Head(todo[h]) = name
        /\ todo'[h] = Tail(todo[h]) /\ \A g \in Handlers \ {h} : todo'[g] = todo[g]
    BY <1>2 DEF Step, Typed
  <2> QED
    BY <2>1, AfterStep, PackAfterStep
<1>3. CASE Enter(h)
  BY <1>1, <1>3 DEF Enter, TmpInv, PackOf
<1>4. ASSUME NEW name \in Steps \ Zipping, Step(h, name), UNCHANGED <<zip, tmp>>
      PROVE  TmpInv'
  <2>1. zip[h] = "none" /\ Packs(todo[h])
    BY <1>2, <1>4 DEF TmpInv, PackOf, Uploads, Removes, Zipping
  <2>2. PackOf(h)'
    BY <1>2, <1>4, <2>1 DEF PackOf
  <2> QED
    BY <1>1, <1>2, <1>4, <2>2 DEF TmpInv, PackOf
<1>5. CASE Upload(h) /\ ~Step(h, "upload_data")
  <2>1. Step(h, "upload_file") /\ "upload_file" \in Steps \cap Zipping /\ UNCHANGED <<zip, tmp>>
    BY <1>5 DEF Upload, Steps, Zipping
  <2>2. zip[h] \in Names /\ Uploads(todo[h])
    BY <1>2, <2>1 DEF TmpInv, PackOf, Uploads, Removes
  <2>3. PackOf(h)'
    BY <1>2, <2>1, <2>2 DEF PackOf, Uploads, Removes
  <2> QED
    BY <1>1, <1>2, <2>1, <2>3 DEF TmpInv, PackOf
<1>6. CASE MakeZip(h)
  <2>1. PICK n \in Names \ tmp : tmp' = tmp \cup {n} /\ zip' = [zip EXCEPT ![h] = n]
    BY <1>6 DEF MakeZip
  <2>2. Step(h, "make_zip") /\ "make_zip" \in Steps \cap Zipping
    BY <1>6 DEF MakeZip, Steps, Zipping
  <2>3. zip[h] = "none" /\ Packs(todo[h])
    BY <1>2, <2>2 DEF TmpInv, PackOf, Uploads, Removes
  <2>4. PackOf(h)'
    BY <1>2, <2>1, <2>2, <2>3 DEF PackOf, TmpInv
  <2>5. \A g \in Handlers : PackOf(g)'
    BY <1>2, <2>1, <2>2, <2>4 DEF TmpInv, PackOf
  <2>6. n # "none" /\ n \notin left /\ \A g \in Handlers : zip[g] # n
    BY <2>1, InteractionAssumption DEF TmpInv
  <2>7. /\ zip' \in [Handlers -> Names \cup {"none"}] /\ zip'[h] = n
        /\ \A g \in Handlers \ {h} : zip'[g] = zip[g]
        /\ tmp' \subseteq Names /\ left' \subseteq tmp'
    BY <1>1, <2>1 DEF TmpInv
  <2>8. \A g \in Handlers : zip'[g] # "none" => zip'[g] \in tmp' \ left'
    BY <1>1, <2>1, <2>6, <2>7 DEF TmpInv
  <2>9. \A f, g \in Handlers : zip'[f] = zip'[g] /\ zip'[g] # "none" => f = g
    BY <2>6, <2>7 DEF TmpInv
  <2>10. ASSUME NEW m \in tmp' \ left' PROVE \E g \in Handlers : zip'[g] = m
    <3>1. CASE m = n
      BY <2>7, <3>1
    <3>2. CASE m # n
      <4>1. PICK g \in Handlers : zip[g] = m
        BY <1>1, <2>1, <2>10, <3>2 DEF TmpInv
      <4>2. g # h
        BY <2>3, <4>1, <2>10, <2>7, InteractionAssumption
      <4> QED
        BY <2>7, <4>1, <4>2
    <3> QED
      BY <3>1, <3>2
  <2> QED
    BY <2>5, <2>7, <2>8, <2>9, <2>10 DEF TmpInv
<1>7. CASE Remove(h)
  <2>1. tmp' = tmp \ {zip[h]} /\ zip' = [zip EXCEPT ![h] = "none"]
    BY <1>7 DEF Remove
  <2>2. Step(h, "remove") /\ "remove" \in Steps \cap Zipping
    BY <1>7 DEF Remove, Steps, Zipping
  <2>3. zip[h] \in Names /\ Removes(todo[h])
    BY <1>2, <2>2 DEF TmpInv, PackOf, Uploads, Removes
  <2>4. PackOf(h)'
    BY <1>2, <2>1, <2>2, <2>3 DEF PackOf, TmpInv, Removes, Packs
  <2>5. \A g \in Handlers : PackOf(g)'
    BY <1>2, <2>1, <2>2, <2>4 DEF TmpInv, PackOf
  <2>6. zip[h] # "none"
    BY <2>3, InteractionAssumption
  <2> QED
    BY <1>1, <2>1, <2>5, <2>6 DEF TmpInv
<1>8. CASE Upload(h)
  <2>1. CASE Step(h, "upload_data")
    BY <1>4, <1>8, <2>1 DEF Upload, Steps, Zipping
  <2> QED
    BY <1>5, <1>8, <2>1
<1>9. CASE \/ Leave(h) \/ Fetch(h) \/ RawFetch(h) \/ ObfuscateMain(h) \/ PostAnswer(h)
           \/ ReadMetadata(h) \/ ReadPage(h)
  <2>1. \E name \in Steps \ Zipping : Step(h, name)
    BY <1>9 DEF Leave, Fetch, RawFetch, ObfuscateMain, PostAnswer, ReadMetadata, ReadPage,
                Steps, Zipping
  <2>2. UNCHANGED <<zip, tmp>>
    BY <1>9 DEF Leave, Fetch, RawFetch, ObfuscateMain, PostAnswer, ReadMetadata, ReadPage
  <2> QED
    BY <1>4, <2>1, <2>2
<1> QED
  BY <1>3, <1>6, <1>7, <1>8, <1>9 DEF HandlerStep

LEMMA TmpNext == Typed /\ TmpInv /\ [Next]_vars => TmpInv'
<1> SUFFICES ASSUME Typed, TmpInv, [Next]_vars PROVE TmpInv'
  OBVIOUS
<1>1. ASSUME NEW h \in Handlers, NEW r, NEW steps \in Seq(Steps), NEW page,
             Packs(steps), Start(h, r, steps, page)
      PROVE  TmpInv'
  <2>1. ~Uploads(<<>>) /\ ~Removes(<<>>)
    BY DEF Uploads, Removes
  <2>2. zip[h] = "none"
    BY <1>1, <2>1 DEF Start, TmpInv, PackOf
  <2>3. zip' = zip /\ UNCHANGED <<tmp, left>> /\ todo'[h] = steps
        /\ \A g \in Handlers \ {h} : todo'[g] = todo[g]
    BY <1>1, <2>2 DEF Start, process, TmpInv, Typed
  <2> QED
    BY <1>1, <2>2, <2>3 DEF TmpInv, PackOf
<1>2. ASSUME NEW h \in Handlers, NEW r \in Requests, Begin(h, r) PROVE TmpInv'
  <2>1. Plan(r) \in Seq(Steps) /\ Packs(Plan(r))
    BY InteractionAssumption, Plans DEF Silently, Answers, Packs, Lacks
  <2> QED
    BY <1>1, <1>2, <2>1 DEF Begin
<1>3. ASSUME NEW h \in Handlers, NEW id, Press(h, id) PROVE TmpInv'
  <2>1. Turn \in Seq(Steps) /\ Packs(Turn)
    BY DEF Turn, Packs, Steps, Zipping
  <2> QED
    BY <1>1, <1>3, <2>1 DEF Press
<1>4. ASSUME NEW h \in Handlers, HandlerStep(h) PROVE TmpInv'
  BY <1>4, TmpHandler
<1>5. CASE Deploy \/ Stopped \/ UNCHANGED vars
  BY <1>5 DEF Deploy, Stopped, vars, TmpInv, PackOf
<1>6. CASE Restart
  BY <1>6 DEF Restart, Each, TmpInv, PackOf, Packs
<1> QED
  BY <1>2, <1>3, <1>4, <1>5, <1>6 DEF Next

LEMMA TmpInductive == Spec => [](Typed /\ TmpInv)
<1>1. Init => Typed /\ TmpInv
  <2>1. Init => TmpInv
    BY DEF Init, TmpInv, PackOf, Packs, Each
  <2> QED
    BY <2>1, TypedInit
<1>2. (Typed /\ TmpInv) /\ [Next]_vars => (Typed /\ TmpInv)'
  BY TypedNext, TmpNext
<1> QED
  BY <1>1, <1>2, PTL DEF Spec

\* tmp/ holds the archives of running handlers and what earlier processes left, each
\* upload finds its file there, and no handler is given, or removes, another's.
THEOREM TmpOnlyHoldsRunning == Spec => []TmpIsTransient
<1>1. Typed /\ TmpInv => TmpIsTransient
  <2> SUFFICES ASSUME Typed, TmpInv PROVE TmpIsTransient
    OBVIOUS
  <2> DEFINE Live == {zip[h] : h \in {g \in Handlers : Busy(g) /\ zip[g] # "none"}}
  <2>1. \A h \in Handlers : zip[h] # "none" => Busy(h)
    BY DEF TmpInv, PackOf, Busy, Uploads, Removes
  <2>2. \A n : n \in Live <=> \E h \in Handlers : zip[h] = n /\ n # "none"
    BY <2>1
  <2> HIDE DEF Live
  <2>4. \A n : n \in Live <=> n \in tmp \ left
    BY <2>2, InteractionAssumption DEF TmpInv
  <2>5. left \subseteq tmp
    BY DEF TmpInv
  <2>6. tmp = left \cup Live
    BY <2>4, <2>5
  <2>7. left \cap Live = {}
    BY <2>4
  <2>3. ASSUME NEW h \in Handlers, Busy(h), Head(todo[h]) = "upload_file" PROVE zip[h] \in tmp
    <3>1. ~Packs(todo[h])
      BY <2>3, PackAfterStep DEF Busy, Typed, Zipping
    <3> QED
      BY <3>1, InteractionAssumption DEF TmpInv, PackOf
  <2> QED
    BY <2>3, <2>6, <2>7 DEF TmpIsTransient, Live
<1> QED
  BY <1>1, TmpInductive, PTL

AliveOK == alive \in BOOLEAN

LEMMA AliveNext == AliveOK /\ [Next]_vars => AliveOK'
<1> SUFFICES ASSUME AliveOK, [Next]_vars PROVE AliveOK'
  OBVIOUS
<1> USE DEF AliveOK
<1>1. ASSUME NEW h \in Handlers, HandlerStep(h) PROVE AliveOK'
  BY <1>1 DEF HandlerStep, Enter, Leave, Fetch, RawFetch, ObfuscateMain, Upload, PostAnswer,
              MakeZip, Remove, ReadMetadata, ReadPage
<1>2. ASSUME NEW h \in Handlers, NEW r \in Requests, Begin(h, r) PROVE AliveOK'
  BY <1>2 DEF Begin, Start
<1>3. ASSUME NEW h \in Handlers, NEW id, Press(h, id) PROVE AliveOK'
  BY <1>3 DEF Press, Start
<1>4. CASE Deploy \/ Restart \/ Stopped \/ UNCHANGED vars
  BY <1>4 DEF Deploy, Restart, Stopped, vars
<1> QED
  BY <1>1, <1>2, <1>3, <1>4 DEF Next

\* Every variable keeps its type.
THEOREM InteractionTypes == Spec => []TypeOK
<1>1. ASSUME Typed, AnswerInv, HelpInv, KillInv, TmpInv, AliveOK PROVE TypeOK
  <2>1. \A h \in Handlers : \A i \in DOMAIN todo[h] : todo[h][i] \in Steps
    BY <1>1 DEF Typed
  <2>2. posted \in [Handlers -> {0, 1}]
    BY <1>1 DEF AnswerInv, AnswerOf, Typed
  <2>3. draft \in [Handlers -> Messages] /\ message \in Messages
    BY <1>1, NoFile DEF HelpInv, Shown, Showing
  <2>4. tmp \subseteq Names /\ left \subseteq Names /\ zip \in [Handlers -> Names \cup {"none"}]
    BY <1>1 DEF TmpInv
  <2> QED
    BY <1>1, <2>1, <2>2, <2>3, <2>4 DEF TypeOK, Typed, KillInv, TreeInv, AliveOK
<1>2. Spec => []AliveOK
  <2>1. Init => AliveOK
    BY DEF Init, AliveOK
  <2> QED
    BY <2>1, AliveNext, PTL DEF Spec
<1> QED
  BY <1>1, <1>2, AnswerInductive, KillInductive, TmpInductive, PTL

\* A select menu leads to the first page of its topic, and the button to the next
\* page leads there, unless the page is the last one.
LEMMA Components ==
    ASSUME NEW m, NEW t \in Topics, NEW length \in Nat \ {0}, length < First
    PROVE  /\ \E id \in make_help_with_selection(m) :
                 Asked(id).topic = t /\ Resolved(Asked(id), length).page = 1
           /\ \A n \in 1..length - 1 :
                 \E id \in make_help_with_selection([topic |-> t, page |-> n, max |-> length]) :
                    Asked(id).topic = t /\ Resolved(Asked(id), length).page = n + 1
<1> USE DEF make_help_with_selection, Asked, Resolved, First, Final
<1>1. /\ Selection(t) \in make_help_with_selection(m)
      /\ Asked(Selection(t)) = [topic |-> t, page |-> 1, max |-> 0]
  BY DEF Selection
<1>2. Resolved([topic |-> t, page |-> 1, max |-> 0], length).page = 1
  OBVIOUS
<1>3. ASSUME NEW n \in 1..length - 1
      PROVE  \E id \in make_help_with_selection([topic |-> t, page |-> n, max |-> length]) :
                Asked(id).topic = t /\ Resolved(Asked(id), length).page = n + 1
  <2>1. n # 0 /\ n # length /\ n + 1 \in Nat /\ n + 1 # First /\ n + 1 # Final
    OBVIOUS
  <2>2. Id(t, n + 1) \in Buttons([topic |-> t, page |-> n, max |-> length])
    BY <2>1 DEF Buttons, NotAtEnd
  <2>3. Asked(Id(t, n + 1)) = [topic |-> t, page |-> n + 1, max |-> 0]
    BY DEF Id, parse_hpcid
  <2>4. Resolved([topic |-> t, page |-> n + 1, max |-> 0], length).page = n + 1
    BY <2>1
  <2> QED
    BY <2>2, <2>3, <2>4
<1> QED
  BY <1>1, <1>2, <1>3

----------------------------------------------------------------------------
(* The pages in order.                                                      *)

Lower == {pair \in Nat \X Nat : pair[1] < pair[2]}

\* Every set of natural numbers that is not empty has a least element.
LEMMA LeastPage ==
    ASSUME NEW T, T \subseteq Nat, T # {}
    PROVE  \E x \in T : \A y \in T : x <= y
<1>1. OpToRel(<, Nat) = Lower
  BY Zenon DEF OpToRel, Lower
<1>2. IsWellFoundedOn(Lower, Nat)
  BY Zenon, <1>1, NatLessThanWellFounded
<1>3. PICK x \in T : \A y \in T : <<y, x>> \notin Lower
  BY <1>2, WFMin
<1>4. ASSUME NEW y \in T PROVE x <= y
  <2>1. x \in Nat /\ y \in Nat /\ <<y, x>> \in Nat \X Nat
    OBVIOUS
  <2> QED
    BY <1>3, <2>1 DEF Lower
<1> QED
  BY <1>3, <1>4

\* A set with the first of some pages, and with the next one of each, has them all.
LEMMA PageByPage ==
    ASSUME NEW low \in Nat, NEW high \in Nat, NEW S, low \in S,
           \A n \in low..high : n \in S /\ n < high => n + 1 \in S
    PROVE  low..high \subseteq S
<1> SUFFICES ASSUME NEW m \in low..high, m \notin S PROVE FALSE
  OBVIOUS
<1> DEFINE T == (low..high) \ S
<1>1. PICK x \in T : \A y \in T : x <= y
  <2>1. T \subseteq Nat /\ T # {}
    OBVIOUS
  <2> HIDE DEF T
  <2> QED
    BY <2>1, LeastPage
<1>2. x # low /\ x \in Nat /\ x - 1 \in low..high /\ x - 1 < high /\ x - 1 + 1 = x
  OBVIOUS
<1>3. x - 1 \in S
  BY <1>1, <1>2
<1> QED
  BY <1>2, <1>3

\* From the message shown, presses lead to every page of every topic, whatever
\* number of pages it has: a set of pages that no press leaves has the first one,
\* and after each page the next.
THEOREM EveryPageReachable == Spec => []PagesNavigable
<1>1. TypeOK => PagesNavigable
  <2> SUFFICES ASSUME TypeOK, message # NoMessage, NEW t \in Topics
               PROVE  LET Asks(m) == {a \in {Asked(id) : id \in make_help_with_selection(m)} :
                                        a.topic = t}
                          Leads(m) == {Resolved(a, Pages(t)).page : a \in Asks(m)}
                          Onward == [n \in 1..Pages(t) |->
                                       Leads([topic |-> t, page |-> n, max |-> Pages(t)])]
                      IN  \A S \in SUBSET (1..Pages(t)) :
                              (Leads(message) \subseteq S /\ \A n \in S : Onward[n] \subseteq S)
                                  => S = 1..Pages(t)
    BY DEF PagesNavigable
  <2> DEFINE Asks(m) == {a \in {Asked(id) : id \in make_help_with_selection(m)} : a.topic = t}
             Leads(m) == {Resolved(a, Pages(t)).page : a \in Asks(m)}
             Onward == [n \in 1..Pages(t) |->
                          Leads([topic |-> t, page |-> n, max |-> Pages(t)])]
  <2>1. Pages(t) \in Nat \ {0} /\ Pages(t) < First
    BY InteractionAssumption DEF Pages, TypeOK
  <2>2. 1 \in Leads(message)
    BY <2>1, Components
  <2>3. \A n \in 1..Pages(t) - 1 :
           n + 1 \in Leads([topic |-> t, page |-> n, max |-> Pages(t)])
    BY <2>1, Components
  <2> HIDE DEF Leads
  <2>4. ASSUME NEW S \in SUBSET (1..Pages(t)), Leads(message) \subseteq S,
               \A n \in S : Onward[n] \subseteq S
        PROVE  S = 1..Pages(t)
    <3>1. 1 \in S
      BY <2>2, <2>4
    <3>2. ASSUME NEW n \in 1..Pages(t), n \in S, n < Pages(t) PROVE n + 1 \in S
      <4>1. n \in 1..Pages(t) - 1
        BY <2>1, <3>2
      <4>2. n + 1 \in Onward[n]
        BY <2>3, <3>2, <4>1
      <4> QED
        BY <2>4, <3>2, <4>2
    <3>3. 1..Pages(t) \subseteq S
      BY <2>1, <3>1, <3>2, PageByPage
    <3> QED
      BY <3>3
  <2> USE DEF Leads
  <2> QED
    BY <2>4
<1> QED
  BY <1>1, InteractionTypes, PTL
=============================================================================
