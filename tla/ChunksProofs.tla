---------------------------- MODULE ChunksProofs ----------------------------
(* TLAPS proofs about Chunks, for any number of messages and timers, with      *)
(* spurious returns and lost connections: what spacing makes reassembly safe.  *)
EXTENDS Chunks, TLAPS

USE DEF network, chunk, timers

Fragments == Seq(Nat \X Nat)
Longest == Timeout + Lag        \* the life of a timer

\* A message arrives before a timer that it started can wake up, and the next
\* one comes when every timer of this one is gone: a spurious return may start
\* one as late as the end of the life of another.
Latest == IF Spurious THEN 2 * Longest ELSE Longest
Spaced == Span < Timeout /\ Quiet > Latest

\* The first k fragments of message n.
Part(n, k) == [i \in 1..k |-> <<n, i>>]

LEMMA Sizes ==
    \A x \in Shapes : Size(x) \in Nat \ {0} /\ x.full \in Nat /\ x.full <= Size(x)
BY ChunksAssumption DEF Size

LEMMA Parts ==
    /\ \A n, k \in Nat : Part(n, k) \in Fragments
    /\ \A n, k \in Nat : Append(Part(n, k), <<n, k + 1>>) = Part(n, k + 1)
    /\ \A n \in Nat : <<>> = Part(n, 0) /\ <<<<n, 1>>>> = Part(n, 1)
<1>1. \A n, k \in Nat : Part(n, k) \in Fragments
  BY DEF Part, Fragments
<1>2. ASSUME NEW n \in Nat, NEW k \in Nat
      PROVE  Append(Part(n, k), <<n, k + 1>>) = Part(n, k + 1)
  <2>1. Part(n, k) \in Seq(Nat \X Nat) /\ Len(Part(n, k)) = k
    BY <1>1 DEF Part, Fragments
  <2>2. Append(Part(n, k), <<n, k + 1>>)
          = [i \in 1..(k + 1) |-> IF i = k + 1 THEN <<n, k + 1>> ELSE Part(n, k)[i]]
    BY <2>1
  <2> QED
    BY <2>2 DEF Part
<1>3. ASSUME NEW n \in Nat
      PROVE  <<>> = Part(n, 0) /\ <<<<n, 1>>>> = Part(n, 1)
  BY DEF Part
<1> QED
  BY <1>1, <1>2, <1>3

----------------------------------------------------------------------------
(* Types. *)

Typed ==
    /\ TypeOK
    /\ gateway_rcol \in Fragments /\ received_message \in Fragments
    /\ text \in [Timers -> Fragments] /\ handled \in Seq(Fragments)
    /\ fragments \in 0..(IF sent = <<>> THEN 0 ELSE Size(Last))
    /\ sent # <<>> => fragments > 0
    /\ returning => rest = 0
    /\ cut \subseteq 1..Len(sent)

Places == {"up", "dead", "closed", "nulled", "ended"}
Blocks == {"null", "freed", "one", "all"}
Points == {"gone", "sleep", "clear", "read", "free", "calloc", "reset"}

LEMMA TypedInit == Init => Typed
<1> SUFFICES ASSUME Init PROVE Typed
  OBVIOUS
<1>1. sent \in Seq(Shapes) /\ handled \in Seq(Fragments) /\ gateway_rcol \in Fragments
      /\ received_message \in Fragments /\ text \in [Timers -> Fragments]
  BY DEF Init, Fragments
<1>2. returning = FALSE /\ returning \in BOOLEAN /\ new_chunk \in BOOLEAN
      /\ broken \in BOOLEAN
  BY Zenon DEF Init
<1>3. 0 \in 0..Span /\ Quiet \in 0..Quiet /\ 0 \in 0..(Timeout + Lag)
  BY ChunksAssumption DEF Timeout
<1> QED
  BY <1>1, <1>2, <1>3 DEF Init, Typed, TypeOK

\* The bytes are typed whatever the block is, and so is what use out of turn does.
LEMMA BytesTyped == ASSUME Typed PROVE Bytes \in Fragments /\ (Sound => Bytes = gateway_rcol)
<1>1. gateway_rcol \in Fragments /\ <<0, 0>> \in Nat \X Nat
  BY DEF Typed
<1>2. [i \in DOMAIN gateway_rcol |-> <<0, 0>>] \in Fragments
  BY SMTT(30), <1>1 DEF Fragments
<1> QED
  BY <1>1, <1>2 DEF Bytes

LEMMA UsesTyped ==
    ASSUME link \in Places, NEW bad, Uses(bad)
    PROVE  link' \in Places /\ broken' \in BOOLEAN
<1>1. broken' \in BOOLEAN
  BY Zenon DEF Uses
<1>2. link' \in {link, "ended"}
  BY DEF Uses
<1> QED
  BY <1>1, <1>2 DEF Places

LEMMA UsesWell ==
    ASSUME broken \in BOOLEAN, NEW bad, ~bad, Uses(bad)
    PROVE  UNCHANGED <<link, broken>>
<1>1. link' = link
  BY DEF Uses
<1>2. broken' = broken
  BY Zenon DEF Uses
<1> QED
  BY <1>1, <1>2

\* What a callback does to the chunk and the mailbox, and its fragment.
LEMMA TakeTyped ==
    ASSUME Typed, NEW f \in Nat \X Nat, NEW full, TakeFragment(f, full)
    PROVE  /\ new_chunk' \in BOOLEAN /\ gateway_rcol' \in Fragments
           /\ data' \in Blocks /\ received_message' \in Fragments
           /\ link' \in Places /\ broken' \in BOOLEAN
<1>1. <<f>> \in Fragments /\ Append(Bytes, f) \in Fragments /\ <<>> \in Fragments
  BY BytesTyped DEF Fragments
<1>2. gateway_rcol \in Fragments /\ received_message \in Fragments
      /\ data \in Blocks /\ link \in Places
  BY DEF Typed, TypeOK, Blocks, Places
<1>3. new_chunk \in BOOLEAN /\ broken \in BOOLEAN
  BY Zenon DEF Typed, TypeOK
<1>4. new_chunk' \in BOOLEAN
  BY <1>3, Zenon DEF TakeFragment
<1>5. gateway_rcol' \in Fragments /\ received_message' \in Fragments
  BY <1>1, <1>2, Zenon DEF TakeFragment, EmptyBlock
<1>6. data' \in Blocks
  BY <1>2 DEF TakeFragment, EmptyBlock, Blocks
<1>7. Uses(~Sound \/ data = "freed") \/ UNCHANGED <<link, broken>>
  BY Zenon DEF TakeFragment
<1>8. link' \in Places /\ broken' \in BOOLEAN
  <2>1. CASE Uses(~Sound \/ data = "freed")
    BY ONLY <1>2, <2>1, UsesTyped
  <2>2. CASE UNCHANGED <<link, broken>>
    <3>1. link' = link /\ broken' = broken
      BY <2>2
    <3> QED
      BY ONLY <1>2, <1>3, <3>1, Zenon
  <2> QED
    BY <1>7, <2>1, <2>2
<1> QED
  BY <1>4, <1>5, <1>6, <1>8

LEMMA TypedNext == Typed /\ [Next]_vars => Typed'
<1> SUFFICES ASSUME Typed, [Next]_vars PROVE Typed'
  OBVIOUS
<1> USE ChunksAssumption DEF Typed, TypeOK, Timeout, Places, Blocks, Points
<1>1. ASSUME NEW x \in Shapes, Begin(x) PROVE Typed'
  <2>1. TakeFragment(<<Len(sent) + 1, 1>>, x.full > 0)
        /\ <<Len(sent) + 1, 1>> \in Nat \X Nat
    BY <1>1 DEF Begin, Receive
  <2>2. new_chunk' \in BOOLEAN /\ gateway_rcol' \in Fragments
        /\ data' \in Blocks /\ received_message' \in Fragments
        /\ link' \in Places /\ broken' \in BOOLEAN
    BY ONLY Typed, <2>1, TakeTyped
  <2>3. sent' \in Seq(Shapes) /\ sent' # <<>> /\ Last' = x
        /\ Len(sent') = Len(sent) + 1 /\ Len(sent) \in Nat
    BY SMTT(60), <1>1 DEF Begin, Last
  <2>5. cut' \subseteq 1..Len(sent')
    <3>1. cut' = cut /\ cut \subseteq 1..Len(sent)
      BY <1>1 DEF Begin, Receive
    <3> QED
      BY <2>3, <3>1
  <2>4. Size(x) \in Nat \ {0} /\ Size(Last') = Size(x)
    BY <2>3, Sizes
  <2> QED
    BY SMTT(60), <1>1, <2>2, <2>3, <2>4, <2>5 DEF Begin, Receive
<1>2. CASE Continue
  <2>1. sent # <<>> /\ Last \in Shapes /\ fragments < Size(Last)
    BY <1>2, Sizes DEF Continue, Between, Last
  <2>2. TakeFragment(<<Len(sent), fragments + 1>>, fragments < Last.full)
        /\ <<Len(sent), fragments + 1>> \in Nat \X Nat
    BY <1>2 DEF Continue, Receive
  <2>3. new_chunk' \in BOOLEAN /\ gateway_rcol' \in Fragments
        /\ data' \in Blocks /\ received_message' \in Fragments
        /\ link' \in Places /\ broken' \in BOOLEAN
    BY ONLY Typed, <2>2, TakeTyped
  <2>4. Size(Last)' = Size(Last)
    BY <1>2 DEF Continue, Last, Size
  <2> QED
    BY SMTT(60), <1>2, <2>1, <2>3, <2>4, Sizes DEF Continue, Receive
<1>3. CASE ServiceReturn
  <2>1. (pc \in [Timers -> Points])'
        /\ (left \in [Timers -> 0..(Timeout + Lag)])' /\ (text \in [Timers -> Fragments])'
    <3>1. CASE ~new_chunk
      BY <1>3, <3>1 DEF ServiceReturn, StartTimer
    <3>2. CASE new_chunk
      <4>1. PICK t \in Timers : /\ pc' = [pc EXCEPT ![t] = "sleep"] /\ text' = text
                               /\ left' = [left EXCEPT ![t] = SleepTime]
        BY <1>3, <3>2 DEF ServiceReturn, StartTimer
      <4>2. SleepTime \in 0..(Timeout + Lag)
        BY DEF SleepTime
      <4>3. left' \in [Timers -> 0..(Timeout + Lag)]
        BY <4>1, <4>2
      <4>4. pc' \in [Timers -> Points]
        BY <4>1
      <4> QED
        BY <4>1, <4>3, <4>4
    <3> QED
      BY <3>1, <3>2
  <2>2. handled' \in Seq(Fragments) /\ received_message' \in Fragments
    BY <1>3 DEF ServiceReturn, Dispatch, Fragments
  <2>3. Size(Last)' = Size(Last)
    BY <1>3 DEF ServiceReturn, Last, Size
  <2> QED
    BY <1>3, <2>1, <2>2, <2>3 DEF ServiceReturn
<1>4. CASE Cut
  <2>1. sent # <<>> /\ Size(Last) \in Nat \ {0}
    BY <1>4, Sizes DEF Cut, Last
  <2>2. sent' = sent /\ cut' = cut \cup {Len(sent)} /\ fragments' = Size(Last)
        /\ link' = "dead"
        /\ UNCHANGED <<age, rest, returning, new_chunk, gateway_rcol, data,
                       received_message, pc, left, text, handled, broken>>
    BY <1>4 DEF Cut
  <2>3. cut' \subseteq 1..Len(sent')
    <3>1. Len(sent) \in 1..Len(sent) /\ cut \subseteq 1..Len(sent)
      BY ONLY Typed, <2>1 DEF Typed, TypeOK
    <3> QED
      BY ONLY <2>2, <3>1
  <2>4. Size(Last)' = Size(Last)
    BY <2>2 DEF Last, Size
  <2> QED
    BY <2>1, <2>2, <2>3, <2>4
<1>8. CASE Close \/ End \/ Redial \/ Zero
  <2>1. UNCHANGED <<sent, fragments, age, new_chunk, pc, left, text, handled, cut, broken>>
    BY <1>8 DEF Close, End, Redial, Zero
  <2>2. Size(Last)' = Size(Last)
    BY <2>1 DEF Last, Size
  <2>3. /\ link' \in Places /\ data' \in Blocks /\ rest' \in 0..Quiet
        /\ returning' => rest' = 0
    BY <1>8 DEF Close, End, Redial, Zero
  <2>4. /\ received_message' = <<>> \/ received_message' = received_message
        /\ gateway_rcol' = <<>> \/ gateway_rcol' = gateway_rcol
    BY <1>8 DEF Close, End, Redial, Zero
  <2>5. returning' \in BOOLEAN
    <3>1. returning' = TRUE \/ returning' = returning
      BY <1>8, Zenon DEF Close, End, Redial, Zero
    <3> QED
      BY <3>1, Zenon
  <2>6. gateway_rcol' \in Fragments /\ received_message' \in Fragments
    <3>1. <<>> \in Fragments /\ gateway_rcol \in Fragments /\ received_message \in Fragments
      BY DEF Fragments
    <3> QED
      BY ONLY <2>4, <3>1
  <2>7. cut' \subseteq 1..Len(sent') /\ broken' \in BOOLEAN /\ new_chunk' \in BOOLEAN
    <3>1. sent' = sent /\ cut' = cut /\ broken' = broken /\ new_chunk' = new_chunk
      BY <2>1
    <3>2. cut \subseteq 1..Len(sent) /\ broken \in BOOLEAN /\ new_chunk \in BOOLEAN
      BY ONLY Typed, Zenon DEF Typed, TypeOK
    <3> QED
      BY ONLY <3>1, <3>2, Zenon
  <2> QED
    BY SMTT(60), <2>1, <2>2, <2>3, <2>5, <2>6, <2>7
<1>5. CASE Tick
  <2>1. Size(Last)' = Size(Last)
    BY <1>5 DEF Tick, Last, Size
  <2>2. age' \in 0..Span
    BY <1>5 DEF Tick
  <2>3. rest' \in 0..Quiet
    BY <1>5 DEF Tick
  <2>4. (left \in [Timers -> 0..(Timeout + Lag)])'
    BY <1>5 DEF Tick
  <2> QED
    BY <1>5, <2>1, <2>2, <2>3, <2>4 DEF Tick
<1>6. ASSUME NEW t \in Timers, TimerStep(t) PROVE Typed'
  <2>1. Size(Last)' = Size(Last) /\ UNCHANGED <<sent, fragments, age, rest, returning, cut>>
        /\ received_message' = received_message
    BY <1>6 DEF TimerStep, Test, Clear, Read, Free, Calloc, Reset, Step, Last, Size
  <2>2. (pc \in [Timers -> Points])'
        /\ (left \in [Timers -> 0..(Timeout + Lag)])'
    <3>1. PICK to \in Points : pc' = [pc EXCEPT ![t] = to]
      BY <1>6 DEF TimerStep, Test, Clear, Read, Free, Calloc, Reset, Step
    <3>2. left' = left \/ left' = [left EXCEPT ![t] = 0]
      BY <1>6 DEF TimerStep, Test, Clear, Read, Free, Calloc, Reset
    <3>3. pc' \in [Timers -> Points]
      BY <3>1
    <3>4. left' \in [Timers -> 0..(Timeout + Lag)]
      BY SMTT(60), <3>2
    <3> QED
      BY <3>3, <3>4
  <2>3. handled' \in Seq(Fragments) /\ text' \in [Timers -> Fragments]
        /\ gateway_rcol' \in Fragments
    <3>1. <<>> \in Fragments /\ text[t] \in Fragments /\ Bytes \in Fragments
      BY BytesTyped DEF Fragments
    <3>2. \/ UNCHANGED <<handled, text, gateway_rcol>>
          \/ handled' = handled /\ UNCHANGED gateway_rcol
             /\ text' = [text EXCEPT ![t] = Bytes]
          \/ handled' = Append(handled, text[t]) /\ gateway_rcol' = <<>>
             /\ text' = [text EXCEPT ![t] = <<>>]
      BY <1>6 DEF TimerStep, Test, Clear, Read, Free, Calloc, Reset
    <3>4. text' \in [Timers -> Fragments] /\ gateway_rcol' \in Fragments
      BY <3>1, <3>2
    <3>5. Append(handled, text[t]) \in Seq(Fragments)
      BY <3>1
    <3> QED
      BY <3>2, <3>4, <3>5
  <2>4. new_chunk' \in BOOLEAN
    <3>1. new_chunk' = new_chunk \/ new_chunk' = FALSE
      BY <1>6, Zenon DEF TimerStep, Test, Clear, Read, Free, Calloc, Reset
    <3> QED
      BY <3>1, Zenon
  <2>5. data' \in Blocks
    BY <1>6 DEF TimerStep, Test, Clear, Read, Free, Calloc, Reset
  <2>6. link' \in Places /\ broken' \in BOOLEAN
    <3>1. link \in Places /\ broken \in BOOLEAN
      OBVIOUS
    <3>2. \/ UNCHANGED <<link, broken>>
          \/ Uses(~Sound)
          \/ Uses(data = "freed")
      BY <1>6, Zenon DEF TimerStep, Test, Clear, Read, Free, Calloc, Reset
    <3>3. CASE UNCHANGED <<link, broken>>
      <4>1. link' = link /\ broken' = broken
        BY <3>3
      <4> QED
        BY ONLY <3>1, <4>1, Zenon
    <3>4. CASE Uses(~Sound)
      BY ONLY <3>1, <3>4, UsesTyped
    <3>5. CASE Uses(data = "freed")
      BY ONLY <3>1, <3>5, UsesTyped
    <3> QED
      BY <3>2, <3>3, <3>4, <3>5
  <2> QED
    BY <2>1, <2>2, <2>3, <2>4, <2>5, <2>6
<1>7. CASE Finished \/ UNCHANGED vars
  <2>1. UNCHANGED vars
    BY <1>7 DEF Finished
  <2>2. /\ UNCHANGED <<sent, fragments, age, rest, link, returning, new_chunk, gateway_rcol>>
        /\ UNCHANGED <<data, received_message, pc, left, text, handled, cut, broken>>
    BY <2>1 DEF vars, network, chunk, timers
  <2>3. Size(Last)' = Size(Last)
    BY <2>2 DEF Last, Size
  <2>4. returning' \in BOOLEAN /\ new_chunk' \in BOOLEAN /\ broken' \in BOOLEAN
    BY <2>2
  <2>5. fragments' \in 0..(IF sent' = <<>> THEN 0 ELSE Size(Last'))
    BY <2>2, <2>3
  <2> QED
    BY <2>2, <2>4, <2>5
<1> QED
  BY <1>1, <1>2, <1>3, <1>4, <1>5, <1>6, <1>7, <1>8 DEF Next

\* Every variable keeps its type, whatever the pace.
THEOREM ChunksTypes == Spec => []TypeOK
<1>1. Typed => TypeOK
  BY DEF Typed
<1> QED
  BY <1>1, TypedInit, TypedNext, PTL DEF Spec

----------------------------------------------------------------------------
(* The inductive invariant of a well-spaced connection. *)

\* Timers: how late each one can still be, and that a chunk with new_chunk set is
\* watched by one that was started with its last fragment.
Alive(t) == pc[t] # "gone"
Watched == \E t \in Timers : pc[t] \in {"sleep", "clear"} /\ left[t] + rest <= Longest
ClockInv ==
    /\ \A t \in Timers : Alive(t) => left[t] + rest <= Latest
    /\ new_chunk => returning \/ Watched

\* While a message is received its timers sleep, and all timers are its own.
ReceivingInv ==
    ~Between => /\ link = "up"
                /\ \A t \in Timers : Alive(t) => pc[t] = "sleep" /\ left[t] + age >= Longest
                /\ new_chunk /\ gateway_rcol = Part(Len(sent), fragments) /\ data = "all"

\* The texts there may be: nothing, a whole message, the beginning of one that the
\* connection was lost in, or any bytes once memory has been used out of turn.
SaneOf(s, messages, lost) ==
    \/ s = <<>>
    \/ \E n \in 1..Len(messages) : s = Part(n, Size(messages[n]))
    \/ \E n \in lost : \E k \in 1..Size(messages[n]) : s = Part(n, k)
AnyBytesOf(s, misused) == misused /\ \A i \in DOMAIN s : s[i] = <<0, 0>>
Sane(s) == SaneOf(s, sent, cut)
AnyBytes(s) == AnyBytesOf(s, broken)

\* A chunk that is not being received is sane, and is emptied by a timer: one that
\* will look at it, or one that already does.  So is a freed block replaced.
Handing(t) == pc[t] \in {"read", "free", "calloc", "reset"}
ChunkInv ==
    /\ Between => /\ Sane(gateway_rcol)
                  /\ gateway_rcol # <<>> => new_chunk \/ \E t \in Timers : Handing(t)
    /\ received_message # <<>> => returning /\ ~new_chunk /\ Between
    /\ Sane(received_message)
    /\ \A t \in Timers : Sane(text[t]) \/ AnyBytes(text[t])
    /\ \A k \in 1..Len(handled) : Sane(handled[k]) \/ AnyBytes(handled[k])
    /\ data = "freed" => \E t \in Timers : pc[t] = "calloc"

\* Messages that end in a short fragment, on connections that are not lost: no
\* timer gets past its test, and memory is not misused.
Calm == cut = {} /\ \A n \in 1..Len(sent) : sent[n].short
CalmInv ==
    Calm => /\ ~broken /\ (new_chunk => ~Between)
            /\ \A t \in Timers : pc[t] \in {"gone", "sleep"}

SpacedInv == ClockInv /\ ReceivingInv /\ ChunkInv /\ CalmInv

\* When the next message may come, every timer is gone and nothing is left.
LEMMA Quieted ==
    ASSUME Spaced, Typed, SpacedInv, Between, rest = Quiet, ~returning
    PROVE  /\ \A t \in Timers : pc[t] = "gone"
           /\ ~new_chunk /\ gateway_rcol = <<>> /\ received_message = <<>>
           /\ data # "freed"
<1>1. ASSUME NEW t \in Timers, Alive(t) PROVE FALSE
  <2>1. left[t] \in Nat /\ left[t] + rest <= Latest
    BY <1>1, ChunksAssumption DEF Typed, TypeOK, SpacedInv, ClockInv, Timeout
  <2> QED
    BY <2>1, ChunksAssumption DEF Spaced, Latest, Longest, Timeout
<1>2. ~new_chunk
  BY <1>1 DEF SpacedInv, ClockInv, Watched, Alive
<1> QED
  BY <1>1, <1>2 DEF SpacedInv, ChunkInv, Alive, Handing

LEMMA SpacedInit == Init => SpacedInv
BY DEF Init, SpacedInv, ClockInv, ReceivingInv, ChunkInv, CalmInv, Between, Sane, SaneOf,
       Alive

\* The callback for a fragment of message n that has k fragments so far, when the
\* chunk is theirs: no memory is misused.
LEMMA Taken ==
    ASSUME NEW n \in Nat, NEW k \in Nat, NEW full, Typed,
           gateway_rcol = Part(n, k), new_chunk <=> k > 0, Sound, data # "freed",
           received_message = <<>>, TakeFragment(<<n, k + 1>>, full)
    PROVE  /\ full => /\ new_chunk' /\ gateway_rcol' = Part(n, k + 1) /\ data' = "all"
                      /\ received_message' = <<>>
           /\ ~full => /\ ~new_chunk' /\ gateway_rcol' = <<>> /\ data' # "freed"
                       /\ received_message' = Part(n, k + 1)
           /\ UNCHANGED <<link, broken>>
<1>1. Append(gateway_rcol, <<n, k + 1>>) = Part(n, k + 1) /\ Bytes = gateway_rcol
  BY Parts, BytesTyped
<1>2. ~new_chunk => <<>> = Part(n, k) /\ <<<<n, k + 1>>>> = Part(n, k + 1)
  BY Parts
<1>3. full => /\ new_chunk' /\ gateway_rcol' = Part(n, k + 1) /\ data' = "all"
              /\ received_message' = <<>>
  BY <1>1 DEF TakeFragment
<1>4. ~full /\ new_chunk
        => /\ ~new_chunk' /\ gateway_rcol' = <<>> /\ data' # "freed"
           /\ received_message' = Part(n, k + 1)
  BY <1>1 DEF TakeFragment, EmptyBlock
<1>5. ~full /\ ~new_chunk
        => /\ ~new_chunk' /\ gateway_rcol' = <<>> /\ data' # "freed"
           /\ received_message' = Part(n, k + 1)
  BY <1>2 DEF TakeFragment
<1>6. UNCHANGED <<link, broken>>
  <2>1. broken \in BOOLEAN /\ ~(~Sound \/ data = "freed")
    BY Zenon DEF Typed, TypeOK
  <2>2. Uses(~Sound \/ data = "freed") \/ UNCHANGED <<link, broken>>
    BY Zenon DEF TakeFragment
  <2>3. CASE Uses(~Sound \/ data = "freed")
    BY ONLY <2>1, <2>3, UsesWell
  <2> QED
    BY <2>2, <2>3
<1> QED
  BY <1>3, <1>4, <1>5, <1>6

\* What was sane stays sane: messages begun stay, and lost ones stay lost.
LEMMA SaneStays ==
    ASSUME Typed, UNCHANGED sent \/ \E x \in Shapes : sent' = Append(sent, x),
           cut \subseteq cut', broken => broken'
    PROVE  \A s : (Sane(s) => Sane(s)') /\ (AnyBytes(s) => AnyBytes(s)')
<1>1. /\ sent \in Seq(Shapes) /\ cut \subseteq 1..Len(sent)
      /\ \A x \in Shapes : Len(Append(sent, x)) = Len(sent) + 1
                          /\ \A n \in 1..Len(sent) : Append(sent, x)[n] = sent[n]
  BY DEF Typed, TypeOK
<1>2. Len(sent) \in Nat /\ 1..Len(sent) \subseteq 1..Len(sent')
      /\ \A n \in 1..Len(sent) : sent'[n] = sent[n]
  BY <1>1
<1> SUFFICES ASSUME NEW s PROVE (Sane(s) => Sane(s)') /\ (AnyBytes(s) => AnyBytes(s)')
  OBVIOUS
<1>3. Sane(s) => Sane(s)'
  BY <1>1, <1>2, Zenon DEF Sane, SaneOf
<1>4. AnyBytes(s) => AnyBytes(s)'
  BY Zenon DEF AnyBytes, AnyBytesOf
<1> QED
  BY <1>3, <1>4

\* What the first fragment of a message leaves in the chunk or the mailbox.
LEMMA BeginTakes ==
    ASSUME Spaced, Typed, SpacedInv, NEW x \in Shapes, Begin(x)
    PROVE  /\ x.full > 0 => /\ new_chunk' /\ gateway_rcol' = Part(Len(sent) + 1, 1)
                            /\ received_message' = <<>> /\ data' = "all"
           /\ ~(x.full > 0) => /\ ~new_chunk' /\ gateway_rcol' = <<>>
                               /\ received_message' = Part(Len(sent) + 1, 1)
           /\ data' # "freed" /\ UNCHANGED <<link, broken>>
<1> DEFINE n == Len(sent) + 1
<1>1. Between /\ rest = Quiet /\ ~returning /\ TakeFragment(<<n, 1>>, x.full > 0)
  BY DEF Begin, Receive
<1>2. ~new_chunk /\ gateway_rcol = <<>> /\ received_message = <<>> /\ Sound
      /\ data # "freed"
  BY <1>1, Quieted DEF Sound
<1>3. n \in Nat
  BY DEF Typed, TypeOK
<1>4. gateway_rcol = Part(n, 0) /\ 0 + 1 = 1 /\ ~(0 > 0)
  BY <1>2, <1>3, Parts
<1>5. TakeFragment(<<n, 0 + 1>>, x.full > 0)
  BY <1>1, <1>4
<1> HIDE DEF n
<1>6. n \in Nat /\ 0 \in Nat /\ gateway_rcol = Part(n, 0) /\ (new_chunk <=> 0 > 0)
  BY <1>2, <1>3, <1>4
<1>7. /\ x.full > 0 => /\ new_chunk' /\ gateway_rcol' = Part(n, 0 + 1) /\ data' = "all"
                       /\ received_message' = <<>>
      /\ ~(x.full > 0) => /\ ~new_chunk' /\ gateway_rcol' = <<>> /\ data' # "freed"
                          /\ received_message' = Part(n, 0 + 1)
      /\ UNCHANGED <<link, broken>>
  BY ONLY Typed, <1>2, <1>5, <1>6, Taken
<1> QED
  BY <1>4, <1>7 DEF n

LEMMA SpacedBegin ==
    ASSUME Spaced, Typed, SpacedInv, NEW x \in Shapes, Begin(x) PROVE SpacedInv'
<1> DEFINE n == Len(sent) + 1
<1>1. Between /\ rest = Quiet /\ ~returning /\ fragments' = 1 /\ returning'
      /\ sent' = Append(sent, x) /\ UNCHANGED <<pc, left, text, handled, cut>>
      /\ link = "up"
  BY DEF Begin, Receive
<1>2. (\A t \in Timers : pc[t] = "gone") /\ ~new_chunk
  BY <1>1, Quieted
<1>3. n \in Nat /\ sent \in Seq(Shapes) /\ n > 0
  BY DEF Typed, TypeOK
<1>4. /\ x.full > 0 => /\ new_chunk' /\ gateway_rcol' = Part(n, 1)
                       /\ received_message' = <<>> /\ data' = "all"
      /\ ~(x.full > 0) => /\ ~new_chunk' /\ gateway_rcol' = <<>>
                          /\ received_message' = Part(n, 1)
      /\ data' # "freed" /\ link' = link /\ broken' = broken
  BY BeginTakes
<1>5. Last' = x /\ Len(sent') = n /\ sent' # <<>> /\ sent'[n] = x
      /\ \A m \in 1..Len(sent) : sent'[m] = sent[m]
  BY <1>1, <1>3 DEF Last
<1>6. Size(x) \in Nat \ {0} /\ x.full \in Nat /\ (x.full = 0 => Size(x) = 1)
      /\ (x.short /\ x.full > 0 => Size(x) > 1)
  BY Sizes, ChunksAssumption DEF Size
<1>7. Between' <=> Size(x) = 1
  BY <1>1, <1>5, <1>6 DEF Between, Size
<1>8. (\A s : (Sane(s) => Sane(s)') /\ (AnyBytes(s) => AnyBytes(s)'))
      /\ SaneOf(<<>>, sent', cut') /\ SaneOf(Part(n, Size(x)), sent', cut')
  <2>1. \A s : (Sane(s) => Sane(s)') /\ (AnyBytes(s) => AnyBytes(s)')
    BY <1>1, <1>4, SaneStays
  <2>2. n \in 1..Len(sent') /\ Size(sent'[n]) = Size(x)
    BY <1>3, <1>5
  <2> QED
    BY <2>1, <2>2, Zenon DEF SaneOf
<1>9. ClockInv'
  BY <1>1, <1>2 DEF ClockInv, Alive
<1>10. ReceivingInv'
  BY <1>1, <1>2, <1>4, <1>5, <1>6, <1>7 DEF ReceivingInv, Alive
<1>11. ChunkInv'
  <2>1. (\A t \in Timers : Sane(text[t]) \/ AnyBytes(text[t]))'
        /\ (\A k \in 1..Len(handled) : Sane(handled[k]) \/ AnyBytes(handled[k]))'
    BY <1>1, <1>4, <1>8 DEF SpacedInv, ChunkInv, Sane, AnyBytes
  <2>2. Sane(received_message)'
    BY <1>4, <1>6, <1>8 DEF Sane
  <2>3. Between' => Sane(gateway_rcol)' /\ (gateway_rcol' # <<>> => new_chunk')
    BY <1>4, <1>7, <1>8 DEF Sane
  <2>4. received_message' # <<>> => returning' /\ ~new_chunk' /\ Between'
    BY <1>1, <1>4, <1>6, <1>7
  <2> QED
    BY <1>4, <2>1, <2>2, <2>3, <2>4 DEF ChunkInv
<1>12. CalmInv'
  <2>1. Calm' => Calm /\ x.short
    <3>1. n \in 1..n /\ 1..Len(sent) \subseteq 1..n
      BY <1>3
    <3> QED
      BY <1>1, <1>5, <3>1 DEF Calm
  <2>2. x.short => (new_chunk' => ~Between')
    BY <1>4, <1>6, <1>7
  <2> QED
    BY <1>1, <1>2, <1>4, <2>1, <2>2 DEF SpacedInv, CalmInv
<1> QED
  BY <1>9, <1>10, <1>11, <1>12 DEF SpacedInv

\* What another fragment leaves there.
LEMMA ContinueTakes ==
    ASSUME Spaced, Typed, SpacedInv, Continue
    PROVE  /\ fragments < Last.full
                => /\ new_chunk' /\ gateway_rcol' = Part(Len(sent), fragments + 1)
                   /\ received_message' = <<>> /\ data' = "all"
           /\ ~(fragments < Last.full)
                => /\ ~new_chunk' /\ gateway_rcol' = <<>>
                   /\ received_message' = Part(Len(sent), fragments + 1)
           /\ data' # "freed" /\ UNCHANGED <<link, broken>>
<1> DEFINE n == Len(sent)
<1>1. ~Between /\ ~returning /\ TakeFragment(<<n, fragments + 1>>, fragments < Last.full)
  BY DEF Continue, Receive
<1>2. received_message = <<>> /\ new_chunk /\ gateway_rcol = Part(n, fragments)
      /\ Sound /\ data # "freed"
  BY <1>1 DEF SpacedInv, ChunkInv, ReceivingInv, Sound
<1>3. n \in Nat /\ fragments \in Nat \ {0}
  BY <1>1 DEF Typed, TypeOK, Between
<1> HIDE DEF n
<1>4. fragments \in Nat /\ (new_chunk <=> fragments > 0)
  BY <1>2, <1>3
<1>5. /\ fragments < Last.full => /\ new_chunk' /\ gateway_rcol' = Part(n, fragments + 1)
                                  /\ data' = "all" /\ received_message' = <<>>
      /\ ~(fragments < Last.full) => /\ ~new_chunk' /\ gateway_rcol' = <<>>
                                     /\ data' # "freed"
                                     /\ received_message' = Part(n, fragments + 1)
      /\ UNCHANGED <<link, broken>>
  BY ONLY Typed, <1>1, <1>2, <1>3, <1>4, Taken
<1> QED
  BY <1>5 DEF n

LEMMA SpacedContinue ==
    ASSUME Spaced, Typed, SpacedInv, Continue PROVE SpacedInv'
<1> DEFINE n == Len(sent)
<1>1. ~Between /\ ~returning /\ fragments' = fragments + 1 /\ rest' = 0 /\ returning'
      /\ UNCHANGED <<sent, age, pc, left, text, handled, cut>> /\ link = "up"
  BY DEF Continue, Receive
<1>2. \A t \in Timers : Alive(t) => pc[t] = "sleep" /\ left[t] + age >= Longest
  BY <1>1 DEF SpacedInv, ReceivingInv
<1>3. sent # <<>> /\ n \in Nat /\ n > 0 /\ Last \in Shapes /\ fragments \in Nat \ {0}
      /\ fragments < Size(Last)
  BY <1>1, Sizes DEF Typed, TypeOK, Between, Last
<1>4. /\ fragments < Last.full => /\ new_chunk' /\ gateway_rcol' = Part(n, fragments + 1)
                                  /\ received_message' = <<>> /\ data' = "all"
      /\ ~(fragments < Last.full) => /\ ~new_chunk' /\ gateway_rcol' = <<>>
                                     /\ received_message' = Part(n, fragments + 1)
      /\ data' # "freed" /\ link' = link /\ broken' = broken
  BY ContinueTakes
<1>5. Last' = Last /\ Size(Last)' = Size(Last) /\ Size(Last) \in Nat
      /\ Last.full \in Nat /\ Size(Last) <= Last.full + 1
      /\ (Last.short => Size(Last) = Last.full + 1)
  BY <1>1, <1>3, Sizes, ChunksAssumption DEF Last, Size
<1>6. Between' <=> fragments + 1 = Size(Last)
  BY <1>1, <1>3, <1>5 DEF Between
<1>7. (\A s : (Sane(s) => Sane(s)') /\ (AnyBytes(s) => AnyBytes(s)'))
      /\ SaneOf(<<>>, sent', cut') /\ SaneOf(Part(n, Size(Last)), sent', cut')
  <2>1. \A s : (Sane(s) => Sane(s)') /\ (AnyBytes(s) => AnyBytes(s)')
    BY <1>1, <1>4, SaneStays
  <2>2. n \in 1..Len(sent') /\ sent'[n] = Last
    BY <1>1, <1>3 DEF Last
  <2> QED
    BY <2>1, <2>2, Zenon DEF SaneOf
<1>8. ClockInv'
  <2>1. \A t \in Timers : left[t] \in Nat /\ rest \in Nat /\ rest' <= rest
    BY <1>1, ChunksAssumption DEF Typed, TypeOK, Timeout
  <2>2. Longest \in Nat /\ Latest \in Nat
    BY ChunksAssumption DEF Latest, Longest, Timeout
  <2> QED
    BY <1>1, <2>1, <2>2 DEF SpacedInv, ClockInv, Alive
<1>9. ReceivingInv'
  BY <1>1, <1>2, <1>3, <1>4, <1>5, <1>6 DEF ReceivingInv, Alive
<1>10. ChunkInv'
  <2>1. (\A t \in Timers : Sane(text[t]) \/ AnyBytes(text[t]))'
        /\ (\A k \in 1..Len(handled) : Sane(handled[k]) \/ AnyBytes(handled[k]))'
    BY <1>1, <1>4, <1>7 DEF SpacedInv, ChunkInv, Sane, AnyBytes
  <2>2. Sane(received_message)'
    BY <1>3, <1>4, <1>5, <1>7 DEF Sane
  <2>3. Between' => Sane(gateway_rcol)' /\ (gateway_rcol' # <<>> => new_chunk')
    BY <1>4, <1>6, <1>7 DEF Sane
  <2>4. received_message' # <<>> => returning' /\ ~new_chunk' /\ Between'
    BY <1>1, <1>3, <1>4, <1>5, <1>6
  <2> QED
    BY <1>4, <2>1, <2>2, <2>3, <2>4 DEF ChunkInv
<1>11. CalmInv'
  <2>1. Calm' => Calm /\ Last.short
    BY <1>1, <1>3 DEF Calm, Last
  <2>2. Last.short => (new_chunk' => ~Between')
    BY <1>3, <1>4, <1>5, <1>6
  <2> QED
    BY <1>1, <1>4, <2>1, <2>2 DEF SpacedInv, CalmInv
<1> QED
  BY <1>8, <1>9, <1>10, <1>11 DEF SpacedInv

LEMMA SpacedReturn ==
    ASSUME Spaced, Typed, SpacedInv, ServiceReturn PROVE SpacedInv'
<1> USE ChunksAssumption DEF Latest, Longest, Timeout
<1>1. UNCHANGED <<sent, fragments, age, rest, new_chunk, gateway_rcol, link, data, cut,
                  broken>>
      /\ received_message' = <<>> /\ StartTimer /\ Dispatch
      /\ (returning \/ (Spurious /\ new_chunk))
  BY DEF ServiceReturn, Dispatch
<1>2. (Between' <=> Between) /\ (Calm' <=> Calm)
      /\ SaneOf(<<>>, sent', cut') /\ sent' = sent /\ cut' = cut /\ broken' = broken
  BY <1>1 DEF Between, Size, Last, Calm, SaneOf
<1>3. rest \in Nat /\ (returning => rest = 0) /\ age \in Nat
      /\ \A t \in Timers : left[t] \in 0..Longest
  BY DEF Typed, TypeOK
<1>4. new_chunk => rest + Longest <= Latest
  <2>1. CASE returning
    BY <1>3, <2>1
  <2>2. CASE ~returning /\ new_chunk
    <3>1. PICK t \in Timers : left[t] + rest <= Longest
      BY <2>2 DEF SpacedInv, ClockInv, Watched
    <3>2. Spurious /\ rest <= Longest
      BY <1>1, <1>3, <2>2, <3>1
    <3> QED
      BY <1>3, <3>2
  <2> QED
    BY <2>1, <2>2
<1>5. text' = text
      /\ \A t \in Timers : pc'[t] = pc[t] \/ (pc[t] = "gone" /\ pc'[t] = "sleep")
  BY <1>1 DEF StartTimer, Typed, TypeOK
<1>6. (\A k \in 1..Len(handled) : Sane(handled[k]) \/ AnyBytes(handled[k]))'
  <2>1. handled \in Seq(Fragments)
    BY DEF Typed
  <2>2. \/ handled' = handled
        \/ handled' = Append(handled, received_message)
    BY <1>1 DEF Dispatch
  <2>3. \A k \in 1..Len(handled') : handled'[k] = received_message
          \/ (k \in 1..Len(handled) /\ handled'[k] = handled[k])
    BY <2>1, <2>2
  <2>4. Sane(received_message)
        /\ \A k \in 1..Len(handled) : Sane(handled[k]) \/ AnyBytes(handled[k])
    BY DEF SpacedInv, ChunkInv
  <2> QED
    BY <1>2, <2>3, <2>4, Zenon DEF Sane, AnyBytes
<1>7. ChunkInv'
  <2>1. (\A t \in Timers : Sane(text[t]) \/ AnyBytes(text[t]))'
        /\ Sane(received_message)' /\ (Between' => Sane(gateway_rcol)')
    BY <1>1, <1>2, <1>5 DEF SpacedInv, ChunkInv, Sane, AnyBytes
  <2>2. (\A t \in Timers : Handing(t) => Handing(t)')
        /\ \A t \in Timers : pc[t] = "calloc" => pc'[t] = "calloc"
    BY <1>5 DEF Handing
  <2>3. (data = "freed" => \E t \in Timers : pc[t] = "calloc")'
        /\ (Between => (gateway_rcol # <<>> => new_chunk \/ \E t \in Timers : Handing(t)))'
    BY <1>1, <1>2, <2>2 DEF SpacedInv, ChunkInv
  <2> QED
    BY <1>1, <1>6, <2>1, <2>3 DEF ChunkInv
<1>10. CalmInv'
  <2>1. Calm => /\ ~broken /\ (new_chunk => ~Between)
                /\ \A t \in Timers : pc[t] \in {"gone", "sleep"}
    BY DEF SpacedInv, CalmInv
  <2> QED
    BY <1>1, <1>2, <1>5, <2>1 DEF CalmInv
<1>8. CASE ~new_chunk
  <2>1. UNCHANGED timers
    BY <1>1, <1>8 DEF StartTimer
  <2> QED
    BY <1>1, <1>2, <1>7, <1>8, <1>10, <2>1
       DEF SpacedInv, ClockInv, ReceivingInv, Alive, Watched
<1>9. CASE new_chunk
  <2>1. PICK t \in Timers : /\ pc[t] = "gone" /\ pc' = [pc EXCEPT ![t] = "sleep"]
                           /\ left' = [left EXCEPT ![t] = Longest]
    BY <1>1, <1>9 DEF StartTimer, SleepTime
  <2>2. /\ pc'[t] = "sleep" /\ left'[t] = Longest
        /\ \A u \in Timers \ {t} : pc'[u] = pc[u] /\ left'[u] = left[u]
    BY <2>1 DEF Typed, TypeOK
  <2>3. \A u \in Timers : Alive(u)' => left'[u] + rest' <= Latest
    BY <1>1, <1>3, <1>4, <1>9, <2>2 DEF SpacedInv, ClockInv, Alive
  <2>4. Watched'
    <3>1. CASE returning
      BY <1>1, <1>3, <2>2, <3>1 DEF Watched
    <3>2. CASE ~returning
      <4>1. PICK u \in Timers : pc[u] \in {"sleep", "clear"} /\ left[u] + rest <= Longest
        BY <1>9, <3>2 DEF SpacedInv, ClockInv, Watched
      <4> QED
        BY <1>1, <2>1, <2>2, <4>1 DEF Watched
    <3> QED
      BY <3>1, <3>2
  <2>5. ReceivingInv'
    BY <1>1, <1>2, <1>3, <2>2 DEF SpacedInv, ReceivingInv, Alive
  <2> QED
    BY <1>7, <1>10, <2>3, <2>4, <2>5 DEF SpacedInv, ClockInv
<1> QED
  BY <1>8, <1>9

LEMMA SpacedCut ==
    ASSUME Spaced, Typed, SpacedInv, Cut PROVE SpacedInv'
<1> DEFINE n == Len(sent)
<1>1. ~returning /\ fragments' = Size(Last) /\ cut' = cut \cup {n} /\ sent # <<>>
      /\ UNCHANGED <<sent, rest, returning, new_chunk, gateway_rcol, data,
                     received_message, pc, left, text, handled, broken>>
  BY DEF Cut
<1>2. Between' /\ ~Calm'
  BY <1>1 DEF Between, Last, Size, Calm
<1>3. received_message = <<>>
  BY <1>1 DEF SpacedInv, ChunkInv
<1>4. (\A s : (Sane(s) => Sane(s)') /\ (AnyBytes(s) => AnyBytes(s)'))
  BY <1>1, SaneStays
<1>5. Sane(gateway_rcol)' /\ (gateway_rcol # <<>> => new_chunk \/ \E t \in Timers : Handing(t))
  <2>1. CASE Between
    <3>1. Sane(gateway_rcol) /\ (gateway_rcol # <<>> => new_chunk \/ \E t \in Timers : Handing(t))
      BY <2>1 DEF SpacedInv, ChunkInv
    <3> QED
      BY <1>1, <1>4, <3>1 DEF Sane
  <2>2. CASE ~Between
    <3>1. gateway_rcol = Part(n, fragments) /\ new_chunk
      BY <2>2 DEF SpacedInv, ReceivingInv
    <3>2. fragments \in 1..Size(Last) /\ Last = sent[n]
      BY <1>1, <2>2, Sizes DEF Typed, TypeOK, Last
    <3>3. n \in cut' /\ fragments \in 1..Size(sent'[n])
      BY <1>1, <3>2
    <3> QED
      BY <1>1, <3>1, <3>3 DEF Sane, SaneOf
  <2> QED
    BY <2>1, <2>2
<1>6. ChunkInv'
  <2>1. (\A t \in Timers : Sane(text[t]) \/ AnyBytes(text[t]))'
        /\ (\A k \in 1..Len(handled) : Sane(handled[k]) \/ AnyBytes(handled[k]))'
        /\ Sane(received_message)'
    BY <1>1, <1>4 DEF SpacedInv, ChunkInv, Sane, AnyBytes
  <2>2. (\A t \in Timers : Handing(t)' <=> Handing(t))
        /\ (data = "freed" => \E t \in Timers : pc[t] = "calloc")'
    BY <1>1 DEF Handing, SpacedInv, ChunkInv
  <2> QED
    BY <1>1, <1>3, <1>5, <2>1, <2>2 DEF ChunkInv
<1>7. ClockInv'
  BY <1>1 DEF SpacedInv, ClockInv, Alive, Watched
<1>8. ReceivingInv' /\ CalmInv'
  BY <1>2 DEF ReceivingInv, CalmInv
<1> QED
  BY <1>6, <1>7, <1>8 DEF SpacedInv

\* Closing, ending and dialling again happen when nothing is received.
LEMMA SpacedLost ==
    ASSUME Spaced, Typed, SpacedInv, Close \/ End \/ Redial \/ Zero PROVE SpacedInv'
<1> USE ChunksAssumption DEF Latest, Longest, Timeout
<1>1. UNCHANGED <<sent, fragments, new_chunk, pc, left, text, handled, cut, broken>>
      /\ link # "up"
  BY DEF Close, End, Redial, Zero
<1>2. Between /\ Between' /\ (Calm' <=> Calm)
  BY <1>1 DEF SpacedInv, ReceivingInv, Between, Last, Size, Calm
<1>3. (received_message' = <<>> \/ received_message' = received_message)
      /\ (gateway_rcol' = <<>> \/ gateway_rcol' = gateway_rcol)
      /\ (data' = "null" \/ data' = data)
      /\ (returning' \/ returning' = returning)
      /\ (rest' = rest \/ (rest' = 0 /\ returning'))
  BY DEF Close, End, Redial, Zero
<1>4. Sane(<<>>) /\ (\A t \in Timers : Handing(t)' <=> Handing(t))
      /\ (Sane(<<>>)' <=> Sane(<<>>))
  BY <1>1 DEF Sane, SaneOf, Handing
<1>5. ChunkInv'
  <2>1. (\A t \in Timers : Sane(text[t]) \/ AnyBytes(text[t]))'
        /\ (\A k \in 1..Len(handled) : Sane(handled[k]) \/ AnyBytes(handled[k]))'
        /\ Sane(received_message)' /\ Sane(gateway_rcol)'
    BY <1>1, <1>2, <1>3, <1>4 DEF SpacedInv, ChunkInv, Sane, AnyBytes
  <2> QED
    BY <1>1, <1>2, <1>3, <1>4, <2>1 DEF SpacedInv, ChunkInv
<1>6. ClockInv'
  <2>1. rest \in Nat /\ \A t \in Timers : left[t] \in Nat
    BY DEF Typed, TypeOK
  <2> QED
    BY <1>1, <1>3, <2>1 DEF SpacedInv, ClockInv, Alive, Watched
<1>7. ReceivingInv' /\ CalmInv'
  BY <1>1, <1>2 DEF SpacedInv, ReceivingInv, CalmInv
<1> QED
  BY <1>5, <1>6, <1>7 DEF SpacedInv

LEMMA SpacedTick ==
    ASSUME Spaced, Typed, SpacedInv, Tick PROVE SpacedInv'
<1> USE ChunksAssumption DEF Latest, Longest, Timeout
<1>1. ~returning /\ age' = (IF Between THEN 0 ELSE age + 1)
      /\ rest' = (IF rest < Quiet THEN rest + 1 ELSE rest)
      /\ UNCHANGED <<sent, fragments, returning, new_chunk, gateway_rcol, data, link,
                     received_message, pc, text, handled, cut, broken>>
  BY DEF Tick
<1>2. rest \in Nat /\ age \in Nat /\ \A t \in Timers : left[t] \in Nat
  BY DEF Typed, TypeOK
<1>3. (Between' <=> Between) /\ (Calm' <=> Calm)
  BY <1>1 DEF Between, Size, Last, Calm
<1>4. \A t \in Timers : pc[t] # "gone" => left'[t] = left[t] - 1
  BY DEF Tick
<1>5. ClockInv'
  <2>1. \A t \in Timers : Alive(t)' => left'[t] + rest' <= Latest
    BY <1>1, <1>2, <1>4 DEF SpacedInv, ClockInv, Alive
  <2>2. Watched => Watched'
    BY <1>1, <1>2, <1>4 DEF Watched
  <2> QED
    BY <1>1, <2>1, <2>2 DEF SpacedInv, ClockInv
<1>6. ReceivingInv'
  BY SMTT(60), <1>1, <1>2, <1>3, <1>4 DEF SpacedInv, ReceivingInv, Alive
<1>7. ChunkInv' /\ CalmInv'
  BY <1>1, <1>3 DEF SpacedInv, ChunkInv, CalmInv, Sane, AnyBytes, Handing
<1> QED
  BY <1>5, <1>6, <1>7 DEF SpacedInv

\* A timer does not wake up while its message is received.
LEMMA AwakeBetween ==
    ASSUME Spaced, Typed, SpacedInv, NEW t \in Timers, Awake(t) PROVE Between
<1> SUFFICES ASSUME ~Between PROVE FALSE
  OBVIOUS
<1>1. left[t] + age >= Longest /\ left[t] <= Lag
  BY DEF Awake, Alive, SpacedInv, ReceivingInv
<1>2. left[t] \in Nat /\ age \in 0..Span
  BY ChunksAssumption DEF Typed, TypeOK, Timeout
<1> QED
  BY <1>1, <1>2, ChunksAssumption DEF Spaced, Longest, Timeout

\* What a timer's step leaves of the texts, when the others' are sane or any bytes.
LEMMA TimerTexts ==
    ASSUME Typed, SpacedInv, Between, NEW t \in Timers, TimerStep(t)
    PROVE  /\ (\A u \in Timers : Sane(text[u]) \/ AnyBytes(text[u]))'
           /\ (\A k \in 1..Len(handled) : Sane(handled[k]) \/ AnyBytes(handled[k]))'
           /\ Sane(received_message)' /\ Sane(gateway_rcol)'
<1>1. UNCHANGED <<sent, received_message, cut>>
  BY DEF TimerStep, Test, Clear, Read, Free, Calloc, Reset, Step
<1>2. broken => broken'
  <2>1. UNCHANGED broken \/ Uses(~Sound) \/ Uses(data = "freed")
    BY Zenon DEF TimerStep, Test, Clear, Read, Free, Calloc, Reset
  <2> QED
    BY <2>1, Zenon DEF Uses
<1>3. \A s : (Sane(s) => Sane(s)') /\ (AnyBytes(s) => AnyBytes(s)')
  BY <1>1, <1>2, SaneStays
<1>4. SaneOf(<<>>, sent', cut')
  BY DEF SaneOf
<1>5. gateway_rcol' = gateway_rcol \/ gateway_rcol' = <<>>
  BY DEF TimerStep, Test, Clear, Read, Free, Calloc, Reset
<1>6. /\ Sane(gateway_rcol) /\ Sane(received_message)
      /\ \A u \in Timers : Sane(text[u]) \/ AnyBytes(text[u])
      /\ \A k \in 1..Len(handled) : Sane(handled[k]) \/ AnyBytes(handled[k])
      /\ text \in [Timers -> Fragments] /\ handled \in Seq(Fragments)
  BY DEF SpacedInv, ChunkInv, Typed
<1>7. Sane(received_message)' /\ Sane(gateway_rcol)'
  BY <1>1, <1>3, <1>4, <1>5, <1>6 DEF Sane
<1>8. (\A u \in Timers : Sane(text[u]) \/ AnyBytes(text[u]))'
  <2>1. CASE Read(t)
    <3>1. text' = [text EXCEPT ![t] = Bytes] /\ Uses(~Sound)
      BY <2>1 DEF Read
    <3>2. \A u \in Timers : text'[u] = IF u = t THEN Bytes ELSE text[u]
      BY <1>6, <3>1
    <3>3. Sound => SaneOf(Bytes, sent', cut')
      BY <1>3, <1>6, BytesTyped DEF Sane
    <3>4. ~Sound => AnyBytesOf(Bytes, broken')
      BY <3>1 DEF Uses, Bytes, AnyBytesOf
    <3>5. \A u \in Timers : SaneOf(text[u], sent', cut') \/ AnyBytesOf(text[u], broken')
      BY <1>3, <1>6, Zenon DEF Sane, AnyBytes
    <3> QED
      BY <3>2, <3>3, <3>4, <3>5 DEF Sane, AnyBytes
  <2>2. CASE ~Read(t)
    <3>1. text' = text \/ text' = [text EXCEPT ![t] = <<>>]
      BY <2>2 DEF TimerStep, Test, Clear, Free, Calloc, Reset
    <3>2. \A u \in Timers : text'[u] = text[u] \/ text'[u] = <<>>
      BY <1>6, <3>1
    <3> QED
      BY <1>3, <1>4, <1>6, <3>2 DEF Sane, AnyBytes
  <2> QED
    BY <2>1, <2>2
<1>9. (\A k \in 1..Len(handled) : Sane(handled[k]) \/ AnyBytes(handled[k]))'
  <2>1. handled' = handled \/ handled' = Append(handled, text[t])
    BY DEF TimerStep, Test, Clear, Read, Free, Calloc, Reset
  <2>2. \A k \in 1..Len(handled') : handled'[k] = text[t]
          \/ (k \in 1..Len(handled) /\ handled'[k] = handled[k])
    BY <1>6, <2>1
  <2> QED
    BY <1>3, <1>6, <2>2, Zenon DEF Sane, AnyBytes
<1> QED
  BY <1>7, <1>8, <1>9

LEMMA SpacedTimer ==
    ASSUME Spaced, Typed, SpacedInv, NEW t \in Timers, TimerStep(t)
    PROVE  SpacedInv'
<1> USE ChunksAssumption DEF Latest, Longest, Timeout
<1>1. Awake(t) /\ UNCHANGED <<sent, fragments, age, rest, returning, received_message, cut>>
  BY DEF TimerStep, Test, Clear, Read, Free, Calloc, Reset, Step
<1>2. Between /\ Between' /\ (Calm' <=> Calm)
  <2>1. Between' <=> Between
    BY <1>1 DEF Between, Size, Last
  <2> QED
    BY <1>1, <2>1, AwakeBetween DEF Calm
<1>3. \A u \in Timers \ {t} : pc'[u] = pc[u] /\ left'[u] = left[u]
  BY SMTT(60) DEF TimerStep, Test, Clear, Read, Free, Calloc, Reset, Step, Typed, TypeOK
<1>4. ReceivingInv'
  BY <1>2 DEF ReceivingInv
<1>5. /\ (\A u \in Timers : Sane(text[u]) \/ AnyBytes(text[u]))'
      /\ (\A k \in 1..Len(handled) : Sane(handled[k]) \/ AnyBytes(handled[k]))'
      /\ Sane(received_message)' /\ Sane(gateway_rcol)'
  BY <1>2, TimerTexts
<1>6. (received_message # <<>> => returning /\ ~new_chunk /\ Between)'
  <2>1. new_chunk' => new_chunk
    BY Zenon DEF TimerStep, Test, Clear, Read, Free, Calloc, Reset
  <2> QED
    BY <1>1, <1>2, <2>1 DEF SpacedInv, ChunkInv
<1>7. CASE Test(t)
  <2>1. pc[t] = "sleep" /\ left' = left /\ UNCHANGED <<new_chunk, gateway_rcol, data, broken>>
        /\ (new_chunk => received_message = <<>>)
    BY <1>7 DEF Test, Step, SpacedInv, ChunkInv
  <2>2. (new_chunk => pc'[t] = "clear") /\ (~new_chunk => pc'[t] = "gone")
    <3>1. pc'[t] = IF new_chunk /\ received_message = <<>> THEN "clear" ELSE "gone"
      BY <1>7 DEF Test, Step, Typed, TypeOK
    <3> QED
      BY <2>1, <3>1
  <2>3. ClockInv'
    <3>1. \A u \in Timers : Alive(u)' => left'[u] + rest' <= Latest
      BY <1>1, <1>3, <2>1 DEF SpacedInv, ClockInv, Alive
    <3>2. new_chunk /\ Watched => Watched'
      BY <1>1, <1>3, <2>1, <2>2 DEF Watched
    <3> QED
      BY <1>1, <2>1, <3>1, <3>2 DEF SpacedInv, ClockInv
  <2>4. ChunkInv'
    <3>1. \A u \in Timers : (Handing(u) => Handing(u)') /\ (pc[u] = "calloc" => pc'[u] = "calloc")
      BY <1>3, <2>1 DEF Handing
    <3>2. (gateway_rcol' # <<>> => new_chunk' \/ \E u \in Timers : Handing(u)')
          /\ (data' = "freed" => \E u \in Timers : pc'[u] = "calloc")
      BY <1>2, <2>1, <3>1 DEF SpacedInv, ChunkInv
    <3> QED
      BY <1>2, <1>5, <1>6, <3>2 DEF ChunkInv
  <2>5. CalmInv'
    BY <1>2, <1>3, <2>1, <2>2 DEF SpacedInv, CalmInv
  <2> QED
    BY <1>4, <2>3, <2>4, <2>5 DEF SpacedInv
<1>8. ASSUME pc[t] \notin {"gone", "sleep"} PROVE ~Calm
  BY <1>8 DEF SpacedInv, CalmInv
<1>9. CASE Clear(t)
  <2>1. ~new_chunk' /\ pc[t] = "clear" /\ pc'[t] = "read"
        /\ UNCHANGED <<gateway_rcol, data, left>>
    BY <1>9 DEF Clear, Step, Typed, TypeOK
  <2>2. ClockInv'
    BY <1>1, <1>3, <2>1 DEF SpacedInv, ClockInv, Alive
  <2>3. ChunkInv'
    <3>1. Handing(t)' /\ \A u \in Timers : pc[u] = "calloc" => pc'[u] = "calloc"
      BY <1>3, <2>1 DEF Handing
    <3> QED
      BY <1>2, <1>5, <1>6, <2>1, <3>1 DEF SpacedInv, ChunkInv
  <2> QED
    BY <1>2, <1>4, <1>8, <2>1, <2>2, <2>3 DEF SpacedInv, CalmInv
<1>10. CASE Read(t) \/ Free(t) \/ Calloc(t)
  <2>1. Handing(t) /\ Handing(t)' /\ UNCHANGED <<new_chunk, gateway_rcol, left>>
        /\ pc[t] \in {"read", "free", "calloc"}
    BY <1>10 DEF Read, Free, Calloc, Step, Typed, TypeOK, Handing
  <2>2. ClockInv'
    <3>1. Watched => Watched'
      BY <1>1, <1>3, <2>1 DEF Watched
    <3> QED
      BY <1>1, <1>3, <2>1, <3>1 DEF SpacedInv, ClockInv, Alive
  <2>3. data' = "freed" => \E u \in Timers : pc'[u] = "calloc"
    <3>1. CASE Read(t)
      BY <1>3, <3>1 DEF Read, Step, SpacedInv, ChunkInv
    <3>2. CASE Free(t)
      BY <3>2 DEF Free, Step, Typed, TypeOK
    <3>3. CASE Calloc(t)
      BY <3>3 DEF Calloc
    <3> QED
      BY <1>10, <3>1, <3>2, <3>3
  <2>4. ChunkInv'
    BY <1>2, <1>5, <1>6, <2>1, <2>3 DEF ChunkInv
  <2> QED
    BY <1>2, <1>4, <1>8, <2>1, <2>2, <2>4 DEF SpacedInv, CalmInv
<1>11. CASE Reset(t)
  <2>1. pc[t] = "reset" /\ pc'[t] = "gone" /\ gateway_rcol' = <<>>
        /\ UNCHANGED <<new_chunk, data>>
    BY <1>11 DEF Reset, Step, Typed, TypeOK
  <2>2. ClockInv'
    <3>1. Watched => Watched'
      BY <1>1, <1>3, <2>1 DEF Watched
    <3> QED
      BY <1>1, <1>3, <2>1, <3>1 DEF SpacedInv, ClockInv, Alive
  <2>3. ChunkInv'
    <3>1. \A u \in Timers : pc[u] = "calloc" => pc'[u] = "calloc"
      BY <1>3, <2>1
    <3> QED
      BY <1>2, <1>5, <1>6, <2>1, <3>1 DEF SpacedInv, ChunkInv
  <2> QED
    BY <1>2, <1>4, <1>8, <2>1, <2>2, <2>3 DEF SpacedInv, CalmInv
<1> QED
  BY <1>7, <1>9, <1>10, <1>11 DEF TimerStep

LEMMA SpacedNext == Spaced /\ Typed /\ SpacedInv /\ [Next]_vars => SpacedInv'
<1> SUFFICES ASSUME Spaced, Typed, SpacedInv, [Next]_vars PROVE SpacedInv'
  OBVIOUS
<1>1. CASE Finished \/ UNCHANGED vars
  <2>1. UNCHANGED vars
    BY <1>1 DEF Finished
  <2>2. (Between' <=> Between) /\ (Calm' <=> Calm)
    BY <2>1 DEF vars, Between, Size, Last, Calm
  <2> QED
    BY <2>1, <2>2 DEF vars, SpacedInv, ClockInv, ReceivingInv, ChunkInv, CalmInv, Sane,
                      AnyBytes, Alive, Watched, Handing
<1> QED
  BY <1>1, SpacedBegin, SpacedContinue, SpacedReturn, SpacedCut, SpacedLost, SpacedTick,
     SpacedTimer DEF Next

LEMMA SpacedInductive == ASSUME Spaced PROVE Spec => [](Typed /\ SpacedInv)
<1>1. Init => Typed /\ SpacedInv
  BY TypedInit, SpacedInit
<1>2. Typed /\ SpacedInv /\ [Next]_vars => (Typed /\ SpacedInv)'
  BY TypedNext, SpacedNext
<1> QED
  BY <1>1, <1>2, PTL DEF Spec

\* However many timers race, spurious returns start and connections are lost, and
\* with memory used out of turn: with the spacing no handler is given the pieces of
\* two messages, and a part of one only of a message the connection was lost in.
THEOREM SpacedNeverMixes == ASSUME Spaced PROVE Spec => []NeverMixed
<1>1. Typed /\ SpacedInv => NeverMixed
  <2> SUFFICES ASSUME Typed, SpacedInv, NEW k \in 1..Len(handled)
               PROVE  \/ handled[k] = <<>> \/ handled[k] \in Texts
                      \/ handled[k] \in Beginnings
                      \/ broken /\ \A i \in DOMAIN handled[k] : handled[k][i] = <<0, 0>>
    BY DEF NeverMixed
  <2>1. Sane(handled[k]) \/ AnyBytes(handled[k])
    BY DEF SpacedInv, ChunkInv
  <2>2. \A n \in 1..Len(sent) : Part(n, Size(sent[n])) = Whole(n)
    BY DEF Part, Whole
  <2>3. ASSUME NEW n \in cut, NEW j \in 1..Size(sent[n])
        PROVE  Part(n, j) \in Beginnings
    <3>1. Size(sent[n]) \in Nat
      BY Sizes DEF Typed, TypeOK
    <3>2. Whole(n) \in Seq(Nat \X Nat) /\ Len(Whole(n)) = Size(sent[n])
      <4>1. n \in Nat
        BY DEF Typed
      <4>2. \A i \in 1..Size(sent[n]) : <<n, i>> \in Nat \X Nat
        BY ONLY <3>1, <4>1
      <4> QED
        BY ONLY <3>1, <4>2 DEF Whole
    <3>3. SubSeq(Whole(n), 1, j) = Part(n, j)
      BY <3>1, <3>2 DEF Whole, Part
    <3> DEFINE Of(m) == {SubSeq(Whole(m), 1, i) : i \in 1..Size(sent[m])}
    <3>4. Part(n, j) \in Of(n)
      BY <3>3
    <3>5. Of(n) \in {Of(m) : m \in cut}
      BY <2>3, Zenon
    <3>6. Beginnings = UNION {Of(m) : m \in cut}
      BY Zenon DEF Beginnings
    <3> HIDE DEF Of
    <3> QED
      BY ONLY <3>4, <3>5, <3>6
  <2>4. CASE AnyBytes(handled[k])
    BY <2>4 DEF AnyBytes, AnyBytesOf
  <2>5. CASE Sane(handled[k])
    <3>1. ASSUME NEW n \in 1..Len(sent), handled[k] = Part(n, Size(sent[n]))
          PROVE  handled[k] \in Texts
      BY <2>2, <3>1 DEF Texts
    <3>2. ASSUME NEW n \in cut, NEW j \in 1..Size(sent[n]), handled[k] = Part(n, j)
          PROVE  handled[k] \in Beginnings
      BY <2>3, <3>2
    <3> QED
      BY <2>5, <3>1, <3>2 DEF Sane, SaneOf
  <2> QED
    BY <2>1, <2>4, <2>5
<1> QED
  BY <1>1, SpacedInductive, PTL

\* With the spacing memory is used out of turn only after a lost connection or for
\* messages of 4096*x bytes, whatever spurious returns and timers there are.
THEOREM SpacedMisuse == ASSUME Spaced PROVE Spec => []MisuseNeedsRace
<1>1. SpacedInv => MisuseNeedsRace
  BY DEF SpacedInv, CalmInv, Calm, MisuseNeedsRace
<1> QED
  BY <1>1, SpacedInductive, PTL

\* With the spacing every chunk is gone before the next message may come.
THEOREM SpacedLeavesNothing == ASSUME Spaced PROVE Spec => []NothingLeftOver
<1>1. Typed /\ SpacedInv => NothingLeftOver
  BY Quieted DEF NothingLeftOver
<1> QED
  BY <1>1, SpacedInductive, PTL

----------------------------------------------------------------------------
(* On a well-paced connection Chunks implements Delivery. *)

\* No spurious returns, no lost connections, and only messages that start one
\* timer or that a short fragment ends.
Paced == Spaced /\ ~Spurious /\ ~Drops /\ \A x \in Shapes : x.short \/ x.full = 1

\* The first k whole messages of s.
Wholes(s, k) == [n \in 1..k |-> Part(n, Size(s[n]))]

LEMMA WholesGrow ==
    ASSUME NEW s \in Seq(Shapes), NEW k \in Nat, k <= Len(s)
    PROVE  /\ Wholes(s, k) \in Seq(Fragments) /\ Len(Wholes(s, k)) = k
           /\ k > 0 => /\ Wholes(s, k) = Append(Wholes(s, k - 1), Part(k, Size(s[k])))
                       /\ SubSeq(Wholes(s, k), 1, k - 1) = Wholes(s, k - 1)
                       /\ Wholes(s, k)[k] = Part(k, Size(s[k]))
           /\ \A x \in Shapes : Wholes(Append(s, x), k) = Wholes(s, k)
<1>1. \A n \in 1..k : n \in Nat /\ Size(s[n]) \in Nat
  BY Sizes
<1>2. \A n \in 1..k : Part(n, Size(s[n])) \in Fragments
  BY <1>1, Parts
<1>3. Wholes(s, k) \in Seq(Fragments) /\ Len(Wholes(s, k)) = k
  BY <1>2 DEF Wholes
<1>4. ASSUME k > 0
      PROVE  /\ Wholes(s, k) = Append(Wholes(s, k - 1), Part(k, Size(s[k])))
             /\ SubSeq(Wholes(s, k), 1, k - 1) = Wholes(s, k - 1)
             /\ Wholes(s, k)[k] = Part(k, Size(s[k]))
  <2>1. Wholes(s, k - 1) \in Seq(Fragments) /\ Len(Wholes(s, k - 1)) = k - 1
    BY <1>2, <1>4 DEF Wholes
  <2>2. Append(Wholes(s, k - 1), Part(k, Size(s[k])))
          = [n \in 1..k |-> IF n = k THEN Part(k, Size(s[k])) ELSE Wholes(s, k - 1)[n]]
    BY <1>4, <2>1
  <2>3. Wholes(s, k) = Append(Wholes(s, k - 1), Part(k, Size(s[k])))
    BY <1>4, <2>2 DEF Wholes
  <2>4. SubSeq(Wholes(s, k), 1, k - 1) = [n \in 1..(k - 1) |-> Wholes(s, k)[n]]
    BY <1>3, <1>4
  <2> QED
    BY <1>4, <2>3, <2>4 DEF Wholes
<1>5. ASSUME NEW x \in Shapes PROVE Wholes(Append(s, x), k) = Wholes(s, k)
  <2>1. \A n \in 1..k : Append(s, x)[n] = s[n]
    OBVIOUS
  <2> QED
    BY <2>1 DEF Wholes
<1> QED
  BY <1>3, <1>4, <1>5

\* Where the last message is: in the mailbox, in the chunk until one timer has
\* handed it over, or handled.
LastText == Part(Len(sent), Size(Last))
Resting(t) == pc[t] \in {"gone", "sleep"}
Mailed == received_message = LastText /\ ~new_chunk /\ \A t \in Timers : Resting(t)
Chunked ==
    /\ received_message = <<>> /\ gateway_rcol = LastText /\ data = "all"
    /\ new_chunk /\ returning /\ \A t \in Timers : ~Alive(t)
TimedBy(t) ==
    /\ received_message = <<>> /\ ~returning
    /\ \A u \in Timers \ {t} : ~Alive(u)
    /\ \/ pc[t] \in {"sleep", "clear"} /\ new_chunk /\ gateway_rcol = LastText
             /\ data = "all"
       \/ pc[t] = "read" /\ ~new_chunk /\ gateway_rcol = LastText /\ data = "all"
       \/ pc[t] \in {"free", "calloc", "reset"} /\ ~new_chunk /\ text[t] = LastText
             /\ (pc[t] = "free" => data = "all")
Idle ==
    received_message = <<>> /\ ~new_chunk /\ ~returning /\ \A t \in Timers : Resting(t)

Waiting == Mailed \/ Chunked \/ \E t \in Timers : TimedBy(t)
PacedInv ==
    /\ link = "up"
    /\ ~Between => handled = Wholes(sent, Len(sent) - 1)
    /\ Between => \/ Idle /\ handled = Wholes(sent, Len(sent))
                  \/ sent # <<>> /\ Waiting /\ handled = Wholes(sent, Len(sent) - 1)

\* The steps of Delivery, in which the messages that have arrived are Arrived.
Arrived == Wholes(sent, Complete)
Arrives ==
    /\ Len(Arrived') = Len(Arrived) + 1 /\ SubSeq(Arrived', 1, Len(Arrived)) = Arrived
    /\ UNCHANGED handled
Handles ==
    /\ Len(handled) < Len(Arrived) /\ handled' = Append(handled, Arrived[Len(handled) + 1])
    /\ UNCHANGED Arrived
Simulates == Arrives \/ Handles \/ (UNCHANGED Arrived /\ UNCHANGED handled)

LEMMA PacedInit == Init => PacedInv /\ Arrived = <<>>
BY DEF Init, PacedInv, Between, Idle, Resting, Wholes, Arrived, Complete

\* The last message is the next one to be handled.
LEMMA HandsOver ==
    ASSUME Typed, sent # <<>>, Between, UNCHANGED <<sent, fragments>>,
           handled = Wholes(sent, Len(sent) - 1), handled' = Append(handled, LastText)
    PROVE  handled' = Wholes(sent, Len(sent)) /\ Handles
<1> DEFINE n == Len(sent)
<1>1. n \in Nat /\ n > 0 /\ sent \in Seq(Shapes) /\ n - 1 \in Nat
      /\ n <= Len(sent) /\ n - 1 <= Len(sent)
  BY DEF Typed, TypeOK
<1>2. LastText = Part(n, Size(sent[n])) /\ handled = Wholes(sent, n - 1)
  BY DEF LastText, Last
<1>3. Arrived = Wholes(sent, n) /\ Arrived' = Arrived
  BY DEF Arrived, Complete, Between, Last, Size, Wholes
<1>4. n = Len(sent)
  OBVIOUS
<1> HIDE DEF n
<1>5. Wholes(sent, n) = Append(Wholes(sent, n - 1), Part(n, Size(sent[n])))
      /\ Wholes(sent, n)[n] = Part(n, Size(sent[n])) /\ Len(Wholes(sent, n)) = n
  BY <1>1, WholesGrow
<1>6. Len(Wholes(sent, n - 1)) = n - 1
  BY <1>1, WholesGrow
<1> QED
  BY <1>1, <1>2, <1>3, <1>4, <1>5, <1>6 DEF Handles

LEMMA LastNotEmpty == ASSUME Typed, sent # <<>> PROVE LastText # <<>>
<1>1. Size(Last) \in Nat \ {0}
  BY SMTT(60), Sizes DEF Typed, TypeOK, Last
<1>2. \A n, k : k \in Nat \ {0} => Part(n, k) # <<>>
  BY DEF Part
<1> QED
  BY <1>1, <1>2 DEF LastText

LEMMA PacedBegin ==
    ASSUME Paced, Typed, SpacedInv, PacedInv, NEW x \in Shapes, Begin(x)
    PROVE  PacedInv' /\ Simulates
<1> DEFINE n == Len(sent)
<1>1. Between /\ rest = Quiet /\ ~returning /\ fragments' = 1 /\ returning'
      /\ sent' = Append(sent, x) /\ UNCHANGED <<pc, left, text, handled>> /\ link = "up"
  BY DEF Begin, Receive
<1>2. (\A t \in Timers : pc[t] = "gone") /\ ~new_chunk /\ gateway_rcol = <<>>
      /\ received_message = <<>>
  BY <1>1, Quieted DEF Paced
<1>3. n \in Nat /\ sent \in Seq(Shapes) /\ sent' \in Seq(Shapes) /\ Len(sent') = n + 1
      /\ sent' # <<>> /\ sent'[n + 1] = x /\ Last' = x
  BY SMTT(60), <1>1 DEF Typed, TypeOK, Last
<1>4. handled = Wholes(sent, n)
  <2>1. ASSUME sent # <<>> PROVE ~Waiting
    <3>1. LastText # <<>>
      BY <2>1, LastNotEmpty
    <3> QED
      BY <1>2, <3>1 DEF Waiting, Mailed, Chunked, TimedBy
  <2> QED
    BY <1>1, <2>1 DEF PacedInv
<1>5. /\ x.full > 0 => /\ new_chunk' /\ gateway_rcol' = Part(n + 1, 1)
                       /\ received_message' = <<>> /\ data' = "all"
      /\ ~(x.full > 0) => /\ ~new_chunk' /\ gateway_rcol' = <<>>
                          /\ received_message' = Part(n + 1, 1)
      /\ link' = link
  BY BeginTakes DEF Paced
<1>6. Size(x) \in Nat \ {0} /\ x.full \in Nat /\ (x.full = 0 => Size(x) = 1)
  BY Sizes, ChunksAssumption DEF Size
<1>7. (Between' <=> Size(x) = 1) /\ LastText' = Part(n + 1, Size(x))
  BY <1>1, <1>3, <1>6 DEF Between, LastText, Last, Size
<1>8. Wholes(sent', n) = Wholes(sent, n) /\ n + 1 - 1 = n
  <2>1. n <= Len(sent)
    BY <1>3
  <2>2. Wholes(Append(sent, x), n) = Wholes(sent, n)
    BY <1>3, <2>1, WholesGrow
  <2> QED
    BY <1>1, <1>3, <2>2
<1>9. Between' => Waiting'
  BY <1>1, <1>2, <1>5, <1>7 DEF Waiting, Mailed, Chunked, Resting, Alive
<1>10. PacedInv'
  BY <1>1, <1>3, <1>4, <1>5, <1>8, <1>9 DEF PacedInv
<1>11. Arrived = Wholes(sent, n) /\ Len(Arrived) = n
  BY <1>1, <1>3, WholesGrow DEF Arrived, Complete
<1>12. CASE Between'
  <2>1. Arrived' = Wholes(sent', n + 1)
    BY <1>3, <1>12 DEF Arrived, Complete
  <2>2. Len(Wholes(sent', n + 1)) = n + 1
        /\ SubSeq(Wholes(sent', n + 1), 1, n) = Wholes(sent', n)
    <3>1. n + 1 \in Nat /\ n + 1 <= Len(sent') /\ n + 1 > 0
      BY <1>3
    <3>2. SubSeq(Wholes(sent', n + 1), 1, n + 1 - 1) = Wholes(sent', n + 1 - 1)
          /\ Len(Wholes(sent', n + 1)) = n + 1
      BY SMTT(60), <1>3, <3>1, WholesGrow
    <3> QED
      BY <1>8, <3>2
  <2> QED
    BY <1>1, <1>8, <1>10, <1>11, <2>1, <2>2 DEF Simulates, Arrives
<1>13. CASE ~Between'
  BY <1>1, <1>3, <1>8, <1>10, <1>11, <1>13 DEF Simulates, Arrived, Complete
<1> QED
  BY <1>12, <1>13

LEMMA PacedContinue ==
    ASSUME Paced, Typed, SpacedInv, PacedInv, Continue PROVE PacedInv' /\ Simulates
<1> DEFINE n == Len(sent)
<1>1. ~Between /\ ~returning /\ fragments' = fragments + 1 /\ returning'
      /\ UNCHANGED <<sent, pc, left, text, handled>>
  BY DEF Continue, Receive
<1>2. (\A t \in Timers : Resting(t)) /\ handled = Wholes(sent, n - 1)
  BY <1>1 DEF SpacedInv, ReceivingInv, PacedInv, Alive, Resting
<1>3. sent # <<>> /\ n \in Nat \ {0} /\ sent \in Seq(Shapes) /\ Last \in Shapes
      /\ fragments \in Nat \ {0} /\ fragments < Size(Last)
  BY <1>1, Sizes DEF Typed, TypeOK, Between, Last
<1>4. Last' = Last /\ Size(Last)' = Size(Last) /\ Size(Last) \in Nat
      /\ Last.full \in Nat /\ LastText' = LastText
      /\ Size(Last) = Last.full + (IF Last.short THEN 1 ELSE 0)
  BY <1>1, <1>3, Sizes, ChunksAssumption DEF Last, Size, LastText
<1>5. Between' <=> fragments + 1 = Size(Last)
  BY <1>1, <1>3, <1>4 DEF Between
<1>6. Between' => ~(fragments < Last.full)
  <2>1. Last.short \/ Last.full = 1
    BY <1>3 DEF Paced
  <2> QED
    BY <1>3, <1>4, <1>5, <2>1
<1>7. (~(fragments < Last.full)
         => ~new_chunk' /\ received_message' = Part(n, fragments + 1))
      /\ link' = link
  BY ContinueTakes DEF Paced
<1>8. Between' => Mailed'
  BY <1>1, <1>2, <1>4, <1>5, <1>6, <1>7 DEF Mailed, Resting, LastText
<1>9. PacedInv'
  BY <1>1, <1>2, <1>3, <1>7, <1>8 DEF PacedInv, Waiting
<1>10. Wholes(sent, n - 1) = SubSeq(Wholes(sent, n), 1, n - 1)
       /\ Len(Wholes(sent, n)) = n /\ Len(Wholes(sent, n - 1)) = n - 1
  BY SMTT(60), <1>3, WholesGrow
<1>11. Arrived = Wholes(sent, n - 1)
       /\ Arrived' = IF Between' THEN Wholes(sent, n) ELSE Wholes(sent, n - 1)
  BY <1>1 DEF Arrived, Complete, Wholes
<1> QED
  BY SMTT(60), <1>1, <1>3, <1>9, <1>10, <1>11 DEF Simulates, Arrives

LEMMA PacedReturn ==
    ASSUME Paced, Typed, SpacedInv, PacedInv, ServiceReturn PROVE PacedInv' /\ Simulates
<1>1. UNCHANGED <<sent, fragments, new_chunk, gateway_rcol, data, link>>
      /\ returning /\ ~returning'
      /\ received_message' = <<>> /\ StartTimer /\ Dispatch
  BY DEF ServiceReturn, Dispatch, Paced
<1>2. (Between' <=> Between) /\ Arrived' = Arrived /\ LastText' = LastText
  BY <1>1 DEF Between, Size, Last, Arrived, Complete, Wholes, LastText
<1>3. CASE ~Between
  <2>1. received_message = <<>>
    BY <1>3 DEF SpacedInv, ChunkInv
  <2>2. handled' = handled
    BY <1>1, <2>1 DEF Dispatch
  <2> QED
    BY <1>1, <1>2, <1>3, <2>2 DEF PacedInv, Simulates
<1>4. CASE Between
  <2>1. sent # <<>> /\ Waiting /\ handled = Wholes(sent, Len(sent) - 1)
    BY <1>1, <1>4 DEF PacedInv, Idle
  <2>2. CASE Mailed
    <3>1. handled' = Append(handled, LastText) /\ UNCHANGED timers
      BY <1>1, <2>1, <2>2, LastNotEmpty DEF Mailed, Dispatch, StartTimer
    <3>2. handled' = Wholes(sent, Len(sent)) /\ Handles
      BY <1>1, <1>4, <2>1, <3>1, HandsOver
    <3>3. Idle'
      BY <1>1, <2>2, <3>1 DEF Mailed, Idle, Resting
    <3> QED
      BY <1>1, <1>2, <1>4, <3>2, <3>3 DEF PacedInv, Simulates
  <2>3. CASE Chunked
    <3>1. handled' = handled
      BY <1>1, <2>3 DEF Chunked, Dispatch
    <3>2. PICK t \in Timers : pc' = [pc EXCEPT ![t] = "sleep"]
      BY <1>1, <2>3 DEF Chunked, StartTimer
    <3>3. TimedBy(t)'
      BY <1>1, <1>2, <2>3, <3>2 DEF Chunked, TimedBy, Alive, Typed, TypeOK
    <3> QED
      BY <1>1, <1>2, <1>4, <2>1, <3>1, <3>3 DEF PacedInv, Waiting, Simulates
  <2> QED
    BY <1>1, <2>1, <2>2, <2>3 DEF Waiting, TimedBy
<1> QED
  BY <1>3, <1>4

LEMMA PacedTick ==
    ASSUME Paced, Typed, PacedInv, Tick \/ UNCHANGED vars PROVE PacedInv' /\ Simulates
<1>1. UNCHANGED <<sent, fragments, returning, new_chunk, gateway_rcol, received_message,
                  data, link, pc, text, handled>>
  BY DEF Tick, vars
<1>2. (Between' <=> Between) /\ Arrived' = Arrived /\ LastText' = LastText
  BY <1>1 DEF Between, Size, Last, Arrived, Complete, Wholes, LastText
<1>3. Waiting => Waiting'
  <2>1. \A t \in Timers : TimedBy(t) => TimedBy(t)'
    BY <1>1, <1>2 DEF TimedBy, Alive
  <2> QED
    BY <1>1, <1>2, <2>1 DEF Waiting, Mailed, Chunked, Resting, Alive
<1> QED
  BY <1>1, <1>2, <1>3 DEF PacedInv, Idle, Resting, Simulates

LEMMA PacedTimer ==
    ASSUME Paced, Typed, SpacedInv, PacedInv, NEW t \in Timers, TimerStep(t)
    PROVE  PacedInv' /\ Simulates
<1>1. Awake(t) /\ Alive(t) /\ link = "up"
      /\ UNCHANGED <<sent, fragments, age, rest, returning, received_message>>
  BY DEF TimerStep, Test, Clear, Read, Free, Calloc, Reset, Step, Awake, Alive, PacedInv
<1>2. Between /\ Between' /\ Arrived' = Arrived /\ LastText' = LastText
  <2>1. Between
    BY <1>1, AwakeBetween DEF Paced
  <2> QED
    BY <1>1, <2>1 DEF Between, Size, Last, Arrived, Complete, Wholes, LastText
<1>3. \A u \in Timers \ {t} : pc'[u] = pc[u]
  BY DEF TimerStep, Test, Clear, Read, Free, Calloc, Reset, Step, Typed, TypeOK
<1>4. CASE Test(t)
  <2>1. pc[t] = "sleep" /\ UNCHANGED <<new_chunk, gateway_rcol, data, link, text, handled>>
    BY <1>4 DEF Test, Step
  <2>2. /\ new_chunk /\ received_message = <<>> => pc'[t] = "clear"
        /\ ~(new_chunk /\ received_message = <<>>) => pc'[t] = "gone"
    <3>1. pc'[t] = IF new_chunk /\ received_message = <<>> THEN "clear" ELSE "gone"
      BY <1>4 DEF Test, Step, Typed, TypeOK
    <3> QED
      BY <3>1
  <2>3. Idle => Idle'
    BY <1>1, <1>3, <2>1, <2>2 DEF Idle, Resting
  <2>4. Mailed => Mailed'
    BY <1>1, <1>2, <1>3, <2>1, <2>2 DEF Mailed, Resting
  <2>5. ~Chunked
    BY <1>1 DEF Chunked
  <2>6. ASSUME NEW u \in Timers, TimedBy(u) PROVE TimedBy(t)'
    <3>1. u = t /\ new_chunk /\ received_message = <<>>
      BY <1>1, <2>1, <2>6 DEF TimedBy
    <3> QED
      BY <1>1, <1>2, <1>3, <2>1, <2>2, <2>6, <3>1 DEF TimedBy, Alive
  <2> QED
    BY <1>1, <1>2, <2>1, <2>3, <2>4, <2>5, <2>6 DEF PacedInv, Waiting, Simulates
<1>5. ASSUME pc[t] # "sleep"
      PROVE  TimedBy(t) /\ sent # <<>> /\ handled = Wholes(sent, Len(sent) - 1)
  <2>1. ~Resting(t)
    BY <1>1, <1>5 DEF Resting, Alive
  <2> QED
    BY <1>1, <1>2, <2>1 DEF PacedInv, Idle, Waiting, Mailed, Chunked, TimedBy
<1>6. ASSUME TimedBy(t)', pc[t] # "sleep", link' = link, handled' = handled
      PROVE  PacedInv' /\ Simulates
  BY <1>1, <1>2, <1>5, <1>6 DEF PacedInv, Waiting, Simulates
<1>7. CASE Clear(t)
  <2>1. pc[t] = "clear" /\ pc'[t] = "read" /\ ~new_chunk'
        /\ UNCHANGED <<gateway_rcol, data, link, text, handled>>
    BY <1>7 DEF Clear, Step, Typed, TypeOK
  <2>2. TimedBy(t)'
    BY <1>1, <1>2, <1>3, <1>5, <2>1 DEF TimedBy, Alive
  <2> QED
    BY <1>6, <2>1, <2>2
<1>8. ASSUME NEW bad, ~bad, Uses(bad) PROVE link' = link
  BY <1>8 DEF Uses
<1>9. CASE Read(t)
  <2>1. pc[t] = "read" /\ pc'[t] = "free" /\ text'[t] = Bytes /\ Uses(~Sound)
        /\ UNCHANGED <<new_chunk, gateway_rcol, data, handled>>
    BY <1>9 DEF Read, Step, Typed, TypeOK
  <2>2. Sound /\ Bytes = LastText /\ data = "all" /\ ~new_chunk
    BY <1>5, <2>1, BytesTyped DEF TimedBy, Sound
  <2>3. link' = link
    BY <1>8, <2>1, <2>2
  <2>4. TimedBy(t)'
    BY <1>1, <1>2, <1>3, <1>5, <2>1, <2>2 DEF TimedBy, Alive
  <2> QED
    BY <1>6, <2>1, <2>3, <2>4
<1>10. CASE Free(t) \/ Calloc(t)
  <2>1. pc[t] \in {"free", "calloc"} /\ pc'[t] \in {"calloc", "reset"}
        /\ UNCHANGED <<new_chunk, gateway_rcol, text, handled>>
    BY <1>10 DEF Free, Calloc, Step, Typed, TypeOK
  <2>2. link' = link
    <3>1. CASE Free(t)
      <4>1. Uses(data = "freed") /\ data # "freed"
        BY <1>5, <3>1 DEF Free, Step, TimedBy
      <4> QED
        BY <1>8, <4>1
    <3> QED
      BY <1>10, <3>1 DEF Calloc
  <2>3. TimedBy(t)'
    BY <1>1, <1>2, <1>3, <1>5, <2>1 DEF TimedBy, Alive
  <2> QED
    BY <1>6, <2>1, <2>2, <2>3
<1>11. CASE Reset(t)
  <2>1. pc[t] = "reset" /\ pc'[t] = "gone" /\ handled' = Append(handled, text[t])
        /\ UNCHANGED <<new_chunk, link>>
    BY <1>11 DEF Reset, Step, Typed, TypeOK
  <2>2. Idle' /\ text[t] = LastText
    BY <1>1, <1>3, <1>5, <2>1 DEF TimedBy, Idle, Resting, Alive
  <2>3. handled' = Wholes(sent, Len(sent)) /\ Handles
    BY <1>1, <1>2, <1>5, <2>1, <2>2, HandsOver
  <2> QED
    BY <1>1, <1>2, <2>1, <2>2, <2>3 DEF PacedInv, Simulates
<1> QED
  BY <1>4, <1>7, <1>9, <1>10, <1>11 DEF TimerStep

LEMMA PacedNext ==
    Paced /\ Typed /\ SpacedInv /\ PacedInv /\ [Next]_vars => PacedInv' /\ Simulates
<1> SUFFICES ASSUME Paced, Typed, SpacedInv, PacedInv, [Next]_vars
             PROVE  PacedInv' /\ Simulates
  OBVIOUS
<1>1. ~(Cut \/ Close \/ End \/ Redial \/ Zero)
  BY DEF Paced, PacedInv, Cut, Close, End, Redial, Zero
<1>2. CASE Finished
  BY <1>2, PacedTick DEF Finished
<1> QED
  BY <1>1, <1>2, PacedBegin, PacedContinue, PacedReturn, PacedTick, PacedTimer DEF Next

\* The texts that have arrived are the whole messages of the refinement mapping.
LEMMA Mapping == [k \in 1..Complete |-> Whole(k)] = Arrived
BY DEF Arrived, Wholes, Whole, Part

\* On a well-paced connection every message is given to one handler, once, whole and
\* in order, for any number of messages and timers and any pace within the bounds.
THEOREM PacedDelivers == ASSUME Paced PROVE Spec => DeliversWhole
<1>1. Init => PacedInv /\ Abstract!Init
  BY PacedInit, Mapping DEF Init, Abstract!Init
<1>2. Paced /\ Typed /\ SpacedInv /\ PacedInv /\ [Next]_vars
        => PacedInv' /\ [Abstract!Arrive \/ Abstract!Handle]_
                            <<[k \in 1..Complete |-> Whole(k)], handled>>
  <2> SUFFICES ASSUME Paced, Typed, SpacedInv, PacedInv, [Next]_vars
               PROVE  PacedInv' /\ (Abstract!Arrive \/ Abstract!Handle
                          \/ UNCHANGED <<[k \in 1..Complete |-> Whole(k)], handled>>)
    OBVIOUS
  <2>1. PacedInv' /\ Simulates
    BY PacedNext
  <2>2. /\ [k \in 1..Complete |-> Whole(k)] = Arrived
        /\ [k \in 1..Complete |-> Whole(k)]' = Arrived'
    BY Mapping DEF Arrived, Wholes, Whole, Part
  <2> QED
    BY <2>1, <2>2 DEF Simulates, Arrives, Handles, Abstract!Arrive, Abstract!Handle
<1> QED
  BY <1>1, <1>2, SpacedInductive, PTL DEF Paced, Spec, DeliversWhole, Abstract!Spec

=============================================================================
