------------------------------- MODULE Chunks -------------------------------
(* Reassembly of Gateway messages.  libwebsockets hands a message over in     *)
(* fragments of at most 4096 bytes without saying which one is the last.  A   *)
(* shorter fragment ends its message; a message of exactly 4096*x bytes has   *)
(* no such fragment and is ended by chunk_timeout, a detached thread that     *)
(* looks at the accumulated chunk 5 ms after the main loop noticed it.        *)
(*                                                                            *)
(* gateway_rcol is shared without a lock: every timer that gets past its test *)
(* reads it, frees its block, allocates one byte and sets its size to 0, and  *)
(* the main loop zeroes it when it dials again.  What is read or freed out of *)
(* turn is undefined: the process ends, or it goes on with any bytes.         *)
(*                                                                            *)
(* Time is discrete, one Tick per millisecond.  One callback per lws_service  *)
(* call: messages that overwrite each other are in Gateway.tla, and so are    *)
(* the opcodes 7 and 9, which say_hello looks for before it gets here.        *)
EXTENDS Naturals, Sequences, FiniteSets

CONSTANTS
    Shapes,         \* the sizes of messages: full fragments, a short one after?
    MaxMessages,    \* bound: messages in one behaviour
    Timers,         \* bound: chunk_timeout threads alive at the same time
    Span,           \* a message arrives within this many ms
    Quiet,          \* ms from the end of a message to the next
    Lag,            \* a thread runs at most this many ms late
    Spurious,       \* may lws_service return without a callback?
    Drops           \* may the connection be lost, inside a message or after it?

Timeout == 5        \* Sleep(5)

ASSUME ChunksAssumption ==
    /\ Shapes \subseteq [full : Nat, short : BOOLEAN]
    /\ \A x \in Shapes : x.full > 0 \/ x.short
    /\ MaxMessages \in Nat \ {0}
    /\ Span \in Nat /\ Quiet \in Nat /\ Lag \in Nat
    /\ Spurious \in BOOLEAN /\ Drops \in BOOLEAN

VARIABLES
    sent,           \* external: the shape of each message begun so far
    fragments,      \* external: how many fragments of the last one came
    age,            \* external: ms since its first fragment
    rest,           \* external: ms since the last callback (capped at Quiet)
    link,           \* where the connection and the main loop are
    returning,      \* has a callback run in this lws_service call?
    new_chunk,
    gateway_rcol,   \* gateway_rcol.size, as the fragments that make it up
    data,           \* gateway_rcol.data: no block, a freed one, one byte, all
    received_message,   \* <<>> unless new_payload is set
    pc, left, text,     \* the timer threads; left counts down to the latest ms
    handled,            \* history: the texts given to determine_what_to_do
    cut,                \* history: the messages that a connection was lost in or after
    broken              \* history: was memory used out of turn?

network == <<sent, fragments, age, rest>>
chunk   == <<new_chunk, gateway_rcol, data, received_message>>
timers  == <<pc, left, text>>
vars    == <<network, link, returning, chunk, timers, handled, cut, broken>>

Size(x) == x.full + (IF x.short THEN 1 ELSE 0)
Whole(n) == [i \in 1..Size(sent[n]) |-> <<n, i>>]
Last == sent[Len(sent)]
Between == fragments = IF sent = <<>> THEN 0 ELSE Size(Last)
Awake(t) == pc[t] # "gone" /\ left[t] <= Lag
AllGone == \A t \in Timers : pc[t] = "gone"

\* The bytes that gateway_rcol says it holds: any, unless the block is theirs.
Sound == gateway_rcol = <<>> \/ data = "all"
Bytes == IF Sound THEN gateway_rcol ELSE [i \in DOMAIN gateway_rcol |-> <<0, 0>>]

\* Undefined behaviour ends the process or goes on; a string from no block throws.
Uses(bad) ==
    /\ broken' = (broken \/ bad)
    /\ link' \in IF ~bad THEN {link}
                ELSE IF data = "null" THEN {"ended"} ELSE {link, "ended"}

Init ==
    /\ sent = <<>> /\ fragments = 0 /\ age = 0 /\ rest = Quiet
    /\ link = "up" /\ returning = FALSE /\ new_chunk = FALSE
    /\ gateway_rcol = <<>> /\ data = "null" /\ received_message = <<>>
    /\ pc = [t \in Timers |-> "gone"]
    /\ left = [t \in Timers |-> 0]
    /\ text = [t \in Timers |-> <<>>]
    /\ handled = <<>> /\ cut = {} /\ broken = FALSE

----------------------------------------------------------------------------
(* The callback of say_hello for one fragment, on the main thread.          *)

KeepBlock == UNCHANGED <<gateway_rcol, data>>                   \* mutant
FreeOnly   == gateway_rcol' = <<>> /\ data' = "freed"           \* mutant: no calloc
EmptyBlock == gateway_rcol' = <<>> /\ data' = "one"

TakeFragment(f, full) ==
    \/ /\ full /\ new_chunk' = TRUE                         \* len==4096
       /\ gateway_rcol' = Append(Bytes, f) /\ data' = "all"
       /\ Uses(~Sound \/ data = "freed")
       /\ UNCHANGED received_message
    \/ /\ ~full /\ new_chunk /\ new_chunk' = FALSE
       /\ received_message' = Append(Bytes, f)
       /\ EmptyBlock
       /\ Uses(~Sound \/ data = "freed")
    \/ /\ ~full /\ ~new_chunk
       /\ received_message' = <<f>>
       /\ UNCHANGED <<new_chunk, gateway_rcol, data, link, broken>>

\* The first fragment of a message, or the next one of the message under way.
Receive(n, i, full) ==
    /\ link = "up" /\ ~returning /\ returning' = TRUE
    /\ fragments' = i /\ rest' = 0
    /\ TakeFragment(<<n, i>>, full)
    /\ UNCHANGED <<timers, handled, cut>>

Begin(x) ==
    /\ Between /\ Len(sent) < MaxMessages /\ rest = Quiet
    /\ sent' = Append(sent, x) /\ age' = 0
    /\ Receive(Len(sent) + 1, 1, x.full > 0)

Continue ==
    /\ ~Between /\ UNCHANGED <<sent, age>>
    /\ Receive(Len(sent), fragments + 1, fragments < Last.full)

----------------------------------------------------------------------------
(* The rest of the main loop.                                               *)

SleepSix == Timeout + 1 + Lag   \* mutant: one millisecond too long
SleepTime == Timeout + Lag

\* Every return of lws_service under new_chunk starts one more timer.
NoTimer == UNCHANGED timers     \* mutant: no timer is ever started
StartTimer ==
    IF ~new_chunk THEN UNCHANGED timers
    ELSE \E t \in Timers :
            /\ pc[t] = "gone"
            /\ pc' = [pc EXCEPT ![t] = "sleep"]
            /\ left' = [left EXCEPT ![t] = SleepTime]
            /\ UNCHANGED text

DispatchTwice ==        \* mutant: new_payload stays set once
    /\ handled' = IF received_message = <<>> THEN handled
                  ELSE handled \o <<received_message, received_message>>
    /\ received_message' = <<>>
Dispatch ==
    /\ handled' = IF received_message = <<>> THEN handled
                  ELSE Append(handled, received_message)
    /\ received_message' = <<>>

\* The bound on timers leaves one for each fragment still to come.
SpareTimer == Cardinality({t \in Timers : pc[t] = "gone"}) > Size(Last) - fragments

ServiceReturn ==
    /\ link # "ended"
    /\ returning \/ (Spurious /\ new_chunk /\ SpareTimer /\ link \in {"up", "dead"})
    /\ returning' = FALSE
    /\ StartTimer /\ Dispatch
    /\ UNCHANGED <<network, link, new_chunk, gateway_rcol, data, cut, broken>>

----------------------------------------------------------------------------
(* A lost connection.  Timers run between any two of these steps.           *)

\* The peer is gone; no more of the last message comes.  Bound: once a message.
Cut ==
    /\ Drops /\ link = "up" /\ ~returning
    /\ sent # <<>> /\ Len(sent) \notin cut
    /\ link' = "dead" /\ fragments' = Size(Last) /\ cut' = cut \cup {Len(sent)}
    /\ UNCHANGED <<sent, age, rest, returning, chunk, timers, handled, broken>>

\* LWS_CALLBACK_CLIENT_CLOSED; the loop starts one more timer for a chunk (bound).
Close ==
    /\ link = "dead" /\ ~returning /\ (new_chunk => \E t \in Timers : pc[t] = "gone")
    /\ link' = "closed" /\ returning' = TRUE /\ rest' = 0
    /\ UNCHANGED <<sent, fragments, age, chunk, timers, handled, cut, broken>>

\* The loop is left and the program ends, or it dials again: gateway_rcol={0} in
\* two stores.  Nothing resets new_chunk.
End ==
    /\ link = "closed" /\ ~returning /\ link' = "ended"
    /\ UNCHANGED <<network, returning, chunk, timers, handled, cut, broken>>

Redial ==
    /\ link = "closed" /\ ~returning /\ link' = "nulled"
    /\ data' = "null" /\ received_message' = <<>>
    /\ UNCHANGED <<network, returning, new_chunk, gateway_rcol, timers, handled, cut,
                   broken>>

Zero ==
    /\ link = "nulled" /\ link' = "up" /\ gateway_rcol' = <<>>
    /\ UNCHANGED <<network, returning, new_chunk, data, received_message, timers,
                   handled, cut, broken>>

----------------------------------------------------------------------------
(* chunk_timeout, in timer t; the main loop and other timers run in between. *)

Step(t, from, to) ==
    /\ link # "ended" /\ Awake(t) /\ pc[t] = from
    /\ pc' = [pc EXCEPT ![t] = to]
    /\ UNCHANGED <<network, returning, received_message, cut>>

Test(t) ==
    /\ Step(t, "sleep", IF new_chunk /\ received_message = <<>> THEN "clear" ELSE "gone")
    /\ UNCHANGED <<link, new_chunk, gateway_rcol, data, left, text, handled, broken>>

Clear(t) ==
    /\ Step(t, "clear", "read")
    /\ new_chunk' = FALSE
    /\ UNCHANGED <<link, gateway_rcol, data, left, text, handled, broken>>

Read(t) ==
    /\ Step(t, "read", "free")
    /\ text' = [text EXCEPT ![t] = Bytes] /\ Uses(~Sound)
    /\ UNCHANGED <<new_chunk, gateway_rcol, data, left, handled>>

Free(t) ==
    /\ Step(t, "free", "calloc")
    /\ data' = IF data = "null" THEN "null" ELSE "freed"
    /\ Uses(data = "freed")
    /\ UNCHANGED <<new_chunk, gateway_rcol, left, text, handled>>

Calloc(t) ==
    /\ Step(t, "calloc", "reset")
    /\ data' = "one"
    /\ UNCHANGED <<link, new_chunk, gateway_rcol, left, text, handled, broken>>

Reset(t) ==
    /\ Step(t, "reset", "gone")
    /\ gateway_rcol' = <<>>
    /\ handled' = Append(handled, text[t])
    /\ text' = [text EXCEPT ![t] = <<>>]
    /\ left' = [left EXCEPT ![t] = 0]
    /\ UNCHANGED <<link, new_chunk, data, broken>>

TimerStep(t) == Test(t) \/ Clear(t) \/ Read(t) \/ Free(t) \/ Calloc(t) \/ Reset(t)

\* A millisecond passes: no thread is later than Lag, no message longer than
\* Span, and the main loop does not dawdle.
Tick ==
    /\ ~returning /\ link \in {"up", "dead", "closed"}
    /\ \A t \in Timers : pc[t] # "gone" => left[t] > 0
    /\ ~Between => age < Span
    /\ rest < Quiet \/ ~Between \/ ~AllGone
    /\ age' = IF Between THEN 0 ELSE age + 1
    /\ rest' = IF rest < Quiet THEN rest + 1 ELSE rest
    /\ left' = [t \in Timers |-> IF pc[t] = "gone" THEN 0 ELSE left[t] - 1]
    /\ UNCHANGED <<sent, fragments, link, returning, chunk, pc, text, handled, cut,
                   broken>>

\* The program has ended, or the bound on messages is reached and all is still.
Finished ==
    /\ \/ link = "ended"
       \/ link = "up" /\ Len(sent) = MaxMessages /\ Between /\ rest = Quiet
             /\ ~returning /\ AllGone
    /\ UNCHANGED vars

Next ==
    \/ (\E x \in Shapes : Begin(x)) \/ Continue \/ ServiceReturn \/ Tick \/ Finished
    \/ Cut \/ Close \/ End \/ Redial \/ Zero
    \/ \E t \in Timers : TimerStep(t)

Spec == Init /\ [][Next]_vars

\* Threads run, and a message that has begun is sent to its end.
Fairness ==
    /\ WF_vars(returning /\ ServiceReturn) /\ WF_vars(Tick)
    /\ WF_vars(Continue)
    /\ \A t \in Timers : WF_vars(TimerStep(t))

LiveSpec == Spec /\ Fairness

----------------------------------------------------------------------------
(* Properties.                                                              *)

Texts == {Whole(n) : n \in 1..Len(sent)}

TypeOK ==
    /\ sent \in Seq(Shapes) /\ fragments \in Nat /\ age \in 0..Span
    /\ rest \in 0..Quiet
    /\ link \in {"up", "dead", "closed", "nulled", "ended"}
    /\ data \in {"null", "freed", "one", "all"}
    /\ returning \in BOOLEAN /\ new_chunk \in BOOLEAN /\ broken \in BOOLEAN
    /\ pc \in [Timers -> {"gone", "sleep", "clear", "read", "free", "calloc", "reset"}]
    /\ left \in [Timers -> 0..(Timeout + Lag)]

\* The number of whole messages, which are what Delivery's abstract state sees.
Complete == IF Between THEN Len(sent) ELSE Len(sent) - 1
Abstract == INSTANCE Delivery WITH arrived <- [k \in 1..Complete |-> Whole(k)]

\* On a well-paced connection reassembly is invisible: once, whole, in order.
DeliversWhole == Abstract!Spec
DeliversAll == Abstract!EverythingHandled

\* Whatever the races of timers with each other and with lost connections: if
\* messages are far enough apart, a handler gets a whole message, nothing at all,
\* or the beginning of a message that the connection was lost in, never the pieces
\* of two; bytes of any other kind only when memory has been used out of turn.
Beginnings == UNION {{SubSeq(Whole(n), 1, k) : k \in 1..Size(sent[n])} : n \in cut}
NeverMixed ==
    \A k \in 1..Len(handled) :
        \/ handled[k] = <<>> \/ handled[k] \in Texts \/ handled[k] \in Beginnings
        \/ broken /\ \A i \in DOMAIN handled[k] : handled[k][i] = <<0, 0>>

\* Memory is used out of turn only when timers race: with each other over a
\* message of 4096*x bytes, or with the main loop after a lost connection.
\* Messages that end in a short fragment never get there, whatever timers run.
MisuseNeedsRace ==
    broken => cut # {} \/ \E n \in 1..Len(sent) : ~sent[n].short

\* The same spacing leaves nothing behind: the next message finds no flag, no
\* fragment and no freed block of the one before it, nor of a lost connection.
NothingLeftOver ==
    (link = "up" /\ Between /\ rest = Quiet /\ ~returning)
        => ~new_chunk /\ gateway_rcol = <<>> /\ data # "freed"

----------------------------------------------------------------------------
(* What the comments say and the code does not do (see README.md).          *)

\* pilepoxyl.h:133: chunk_timeout "handles the 4096*x bytes case": such a message
\* is handled once.
HandledOnce ==
    \A j, k \in 1..Len(handled) : handled[j] = handled[k] => j = k
=============================================================================
