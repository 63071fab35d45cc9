--------------------------- MODULE GatewayProofs ---------------------------
(* TLAPS proofs about Gateway, for any set of message threads and any bounds. *)
EXTENDS Gateway, FiniteSetTheorems, TLAPS

\* The tuples of variables that the UNCHANGED conjuncts name.
USE DEF flags, resume, threads, loops, discord, MainThreadAt, SameLink, Callback,
        OffLoop

\* Every step keeps every variable in its type; the thread steps by cases.
THEOREM TypeCorrect == Spec => []TypeOK
<1>1. Init => TypeOK
  <2> SUFFICES ASSUME Init PROVE TypeOK
    OBVIOUS
  <2>1. /\ interface \in BOOLEAN /\ can_reconnect \in BOOLEAN
        /\ sending_heartbeats \in BOOLEAN /\ earlyBeat \in BOOLEAN
        /\ identified \in BOOLEAN
    BY Zenon DEF Init
  <2> QED
    BY <2>1, GatewayAssumption DEF Init, TypeOK, Seqs, Sids, PCs
<1>2. TypeOK /\ [Next]_vars => TypeOK'
  <2> SUFFICES ASSUME TypeOK, [Next]_vars PROVE TypeOK'
    OBVIOUS
  <2> USE GatewayAssumption DEF TypeOK, Seqs, Sids
  <2>1. ASSUME MainThread PROVE TypeOK'
    <3>1. CASE Connect
      <4>1. (interface \in BOOLEAN /\ earlyBeat \in BOOLEAN)'
        BY <3>1, Zenon DEF Connect
      <4> QED
        BY <3>1, <4>1 DEF Connect
    <3>2. CASE ServiceReturn
      <4>1. mailbox # NoMsg => mailbox.kind \in Kinds
        BY DEF Message
      <4>2. \A k \in Kinds : FirstStep[k] \in PCs \ {"write"}
        BY DEF Kinds, FirstStep, PCs
      <4>3. (pc \in [Workers -> PCs])' /\ (msg \in [Workers -> Message \cup {NoMsg}])'
            /\ (payload \in [Workers -> Payload \cup {NoPayload}])'
            /\ (mailbox \in Message \cup {NoMsg})'
            /\ (\A w \in Workers : pc[w] = "write" => payload[w] \in Payload)'
        BY SMTT(60), <3>2, <4>1, <4>2 DEF ServiceReturn, TakeMail
      <4> QED
        BY <3>2, <4>3 DEF ServiceReturn, AfterService
    <3>3. CASE Close
      <4>1. (sending_heartbeats \in BOOLEAN)'
        BY <3>3, Zenon DEF Close
      <4> QED
        BY <3>3, <4>1 DEF Close
    <3>4. CASE Redial
      <4>1. (sending_heartbeats \in BOOLEAN)'
        BY <3>4, Zenon DEF Redial
      <4> QED
        BY <3>4, <4>1 DEF Redial
    <3>5. CASE Quit
      BY SMTT(60), <3>5 DEF Quit
    <3> QED
      BY <2>1, <3>1, <3>2, <3>3, <3>4, <3>5 DEF MainThread
  <2>2. ASSUME Network PROVE TypeOK'
    <3>1. CASE Established
      BY <3>1 DEF Established
    <3>2. CASE Disconnected
      <4>1. (interface \in BOOLEAN)'
        BY <3>2, Zenon DEF Disconnected
      <4> QED
        BY <3>2, <4>1 DEF Disconnected
    <3>3. CASE Reconnek
      BY <3>3 DEF Reconnek
    <3>4. ASSUME NEW code \in {"auth", "stale", "other"}, PeerClose(code)
          PROVE TypeOK'
      BY <3>4 DEF PeerClose, Fatal, Refusals
    <3>5. ASSUME NEW d \in BOOLEAN, InvalidSession(d) PROVE TypeOK'
      BY <3>5 DEF InvalidSession, Refusals
    <3>6. ASSUME NEW kind \in Kinds, NEW s \in Seqs, NEW sid \in Nat,
                 Deliver(kind, s, sid),
                 stage' \in {"fresh", "greeted", "starting", "live", "refused"},
                 seq' \in Seqs
          PROVE TypeOK'
      BY SMTT(60), <3>6 DEF Deliver, Message
    <3>7. CASE SayHello
      BY SMTT(60), <3>6, <3>7 DEF SayHello, Message, Kinds
    <3>8. CASE Ready
      BY SMTT(60), <3>6, <3>8 DEF Ready, Message, Kinds
    <3>9. ASSUME NEW kind \in {"INTERACTION", "EVENT"}, Event(kind) PROVE TypeOK'
      <4>1. kind \in Kinds
        BY DEF Kinds
      <4>2. /\ seq + 1 \in Seqs /\ seq' = seq + 1 /\ stage' = "live" /\ session \in Nat
            /\ Deliver(kind, seq + 1, session)
        BY <3>9 DEF Event
      <4> QED
        BY <3>6, <4>1, <4>2
    <3>10. ASSUME NEW kind \in {"HEARTBEAT", "ACK"}, Pulse(kind) PROVE TypeOK'
      <4>1. kind \in Kinds /\ 0 \in Seqs /\ 0 \in Nat
        BY DEF Kinds
      <4>2. seq' = seq /\ stage' = "live" /\ Deliver(kind, 0, 0)
        BY <3>10 DEF Pulse
      <4> QED
        BY <3>6, <4>1, <4>2
    <3> QED
      BY <2>2, <3>1, <3>2, <3>3, <3>4, <3>5, <3>7, <3>8, <3>9, <3>10 DEF Network
  <2>3. ASSUME NEW w \in Workers, ShortStep(w) PROVE TypeOK'
    <3> USE DEF At
    <3>1. CASE ReadyUrl(w)
      BY <3>1 DEF ReadyUrl, Goto, PCs, Message, NoMsg
    <3>2. CASE ReadySession(w)
      BY <3>2 DEF ReadySession, Goto, PCs, Message, NoMsg
    <3>3. CASE Order(w)
      BY SMTT(60), <3>3 DEF Order, Return, Goto, PCs, Message, NoMsg
    <3>4. CASE Ignore(w)
      BY <3>4 DEF Ignore, Return, Goto, PCs
    <3>5. CASE Choose(w)
      <4>1. [op |-> "resume", seq |-> event_order, sid |-> sessid] \in Payload
        BY DEF Payload
      <4>2. CASE can_reconnect
        BY <3>5, <4>1, <4>2 DEF Choose, Goto, PCs
      <4>3. CASE ~can_reconnect
        BY <3>5, <4>3 DEF Choose, Goto, PCs
      <4> QED
        BY <4>2, <4>3
    <3>6. CASE Identify(w)
      BY <3>6 DEF Identify, Goto, PCs, Payload
    <3>7. CASE WriteHandshake(w)
      <4>1. (handshakes \in Seq(Payload))'
        <5>1. payload[w] \in Payload
          BY <3>7 DEF WriteHandshake, At
        <5> QED
          BY SMTT(60), <3>7, <5>1 DEF WriteHandshake, ServerTakes
      <4>2. UNCHANGED <<stage, session, seq>> \/ (stage' \in {"starting", "refused", "live"}
                                  /\ session' \in Nat /\ seq' \in Seqs)
        BY SMTT(60), <3>7 DEF WriteHandshake, ServerTakes
      <4> QED
        BY <3>7, <4>1, <4>2 DEF WriteHandshake, Goto, PCs
    <3>8. CASE StartBeats(w)
      BY <3>8 DEF StartBeats, Return, Goto, PCs
    <3>9. CASE RequestedBeat(w)
      BY <3>9 DEF RequestedBeat, SendHeartbeat, Return, Goto, PCs
    <3> QED
      BY <2>3, <3>1, <3>2, <3>3, <3>4, <3>5, <3>6, <3>7, <3>8, <3>9 DEF ShortStep
  <2>4. ASSUME NEW w \in Workers, Respond(w) PROVE TypeOK'
    BY <2>4 DEF Respond, At, Goto, PCs
  <2>5. CASE BeatCheck
    BY <2>5 DEF BeatCheck, Usable
  <2>6. CASE BeatWrite
    BY <2>6 DEF BeatWrite, SendHeartbeat
  <2>7. CASE UNCHANGED vars
    BY <2>7 DEF vars
  <2> QED
    BY <2>1, <2>2, <2>3, <2>4, <2>5, <2>6, <2>7 DEF Next, Stopped
<1> QED
  BY <1>1, <1>2, PTL DEF Spec

----------------------------------------------------------------------------
(* Why the program may leave its loop.                                      *)

\* can_reconnect is on exactly since the last identify payload, except after a
\* refusal, and a refusal ends its connection before the next Connect.
Handshaken == can_reconnect \/ handshakes # <<>> \/ \E w \in Workers : pc[w] = "write"
ReconnectInv ==
    /\ Handshaken => identified
    /\ (identified /\ ~can_reconnect)
          => (verdict \in Refusals /\ link \in {"none", "closing"})
    /\ (loop = "connect" /\ conn > 0) => identified
    /\ (loop = "connect" /\ identified) => can_reconnect
    /\ conn > 1 => identified

LEMMA ReconnectInvHolds == Spec => [](ReconnectInv /\ ExitJustified)
<1> DEFINE Inv == ReconnectInv /\ ExitJustified
<1>1. Init => Inv
  BY DEF Init, ReconnectInv, Handshaken, ExitJustified
<1>2. TypeOK /\ Inv /\ [Next]_vars => Inv'
  <2> SUFFICES ASSUME TypeOK, ReconnectInv, ExitJustified, [Next]_vars PROVE Inv'
    OBVIOUS
  <2> USE DEF ReconnectInv, Handshaken, ExitJustified
  <2>1. ASSUME MainThread PROVE Inv'
    <3>1. CASE Connect
      BY <3>1 DEF Connect, TypeOK
    <3>2. CASE ServiceReturn
      <4>1. \A w \in Workers : pc'[w] = "write" => pc[w] = "write"
        <5>1. \A k \in Kinds : FirstStep[k] # "write"
          BY DEF Kinds, FirstStep
        <5>2. mailbox # NoMsg => mailbox.kind \in Kinds
          BY DEF TypeOK, Message
        <5> QED
          BY <3>2, <5>1, <5>2 DEF ServiceReturn, TakeMail, TypeOK
      <4> QED
        BY <3>2, <4>1 DEF ServiceReturn, AfterService
    <3>3. CASE Close
      BY <3>3 DEF Close
    <3>4. CASE Redial
      BY <3>4 DEF Redial
    <3>5. CASE Quit
      BY <3>5 DEF Quit
    <3> QED
      BY <2>1, <3>1, <3>2, <3>3, <3>4, <3>5 DEF MainThread
  <2>2. ASSUME Network PROVE Inv'
    <3>1. CASE Established
      BY <3>1 DEF Established
    <3>2. CASE Disconnected
      BY <3>2 DEF Disconnected
    <3>3. CASE Reconnek
      BY <3>3 DEF Reconnek
    <3>4. ASSUME NEW code \in {"auth", "stale", "other"}, PeerClose(code)
          PROVE Inv'
      BY <3>4 DEF PeerClose, Fatal, Refusals
    <3>5. ASSUME NEW d \in BOOLEAN, InvalidSession(d) PROVE Inv'
      BY <3>5 DEF InvalidSession, Refusals
    <3>6. ASSUME NEW kind, NEW s, NEW sid, Deliver(kind, s, sid) PROVE Inv'
      BY <3>6 DEF Deliver
    <3> QED
      BY <2>2, <3>1, <3>2, <3>3, <3>4, <3>5, <3>6
         DEF Network, SayHello, Ready, Event, Pulse
  <2>3. ASSUME NEW w \in Workers, ShortStep(w) \/ Respond(w) PROVE Inv'
    <3> USE DEF At, Goto, TypeOK
    <3>1. CASE ReadyUrl(w)
      BY <3>1 DEF ReadyUrl
    <3>2. CASE ReadySession(w)
      BY <3>2 DEF ReadySession
    <3>3. CASE Respond(w)
      BY <3>3 DEF Respond
    <3>4. CASE Order(w)
      BY <3>4 DEF Order, Return
    <3>5. CASE Ignore(w)
      BY <3>5 DEF Ignore, Return
    <3>6. CASE Choose(w)
      BY <3>6 DEF Choose
    <3>7. CASE Identify(w)
      <4>1. can_reconnect' /\ identified'
        BY <3>7, Zenon DEF Identify
      <4> QED
        BY <3>7, <4>1 DEF Identify, Running
    <3>8. CASE WriteHandshake(w)
      BY <3>8 DEF WriteHandshake, Running
    <3>9. CASE StartBeats(w)
      BY <3>9 DEF StartBeats, Return
    <3>10. CASE RequestedBeat(w)
      BY <3>10 DEF RequestedBeat, SendHeartbeat, Return, Running
    <3> QED
      BY <2>3, <3>1, <3>2, <3>3, <3>4, <3>5, <3>6, <3>7, <3>8, <3>9, <3>10
         DEF ShortStep
  <2>4. CASE BeatCheck
    BY <2>4 DEF BeatCheck
  <2>5. CASE BeatWrite
    BY <2>5 DEF BeatWrite, SendHeartbeat, Running
  <2>6. CASE UNCHANGED vars
    BY <2>6 DEF vars
  <2> QED
    BY <2>1, <2>2, <2>3, <2>4, <2>5, <2>6 DEF Next, Stopped
<1> QED
  BY <1>1, <1>2, TypeCorrect, PTL DEF Spec

\* connect_and_receive_events returns only before the first identify payload or
\* after a refusal, whatever the threads, the network and the bounds.
THEOREM ExitIsJustified == Spec => []ExitJustified
  BY ReconnectInvHolds, PTL

\* No second dial and no resume payload before some handler has identified.
THEOREM IdentifyFirst == Spec => []IdentifyComesFirst
<1>1. ReconnectInv /\ TypeOK => IdentifyComesFirst
  BY DEF ReconnectInv, Handshaken, IdentifyComesFirst, TypeOK
<1> QED
  BY <1>1, ReconnectInvHolds, TypeCorrect, PTL

----------------------------------------------------------------------------
(* Where the numbers come from that Discord is told.                        *)

\* Every message on its way to event_order or sessid was delivered, and every
\* copy of those two was taken when they held a delivered value.
TraceInv ==
    /\ mailbox # NoMsg => mailbox \in delivered
    /\ \A w \in Workers : pc[w] # "idle" => msg[w] \in delivered
    /\ NamedBy(sessid)
    /\ \A w \in Workers : SentBy(payload[w].seq) /\ NamedBy(payload[w].sid)

LEMMA TraceInvHolds == Spec => [](TraceInv /\ NothingInvented)
<1> DEFINE Inv == TraceInv /\ NothingInvented
<1>1. Init => Inv
  BY DEF Init, TraceInv, NothingInvented, SentBy, NamedBy, NoPayload
<1>2. TypeOK /\ Inv /\ [Next]_vars => Inv'
  <2> SUFFICES ASSUME TypeOK, TraceInv, NothingInvented, [Next]_vars PROVE Inv'
    OBVIOUS
  <2> USE DEF TraceInv, NothingInvented, SentBy, NamedBy
  <2>1. ASSUME MainThread PROVE Inv'
    <3>1. CASE Connect
      BY <3>1 DEF Connect
    <3>2. CASE ServiceReturn
      BY <3>2 DEF ServiceReturn, TakeMail, TypeOK
    <3>3. CASE Close
      BY <3>3 DEF Close
    <3>4. CASE Redial
      BY <3>4 DEF Redial
    <3>5. CASE Quit
      BY <3>5 DEF Quit
    <3> QED
      BY <2>1, <3>1, <3>2, <3>3, <3>4, <3>5 DEF MainThread
  <2>2. ASSUME Network PROVE Inv'
    <3>1. CASE Established \/ Disconnected \/ Reconnek
      BY <3>1 DEF Established, Disconnected, Reconnek
    <3>2. ASSUME NEW code \in {"auth", "stale", "other"}, PeerClose(code)
          PROVE Inv'
      BY <3>2 DEF PeerClose
    <3>3. ASSUME NEW d \in BOOLEAN, InvalidSession(d) PROVE Inv'
      BY <3>3 DEF InvalidSession
    <3>4. ASSUME NEW kind, NEW s, NEW sid, Deliver(kind, s, sid) PROVE Inv'
      BY SMTT(60), <3>4 DEF Deliver
    <3> QED
      BY <2>2, <3>1, <3>2, <3>3, <3>4 DEF Network, SayHello, Ready, Event, Pulse
  <2>3. ASSUME NEW w \in Workers, ShortStep(w) \/ Respond(w) PROVE Inv'
    <3> USE DEF At, Goto, TypeOK
    <3>1. CASE ReadyUrl(w)
      BY <3>1 DEF ReadyUrl
    <3>2. CASE ReadySession(w)
      BY <3>2 DEF ReadySession
    <3>3. CASE Respond(w)
      BY <3>3 DEF Respond
    <3>4. CASE Order(w)
      BY <3>4 DEF Order, Return
    <3>5. CASE Ignore(w)
      BY <3>5 DEF Ignore, Return
    <3>6. CASE Choose(w)
      BY SMTT(60), <3>6 DEF Choose
    <3>7. CASE Identify(w)
      BY SMTT(60), <3>7 DEF Identify
    <3>8. CASE WriteHandshake(w)
      <4>1. \A v \in Workers : /\ SentBy(payload'[v].seq)
                               /\ NamedBy(payload'[v].sid)
        BY <3>8 DEF WriteHandshake, NoPayload
      <4>2. \A i \in DOMAIN handshakes' : \/ handshakes'[i] = payload[w]
                                         \/ /\ i \in DOMAIN handshakes
                                            /\ handshakes'[i] = handshakes[i]
        <5>1. payload[w] \in Payload /\ handshakes \in Seq(Payload)
          BY <3>8 DEF WriteHandshake
        <5>2. CASE link = "open"
          <6>1. handshakes' = Append(handshakes, payload[w])
            BY <3>8, <5>2 DEF WriteHandshake, ServerTakes
          <6> QED
            BY <5>1, <6>1
        <5>3. CASE link # "open"
          BY <3>8, <5>3 DEF WriteHandshake
        <5> QED
          BY <5>2, <5>3
      <4> QED
        BY SMTT(60), <3>8, <4>1, <4>2 DEF WriteHandshake
    <3>9. CASE StartBeats(w)
      BY <3>9 DEF StartBeats, Return
    <3>10. CASE RequestedBeat(w)
      BY <3>10 DEF RequestedBeat, SendHeartbeat, Return
    <3> QED
      BY <2>3, <3>1, <3>2, <3>3, <3>4, <3>5, <3>6, <3>7, <3>8, <3>9, <3>10
         DEF ShortStep
  <2>4. CASE BeatCheck
    BY <2>4 DEF BeatCheck
  <2>5. CASE BeatWrite
    BY <2>5 DEF BeatWrite, SendHeartbeat
  <2>6. CASE UNCHANGED vars
    BY <2>6 DEF vars
  <2> QED
    BY <2>1, <2>2, <2>3, <2>4, <2>5, <2>6 DEF Next, Stopped
<1> QED
  BY <1>1, <1>2, TypeCorrect, PTL DEF Spec

\* Slow, stale and reordered handlers can make event_order old, never invented;
\* and a resume never names a session that no READY announced.
THEOREM NeverInvents == Spec => []NothingInvented
  BY TraceInvHolds, PTL

----------------------------------------------------------------------------
(* Whom a session can be resumed with.                                      *)

\* A READY names a session, and its thread stores the host before the session.
HostInv ==
    /\ stage = "starting" => session # 0
    /\ mailbox.kind = "READY" => mailbox.sid # 0
    /\ \A w \in Workers : /\ pc[w] = "url" => msg[w].sid # 0
                          /\ pc[w] = "sess" => reconnect_url # 0

\* A client that has a session id has a host to resume it at, whatever else runs
\* between the two assignments of READY's thread.
THEOREM KnownHost == Spec => []KnownSessionKnownHost
<1> DEFINE Inv == HostInv /\ KnownSessionKnownHost
<1>1. Init => Inv
  BY DEF Init, HostInv, KnownSessionKnownHost, NoMsg
<1>2. TypeOK /\ Inv /\ [Next]_vars => Inv'
  <2> SUFFICES ASSUME TypeOK, HostInv, KnownSessionKnownHost, [Next]_vars PROVE Inv'
    OBVIOUS
  <2> USE DEF HostInv, KnownSessionKnownHost
  <2>1. ASSUME MainThread PROVE Inv'
    <3>1. CASE Connect
      BY <3>1 DEF Connect
    <3>2. CASE ServiceReturn
      <4>1. mailbox # NoMsg => /\ mailbox.kind \in Kinds
                               /\ FirstStep[mailbox.kind] = "url" => mailbox.kind = "READY"
                               /\ FirstStep[mailbox.kind] # "sess"
        BY DEF TypeOK, Message, Kinds, FirstStep
      <4> QED
        BY <3>2, <4>1 DEF ServiceReturn, TakeMail, TypeOK, NoMsg
    <3>3. CASE Close \/ Quit
      BY <3>3 DEF Close, Quit
    <3>4. CASE Redial
      BY <3>4 DEF Redial, NoMsg
    <3> QED
      BY <2>1, <3>1, <3>2, <3>3, <3>4 DEF MainThread
  <2>2. ASSUME Network PROVE Inv'
    <3>1. CASE Established \/ Disconnected \/ Reconnek
      BY <3>1 DEF Established, Disconnected, Reconnek
    <3>2. ASSUME NEW code \in {"auth", "stale", "other"}, PeerClose(code)
          PROVE Inv'
      BY <3>2 DEF PeerClose
    <3>3. ASSUME NEW d \in BOOLEAN, InvalidSession(d) PROVE Inv'
      BY <3>3 DEF InvalidSession
    <3>4. ASSUME NEW kind, NEW s, NEW sid, Deliver(kind, s, sid),
                 kind = "READY" => sid # 0, stage' # "starting"
          PROVE Inv'
      BY <3>4 DEF Deliver
    <3>5. CASE SayHello \/ Ready
      BY <3>4, <3>5 DEF SayHello, Ready
    <3>6. ASSUME NEW kind \in {"INTERACTION", "EVENT"}, Event(kind) PROVE Inv'
      BY <3>4, <3>6 DEF Event
    <3>7. ASSUME NEW kind \in {"HEARTBEAT", "ACK"}, Pulse(kind) PROVE Inv'
      BY <3>4, <3>7 DEF Pulse
    <3> QED
      BY <2>2, <3>1, <3>2, <3>3, <3>5, <3>6, <3>7 DEF Network
  <2>3. ASSUME NEW w \in Workers, ShortStep(w) \/ Respond(w) PROVE Inv'
    <3> USE DEF At, Goto, Return, TypeOK
    <3>1. CASE ReadyUrl(w)
      BY <3>1 DEF ReadyUrl
    <3>2. CASE ReadySession(w)
      BY <3>2 DEF ReadySession
    <3>3. CASE Respond(w) \/ Order(w) \/ Ignore(w)
      BY <3>3 DEF Respond, Order, Ignore
    <3>4. CASE Choose(w) \/ Identify(w)
      BY <3>4 DEF Choose, Identify
    <3>5. CASE WriteHandshake(w)
      <4>1. stage' = "starting" => session' # 0
        BY <3>5 DEF WriteHandshake, ServerTakes, Sids
      <4> QED
        BY <3>5, <4>1 DEF WriteHandshake
    <3>6. CASE StartBeats(w) \/ RequestedBeat(w)
      BY <3>6 DEF StartBeats, RequestedBeat, SendHeartbeat
    <3> QED
      BY <2>3, <3>1, <3>2, <3>3, <3>4, <3>5, <3>6 DEF ShortStep
  <2>4. CASE BeatCheck \/ BeatWrite
    BY <2>4 DEF BeatCheck, BeatWrite, SendHeartbeat
  <2>5. CASE UNCHANGED vars
    BY <2>5 DEF vars
  <2> QED
    BY <2>1, <2>2, <2>3, <2>4, <2>5 DEF Next, Stopped
<1> QED
  BY <1>1, <1>2, TypeCorrect, PTL DEF Spec

----------------------------------------------------------------------------
(* One handshake for each connection, when threads end before the redial.   *)

\* The threads of a Hello that have not written yet.
Greeting(w) == pc[w] \in {"choose", "identify", "write"}
NoGreeting ==
    /\ \A w \in Workers : ~Greeting(w)
    /\ mailbox.kind # "HELLO"

\* A connection's one Hello is still to come, in the mailbox, in one thread, or
\* answered; and nothing of it is left when the next connection is dialled.
HelloInv ==
    /\ OneHandshake
    /\ handshakes # <<>> => NoGreeting /\ stage # "fresh"
    /\ mailbox.kind = "HELLO" => stage # "fresh" /\ \A w \in Workers : ~Greeting(w)
    /\ \A v, w \in Workers : Greeting(v) /\ Greeting(w) => v = w
    /\ \A w \in Workers : Greeting(w) => stage # "fresh"
    /\ loop = "connect" => NoGreeting
    /\ link = "dialing" => stage = "fresh"

\* A heartbeat is only on its way after a handshake, or on a connection that was
\* lost before its handshake was written.
Beating ==
    \/ sending_heartbeats \/ due > 0 \/ mailbox.kind = "HEARTBEAT"
    \/ \E w \in Workers : pc[w] \in {"start", "beat"}
BeatInv ==
    /\ Beating => handshakes # <<>> \/ link \in {"none", "closing"}
    /\ stage \in {"starting", "live", "refused"} => handshakes # <<>>
    /\ loop = "connect" => ~Beating
    /\ NoEarlyBeat

\* A refusal comes after the handshake, and nobody can set can_reconnect again.
RefusedInv ==
    verdict \in Refusals =>
        /\ ~can_reconnect /\ handshakes # <<>> /\ link \in {"none", "closing"}
        /\ loop # "connect"

PromptInv == HelloInv /\ BeatInv /\ RefusedInv

LEMMA PromptMain ==
    ASSUME Prompt, TypeOK, PromptInv, MainThread
    PROVE  PromptInv'
<1> USE DEF PromptInv, HelloInv, BeatInv, RefusedInv, NoGreeting, Greeting, Beating,
            OneHandshake, NoEarlyBeat
<1>1. CASE Connect
  BY <1>1 DEF Connect, TypeOK
<1>2. CASE ServiceReturn
  <2>1. mailbox # NoMsg =>
           /\ mailbox.kind \in Kinds
           /\ FirstStep[mailbox.kind] \notin {"identify", "write", "start"}
           /\ FirstStep[mailbox.kind] = "choose" => mailbox.kind = "HELLO"
           /\ FirstStep[mailbox.kind] = "beat" => mailbox.kind = "HEARTBEAT"
    BY DEF TypeOK, Message, Kinds, FirstStep
  <2>2. CASE UNCHANGED <<mailbox, pc, msg>>
    BY <1>2, <2>2 DEF ServiceReturn, AfterService
  <2>3. ASSUME NEW w \in Workers, TakeMail(w) PROVE PromptInv'
    <3>1. /\ mailbox # NoMsg /\ mailbox' = NoMsg /\ NoMsg.kind = "none"
          /\ pc'[w] = FirstStep[mailbox.kind] /\ pc[w] = "idle"
          /\ \A v \in Workers \ {w} : pc'[v] = pc[v]
      BY <2>3 DEF TakeMail, TypeOK, NoMsg
    <3>2. UNCHANGED <<handshakes, stage, link, sending_heartbeats, due, earlyBeat, verdict,
                      can_reconnect>> /\ loop' # "connect"
      BY <1>2 DEF ServiceReturn, AfterService
    <3>3. HelloInv'
      BY <2>1, <3>1, <3>2
    <3>4. BeatInv'
      BY <2>1, <3>1, <3>2
    <3> QED
      BY <3>2, <3>3, <3>4
  <2> QED
    BY <1>2, <2>2, <2>3 DEF ServiceReturn
<1>3. CASE Close
  BY <1>3 DEF Close
<1>4. CASE Redial
  <2>1. Settled /\ can_reconnect /\ mailbox' = NoMsg /\ NoMsg.kind = "none"
    BY <1>4 DEF Redial, NoMsg
  <2>2. due = 0 /\ \A w \in Workers : pc[w] \notin {"choose", "identify", "write", "start", "beat"}
    BY <2>1 DEF Settled, Short, PCs
  <2> QED
    BY <1>4, <2>1, <2>2 DEF Redial
<1>5. CASE Quit
  BY SMTT(60), <1>5 DEF Quit
<1> QED
  BY <1>1, <1>2, <1>3, <1>4, <1>5 DEF MainThread

LEMMA PromptNetwork ==
    ASSUME TypeOK, PromptInv, Network
    PROVE  PromptInv'
<1> USE DEF PromptInv, HelloInv, BeatInv, RefusedInv, NoGreeting, Greeting, Beating,
            OneHandshake, NoEarlyBeat
<1>1. CASE Established \/ Disconnected \/ Reconnek
  BY <1>1 DEF Established, Disconnected, Reconnek
<1>2. ASSUME NEW code \in {"auth", "stale", "other"}, PeerClose(code) PROVE PromptInv'
  BY <1>2 DEF PeerClose, Fatal, Refusals
<1>3. ASSUME NEW d \in BOOLEAN, InvalidSession(d) PROVE PromptInv'
  BY <1>3 DEF InvalidSession, Refusals
<1>4. CASE SayHello
  <2>1. stage = "fresh" /\ stage' = "greeted" /\ handshakes = <<>> /\ mailbox'.kind = "HELLO"
    BY <1>4 DEF SayHello, Deliver
  <2> QED
    BY <1>4, <2>1 DEF SayHello, Deliver
<1>5. ASSUME NEW kind \in Kinds \ {"HELLO"}, NEW s, NEW sid, Deliver(kind, s, sid),
             stage \in {"starting", "live"}, stage' \in {"starting", "live"}
      PROVE  PromptInv'
  <2>1. mailbox'.kind = kind
    BY <1>5 DEF Deliver
  <2> QED
    BY <1>5, <2>1 DEF Deliver
<1>6. CASE Ready
  BY <1>5, <1>6 DEF Ready, Kinds
<1>7. ASSUME NEW kind \in {"INTERACTION", "EVENT"}, Event(kind) PROVE PromptInv'
  BY <1>5, <1>7 DEF Event, Kinds
<1>8. ASSUME NEW kind \in {"HEARTBEAT", "ACK"}, Pulse(kind) PROVE PromptInv'
  BY <1>5, <1>8 DEF Pulse, Kinds
<1> QED
  BY <1>1, <1>2, <1>3, <1>4, <1>6, <1>7, <1>8 DEF Network

LEMMA PromptThread ==
    ASSUME TypeOK, PromptInv, NEW w \in Workers, ShortStep(w) \/ Respond(w)
    PROVE  PromptInv'
<1> USE DEF PromptInv, HelloInv, BeatInv, RefusedInv, NoGreeting, Greeting, Beating,
            OneHandshake, NoEarlyBeat, At, Goto, Return
<1>0. pc \in [Workers -> PCs]
  BY DEF TypeOK
<1>1. CASE ReadyUrl(w) \/ ReadySession(w) \/ Respond(w)
  BY <1>0, <1>1 DEF ReadyUrl, ReadySession, Respond
<1>2. CASE Order(w) \/ Ignore(w)
  BY <1>0, <1>2 DEF Order, Ignore
<1>3. CASE Choose(w)
  BY <1>0, <1>3 DEF Choose
<1>4. CASE Identify(w)
  BY <1>0, <1>4 DEF Identify
<1>5. CASE WriteHandshake(w)
  <2>1. /\ handshakes = <<>> /\ mailbox.kind # "HELLO" /\ stage # "fresh"
        /\ loop # "connect" /\ \A v \in Workers \ {w} : ~Greeting(v)
    BY <1>5 DEF WriteHandshake
  <2>2. /\ pc'[w] = "start" /\ \A v \in Workers \ {w} : pc'[v] = pc[v]
        /\ UNCHANGED <<mailbox, link, can_reconnect, sending_heartbeats, due, earlyBeat,
                       verdict>>
        /\ loop' # "connect" /\ link # "dialing"
    BY <1>0, <1>5, <2>1 DEF WriteHandshake
  <2>3. CASE link = "open"
    <3>1. handshakes' = <<payload[w]>> /\ stage' # "fresh"
      BY <1>5, <2>1, <2>3 DEF WriteHandshake, ServerTakes
    <3>2. Len(handshakes') = 1 /\ handshakes' # <<>>
      BY <3>1
    <3> QED
      BY <2>1, <2>2, <2>3, <3>1, <3>2
  <2>4. CASE link # "open"
    <3>1. UNCHANGED <<handshakes, stage>> /\ link \in {"none", "closing"}
      BY <1>5, <2>2, <2>4 DEF WriteHandshake, TypeOK
    <3> QED
      BY <2>1, <2>2, <3>1
  <2> QED
    BY <2>3, <2>4
<1>6. CASE StartBeats(w)
  BY <1>0, <1>6 DEF StartBeats
<1>7. CASE RequestedBeat(w)
  BY <1>0, <1>7 DEF RequestedBeat, SendHeartbeat
<1> QED
  BY <1>1, <1>2, <1>3, <1>4, <1>5, <1>6, <1>7 DEF ShortStep

LEMMA PromptInvHolds ==
    ASSUME Prompt PROVE Spec => []PromptInv
<1>1. Init => PromptInv
  BY DEF Init, PromptInv, HelloInv, BeatInv, RefusedInv, NoGreeting, Greeting, Beating,
         OneHandshake, NoEarlyBeat, NoMsg, Refusals
<1>2. TypeOK /\ PromptInv /\ [Next]_vars => PromptInv'
  <2> SUFFICES ASSUME TypeOK, PromptInv, [Next]_vars PROVE PromptInv'
    OBVIOUS
  <2>1. CASE BeatCheck \/ BeatWrite
    BY <2>1 DEF BeatCheck, BeatWrite, Usable, SendHeartbeat, PromptInv, HelloInv, BeatInv,
                RefusedInv, NoGreeting, Greeting, Beating, OneHandshake, NoEarlyBeat, TypeOK
  <2>2. CASE UNCHANGED vars
    BY <2>2 DEF vars, PromptInv, HelloInv, BeatInv, RefusedInv, NoGreeting, Greeting,
                Beating, OneHandshake, NoEarlyBeat
  <2> QED
    BY <2>1, <2>2, PromptMain, PromptNetwork, PromptThread DEF Next, Stopped
<1> QED
  BY <1>1, <1>2, TypeCorrect, PTL DEF Spec

\* If short threads end before the redial each connection carries one handshake.
THEOREM HandshakeOnce ==
    ASSUME Prompt PROVE Spec => []OneHandshake
<1>1. PromptInv => OneHandshake
  BY DEF PromptInv, HelloInv
<1> QED
  BY <1>1, PromptInvHolds, PTL

\* Under the same condition no heartbeat goes before the handshake.
THEOREM BeatsAfterHandshake ==
    ASSUME Prompt PROVE Spec => []NoEarlyBeat
<1>1. PromptInv => NoEarlyBeat
  BY DEF PromptInv, BeatInv
<1> QED
  BY <1>1, PromptInvHolds, PTL

\* And the program dials no more once its token was refused.
THEOREM RefusalIsFinal ==
    ASSUME Prompt PROVE Spec => RefusalFinal
<1>1. PromptInv /\ [Next]_vars => (conn' # conn => verdict # "auth")
  <2> SUFFICES ASSUME PromptInv, [Next]_vars, conn' # conn PROVE loop = "connect"
    BY DEF PromptInv, RefusedInv, Refusals
  <2>1. CASE Network
    BY <2>1 DEF Network, Established, Disconnected, Reconnek, PeerClose, InvalidSession,
                SayHello, Ready, Event, Pulse, Deliver
  <2>2. ASSUME NEW w \in Workers, ShortStep(w) \/ Respond(w) PROVE conn' = conn
    BY <2>2 DEF ShortStep, ReadyUrl, ReadySession, Respond, Order, Ignore, Choose, Identify,
                WriteHandshake, StartBeats, RequestedBeat, At
  <2>3. CASE MainThread
    BY <2>3 DEF MainThread, Connect, ServiceReturn, Close, Redial, Quit
  <2> QED
    BY <2>1, <2>2, <2>3 DEF Next, Stopped, BeatCheck, BeatWrite, vars
<1> QED
  BY <1>1, PromptInvHolds, PTL DEF Spec, RefusalFinal

----------------------------------------------------------------------------
(* How many heartbeat loops there can be.                                   *)

\* The threads of a Hello, one for each that was taken out of the mailbox.
Hellos(at) == {w \in Workers : at[w] \in {"choose", "identify", "write", "start"}}
InMail(mail) == IF mail.kind = "HELLO" THEN 1 ELSE 0
ToCome(progress, state) == IF progress = "fresh" /\ state \in {"dialing", "open"} THEN 1 ELSE 0

\* A connection is at most one Hello: to come, in the mailbox, in a thread or in
\* the heartbeat loop that the thread has become.
LoopInv ==
    /\ IsFiniteSet(Hellos(pc))
    /\ Cardinality(Hellos(pc)) + InMail(mailbox) + ToCome(stage, link) + sleeping + due <= conn

\* What a step that changes the set of these threads by one does to their number.
LEMMA OneMore ==
    ASSUME NEW S, IsFiniteSet(S), NEW e, e \notin S
    PROVE  /\ IsFiniteSet(S \cup {e}) /\ Cardinality(S \cup {e}) = Cardinality(S) + 1
           /\ Cardinality(S) \in Nat
BY FS_AddElement, FS_CardinalityType

LEMMA OneLess ==
    ASSUME NEW S, IsFiniteSet(S), NEW e \in S
    PROVE  /\ IsFiniteSet(S \ {e}) /\ Cardinality(S \ {e}) = Cardinality(S) - 1
           /\ Cardinality(S) \in Nat
BY FS_RemoveElement, FS_CardinalityType

\* Every heartbeat loop belongs to a connection of its own, in spite of the
\* overwritten mailbox and of threads that outlive their connection.
THEOREM LoopsBounded == Spec => []LoopsWithinConnections
<1>1. Init => LoopInv
  <2> SUFFICES ASSUME Init PROVE LoopInv
    OBVIOUS
  <2>1. Hellos(pc) = {} /\ InMail(mailbox) = 0 /\ ToCome(stage, link) = 0
    BY DEF Init, Hellos, InMail, ToCome, NoMsg
  <2> QED
    BY SMTT(60), <2>1, FS_EmptySet DEF Init, LoopInv
<1>2. TypeOK /\ LoopInv /\ [Next]_vars => LoopInv'
  <2> SUFFICES ASSUME TypeOK, LoopInv, [Next]_vars PROVE LoopInv'
    OBVIOUS
  <2>0. /\ pc \in [Workers -> PCs] /\ sleeping \in Nat /\ due \in Nat /\ conn \in Nat
        /\ Cardinality(Hellos(pc)) \in Nat /\ IsFiniteSet(Hellos(pc))
        /\ InMail(mailbox) \in Nat /\ ToCome(stage, link) \in Nat
        /\ Cardinality(Hellos(pc)) + InMail(mailbox) + ToCome(stage, link) + sleeping + due <= conn
    BY FS_CardinalityType, GatewayAssumption DEF TypeOK, LoopInv, InMail, ToCome
  \* The steps that leave the threads of the Hellos(pc) alone.
  <2>1. ASSUME Hellos(pc') = Hellos(pc), InMail(mailbox') \in Nat, ToCome(stage', link') \in Nat,
               sleeping' \in Nat, due' \in Nat, conn' \in Nat,
               InMail(mailbox') + ToCome(stage', link') + sleeping' + due' + conn
                  <= InMail(mailbox) + ToCome(stage, link) + sleeping + due + conn'
        PROVE  LoopInv'
    <3>1. IsFiniteSet(Hellos(pc')) /\ Cardinality(Hellos(pc')) = Cardinality(Hellos(pc))
      BY <2>0, <2>1
    <3>2. Cardinality(Hellos(pc')) + InMail(mailbox') + ToCome(stage', link') + sleeping' + due' <= conn'
      BY <2>0, <2>1, <3>1
    <3> QED
      BY <3>1, <3>2 DEF LoopInv
  <2>2. ASSUME UNCHANGED pc PROVE Hellos(pc') = Hellos(pc)
    BY <2>2 DEF Hellos
  <2>3. /\ ToCome(stage', link') \in Nat /\ ToCome(stage', link') <= 1
        /\ InMail(mailbox') \in Nat /\ InMail(mailbox') <= 1
        /\ UNCHANGED mailbox => InMail(mailbox') = InMail(mailbox)
        /\ UNCHANGED link /\ (UNCHANGED stage \/ stage' # "fresh") => ToCome(stage', link') <= ToCome(stage, link)
    BY DEF ToCome, InMail
  \* The steps that leave those threads and the loops alone.
  <2>4. ASSUME UNCHANGED <<pc, sleeping, due, conn>>, InMail(mailbox') + ToCome(stage', link') <= InMail(mailbox) + ToCome(stage, link)
        PROVE  LoopInv'
    <3>1. Hellos(pc') = Hellos(pc)
      BY <2>2, <2>4
    <3>2. InMail(mailbox') + ToCome(stage', link') + sleeping' + due' + conn <= InMail(mailbox) + ToCome(stage, link) + sleeping + due + conn'
      BY <2>0, <2>3, <2>4
    <3> QED
      BY <2>0, <2>1, <2>3, <2>4, <3>1, <3>2
  <2>5. CASE MainThread
    <3>1. CASE Connect
      <4>1. UNCHANGED <<pc, mailbox, sleeping, due>> /\ conn' = conn + 1
        BY <3>1 DEF Connect
      <4> QED
        BY <2>0, <2>1, <2>2, <2>3, <4>1
    <3>2. CASE ServiceReturn
      <4>1. UNCHANGED <<conn, sleeping, due>> /\ ToCome(stage', link') = ToCome(stage, link)
        BY <3>2 DEF ServiceReturn, ToCome
      <4>2. CASE UNCHANGED <<mailbox, pc, msg>>
        BY <2>0, <2>3, <2>4, <4>1, <4>2
      <4>3. ASSUME NEW w \in Workers, TakeMail(w) PROVE LoopInv'
        <5>1. /\ mailbox # NoMsg /\ mailbox.kind \in Kinds /\ mailbox' = NoMsg
              /\ pc[w] = "idle" /\ pc' = [pc EXCEPT ![w] = FirstStep[mailbox.kind]]
          BY <4>3 DEF TakeMail, TypeOK, Message
        <5>2. InMail(mailbox') = 0
          BY <5>1 DEF InMail, NoMsg
        <5>3. CASE mailbox.kind = "HELLO"
          <6>1. Hellos(pc') = Hellos(pc) \cup {w} /\ w \notin Hellos(pc) /\ InMail(mailbox) = 1
            BY <2>0, <5>1, <5>3 DEF Hellos, FirstStep, Kinds, InMail
          <6>2. IsFiniteSet(Hellos(pc')) /\ Cardinality(Hellos(pc')) = Cardinality(Hellos(pc)) + 1
            BY <2>0, <6>1, OneMore
          <6> QED
            BY <2>0, <4>1, <5>2, <6>1, <6>2 DEF LoopInv
        <5>4. CASE mailbox.kind # "HELLO"
          <6>1. FirstStep[mailbox.kind] \notin {"choose", "identify", "write", "start"}
            BY <5>1, <5>4 DEF FirstStep, Kinds
          <6>2. Hellos(pc') = Hellos(pc)
            BY <2>0, <5>1, <6>1 DEF Hellos
          <6> QED
            BY <2>0, <2>1, <2>3, <4>1, <5>2, <6>2
        <5> QED
          BY <5>3, <5>4
      <4> QED
        BY <3>2, <4>2, <4>3 DEF ServiceReturn
    <3>3. CASE Close \/ Redial \/ Quit
      <4>1. /\ UNCHANGED <<pc, stage, link, conn, sleeping, due>>
            /\ mailbox' \in {mailbox, NoMsg}
        BY <3>3 DEF Close, Redial, Quit
      <4>2. InMail(mailbox') <= InMail(mailbox) /\ ToCome(stage', link') = ToCome(stage, link)
        BY <4>1 DEF InMail, ToCome, NoMsg
      <4> QED
        BY <2>0, <2>3, <2>4, <4>1, <4>2
    <3> QED
      BY <2>5, <3>1, <3>2, <3>3 DEF MainThread
  <2>6. CASE Network
    <3>1. UNCHANGED <<pc, conn, sleeping, due>>
      BY <2>6 DEF Network, Established, Disconnected, Reconnek, PeerClose, InvalidSession,
                  SayHello, Ready, Event, Pulse, Deliver
    <3>2. CASE SayHello
      <4>1. stage = "fresh" /\ stage' = "greeted" /\ link = "open"
        BY <3>2 DEF SayHello, Deliver
      <4>2. ToCome(stage, link) = 1 /\ ToCome(stage', link') = 0
        BY <4>1 DEF ToCome
      <4> QED
        BY <2>0, <2>3, <2>4, <3>1, <4>2
    <3>3. ASSUME NEW kind \in Kinds \ {"HELLO"}, NEW s, NEW sid, Deliver(kind, s, sid),
                 UNCHANGED stage \/ stage' # "fresh"
          PROVE  LoopInv'
      <4>1. InMail(mailbox') = 0 /\ UNCHANGED link
        BY <3>3 DEF Deliver, InMail
      <4> QED
        BY <2>0, <2>3, <2>4, <3>1, <3>3, <4>1
    <3>4. CASE Ready
      BY <3>3, <3>4 DEF Ready, Kinds
    <3>5. ASSUME NEW kind \in {"INTERACTION", "EVENT"}, Event(kind) PROVE LoopInv'
      BY <3>3, <3>5 DEF Event, Kinds
    <3>6. ASSUME NEW kind \in {"HEARTBEAT", "ACK"}, Pulse(kind) PROVE LoopInv'
      BY <3>3, <3>6 DEF Pulse, Kinds
    <3>7. ASSUME UNCHANGED <<mailbox, stage>>,
                 UNCHANGED link \/ link' \in {"none", "closing"} \/ link = "dialing"
          PROVE  LoopInv'
      <4>1. InMail(mailbox') = InMail(mailbox) /\ ToCome(stage', link') <= ToCome(stage, link)
        BY <2>3, <3>7 DEF ToCome
      <4> QED
        BY <2>0, <2>3, <2>4, <3>1, <4>1
    <3>8. CASE Established \/ Disconnected \/ Reconnek
      BY <3>7, <3>8 DEF Established, Disconnected, Reconnek
    <3>9. ASSUME NEW code, PeerClose(code) PROVE LoopInv'
      BY <3>7, <3>9 DEF PeerClose
    <3>10. ASSUME NEW d, InvalidSession(d) PROVE LoopInv'
      BY <3>7, <3>10 DEF InvalidSession
    <3> QED
      BY <2>6, <3>2, <3>4, <3>5, <3>6, <3>8, <3>9, <3>10 DEF Network
  <2>7. ASSUME NEW w \in Workers, ShortStep(w) \/ Respond(w) PROVE LoopInv'
    <3> USE DEF At, Goto, Return
    <3>1. ASSUME pc'[w] \in {"choose", "identify", "write", "start"} <=>
                    pc[w] \in {"choose", "identify", "write", "start"},
                 \A v \in Workers \ {w} : pc'[v] = pc[v],
                 UNCHANGED <<mailbox, link, conn, sleeping, due>>,
                 UNCHANGED stage \/ stage' # "fresh"
          PROVE  LoopInv'
      <4>1. Hellos(pc') = Hellos(pc)
        BY <3>1 DEF Hellos
      <4> QED
        BY <2>0, <2>1, <2>3, <3>1, <4>1
    <3>2. CASE ReadyUrl(w) \/ ReadySession(w) \/ Respond(w)
      BY <2>0, <3>1, <3>2 DEF ReadyUrl, ReadySession, Respond
    <3>3. CASE Order(w) \/ Ignore(w)
      BY <2>0, <3>1, <3>3 DEF Order, Ignore
    <3>4. CASE Choose(w) \/ Identify(w)
      BY <2>0, <3>1, <3>4 DEF Choose, Identify
    <3>5. CASE WriteHandshake(w)
      <4>1. UNCHANGED stage \/ stage' # "fresh"
        BY <3>5 DEF WriteHandshake, ServerTakes
      <4> QED
        BY <2>0, <3>1, <3>5, <4>1 DEF WriteHandshake
    <3>6. CASE StartBeats(w)
      <4>1. /\ pc[w] = "start" /\ pc' = [pc EXCEPT ![w] = "idle"]
            /\ UNCHANGED <<mailbox, link, stage, conn, due>> /\ sleeping' = sleeping + 1
        BY <3>6 DEF StartBeats
      <4>2. Hellos(pc') = Hellos(pc) \ {w} /\ w \in Hellos(pc)
        BY <2>0, <4>1 DEF Hellos
      <4>3. IsFiniteSet(Hellos(pc')) /\ Cardinality(Hellos(pc')) = Cardinality(Hellos(pc)) - 1
        BY <2>0, <4>2, OneLess
      <4> QED
        BY <2>0, <2>3, <4>1, <4>3 DEF LoopInv
    <3>7. CASE RequestedBeat(w)
      BY <2>0, <3>1, <3>7 DEF RequestedBeat, SendHeartbeat
    <3> QED
      BY <2>7, <3>2, <3>3, <3>4, <3>5, <3>6, <3>7 DEF ShortStep
  <2>8. CASE BeatCheck \/ BeatWrite
    <3>1. /\ UNCHANGED <<pc, mailbox, link, stage, conn>>
          /\ \/ sleeping > 0 /\ sleeping' = sleeping - 1 /\ due' = due + 1
             \/ due > 0 /\ due' = due - 1 /\ sleeping' = sleeping + 1
      BY <2>8 DEF BeatCheck, BeatWrite, SendHeartbeat
    <3> QED
      BY <2>0, <2>1, <2>2, <2>3, <3>1
  <2>9. CASE UNCHANGED vars
    BY <2>0, <2>3, <2>4, <2>9 DEF vars
  <2> QED
    BY <2>5, <2>6, <2>7, <2>8, <2>9 DEF Next, Stopped
<1>3. TypeOK /\ LoopInv => LoopsWithinConnections
  <2> SUFFICES ASSUME TypeOK, LoopInv PROVE LoopsWithinConnections
    OBVIOUS
  <2>1. Cardinality(Hellos(pc)) \in Nat /\ InMail(mailbox) \in Nat /\ ToCome(stage, link) \in Nat
    BY FS_CardinalityType DEF LoopInv, InMail, ToCome
  <2> QED
    BY SMTT(60), <2>1, GatewayAssumption DEF LoopInv, TypeOK, LoopsWithinConnections
<1> QED
  BY <1>1, <1>2, <1>3, TypeCorrect, PTL DEF Spec
=============================================================================
