------------------------------ MODULE Gateway ------------------------------
(* The Gateway client of pilepoxyl/gateway.cpp: the main loop that dials,     *)
(* polls and redials Discord, the libwebsockets callback that fills a         *)
(* one-message mailbox, one detached thread per message                       *)
(* (determine_what_to_do), and one detached heartbeat loop per Hello.         *)
(*                                                                            *)
(* Every message here is shorter than one 4096-byte fragment; reassembly is   *)
(* the subject of Chunks.tla.  A session is named by the number of identify   *)
(* payloads the server has accepted; 0 stands for the empty string.           *)
EXTENDS Naturals, Sequences

CONSTANTS
    Workers,    \* bound: message threads alive at the same time
    MaxConns,   \* bound: connections dialled
    MaxSeq,     \* bound: events of one session
    Coalesce,   \* may one lws_service call deliver several messages?
    Prompt      \* do the short message threads end before the redial?

ASSUME GatewayAssumption ==
    /\ MaxConns \in Nat \ {0} /\ MaxSeq \in Nat \ {0}
    /\ Coalesce \in BOOLEAN /\ Prompt \in BOOLEAN

VARIABLES
    loop,               \* where the main thread is
    interface,          \* is the pointer to the socket non-null?
    can_reconnect, sending_heartbeats, event_order, reconnect_url, sessid,
    address,            \* cc_info.address, the host that is dialled
    mailbox,            \* received_message while new_payload, else NoMsg
    pc, msg, payload,   \* the message threads
    sleeping, due,      \* heartbeat loops asleep / past their check of line 228
    link,               \* external: the socket as libwebsockets holds it
    stage, session, seq,\* external: Discord's side of connection and session
    handshakes,         \* identify and resume payloads this connection carried
    earlyBeat,          \* did a heartbeat precede them?
    conn, identified, verdict, delivered  \* history, for the properties

flags   == <<can_reconnect, sending_heartbeats>>
resume  == <<event_order, reconnect_url, sessid>>
threads == <<pc, msg, payload>>
loops   == <<sleeping, due>>
discord == <<stage, session, seq, handshakes, earlyBeat>>
vars    == <<loop, interface, flags, resume, address, mailbox, threads, loops,
             link, discord, conn, identified, verdict, delivered>>

Sids     == Nat
Seqs     == 0..MaxSeq
Kinds    == {"HELLO", "READY", "INTERACTION", "EVENT", "HEARTBEAT", "ACK"}
Message  == [kind : Kinds, s : Seqs, sid : Sids]
NoMsg    == [kind |-> "none", s |-> 0, sid |-> 0]
Payload  == [op : {"identify", "resume"}, seq : Seqs, sid : Sids]
NoPayload== [op |-> "none", seq |-> 0, sid |-> 0]

\* The first step of the thread that handles a message of each kind.
NoUrl ==                \* mutant: READY's resume URL is not stored
    [k \in Kinds |-> CASE k = "HELLO" -> "choose"
                      [] k = "READY" -> "sess" [] k = "INTERACTION" -> "respond"
                      [] k = "EVENT" -> "order" [] k = "HEARTBEAT" -> "beat"
                      [] OTHER -> "return"]
NoHelloCase ==          \* mutant: no case for Hello
    [k \in Kinds |-> CASE k = "READY" -> "url" [] k = "INTERACTION" -> "respond"
                      [] k = "EVENT" -> "order" [] k = "HEARTBEAT" -> "beat"
                      [] OTHER -> "return"]
FirstStep ==
    [k \in Kinds |-> CASE k = "HELLO" -> "choose"
                      [] k = "READY" -> "url" [] k = "INTERACTION" -> "respond"
                      [] k = "EVENT" -> "order" [] k = "HEARTBEAT" -> "beat"
                      [] OTHER -> "return"]
PCs      == {"idle", "choose", "identify", "write", "start", "url", "sess",
             "respond", "order", "beat", "return"}
\* Threads that make no HTTP call and so end within a scheduling delay.
Short    == PCs \ {"idle", "respond", "order"}
Refusals == {"auth", "invalid"}

Running  == loop \notin {"done", "crashed"}
Settled  ==
    /\ due = 0
    /\ \A w \in Workers :
          /\ pc[w] \notin Short
          /\ pc[w] = "order" => msg[w].kind = "INTERACTION"

----------------------------------------------------------------------------
(* The main thread: connect_and_receive_events.                             *)

Init ==
    /\ loop = "connect" /\ interface = FALSE /\ address = "gateway"
    /\ can_reconnect = FALSE /\ sending_heartbeats = FALSE
    /\ event_order = 0 /\ reconnect_url = 0 /\ sessid = 0 /\ mailbox = NoMsg
    /\ pc = [w \in Workers |-> "idle"]
    /\ msg = [w \in Workers |-> NoMsg]
    /\ payload = [w \in Workers |-> NoPayload]
    /\ sleeping = 0 /\ due = 0
    /\ link = "none" /\ stage = "fresh" /\ session = 0 /\ seq = 0
    /\ handshakes = <<>> /\ earlyBeat = FALSE
    /\ conn = 0 /\ identified = FALSE /\ verdict = "none" /\ delivered = {}

\* What no step of the main thread outside lws_service touches.
MainThreadAt(place) ==
    /\ loop = place
    /\ UNCHANGED <<can_reconnect, reconnect_url, sessid, payload, loops, session,
                   seq, identified, verdict, delivered>>
SameLink == UNCHANGED <<interface, link, stage, handshakes, earlyBeat, conn>>

Connect ==
    /\ MainThreadAt("connect") /\ conn < MaxConns
    /\ loop' = "service" /\ interface' = TRUE /\ conn' = conn + 1
    /\ link' = "dialing" /\ stage' = "fresh"
    /\ handshakes' = <<>> /\ earlyBeat' = FALSE
    /\ UNCHANGED <<sending_heartbeats, event_order, address, mailbox, pc, msg>>

\* A pending message gets a thread of its own.
TakeMailTwice(w) ==     \* mutant: new_payload stays set
    /\ pc[w] = "idle" /\ mailbox # NoMsg /\ mailbox' = mailbox
    /\ pc' = [pc EXCEPT ![w] = FirstStep[mailbox.kind]]
    /\ msg' = [msg EXCEPT ![w] = mailbox]
TakeMail(w) ==
    /\ pc[w] = "idle" /\ mailbox # NoMsg /\ mailbox' = NoMsg
    /\ pc' = [pc EXCEPT ![w] = FirstStep[mailbox.kind]]
    /\ msg' = [msg EXCEPT ![w] = mailbox]

\* The loop polls again unless a callback has cleared the interface.
PollForever == "service"    \* mutant: the interface is not looked at
AfterService == IF interface THEN "service" ELSE "close"

ServiceReturn ==
    /\ MainThreadAt("service") /\ loop' = AfterService
    /\ \/ mailbox = NoMsg /\ UNCHANGED <<mailbox, pc, msg>>
       \/ \E w \in Workers : TakeMail(w)
    /\ SameLink /\ UNCHANGED <<sending_heartbeats, event_order, address>>

Close ==
    /\ MainThreadAt("close") /\ loop' = "decide"
    /\ sending_heartbeats' = FALSE
    /\ SameLink /\ UNCHANGED <<event_order, address, mailbox, pc, msg>>

\* The context is destroyed: redial after reconnect_init has reset the client,
\* or leave the program.
RedialAlways ==     \* mutant: can_reconnect is not looked at
    /\ MainThreadAt("decide") /\ (Prompt => Settled)
    /\ loop' = "connect"
    /\ sending_heartbeats' = FALSE /\ mailbox' = NoMsg /\ event_order' = 0
    /\ address' = IF reconnect_url = 0 THEN "empty" ELSE "resume"
    /\ SameLink /\ UNCHANGED <<pc, msg>>
Redial ==
    /\ MainThreadAt("decide") /\ (Prompt => Settled) /\ can_reconnect
    /\ loop' = "connect"
    /\ sending_heartbeats' = FALSE /\ mailbox' = NoMsg /\ event_order' = 0
    /\ address' = IF reconnect_url = 0 THEN "empty" ELSE "resume"
    /\ SameLink /\ UNCHANGED <<pc, msg>>

Quit ==
    /\ MainThreadAt("decide") /\ (Prompt => Settled) /\ ~can_reconnect
    /\ loop' = "done"
    /\ SameLink
    /\ UNCHANGED <<sending_heartbeats, event_order, address, mailbox, pc, msg>>

----------------------------------------------------------------------------
(* say_hello: the callbacks libwebsockets makes inside lws_service, on a     *)
(* link in the given state.                                                 *)

Callback(state) ==
    /\ loop = "service" /\ link = state
    /\ UNCHANGED <<loop, sending_heartbeats, resume, address, threads, loops,
                   session, handshakes, earlyBeat, conn, identified>>

Established ==
    /\ Callback("dialing") /\ address # "empty"
    /\ link' = "open"
    /\ UNCHANGED <<interface, can_reconnect, mailbox, stage, seq, verdict, delivered>>

\* CLIENT_CONNECTION_ERROR while dialling, CLIENT_CLOSED afterwards.
Disconnected ==
    /\ \E state \in {"dialing", "open", "closing"} : Callback(state)
    /\ link' = "none" /\ interface' = FALSE
    /\ UNCHANGED <<can_reconnect, mailbox, stage, seq, verdict, delivered>>

\* The peer's close frame: only GC_AUFAILED (4004) is looked at.
AnyCloseFatal(code) == TRUE     \* mutant: every close code ends the program
Fatal(code) == code = "auth"

PeerClose(code) ==
    /\ Callback("open")
    /\ code = "auth" => handshakes # <<>>
    /\ code = "stale" => stage = "refused"
    /\ can_reconnect' = (can_reconnect /\ ~Fatal(code))
    /\ link' = "closing"
    /\ verdict' = IF code = "other" THEN verdict ELSE code
    /\ UNCHANGED <<interface, mailbox, stage, seq, delivered>>

\* Opcode 7: the callback's return value makes libwebsockets close.
Reconnek ==
    /\ Callback("open") /\ stage = "live"
    /\ link' = "closing"
    /\ UNCHANGED <<interface, can_reconnect, mailbox, stage, seq, verdict, delivered>>

\* Opcode 9: d says whether the session can be resumed.
InvalidSession(d) ==
    /\ Callback("open") /\ handshakes # <<>>
    /\ can_reconnect' = d
    /\ link' = "closing"
    /\ verdict' = IF d THEN "none" ELSE "invalid"
    /\ UNCHANGED <<interface, mailbox, stage, seq, delivered>>

\* Any other opcode lands in the mailbox, whatever the mailbox held.
Deliver(kind, s, sid) ==
    LET m == [kind |-> kind, s |-> s, sid |-> sid]
    IN  /\ Callback("open") /\ (Coalesce \/ mailbox = NoMsg)
        /\ mailbox' = m /\ delivered' = delivered \cup {m}
        /\ UNCHANGED <<interface, can_reconnect, link, verdict>>

SayHello ==
    /\ stage = "fresh" /\ stage' = "greeted" /\ seq' = seq
    /\ Deliver("HELLO", 0, 0)

Ready ==
    /\ stage = "starting" /\ stage' = "live" /\ seq' = 1
    /\ Deliver("READY", 1, session)

Event(kind) ==
    /\ stage = "live" /\ seq < MaxSeq
    /\ stage' = stage /\ seq' = seq + 1
    /\ Deliver(kind, seq + 1, session)

\* A heartbeat request, or the acknowledgement of a heartbeat.
Pulse(kind) ==
    /\ stage = "live" /\ UNCHANGED <<stage, seq>>
    /\ Deliver(kind, 0, 0)

----------------------------------------------------------------------------
(* determine_what_to_do, in worker w; other threads run between its steps.  *)

OffLoop == UNCHANGED <<interface, address, mailbox, link, conn, verdict, delivered>>
At(w, step) == Running /\ pc[w] = step /\ OffLoop
Goto(w, step) == pc' = [pc EXCEPT ![w] = step] /\ msg' = msg
Return(w) == /\ pc' = [pc EXCEPT ![w] = "idle"]
             /\ msg' = [msg EXCEPT ![w] = NoMsg]

ReadyUrl(w) ==
    /\ At(w, "url") /\ Goto(w, "sess")
    /\ reconnect_url' = msg[w].sid
    /\ UNCHANGED <<loop, flags, event_order, sessid, payload, loops, discord, identified>>

ReadySession(w) ==
    /\ At(w, "sess") /\ Goto(w, "order")
    /\ sessid' = msg[w].sid
    /\ UNCHANGED <<loop, flags, event_order, reconnect_url, payload, loops, discord,
                   identified>>

\* respond_interaction returns after HTTP calls of any length (Interaction.tla).
Respond(w) ==
    /\ At(w, "respond") /\ Goto(w, "order")
    /\ UNCHANGED <<loop, flags, resume, payload, loops, discord, identified>>

OrderPlusOne(w) ==      \* mutant: the next number instead of the last one
    /\ At(w, "order") /\ Return(w)
    /\ event_order' = msg[w].s + 1
    /\ UNCHANGED <<loop, flags, reconnect_url, sessid, payload, loops, discord, identified>>
Order(w) ==
    /\ At(w, "order") /\ Return(w)
    /\ event_order' = msg[w].s
    /\ UNCHANGED <<loop, flags, reconnect_url, sessid, payload, loops, discord, identified>>

\* No case for this opcode (GW_HRTBTACK).
Ignore(w) ==
    /\ At(w, "return") /\ Return(w)
    /\ UNCHANGED <<loop, flags, resume, payload, loops, discord, identified>>

\* Hello: can_reconnect chooses between a resume and an identify payload.
Choose(w) ==
    /\ At(w, "choose")
    /\ \/ /\ can_reconnect /\ Goto(w, "write")
          /\ payload' = [payload EXCEPT ![w] =
                [op |-> "resume", seq |-> event_order, sid |-> sessid]]
       \/ ~can_reconnect /\ Goto(w, "identify") /\ UNCHANGED payload
    /\ UNCHANGED <<loop, flags, resume, loops, discord, identified>>

Identify(w) ==
    /\ At(w, "identify") /\ Goto(w, "write")
    /\ payload' = [payload EXCEPT ![w] = [op |-> "identify", seq |-> 0, sid |-> 0]]
    /\ can_reconnect' = TRUE /\ identified' = TRUE
    /\ UNCHANGED <<loop, sending_heartbeats, resume, loops, discord>>

\* External: Discord reads a handshake payload.
ServerTakes(p) ==
    /\ handshakes' = Append(handshakes, p)
    /\ \/ stage # "greeted" /\ UNCHANGED <<stage, session, seq>>
       \/ /\ stage = "greeted" /\ p.op = "identify"
          /\ session' = session + 1 /\ seq' = 0 /\ stage' = "starting"
       \/ /\ stage = "greeted" /\ p.op = "resume"
          /\ stage' = "refused" \/ (stage' = "live" /\ p.sid = session /\ session > 0)
          /\ UNCHANGED <<session, seq>>

\* lws_write on the interface of this moment: null kills the process, and a
\* frame written while the link is not open reaches nobody.
WriteHandshake(w) ==
    /\ At(w, "write") /\ Goto(w, "start")
    /\ payload' = [payload EXCEPT ![w] = NoPayload]
    /\ loop' = IF interface THEN loop ELSE "crashed"
    /\ \/ link = "open" /\ ServerTakes(payload[w])
       \/ link # "open" /\ UNCHANGED <<stage, session, seq, handshakes>>
    /\ UNCHANGED <<flags, resume, loops, earlyBeat, identified>>

StartBeats(w) ==
    /\ At(w, "start") /\ Return(w)
    /\ sending_heartbeats' = TRUE /\ sleeping' = sleeping + 1
    /\ UNCHANGED <<loop, can_reconnect, resume, payload, due, discord, identified>>

----------------------------------------------------------------------------
(* Heartbeats.                                                              *)

\* send_heartbeat: the write, with no look at the interface of its own.
SendHeartbeat ==
    /\ loop' = IF interface THEN loop ELSE "crashed"
    /\ earlyBeat' = (earlyBeat \/ (link = "open" /\ handshakes = <<>>))
    /\ UNCHANGED <<flags, resume, payload, stage, session, seq, handshakes, identified>>

RequestedBeat(w) ==
    /\ At(w, "beat") /\ Return(w)
    /\ SendHeartbeat /\ UNCHANGED loops

\* One loop wakes and finds the connection usable ...
UsableSocket == interface       \* mutant: sending_heartbeats is not looked at
Usable == interface /\ sending_heartbeats

BeatCheckNoLoop ==      \* mutant: a beat without a loop to send it
    /\ Running /\ Usable
    /\ due' = due + 1 /\ sleeping' = sleeping - 1
    /\ OffLoop /\ UNCHANGED <<loop, flags, resume, threads, discord, identified>>
BeatCheck ==
    /\ Running /\ sleeping > 0 /\ Usable
    /\ due' = due + 1 /\ sleeping' = sleeping - 1
    /\ OffLoop /\ UNCHANGED <<loop, flags, resume, threads, discord, identified>>

\* ... and writes, then sleeps again: the loop has no other exit.
BeatWriteOnce ==        \* mutant: the loop ends after its first heartbeat
    /\ Running /\ due > 0
    /\ due' = due - 1 /\ sleeping' = sleeping
    /\ SendHeartbeat /\ OffLoop /\ UNCHANGED <<pc, msg>>
BeatWrite ==
    /\ Running /\ due > 0
    /\ due' = due - 1 /\ sleeping' = sleeping + 1
    /\ SendHeartbeat /\ OffLoop /\ UNCHANGED <<pc, msg>>

----------------------------------------------------------------------------
MainThread == Connect \/ ServiceReturn \/ Close \/ Redial \/ Quit
Network ==
    \/ Established \/ Disconnected \/ Reconnek
    \/ \E code \in {"auth", "stale", "other"} : PeerClose(code)
    \/ \E d \in BOOLEAN : InvalidSession(d)
    \/ SayHello \/ Ready
    \/ \E kind \in {"INTERACTION", "EVENT"} : Event(kind)
    \/ \E kind \in {"HEARTBEAT", "ACK"} : Pulse(kind)
ShortStep(w) ==
    \/ ReadyUrl(w) \/ ReadySession(w) \/ Order(w) \/ Ignore(w)
    \/ Choose(w) \/ Identify(w) \/ WriteHandshake(w) \/ StartBeats(w)
    \/ RequestedBeat(w)
\* The process is gone, or the model's bound on connections is reached.
Stopped ==
    /\ ~Running \/ (loop = "connect" /\ conn = MaxConns)
    /\ UNCHANGED vars
Next ==
    \/ MainThread \/ Network \/ Stopped
    \/ \E w \in Workers : ShortStep(w) \/ Respond(w)
    \/ BeatCheck \/ BeatWrite

Spec == Init /\ [][Next]_vars

\* The threads keep running and a dial ends one way or the other; nothing is
\* assumed of the network once open, nor of the length of an HTTP call.
Fairness ==
    /\ WF_vars(MainThread)
    /\ WF_vars(link = "dialing" /\ (Established \/ Disconnected))
    /\ WF_vars(link = "closing" /\ Disconnected)
    /\ \A w \in Workers : WF_vars(ShortStep(w))
    /\ WF_vars(BeatCheck) /\ WF_vars(BeatWrite)

LiveSpec == Spec /\ Fairness

----------------------------------------------------------------------------
(* Properties.                                                              *)

TypeOK ==
    /\ loop \in {"connect", "service", "close", "decide", "done", "crashed"}
    /\ interface \in BOOLEAN /\ can_reconnect \in BOOLEAN
    /\ sending_heartbeats \in BOOLEAN /\ earlyBeat \in BOOLEAN
    /\ event_order \in Seqs /\ reconnect_url \in Sids /\ sessid \in Sids
    /\ address \in {"gateway", "resume", "empty"}
    /\ mailbox \in Message \cup {NoMsg}
    /\ pc \in [Workers -> PCs]
    /\ msg \in [Workers -> Message \cup {NoMsg}]
    /\ payload \in [Workers -> Payload \cup {NoPayload}]
    /\ \A w \in Workers : pc[w] = "write" => payload[w] \in Payload
    /\ sleeping \in Nat /\ due \in Nat
    /\ link \in {"none", "dialing", "open", "closing"}
    /\ stage \in {"fresh", "greeted", "starting", "live", "refused"}
    /\ session \in Sids /\ seq \in Seqs
    /\ handshakes \in Seq(Payload)
    /\ conn \in 0..MaxConns /\ identified \in BOOLEAN
    /\ verdict \in {"none", "stale"} \cup Refusals
    /\ delivered \subseteq Message

\* The program leaves its loop only before its first identify payload, or after
\* Discord has refused the token (4004) or the session (opcode 9, d = false):
\* no interleaving of handler threads makes a mere network failure final.
ExitJustified ==
    loop = "done" => (~identified \/ verdict \in Refusals)

\* The program has dialled again, or sent a resume payload, only if some
\* handler built an identify payload before: nothing else may switch
\* can_reconnect on first.
IdentifyComesFirst ==
    /\ conn > 1 => identified
    /\ \A i \in DOMAIN handshakes : handshakes[i].op = "resume" => identified

\* Whatever thread wrote last, event_order is 0 or a number Discord really
\* sent, and so is every seq of a resume payload; its session id is empty or
\* one that a READY carried.  Discord is never told of an event it did not send.
SentBy(n) == n = 0 \/ \E m \in delivered : m.s = n
NamedBy(i) == i = 0 \/ \E m \in delivered : m.sid = i
NothingInvented ==
    /\ SentBy(event_order)
    /\ \A i \in DOMAIN handshakes :
          SentBy(handshakes[i].seq) /\ NamedBy(handshakes[i].sid)

\* Handler threads and heartbeat loops come from messages one to one, so the
\* heartbeat loops never outnumber the connections: no message is handled twice.
LoopsWithinConnections == sleeping + due <= conn

\* A client that knows a session id also knows the host to resume it at, in
\* every order in which READY handlers, a redial and a Hello interleave: only a
\* client without a session to resume dials an empty host.
KnownSessionKnownHost == sessid # 0 => reconnect_url # 0

\* With short threads that do not outlive their connection, each connection
\* carries at most one identify or resume payload (GC_ALRDAUTH, 4005) and no
\* heartbeat goes before it (GC_NOTAUTHD, 4003).
OneHandshake == Len(handshakes) <= 1
NoEarlyBeat == ~earlyBeat

\* Once Discord has refused the token (4004) the program does not dial again, no
\* Hello handler that is still running switches can_reconnect back on.
RefusalFinal == [][conn' # conn => verdict # "auth"]_vars

\* A connection that stays open after its Hello gets an identify or resume
\* payload: the Hello is never lost in the mailbox or to a blocked thread.
HelloAnswered ==
    (stage = "greeted" /\ link = "open")
        ~> (handshakes # <<>> \/ link # "open" \/ ~Running)

\* A connection that stays open with heartbeats on gets them for ever.
HeartbeatsGoOn ==
    <>[](link = "open" /\ sending_heartbeats /\ Running) => []<><<BeatWrite>>_vars

\* A lost connection is redialled or the program ends (up to the bound).
NeverStuckOffline ==
    ~interface ~> (interface \/ ~Running \/ conn = MaxConns)

----------------------------------------------------------------------------
(* What the comments say and the code does not do (see README.md).          *)

\* pilepoxyl.h:73: event_order is "used to send heartbeats and resume
\* sessions": a resume carries the newest sequence number received.
ResumeIsCurrent ==
    \A i \in DOMAIN handshakes :
        (handshakes[i].op = "resume" /\ link = "open" /\ stage = "live")
            => handshakes[i].seq > 0

\* pilepoxyl.h:143 "handles reconnects": losing a connection is survived.
SurvivesDisconnect == loop # "crashed"
=============================================================================
