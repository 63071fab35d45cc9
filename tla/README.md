# Formal models of PilePoxyl

PilePoxyl is a Discord bot in C++: it keeps a WebSocket open to Discord's
Gateway, answers slash commands over HTTP, and makes Minecraft Bedrock packs
for its users. This directory holds TLA+ modules of the parts of it that are
concurrent, that fail, or that must survive a restart; TLC configurations that
check them on small instances; and TLAPS proofs of the main results for every
instance. Paths below are relative to the repository.

## 1. The system

| Component | Source | State it keeps | Operations | Modelled in |
|---|---|---|---|---|
| Gateway client | `pilepoxyl/gateway.cpp`, `pilepoxyl.h` | the socket pointer `interface`, `can_reconnect`, `sending_heartbeats`, `event_order`, `reconnect_url`, `sessid`, a one-message mailbox (`received_message` + `new_payload`), its threads | `initialize`, `connect_and_receive_events`, `reconnect_init`, `say_hello` (libwebsockets callback), `determine_what_to_do` (one detached thread per message), `send_heartbeat`, `send_heartbeat_loop` (one detached thread per Hello) | `Gateway` |
| Message reassembly | `pilepoxyl/gateway.cpp` | `gateway_rcol`, `new_chunk`, `new_payload` | the default case of `say_hello`, `chunk_timeout` (a detached thread per pass of the loop) | `Chunks`, `Delivery` |
| Interaction handler | `pilepoxyl/httpapi.cpp` | archives in `tmp/`, the `notifmsg` map, help messages at Discord | `respond_interaction`, `fetch`, `raw_fetch`, `upload_data_df`, `upload_file_df` | `Interaction` |
| Help pages | `pilepoxyl/httpapi.cpp`, `data/` | none: everything is in the custom ids of a message | `make_help_with_selection`, `parse_hpcid`, the component branch | `HelpPages`, `Interaction` |
| First run and main | `runpp.cpp`, `pilepoxyl/firstrun.cpp`, `CMakeLists.txt` | the files `FIRSTRUN` and `config/config.json`, the commands installed at Discord | `main`, `set_btk`, `fetch_id`, `install_commands`, `export_json` | `FirstRun` |
| Item wizard and generator | `pilepoxyl/httpapi.cpp`, `generate_libs/item.cpp` | none: options travel in the step files that users attach | `reduce_options`, the three subcommands, `writeItem` | `ItemWizard`, `ItemGen`, `ItemFiles` |
| Manifest and entity generators | `generate_libs/{manifest,entity}.cpp` | none | `generate_nondependent`, `generate_dependent`, `make` | `ManifestGen`, `EntityGen`, `Packs` |
| Obfuscator | `generate_libs/obfuscator.cpp` | none | `obfuscateMain`, `minify`, `unicodeEscape`, `decode_utf8` | `Obfuscator` |
| JSON values | `generate_libs/make_json.cpp` | none | `parse`, `get_repr`, `operator[]` | `JsonText`, `Payloads` |
| Files and archives | `generate_libs/file_management.cpp` | files | `read_file`, `write_file`, `make_zip`, `add_files_to_zip` | `Packs` (entries), `Interaction`, `FirstRun` (life) |

How they interact. `main` runs the first-run setup when `FIRSTRUN` exists, reads
`config/config.json`, and hands control to the Gateway client for good. Its main
thread dials Discord and calls `lws_service` in a loop; libwebsockets calls
`say_hello` from inside that call, on the same thread. A callback leaves a
message in the mailbox; after `lws_service` returns, the loop starts a detached
thread for it, and a detached `chunk_timeout` when a message is still being
assembled. A Hello handler sends the identify or resume payload and starts a
heartbeat loop, another detached thread. An interaction handler makes HTTP
calls of any length before it stores the event's sequence number. There is no
lock anywhere: every field of the `gateway` object is shared by all threads.

What is hard here is therefore: interleavings of detached threads with the main
loop across a reconnect; state that is checked and then used (`interface`,
`new_chunk`); the order in which concurrent handlers write `event_order`; a timer
that races with the data it waits for; transfers that fail in a thread nobody
catches an exception in; a map that a lookup may insert into while others read
it; messages at Discord that outlive the data they were made from; files that
come back from users; a hand-written parser; and a setup that may die at any
step. `PROJECT.json`
lists the hazards one by one, each at its line.

What makes each component correct:

- Gateway client: it ends only when Discord refuses it; each connection carries
  one handshake, before any heartbeat; a resume names the session and the last
  event really received; heartbeats go on; a lost connection is redialled.
- Reassembly: each message reaches one handler, once, whole, in order.
- Interaction handler: one answer per interaction, no file left behind, no
  input that takes the process down, no help page that does not exist.
- Item wizard: a later step overrides an earlier one and nothing else is lost in
  the files between them.
- Generators: what is read back is what was written; the files of a pack refer to
  files and UUIDs that the pack has.
- First run: once the mark is gone the configuration is complete; a setup that
  fails or dies can be repeated.

## 2. Modules

`Gateway.tla`. The main thread is `loop` (`connect`, `service`, `close`,
`decide`; `done` after the `break`, `crashed` after a write on a null socket)
with the actions `Connect`, `ServiceReturn`, `Close`, `Redial`, `Quit`. The
callback's cases are actions enabled inside `service`: `Established`,
`Disconnected`, `PeerClose`, `Reconnek`, `InvalidSession`, `Deliver`. A handler
thread is a worker `w` with a program counter `pc[w]`, cut where another thread
can see a difference: READY stores the URL, then the session id, then the
sequence number (`ReadyUrl`, `ReadySession`, `Order`); a Hello reads
`can_reconnect`, sets it, writes the payload, starts the heartbeat loop
(`Choose`, `Identify`, `WriteHandshake`, `StartBeats`). Heartbeat loops are
counted: `sleeping`, and `due` between the test of line 228 and the write. Discord
and libwebsockets are external: `link` is the socket, `stage`, `session` and `seq`
what Discord knows of the connection, `handshakes` and `earlyBeat` what the
connection has carried. A session is named by the count of accepted identify
payloads, 0 standing for the empty string. Messages are shorter than one
fragment here.

`Chunks.tla`. The callback for one fragment (`TakeFragment`, three branches as in
lines 70-94), the return of `lws_service` (`StartTimer`, then `Dispatch`), and
`chunk_timeout` in six steps, one for each statement that touches shared state (`Test`,
`Clear`, `Read`, `Free`, `Calloc`, `Reset`, lines 334-340). A lost connection takes the
steps of the code too, with timers running between any two of them: `Cut` (the network),
`Close` (the callback, after which the loop may start one more timer), then `End` (the
`break`) or `Redial` and `Zero` (the new context, and `gateway_rcol={0}`, the pointer and
the size as two stores). `data` says what `gateway_rcol.data` points at: no block, a freed
one, one byte, or the bytes of the chunk. Memory used out of turn (a freed block read,
freed or reallocated, or a size that is not the block's) is undefined: `broken` records
it, and the process ends or goes on with any bytes. Time is discrete, one `Tick` per
millisecond. A message is a shape: a number of full 4096-byte fragments and perhaps a
short one.

`Delivery.tla`. The abstract promise of reassembly: `Arrive` appends a message,
`Handle` hands the next one over. `Chunks` implements it under the refinement
mapping `arrived <- the completed messages, handled <- handled`.

`Interaction.tla`. A request is what the code branches on. `Plan(r)` is the sequence
of observable steps of its branch (`find`, `splash`, `fetch`, `raw_fetch`, `obfuscate`,
`make_zip`, `upload_file`, `upload_data`, `remove`, `post`), and every handler takes its
steps interleaved with the others. `alive` becomes false when a step may throw in a
detached thread; `Restart` starts the process again and `left` remembers what is in
`tmp/` then. A lookup in `notifmsg` is two steps, `Enter` and `Leave`: an insertion
(the `splash` of line 80) next to any other lookup is undefined, so the process may
end or the `map` be `torn`. One help message is followed through its life at Discord:
`Press` takes any enabled component of it, `ReadMetadata` and `ReadPage` read `data/`,
`PostAnswer` edits it, and `Deploy` is a build that copies newer pages below all that.

`HelpPages.tla`. The buttons of a page, their custom ids, `parse_hpcid`, and which page
a pressed id asks for, with the marks 2147483646 and 2147483647.

`ItemWizard.tla`. The steps of `/item`: `Start` and `Checkpoint` answer with a file, any
file may be attached to the next step, `Finish` makes the item. Each file is really
printed and parsed by `JsonText`. `Options` is what `writeItem` looks at and `DefaultOf`
what `httpapi.cpp` starts an option from.

`ItemGen.tla`. `writeItem` as data: which option is copied under which condition, and
which component (a gate) a field belongs to. The item is printed at the end, so its
numbers are rounded there as well.

`ItemFiles.tla`. The files `writeItem` makes around the item: its icon's name, the
atlas, the image, and the two manifests.

`JsonText.tla`. `get_repr` and the scanner of `parse`, over characters; a number, a
literal and a `\u` escape are one character each. The numbers are samples: a double is
printed with six significant digits (`Rounded`: 3.1415926 becomes 3.14159, 32.0 becomes
32, 0.9999999 becomes 1), an integer as it is. The recursion of the code over values is
one over texts: `parse` is a function of all texts, and `Parsed` is one call of it with
`parse` for the calls inside. `get_repr` prints objects that hold no containers, which is
all that step files are (a bound).

`Payloads.tla`. The text Discord sends for a JSON value, what `parse` makes of it
(`Received`), and which values it can read (`Readable`), with containers up to a depth.

`Obfuscator.tla`. `decode_utf8`, `unicodeEscape`, the pairing of quotes by the regular
expression of `obfuscateMain`, and `minify`, over bytes.

`Packs.tla`, `ManifestGen.tla`, `EntityGen.tla`. Manifests with their UUIDs and
dependencies (the n-th call of `generate_uuid` is n), the tree of files and the entries
that `add_files_to_zip` writes of it: an entry is its place in the tree, its path
(`PathOf`) and its file (`FileOf`), and a directory is opened until only files are left.

`Generators.tla` composes the parser, the obfuscator and the generators: a request reads
a payload, obfuscates a text or makes a pack, and the answer is the result. The code
behind it is sequential and stateless, so a behaviour is one request at a time and the
work is in the inputs, which are constants; `Nesting` is the depth of the payloads.

`FirstRun.tla`. `main` from the test of `FIRSTRUN` to the Gateway client, with the
opening (which empties the file) and the writing of `config.json` as two steps, a
kill between any two steps (`Kills`), restarts, and a rebuild, which copies
`FIRSTRUN` again.

`MCGateway`, `MCChunks`, `MCInteraction`, `MCItemWizard` and `MCGenerators` give the
constants small values. `GatewayProofs`, `ChunksProofs`, `InteractionProofs`,
`FirstRunProofs`, `JsonProofs`, `WizardProofs`, `ObfuscatorProofs` and `ArchiveProofs`
hold the theorems; the last three rest on `JsonProofs`. Operators marked "mutant" are wrong variants of the
definition next to them, used to see that each property can fail.

## 3. What the runs show

Every passing run explores its whole state space.

| Run | Instance | Result |
|---|---|---|
| `GatewayCore` | 3 connections, 2 message threads, 2 events per session; several messages per `lws_service`; threads may outlive connections. 2.9 million states | Types; the program ends only before its first identify or after a refusal (`ExitJustified`); nothing is redialled or resumed before an identify (`IdentifyComesFirst`); numbers and ids sent to Discord come from Discord (`NothingInvented`); one heartbeat loop per connection at most (`LoopsWithinConnections`); a known session has a known host (`KnownSessionKnownHost`) |
| `GatewayPrompt` | the same with `Prompt` | One handshake per connection (`OneHandshake`), before any heartbeat (`NoEarlyBeat`); no dial after a refused token, close code 4004 (`RefusalFinal`) |
| `GatewayLive` | 2 connections, fairness | A Hello is answered, heartbeats go on, a lost connection is redialled or the program ends |
| `ChunksPaced` | 3 messages, fragments within 4 ms, 7 ms between messages | `Chunks` implements `Delivery`, and every message gets its handler |
| `ChunksRaces` | 2 messages of every shape of at most two fragments, 2 timers, connections lost inside and after messages, spurious returns. 802,000 states | No handler gets parts of two messages, and a part of one only if the connection was lost in it; other bytes come only of memory used out of turn (`NeverMixed`), which takes a lost connection or a message of exactly 4096*x bytes (`MisuseNeedsRace`); nothing is left over for the next message (`NothingLeftOver`) |
| `InteractionCore` | 2 handlers, every branch, a restart, a build that adds pages, presses on messages of any age | One answer per interaction, but for the silent branch (section 6); `tmp/` holds archives of running handlers and of processes that ended (`TmpIsTransient`); only a JSON attachment can end the process or tear the map (`OnlyJsonKills`), which settles after the one insertion (`MapSettles`); every page shown exists (`PagesExist`) and every page can be reached (`PagesNavigable`) |
| `Wizard` | at most 3 step files, options with quotes, separators, escapes and brackets, numbers at the limits and with more than six digits. 66,000 states | `LaterWins`, `SameAsDirect`: the files lose nothing but digits that the item would lose as well, and the later step wins |
| `Generators` | nested payloads, all texts of up to 5 bytes, pairs of characters at the UTF-8 and UTF-16 boundaries, every combination of the pack options the code branches on | `ReadsPayload`, `EscapesRight`, `ObfuscationKeeps`, `ThrowsOnlyUnpaired`; `ZipPaths`, `PairLinked`, `EntityResolves`, `IconInAtlas` |
| `FirstRunCore` | 3 starts, kills, rebuilds, failing writes | `SetupComplete`, `ServesWhenReady`, `BadTokenHarmless` |
| `GatewaySeqLost`, `GatewayNull`, `ChunksTwice` | small | a counterexample each: section 6 |

Bounds. Three connections are the first number at which a thread of one
connection meets the state left by a redial and then a second redial; two workers
are the least for two handlers to race, and a third adds only a third writer of
the same fields. Two events per session give READY and one event after it. In
`Chunks` a timer lives 5 or 6 ms, so 13 ms between messages let every timer of a
message end before the next, one that a spurious return starts late included. Two
timers are as many as the fragments of the longest message, and enough for two to race
with each other and with the main loop, which is what every misuse of the block takes;
three give more than 17 million states and a third hand over of the same text. A timer
is always free for a fragment, so the bound holds back only spurious returns and a close.
A connection is lost once in each message at most. In `Interaction` two
handlers are enough for archives, insertions and page turns to meet, since each is a
conflict of two; one restart gives a process something to find in `tmp/`; topics of 1,
2 and 3 pages (two topics of the five) have each kind of page: the only one, the
first, the last, one in between, and the one that was the last before the build. In
`ItemWizard` three files are a start and a checkpoint of a checkpoint; one start is
enough because steps share no state. Three starts of `FirstRun` give a killed setup, a
setup that completes and a start after a rebuild. Five bytes of `{`, space, quote, `a`
and backslash are enough for two strings and an escape; code points are taken on both
sides of each change of width. Beyond these sizes the safety properties of `Gateway`,
`Chunks`, `Interaction` and `FirstRun` are proved, and those of `ItemWizard` and
`Generators` for every payload, text and choice of options (section 4).

Assumptions on the environment, each a constant:

- `Coalesce`: one `lws_service` call may deliver several messages. TRUE wherever a
  property could depend on it.
- `Prompt`: handlers that make no HTTP call, and heartbeats past their test,
  finish before the main thread redials. They need microseconds;
  destroying and creating a context with TLS takes far longer. It is FALSE in
  `GatewayCore` and `GatewayLive`; what depends on it is only in `GatewayPrompt`.
  Interaction handlers are never assumed to be fast.
- `Span`, `Quiet`, `Lag` in `Chunks`: the pace of fragments and messages and the
  lateness of threads. The first message of a new connection also comes `Quiet` ms after
  the loss of the old one: there is a TLS handshake in between. Reassembly works by timing only, so it has no correctness
  without them. No time passes inside the redial, although its timers may take any
  steps there. `ChunksPaced` leaves out messages of two full fragments, for which
  `HandledOnce` fails.
- `Lengths` in `Interaction`: a build only adds help pages. A page that is removed
  below an old message is read as an empty list that is written to.
- External calls: `generate_uuid` never returns a value twice; Discord prints JSON
  without whitespace.
- `Discord` sends Hello first, READY after a valid identify, and numbers the
  events of a session from 1.

Fairness (`LiveSpec`). Weak fairness of the main thread, of each short handler
step and of the heartbeat loops: the scheduler runs every thread. Weak fairness of
the end of a dial and of a close under way: libwebsockets times both out. Nothing is
assumed of an open connection, nor of the length of an HTTP call: `Respond` has
no fairness. In `Chunks`, threads run, time passes, and a message that has begun
is sent to its end.

Deadlock is checked in every run: a process that has ended, and the bounds,
are explicit stuttering actions (`Stopped`, `Finished`).

## 4. What is proved

TLAPS checks these for every value of the constants, under the assumptions named
in the modules (`GatewayAssumption`, `ChunksAssumption`, `FirstRunAssumption`,
`InteractionAssumption`, `TopicsAssumption`, `WizardAssumption`, `PayloadsAssumption`,
`TextsAssumption`, `OptionsAssumption`: bounds that are numbers, switches that are
Boolean, data that only grows, texts that are sequences, no option given twice in one
command, payloads that `parse` can read). `WizardAssumption` also says that `step1_file`
and `step2_file` are names: it is true of the literals, but the provers have no rule that
a string literal is a string. What a theorem assumes beyond that stands in its statement.

`GatewayProofs`:

- `TypeCorrect`: `Spec => []TypeOK`, inductive by itself.
- `ExitIsJustified`: `ExitJustified` is not inductive, because `loop = "decide"`
  with `can_reconnect` false must have a reason. `ReconnectInv` gives it:
  whenever `can_reconnect` is false while an identify was built, a refusal is on
  record, and whatever a handler still has to do is consistent with that.
- `IdentifyFirst`: follows from the same `ReconnectInv`: `can_reconnect` and every
  resume under construction imply `identified`.
- `NeverInvents`: `TraceInv` says of every message in the mailbox or in a thread,
  and of every payload under construction, that its number and id were delivered;
  `event_order` and `handshakes` only ever receive those.
- `KnownHost`: `HostInv` says of a READY thread that it has stored the host when it
  is about to store the session, and that its message names one.
- `LoopsBounded`: `LoopInv` counts. A connection is at most one Hello, which is still
  to come, in the mailbox, in a thread or has become a heartbeat loop, and the sum of
  these is at most the number of connections.
- `HandshakeOnce`, `BeatsAfterHandshake`, `RefusalIsFinal`, each with `ASSUME Prompt`:
  `PromptInv` follows the one Hello of a connection (`HelloInv`), says that whatever
  leads to a heartbeat comes after the handshake or belongs to a lost connection
  (`BeatInv`), and that after a refused token nobody is left who sets `can_reconnect`
  (`RefusedInv`).

`ChunksProofs`:

- `ChunksTypes`.
- `SpacedNeverMixes`, `SpacedMisuse`, `SpacedLeavesNothing`, with `ASSUME Spaced`: a
  message takes less than the 5 ms of a timer, and the next one comes later than a timer
  lives (twice that, when `lws_service` may return without a callback). `SpacedInv` has four parts: a deadline for each timer, and a timer for each
  chunk that is marked (`ClockInv`); while a message is received all timers are its own
  and asleep, and the block holds what came (`ReceivingInv`); a chunk, a copy of one and a
  text that was handed over is a whole message, the beginning of a lost one, nothing, or
  bytes of misused memory, and whoever freed a block is about to replace it (`ChunkInv`);
  without lost connections and messages of 4096*x bytes no timer passes its test
  (`CalmInv`). So this is what reassembly gives by the spacing alone, for any number of messages, fragments, racing
  timers and lost connections: a handler gets whole messages, some of them more than
  once, empty texts, and the beginning of a message that the connection was lost in;
  and what bytes it gets else come of a block that was used after it was freed, for
  which two timers must race, or one with the redial.
- `PacedDelivers`, with `ASSUME Paced` (also: no spurious return, no lost connection,
  and no message of two or more full fragments without a short one): `Chunks`
  implements `Delivery`. `PacedInv` says where the last message is: in the mailbox,
  in the chunk with exactly one timer for it, or handled.

`InteractionProofs`:

- `InteractionTypes`.
- `AnswersOnce`: `AnswerInv` adds what is still to be sent in `todo` to what was posted;
  lemmas about each branch (`Pieces`, `Plans`) show that its steps hold one answer.
- `TmpOnlyHoldsRunning`: `TmpInv` gives each file of `tmp/` that is not in `left` to one
  handler, between its `make_zip` and its `remove`.
- `OthersCannotKill`: a plan without attachment has no step that throws, the pages a
  handler has drafted exist (`HelpInv`), and without an insertion under way no lookup
  clashes (`TreeInv`).
- `TreeSettles`: the same `TreeInv`: once settled, no thread inserts.
- `ShownPagesExist`: `HelpInv` says of the message, and of the draft of each handler at
  each of its steps, that its page exists now, or is one of the two marks.
- `EveryPageReachable`: `PagesNavigable` speaks of every set of pages that no press
  leaves; such a set has the first page of the topic, and with each page the next, so it
  has them all. This is an induction over the pages, `PageByPage`.

`FirstRunProofs`: `FirstRunTypes`, `SetupIsComplete`, `ServesAfterSetup` and
`RefusalChangesNothing`, from `SetupInv`, which says what is known at each step of
`main`: past the check the typed token is good, past the write the file holds it or the
write is known to have failed, and the mark is there until it is removed.

`JsonProofs`: what `parse` makes of a text that `get_repr`, or Discord, printed. An
induction theorem that takes a predicate cannot be instantiated by the provers here, so
induction is stated of a set of numbers: `LeastElement` (from the library's
well-foundedness of `<`), and `Ascend` and `AscendAll`, by which a set with a first
number and with the next one of each of its numbers has them all. Then:

- Loops. Each loop of `JsonText` is a recursive function over positions; it is shown to
  exist and to take one step at each of them. `parse` itself exists on every text, of any
  length, because what it reads of a text is shorter (induction over the length).
- Characters. A string that was printed is read as it was, each escape undone by the one
  that made it (but for the control characters of `Dropped`, escaped by number).
- The scanner. A text in `Level` leaves the counters as they were and closes no bracket
  before it opened it; inside other text at the outermost level it counts as it does
  alone. So `Cut` finds the commas that `Bracketed` put between such texts and no others,
  when the texts have no commas of their own at that level. A text in `Quiet` closes its
  quotes and has commas inside them only, whatever brackets it has: this is enough for
  the objects of step files, whose strings may hold anything.
- Containers. `Faithful` says of a value and a text that the one is read of the other and
  that the text can stand in an object (`Good`: in a list too); a list or an object of
  such texts is `Good`.
- `operator[]`. `Assigned` keeps, of the values that a key was assigned, the last one
  (`AssignedFinal`); with distinct keys it changes nothing.
- `PayloadsRead`: by induction over the depth of nesting, every value of `Readable` is
  read as it was sent.

`ObfuscatorProofs`, for every text of ASCII bytes and every sequence of characters of
the first plane (`TextsAssumption`). The loops of `Obfuscator` are recursive functions
over positions. First each loop is shown to exist and to take one step for each
position (`PairLoopSteps` and its like); then an invariant of the loop is carried along
the positions with `Ascend`; and `ObfuscateAnswered` and `EscapeAnswered` say of the
specification that what is answered is what the loops return for the request.

- `ThrowsUnpairedOnly`, `KeepsCharacters`: the invariants `PairsSo` and `KeptSo` of the
  two loops. After i characters a string is open exactly when the quotes so far are odd
  in number, its characters wait to be escaped and all others are out; `minify` is
  inside a string at the same places, and has each character it must keep at its rank.
  The loops do this whatever is escaped, a quote that is escaped counting like any
  other; that it is right is said only of texts without escapes, in which every quote
  begins or ends a string.
- `EscapesEachCharacter`: the bytes of a character tell its width and give its code,
  and where each character begins in the text is a sum over those before it, so the
  loop of `unicodeEscape` reads one character after another, and none of their bytes is
  a quote.
- `PayloadsReadBack`: what is answered to a payload is `Received` of it
  (`ReadAnswered`), which is the payload by `PayloadsRead`. `PayloadsAssumption` limits
  payloads to `Readable`, and Discord does send others: strings with brackets inside
  containers, list strings with commas, empty objects, control characters escaped by
  number. Those the parser misreads (section 6).

`WizardProofs`, for all options and any number of step files (`WizardAssumption`). A file
is followed as the pairs it was printed from: `StepFile` says that its text is `get_repr`
of pairs that, when no character of `Lost` was given, agree with what was given, having
the same last value for each name (`Agrees`, by `Final`). `ReadBack` says of such a text
that `parse` gives pairs that agree as well, so printing, attaching and putting other
pairs behind them keeps it (`NextFile`). `WizardInv` is `StepFile` of each file, with the
options of the item and `SameAsDirect`, which is about the step that made it.

Numbers: rounding twice is rounding once (`RoundedFacts`), so however often a file was
printed its numbers are `Shown` once, and the item, which is printed with the same
digits, does not tell the difference (`ShownBoth`, `LikeDirect`), unless rounding took a
number across a limit of `writeItem`, which `Steady` leaves out.

- `WizardTypeOK`: from `StepFile`, as the text of an object begins and ends with a brace.
- `WizardLaterWins`: the last values of the pairs are those of `Latest`. The one pair
  without a name, which the `{}` of an empty start is read as, is what `named` leaves out.
- `WizardSameAsDirect`: `OverrideIs` says what `witdt` holds after the loop over the
  pairs, the last value of a name or its default; `SameItem`, that `writeItem` looks at
  the values of `Options` only; `UnsetSignal`, what it does of a signal that was not set.

`ArchiveProofs`, for every choice of options (`OptionsAssumption`): `ArchiveAnswered`
says that what is answered is the entries of the generator's tree. `PackArchive`,
`PairArchive`, `ItemArchive` and `EntityArchive` describe those entries, folder by
folder: all are files with different paths, and a folder at the root has just the
manifest it was given (`ArchiveWith`). Paths are sequences of words with separators, and
two of them differ in the folder they begin with, in its first name, or in the file.

- `ArchivesWellFormed`: from `ArchiveWith` alone.
- `PacksLinked`: `LinkedIn` is the property of a set of manifests; the UUIDs and
  dependencies of the manifests of each generator are computed for each of its switches.
- `ReferencesResolve`, `IconsResolve`: the path that a client entity or an item names
  is that of an entry, and what that entry holds is what is referred to. The first takes
  an extension off a name and puts it back; the second, a name in lower case which stays
  as it is.

Only model-checked: the liveness properties `HelloAnswered`, `HeartbeatsGoOn`,
`NeverStuckOffline` and `DeliversAll` (fairness and `ENABLED` are outside what the prover
does), and the counterexamples of section 6. Every other property of a passing run is a
theorem.

## 5. What is not modelled, and why

The repository has some 3,100 lines of its own; nearly all the others are vendored
headers and sources (`winext/`, `generate_libs/minizip/`), which are external here.

- Texts that nothing branches on: names, descriptions, links, colours, materials, the
  wording of messages, the layout of embeds. They are copied from one place to
  another.
- Texts that are modelled are sequences of words or characters: time stamps and invalid
  UTF-8 are left out. Numbers are samples whose rounding is listed (`Rounded`); what
  `ostringstream` and `stod` do of any other is not modelled. Of the words with capital
  letters two stand for all (`Lower`, `Shifted`).
- The branch of `unescapify` for surrogates, which the digits of an escape read backwards
  may lead to; there `s.substr(i+8,4)` throws near the end of a string
  (`make_json.cpp:89`). Such escapes are in no text of the models, so what `OnlyJsonKills`
  says is of the handlers: an exception while the payload itself is parsed, in the
  callback or in `chunk_timeout`, is outside `Interaction`.
- The parse of each fragment in the callback (`gateway.cpp:53`) is left out of `Chunks`,
  where a fragment has no contents; an opcode 7 or 9 is in `Gateway`.
- A context that cannot be created, and a dial that fails inside the call
  (`lws_wsi_user(nullptr)`, `gateway.cpp:239`): `Connect` always succeeds and the
  failure comes as a callback.
- Data races on multi-word values. `received_message`, `sessid` and `reconnect_url`
  are modelled as if each were read and written in one piece. `gateway_rcol` is not: its
  pointer and its size are separate, and each statement of `chunk_timeout` is a step; but
  the callback for one fragment is one step, and a corrupted heap is no more than the end
  of the process or any bytes. The date stamp that all
  archives share, and the static result of `localtime` (`file_management.cpp:61`), are
  not modelled: a race there gives an archive another date.
- A build that copies `data/` is one step; files that are half copied are not seen, nor a
  page that is read between its removal and its copy.
- `send_message`, `deferred_respond_interaction`, `upload_data_bf`, and `get_repr` of a
  file: no callers. `generate_uuid`: a random string, taken to be new each time.
- `tests/`: a program that writes sample files.

## 6. Disagreements between the code and what it says

With a run whose counterexample shows it:

1. `GatewaySeqLost`. `reconnect_init` sets `event_order` to 0 (`gateway.cpp:188`)
   before the resume payload is built from it, so every resume asks for event 0.
   `pilepoxyl.h:73`: "Event order used to send heartbeats and resume sessions".
2. `GatewayNull`. A handler or heartbeat that writes after the disconnect callback
   passes null to `lws_write` (`gateway.cpp:323`, also 221).
3. `ChunksTwice`. A message of two full fragments starts two timers, and both may
   hand it over (`gateway.cpp:334`). `pilepoxyl.h:133`: "Wait for 5ms and handles the
   4096*x bytes case".

Seen in the models while writing them, without a run of their own:

- Opcode 9 with `d = false` ends the program (`gateway.cpp:66`); `pilepoxyl.h:100` says
  "You should reconnect and identify/resume accordingly".
- Close codes 4007 and 4009 ask for a new session (`pilepoxyl.h:116`, `118`); only 4004
  is looked at, so the same session is resumed again.
- A connection lost between identify and READY is redialled at an empty host
  (`gateway.cpp:206`).
- A second message in one `lws_service` call overwrites the first (`gateway.cpp:92`).
- A Hello handler that outlives its connection adds its payload to the next one
  (`gateway.cpp:323`): `OneHandshake` fails without `Prompt`.
- A fragment more than 5 ms after the first one: a part is handed over
  (`gateway.cpp:334`). A message right after one of exactly 4096 bytes is appended to
  it (line 77): `NeverMixed` fails with `Quiet = 1`. `new_chunk` survives a
  reconnect (line 237), so a timer handles an empty text.
- A connection lost inside a message hands the beginning of it over, 5 ms later, as if it
  were whole (`gateway.cpp:334`; `Beginnings` in `NeverMixed`).
- Two timers between lines 336 and 339 of `gateway.cpp`, or one and the redial, use a
  block that the other has freed or zeroed, with the size it had: a null pointer for a
  string, a second free, or any bytes for a message (`broken` in `MisuseNeedsRace`).
- An unknown subcommand of `manifest` gets no answer: `httpapi.cpp:251` returns
  before the POST that would send `manifest_nonext`.
- Handlers store their numbers in the order they end (`gateway.cpp:277`): a slow
  interaction takes `event_order` back.
- Every Hello starts a heartbeat loop and none ends (`gateway.cpp:326`), so after a
  reconnect heartbeats are more frequent than the interval of line 285.
- `httpapi.cpp:80` looks up `splash`; the key in `config/README.md` is
  `obfuscator_splash`. The lookup inserts an empty message, next to the lookups of
  other threads.
- A page whose file is missing is read as an empty list, whose element 0 is written
  to (`httpapi.cpp:557`).
- The setup says "All done!" when a command could not be installed
  (`firstrun.cpp:33`) or `config.json` not be written (`file_management.cpp:100`), and
  a rebuild asks for the token again (`CMakeLists.txt:58`).
- Surrogates are computed without subtracting 0x10000 (`obfuscator.cpp:45`; the comment
  of line 43 says "UTF-16 surrogates").
- `generate_libs.h:35` says "Messes around your JSON file according to RFC 7159", and
  line 45 "Obfuscate a JSON file in accordance to RFC 8259". But escapes are escaped once
  more, backslash and all (`obfuscator.cpp:95`): `"\\"`, one character, becomes
  `"\u005c\u005c"`, two, and a line break becomes a backslash and an n. And the regular
  expression pairs quotes as they come, escaped or not: a text with escaped quotes is
  changed outside its strings as well, and with an odd number of quotes, as in the valid
  `"\""`, `minify` throws, which ends the bot. `ObfuscationKeeps` and
  `ThrowsOnlyUnpaired` are about texts without escapes.
- `get_repr` prints a double with six significant digits (`make_json.cpp:221`), in the
  step files and in the item: the options `use_duration`, `food_nutrition`,
  `cooldown_duration`, `shooter_max_draw_duration`, `projectile_min_crit_power`,
  `throwable_max_draw_duration`, `knockback_resistance` and `fuel_duration` of
  `commands/item.json` lose what a user gave beyond them. A number can cross a limit of
  `writeItem` in a step file, 0.9999999 becoming 1, and the item then differs from the one
  made at once: `SameAsDirect` fails without `Steady`.
- The scanner counts brackets inside strings and, in lists, commas too
  (`make_json.cpp:253`); `{}` is read as an object with one pair and a printed empty list
  as `[0]`; of a `\u` escape `unescapify` drops the backslash and the u, so that its digits
  stay in the text, and `hex_to_int` reads the digits backwards. `make_json.cpp:230` says "Refer to RFC 7159".
- `generate_dependent` leaves an empty module in the behavior pack (`manifest.cpp:118`),
  and with Gametest the dependency on the resource pack is replaced.
- The version of a dependency on the behavior pack is the resource pack's own
  (`manifest.cpp:156`, `item.cpp:64`, `entity.cpp:189`).
- `to_lower` of items subtracts 32 from capital letters (`item.cpp:16`); `generate_libs.h:14`
  says "Convert a string to lowercase". So an item with a capital letter has no icon.
- The entry of `en_US.lang` lacks the dot after `entity` (`entity.cpp:181`); a texture without
  `.png`, and a geometry with capital letters, are not found; without a texture or a
  model the client entity names a controller that no file defines.
- The option is `allow_in_offhand` (`commands/item.json:163`) and the key that is read
  `allow_in_off_hand` (`httpapi.cpp:384`), so it is never seen.
- `dye_powder` defaults to an empty text and is compared with `none` (`httpapi.cpp:402`):
  every item gets the component.
- `record_comparator_signal` starts from a bool (`httpapi.cpp:340`), and `lick` reads a
  64-bit value that was never set.
- A scripts pack is put into the folder `rp`.

## 7. Plan

Done, in this order: `Gateway`; `Delivery` and `Chunks`; `Interaction`; `FirstRun`;
`HelpPages`, the `notifmsg` lookups, restarts and builds in `Interaction`; `JsonText`,
`ItemGen`, `ItemWizard`; `Obfuscator`, `Packs`, `ManifestGen`, `EntityGen`, `ItemFiles`,
`Payloads`, `Generators`; and the proofs of section 4, of which those of the JSON values
and of the wizard came last. Every state change of the repository's own code that runs
in the bot is in a module now, but for those of section 5. Every safety property of a
passing run is a theorem.

Left: the failing dial and context, once it is settled what libwebsockets reports from
inside the call; and a model of the reads and writes of `received_message` below the
level of one value.
