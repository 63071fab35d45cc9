----------------------------- MODULE Interaction -----------------------------
(* restapi::respond_interaction of pilepoxyl/httpapi.cpp, run by any number   *)
(* of determine_what_to_do threads at once: which HTTP calls, lookups in the  *)
(* shared notifmsg, data files and temporary files each command needs, in     *)
(* which order, and what ends the process; processes that end and are started *)
(* again; and one help message at Discord, which component handlers edit.     *)
(* A request is abstracted to what the code branches on, a command to the     *)
(* steps it takes; what the packs contain is modelled in Generators.          *)
EXTENDS HelpPages

CONSTANTS
    Handlers,       \* bound: interactions answered at the same time
    Names,          \* bound: file names generate_uuid can return
    Requests,       \* the interactions Discord may send
    Lengths,        \* the deployed help data: the pages of each topic, in order
    Restarts        \* bound: how often the process is started again

VARIABLES
    alive,          \* the process
    req,            \* the request of each handler
    todo,           \* the steps respond_interaction still has to take
    zip,            \* the file name make_zip returned
    posted,         \* how often the handler has posted to .../callback
    tmp,            \* the files in tmp/
    left,           \* history: the files earlier processes left in tmp/
    map,            \* the tree of notifmsg: without "splash", with it, or torn
    inside,         \* what each handler is doing inside operator[] of the tree
    draft,          \* the help page a handler prepares
    message,        \* the help message as Discord shows it
    data,           \* which of Lengths is in data/
    starts          \* how often the process was started again

vars == <<alive, req, todo, zip, posted, tmp, left, map, inside, draft, message, data,
          starts>>
process == <<left, data, starts>>
help == <<draft, message>>
tree == <<map, inside>>

Commands == {"hello", "obfuscate", "manifest", "item", "entity", "help", "missing",
             "component"}
Subs     == {"none", "independent", "dependent", "start", "checkpoint", "finish",
             "unknown"}
\* json: the text attachment (file to obfuscate, step file, model);
\* image: the image attachment; valid: entity options that make a pack, and a
\* charset of utf-8 for the file to obfuscate.
Request  == [cmd : Commands, sub : Subs, json : {"none", "json", "other"},
             image : {"none", "png", "other"}, valid : BOOLEAN]
Steps    == {"find", "splash", "fetch", "raw_fetch", "obfuscate", "upload_data", "make_zip",
             "upload_file", "remove", "metadata", "page", "post"}

\* What a handler thread has before its first interaction.
NoRequest == [cmd |-> "none", sub |-> "none", json |-> "none", image |-> "none",
              valid |-> FALSE]
\* A press of a component carries its custom id, which is in the draft.
Component == [NoRequest EXCEPT !.cmd = "component"]

\* Pages are only ever added to data/.
ASSUME InteractionAssumption ==
    /\ \A r \in Requests : r \in Request /\ r.cmd # "component"
    /\ Restarts \in Nat /\ "none" \notin Names
    /\ Lengths \in Seq([Topics -> Nat \ {0}]) /\ Lengths # <<>>
    /\ \A i, j \in 1..Len(Lengths) : i <= j =>
          \A t \in Topics : Lengths[i][t] <= Lengths[j][t]
    /\ \A i \in 1..Len(Lengths) : \A t \in Topics : Lengths[i][t] < First

Pages(t) == Lengths[data][t]

----------------------------------------------------------------------------
(* The steps of each command, in order.  "find" is a lookup of a message that *)
(* config/notifmsg.json has, "splash" the lookup of one that it has not.  The *)
(* final POST of line 567 is reached by every branch that does not return     *)
(* before it.                                                                 *)

Find == <<"find">>
Post == <<"post">>
Image(r) == CASE r.image = "png"   -> <<"raw_fetch">>
              [] r.image = "other" -> Find
              [] OTHER             -> <<>>
PackKept == <<"make_zip", "upload_file">>       \* mutant: the file stays in tmp/
Pack == <<"make_zip", "upload_file", "remove">>

ObfuscateNoReturn(r) ==     \* mutant: no return after the upload
    IF r.json = "json" THEN <<"splash", "fetch", "obfuscate", "upload_data">> \o Post
                       ELSE Find \o Post
Obfuscate(r) ==
    IF r.json = "json"
    THEN <<"splash">> \o (IF r.valid THEN <<>> ELSE Find)
                      \o <<"fetch", "obfuscate", "upload_data">>
    ELSE Find \o Post

\* An unknown subcommand prepares a message and returns without sending it.
Manifest(r) ==
    IF r.sub \in {"independent", "dependent"} THEN Find \o Image(r) \o Pack ELSE Find

Item(r) ==
    CASE r.sub = "start" -> Find \o <<"upload_data">>
      [] r.sub = "checkpoint" /\ r.json = "json" -> <<"fetch">> \o Find \o <<"upload_data">>
      [] r.sub = "finish" /\ r.json = "json" -> Find \o <<"fetch">> \o Image(r) \o Pack
      [] OTHER -> Find \o Post

\* The attachments are fetched before the options are looked at.
Entity(r) ==
    Image(r) \o (CASE r.json = "json"  -> <<"fetch">>
                   [] r.json = "other" -> Find
                   [] OTHER            -> <<>>)
             \o (IF r.valid THEN Pack ELSE Find \o Post)

Plan(r) ==
    CASE r.cmd = "obfuscate" -> Obfuscate(r)
      [] r.cmd = "manifest"  -> Manifest(r)
      [] r.cmd = "item"      -> Item(r)
      [] r.cmd = "entity"    -> Entity(r)
      [] r.cmd = "missing"   -> Find \o Post
      [] OTHER               -> Post

Turn == <<"metadata", "page", "post">>

----------------------------------------------------------------------------
Each(v) == [h \in Handlers |-> v]

Init ==
    /\ alive = TRUE /\ tmp = {} /\ left = {} /\ starts = 0
    /\ req = Each(NoRequest) /\ todo = Each(<<>>) /\ zip = Each("none")
    /\ posted = Each(0) /\ inside = Each("no") /\ draft = Each(NoMessage)
    /\ map = "loaded" /\ message = NoMessage /\ data = 1

\* A new thread: determine_what_to_do calls respond_interaction.
Start(h, r, steps, page) ==
    /\ alive /\ todo[h] = <<>>
    /\ req' = [req EXCEPT ![h] = r]
    /\ todo' = [todo EXCEPT ![h] = steps]
    /\ zip' = [zip EXCEPT ![h] = "none"]
    /\ posted' = [posted EXCEPT ![h] = 0]
    /\ draft' = [draft EXCEPT ![h] = page]
    /\ UNCHANGED <<alive, tmp, message, tree, process>>

\* /help prepares the menu, the other commands no help page.
Begin(h, r) == Start(h, r, Plan(r), IF r.cmd = "help" THEN Menu ELSE NoMessage)

\* A user presses a component of the message that is shown.
Press(h, id) ==
    /\ message # NoMessage /\ id \in make_help_with_selection(message)
    /\ Start(h, Component, Turn, Asked(id))

Step(h, name) ==
    /\ alive /\ todo[h] # <<>> /\ Head(todo[h]) = name
    /\ todo' = [todo EXCEPT ![h] = Tail(@)]
    /\ UNCHANGED <<req, process>>

----------------------------------------------------------------------------
(* notifmsg[key] from the outside: a std::map that handlers share without a   *)
(* lock.  An insertion next to any other lookup is undefined: the process may *)
(* end, or the tree be torn, after which any lookup may end it.               *)

InsertsAlways(h) == Head(todo[h]) = "splash"        \* mutant: a key that never stays
Inserts(h) == Head(todo[h]) = "splash" /\ map = "loaded"

Clash(h) ==
    \E g \in Handlers \ {h} :
        inside[g] # "no" /\ (Inserts(h) \/ inside[g] = "insert")

Enter(h) ==
    /\ alive /\ todo[h] # <<>> /\ Head(todo[h]) \in {"find", "splash"}
    /\ inside[h] = "no"
    /\ inside' = [inside EXCEPT ![h] = IF Inserts(h) THEN "insert" ELSE "find"]
    /\ IF Clash(h) \/ map = "torn"
       THEN alive' \in BOOLEAN /\ map' \in {map, "torn"}
       ELSE UNCHANGED <<alive, map>>
    /\ UNCHANGED <<req, todo, zip, posted, tmp, help, process>>

\* The key is there for good when no insertion is under way any more.
Leave(h) ==
    /\ inside[h] # "no"
    /\ Step(h, "find") \/ Step(h, "splash")
    /\ inside' = [inside EXCEPT ![h] = "no"]
    /\ map' = IF /\ inside[h] = "insert" /\ map = "loaded"
                 /\ \A g \in Handlers \ {h} : inside[g] # "insert"
              THEN "settled" ELSE map
    /\ UNCHANGED <<alive, zip, posted, tmp, help>>

----------------------------------------------------------------------------
(* Transfers and files. *)

\* A download that fails, or is empty, leaves cr.data null: std::string throws
\* in a detached thread, which ends the process; bstring takes null and 0.  The
\* parse that follows for a step file or a model throws on 20-digit integers.
Fetch(h) ==
    /\ Step(h, "fetch")
    /\ alive' \in BOOLEAN
    /\ UNCHANGED <<zip, posted, tmp, help, tree>>

RawFetchThrows(h) ==        \* mutant: the image is read like a text
    /\ Step(h, "raw_fetch")
    /\ alive' \in BOOLEAN
    /\ UNCHANGED <<zip, posted, tmp, help, tree>>
RawFetch(h) ==
    /\ Step(h, "raw_fetch")
    /\ UNCHANGED <<alive, zip, posted, tmp, help, tree>>

\* minify throws a string on an unterminated literal, and nobody catches it.
ObfuscateMain(h) ==
    /\ Step(h, "obfuscate")
    /\ alive' \in BOOLEAN
    /\ UNCHANGED <<zip, posted, tmp, help, tree>>

\* A failed upload or post is logged, and counts as an answer here.
AnswerTwice(h) ==           \* mutant: the transfer is performed twice
    /\ Step(h, "upload_data") \/ Step(h, "upload_file")
    /\ posted' = [posted EXCEPT ![h] = @ + 2]
    /\ UNCHANGED <<alive, zip, tmp, help, tree>>
Upload(h) ==
    /\ Step(h, "upload_data") \/ Step(h, "upload_file")
    /\ posted' = [posted EXCEPT ![h] = @ + 1]
    /\ UNCHANGED <<alive, zip, tmp, help, tree>>

\* The POST of line 567.  The first /help makes the message that is watched, a
\* page edits it (type 7); what is shown is what reached Discord last.
PostAnswer(h) ==
    /\ Step(h, "post")
    /\ posted' = [posted EXCEPT ![h] = @ + 1]
    /\ message' \in {message} \cup
          (IF draft[h] = NoMessage \/ (draft[h] = Menu /\ message # NoMessage) THEN {}
           ELSE {draft[h]})
    /\ draft' = [draft EXCEPT ![h] = NoMessage]
    /\ UNCHANGED <<alive, zip, tmp, tree>>

\* External: two files in tmp/ never get the same random name.
MakeZip(h) ==
    /\ Step(h, "make_zip")
    /\ \E n \in Names \ tmp :
          tmp' = tmp \cup {n} /\ zip' = [zip EXCEPT ![h] = n]
    /\ UNCHANGED <<alive, posted, help, tree>>

Remove(h) ==
    /\ Step(h, "remove")
    /\ tmp' = tmp \ {zip[h]}
    /\ zip' = [zip EXCEPT ![h] = "none"]
    /\ UNCHANGED <<alive, posted, help, tree>>

----------------------------------------------------------------------------
(* Help pages. *)

\* data/<topic>_0.json says how many pages there are.
ReadMetadata(h) ==
    /\ Step(h, "metadata")
    /\ draft' = [draft EXCEPT ![h] = Resolved(@, Pages(@.topic))]
    /\ UNCHANGED <<alive, zip, posted, tmp, message, tree>>

\* data/<topic>_<page>.json: of a file without embeds, or of none, the first
\* element of an empty list is written to, which may end the process.
ReadPage(h) ==
    /\ Step(h, "page")
    /\ IF draft[h].page \in 1..Pages(draft[h].topic) THEN UNCHANGED alive
                                                     ELSE alive' \in BOOLEAN
    /\ UNCHANGED <<zip, posted, tmp, help, tree>>

----------------------------------------------------------------------------
(* The process and its files. *)

\* A build copies data/ anew, also below a running process.
Deploy ==
    /\ data < Len(Lengths)
    /\ data' = data + 1
    /\ UNCHANGED <<alive, req, todo, zip, posted, tmp, left, help, tree, starts>>

\* The process has ended, by itself or stopped, and is started: main loads
\* notifmsg again and looks at nothing in tmp/.
Restart ==
    /\ starts < Restarts
    /\ starts' = starts + 1 /\ alive' = TRUE
    /\ req' = Each(NoRequest) /\ todo' = Each(<<>>) /\ zip' = Each("none")
    /\ posted' = Each(0) /\ inside' = Each("no") /\ draft' = Each(NoMessage)
    /\ map' = "loaded" /\ left' = tmp
    /\ UNCHANGED <<tmp, message, data>>

Stopped == ~alive /\ UNCHANGED vars

HandlerStep(h) ==
    \/ Enter(h) \/ Leave(h)
    \/ Fetch(h) \/ RawFetch(h) \/ ObfuscateMain(h) \/ Upload(h) \/ PostAnswer(h)
    \/ MakeZip(h) \/ Remove(h)
    \/ ReadMetadata(h) \/ ReadPage(h)

Next ==
    \/ \E h \in Handlers :
          \/ \E r \in Requests : Begin(h, r)
          \/ \E id \in make_help_with_selection(message) : Press(h, id)
          \/ HandlerStep(h)
    \/ Deploy \/ Restart \/ Stopped

Spec == Init /\ [][Next]_vars

----------------------------------------------------------------------------
(* Properties.                                                              *)

Messages == [topic : Topics \cup {"none"}, page : Int, max : Nat]

\* Every variable keeps its type.
TypeOK ==
    /\ alive \in BOOLEAN /\ tmp \subseteq Names /\ left \subseteq Names
    /\ req \in [Handlers -> Requests \cup {NoRequest, Component}]
    /\ \A h \in Handlers : \A i \in DOMAIN todo[h] : todo[h][i] \in Steps
    /\ zip \in [Handlers -> Names \cup {"none"}]
    /\ posted \in [Handlers -> {0, 1}]
    /\ map \in {"loaded", "settled", "torn"}
    /\ inside \in [Handlers -> {"no", "find", "insert"}]
    /\ draft \in [Handlers -> Messages] /\ message \in Messages
    /\ data \in 1..Len(Lengths) /\ starts \in 0..Restarts

Busy(h) == todo[h] # <<>>
Ended(h) == req[h] # NoRequest /\ ~Busy(h)
Silent(r) == r.cmd = "manifest" /\ r.sub \notin {"independent", "dependent"}

\* An interaction is answered once: no branch that uploads also runs into the
\* final POST, and none but the unknown manifest subcommand returns silently.
AnsweredOnce ==
    \A h \in Handlers :
        (Ended(h) /\ alive) => posted[h] = IF Silent(req[h]) THEN 0 ELSE 1

\* tmp/ holds the archives of the running handlers, and what processes that
\* ended in the middle left there, and nothing else; each upload finds its
\* archive there, which is not one of those left.
TmpIsTransient ==
    alive => LET Live == {zip[h] : h \in {g \in Handlers : Busy(g) /\ zip[g] # "none"}}
             IN  /\ tmp = left \cup Live /\ left \cap Live = {}
                 /\ \A h \in Handlers :
                       (Busy(h) /\ Head(todo[h]) = "upload_file") => zip[h] \in tmp

\* Only a request with a JSON attachment can end the process, or tear the tree
\* that later lookups trip over: image downloads that fail lose the image, and
\* no press of a button, however old the message, asks for a page without file.
OnlyJsonKills ==
    ((\A h \in Handlers : req[h].json # "json") /\ map # "torn") => alive

\* Once an obfuscation has inserted "splash" and no other insertion is under
\* way, lookups only read: the tree cannot be torn any more in this process.
MapSettles ==
    [][(map = "settled" /\ starts' = starts) => map' = "settled"]_vars

\* However the presses of several users race, and however old the message they
\* press on, what is shown is a page that data/ has, with a length that it had.
PagesExist ==
    message.page > 0 => /\ message.page \in 1..Pages(message.topic)
                        /\ message.page <= message.max
                        /\ message.max <= Pages(message.topic)

\* From the message shown, every page of every topic can be reached by presses
\* of enabled components, one after the other.
PagesNavigable ==
    message # NoMessage =>
    \A t \in Topics :
        LET Asks(m) == {a \in {Asked(id) : id \in make_help_with_selection(m)} : a.topic = t}
            Leads(m) == {Resolved(a, Pages(t)).page : a \in Asks(m)}
            Onward == [n \in 1..Pages(t) |->
                         Leads([topic |-> t, page |-> n, max |-> Pages(t)])]
        IN  \A S \in SUBSET (1..Pages(t)) :
                (Leads(message) \subseteq S /\ \A n \in S : Onward[n] \subseteq S)
                    => S = 1..Pages(t)

=============================================================================
