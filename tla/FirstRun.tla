------------------------------- MODULE FirstRun -------------------------------
(* runpp.cpp's main and the firstrun class: the prompt for a bot token, its   *)
(* check, the installation of the slash commands, config/config.json and the  *)
(* FIRSTRUN file, with the process killed or failing between any two steps    *)
(* and started again.  A token is abstracted to whether Discord accepts it.   *)
EXTENDS Naturals, Sequences, SequencesExt

CONSTANTS
    MaxStarts,      \* bound: starts of the program
    Kills,          \* may the process be killed at any step?
    Rebuilds        \* may the program be built again?

ASSUME FirstRunAssumption ==
    /\ MaxStarts \in Nat \ {0}
    /\ Kills \in BOOLEAN /\ Rebuilds \in BOOLEAN

VARIABLES
    pc,             \* where main is; "off" when no process runs
    bot_token,      \* what the user typed in this process
    left,           \* the commands install_commands still has to send
    served,         \* the token the Gateway client was started with
    FIRSTRUN,       \* file: does it exist?
    config,         \* file: the token config.json holds, or none
    offered, installed,     \* external: commands sent to / held by Discord
    starts, prompts,        \* history: starts and token prompts
    unwritten               \* history: the last export_json failed

files  == <<FIRSTRUN, config>>
remote == <<offered, installed>>
vars   == <<pc, bot_token, left, served, files, remote, starts, prompts,
            unwritten>>

available == <<"obfuscator", "manifest", "item", "entity", "help">>
Commands == ToSet(available)
Tokens   == {"good", "bad"}
PCs      == {"off", "main", "set_btk", "fetch_id", "bot_id", "install", "open",
             "write", "remove", "load", "serving"}

Init ==
    /\ pc = "off" /\ bot_token = "none" /\ left = <<>> /\ served = "none"
    /\ FIRSTRUN = TRUE /\ config = "none"
    /\ offered = {} /\ installed = {}
    /\ starts = 0 /\ prompts = 0 /\ unwritten = FALSE

Start ==
    /\ pc = "off" /\ starts < MaxStarts
    /\ pc' = "main" /\ starts' = starts + 1
    /\ bot_token' = "none" /\ left' = <<>> /\ served' = "none"
    /\ UNCHANGED <<files, remote, prompts, unwritten>>

Goto(from, to) == pc = from /\ pc' = to /\ UNCHANGED starts

Main ==
    /\ Goto("main", IF FIRSTRUN THEN "set_btk" ELSE "load")
    /\ UNCHANGED <<bot_token, left, served, files, remote, prompts, unwritten>>

\* The user types any token; nothing is stored yet.
set_btkTwice(t) ==      \* mutant: asks twice, to be sure
    /\ Goto("set_btk", "fetch_id")
    /\ bot_token' = t /\ prompts' = prompts + 2
    /\ UNCHANGED <<left, served, files, remote, unwritten>>
set_btk(t) ==
    /\ Goto("set_btk", "fetch_id")
    /\ bot_token' = t /\ prompts' = prompts + 1
    /\ UNCHANGED <<left, served, files, remote, unwritten>>

\* users/@me has an id for a good token only.  A transfer that fails leaves
\* cr.data null, and std::string throws: the process ends.
fetch_id ==
    /\ pc = "fetch_id" /\ pc' \in {"bot_id", "off"}
    /\ UNCHANGED <<bot_token, left, served, files, remote, starts, prompts, unwritten>>

NoIdCheck == TRUE       \* mutant: bot_id.length() is not looked at
HasId == bot_token = "good"
CheckId ==
    /\ Goto("bot_id", IF HasId THEN "install" ELSE "off")
    /\ left' = IF HasId THEN available ELSE <<>>
    /\ UNCHANGED <<bot_token, served, files, remote, prompts, unwritten>>

\* Each command is sent once; an error of the transfer is printed and forgotten,
\* one in Discord's answer is not even looked at.
StopAtError(c, ok) == IF ok THEN Tail(left) ELSE <<>>   \* mutant
NextCommand(c, ok) == Tail(left)
install_one_command(c, ok) ==
    /\ pc = "install" /\ left # <<>> /\ c = Head(left)
    /\ left' = NextCommand(c, ok)
    /\ offered' = offered \cup {c}
    /\ installed' = IF ok THEN installed \cup {c} ELSE installed
    /\ pc' = IF left' = <<>> THEN "open" ELSE "install"
    /\ UNCHANGED <<bot_token, served, files, starts, prompts, unwritten>>

\* export_json: opening the file empties it, closing it writes it, and nobody
\* looks at the stream's state.
OpenConfig(ok) ==
    /\ Goto("open", IF ok THEN "write" ELSE "remove")
    /\ config' = IF ok THEN "none" ELSE config
    /\ unwritten' = ~ok
    /\ UNCHANGED <<bot_token, left, served, FIRSTRUN, remote, prompts>>

WriteConfigLate(ok) ==  \* mutant: export_json comes after remove("FIRSTRUN")
    /\ Goto("write", "remove")
    /\ FIRSTRUN' = FALSE /\ config' = "none" /\ unwritten' = ~ok
    /\ UNCHANGED <<bot_token, left, served, remote, prompts>>
WriteConfig(ok) ==
    /\ Goto("write", "remove")
    /\ config' = IF ok THEN bot_token ELSE "none"
    /\ unwritten' = ~ok
    /\ UNCHANGED <<bot_token, left, served, FIRSTRUN, remote, prompts>>

\* main holds FIRSTRUN open and ignores the result of remove.
RemoveMark(ok) ==
    /\ Goto("remove", "load")
    /\ FIRSTRUN' = (FIRSTRUN /\ ~ok)
    /\ UNCHANGED <<bot_token, left, served, config, remote, prompts, unwritten>>

\* The configuration is read back from the file, and the client started.
Load ==
    /\ Goto("load", "serving")
    /\ served' = config
    /\ UNCHANGED <<bot_token, left, files, remote, prompts, unwritten>>

\* connect_and_receive_events returns (Gateway.tla), or the process is killed.
End ==
    /\ pc = "serving" \/ (Kills /\ pc # "off")
    /\ pc' = "off"
    /\ UNCHANGED <<bot_token, left, served, files, remote, starts, prompts, unwritten>>

\* A build of runpp copies FIRSTRUN beside it, and leaves config.json alone.
Rebuild ==
    /\ Rebuilds /\ pc = "off"
    /\ FIRSTRUN' = TRUE
    /\ UNCHANGED <<pc, bot_token, left, served, config, remote, starts, prompts, unwritten>>

Stopped == pc = "off" /\ starts = MaxStarts /\ UNCHANGED vars

Next ==
    \/ Start \/ Main \/ fetch_id \/ CheckId
    \/ \E t \in Tokens : set_btk(t)
    \/ \E c \in Commands, ok \in BOOLEAN : install_one_command(c, ok)
    \/ \E ok \in BOOLEAN : OpenConfig(ok) \/ WriteConfig(ok) \/ RemoveMark(ok)
    \/ Load \/ End \/ Rebuild \/ Stopped

Spec == Init /\ [][Next]_vars

----------------------------------------------------------------------------
(* Properties.                                                              *)

TypeOK ==
    /\ pc \in PCs /\ bot_token \in Tokens \cup {"none"}
    /\ left \in Seq(Commands) /\ served \in Tokens \cup {"none"}
    /\ FIRSTRUN \in BOOLEAN /\ config \in Tokens \cup {"none"}
    /\ installed \subseteq offered /\ offered \subseteq Commands
    /\ starts \in 0..MaxStarts /\ prompts \in 0..starts /\ unwritten \in BOOLEAN

\* Without FIRSTRUN there is a configuration with a token Discord accepted, as
\* firstrun.cpp:7 promises ("stored in config/config.json"): a kill at any step,
\* a refused token or a rebuild never leaves the bot set up without one.  Only a
\* write that failed does.
SetupComplete == ~FIRSTRUN => (config = "good" \/ unwritten)

\* The Gateway client starts with a checked token, and not before every command
\* was sent to Discord once, whatever became of the commands sent before it.
ServesWhenReady ==
    pc = "serving" => offered = Commands /\ (served = "good" \/ unwritten)

\* A refused token changes nothing: the setup can be repeated from where it was.
BadTokenHarmless ==
    [][(pc # "off" /\ bot_token = "bad") => UNCHANGED <<files, remote>>]_vars
==============================================================================
