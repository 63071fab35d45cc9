--------------------------- MODULE FirstRunProofs ---------------------------
(* Proofs about the first-run setup, for any number of starts.              *)
EXTENDS FirstRun, TLAPS

\* The head of a sequence and its tail have the elements of the sequence.
LEMMA HeadAndTail ==
    ASSUME NEW S, NEW s \in Seq(S), s # <<>>
    PROVE  /\ Head(s) \in S /\ Tail(s) \in Seq(S)
           /\ ToSet(s) \subseteq {Head(s)} \cup ToSet(Tail(s))
<1>1. Head(s) \in S /\ Tail(s) \in Seq(S)
  OBVIOUS
<1>2. ASSUME NEW i \in DOMAIN s PROVE s[i] \in {Head(s)} \cup ToSet(Tail(s))
  <2>1. CASE i = 1
    BY <2>1
  <2>2. CASE i # 1
    <3>1. i - 1 \in DOMAIN Tail(s) /\ Tail(s)[i - 1] = s[i]
      BY <2>2
    <3> QED
      BY <3>1 DEF ToSet
  <2> QED
    BY <2>1, <2>2
<1> QED
  BY <1>1, <1>2 DEF ToSet

\* The five commands of install_commands, as a sequence and as a set.
LEMMA AvailableCommands == available \in Seq(Commands) /\ ToSet(available) = Commands
<1>1. available \in Seq({"obfuscator", "manifest", "item", "entity", "help"})
  BY DEF available
<1>2. \A i \in DOMAIN available : available[i] \in Commands
  BY DEF Commands, ToSet
<1> QED
  BY <1>1, <1>2 DEF Commands

\* Each start asks at most once: one prompt is still to come in these places.
PromptLeft == pc \in {"main", "set_btk"} => prompts < starts
Typed == TypeOK /\ PromptLeft

\* The variables keep their types, and no start of the program asks twice.
LEMMA TypedHolds == Spec => []Typed
<1>1. Init => Typed
  <2> SUFFICES ASSUME Init PROVE Typed
    OBVIOUS
  <2>1. left \in Seq(Commands)
    BY DEF Init
  <2>2. starts \in 0..MaxStarts /\ prompts \in 0..starts
    BY FirstRunAssumption DEF Init
  <2> QED
    BY <2>1, <2>2 DEF Init, Typed, TypeOK, PromptLeft, PCs
<1>2. Typed /\ [Next]_vars => Typed'
  <2> SUFFICES ASSUME Typed, [Next]_vars PROVE Typed'
    OBVIOUS
  <2> USE FirstRunAssumption DEF Typed, TypeOK, PromptLeft, PCs, files, remote
  <2>1. CASE Start
    BY <2>1 DEF Start
  <2>2. CASE Main
    BY <2>2 DEF Main, Goto
  <2>3. ASSUME NEW t \in Tokens, set_btk(t) PROVE Typed'
    BY <2>3 DEF set_btk, Goto
  <2>4. CASE fetch_id
    BY <2>4 DEF fetch_id
  <2>5. CASE CheckId
    BY <2>5, AvailableCommands DEF CheckId, Goto
  <2>6. ASSUME NEW c \in Commands, NEW ok \in BOOLEAN, install_one_command(c, ok)
        PROVE  Typed'
    <3>1. left' \in Seq(Commands)
      BY <2>6, HeadAndTail DEF install_one_command, NextCommand
    <3> QED
      BY <2>6, <3>1 DEF install_one_command
  <2>7. ASSUME NEW ok \in BOOLEAN, OpenConfig(ok) \/ WriteConfig(ok) \/ RemoveMark(ok)
        PROVE  Typed'
    BY <2>7 DEF OpenConfig, WriteConfig, RemoveMark, Goto
  <2>8. CASE Load
    BY <2>8 DEF Load, Goto
  <2>9. CASE End \/ Rebuild
    BY <2>9 DEF End, Rebuild
  <2>10. CASE Stopped \/ UNCHANGED vars
    BY <2>10 DEF Stopped, vars
  <2> QED
    BY <2>1, <2>2, <2>3, <2>4, <2>5, <2>6, <2>7, <2>8, <2>9, <2>10 DEF Next
<1> QED
  BY <1>1, <1>2, PTL DEF Spec

\* Type correctness of main and the firstrun class.
THEOREM FirstRunTypes == Spec => []TypeOK
BY TypedHolds, PTL DEF Typed

----------------------------------------------------------------------------
\* What main knows at each of its steps.  Once FIRSTRUN is gone, it holds for
\* good that every command was offered and that the token was stored.
Checked == {"install", "open", "write", "remove"}
Setup   == Checked \cup {"set_btk", "fetch_id", "bot_id"}
Stored  == config = "good" \/ unwritten
Offered == offered = Commands
SetupInv ==
    /\ pc \in Checked => bot_token = "good"
    /\ pc \in Setup => FIRSTRUN
    /\ pc \in {"remove", "load"} => Stored
    /\ pc = "install" => Commands \subseteq offered \cup ToSet(left)
    /\ pc \in {"open", "write", "remove", "load"} => Offered
    /\ ~FIRSTRUN => Stored /\ Offered
    /\ ServesWhenReady

\* SetupInv is an invariant.
LEMMA SetupInvHolds == Spec => []SetupInv
<1>1. Init => SetupInv
  BY DEF Init, SetupInv, Checked, Setup, ServesWhenReady
<1>2. TypeOK /\ SetupInv /\ [Next]_vars => SetupInv'
  <2> SUFFICES ASSUME TypeOK, SetupInv, [Next]_vars PROVE SetupInv'
    OBVIOUS
  <2> USE DEF SetupInv, Checked, Setup, Stored, Offered, ServesWhenReady, files, remote
  <2>1. CASE Start
    BY <2>1 DEF Start
  <2>2. CASE Main
    BY <2>2 DEF Main, Goto, TypeOK
  <2>3. ASSUME NEW t \in Tokens, set_btk(t) PROVE SetupInv'
    BY <2>3 DEF set_btk, Goto
  <2>4. CASE fetch_id
    BY <2>4 DEF fetch_id
  <2>5. CASE CheckId
    BY <2>5, AvailableCommands DEF CheckId, Goto, HasId
  <2>6. ASSUME NEW c \in Commands, NEW ok \in BOOLEAN, install_one_command(c, ok)
        PROVE  SetupInv'
    <3>1. Commands \subseteq offered' \cup ToSet(left')
      BY <2>6, HeadAndTail DEF install_one_command, NextCommand, TypeOK
    <3>2. left' = <<>> => offered' = Commands
      BY <2>6, <3>1 DEF install_one_command, ToSet, TypeOK
    <3> QED
      BY <2>6, <3>1, <3>2 DEF install_one_command
  <2>7. ASSUME NEW ok \in BOOLEAN, OpenConfig(ok) \/ WriteConfig(ok) PROVE SetupInv'
    BY <2>7 DEF OpenConfig, WriteConfig, Goto
  <2>8. ASSUME NEW ok \in BOOLEAN, RemoveMark(ok) PROVE SetupInv'
    BY <2>8 DEF RemoveMark, Goto, TypeOK
  <2>9. CASE Load
    BY <2>9 DEF Load, Goto
  <2>10. CASE End \/ Rebuild
    BY <2>10 DEF End, Rebuild
  <2>11. CASE Stopped \/ UNCHANGED vars
    BY <2>11 DEF Stopped, vars
  <2> QED
    BY <2>1, <2>2, <2>3, <2>4, <2>5, <2>6, <2>7, <2>8, <2>9, <2>10, <2>11 DEF Next
<1> QED
  BY <1>1, <1>2, FirstRunTypes, PTL DEF Spec

\* Without FIRSTRUN the checked token is stored, whatever was killed on the way.
THEOREM SetupIsComplete == Spec => []SetupComplete
<1>1. SetupInv => SetupComplete
  BY DEF SetupInv, SetupComplete, Stored
<1> QED
  BY <1>1, SetupInvHolds, PTL

\* The client starts after every command was sent, with the checked token.
THEOREM ServesAfterSetup == Spec => []ServesWhenReady
<1>1. SetupInv => ServesWhenReady
  BY DEF SetupInv
<1> QED
  BY <1>1, SetupInvHolds, PTL

\* After set_btk took a token users/@me refuses, no step touches FIRSTRUN, the
\* configuration or the commands at Discord until the next start.
THEOREM RefusalChangesNothing == Spec => BadTokenHarmless
<1>1. TypeOK /\ SetupInv /\ [Next]_vars
        => [(pc # "off" /\ bot_token = "bad") => UNCHANGED <<files, remote>>]_vars
  <2> SUFFICES ASSUME TypeOK, SetupInv, [Next]_vars, pc # "off", bot_token = "bad"
               PROVE  UNCHANGED <<files, remote>>
    OBVIOUS
  <2>1. pc \notin Checked
    BY DEF SetupInv
  <2> USE DEF Checked, Goto, files, remote
  <2>2. CASE Start \/ Main \/ CheckId \/ Load
    BY <2>2 DEF Start, Main, CheckId, Load
  <2>3. CASE fetch_id \/ End
    BY <2>3 DEF fetch_id, End
  <2>4. ASSUME NEW t \in Tokens, set_btk(t) PROVE UNCHANGED <<files, remote>>
    BY <2>4 DEF set_btk
  <2>5. ASSUME NEW c \in Commands, NEW ok \in BOOLEAN, install_one_command(c, ok)
        PROVE  FALSE
    BY <2>1, <2>5 DEF install_one_command
  <2>6. ASSUME NEW ok \in BOOLEAN, OpenConfig(ok) \/ WriteConfig(ok) \/ RemoveMark(ok)
        PROVE  FALSE
    BY <2>1, <2>6 DEF OpenConfig, WriteConfig, RemoveMark
  <2>7. CASE Rebuild
    BY <2>7 DEF Rebuild
  <2>8. CASE Stopped \/ UNCHANGED vars
    BY <2>8 DEF Stopped, vars
  <2> QED
    BY <2>2, <2>3, <2>4, <2>5, <2>6, <2>7, <2>8 DEF Next
<1> QED
  BY <1>1, FirstRunTypes, SetupInvHolds, PTL DEF Spec, BadTokenHarmless
=============================================================================
