------------------------------ MODULE ItemWizard ------------------------------
(* The three subcommands of /item in pilepoxyl/httpapi.cpp.  The bot keeps no *)
(* state between them: start and checkpoint answer with a JSON file of the    *)
(* options so far, which the user attaches to the next step.  Any file of     *)
(* theirs may be attached, also to a second checkpoint.                       *)
EXTENDS ItemGen

CONSTANTS
    StartOptions,       \* the options of a start: sequences of <<name, value>>
    CheckpointOptions,
    FinishOptions,
    MaxFiles            \* bound: step files of one user

VARIABLES
    files,      \* the step files the user has: their text and, as history, what
                \* was given in the steps that lead to it, in order
    item,       \* the item of the last finish
    asked       \* history: what was given for it

vars == <<files, item, asked>>

\* Characters that are not read back from inside an object: brackets, which the
\* scanner counts inside strings too, and those whose escapes it does not read back.
Lost  == {"{", "}", "[", "]", "ctl", "vt"}
Names == Char \ (Lost \cup {""})      \* a name is one word

\* The options that take a step file.
FileNames == {"step1_file", "step2_file"}

ASSUME WizardAssumption ==
    /\ MaxFiles \in Nat
    /\ FileNames \subseteq Names
    /\ \A options \in StartOptions \cup CheckpointOptions \cup FinishOptions :
          /\ options \in Seq(Names \X Atoms)
          /\ \A i, j \in DOMAIN options : options[i][1] = options[j][1] => i = j

Attachment == Str(<<"5">>)      \* the id of the attached step file
Key(name) == <<name>>
Name(key) == IF key = <<>> THEN "" ELSE key[1]

\* What writeItem looks at.
Options == Scalars \cup Gates \cup UNION {Fields[g] : g \in Gates}

\* The options that are not given have these values; a number that the code
\* starts from a bool has a 64-bit value that was never set.
DefaultOf(name, unset) ==
    CASE name \in {"can_destroy_in_creative", "is_explodable", "should_despawn"} -> true
      [] name \in {"use_animation", "creative_category", "wearable_slot",
                   "enchantable_slot"} -> none
      [] name \in {"block_to_place", "cooldown_category", "entity_to_place", "entity_use_on",
                   "entity_dispense_on", "food_using_converts_to", "dye_powder",
                   "shooter_ammo_item_to_use", "record_sound_event",
                   "projectile_entity"} -> empty
      [] name \in Amounts \cup {"armor_protection", "enchantable_value",
                                "knockback_resistance"} -> Num("-1")
      [] name \in {"max_stack_size", "shooter_max_draw_duration"} -> Num("0")
      [] name = "use_duration"             -> Num("32")
      [] name = "display_name"             -> Str(<<"Nice item">>)
      [] name = "food_saturation_modifier" -> Str(<<"low">>)
      [] name = "record_comparator_signal" -> unset
      [] OTHER                             -> false
Defaults(unset) == [name \in Options |-> DefaultOf(name, unset)]

\* witdt[name] = value, for one pair after the other; names that no option has
\* (step1_file, say) are added and never read.
OverrideStepNone(w, p) ==       \* mutant: insert, which keeps what is there
    [name \in DOMAIN w \cup {Name(p[1])} |-> IF name \in DOMAIN w THEN w[name] ELSE p[2]]
OverrideStep(w, p) ==
    [name \in DOMAIN w \cup {Name(p[1])} |-> IF name = Name(p[1]) THEN p[2] ELSE w[name]]
OverrideLoop(w, pairs) ==
    LET m[i \in 0..Len(pairs)] == IF i = 0 THEN w ELSE OverrideStep(m[i - 1], pairs[i])
    IN  m
Override(w, pairs) == OverrideLoop(w, pairs)[Len(pairs)]

----------------------------------------------------------------------------
reduce_options(options) ==
    Assigned([i \in DOMAIN options |-> <<Key(options[i][1]), options[i][2]>>])

WithFile(name, options) == <<<<name, Attachment>>>> \o options

\* The pairs of the attached file are put before those of this step.
MergedAfter(file, own) == own \o val_object(parse[file.text])   \* mutant: behind them
Merged(file, own) == val_object(parse[file.text]) \o own

Init == files = <<>> /\ item = {} /\ asked = <<>>

NewFile(pairs, given) ==
    /\ Len(files) < MaxFiles /\ asked = <<>>
    /\ files' = Append(files, [text |-> get_repr(Obj(pairs)), given |-> given])
    /\ UNCHANGED <<item, asked>>

\* One start, a bound: the files of two starts never meet.
Start(options) == files = <<>> /\ NewFile(reduce_options(options), options)

Checkpoint(file, options) ==
    LET given == WithFile("step1_file", options)
    IN  NewFile(Merged(file, reduce_options(given)), file.given \o given)

Finish(file, options) ==
    LET given == WithFile("step2_file", options)
        pairs == Merged(file, reduce_options(given))
    IN  /\ asked = <<>>
        /\ \E unset \in {Num("-1"), Num("0"), Num("16")} :
              item' = writeItem(Override(Defaults(unset), pairs))
        /\ asked' = file.given \o given
        /\ UNCHANGED files

\* Another item, from files of its own; a bound, as steps share no state.
Again == asked # <<>> /\ files' = <<>> /\ item' = {} /\ asked' = <<>>

Next ==
    \/ \E options \in StartOptions : Start(options)
    \/ \E i \in DOMAIN files :
          \/ \E options \in CheckpointOptions : Checkpoint(files[i], options)
          \/ \E options \in FinishOptions : Finish(files[i], options)
    \/ Again

Spec == Init /\ [][Next]_vars

----------------------------------------------------------------------------
(* Properties.                                                              *)

\* The texts that survive printing and parsing inside an object.
Clean(given) ==
    \A i \in DOMAIN given :
        given[i][2][1] = "str" =>
            \A j \in DOMAIN given[i][2][2] :
                given[i][2][2][j] \notin Lost

Latest(given) ==
    [name \in {given[i][1] : i \in DOMAIN given} |->
        given[Max({i \in DOMAIN given : given[i][1] = name})][2]]

\* No number crosses an integer, the limits of writeItem, when it is rounded.
Steady(given) ==
    \A i \in DOMAIN given :
        given[i][2][1] = "num" => Number(Shown(given[i][2])) = Number(given[i][2])

\* The options of the item when all are given at once.
DirectOptions(given, unset) ==
    LET latest == Latest(given)
    IN  [name \in Options |->
            IF name \in DOMAIN latest THEN latest[name] ELSE DefaultOf(name, unset)]

\* Every variable keeps its type.
TypeOK ==
    /\ Len(files) <= MaxFiles
    /\ \A i \in DOMAIN files : Head(files[i].text) = "{" /\ Last(files[i].text) = "}"
    /\ \A e \in item : e[1] \in Options

\* A step file holds exactly the options given in the steps that lead to it, and of
\* an option given twice the value of the later step, however often the file was
\* printed and parsed on the way: a text as it was given, a number rounded once.
\* (The file of a start without options is read as one option without a name,
\* which nothing looks at.)
LaterWins ==
    (files # <<>> /\ asked = <<>> /\ Clean(Last(files).given)) =>
            LET read == val_object(parse[Last(files).text])
                named == {j \in DOMAIN read : Name(read[j][1]) # ""}
                latest == Latest(Last(files).given)
            IN  /\ {Name(read[j][1]) : j \in named} = DOMAIN latest
                /\ \A j \in named : read[j][2] = Shown(latest[Name(read[j][1])])

\* The item is the one that all options given at once would have made: the files
\* in between lose no option, add none and reorder none, and their rounding does
\* not show, as the item is printed with the same six digits.  Two exceptions: a
\* number that rounding takes across a limit, and the comparator signal of a
\* record, whose default was never set.
SameAsDirect ==
    (asked # <<>> /\ Clean(asked) /\ Steady(asked)) =>
        LET Direct(unset) == writeItem(DirectOptions(asked, unset))
        IN  item \in {Direct(Num("-1")), Direct(Num("0"))}
=============================================================================
