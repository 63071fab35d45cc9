------------------------------ MODULE HelpPages ------------------------------
(* The pages of /help in pilepoxyl/httpapi.cpp: the buttons below a page, what *)
(* their custom ids say, and which page a pressed id asks for.  A custom id is *)
(* its words between underscores.                                             *)
EXTENDS Integers, Sequences

First == 2147483646         \* the marks for the first and the last page
Final == 2147483647

\* The values of the select menu, each the first word of its data files; a bound,
\* as the code has five.
CONSTANT Topics

ASSUME TopicsAssumption == Topics # {} /\ "none" \notin Topics

\* The embed of /help itself, which has the select menu and no buttons.
Menu == [topic |-> "none", page |-> 0, max |-> 0]
NoMessage == [topic |-> "none", page |-> -1, max |-> 0]

Id(topic, number) == <<"hp", topic, number>>
Selection(topic) == <<"help_commands", topic>>

\* Both buttons on one side of a page are disabled together.
NotAtFirst(m) == m.page # 1
NotAtEndEarly(m) == m.page # m.max - 1      \* mutant: off by one
NotAtEnd(m) == m.page # m.max

Buttons(m) ==
    IF m.page = 0 THEN {}
    ELSE {Id(m.topic, n) : n \in IF NotAtFirst(m) THEN {First, m.page - 1} ELSE {}}
         \cup {Id(m.topic, n) : n \in IF NotAtEnd(m) THEN {m.page + 1, Final} ELSE {}}

\* What a user can do with a message: press an enabled button, or select.
make_help_with_selection(m) == Buttons(m) \cup {Selection(t) : t \in Topics}

\* The last word is the number, what is between it and "hp" the topic.
parse_hpcid(words) == [topic |-> words[Len(words) - 1], page |-> words[Len(words)], max |-> 0]
Asked(id) ==
    IF Head(id) = "help_commands" THEN [topic |-> id[2], page |-> 1, max |-> 0]
                                  ELSE parse_hpcid(id)

\* The page shown for an asked one, when the topic has that many pages.
ResolvedRaw(asked, length) ==       \* mutant: the last page is not looked up
    [asked EXCEPT !.page = IF @ = First THEN 1 ELSE @, !.max = length]
Resolved(asked, length) ==
    [asked EXCEPT !.page = CASE @ = First -> 1 [] @ = Final -> length [] OTHER -> @,
                  !.max = length]
=============================================================================
