---------------------------- MODULE MCGenerators ----------------------------
(* An instance of Generators for TLC.                                       *)
EXTENDS Generators

Strings == {<<>>, <<"a">>, <<QuoteChar>>, <<Esc>>, <<Esc, QuoteChar>>, <<QuoteChar, ",">>,
            <<":">>, <<",">>, <<"\n">>, <<"{">>, <<"]">>}
Scalars == {Str(s) : s \in Strings} \cup {Num("1"), Lit("true"), Lit("null")}
Keys == {<<"a">>, <<QuoteChar>>, <<":">>}
Lists(s) == {List(<<>>)} \cup {List(<<v>>) : v \in s} \cup {List(<<v, w>>) : v, w \in s}
Objects(s) ==
    {Obj(<<>>)} \cup {Obj(<<<<k, v>>>>) : k \in Keys, v \in s}
    \cup {Obj(<<<<<<"a">>, v>>, <<<<":">>, w>>>>) : v, w \in s}
Few == {Str(<<Esc>>), Str(<<QuoteChar, ",">>), Num("1")}
MCPayloads ==
    {v \in Scalars \cup Lists(Scalars) \cup Objects(Scalars)
           \cup Objects(Lists(Few)) \cup Lists(Objects(Few)) : v \in Readable(2)}

MCTexts == SeqOf({123, 32, 34, 97, 92}, 5)

Boundaries == {1, 65, 127, 128, 2047, 2048, 55295, 57344, 65535}
MCCodes == SeqOf(Boundaries, 2)

Versions == {<<"1", ".", "17", ".", "0">>}
MCPackOptions ==
    [pack_type : Types, pack_use_gametest : BOOLEAN, pack_version : Versions,
     pack_use_metadata : BOOLEAN, pack_authors : {<<>>, <<"a", ",", "b">>},
     pack_icon : BOOLEAN]
MCPairOptions ==
    [bp_use_scripts : BOOLEAN, bp_use_gametest : BOOLEAN, bp_version : Versions,
     rp_version : Versions, bp_use_metadata : {TRUE}, rp_use_metadata : {FALSE},
     bp_authors : {<<"a">>}, rp_authors : {<<"b">>}, pack_icon : BOOLEAN]

Identifiers ==
    {<<>>, <<"ghost">>, <<"a", ":", "ghost">>, <<"a", ":", "b", ":", "ghost">>,
     <<"minecraft", ":", "ghost">>, <<":", "ghost">>, <<"a", ":">>, <<"a", ":", "Ruby">>}
MCItemOptions ==
    [identifier : Identifiers, icon : {<<>>, <<"ruby">>, <<"items", "/", "ruby">>},
     image : BOOLEAN, atlas : BOOLEAN]
MCEntityOptions ==
    [identifier : Identifiers, generate : {"both", "res", "beh"},
     texture : {NoFile} \cup [name : {<<"Ghost", ".png">>, <<"ghost">>}],
     model : {NoFile} \cup [name : {<<"ghost", ".json">>},
                              geometry : {<<>>, <<"Ghost">>, <<"geometry", "ghost">>}]]
=============================================================================
