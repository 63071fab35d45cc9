---------------------------- MODULE MCItemWizard ----------------------------
(* An instance of ItemWizard for TLC.                                       *)
EXTENDS ItemWizard

\* Texts that printing has to escape and parsing to tell from its own marks.
Tricky == {<<>>, <<"a">>, <<QuoteChar>>, <<Esc>>, <<Esc, QuoteChar>>, <<QuoteChar, ",", QuoteChar>>, <<":">>,
           <<",">>, <<"\n">>, <<"a", "ws">>, <<Esc, "n">>, <<"{">>}

MCStartOptions ==
    {<<<<"display_name", Str(text)>>>> : text \in Tricky}
    \cup {<<<<"max_stack_size", Num(n)>>, <<"is_explodable", false>>>> : n \in {"0", "1", "64", "65"}}
    \cup {<<<<"use_duration", Num(n)>>>> : n \in {"0", "3.1415926", "32.0"}}
    \cup {<<>>, <<<<"is_food", true>>, <<"food_nutrition", Num("0.9999999")>>>>}
MCCheckpointOptions ==
    {<<<<"damage", Num(n)>>>> : n \in {"-1", "0"}}
    \cup {<<<<"can_shoot", true>>, <<"shooter_max_draw_duration", Num(n)>>>> :
              n \in {"0.9999999", "3.1415926"}}
    \cup {<<<<"place_block", Lit(b)>>, <<"block_to_place", Str(text)>>>> :
              b \in {"true", "false"}, text \in {<<"a">>, <<QuoteChar>>}}
    \cup {<<<<"place_entity", true>>, <<"entity_use_on", Str(<<"a", ",", "b">>)>>>>}
MCFinishOptions ==
    {<<>>, <<<<"fuel_duration", Num("3.1415926")>>>>,
     <<<<"record", true>>, <<"record_duration", Num("0")>>>>,
     <<<<"record", true>>, <<"record_comparator_signal", Num("16")>>>>,
     <<<<"dye_powder", Str(<<"none">>)>>, <<"should_despawn", false>>>>}
=============================================================================
