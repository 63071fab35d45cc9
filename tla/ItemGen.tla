------------------------------- MODULE ItemGen -------------------------------
(* generate_libs/item.cpp: the item file of writeItem; ItemFiles.tla has the   *)
(* others.  The options, witdt, are a function from their names to the values *)
(* of JsonText.  Nearly every option is one value of the item: a component of *)
(* its own, or a field of a component that another option, its gate, asks for.*)
(* An item is represented by the options that made it into the file, with the *)
(* values that are printed there, and the gates of the components with fields.*)
EXTENDS Packs, JsonText

Group == <<"obj", <<>>>>
true  == Lit("true")
false == Lit("false")
none  == Str(<<"none">>)
empty == Str(<<>>)

\* What lick and ding give for the numbers used here, doubled: an odd number is
\* any between two integers, as every limit below is an integer.
Number(v) ==
    CASE v = Num("-1") -> -2 [] v = Num("0") -> 0 [] v = Num("0.9999999") -> 1
      [] v = Num("1") -> 2 [] v = Num("3.14159") -> 7 [] v = Num("3.1415926") -> 7
      [] v = Num("5") -> 10 [] v = Num("16") -> 32 [] v = Num("20") -> 40
      [] v = Num("32") -> 64 [] v = Num("32.0") -> 64
      [] v = Num("64") -> 128 [] v = Num("65") -> 130
Within(v, low, high) == 2 * low <= Number(v) /\ Number(v) <= 2 * high

\* The condition under which an option is copied.
Flags    == {"is_enchanted", "stacked_by_data", "hand_equipped", "ignore_permission",
             "liquid_clipped", "mirrored_art", "use_block_description"}
Denials  == {"can_destroy_in_creative", "is_explodable", "allow_in_off_hand",
             "should_despawn"}
Picks    == {"use_animation", "creative_category", "wearable_slot", "enchantable_slot",
             "dye_powder"}
Texts    == {"display_name", "food_saturation_modifier", "food_using_converts_to",
             "cooldown_category", "block_to_place", "entity_to_place", "entity_use_on",
             "entity_dispense_on", "shooter_ammo_item_to_use", "projectile_entity",
             "record_sound_event"}
Amounts  == {"damage", "fertilizer_duration", "mining_speed", "fuel_duration",
             "food_nutrition", "cooldown_duration", "projectile_min_crit_power",
             "throwable_max_draw_duration", "record_duration"}

Wanted(key, v) ==
    CASE key \in Flags   -> v = true
      [] key \in Denials -> v # true
      [] key \in Picks   -> v # none
      [] key \in Texts   -> v # empty
      [] key \in Amounts -> Number(v) >= 0
      [] key = "max_stack_size"            -> Within(v, 1, 64)
      [] key = "armor_protection"          -> Within(v, 0, 20)
      [] key = "knockback_resistance"      -> Within(v, 0, 1)
      [] key = "record_comparator_signal"  -> Within(v, 0, 15)
      [] key = "shooter_max_draw_duration" -> Number(v) >= 2
      [] key = "use_duration"              -> Number(v) # 0
      [] key = "enchantable_value"         -> Number(v) # -2
      [] OTHER -> TRUE

\* Components of one value.
Scalars == (Flags \ {"use_block_description"}) \cup Denials
    \cup {"display_name", "max_stack_size", "use_animation", "use_duration",
          "armor_protection", "damage", "fertilizer_duration", "mining_speed",
          "dye_powder", "knockback_resistance", "fuel_duration"}

\* The fields behind each gate.
Fields ==
    [creative_category |-> {"creative_category"}, wearable_slot |-> {"wearable_slot"},
     is_food      |-> {"food_nutrition", "food_saturation_modifier",
                       "food_can_always_eat", "food_using_converts_to"},
     cooldown     |-> {"cooldown_category", "cooldown_duration"},
     place_block  |-> {"block_to_place", "use_block_description"},
     place_entity |-> {"entity_to_place", "entity_use_on", "entity_dispense_on"},
     enchantable  |-> {"enchantable_slot", "enchantable_value"},
     can_shoot    |-> {"shooter_max_draw_duration", "shooter_charge_on_draw",
                       "shooter_scale_power_on_duration"},
     shooter_use_ammo |-> {"shooter_ammo_search_in_inventory", "shooter_ammo_item_to_use",
                           "shooter_ammo_use_offhand", "shooter_ammo_use_in_creative"},
     projectile   |-> {"projectile_entity", "projectile_min_crit_power"},
     throwable    |-> {"throwable_do_swing_animation", "throwable_max_draw_duration",
                       "throwable_scale_pow_by_draw_dura"},
     record       |-> {"record_sound_event", "record_duration",
                       "record_comparator_signal"}]
Gates == DOMAIN Fields

Opens(w, gate) ==
    CASE gate \in Picks   -> w[gate] # none
      [] gate = "shooter_use_ammo" -> w["can_shoot"] = true /\ w[gate] = true
      [] OTHER -> w[gate] = true

\* The lists of entity_placer are split at commas.
Copied(key, v) ==
    IF key \in {"entity_use_on", "entity_dispense_on"}
    THEN LET parts == split_authors(val_string(v), ",")
         IN  List([i \in DOMAIN parts |-> Str(parts[i])])
    ELSE v

writeItemAll(w) == {<<k, Shown(w[k])>> : k \in DOMAIN w}      \* mutant: options unseen
writeItem(w) ==
    LET Open == {g \in Gates : Opens(w, g)}
        Reached == {k \in Scalars \cup UNION {Fields[g] : g \in Open} : Wanted(k, w[k])}
    IN  {<<k, Shown(Copied(k, w[k]))>> : k \in Reached} \cup {<<g, Group>> : g \in Open}
=============================================================================
