------------------------------ MODULE ItemFiles ------------------------------
(* generate_libs/item.cpp: the files that writeItem makes around an item: the *)
(* icon it names, the atlas, the image and the two manifests.  What the item  *)
(* file itself says of its options is in ItemGen.                             *)
EXTENDS Packs

\* A capital letter gets 32 less, which makes no letter of it; two words with one
\* stand for all of those.
Shifted(c) == CASE c = "Ghost" -> "'host" [] c = "Ruby" -> "2uby" [] OTHER -> c
item_to_lower(text) == [i \in DOMAIN text |-> Shifted(text[i])]

\* The client's icon, and what the atlas calls the texture; both need the texture
\* path and an identifier that is accepted.
IconTexture(identifier, icon) ==
    IF icon # <<>> /\ verifyIdentifier(identifier)
    THEN item_to_lower(get_name(identifier) \o <<".texture">>) ELSE <<>>
AtlasNameWhole(identifier, icon, enabled) ==    \* mutant: with the namespace
    IF enabled /\ icon # <<>> /\ verifyIdentifier(identifier)
    THEN identifier \o <<".texture">> ELSE <<>>
AtlasName(identifier, icon, enabled) ==
    IF enabled /\ icon # <<>> /\ verifyIdentifier(identifier)
    THEN get_name(identifier) \o <<".texture">> ELSE <<>>

truncate_slashes(text) ==
    LET Slash == SelectLastInSeq(text, LAMBDA c : c = "/")
    IN  IF Slash < Len(text) THEN SubSeq(text, Slash + 1, Len(text)) ELSE text

\* o: identifier, icon (the texture path), image (whether one was fetched), atlas.
ItemPackFlat(o) ==    \* mutant: everything in one folder
    LET p == genManifest(TRUE)
    IN  Directory(<<>>, <<Directory(<<"resource">>,
                             <<File(<<"manifest.json">>, p.rp), File(<<"manifest.json">>, p.bp)>>)>>)
ItemPack(o) ==
    LET p == genManifest(TRUE)
        Textures == Directory(<<"textures">>, <<File(<<"item_texture.json">>,
                        [name |-> AtlasName(o.identifier, o.icon, o.atlas), path |-> o.icon])>>)
        image == File(truncate_slashes(item_to_lower(o.icon) \o <<".png">>), "icon")
        item  == File(get_name(o.identifier) \o <<".item.json">>,
                      [icon |-> IconTexture(o.identifier, o.icon)])
    IN  Directory(<<>>,
          <<Directory(<<"resource">>, <<File(<<"manifest.json">>, p.rp)>>
                                       \o (IF o.image THEN <<Textures, image>> ELSE <<>>)),
            Directory(<<"behavior">>, <<File(<<"manifest.json">>, p.bp),
                                        Directory(<<"items">>, <<item>>)>>)>>)
=============================================================================
