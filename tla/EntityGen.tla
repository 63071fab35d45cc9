------------------------------ MODULE EntityGen ------------------------------
(* generate_libs/entity.cpp: the files of an entity pack and the references   *)
(* from one to another.  Colours, the material and the flags are copied by    *)
(* the code and left out.                                                     *)
EXTENDS Packs

\* Two words with a capital letter stand for all of those.
Lower(c) == CASE c = "Ghost" -> "ghost" [] c = "Ruby" -> "ruby" [] OTHER -> c
to_lower(text) == [i \in DOMAIN text |-> Lower(text[i])]

strippngNot(name) == name       \* mutant: the extension stays
strippng(name) == IF Last(name) = ".png" THEN Front(name) ELSE name

\* A model is [geometry]: its identifier, or an empty text for another JSON.
getGeo(model) == model.geometry

NoFile == [name |-> <<>>]

\* The client entity: what its references are.
ClientEntity(o) ==
    [texture    |-> IF o.texture = NoFile THEN <<>>
                    ELSE <<"textures", "/", "entity", "/">> \o strippng(o.texture.name),
     geometry   |-> IF o.model = NoFile THEN <<>> ELSE to_lower(getGeo(o.model)),
     controller |-> <<"controller.render.">> \o get_name(o.identifier)]

\* An empty object unless both files are there.
RenderControllers(o) ==
    IF o.texture # NoFile /\ o.model # NoFile
    THEN <<"controller.render.">> \o get_name(o.identifier) ELSE <<>>

Attached(folder, file) ==
    IF file = NoFile THEN <<>>
    ELSE <<Directory(<<folder>>, <<Directory(<<"entity">>, <<File(file.name, file)>>)>>)>>

ResourcePack(o, manifest) ==
    LET One(folder, name, contents) == Directory(<<folder>>, <<File(name, contents)>>)
        ename == get_name(o.identifier)
    IN  Directory(<<"resource_pack">>,
            Attached("textures", o.texture) \o Attached("models", o.model)
              \o <<File(<<"manifest.json">>, manifest),
                   One("texts", <<"en_US.lang">>, <<"entity">> \o o.identifier),
                   One("entity", ename \o <<".client.json">>, ClientEntity(o)),
                   One("render_controllers", ename \o <<".render_controllers.json">>,
                       RenderControllers(o))>>)

BehaviorPack(o, manifest) ==
    Directory(<<"behavior_pack">>,
        <<File(<<"manifest.json">>, manifest),
          Directory(<<"entities">>, <<File(get_name(o.identifier) \o <<".json">>,
                                           o.identifier)>>)>>)

\* No directory at all, and no file name, for an identifier that is refused.
make(o) ==
    LET m == genManifest(o.generate = "both")
    IN  Directory(<<>>,
            IF ~verifyIdentifier(o.identifier) THEN <<>>
            ELSE (IF o.generate = "beh" THEN <<>> ELSE <<ResourcePack(o, m.rp)>>)
                 \o (IF o.generate = "res" THEN <<>> ELSE <<BehaviorPack(o, m.bp)>>))
=============================================================================
