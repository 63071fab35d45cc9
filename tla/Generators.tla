------------------------------ MODULE Generators ------------------------------
(* What the handlers of pilepoxyl/httpapi.cpp ask of generate_libs: each       *)
(* request reads a payload, obfuscates a text or makes the files of a pack.    *)
(* The code is sequential and keeps nothing from one request to the next, so a *)
(* behaviour is one request at a time; the inputs are the constants.           *)
EXTENDS Integers, Sequences, FiniteSets, Payloads, Obfuscator, ManifestGen, EntityGen,
        ItemFiles

CONSTANTS
    PayloadValues,  \* JSON values that Discord may send and the parser can read
    Nesting,        \* bound: how many containers are nested in one
    RawTexts,       \* texts to obfuscate, as bytes
    Codes,          \* sequences of Unicode code points, for one string
    PackOptions,    \* options of /manifest independent, of /manifest dependent,
    PairOptions,
    ItemOptions,    \* of an item and
    EntityOptions   \* of an entity

VARIABLES request, result

vars == <<request, result>>

Ascii == 0..127
FirstPlane == 1..65535

ASSUME PayloadsAssumption == Nesting \in Nat /\ PayloadValues \subseteq Readable(Nesting)

\* Characters of several bytes are in Codes.
ASSUME TextsAssumption ==
    /\ RawTexts \subseteq Seq(Ascii)
    /\ Codes \subseteq Seq(FirstPlane)

ASSUME OptionsAssumption ==
    /\ \A o \in PackOptions :
          o.pack_type \in Types /\ o.pack_use_gametest \in BOOLEAN /\ o.pack_icon \in BOOLEAN
    /\ \A o \in PairOptions :
          o.bp_use_scripts \in BOOLEAN /\ o.bp_use_gametest \in BOOLEAN /\ o.pack_icon \in BOOLEAN
    /\ \A o \in ItemOptions :
          o.identifier \in Seq(STRING) /\ o.icon \in Seq(STRING) /\ o.image \in BOOLEAN
    /\ \A o \in EntityOptions :
          /\ o.identifier \in Seq(STRING) /\ o.generate \in {"both", "res", "beh"}
          /\ \A file \in {o.texture, o.model} :
                file = NoFile \/ (file.name \in Seq(STRING) /\ file.name # <<>>)

Idle == [op |-> "idle"]
Nothing == <<>>

----------------------------------------------------------------------------
\* External: the UTF-8 of a character of the first plane.
Utf8(c) ==
    IF c < 128 THEN <<c>>
    ELSE IF c < 2048 THEN <<192 + c \div 64, 128 + (c % 64)>>
    ELSE <<224 + c \div 4096, 128 + ((c \div 64) % 64), 128 + (c % 64)>>

Quoted(codes) ==
    <<Quote>> \o FlattenSeq([i \in DOMAIN codes |-> Utf8(codes[i])]) \o <<Quote>>

----------------------------------------------------------------------------
Init == request = Idle /\ result = Nothing

Serve(r, answer) == request = Idle /\ request' = r /\ result' = answer

Read(v) == Serve([op |-> "read", value |-> v], Received(v, Nesting))

Obfuscate(text, do_minify) ==
    Serve([op |-> "obfuscate", text |-> text, minify |-> do_minify],
          obfuscateMain(text, do_minify))

\* A text that is one string.
Escape(codes, do_minify) ==
    Serve([op |-> "escape", codes |-> codes, minify |-> do_minify],
          obfuscateMain(Quoted(codes), do_minify))

MakeIndependent(o) == Serve([op |-> "pack", o |-> o], Entries(Independent(o)))
MakeDependent(o)   == Serve([op |-> "pair", o |-> o], Entries(Dependent(o)))
MakeItem(o)        == Serve([op |-> "item", o |-> o], Entries(ItemPack(o)))
MakeEntity(o)      == Serve([op |-> "entity", o |-> o], Entries(make(o)))

Answer == request # Idle /\ request' = Idle /\ result' = Nothing

Next ==
    \/ \E v \in PayloadValues : Read(v)
    \/ \E text \in RawTexts, do_minify \in BOOLEAN : Obfuscate(text, do_minify)
    \/ \E codes \in Codes, do_minify \in BOOLEAN : Escape(codes, do_minify)
    \/ \E o \in PackOptions : MakeIndependent(o)
    \/ \E o \in PairOptions : MakeDependent(o)
    \/ \E o \in ItemOptions : MakeItem(o)
    \/ \E o \in EntityOptions : MakeEntity(o)
    \/ Answer

Spec == Init /\ [][Next]_vars

----------------------------------------------------------------------------
(* Properties: the texts.                                                   *)

Occurs(c, s) == \E i \in DOMAIN s : s[i] = c

\* A payload of those in Readable is read as the value that was sent: nested
\* containers are cut in the right places, escapes undone, and, in the strings of
\* objects, separators told apart from those outside (json_value::parse).
ReadsPayload == request.op = "read" => result = request.value

\* Every character of the first plane is escaped as its own UTF-16 unit, next to
\* any other and at the widths' boundaries (obfuscator::unicodeEscape).
EscapesRight ==
    request.op = "escape" /\ ~Occurs(Quote, request.codes) =>
        result = <<Byte(Quote)>>
                   \o [i \in DOMAIN request.codes |-> Unit(request.codes[i])]
                   \o <<Byte(Quote)>>

Before(text, i) == Cardinality({j \in 1 .. i - 1 : text[j] = Quote})
Paired(text) == Before(text, Len(text) + 1) % 2 = 0

\* The positions that minify must not drop, and where one of them goes.
Needed(text) ==
    {i \in DOMAIN text : text[i] \notin White \/ Before(text, i) % 2 = 1}
Rank(text, i) == Cardinality({j \in Needed(text) : j <= i})

\* With no escape in the text every quote begins or ends a string, and these are
\* the strings that JSON means.
Escapeless(text) == ~Occurs(Backslash, text)

\* In a text without escapes and with its strings closed, obfuscating changes no
\* character, only how it is written, and drops whitespace nowhere but between
\* strings and only when it is asked to.  (An escape is escaped once more, which
\* makes another text of it: README.md.)
ObfuscationKeeps ==
    (request.op = "obfuscate" /\ Escapeless(request.text) /\ Paired(request.text)) =>
        IF request.minify
        THEN /\ Len(result) = Cardinality(Needed(request.text))
             /\ \A i \in Needed(request.text) :
                   result[Rank(request.text, i)][2] = request.text[i]
        ELSE [i \in DOMAIN result |-> result[i][2]] = request.text

\* Of the texts without escapes, minify ends the process with an exception exactly
\* for those with a string that is not closed, which are not JSON, and never without
\* do_minify.  (With escapes it does so for JSON too: README.md.)
ThrowsOnlyUnpaired ==
    (request.op = "obfuscate" /\ Escapeless(request.text)) =>
        (result = Thrown <=> request.minify /\ ~Paired(request.text))

----------------------------------------------------------------------------
(* Properties: the packs.                                                   *)

Archives == {"pack", "pair", "item", "entity"}
At(path) == FileOf(CHOOSE e \in result : PathOf(e) = path).contents
ManifestOf(folder) == <<folder, "/", "manifest.json">>
Manifests ==
    {FileOf(e).contents : e \in {e \in result : PathOf(e) = ManifestOf(Head(PathOf(e)))}}

\* Every entry is a file, no path occurs twice in an archive or begins with a
\* separator, and every folder at the root holds a manifest (add_files_to_zip, and
\* the trees that the generators and handlers build).
ZipPaths ==
    request.op \in Archives =>
        /\ \A a, b \in result : PathOf(a) = PathOf(b) => a = b
        /\ \A e \in result :
              /\ ~FileOf(e).dir /\ Head(PathOf(e)) # "/"
              /\ \E b \in result : PathOf(b) = ManifestOf(Head(PathOf(e)))

\* Of two packs in one archive the resource pack depends on the other, and that one
\* on it unless the Gametest modules take its place; a lone pack depends on none of
\* its own; and headers and modules never share a UUID.
PairLinked ==
    request.op \in Archives =>
        /\ \A a, b \in Manifests : a # b =>
              /\ a.uuid # b.uuid
              /\ \/ \E d \in ToSet(b.dependencies) : d.uuid = a.uuid
                 \/ /\ a.modules[1].type = "resources"
                    /\ request.op = "pair" /\ request.o.bp_use_gametest
        /\ \A a \in Manifests :
              /\ \A d \in ToSet(a.dependencies) : d.uuid # a.uuid
              /\ \A b \in Manifests : \A i \in DOMAIN a.modules, j \in DOMAIN b.modules :
                    /\ a.modules[i].uuid # b.uuid
                    /\ (a.modules[i].uuid = b.modules[j].uuid /\ a.modules[i] # NoModule)
                          => (a = b /\ i = j)

\* The references of a client entity lead somewhere: the texture to a file of the
\* pack, the geometry to the model's, the controller to the one that is defined;
\* for a .png file, a model in lower case and both files given.
EntityResolves ==
    (request.op = "entity" /\ result # {} /\ request.o.generate # "beh"
        /\ request.o.texture # NoFile /\ Last(request.o.texture.name) = ".png"
        /\ request.o.model # NoFile
        /\ to_lower(request.o.model.geometry) = request.o.model.geometry) =>
        LET name == get_name(request.o.identifier)
            client == At(<<"resource_pack", "/", "entity", "/">> \o name \o <<".client.json">>)
        IN  /\ \E e \in result :
                  PathOf(e) = <<"resource_pack", "/">> \o client.texture \o <<".png">>
            /\ client.geometry = request.o.model.geometry
            /\ client.controller = At(<<"resource_pack", "/", "render_controllers", "/">>
                                        \o name \o <<".render_controllers.json">>)

\* An item names the icon that the atlas of its resource pack defines, when the
\* name of the item is in lower case.
IconInAtlas ==
    (request.op = "item" /\ request.o.image /\ request.o.atlas
        /\ item_to_lower(get_name(request.o.identifier)) = get_name(request.o.identifier)) =>
        At(<<"resource", "/", "textures", "/", "item_texture.json">>).name =
            At(<<"behavior", "/", "items", "/">> \o get_name(request.o.identifier)
                 \o <<".item.json">>).icon
=============================================================================
