-------------------------------- MODULE Packs --------------------------------
(* What the manifest, item and entity generators of generate_libs share: the  *)
(* splitting of options, identifiers, manifests that depend on each other,    *)
(* and the tree of files that make_zip of file_management.cpp writes out.     *)
(* A text is a sequence of words and single marks.                            *)
EXTENDS Integers, Sequences, SequencesExt

----------------------------------------------------------------------------
(* Options. *)

\* The parts between commas (or another mark); an empty text has no part.
split_authors(text, delim) ==
    IF text = <<>> THEN <<>>
    ELSE FoldLeft(LAMBDA parts, c :
                     IF c = delim THEN Append(parts, <<>>)
                     ELSE [parts EXCEPT ![Len(parts)] = Append(@, c)],
                  <<<<>>>>, text)

----------------------------------------------------------------------------
(* Identifiers: namespace:name, where the namespace may hold further colons.  *)

Colon == ":"
Special == {"/", "!", "#", "[", "{", ",", "\"", "\\"}

LastColon(text) == SelectLastInSeq(text, LAMBDA c : c = Colon)
Namespace(text) == SubSeq(text, 1, LastColon(text) - 1)

Matches(text) ==
    /\ LastColon(text) > 1 /\ LastColon(text) < Len(text)
    /\ \A i \in DOMAIN text : text[i] \notin Special
    /\ text[1] \notin {".", Colon}

verifyIdentifier(text) ==
    Matches(text) /\ Namespace(text) \notin {<<"minecraft">>, <<"minecon">>}
\* get_ename and get_iname: the reserved namespaces have a name as well.
get_name(text) ==
    IF Matches(text) THEN SubSeq(text, LastColon(text) + 1, Len(text)) ELSE <<>>

----------------------------------------------------------------------------
(* Manifests.  External: generate_uuid never returns a value twice, so the    *)
(* n-th call of a request is represented by n.                                *)

Module(type, uuid) == [type |-> type, uuid |-> uuid]
NoModule == Module("missing", 0)
Dependency(uuid, version) == [uuid |-> uuid, version |-> version]

Pack(uuid, version, modules) ==
    [uuid |-> uuid, version |-> version, modules |-> modules, dependencies |-> <<>>,
     engine |-> <<>>, authors |-> <<>>]

\* Each pack depends on the other; the version is the resource pack's in both.
LinkSelf(rp, bp) ==         \* mutant: the resource pack names itself
    [rp |-> [rp EXCEPT !.dependencies = <<Dependency(rp.uuid, rp.version)>>],
     bp |-> [bp EXCEPT !.dependencies = <<Dependency(rp.uuid, rp.version)>>]]
Link(rp, bp) ==
    [rp |-> [rp EXCEPT !.dependencies = <<Dependency(bp.uuid, rp.version)>>],
     bp |-> [bp EXCEPT !.dependencies = <<Dependency(rp.uuid, rp.version)>>]]

\* genManifest of items and entities.
genManifest(select_both) ==
    LET bp == Pack(1, <<0, 0, 1>>, <<Module("data", 3)>>)
        rp == Pack(2, <<0, 0, 1>>, <<Module("resources", 4)>>)
    IN  IF select_both THEN Link(rp, bp) ELSE [rp |-> rp, bp |-> bp]

----------------------------------------------------------------------------
(* Files.  A directory is its name and what it holds.                         *)

File(name, contents) == [name |-> name, contents |-> contents, dir |-> FALSE]
Directory(name, files) == [name |-> name, contents |-> files, dir |-> TRUE]

\* The separator is left out before the names at the root of the archive.
JoinedAlways(path, name) == path \o <<"/">> \o name     \* mutant: also at the root
Joined(path, name) == IF path = <<>> THEN name ELSE path \o <<"/">> \o name

\* An entry in the making: its place in the tree, its path and its file.  A
\* directory is replaced by what it holds, under their paths.
Entry(place, path, file) == <<place, path, file>>
PathOf(e) == e[2]
FileOf(e) == e[3]

Opened(e) ==
    LET files == FileOf(e).contents
    IN  IF ~FileOf(e).dir THEN {e}
        ELSE {Entry(Append(e[1], i), Joined(PathOf(e), files[i].name), files[i])
                 : i \in DOMAIN files}
add_files_to_zip(entries) == UNION {Opened(e) : e \in entries}

\* make_zip: the name of the root is the name of the archive, not of an entry.
\* Bound: the code recurses; the packs have four levels of directories.
Entries(root) ==
    add_files_to_zip(add_files_to_zip(add_files_to_zip(add_files_to_zip(
        {Entry(<<>>, <<>>, root)}))))
=============================================================================
