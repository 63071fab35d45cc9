----------------------------- MODULE ManifestGen -----------------------------
(* generate_libs/manifest.cpp, and the two branches of /manifest that put its *)
(* manifests into an archive.  Names, descriptions and links are copied by    *)
(* the code and left out.                                                     *)
EXTENDS Packs

Types == {"data", "resources", "skin_pack", "scripts"}
Icon == File(<<"pack_icon.png">>, "icon")

split_version(text) == split_authors(text, ".")
Authors(use_metadata, authors) == IF use_metadata THEN split_authors(authors, ",") ELSE <<>>

\* o: the options, with their defaults.
generate_nondependent(o) ==
    LET scripts  == o.pack_type = "scripts"
        gametest == o.pack_use_gametest /\ o.pack_type \in {"data", "scripts"}
        Own      == <<Module(IF scripts THEN "data" ELSE o.pack_type, 2)>>
                      \o (IF scripts THEN <<Module("client_data", 3)>> ELSE <<>>)
        Past    == 1 + Len(Own)
    IN  [Pack(1, <<1, 0, 0>>,
              Own \o (IF gametest THEN <<Module("javascript", Past + 3)>> ELSE <<>>))
         EXCEPT !.dependencies =
                   IF gametest THEN <<Dependency(Past + 1, <<0, 1, 0>>),
                                      Dependency(Past + 2, <<0, 1, 0>>)>>
                               ELSE <<>>,
                !.engine = IF o.pack_type = "skin_pack" THEN <<>>
                           ELSE split_version(o.pack_version),
                !.authors = Authors(o.pack_use_metadata, o.pack_authors)]

\* bp.modules begins with one empty object and gets a second one (line 118), the
\* optional modules get theirs too: the last one is never filled.
generate_dependent(o) ==
    LET Optional == (IF o.bp_use_scripts THEN <<"client_data">> ELSE <<>>)
                      \o (IF o.bp_use_gametest THEN <<"javascript">> ELSE <<>>)
        Before   == IF o.bp_use_scripts THEN 3 ELSE 2       \* uuids before rp's
        uuid(type) == (IF type = "javascript" THEN Before + 5 ELSE 3)
        bp == [Pack(1, <<1, 0, 0>>,
                    <<Module("data", 2)>>
                      \o [i \in DOMAIN Optional |-> Module(Optional[i], uuid(Optional[i]))]
                      \o <<NoModule>>)
               EXCEPT !.engine = split_version(o.bp_version),
                      !.authors = Authors(o.bp_use_metadata, o.bp_authors)]
        rp == [Pack(Before + 1, <<1, 0, 0>>,
                    <<Module("resources", Before + 2)>>)
               EXCEPT !.engine = split_version(o.rp_version),
                      !.authors = Authors(o.rp_use_metadata, o.rp_authors)]
        linked == Link(rp, bp)
    IN  IF ~o.bp_use_gametest THEN linked
        ELSE \* the first of the two modules replaces the resource pack
             [linked EXCEPT !.bp.dependencies =
                 <<Dependency(Before + 3, <<0, 1, 0>>),
                   Dependency(Before + 4, <<0, 1, 0>>)>>]

\* The folder is bp for data packs only, and scripts are in an rp.
Independent(o) ==
    Directory(<<>>, <<Directory(<<IF o.pack_type = "data" THEN "bp" ELSE "rp">>,
        <<File(<<"manifest.json">>, generate_nondependent(o))>>
          \o (IF o.pack_icon THEN <<Icon>> ELSE <<>>))>>)

Dependent(o) ==
    LET m == generate_dependent(o)
        Folder(name, manifest) ==
            Directory(<<name>>, <<File(<<"manifest.json">>, manifest)>>
                                  \o (IF o.pack_icon THEN <<Icon>> ELSE <<>>))
    IN  Directory(<<>>, <<Folder("rp", m.rp), Folder("bp", m.bp)>>)
=============================================================================
