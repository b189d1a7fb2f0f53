-------------------------- MODULE MCEmitBuildBazel --------------------------
(* META files small enough to walk in every order: all assignments of a    *)
(* few property lists to a package with sub-packages two levels deep; one  *)
(* that is deeper; packages with the names the code treats apart; and the  *)
(* forms of the directory property over directories that exist or do not.  *)
EXTENDS EmitBuildBazel

Plain   == [kind |-> "none", path |-> <<>>]
Rel(d)  == [kind |-> "relative", path |-> d]

File(paths, entries, directory, disk, headers) ==
    [root |-> (CHOOSE p \in paths : Len(p) = 1)[1], paths |-> paths,
     entries |-> entries, directory |-> directory,
     disk |-> disk, headers |-> headers]

Lists == {<<"requires", "archive", "plugin">>, <<"plugin", "requires">>,
          <<"ignored", "requires">>, <<"error", "requires">>,
          <<"archive", "other">>, <<"requires", "error">>}

TreeLists == {<<"requires", "archive", "plugin">>, <<"error", "requires">>,
              <<"archive", "other">>}

MCTree == {<<"m">>, <<"m", "a">>, <<"m", "a", "b">>, <<"m", "c">>}

MCTrees ==
    {File(MCTree, entries, [p \in MCTree |-> Plain], {<<"m">>}, headers) :
        entries \in [MCTree -> TreeLists], headers \in {{}, {<<"m">>}}}

(* Every package an archive.                                               *)
Archives(paths) == [p \in paths |-> <<"requires", "archive", "plugin">>]

MCDeep ==
    LET paths == MCTree \cup {<<"m", "a", "b", "c">>, <<"m", "a", "b", "lib">>,
                              <<"m", "c", "lib">>}
    IN  File(paths, Archives(paths), [p \in paths |-> Plain],
             {<<"m">>}, {<<"m">>})

(* A root that starts with "ocaml", and the names the code looks for.      *)
NamesFrom(r) ==
    LET paths == {<<r>>, <<r, "str">>, <<r, "str", "a">>,
                  <<r, "compiler-libs">>, <<r, "compiler-libs", "a">>,
                  <<r, "findlib">>, <<r, "lib">>, <<r, "cstubs">>}
    IN  {File(paths, [p \in paths |-> entries], [p \in paths |-> Plain],
              {<<r>>}, headers) :
            headers \in {{}, {<<r>>}}, entries \in Lists}

(* Directories in the switch: of the package itself, of the sub-packages,  *)
(* below the stdlib, or nowhere.                                           *)
DirectoriesFrom(r) ==
    LET paths == {<<r>>, <<r, "a">>, <<r, "a", "b">>, <<r, "configurator">>}
        some  == {Plain, Rel(<<"a">>), [kind |-> "stdlib", path |-> <<"a">>],
                  [kind |-> "redirect", path |-> <<>>]}
        dir(p, d1, d2) == CASE p = <<r>>           -> Plain
                            [] p = <<r, "a">>      -> d1
                            [] p = <<r, "a", "b">> -> d2
                            [] OTHER               -> Rel(<<"configurator">>)
        all   == {<<r>>, <<r, "a">>, <<r, "a", "a">>, <<r, "configurator">>,
                  <<"ocaml", "a">>, <<"ocaml", "a", "a">>}
    IN  {File(paths, entries, [p \in paths |-> dir(p, d1, d2)], disk, {}) :
            entries \in {Archives(paths), [p \in paths |-> <<"requires">>]},
            d1 \in some, d2 \in some,
            disk \in {all, {<<r>>, <<"ocaml", "a">>}}}

MCNames       == NamesFrom("m") \cup NamesFrom("ocamlm")
MCDirectories == DirectoriesFrom("m") \cup DirectoriesFrom("dune")

MCMetas   == MCTrees \cup {MCDeep} \cup MCNames \cup MCDirectories
MCOneDeep == {MCDeep}
=============================================================================
