----------------------------- MODULE MCEmitDeps -----------------------------
(* META files in four groups: all short lists of settings, flagged or     *)
(* not; all pairs of dependencies whose names the code treats apart, with  *)
(* a runtime dependency; two packages with different rules; and archives.  *)
EXTENDS EmitDeps

Set(f, values) == [ppx_driver |-> f, values |-> values]
Files(f, tag, n) == [deprecated |-> f, cmtag |-> tag, files |-> n]
Pkg(rules, requires, codeps) ==
    [rules |-> rules, archive |-> <<Files(FALSE, "cma", 1), Files(FALSE, "cmxa", 1)>>,
     plugin |-> <<Files(FALSE, "cmxa", 1)>>,
     requires |-> requires, ppx_runtime_deps |-> codeps]
File(pkgs) == [name |-> "m", pkgs |-> pkgs]

UpTo(n, S) == UNION {[1..k -> S] : k \in 0..n}

MCSettings ==
    LET some == {Set(f, v) : f \in BOOLEAN,
                             v \in {<<<<"a">>, <<"a", "b">>>>, <<<<"uchar">>, <<"a">>>>}}
    IN  {File(<<Pkg(<<"archive">>, r, c)>>) : r \in UpTo(3, some), c \in UpTo(2, some)}

MCDeps == {<<"a">>, <<"a", "b">>, <<"a", "b", "c">>, <<"m", "b">>, <<"uchar">>,
           <<"str">>, <<"stringext">>, <<"stringext", "b">>, <<"bigarray">>,
           <<"threads">>, <<"threads", "posix">>, <<"compiler-libs">>,
           <<"compiler-libs", "common">>, <<"unix">>}

MCNames ==
    {File(<<Pkg(<<"archive">>, <<Set(FALSE, <<d, e>>)>>, <<Set(FALSE, <<c>>)>>)>>) :
        d \in MCDeps, e \in MCDeps, c \in MCDeps}
    \cup
    {File(<<Pkg(<<"archive">>, <<>>, <<Set(FALSE, <<c>>)>>)>>) : c \in MCDeps}

MCTrees ==
    {File(<<Pkg(rs, <<Set(FALSE, <<d>>)>>, <<>>),
            Pkg(qs, <<Set(FALSE, <<<<"a", "b">>>>)>>, <<Set(FALSE, <<d>>)>>)>>) :
        rs \in {<<>>, <<"deps">>, <<"plugin", "archive">>, <<"archive">>},
        qs \in {<<>>, <<"deps">>, <<"archive", "plugin">>},
        d \in MCDeps}

(* Archives and plugins with up to three settings.                         *)
MCArchives ==
    LET some == {Files(f, tag, n) : f \in BOOLEAN, tag \in {"cma", "cmxa"}, n \in 0..2}
                \cup {Files(FALSE, "none", 1)}
    IN  {File(<<[Pkg(<<kind>>, <<>>, <<>>) EXCEPT !.archive = s, !.plugin = s]>>) :
            kind \in {"archive", "plugin"}, s \in UpTo(3, some) \ UpTo(0, some)}

MCMetas == MCSettings \cup MCNames \cup MCTrees \cup MCArchives
=============================================================================
