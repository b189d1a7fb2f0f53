---------------------------- MODULE MCDependents ----------------------------
(* A dependent with every pair of a dependency and a runtime dependency    *)
(* whose names the code treats apart; packages with sub-packages that can  *)
(* be linked or cannot; a compiler of OCaml 4 with and without ocamlfind's *)
(* META files, and one of OCaml 5.                                         *)
EXTENDS Dependents, TLC

-----------------------------------------------------------------------------
Requires(ds) == IF ds = <<>> THEN <<>> ELSE <<[ppx_driver |-> FALSE, values |-> ds]>>

DependentOn(ds, cs) ==
    [name |-> "x",
     pkgs |-> <<[rules |-> <<"archive">>,
                 archive |-> <<>>, plugin |-> <<>>,
                 requires |-> Requires(ds), ppx_runtime_deps |-> Requires(cs)]>>]

MCDeps == {<<"m">>, <<"m", "a">>, <<"m", "a", "b">>, <<"m", "str">>,
           <<"m", "lib">>,
           <<"str">>, <<"ffi">>, <<"bigarray">>, <<"runtime_events">>,
           <<"dynlink">>, <<"threads">>, <<"threads", "posix">>,
           <<"compiler-libs">>, <<"compiler-libs", "toplevel">>}

MCDependentMetas ==
    {DependentOn(<<d>>, <<c>>) : d \in MCDeps, c \in MCDeps}

-----------------------------------------------------------------------------
Paths == {<<"m">>, <<"m", "a">>, <<"m", "a", "b">>, <<"m", "str">>, <<"m", "lib">>}

MetaOf(root, sub, disk) ==
    [root |-> "m", paths |-> Paths,
     entries |-> [p \in Paths |-> IF Len(p) = 2 THEN sub ELSE root],
     directory |-> [p \in Paths |-> [kind |-> "none", path |-> <<>>]],
     disk |-> disk, headers |-> {}]

MCMetas ==
    {MetaOf(<<"requires", "archive", "plugin">>, <<"ignored", "requires">>, {<<"m">>}),
     MetaOf(<<"ignored", "requires">>, <<"archive", "other">>, {<<"m">>}),
     MetaOf(<<"archive">>, <<"plugin", "requires">>, {<<"m">>}),
     MetaOf(<<"archive">>, <<"archive">>, {})}

-----------------------------------------------------------------------------
MCFile == {"ocaml", "expunge", "libthreads.a", "libthreadsnat.a",
           "libunixnat.a", "libunixbyt.a", "libunix.a", "META"}

MCLibrary == {"bigarray", "dynlink", "ocamldoc", "profiling", "runtime_events",
              "stdlib", "str", "threads", "unix"}

MCArchive == [l \in MCLibrary |-> "META"]

MCStartsWith ==
    [p \in {"bigarray", "camlinternal", "dynlink", "lib", "libunix", "ocaml",
            "profiling", "runtime", "stdlib", "stdlib.a", "str.", "unix.",
            "unixLabels."} |->
                    IF p \in {"bigarray", "dynlink", "runtime", "stdlib", "str.",
                             "unix."}
                    THEN {"META"} ELSE {}]

(* Their files are all named META, the archives too.                       *)
Compiler == <<"ocaml">> :> {"expunge", "libthreads.a", "libthreadsnat.a", "META"}

(* META files in lib/<l> and in lib/ocaml/<l>.                              *)
InOld(libraries) == [d \in {<<l>> : l \in libraries} |-> {"META"}]
InNew(libraries) == [d \in {<<"ocaml", l>> : l \in libraries} |-> {"META"}]

MetaFiles == {"bigarray", "dynlink", "ocamldoc", "stdlib", "str", "threads", "unix"}

MCInstallations ==
    LET bin == <<"switch", "bin">> :> {"ocaml"}
        v4  == Compiler @@ InNew({"threads", "ocamldoc"})
        v5  == Compiler @@ InNew(MCLibrary \ {"bigarray"})
        of(c, dir) == [compiler |-> c, set |-> FALSE, sdk_bin |-> <<"switch", "bin">>,
                       dir |-> dir, broken |-> {}, char_unsigned |-> FALSE]
    IN  {of("4", bin @@ v4 @@ InOld(MetaFiles)),
         of("4", v4 @@ InOld(MetaFiles)),
         of("system 4", bin @@ v4),
         of("5", bin @@ v5)}
=============================================================================
