---------------------------- MODULE MCConfigTool ----------------------------
(* META files that reach each end of the walk: with a sub-package and one  *)
(* below it; with an archive whose directory is missing; with a            *)
(* configurator that is not dune's.                                        *)
EXTENDS ConfigTool, TLC

MetaOf(paths, disk) ==
    [root |-> "m", paths |-> paths,
     entries |-> [p \in paths |-> <<"requires", "archive">>],
     directory |-> [p \in paths |->
                      IF p[Len(p)] = "configurator"
                      THEN [kind |-> "relative", path |-> <<"a">>]
                      ELSE [kind |-> "none", path |-> <<>>]],
     disk |-> disk, headers |-> {}]

MCMetas == {MetaOf({<<"m">>, <<"m", "a">>, <<"m", "a", "b">>}, {<<"m">>}),
            MetaOf({<<"m">>}, {}),
            MetaOf({<<"m">>, <<"m", "configurator">>}, {<<"m">>})}

(* With both sections, with either one, and half written.                  *)
MCDunePackages ==
    {[s \in {"bin", "stublibs"} |-> IF s = "bin" THEN <<"a", "b">> ELSE <<"c">>],
     [s \in {"bin", "stublibs"} |-> IF s = "bin" THEN <<"b">> ELSE <<>>],
     [s \in {"bin", "stublibs"} |-> IF s = "bin" THEN <<>> ELSE <<"a">>],
     [s \in {"bin", "stublibs"} |-> <<>>]}

(* A small OCaml 5, its archives all of one name: with a switch of its     *)
(* own, and without it.                                                    *)
MCSdkFile == {"ocaml", "expunge", "libthreads.a", "libthreadsnat.a",
              "libunixnat.a", "libunixbyt.a", "libunix.a", "lib.cma"}

MCArchive ==
    [l \in {"bigarray", "dynlink", "ocamldoc", "profiling", "runtime_events",
            "stdlib", "str", "threads", "unix"} |-> "lib.cma"]

MCStartsWith ==
    [p \in {"bigarray", "camlinternal", "dynlink", "lib", "libunix", "ocaml",
            "profiling", "runtime", "stdlib", "stdlib.a", "str.", "unix.",
            "unixLabels."} |->
                    CASE p = "ocaml" -> {"ocaml"}
                      [] p \in {"bigarray", "dynlink", "runtime", "stdlib",
                                "str.", "unix."} -> {"lib.cma"}
                      [] OTHER -> {}]

OCaml5 ==
    <<"ocaml">> :> {"expunge", "libthreads.a", "libthreadsnat.a", "lib.cma"} @@
    <<"ocaml", "stdlib">> :> {} @@
    <<"ocaml", "threads">> :> {"lib.cma"} @@
    <<"ocaml", "unix">> :> {"lib.cma"}

MCInstallations ==
    {[compiler |-> "5", set |-> TRUE, sdk_bin |-> <<"switch", "bin">>, dir |-> dir,
      broken |-> {}, char_unsigned |-> FALSE] :
        dir \in {<<"switch", "bin">> :> {"ocaml"} @@ OCaml5, OCaml5}}
=============================================================================
