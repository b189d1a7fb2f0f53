------------------------------ MODULE MCOpamExt ------------------------------
(* MODULE.bazel files that list packages in one tag or in several, of the  *)
(* root module, as dev dependencies and of another module; each with every *)
(* toolchain, with special tags and environment variables in turn.  After  *)
(* them, those of the run that expects a violation.                        *)
EXTENDS OpamExt

CONSTANTS v1, v2

MCPkg      == {"opam", "ocamldebug", "stublibs", "utop", "unix", "str", "a", "f"}
MCRequires == [p \in Pkg |-> IF p = "utop" THEN {"a"} ELSE {}]

MCHad      == {{}, {"a", "utop", "unix"}}

Direct(tc, v, pkgs) == [root |-> TRUE, dev |-> FALSE, pkgs |-> pkgs,
                        toolchain |-> tc, ocaml_version |-> v]
DevTag(pkgs) == [root |-> TRUE, dev |-> TRUE, pkgs |-> pkgs,
                 toolchain |-> "xdg", ocaml_version |-> None]
Other(pkgs)  == [root |-> FALSE, dev |-> FALSE, pkgs |-> pkgs,
                 toolchain |-> "xdg", ocaml_version |-> v2]

Deps(tc, v) ==
    {<<Direct(tc, v, <<"str", "a", "unix">>), DevTag(<<"unix">>)>>,
     <<Direct(tc, v, <<"a", "unix">>), Other(<<"unix">>)>>,
     <<Direct(tc, v, <<"a">>), DevTag(<<"a">>)>>,
     <<Direct(tc, v, <<"a", "stublibs">>)>>,
     <<Direct(tc, v, <<"str">>), DevTag(<<"f">>)>>,
     <<Direct(tc, v, <<"unix">>), DevTag(<<"stublibs", "a">>)>>,
     <<Direct("xdg", v2, <<"a">>), Direct(tc, v, <<"f">>)>>,
     <<Direct(tc, v, <<"utop">>)>>,
     <<Direct(tc, v, <<"opam">>)>>}

No == [t \in Special |-> "no"]
Specials == {No, [t \in Special |-> "dev"],
             [No EXCEPT !["utop"] = "direct"], [No EXCEPT !["dbg"] = "direct"]}

P(d, s, nd, ltc, env, f) == [deps |-> d, special |-> s, nondev |-> nd,
                             utopVersion |-> TRUE,
                             localTc |-> ltc, inOpam |-> env, force |-> f]

MCProject ==
    {P(d, No, TRUE, None, FALSE, FALSE) :
        d \in UNION {Deps(tc, v) : tc \in {"local", "global", "xdg"}, v \in {v1, None}}}
    \cup {P(<<Direct(tc, v1, <<"a">>), DevTag(<<"utop">>)>>, s, TRUE, None, FALSE, FALSE) :
              tc \in {"local", "global", "xdg"}, s \in Specials}
    \cup {P(<<Direct("global", v1, <<"a", "f">>)>>, s, TRUE, None, FALSE, TRUE) : s \in Specials}
    \cup {P(d, No, TRUE, None, TRUE, FALSE) : d \in Deps("xdg", v2)}
    \cup {P(<<Direct("xdg", None, <<"a">>)>>, s, TRUE, "local", FALSE, FALSE) : s \in Specials}
    \cup {P(<<DevTag(<<"a">>)>>, [No EXCEPT !["opam"] = "dev"], nd, None, FALSE,
            FALSE) : nd \in BOOLEAN}
    \cup {P(<<Direct("xdg", v1, <<"a">>)>>, No, TRUE, Unknown, FALSE, FALSE)}
    \cup {[P(<<Direct("xdg", v1, <<"a">>)>>, s, TRUE, None, env, FALSE)
            EXCEPT !.utopVersion = FALSE] : s \in Specials, env \in BOOLEAN}

Plain(d) == {P(d, No, TRUE, None, FALSE, FALSE)}

SdkTwice == Plain(<<Direct("xdg", v1, <<"a", "unix">>), Other(<<"unix">>)>>)
DevStubs == Plain(<<Direct("xdg", v1, <<"a">>), DevTag(<<"stublibs">>)>>)
Refused  == SdkTwice \cup DevStubs
=============================================================================
