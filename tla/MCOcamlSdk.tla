----------------------------- MODULE MCOcamlSdk -----------------------------
(* Compilers before and since OCaml 5, the switch's own and the system's,  *)
(* complete and with parts missing, and switches with and without the META *)
(* files of ocamlfind.                                                     *)
EXTENDS OcamlSdk, TLC

MCFile == {"ocaml", "ocamlc", "dune", "stdlib.cma", "stdlib.a", "expunge",
           "libasmrun.a", "libthreads.a", "libthreadsnat.a", "libunix.a",
           "libunixnat.a", "libunixbyt.a", "threads.cma", "unix.cma",
           "str.cma", "dynlink.cma", "bigarray.cma", "odoc_info.cma",
           "profiling.cmo", "runtime_events.cma", "META", "ocamlcommon.cma",
           "dllunix.so", "mlvalues.h"}

MCStartsWith ==
    "bigarray"    :> {"bigarray.cma"} @@
    "camlinternal" :> {} @@
    "dynlink"     :> {"dynlink.cma"} @@
    "lib"         :> {"libasmrun.a", "libthreads.a", "libthreadsnat.a",
                      "libunix.a", "libunixnat.a", "libunixbyt.a"} @@
    "libunix"     :> {"libunix.a", "libunixnat.a", "libunixbyt.a"} @@
    "ocaml"       :> {"ocaml", "ocamlc", "ocamlcommon.cma"} @@
    "profiling"   :> {"profiling.cmo"} @@
    "runtime"     :> {"runtime_events.cma"} @@
    "stdlib"      :> {"stdlib.cma", "stdlib.a"} @@
    "stdlib.a"    :> {"stdlib.a"} @@
    "str."        :> {"str.cma"} @@
    "unix."       :> {"unix.cma"} @@
    "unixLabels." :> {}

MCArchive ==
    "bigarray"       :> "bigarray.cma" @@
    "dynlink"        :> "dynlink.cma" @@
    "ocamldoc"       :> "odoc_info.cma" @@
    "profiling"      :> "profiling.cmo" @@
    "runtime_events" :> "runtime_events.cma" @@
    "stdlib"         :> "stdlib.cma" @@
    "str"            :> "str.cma" @@
    "threads"        :> "threads.cma" @@
    "unix"           :> "unix.cma"

(* lib/ocaml of OCaml 4 and of OCaml 5.1.                                  *)
Shared ==
    New("stublibs")      :> {"dllunix.so"} @@
    New("compiler-libs") :> {"ocamlcommon.cma"} @@
    New("caml")          :> {"mlvalues.h"}

OCaml4 ==
    ocaml :> {"stdlib.cma", "stdlib.a", "expunge", "libasmrun.a",
              "libthreads.a", "libthreadsnat.a", "libunix.a", "unix.cma",
              "str.cma", "dynlink.cma", "bigarray.cma"} @@
    New("threads")  :> {"threads.cma"} @@
    New("ocamldoc") :> {"odoc_info.cma"} @@
    Shared

OCaml5 ==
    ocaml :> {"stdlib.cma", "stdlib.a", "expunge", "libasmrun.a",
              "libthreads.a", "libthreadsnat.a", "libunixnat.a",
              "libunixbyt.a"} @@
    New("stdlib")         :> {"META"} @@
    New("threads")        :> {"META", "threads.cma"} @@
    New("ocamldoc")       :> {"META", "odoc_info.cma"} @@
    New("unix")           :> {"META", "unix.cma"} @@
    New("str")            :> {"META", "str.cma"} @@
    New("dynlink")        :> {"META", "dynlink.cma"} @@
    New("profiling")      :> {"profiling.cmo"} @@
    New("runtime_events") :> {"META", "runtime_events.cma"} @@
    Shared

(* Built without the native compiler, OCaml has no libthreadsnat.a.        *)
Bytecode5 == [OCaml5 EXCEPT ![ocaml] = @ \ {"libthreadsnat.a"}]

(* What ocamlfind makes for the META files of a compiler before OCaml 5.   *)
Meta4 == [d \in {Old(l) : l \in {"bigarray", "dynlink", "ocamldoc", "stdlib",
                                  "str", "threads", "unix"}} |-> {"META"}]

Own(files)    == switch_bin :> files
System(files) == system_bin :> files

Install(c, set, bin, dir, broken) ==
    [compiler |-> c, set |-> set, sdk_bin |-> bin, dir |-> dir,
     broken |-> broken, char_unsigned |-> c = "5 on ARM"]

MCInstallations ==
    {Install("4", TRUE, switch_bin, OCaml4 @@ Own({"ocaml", "ocamlc"}), {}),
     Install("4", TRUE, switch_bin,
             OCaml4 @@ Meta4 @@ Own({"ocaml", "ocamlc", "dune"}), {}),
     Install("4", TRUE, switch_bin, OCaml4 @@ Meta4, {}),
     Install("system 4", TRUE, system_bin,
             OCaml4 @@ Own({"dune"}) @@ System({"ocaml", "ocamlc"}), {}),
     Install("system 4", TRUE, system_bin,
             OCaml4 @@ Own({"dune", "ocaml"}) @@ System({"ocaml", "ocamlc"}), {}),
     Install("5", TRUE, switch_bin, OCaml5 @@ Own({"ocaml", "ocamlc"}), {}),
     Install("5", FALSE, switch_bin, OCaml5 @@ Own({"ocaml", "dune"}), {}),
     Install("5", TRUE, switch_bin, OCaml5 @@ Own({"ocaml", "dune"}),
             {<<switch_bin, "dune">>}),
     Install("5 on ARM", TRUE, switch_bin, OCaml5 @@ Own({"ocaml", "ocamlc"}), {}),
     Install("bytecode 5", TRUE, switch_bin,
             Bytecode5 @@ Own({"ocaml", "ocamlc"}), {})}
=============================================================================
