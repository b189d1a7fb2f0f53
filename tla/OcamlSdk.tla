------------------------------ MODULE OcamlSdk ------------------------------
(***************************************************************************)
(* The repository ocamlsdk: ext_emit_ocamlsdk_module of                    *)
(* extensions/config/ext_emit_build_bazel.c, with the functions of         *)
(* lib/emit_ocamlsdk.c it calls, one for each package of the repository.   *)
(*                                                                         *)
(* Each of them looks where the compiler keeps a library (OCaml 5 has a    *)
(* directory lib/ocaml/<l> with a META file; before that ocamlfind makes a *)
(* directory lib/<l> for its META file, and the library is in lib/ocaml),  *)
(* copies the template of a BUILD file and symlinks the library's files    *)
(* next to it.  A function is modelled by the operations it comes to, in   *)
(* order, on the directories there are when it is called.                  *)
(*                                                                         *)
(* A switch that uses the compiler of the system has that compiler's       *)
(* libraries in another place than its own packages.  opam may change the  *)
(* switch while the tool runs.  The contents of the files, and what the    *)
(* templates say beyond the packages their labels name, are left out.      *)
(***************************************************************************)
EXTENDS Naturals, Sequences, FiniteSets

CONSTANTS
    File,          (* the names of files                                   *)
    Archive,       (* the file a library's BUILD file imports              *)
    StartsWith,    (* the files whose names start with a prefix            *)
    Installations, (* the compilers and switches there may be              *)
    MayFail,       (* fopen and symlink may fail                           *)
    MaxChanges     (* bound on the changes opam makes meanwhile            *)

switch_bin == <<"switch", "bin">>
system_bin == <<"system", "bin">>
ocaml      == <<"ocaml">>

Library == {"bigarray", "dynlink", "ocamldoc", "profiling", "runtime_events",
            "stdlib", "str", "threads", "unix"}

(* Where libraries may be: lib/<l> and lib/ocaml/<l>.                      *)
Old(l) == <<l>>
New(l) == <<"ocaml", l>>

Dir == {switch_bin, system_bin, ocaml}
         \cup {Old(l) : l \in Library}
         \cup {New(l) : l \in Library \cup {"stublibs", "compiler-libs", "caml"}}

Prefix == {"bigarray", "camlinternal", "dynlink", "lib", "libunix", "ocaml",
           "profiling", "runtime", "stdlib", "stdlib.a", "str.", "unix.",
           "unixLabels."}

(* dir: the directories there are, with the files in them; broken: the     *)
(* entries among them that are symbolic links to nothing; sdk_bin: the     *)
(* directory bin next to OBAZL_SDKLIB; set: that variable is set;          *)
(* char_unsigned: as on Linux for ARM.                                     *)
Installation == [compiler : STRING, set : BOOLEAN, char_unsigned : BOOLEAN,
                 sdk_bin : {switch_bin, system_bin},
                 dir : UNION {[D -> SUBSET File] : D \in SUBSET Dir},
                 broken : SUBSET (Dir \X File)]

ASSUME Assumptions ==
    /\ StartsWith \in [Prefix -> SUBSET File]
    /\ Archive \in [Library -> File]
    /\ {"expunge", "libthreads.a", "libthreadsnat.a", "libunixnat.a",
        "libunixbyt.a", "libunix.a"} \subseteq File
    /\ \A i \in Installations :
          /\ i.set \in BOOLEAN /\ i.char_unsigned \in BOOLEAN
          /\ i.sdk_bin \in {switch_bin, system_bin}
          /\ DOMAIN i.dir \subseteq Dir
          /\ \A d \in DOMAIN i.dir : i.dir[d] \subseteq File
          /\ i.broken \subseteq Dir \X File
    /\ MayFail \in BOOLEAN
    /\ MaxChanges \in Nat

(* The directories of the compiler itself, which opam leaves alone.        *)
OfCompiler(d) == d = ocaml \/ d \in {New(l) : l \in Library \cup
                                        {"stublibs", "compiler-libs", "caml"}}

ASSUME SameCompiler ==
    \A i, j \in Installations : i.compiler = j.compiler =>
       \A d \in Dir : OfCompiler(d) =>
          /\ d \in DOMAIN i.dir <=> d \in DOMAIN j.dir
          /\ d \in DOMAIN i.dir => i.dir[d] = j.dir[d]
          /\ \A f \in File : <<d, f>> \in i.broken <=> <<d, f>> \in j.broken

(* Where the archives are, as the comments of emit_ocamlsdk.c have it:     *)
(* before OCaml 5 in lib/ocaml, but threads, and lib/<l> is ocamlfind's;   *)
(* since then each in lib/ocaml/<l>, but the stdlib, and nothing in lib/<l>. *)
WithArchive == Library \ {"ocamldoc", "profiling"}

Keeps(i, d, l) == d \in DOMAIN i.dir /\ Archive[l] \in i.dir[d]

BeforeOCaml5(i) ==
    /\ \A l \in WithArchive : Old(l) \in DOMAIN i.dir =>
           Keeps(i, IF l = "threads" THEN New(l) ELSE ocaml, l)
    /\ \A l \in WithArchive : New(l) \in DOMAIN i.dir =>
           l = "threads" /\ Keeps(i, New(l), l)

SinceOCaml5(i) ==
    \A l \in WithArchive :
        /\ Old(l) \notin DOMAIN i.dir
        /\ New(l) \in DOMAIN i.dir =>
              Keeps(i, IF l = "stdlib" THEN ocaml ELSE New(l), l)

ASSUME LibrariesPlaced ==
    /\ \A i \in Installations : BeforeOCaml5(i) \/ SinceOCaml5(i)
    /\ \A l \in {"bigarray", "dynlink", "stdlib"} : Archive[l] \in StartsWith[l]
    /\ Archive["runtime_events"] \in StartsWith["runtime"]
    /\ Archive["str"] \in StartsWith["str."]
    /\ Archive["unix"] \in StartsWith["unix."]

VARIABLES
    sdk,      (* the compiler and the switch                               *)
    changes,  (* how often opam has changed the switch                     *)
    status,   (* "start", "module", "running", or how the tool ended       *)
    step,     (* the next of the functions called in turn                  *)
    todo,     (* the operations left of the one that runs                  *)
    build,    (* the packages that have their BUILD file                   *)
    links     (* the symbolic links: package, name, directory pointed into *)

vars == <<sdk, changes, status, step, todo, build, links>>

Init ==
    /\ sdk \in {i \in Installations : switch_bin \in DOMAIN i.dir}
    /\ changes = 0
    /\ status = "start" /\ step = 1 /\ todo = <<>>
    /\ build = {} /\ links = {}

-----------------------------------------------------------------------------
(* Operations: a BUILD file is written, or is the copy of a template; the  *)
(* entries of a directory among names are linked; a file is linked that    *)
(* must be there; or one that may.                                         *)

Lib(l) == <<l, "lib">>

Toolchain    == {<<"toolchain", "selectors", "local">>,
                 <<"toolchain", "profiles">>,
                 <<"toolchain", "adapters", "local">>}
CompilerLib  == {"common", "bytecomp", "optcomp", "toplevel", "native-toplevel"}
CompilerLibPackages == {<<"compiler-libs">>}
                    \cup {<<"compiler-libs", c>> : c \in CompilerLib}
Runtime      == {<<"runtime">>, <<"runtime", "sys">>, <<"runtime", "vm">>}

Package == {<<"bin">>, <<"config">>, <<"version">>, Lib("ffi"), Lib("stublibs")}
             \cup {Lib(l) : l \in Library}
             \cup Toolchain \cup CompilerLibPackages \cup Runtime

Op == [do : {"build", "copy", "links", "must", "try"}, from : Dir,
       names : SUBSET File, pkg : Package]

Build(p)           == [do |-> "build", from |-> ocaml, names |-> {}, pkg |-> p]
Copy(p)            == [do |-> "copy", from |-> ocaml, names |-> {}, pkg |-> p]
Links(d, names, p) == [do |-> "links", from |-> d, names |-> names, pkg |-> p]
Must(f, p)         == [do |-> "must", from |-> ocaml, names |-> {f}, pkg |-> p]
Try(names, p)      == [do |-> "try", from |-> ocaml, names |-> names, pkg |-> p]

Exists(d)      == d \in DOMAIN sdk.dir
Entries(d)     == IF Exists(d) THEN sdk.dir[d] ELSE {}
Resolves(d, f) == f \in Entries(d) /\ <<d, f>> \notin sdk.broken

-----------------------------------------------------------------------------
(* The functions of emit_ocamlsdk.c.                                       *)

emit_ocaml_bin_build_file == <<Build(<<"bin">>)>>

emit_ocaml_bin_symlinks == <<Links(switch_bin, File, <<"bin">>)>>

emit_ocaml_sdkbin_symlinks ==
    <<Links(sdk.sdk_bin, StartsWith["ocaml"], <<"bin">>)>>

(* The executables of the system's compiler first.                         *)
emit_bin_system_first ==
    emit_ocaml_bin_build_file \o emit_ocaml_sdkbin_symlinks
                              \o emit_ocaml_bin_symlinks

emit_bin ==
    IF sdk.set
    THEN emit_ocaml_bin_build_file \o emit_ocaml_bin_symlinks
                                   \o emit_ocaml_sdkbin_symlinks
    ELSE emit_ocaml_bin_build_file \o emit_ocaml_bin_symlinks

(* dst_file is not renewed between two of them.                            *)
emit_ocaml_toolchain_buildfiles_one ==
    <<Copy(<<"toolchain", "selectors", "local">>),
      Copy(<<"toolchain", "profiles">>)>>

emit_ocaml_toolchain_buildfiles ==
    <<Copy(<<"toolchain", "selectors", "local">>),
      Copy(<<"toolchain", "profiles">>),
      Copy(<<"toolchain", "adapters", "local">>)>>

emit_ocaml_config_pkg == <<Copy(<<"config">>)>>

(* The library's files are in lib/ocaml for every version.                 *)
symlink_ocaml_stdlib ==
    <<Links(ocaml, StartsWith["stdlib"] \cup StartsWith["camlinternal"],
            Lib("stdlib"))>>

emit_ocaml_stdlib_pkg ==
    IF Exists(Old("stdlib")) \/ Exists(New("stdlib"))
    THEN <<Copy(Lib("stdlib"))>> \o symlink_ocaml_stdlib
    ELSE <<>>

symlink_ocaml_expunge == <<Must("expunge", <<"bin">>)>>

emit_ocaml_expunge == symlink_ocaml_expunge

emit_ocaml_stublibs_symlinks == <<Links(New("stublibs"), File, Lib("stublibs"))>>

emit_ocaml_stublibs == <<Build(Lib("stublibs"))>> \o emit_ocaml_stublibs_symlinks

symlink_ocaml_compiler_libs ==
    <<Links(New("compiler-libs"), File, <<"compiler-libs">>)>>

emit_ocaml_compiler_libs_pkg ==
    <<Copy(<<"compiler-libs">>),
      Copy(<<"compiler-libs", "common">>),
      Copy(<<"compiler-libs", "bytecomp">>),
      Copy(<<"compiler-libs", "optcomp">>),
      Copy(<<"compiler-libs", "toplevel">>),
      Copy(<<"compiler-libs", "native-toplevel">>)>>
    \o symlink_ocaml_compiler_libs

symlink_ocaml_bigarray ==
    <<Links(ocaml, StartsWith["bigarray"], Lib("bigarray"))>>

emit_ocaml_bigarray_pkg ==
    IF Exists(Old("bigarray"))
    THEN <<Copy(Lib("bigarray"))>> \o symlink_ocaml_bigarray
    ELSE <<>>

symlink_ocaml_dynlink(d) == <<Links(d, StartsWith["dynlink"], Lib("dynlink"))>>

(* Only the directory of OCaml before 5.0 is looked for.                   *)
emit_ocaml_dynlink_pkg_old ==
    IF Exists(Old("dynlink"))
    THEN <<Copy(Lib("dynlink"))>> \o symlink_ocaml_dynlink(ocaml)
    ELSE <<>>

emit_ocaml_dynlink_pkg ==
    IF Exists(Old("dynlink"))
    THEN <<Copy(Lib("dynlink"))>> \o symlink_ocaml_dynlink(ocaml)
    ELSE IF Exists(New("dynlink"))
    THEN <<Copy(Lib("dynlink"))>> \o symlink_ocaml_dynlink(New("dynlink"))
    ELSE <<>>

symlink_ocaml_ocamldoc(d) == <<Links(d, File, Lib("ocamldoc"))>>

(* From the directory of the META file even before 5.0.                    *)
emit_ocaml_ocamldoc_pkg ==
    IF Exists(Old("ocamldoc"))
    THEN <<Copy(Lib("ocamldoc"))>> \o symlink_ocaml_ocamldoc(Old("ocamldoc"))
    ELSE IF Exists(New("ocamldoc"))
    THEN <<Copy(Lib("ocamldoc"))>> \o symlink_ocaml_ocamldoc(New("ocamldoc"))
    ELSE <<>>

symlink_ocaml_profiling(d) ==
    <<Links(d, StartsWith["profiling"], Lib("profiling"))>>

emit_ocaml_profiling_pkg ==
    IF Exists(Old("profiling"))
    THEN <<Copy(Lib("profiling"))>> \o symlink_ocaml_profiling(Old("profiling"))
    ELSE IF Exists(New("profiling"))
    THEN <<Copy(Lib("profiling"))>> \o symlink_ocaml_profiling(New("profiling"))
    ELSE <<>>

(* strncmp compares 7 characters of "runtime_events".                      *)
symlink_ocaml_rtevents(d) ==
    <<Links(d, StartsWith["runtime"], Lib("runtime_events"))>>

emit_ocaml_rtevents_pkg ==
    IF Exists(Old("runtime_events"))
    THEN <<Copy(Lib("runtime_events"))>> \o symlink_ocaml_rtevents(ocaml)
    ELSE IF Exists(New("runtime_events"))
    THEN <<Copy(Lib("runtime_events"))>>
            \o symlink_ocaml_rtevents(New("runtime_events"))
    ELSE <<>>

symlink_ocaml_str(d) == <<Links(d, StartsWith["str."], Lib("str"))>>

(* Before 5.0 from the directory of the META file.                         *)
emit_ocaml_str_pkg_meta ==
    IF Exists(Old("str"))
    THEN <<Copy(Lib("str"))>> \o symlink_ocaml_str(Old("str"))
    ELSE IF Exists(New("str"))
    THEN <<Copy(Lib("str"))>> \o symlink_ocaml_str(New("str"))
    ELSE <<>>

emit_ocaml_str_pkg ==
    IF Exists(Old("str"))
    THEN <<Copy(Lib("str"))>> \o symlink_ocaml_str(ocaml)
    ELSE IF Exists(New("str"))
    THEN <<Copy(Lib("str"))>> \o symlink_ocaml_str(New("str"))
    ELSE <<>>

(* The two C libraries are not looked for: realpath has no result for one  *)
(* that is missing, and symlink fails.                                     *)
symlink_ocaml_threads ==
    <<Must("libthreads.a", Lib("threads")),
      Must("libthreadsnat.a", Lib("threads")),
      Links(New("threads"), File, Lib("threads"))>>

emit_ocaml_threads_pkg ==
    IF Exists(Old("threads")) \/ Exists(New("threads"))
    THEN <<Copy(Lib("threads"))>> \o symlink_ocaml_threads
    ELSE <<>>

(* OCaml 5.1 has two libraries in the place of libunix.a.                  *)
symlink_libunix ==
    IF Resolves(ocaml, "libunixnat.a")
    THEN <<Try({"libunixnat.a"}, Lib("unix")), Try({"libunixbyt.a"}, Lib("unix"))>>
    ELSE <<Try({"libunix.a"}, Lib("unix"))>>

symlink_ocaml_unix(d) ==
    <<Links(d, UNION {StartsWith[p] : p \in {"unix.", "unixLabels.", "libunix"}},
            Lib("unix"))>>

emit_ocaml_unix_pkg ==
    IF Exists(Old("unix"))
    THEN <<Copy(Lib("unix"))>> \o symlink_ocaml_unix(ocaml)
    ELSE IF Exists(New("unix"))
    THEN <<Copy(Lib("unix"))>> \o symlink_ocaml_unix(New("unix"))
                                \o symlink_libunix
    ELSE <<>>

symlink_ocaml_runtime_libs ==
    <<Links(ocaml, StartsWith["lib"] \cup StartsWith["stdlib.a"], <<"runtime">>)>>

symlink_ocaml_runtime_compiler_libs ==
    <<Links(New("compiler-libs"), StartsWith["ocaml"], <<"runtime">>)>>

emit_ocaml_runtime_pkg ==
    symlink_ocaml_runtime_libs \o symlink_ocaml_runtime_compiler_libs
    \o <<Copy(<<"runtime">>), Copy(<<"runtime", "sys">>),
         Copy(<<"runtime", "vm">>)>>

symlink_ocaml_c_hdrs == <<Links(New("caml"), File, Lib("ffi"))>>

emit_ocaml_c_ffi_pkg == <<Copy(Lib("ffi"))>> \o symlink_ocaml_c_hdrs

emit_ocaml_version == <<Build(<<"version">>)>>

-----------------------------------------------------------------------------
(* ext_emit_ocamlsdk_module.                                               *)

Steps == 18

Emit(n) ==
    CASE n = 1  -> emit_bin
      [] n = 2  -> emit_ocaml_toolchain_buildfiles
      [] n = 3  -> emit_ocaml_config_pkg
      [] n = 4  -> emit_ocaml_stdlib_pkg
      [] n = 5  -> emit_ocaml_expunge
      [] n = 6  -> emit_ocaml_stublibs
      [] n = 7  -> emit_ocaml_compiler_libs_pkg
      [] n = 8  -> emit_ocaml_bigarray_pkg
      [] n = 9  -> emit_ocaml_dynlink_pkg
      [] n = 10 -> emit_ocaml_ocamldoc_pkg
      [] n = 11 -> emit_ocaml_profiling_pkg
      [] n = 12 -> emit_ocaml_rtevents_pkg
      [] n = 13 -> emit_ocaml_str_pkg
      [] n = 14 -> emit_ocaml_threads_pkg
      [] n = 15 -> emit_ocaml_unix_pkg
      [] n = 16 -> emit_ocaml_runtime_pkg
      [] n = 17 -> emit_ocaml_c_ffi_pkg
      [] n = 18 -> emit_ocaml_version

(* buf[len] is written behind an array of len characters: undefined, and   *)
(* the tool goes on or is killed.                                          *)
SdkBin ==
    /\ status = "start"
    /\ status' \in IF sdk.set THEN {"module", "killed"} ELSE {"module"}
    /\ UNCHANGED <<sdk, changes, step, todo, build, links>>

Module ==
    /\ status = "module"
    /\ status' \in {"running"} \cup (IF MayFail THEN {"exit1"} ELSE {})
    /\ UNCHANGED <<sdk, changes, step, todo, build, links>>

(* The function is called again.                                           *)
Call_stays ==
    /\ status = "running" /\ todo = <<>> /\ step <= Steps
    /\ todo' = Emit(step)
    /\ UNCHANGED <<sdk, changes, status, step, build, links>>

Call ==
    /\ status = "running" /\ todo = <<>> /\ step <= Steps
    /\ todo' = Emit(step)
    /\ step' = step + 1
    /\ UNCHANGED <<sdk, changes, status, build, links>>

Return ==
    /\ status = "running" /\ todo = <<>> /\ step > Steps
    /\ status' = "exit0"
    /\ UNCHANGED <<sdk, changes, step, todo, build, links>>

Writes(op) == op.do \in {"build", "copy"}

WriteBuild ==
    /\ status = "running" /\ todo # <<>> /\ Head(todo).do = "build"
    /\ build' = build \cup {Head(todo).pkg}
    /\ todo' = Tail(todo)
    /\ UNCHANGED <<sdk, changes, status, step, links>>

(* copy_buildfile reads with fgetc into a char, and an unsigned one is     *)
(* never EOF: the copy grows until the tool is killed.                     *)
CopyBuild ==
    /\ status = "running" /\ todo # <<>> /\ Head(todo).do = "copy"
    /\ build' = build \cup {Head(todo).pkg}
    /\ todo' = IF sdk.char_unsigned THEN todo ELSE Tail(todo)
    /\ UNCHANGED <<sdk, changes, status, step, links>>

(* What there is to link, and what of it is not linked yet: the error      *)
(* EEXIST is ignored.                                                      *)
Sources(op) == Entries(op.from) \cap op.names

Linked(p, f) == \E l \in links : l[1] = p /\ l[2] = f

NewLinks(op, files) ==
    {<<op.pkg, f, op.from>> : f \in {g \in files : ~Linked(op.pkg, g)}}

(* A link to nothing has no realpath, and a symlink without one fails.     *)
Fails(op) ==
    \/ op.do = "links" /\ \E f \in Sources(op) : ~Resolves(op.from, f)
    \/ op.do = "must" /\ \E f \in op.names : ~Resolves(op.from, f)

(* A directory that cannot be opened has nothing to link, except that the  *)
(* result of opendir is not looked at for the directories of executables.  *)
Unreadable(op) == op.do = "links" /\ op.pkg = <<"bin">> /\ ~Exists(op.from)

(* The links are made to the names in the directory, not to what realpath  *)
(* finds behind them.                                                      *)
MakeLinks_names ==
    /\ status = "running" /\ todo # <<>> /\ ~Writes(Head(todo))
    /\ links' = links \cup NewLinks(Head(todo), Sources(Head(todo)))
    /\ todo' = Tail(todo)
    /\ UNCHANGED <<sdk, changes, status, step, build>>

(* An existing link is replaced.                                           *)
MakeLinks_replace ==
    /\ status = "running" /\ todo # <<>> /\ ~Writes(Head(todo))
    /\ ~Fails(Head(todo)) /\ ~Unreadable(Head(todo))
    /\ LET op == Head(todo)
           linkable == {f \in Sources(op) : Resolves(op.from, f)}
       IN  links' = {l \in links : ~(l[1] = op.pkg /\ l[2] \in linkable)}
                      \cup {<<op.pkg, f, op.from>> : f \in linkable}
    /\ todo' = Tail(todo)
    /\ UNCHANGED <<sdk, changes, status, step, build>>

MakeLinks ==
    /\ status = "running" /\ todo # <<>> /\ ~Writes(Head(todo))
    /\ ~Fails(Head(todo)) /\ ~Unreadable(Head(todo))
    /\ LET op == Head(todo)
       IN  links' = links \cup
                 NewLinks(op, {f \in Sources(op) : Resolves(op.from, f)})
    /\ todo' = Tail(todo)
    /\ UNCHANGED <<sdk, changes, status, step, build>>

(* Some of the links are made first, in the order of the directory.        *)
LinkFails ==
    /\ status = "running" /\ todo # <<>> /\ ~Writes(Head(todo))
    /\ MayFail \/ Fails(Head(todo))
    /\ LET op == Head(todo)
       IN  \E some \in SUBSET {f \in Sources(op) : Resolves(op.from, f)} :
              links' = links \cup NewLinks(op, some)
    /\ status' = "exit1"
    /\ UNCHANGED <<sdk, changes, step, todo, build>>

BuildFails ==
    /\ MayFail
    /\ status = "running" /\ todo # <<>> /\ Writes(Head(todo))
    /\ status' = "exit1"
    /\ UNCHANGED <<sdk, changes, step, todo, build, links>>

(* readdir of a null pointer.                                              *)
ReaddirNull ==
    /\ status = "running" /\ todo # <<>> /\ Unreadable(Head(todo))
    /\ status' = "killed"
    /\ UNCHANGED <<sdk, changes, step, todo, build, links>>

(* Another project has opam install or remove packages in the switch, or   *)
(* remove the switch; the compiler is the same.                            *)
OpamChanges ==
    /\ changes < MaxChanges
    /\ changes' = changes + 1
    /\ \E other \in Installations :
          /\ other.compiler = sdk.compiler /\ other # sdk
          /\ other.set = sdk.set /\ other.sdk_bin = sdk.sdk_bin
          /\ other.char_unsigned = sdk.char_unsigned
          /\ sdk' = other
    /\ UNCHANGED <<status, step, todo, build, links>>

Step ==
    \/ SdkBin \/ Module \/ Call \/ Return
    \/ WriteBuild \/ CopyBuild \/ MakeLinks \/ LinkFails \/ BuildFails \/ ReaddirNull

Next == Step \/ OpamChanges

Spec == Init /\ [][Next]_vars

(* The tool is a process of its own and runs on.                           *)
FairSpec == Spec /\ WF_vars(Step)

-----------------------------------------------------------------------------
(* The packages of this repository that the labels in the templates name.  *)

threads_BUILD                  == {Lib("unix")}
bigarray_BUILD                 == {<<"lib", "unix">>}
compiler_libs_BUILD            == {<<"lib", "dynlink">>}
compiler_libs_alias_BUILD      == {<<"compiler-libs">>}
config_BUILD                   == {<<"bin">>}
toolchain_selector_local_BUILD == {<<"toolchain", "adapters", "local">>,
                                   <<"runtime">>}
toolchain_adapter_local_BUILD  == {<<"bin">>, <<"version">>, <<"runtime">>,
                                   Lib("stublibs")}

Labels(p) ==
    CASE p = Lib("threads")            -> threads_BUILD
      [] p = Lib("bigarray")           -> bigarray_BUILD
      [] p = <<"compiler-libs">>       -> compiler_libs_BUILD
      [] p \in CompilerLibPackages \ {<<"compiler-libs">>} -> compiler_libs_alias_BUILD
      [] p = <<"config">>              -> config_BUILD
      [] p = <<"toolchain", "selectors", "local">> ->
            toolchain_selector_local_BUILD
      [] p = <<"toolchain", "adapters", "local">>  ->
            toolchain_adapter_local_BUILD
      [] OTHER                         -> {}

-----------------------------------------------------------------------------
(* Properties.                                                             *)

Ended == {"exit0", "exit1", "killed"}

TypeOK ==
    /\ sdk \in Installations
    /\ changes \in 0..MaxChanges
    /\ status \in {"start", "module", "running"} \cup Ended
    /\ step \in 1..(Steps + 1)
    /\ todo \in Seq(Op)
    /\ build \subseteq Package
    /\ links \subseteq Package \X File \X Dir

(* A link leads to a file: realpath has no result for an entry that is a   *)
(* link to nothing, and the tool ends rather than link to it.  What opam   *)
(* removes later may leave a link to a file of the switch without it, and  *)
(* never one to a file of the compiler.                                    *)
LinksExist ==
    \A l \in links : changes = 0 \/ OfCompiler(l[3]) => Resolves(l[3], l[2])

(* With a compiler of the system, the switch comes first: every executable *)
(* of the switch is the one in bin, and those of the compiler fill it up.  *)
Executables ==
    status = "exit0" /\ changes = 0 =>
       /\ \A f \in Entries(switch_bin) : <<<<"bin">>, f, switch_bin>> \in links
       /\ sdk.set =>
             \A f \in Entries(sdk.sdk_bin) \cap StartsWith["ocaml"] :
                Linked(<<"bin">>, f)

(* A library's BUILD file is not alone: the archive it imports is next to  *)
(* it, wherever the compiler's version keeps it, and whatever opam does to *)
(* the META files meanwhile.  Not so for ocamldoc, which is looked for in  *)
(* the directory of the META file, and profiling, which has no archive.    *)
ArchivesLinked ==
    status = "exit0" =>
       \A l \in WithArchive : Lib(l) \in build => Linked(Lib(l), Archive[l])

(* A library that has its META file the whole time has its package: what   *)
(* other packages require with findlib's names resolves, although the file *)
(* is found in one place before OCaml 5 and in another since.              *)
HasMeta(i, l) ==
    Old(l) \in DOMAIN i.dir \/ (New(l) \in DOMAIN i.dir /\ l # "bigarray")

DependentsResolve ==
    status = "exit0" =>
       \A l \in Library :
          (\A i \in Installations : i.compiler = sdk.compiler => HasMeta(i, l))
             => Lib(l) \in build

(* The toolchain is complete, whatever the compiler has and whatever opam  *)
(* does: each label of its BUILD files, and of those of config and of      *)
(* compiler-libs, names a package with a BUILD file, but for the label     *)
(* @opam.ocamlsdk//lib/dynlink in compiler-libs, which is dynlink/lib by   *)
(* now, and the runtimes of the compiler are in the package that the       *)
(* adapter takes them from.                                                *)
AlwaysThere == Toolchain \cup CompilerLibPackages \cup {<<"config">>}

Dangling == {<<"lib", "dynlink">>}

ToolchainResolves ==
    status = "exit0" =>
       /\ AlwaysThere \subseteq build
       /\ \A p \in AlwaysThere : Labels(p) \ Dangling \subseteq build
       /\ \A f \in Entries(ocaml) \cap StartsWith["lib"] : Linked(<<"runtime">>, f)

(* What has been linked stays: the first directory that has a file wins.   *)
LinksKept == [][links \subseteq links']_vars

(* The tool ends, unless it is on a machine where copy_buildfile does not. *)
Ends == sdk.char_unsigned \/ <>(status \in Ended)
=============================================================================
