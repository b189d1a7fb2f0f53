----------------------------- MODULE Dependents -----------------------------
(***************************************************************************)
(* The BUILD files of a package and the repositories their labels name:    *)
(* EmitDeps writes the labels of a package that depends on others; Bazel   *)
(* looks some of them up, and for that has the config tool make the        *)
(* repository of the dependency: with EmitBuildBazel for an opam package,  *)
(* with OcamlSdk for the libraries of the compiler.  Labels, directories   *)
(* and packages are computed by functions that share nothing; which        *)
(* repositories there are is decided by the extension, from the            *)
(* directories in the switch.                                              *)
(*                                                                         *)
(* The switch has the compiler and one opam package, meta, with its sub-   *)
(* packages; the dependent is another one.  Bazel makes a repository when  *)
(* it first needs it, in any order, and keeps it.                          *)
(***************************************************************************)
EXTENDS Naturals, Sequences

CONSTANTS
    Name, CompilerLibs, Sdk,                            (* of both emitters *)
    DependentMetas, BuiltIn, SdkModule, Fixme,          (* of EmitDeps      *)
    Metas, Ocaml, Configurator, Findlib, DistribNames, GlobAborts,
                                                  (* of EmitBuildBazel      *)
    File, Archive, StartsWith, Installations, MayFail, MaxChanges
                                                  (* of OcamlSdk            *)

VARIABLES
    bazel,   (* "write", "load", "fetch" or "failed"                        *)
    wanted,  (* the labels to look up while their repository is made        *)
    loaded   (* the labels that have been looked up                         *)

VARIABLES dependent, deps_pc, pkg, rule, i, module, archives, labels
VARIABLES meta, walk_pc, arg, arg_dir, stack, newlevel, pkg_parent, files
VARIABLES sdk, changes, status, step, todo, build, links

deps_vars == <<dependent, deps_pc, pkg, rule, i, module, archives, labels>>
walk_vars == <<meta, walk_pc, arg, arg_dir, stack, newlevel, pkg_parent, files>>
sdk_vars  == <<sdk, changes, status, step, todo, build, links>>
vars      == <<bazel, wanted, loaded, deps_vars, walk_vars, sdk_vars>>

Deps == INSTANCE EmitDeps WITH
            Metas <- DependentMetas, meta <- dependent, pc <- deps_pc,
            build <- labels
Walk == INSTANCE EmitBuildBazel WITH pc <- walk_pc, Distrib <- DistribNames
SDK  == INSTANCE OcamlSdk

(* What is part of the SDK, and has no repository of its own.              *)
OBAZL_PKGS == {"ocamlsdk", "compiler-libs", "dynlink", "ffi", "ocamldoc",
               "profiling", "runtime_events", "stdlib", "str", "threads",
               "unix"}

(* No library of the compiler is an opam package, or named like            *)
(* compiler-libs.                                                          *)
ASSUME Assumptions ==
    /\ Deps!Assumptions /\ Walk!Assumptions
    /\ SDK!Assumptions /\ SDK!SameCompiler /\ SDK!LibrariesPlaced
    /\ \A m \in Metas : m.root \notin OBAZL_PKGS \cup SDK!Library
    /\ CompilerLibs \cap (SDK!Library \cup {"ffi"}) = {}

Init ==
    /\ bazel = "write" /\ wanted = {} /\ loaded = {}
    /\ Deps!Init /\ Walk!Init /\ SDK!Init

-----------------------------------------------------------------------------
(* The repositories the extension declares.                                *)

(* ls of lib in the switch.                                                *)
Listed ==
    {meta.root, dependent.name}
        \cup {l \in SDK!Library : SDK!Exists(SDK!Old(l))}

Declared == {Sdk} \cup (Listed \ OBAZL_PKGS)

-----------------------------------------------------------------------------
WriteLabels ==
    /\ bazel = "write" /\ Deps!Next
    /\ UNCHANGED <<bazel, wanted, loaded, walk_vars, sdk_vars>>

Written ==
    /\ bazel = "write" /\ deps_pc = "done"
    /\ bazel' = "load"
    /\ UNCHANGED <<wanted, loaded, deps_vars, walk_vars, sdk_vars>>

Made(repo) ==
    CASE repo = Sdk       -> status \in SDK!Ended
      [] repo = meta.root -> walk_pc \in {"done", "exit0", "exit1"}
      [] OTHER            -> TRUE

(* The labels that name a repository are looked up together; nothing needs *)
(* to be made for one that is not declared.                                *)
Load ==
    /\ bazel = "load"
    /\ \E b \in labels \ loaded :
          LET same == {c \in labels : c.label.repo = b.label.repo}
          IN  IF b.label.repo \in Declared /\ ~Made(b.label.repo)
              THEN /\ bazel' = "fetch" /\ wanted' = same
                   /\ UNCHANGED loaded
              ELSE /\ loaded' = loaded \cup same
                   /\ UNCHANGED <<bazel, wanted>>
    /\ UNCHANGED <<deps_vars, walk_vars, sdk_vars>>

Fetching(repo) == bazel = "fetch" /\ \A b \in wanted : b.label.repo = repo

FetchPackage ==
    /\ Fetching(meta.root) /\ Walk!Next
    /\ UNCHANGED <<bazel, wanted, loaded, deps_vars, sdk_vars>>

FetchSdk ==
    /\ Fetching(Sdk) /\ SDK!Step
    /\ UNCHANGED <<bazel, wanted, loaded, deps_vars, walk_vars>>

(* A tool that ends in an error fails the build.                           *)
Fetched ==
    /\ bazel = "fetch" /\ \A b \in wanted : Made(b.label.repo)
    /\ IF \/ Fetching(Sdk) /\ status # "exit0"
          \/ Fetching(meta.root) /\ walk_pc = "exit1"
       THEN bazel' = "failed" /\ UNCHANGED loaded
       ELSE bazel' = "load" /\ loaded' = loaded \cup wanted
    /\ wanted' = {}
    /\ UNCHANGED <<deps_vars, walk_vars, sdk_vars>>

SwitchChanges ==
    /\ SDK!OpamChanges
    /\ UNCHANGED <<bazel, wanted, loaded, deps_vars, walk_vars>>

Next ==
    \/ WriteLabels \/ Written \/ Load
    \/ FetchPackage \/ FetchSdk \/ Fetched
    \/ SwitchChanges

Spec == Init /\ [][Next]_vars

-----------------------------------------------------------------------------
(* The targets labels name.                                                *)

(* The packages of the SDK that have a target lib.  The BUILD file of      *)
(* stdlib has none.                                                        *)
WithLib == SDK!Package \cap {SDK!Lib(l) : l \in (SDK!Library \ {"stdlib"}) \cup {"ffi"}}

(* compiler-libs:common is a target of the package compiler-libs.          *)
SdkTarget(path) ==
    \/ /\ Len(path) = 2 /\ path[1] = "compiler-libs"
       /\ path[2] \in SDK!CompilerLib
       /\ <<path[1]>> \in build
    \/ Append(path, "lib") \in build \cap WithLib

(* The target lib of the BUILD file in the directory the path spells; the  *)
(* file is that of the dependency, not another's.                          *)
PackageTarget(path, d) ==
    LET dir == [k \in 1..Len(path) |-> <<path[k]>>]
    IN  /\ dir \in DOMAIN files
        /\ files[dir].pkg = d /\ Walk!Once("lib", files[dir].targets)

Resolves(label, d) ==
    CASE label.repo = Sdk       -> SdkTarget(label.path)
      [] label.repo = meta.root -> PackageTarget(label.path, d)
      [] OTHER                  -> FALSE

-----------------------------------------------------------------------------
(* Properties.                                                             *)

(* What can be linked of an opam package: it has an archive, or requires   *)
(* others and is nothing but that.  A package without an archive that is   *)
(* named lib declares the target lib twice.                                *)
HasProperty(p, prop) ==
    \E k \in DOMAIN meta.entries[p] : meta.entries[p][k] = prop

Linkable(p) ==
    /\ ~HasProperty(p, "error")
    /\ \/ HasProperty(p, "archive")
       \/ /\ HasProperty(p, "requires") /\ ~HasProperty(p, "plugin")
          /\ p[Len(p)] # "lib"

InPackage(d) ==
    /\ walk_pc # "exit0"
    /\ d \in meta.paths /\ Linkable(d) /\ ~Walk!Omitted(d) /\ Len(d) <= 3

(* Libraries of the compiler that it has, or has META files for, the whole *)
(* time.                                                                   *)
InCompiler(d) ==
    \/ d = <<"ffi">> \/ d = <<"compiler-libs">>
    \/ Len(d) = 2 /\ d[1] = "compiler-libs" /\ d[2] \in SDK!CompilerLib
    \/ /\ Len(d) = 1 \/ d[1] = "threads"
       /\ d[1] \in SDK!Library
       /\ \A other \in Installations :
             other.compiler = sdk.compiler => SDK!HasMeta(other, d[1])

(* The compiler's libraries that the emitter of an attribute does not know *)
(* as such: the labels of deps miss two, those of ppx_codeps all but two.  *)
Unknown(attr, d) ==
    IF attr = "deps" THEN d[1] \in {"runtime_events", "stdlib"}
    ELSE ~(Len(d) = 1 /\ d[1] \in {"compiler-libs", "threads"})

(* A dependency that is in the switch is found where its label says, in a  *)
(* repository the extension declares, in a BUILD file that is written, as  *)
(* a target that is in it; a library of the compiler too, wherever the     *)
(* compiler's version keeps it and whatever opam does to META files        *)
(* meanwhile.  The exceptions are those of Unknown, and the labels that    *)
(* the code marks as still to be fixed.                                    *)
LabelsResolve ==
    \A b \in loaded :
        LET d == Deps!DepOf(b)
        IN  \/ Resolves(b.label, d)
            \/ b.label.repo = Fixme
            \/ ~InPackage(d) /\ ~InCompiler(d)
            \/ InCompiler(d) /\ Unknown(b.attr, d)
=============================================================================
