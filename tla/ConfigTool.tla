----------------------------- MODULE ConfigTool -----------------------------
(***************************************************************************)
(* The configuration of one package's repository: the repository rule of   *)
(* extensions/opam/opam_dep.bzl, which asks opam for the switch and runs   *)
(* the config tool, and the tool's package handler of                      *)
(* extensions/config/config_pkg.c, which has EmitBuildBazel write the      *)
(* BUILD files and PkgBindir link executables and stub libraries; for the  *)
(* package ocamlsdk it has OcamlSdk set up the compiler's repository.      *)
(*                                                                         *)
(* The rule judges the tool by its exit status alone, and Bazel the        *)
(* repository by the rule.  Bazel may end the tool at any step (the time   *)
(* limit of rctx.execute, an interrupt), and opam may change the package   *)
(* in the switch for another project while the tool runs.                  *)
(*                                                                         *)
(* The rule always passes --pkg and --switch-pfx, so the tool's checks of  *)
(* its command line succeed.  A run begins with an empty directory: Bazel  *)
(* makes a new one for every evaluation of a rule, and the rule deletes    *)
(* what the opam command may have left in it.                              *)
(*                                                                         *)
(* PkgBindir's variables are this module's too, its constants and its      *)
(* definitions; the other two parts are instances, Walk and SDK.           *)
(***************************************************************************)
EXTENDS PkgBindir

CONSTANTS
    Name, Metas, Ocaml, CompilerLibs, Configurator, Findlib, Distrib, Sdk,
    GlobAborts,                                        (* of EmitBuildBazel *)
    SdkFile, Archive, StartsWith, Installations        (* of OcamlSdk       *)

VARIABLES
    rule,         (* "prefix", "running", "done" or "failed"               *)
    tool,         (* where the config tool is, or how it ended             *)
    pkg,          (* "library", "stublibs" or "ocamlsdk"                   *)
    META,         (* the META file in the switch                           *)
    parsed,       (* what obzl_meta_parse_file made of it                  *)
    stublibs,     (* the switch's lib/stublibs: its files, or Missing      *)
    module_file,  (* MODULE.bazel has been written                         *)
    stubs,        (* lib/BUILD.bazel and the links of the stublibs package *)
    error,        (* the tool has printed or logged an error               *)
    rewritten     (* how often opam has changed META or lib/stublibs       *)

VARIABLES meta, walk_pc, arg, arg_dir, stack, newlevel, pkg_parent, files
VARIABLES sdk, sdk_changes, status, step, todo, build, links

walk_vars   == <<meta, walk_pc, arg, arg_dir, stack, newlevel, pkg_parent, files>>
switch_vars == <<META, stublibs, rewritten, dune, changes, seen>>
bindir_vars == <<bindir_pc, inbuf, section, left, out>>
sdk_vars    == <<sdk, sdk_changes, status, step, todo, build, links>>
part_vars   == <<walk_vars, bindir_vars, sdk_vars>>
vars == <<rule, tool, pkg, parsed, module_file, stubs, error,
          switch_vars, part_vars>>

Walk == INSTANCE EmitBuildBazel WITH pc <- walk_pc
SDK  == INSTANCE OcamlSdk WITH File <- SdkFile, changes <- sdk_changes

ASSUME Assumptions ==
    /\ Walk!Assumptions /\ BindirAssumptions
    /\ SDK!Assumptions /\ SDK!SameCompiler /\ SDK!LibrariesPlaced

MetaFile == {"missing", "bad", "empty", "good"}

NoStubs == [build |-> FALSE, links |-> {}]

Init ==
    /\ rule = "prefix" /\ tool = "none"
    /\ pkg \in {"library", "stublibs", "ocamlsdk"}
    /\ META \in MetaFile /\ parsed = "none"
    /\ stublibs \in {Missing} \cup SUBSET File
    /\ module_file = FALSE /\ stubs = NoStubs /\ error = FALSE
    /\ rewritten = 0
    /\ Walk!Init /\ BindirInit /\ SDK!Init

-----------------------------------------------------------------------------
(* _opam_dep_repo_impl.                                                    *)

(* opam var prefix: fails without the switch, say.                         *)
OpamVarFails ==
    /\ rule = "prefix"
    /\ rule' = "failed"
    /\ UNCHANGED <<tool, pkg, parsed, module_file, stubs, error,
                   switch_vars, part_vars>>

RunTool ==
    /\ rule = "prefix"
    /\ rule' = "running" /\ tool' = "handler"
    /\ UNCHANGED <<pkg, parsed, module_file, stubs, error,
                   switch_vars, part_vars>>

(* The return code is not looked at.                                       *)
ToolEnded_any ==
    /\ rule = "running" /\ tool \in {"exit0", "exit1", "killed"}
    /\ rule' = "done"
    /\ UNCHANGED <<tool, pkg, parsed, module_file, stubs, error,
                   switch_vars, part_vars>>

ToolEnded ==
    /\ rule = "running" /\ tool \in {"exit0", "exit1", "killed"}
    /\ rule' = IF tool = "exit0" THEN "done" ELSE "failed"
    /\ UNCHANGED <<tool, pkg, parsed, module_file, stubs, error,
                   switch_vars, part_vars>>

-----------------------------------------------------------------------------
(* opam_pkg_handler and _opam_libpkg_handler.                              *)

Handler ==
    /\ tool = "handler"
    /\ tool' = IF pkg = "library" THEN "access" ELSE pkg
    /\ UNCHANGED <<rule, pkg, parsed, module_file, stubs, error,
                   switch_vars, part_vars>>

(* Only the executables and stub libraries, if there are any.              *)
MetaMissing ==
    /\ tool = "access" /\ META = "missing"
    /\ error' = TRUE
    /\ tool' = "bindir"
    /\ UNCHANGED <<rule, pkg, parsed, module_file, stubs,
                   switch_vars, part_vars>>

MetaFound ==
    /\ tool = "access" /\ META # "missing"
    /\ tool' = "parse"
    /\ UNCHANGED <<rule, pkg, parsed, module_file, stubs, error,
                   switch_vars, part_vars>>

(* It cannot be parsed, or is gone by now: the handler returns.            *)
ParseError ==
    /\ tool = "parse" /\ META \in {"bad", "missing"}
    /\ error' = TRUE
    /\ tool' = "exit0"
    /\ UNCHANGED <<rule, pkg, parsed, module_file, stubs,
                   switch_vars, part_vars>>

Parsed ==
    /\ tool = "parse" /\ META \in {"empty", "good"}
    /\ parsed' = META
    /\ tool' = "module"
    /\ UNCHANGED <<rule, pkg, module_file, stubs, error,
                   switch_vars, part_vars>>

(* emit_module_file; there is nothing to walk in an empty META.            *)
EmitModule ==
    /\ tool = "module"
    /\ module_file' = TRUE
    /\ tool' = IF parsed = "empty" THEN "bindir" ELSE "walk"
    /\ UNCHANGED <<rule, pkg, parsed, stubs, error,
                   switch_vars, part_vars>>

EmitModuleFails ==
    /\ MayFail
    /\ tool = "module"
    /\ error' = TRUE
    /\ tool' = "exit1"
    /\ UNCHANGED <<rule, pkg, parsed, module_file, stubs,
                   switch_vars, part_vars>>

WalkStep ==
    /\ tool = "walk" /\ Walk!Next
    /\ UNCHANGED <<rule, tool, pkg, parsed, module_file, stubs, error,
                   switch_vars, bindir_vars, sdk_vars>>

(* What ends the tool in emit_build_bazel is waited for forever.           *)
WalkEnds_done ==
    /\ tool = "walk" /\ walk_pc = "done"
    /\ tool' = "bindir"
    /\ UNCHANGED <<rule, pkg, parsed, module_file, stubs, error,
                   switch_vars, part_vars>>

(* emit_build_bazel returns, or has ended the tool after an error message. *)
WalkEnds ==
    /\ tool = "walk" /\ walk_pc \in {"done", "exit0", "exit1"}
    /\ tool' = IF walk_pc = "done" THEN "bindir" ELSE walk_pc
    /\ error' = (error \/ walk_pc # "done")
    /\ UNCHANGED <<rule, pkg, parsed, module_file, stubs,
                   switch_vars, part_vars>>

BindirStep ==
    /\ tool = "bindir" /\ emit_pkg_bindir
    /\ UNCHANGED <<rule, tool, pkg, parsed, module_file, stubs, error,
                   META, stublibs, rewritten, walk_vars, sdk_vars>>

(* A failure among the links ends in the status of success.                *)
BindirEnds_any ==
    /\ tool = "bindir" /\ bindir_pc \in {"done", "exit1"}
    /\ tool' = "exit0"
    /\ UNCHANGED <<rule, pkg, parsed, module_file, stubs, error,
                   switch_vars, part_vars>>

(* The handler and main return without a status, which is 0.               *)
BindirEnds ==
    /\ tool = "bindir" /\ bindir_pc \in {"done", "exit1"}
    /\ tool' = IF bindir_pc = "done" THEN "exit0" ELSE "exit1"
    /\ error' = (error \/ bindir_pc # "done")
    /\ UNCHANGED <<rule, pkg, parsed, module_file, stubs,
                   switch_vars, part_vars>>

-----------------------------------------------------------------------------
(* emit_lib_stublibs_pkg: the package stublibs has no META.                *)

StublibsMissing ==
    /\ tool = "stublibs" /\ stublibs = Missing
    /\ tool' = "exit0"
    /\ UNCHANGED <<rule, pkg, parsed, module_file, stubs, error,
                   switch_vars, part_vars>>

StublibsFiles ==
    /\ tool = "stublibs" /\ stublibs # Missing
    /\ module_file' = TRUE
    /\ stubs' = [stubs EXCEPT !.build = TRUE]
    /\ tool' = "stublinks"
    /\ UNCHANGED <<rule, pkg, parsed, error,
                   switch_vars, part_vars>>

(* fopen of MODULE.bazel, or that of lib/BUILD.bazel.                      *)
StublibsFail ==
    /\ MayFail
    /\ tool = "stublibs" /\ stublibs # Missing
    /\ module_file' \in BOOLEAN
    /\ error' = TRUE
    /\ tool' = "exit1"
    /\ UNCHANGED <<rule, pkg, parsed, stubs,
                   switch_vars, part_vars>>

(* _emit_lib_stublibs_symlinks; the directory may be gone by now.          *)
StublibsLinks ==
    /\ tool = "stublinks"
    /\ IF stublibs = Missing
       THEN error' = TRUE /\ UNCHANGED stubs
       ELSE stubs' = [stubs EXCEPT !.links = stublibs] /\ UNCHANGED error
    /\ tool' = "exit0"
    /\ UNCHANGED <<rule, pkg, parsed, module_file,
                   switch_vars, part_vars>>

StublibsLinksFail ==
    /\ MayFail
    /\ tool = "stublinks" /\ stublibs \notin {Missing, {}}
    /\ \E some \in SUBSET stublibs :
          some # stublibs /\ stubs' = [stubs EXCEPT !.links = some]
    /\ error' = TRUE
    /\ tool' = "exit1"
    /\ UNCHANGED <<rule, pkg, parsed, module_file,
                   switch_vars, part_vars>>

-----------------------------------------------------------------------------
(* ext_emit_ocamlsdk_module.                                               *)

SdkStep ==
    /\ tool = "ocamlsdk" /\ SDK!Step
    /\ UNCHANGED <<rule, tool, pkg, parsed, module_file, stubs, error,
                   switch_vars, walk_vars, bindir_vars>>

(* An error ends in the status of success.                                 *)
SdkEnds_any ==
    /\ tool = "ocamlsdk" /\ status \in SDK!Ended
    /\ tool' = "exit0"
    /\ error' = (error \/ status = "exit1")
    /\ UNCHANGED <<rule, pkg, parsed, module_file, stubs,
                   switch_vars, part_vars>>

(* It returns, has ended the tool after an error message, or was killed.   *)
SdkEnds ==
    /\ tool = "ocamlsdk" /\ status \in SDK!Ended
    /\ tool' = status
    /\ error' = (error \/ status = "exit1")
    /\ UNCHANGED <<rule, pkg, parsed, module_file, stubs,
                   switch_vars, part_vars>>

-----------------------------------------------------------------------------
(* What others do: Bazel to the tool, opam to the switch.                  *)

Killed ==
    /\ MayFail
    /\ rule = "running" /\ tool \notin {"exit0", "exit1", "killed"}
    /\ tool' = "killed"
    /\ UNCHANGED <<rule, pkg, parsed, module_file, stubs, error,
                   switch_vars, part_vars>>

(* Each change is of what the tool reads for the package.                  *)
DunePackageChanges ==
    /\ pkg = "library"
    /\ OpamChanges
    /\ UNCHANGED <<rule, tool, pkg, parsed, module_file, stubs, error,
                   META, stublibs, rewritten, walk_vars, sdk_vars>>

SwitchChanges ==
    /\ pkg # "ocamlsdk"
    /\ rewritten < MaxChanges
    /\ rewritten' = rewritten + 1
    /\ \/ META' \in MetaFile \ {META} /\ UNCHANGED stublibs
       \/ /\ stublibs' \in ({Missing} \cup SUBSET File) \ {stublibs}
          /\ UNCHANGED META
    /\ UNCHANGED <<rule, tool, pkg, parsed, module_file, stubs, error,
                   dune, changes, seen, part_vars>>

InstallationChanges ==
    /\ pkg = "ocamlsdk"
    /\ SDK!OpamChanges
    /\ UNCHANGED <<rule, tool, pkg, parsed, module_file, stubs, error,
                   switch_vars, walk_vars, bindir_vars>>

-----------------------------------------------------------------------------
Rule == OpamVarFails \/ RunTool \/ ToolEnded

Tool ==
    \/ Handler
    \/ MetaMissing \/ MetaFound \/ ParseError \/ Parsed
    \/ EmitModule \/ EmitModuleFails
    \/ WalkStep \/ WalkEnds \/ BindirStep \/ BindirEnds
    \/ StublibsMissing \/ StublibsFiles \/ StublibsFail
    \/ StublibsLinks \/ StublibsLinksFail
    \/ SdkStep \/ SdkEnds

Others ==
    \/ Killed \/ DunePackageChanges \/ SwitchChanges \/ InstallationChanges

Next == Rule \/ Tool \/ Others

Spec == Init /\ [][Next]_vars

(* Bazel evaluates the rule, and the tool, a process of its own, runs on.  *)
FairSpec == Spec /\ WF_vars(Rule) /\ WF_vars(Tool)

-----------------------------------------------------------------------------
(* Properties.                                                             *)

Ended == {"exit0", "exit1", "killed"}

TypeOK ==
    /\ rule \in {"prefix", "running", "done", "failed"}
    /\ tool \in Ended \cup {"none", "handler", "access", "parse", "module",
                            "walk", "bindir", "stublibs", "stublinks",
                            "ocamlsdk"}
    /\ pkg \in {"library", "stublibs", "ocamlsdk"}
    /\ META \in MetaFile /\ parsed \in {"none", "empty", "good"}
    /\ parsed = "none" => tool \notin {"module", "walk"}
    /\ stublibs \in {Missing} \cup SUBSET File
    /\ rewritten \in 0..MaxChanges
    /\ module_file \in BOOLEAN /\ error \in BOOLEAN
    /\ stubs \in [build : BOOLEAN, links : SUBSET File]
    /\ Walk!TypeOK /\ BindirTypeOK /\ SDK!TypeOK

(* A repository that Bazel accepts, and for which the tool has reported no *)
(* error, is whole, at whatever step the tool may have been ended and      *)
(* whatever it could not write: the package's MODULE file is there, and    *)
(* every archive of its META file is where dependents look for it.  The    *)
(* package stublibs has all its files or none.                             *)
WholeRepository ==
    rule = "done" /\ ~error =>
        /\ pkg = "library" =>
              /\ module_file
              /\ parsed = "good" => walk_pc = "done" /\ Walk!MappingScheme
        /\ pkg = "stublibs" => stubs.build = module_file

(* The compiler's repository, once Bazel accepts it, has the whole         *)
(* toolchain that every other repository is built with, whatever failed,   *)
(* was killed or changed on the way.                                       *)
ToolchainAccepted ==
    rule = "done" /\ pkg = "ocamlsdk" =>
        status = "exit0" /\ SDK!ToolchainResolves

(* Its executables and stub libraries are complete as well, and those of   *)
(* one version of the package that was installed while the rule ran.       *)
OneVersionLinked ==
    rule = "done" /\ ~error /\ pkg = "library" =>
        bindir_pc = "done" /\ OneVersion

(* "ERROR: pkg %s not installed?", "Error parsing %s": when the tool has   *)
(* printed an error, the rule fails.                                       *)
ErrorsFail == rule = "done" => ~error

(* The rule ends, with a repository or with a failure.                      *)
RuleEnds == <>(rule \in {"done", "failed"})
=============================================================================
