--------------------------- MODULE DependentsProofs ---------------------------
(* The labels of every dependent resolve: the emitters and the repository  *)
(* of the compiler each implement their own specification here, and what   *)
(* is proved of them is put together with the order in which Bazel makes   *)
(* repositories.                                                           *)
EXTENDS Dependents, SequenceTheorems, TLAPS

DepsP == INSTANCE EmitDepsProofs WITH
             Metas <- DependentMetas, meta <- dependent, pc <- deps_pc,
             build <- labels
WalkP == INSTANCE EmitBuildBazelProofs WITH
             pc <- walk_pc, Distrib <- DistribNames
SdkP  == INSTANCE OcamlSdkProofs

-----------------------------------------------------------------------------
(* Every step is one of the emitter of the labels or leaves it alone, and  *)
(* likewise for the other two.                                             *)
LEMMA StepOfParts ==
    [Next]_vars => /\ [Deps!Next]_(Deps!vars)
                   /\ [Walk!Next]_(Walk!vars)
                   /\ [SDK!Next]_(SDK!vars)
  <1> SUFFICES ASSUME [Next]_vars
               PROVE  /\ Deps!Next \/ UNCHANGED Deps!vars
                      /\ Walk!Next \/ UNCHANGED Walk!vars
                      /\ SDK!Next \/ UNCHANGED SDK!vars
    OBVIOUS
  <1> USE DEF deps_vars, walk_vars, sdk_vars, Deps!vars, Walk!vars, SDK!vars
  <1>1. CASE WriteLabels
    BY <1>1 DEF WriteLabels
  <1>2. CASE Written \/ Load \/ Fetched
    BY <1>2 DEF Written, Load, Fetched
  <1>3. CASE FetchPackage
    BY <1>3 DEF FetchPackage
  <1>4. CASE FetchSdk
    BY <1>4 DEF FetchSdk, SDK!Next
  <1>5. CASE SwitchChanges
    BY <1>5 DEF SwitchChanges, SDK!Next
  <1>6. CASE UNCHANGED vars
    BY <1>6 DEF vars
  <1> QED
    BY <1>1, <1>2, <1>3, <1>4, <1>5, <1>6 DEF Next

(* A run with a dependent, Bazel and a switch that changes is a run of     *)
(* each of the three programs that write the repositories.                 *)
THEOREM ImplementsParts == Spec => Deps!Spec /\ Walk!Spec /\ SDK!Spec
  <1>1. Init => Deps!Init /\ Walk!Init /\ SDK!Init
    BY DEF Init
  <1> QED
    BY <1>1, StepOfParts, PTL DEF Spec, Deps!Spec, Walk!Spec, SDK!Spec

-----------------------------------------------------------------------------
(* What is proved about the labels: first that both instances of EmitDeps  *)
(* define the same.                                                        *)
LEMMA SameSettings ==
    /\ \A p, attr : Deps!Settings(p, attr) = DepsP!Settings(p, attr)
    /\ \A p, attr : Deps!Flagged(p, attr) = DepsP!Flagged(p, attr)
    /\ \A p, attr : Deps!settings_ct(p, attr) = DepsP!settings_ct(p, attr)
    /\ \A p : Deps!Rules(p) = DepsP!Rules(p)
    /\ Deps!Attribute = DepsP!Attribute
  <1>1. \A p, attr : Deps!Settings(p, attr) = DepsP!Settings(p, attr)
    BY DEF Deps!Settings, DepsP!Settings
  <1>2. \A p, attr : Deps!Flagged(p, attr) = DepsP!Flagged(p, attr)
    BY <1>1 DEF Deps!Flagged, DepsP!Flagged
  <1>3. \A S : Deps!Cardinality(S) = DepsP!Cardinality(S)
    BY DEF Deps!Cardinality, DepsP!Cardinality
  <1>4. \A p, attr : Deps!settings_ct(p, attr) = DepsP!settings_ct(p, attr)
    BY <1>1, <1>2, <1>3 DEF Deps!settings_ct, DepsP!settings_ct
  <1> QED
    BY <1>1, <1>2, <1>4 DEF Deps!Rules, DepsP!Rules, Deps!Attribute, DepsP!Attribute

LEMMA SameLabels ==
    \A p, attr, d : Deps!Label(p, attr, d) = DepsP!Label(p, attr, d)
  <1>1. \A d : Deps!SpecialCase(d) <=> DepsP!SpecialCase(d)
    BY DEF Deps!SpecialCase, DepsP!SpecialCase
  <1>2. \A d : Deps!special_case_multiseg_dep(d) = DepsP!special_case_multiseg_dep(d)
    BY DEF Deps!special_case_multiseg_dep, DepsP!special_case_multiseg_dep
  <1>3. \A d : Deps!deps_label(d) = DepsP!deps_label(d)
    BY <1>1, <1>2 DEF Deps!deps_label, DepsP!deps_label, Deps!Distrib, DepsP!Distrib
  <1>4. \A d : Deps!codeps_label(d) = DepsP!codeps_label(d)
    BY <1>1, <1>2 DEF Deps!codeps_label, DepsP!codeps_label
  <1> QED
    BY <1>3, <1>4, SameSettings DEF Deps!Label, DepsP!Label

LEMMA SameDepsNext == [Deps!Next]_(Deps!vars) => [DepsP!Next]_(DepsP!vars)
  <1>1. Deps!bazel_deps = DepsP!bazel_deps
    <2>1. \A attr : Deps!Repos(attr) = DepsP!Repos(attr)
      BY SameSettings DEF Deps!Repos, DepsP!Repos
    <2>2. /\ Deps!findlib_pkg_deps = DepsP!findlib_pkg_deps
          /\ Deps!findlib_pkg_codeps = DepsP!findlib_pkg_codeps
      BY <2>1 DEF Deps!findlib_pkg_deps, DepsP!findlib_pkg_deps,
                  Deps!findlib_pkg_codeps, DepsP!findlib_pkg_codeps
    <2> QED
      BY <2>2 DEF Deps!bazel_deps, DepsP!bazel_deps
  <1>2. /\ \A s : Deps!archive_attr(s) = DepsP!archive_attr(s)
        /\ \A s : Deps!cmxs_attr(s) = DepsP!cmxs_attr(s)
    BY DEF Deps!archive_attr, DepsP!archive_attr, Deps!cmxs_attr,
           DepsP!cmxs_attr, Deps!Key, DepsP!Key, Deps!Live, DepsP!Live
  <1>3. \A attr, v : Deps!Printed(attr, v) = DepsP!Printed(attr, v)
    BY DEF Deps!Printed, DepsP!Printed
  <1> QED
    BY <1>1, <1>2, <1>3, SameSettings, SameLabels DEF
         Deps!Next, DepsP!Next, Deps!vars, DepsP!vars,
         Deps!emit_module_file, DepsP!emit_module_file,
         Deps!StartRule, DepsP!StartRule, Deps!PrintArchives, DepsP!PrintArchives,
         Deps!SkipSetting, DepsP!SkipSetting, Deps!PrintSetting, DepsP!PrintSetting,
         Deps!EndDeps, DepsP!EndDeps, Deps!EndCodeps, DepsP!EndCodeps,
         Deps!NextPackage, DepsP!NextPackage, Deps!Finish, DepsP!Finish

LEMMA DepsAssumptions == DepsP!Assumptions
  BY Assumptions DEF Deps!Assumptions, DepsP!Assumptions, Deps!Meta, DepsP!Meta,
         Deps!Package, DepsP!Package, Deps!Setting, DepsP!Setting,
         Deps!FileSetting, DepsP!FileSetting, Deps!Dep, DepsP!Dep

LEMMA SameDeps == Deps!Spec => DepsP!Spec
  <1>1. Deps!Init => DepsP!Init
    BY DEF Deps!Init, DepsP!Init
  <1> QED
    BY <1>1, SameDepsNext, PTL DEF Deps!Spec, DepsP!Spec

(* Each label printed is that of a dependency.                             *)
LabelsOfDeps ==
    \A b \in labels :
        /\ b.attr \in {"deps", "codeps"}
        /\ Deps!DepOf(b) \in Seq(Name) \ {<<>>}
        /\ b.label = Deps!Label(b.pkg, b.attr, Deps!DepOf(b))

LEMMA LabelsOfDepsCorrect == Spec => []LabelsOfDeps
  <1>1. DepsP!Spec => []DepsP!TypeOK /\ []DepsP!Emitted
    BY DepsAssumptions, DepsP!TypeCorrect, DepsP!EmittedCorrect, PTL
  <1>2. DepsP!TypeOK /\ DepsP!Emitted => LabelsOfDeps
    <2> SUFFICES ASSUME DepsP!TypeOK, DepsP!Emitted, NEW b \in labels
                 PROVE  /\ b.attr \in {"deps", "codeps"}
                        /\ Deps!DepOf(b) \in Seq(Name) \ {<<>>}
                        /\ b.label = Deps!Label(b.pkg, b.attr, Deps!DepOf(b))
      BY DEF LabelsOfDeps
    <2>1. DepsP!FromSetting(b)
      BY DEF DepsP!Emitted
    <2>2. DepsP!DepOf(b) \in DepsP!Dep
      BY <2>1, DepsAssumptions, DepsP!DepOfType
    <2>3. Deps!DepOf(b) = DepsP!DepOf(b)
      BY SameSettings DEF Deps!DepOf, DepsP!DepOf
    <2> QED
      BY <2>1, <2>2, <2>3, SameLabels DEF DepsP!FromSetting, DepsP!Dep, DepsP!Attribute
  <1> QED
    BY ImplementsParts, SameDeps, <1>1, <1>2, PTL

-----------------------------------------------------------------------------
(* The two instances of EmitBuildBazel define the same steps.              *)
LEMMA SameTargets ==
    /\ Walk!Targets = WalkP!Targets
    /\ Walk!Entries = WalkP!Entries
    /\ \A n : Walk!TargetsBefore(n) = WalkP!TargetsBefore(n)
  <1>2. \A s : Walk!Last(s) = WalkP!Last(s)
    BY DEF Walk!Last, WalkP!Last
  <1>3. \A prop : Walk!Has(prop) <=> WalkP!Has(prop)
    BY DEF Walk!Has, WalkP!Has
  <1>4. Walk!new_filedeps_path = WalkP!new_filedeps_path
    BY DEF Walk!new_filedeps_path, WalkP!new_filedeps_path, Walk!Under, WalkP!Under
  <1>5. \A n : /\ Walk!archive_rule(n) = WalkP!archive_rule(n)
               /\ Walk!plugin_rule(n) = WalkP!plugin_rule(n)
               /\ Walk!deps_target(n) = WalkP!deps_target(n)
    BY <1>3, <1>4 DEF
         Walk!archive_rule, WalkP!archive_rule, Walk!plugin_rule,
         WalkP!plugin_rule, Walk!deps_target, WalkP!deps_target
  <1>6. \A prop : Walk!TargetsOf(prop) = WalkP!TargetsOf(prop)
    BY <1>2, <1>3, <1>5 DEF Walk!TargetsOf, WalkP!TargetsOf,
           Walk!ErrorTarget, WalkP!ErrorTarget
  <1>7. Walk!Entries = WalkP!Entries
    BY DEF Walk!Entries, WalkP!Entries, Walk!Breaks, WalkP!Breaks,
           Walk!Has, WalkP!Has
  <1>8. \A n : Walk!TargetsAt(n) = WalkP!TargetsAt(n)
    BY <1>2, <1>6, <1>7 DEF Walk!TargetsAt, WalkP!TargetsAt
  <1>9. Walk!Places = WalkP!Places
    BY <1>7, <1>8 DEF Walk!Places, WalkP!Places
  <1>10. Walk!Targets = WalkP!Targets
    BY <1>8, <1>9 DEF Walk!Targets, WalkP!Targets
  <1>11. \A n : Walk!TargetsBefore(n) = WalkP!TargetsBefore(n)
    BY <1>2, <1>9, <1>10 DEF Walk!TargetsBefore, WalkP!TargetsBefore
  <1> QED
    BY <1>7, <1>10, <1>11

LEMMA SameWalkNext == [Walk!Next]_(Walk!vars) => [WalkP!Next]_(WalkP!vars)
  <1>1. \A s : Walk!Last(s) = WalkP!Last(s)
    BY DEF Walk!Last, WalkP!Last
  <1>2. /\ Walk!new_filedeps_path = WalkP!new_filedeps_path
        /\ Walk!bazel_pkg_label = WalkP!bazel_pkg_label
        /\ Walk!StublibsDir = WalkP!StublibsDir
    BY <1>1 DEF
         Walk!new_filedeps_path, WalkP!new_filedeps_path, Walk!Under,
         WalkP!Under, Walk!bazel_pkg_label, WalkP!bazel_pkg_label,
         Walk!StublibsDir, WalkP!StublibsDir, Walk!Glued, WalkP!Glued
  <1>3. /\ \A t : Walk!BuildFile(t) = WalkP!BuildFile(t)
        /\ Walk!Skipped = WalkP!Skipped /\ Walk!Special = WalkP!Special
        /\ Walk!Mismatch = WalkP!Mismatch /\ Walk!GlobError = WalkP!GlobError
        /\ \A g : Walk!Children(g) = WalkP!Children(g)
        /\ Walk!Top = WalkP!Top
    BY <1>1, <1>2, SameTargets DEF
         Walk!BuildFile, WalkP!BuildFile, Walk!Skipped, WalkP!Skipped,
         Walk!Special, WalkP!Special, Walk!Mismatch, WalkP!Mismatch,
         Walk!GlobError, WalkP!GlobError, Walk!Children, WalkP!Children,
         Walk!Top, WalkP!Top
  <1>4. /\ \A f : Walk!Write(f) <=> WalkP!Write(f)
        /\ Walk!Return <=> WalkP!Return
    BY <1>2 DEF Walk!Write, WalkP!Write, Walk!Return, WalkP!Return
  <1> QED
    BY <1>1, <1>2, <1>3, <1>4, SameTargets DEF
         Walk!Next, WalkP!Next, Walk!vars, WalkP!vars, Walk!CompilerLibsPkg,
         WalkP!CompilerLibsPkg, Walk!SpecialCase, WalkP!SpecialCase,
         Walk!ConfiguratorMismatch, WalkP!ConfiguratorMismatch,
         Walk!HeadersGlobError, WalkP!HeadersGlobError, Walk!Emit,
         WalkP!Emit, Walk!NextSubpackage, WalkP!NextSubpackage,
         Walk!SubpackagesEnd, WalkP!SubpackagesEnd

LEMMA WalkAssumptions == WalkP!Assumptions
  BY Assumptions DEF Walk!Assumptions, WalkP!Assumptions, Walk!Package,
         WalkP!Package, Walk!Property, WalkP!Property, Walk!Directory,
         WalkP!Directory, Walk!ErrorTarget, WalkP!ErrorTarget

LEMMA SameWalk == Walk!Spec => WalkP!Spec
  <1>1. Walk!Init => WalkP!Init
    BY DEF Walk!Init, WalkP!Init
  <1> QED
    BY <1>1, SameWalkNext, PTL DEF Walk!Spec, WalkP!Spec

(* What the walk of a package gives its dependents.                        *)
LibTargets ==
    walk_pc = "done" =>
        \A d \in meta.paths :
            Linkable(d) /\ ~Walk!Omitted(d) /\ Len(d) <= 3
                => /\ Walk!LabelDir(d) \in DOMAIN files
                   /\ files[Walk!LabelDir(d)].pkg = d
                   /\ Walk!Once("lib", files[Walk!LabelDir(d)].targets)

LEMMA LibTargetsCorrect == Spec => []LibTargets
  <1>1. WalkP!Spec => []WalkP!LibMapped
    BY WalkAssumptions, WalkP!LibMappedCorrect
  <1>2. WalkP!LibMapped => LibTargets
    <2> SUFFICES ASSUME WalkP!LibMapped, walk_pc = "done", NEW d \in meta.paths,
                        Linkable(d), ~Walk!Omitted(d), Len(d) <= 3
                 PROVE  /\ Walk!LabelDir(d) \in DOMAIN files
                        /\ files[Walk!LabelDir(d)].pkg = d
                        /\ Walk!Once("lib", files[Walk!LabelDir(d)].targets)
      BY DEF LibTargets
    <2>1. WalkP!HasLib(d)
      BY DEF WalkP!HasLib, Linkable, HasProperty
    <2>2. ~WalkP!Omitted(d)
      BY DEF WalkP!Omitted, Walk!Omitted
    <2>3. WalkP!LabelDir(d) = Walk!LabelDir(d)
      BY DEF WalkP!LabelDir, Walk!LabelDir
    <2>4. WalkP!InPlace(d) /\ WalkP!Once("lib", files[WalkP!LabelDir(d)].targets)
      BY <2>1, <2>2 DEF WalkP!LibMapped
    <2> QED
      BY <2>3, <2>4 DEF WalkP!InPlace, WalkP!Once, Walk!Once
  <1> QED
    BY ImplementsParts, SameWalk, <1>1, <1>2, PTL

(* The package that is walked is one of Metas, the type of the walk.       *)
PackageTyped == meta \in Metas

LEMMA PackageTypedCorrect == Spec => []PackageTyped
  <1>1. WalkP!Spec => []WalkP!TypeOK
    BY WalkAssumptions, WalkP!TypeCorrect
  <1>2. WalkP!TypeOK => PackageTyped
    BY DEF WalkP!TypeOK, PackageTyped
  <1> QED
    BY ImplementsParts, SameWalk, <1>1, <1>2, PTL

-----------------------------------------------------------------------------
(* What is proved about the compiler's repository, first that both         *)
(* instances of OcamlSdk define the same.                                  *)
LEMMA SameEmit == \A n : SDK!Emit(n) = SdkP!Emit(n)
  BY DEF SDK!Emit, SdkP!Emit,
         SDK!emit_ocaml_bin_build_file, SdkP!emit_ocaml_bin_build_file,
         SDK!emit_ocaml_bin_symlinks, SdkP!emit_ocaml_bin_symlinks,
         SDK!emit_ocaml_sdkbin_symlinks, SdkP!emit_ocaml_sdkbin_symlinks,
         SDK!emit_bin, SdkP!emit_bin, SDK!emit_ocaml_toolchain_buildfiles,
         SdkP!emit_ocaml_toolchain_buildfiles, SDK!emit_ocaml_config_pkg,
         SdkP!emit_ocaml_config_pkg, SDK!symlink_ocaml_stdlib,
         SdkP!symlink_ocaml_stdlib, SDK!emit_ocaml_stdlib_pkg,
         SdkP!emit_ocaml_stdlib_pkg, SDK!symlink_ocaml_expunge,
         SdkP!symlink_ocaml_expunge, SDK!emit_ocaml_expunge,
         SdkP!emit_ocaml_expunge, SDK!emit_ocaml_stublibs_symlinks,
         SdkP!emit_ocaml_stublibs_symlinks, SDK!emit_ocaml_stublibs,
         SdkP!emit_ocaml_stublibs, SDK!symlink_ocaml_compiler_libs,
         SdkP!symlink_ocaml_compiler_libs,
         SDK!emit_ocaml_compiler_libs_pkg,
         SdkP!emit_ocaml_compiler_libs_pkg, SDK!symlink_ocaml_bigarray,
         SdkP!symlink_ocaml_bigarray, SDK!emit_ocaml_bigarray_pkg,
         SdkP!emit_ocaml_bigarray_pkg, SDK!symlink_ocaml_dynlink,
         SdkP!symlink_ocaml_dynlink, SDK!emit_ocaml_dynlink_pkg,
         SdkP!emit_ocaml_dynlink_pkg, SDK!symlink_ocaml_ocamldoc,
         SdkP!symlink_ocaml_ocamldoc, SDK!emit_ocaml_ocamldoc_pkg,
         SdkP!emit_ocaml_ocamldoc_pkg, SDK!symlink_ocaml_profiling,
         SdkP!symlink_ocaml_profiling, SDK!emit_ocaml_profiling_pkg,
         SdkP!emit_ocaml_profiling_pkg, SDK!symlink_ocaml_rtevents,
         SdkP!symlink_ocaml_rtevents, SDK!emit_ocaml_rtevents_pkg,
         SdkP!emit_ocaml_rtevents_pkg, SDK!symlink_ocaml_str,
         SdkP!symlink_ocaml_str, SDK!emit_ocaml_str_pkg,
         SdkP!emit_ocaml_str_pkg, SDK!symlink_ocaml_threads,
         SdkP!symlink_ocaml_threads, SDK!emit_ocaml_threads_pkg,
         SdkP!emit_ocaml_threads_pkg, SDK!symlink_libunix,
         SdkP!symlink_libunix, SDK!symlink_ocaml_unix,
         SdkP!symlink_ocaml_unix, SDK!emit_ocaml_unix_pkg,
         SdkP!emit_ocaml_unix_pkg, SDK!symlink_ocaml_runtime_libs,
         SdkP!symlink_ocaml_runtime_libs,
         SDK!symlink_ocaml_runtime_compiler_libs,
         SdkP!symlink_ocaml_runtime_compiler_libs,
         SDK!emit_ocaml_runtime_pkg, SdkP!emit_ocaml_runtime_pkg,
         SDK!symlink_ocaml_c_hdrs, SdkP!symlink_ocaml_c_hdrs,
         SDK!emit_ocaml_c_ffi_pkg, SdkP!emit_ocaml_c_ffi_pkg,
         SDK!emit_ocaml_version, SdkP!emit_ocaml_version, SDK!Exists,
         SdkP!Exists, SDK!Entries, SdkP!Entries, SDK!Resolves,
         SdkP!Resolves, SDK!Build, SdkP!Build, SDK!Copy, SdkP!Copy,
         SDK!Links, SdkP!Links, SDK!Must, SdkP!Must, SDK!Try, SdkP!Try,
         SDK!Lib, SdkP!Lib, SDK!Old, SdkP!Old, SDK!New, SdkP!New,
         SDK!ocaml, SdkP!ocaml, SDK!switch_bin, SdkP!switch_bin,
         SDK!system_bin, SdkP!system_bin

LEMMA SameNext == [SDK!Next]_(SDK!vars) => [SdkP!Next]_(SdkP!vars)
  BY SameEmit DEF SDK!Next, SdkP!Next, SDK!vars, SdkP!vars,
         SDK!Step, SdkP!Step, SDK!SdkBin, SdkP!SdkBin, SDK!Module,
         SdkP!Module, SDK!Call, SdkP!Call, SDK!Return, SdkP!Return,
         SDK!WriteBuild, SdkP!WriteBuild, SDK!CopyBuild, SdkP!CopyBuild,
         SDK!MakeLinks, SdkP!MakeLinks, SDK!LinkFails, SdkP!LinkFails,
         SDK!BuildFails, SdkP!BuildFails, SDK!ReaddirNull,
         SdkP!ReaddirNull, SDK!OpamChanges, SdkP!OpamChanges, SDK!Steps,
         SdkP!Steps, SDK!Writes, SdkP!Writes, SDK!Sources, SdkP!Sources,
         SDK!Linked, SdkP!Linked, SDK!NewLinks, SdkP!NewLinks, SDK!Fails,
         SdkP!Fails, SDK!Unreadable, SdkP!Unreadable, SDK!Resolves,
         SdkP!Resolves, SDK!Entries, SdkP!Entries, SDK!Exists, SdkP!Exists,
         SDK!ocaml, SdkP!ocaml, SDK!switch_bin, SdkP!switch_bin,
         SDK!system_bin, SdkP!system_bin

LEMMA SdkAssumptions == SdkP!Assumptions
  BY Assumptions DEF
         SDK!Assumptions, SdkP!Assumptions, SDK!Prefix, SdkP!Prefix,
         SDK!Library, SdkP!Library, SDK!Dir, SdkP!Dir, SDK!switch_bin,
         SdkP!switch_bin, SDK!system_bin, SdkP!system_bin, SDK!ocaml,
         SdkP!ocaml, SDK!Old, SdkP!Old, SDK!New, SdkP!New

LEMMA SdkSameCompiler == SdkP!SameCompiler
  BY Assumptions DEF
         SDK!SameCompiler, SdkP!SameCompiler, SDK!OfCompiler,
         SdkP!OfCompiler, SDK!Library, SdkP!Library, SDK!Dir, SdkP!Dir,
         SDK!switch_bin, SdkP!switch_bin, SDK!system_bin, SdkP!system_bin,
         SDK!ocaml, SdkP!ocaml, SDK!Old, SdkP!Old, SDK!New, SdkP!New

LEMMA SdkLibrariesPlaced == SdkP!LibrariesPlaced
  BY Assumptions DEF
         SDK!LibrariesPlaced, SdkP!LibrariesPlaced, SDK!BeforeOCaml5,
         SdkP!BeforeOCaml5, SDK!SinceOCaml5, SdkP!SinceOCaml5, SDK!Keeps,
         SdkP!Keeps, SDK!WithArchive, SdkP!WithArchive, SDK!Library,
         SdkP!Library, SDK!ocaml, SdkP!ocaml, SDK!Old, SdkP!Old, SDK!New,
         SdkP!New

LEMMA SameSdk == SDK!Spec => SdkP!Spec
  <1>1. SDK!Init => SdkP!Init
    BY DEF SDK!Init, SdkP!Init, SDK!switch_bin, SdkP!switch_bin
  <1> QED
    BY <1>1, SameNext, PTL DEF SDK!Spec, SdkP!Spec


(* What the compiler's repository gives dependents.                        *)
SdkPackages ==
    status = "exit0" =>
        /\ SDK!Lib("ffi") \in build
        /\ <<"compiler-libs">> \in build
        /\ \A l \in SDK!Library :
              (\A other \in Installations :
                  other.compiler = sdk.compiler => SDK!HasMeta(other, l))
                 => SDK!Lib(l) \in build

LEMMA SdkPackagesCorrect == Spec => []SdkPackages
  <1>1. SdkP!Spec => /\ []SdkP!FfiWritten /\ []SdkP!ToolchainResolves
                     /\ []SdkP!DependentsResolve
    BY SdkAssumptions, SdkSameCompiler, SdkLibrariesPlaced, SdkP!FfiCorrect,
       SdkP!ToolchainCorrect, SdkP!DependentsCorrect, PTL
  <1>2. SdkP!FfiWritten /\ SdkP!ToolchainResolves /\ SdkP!DependentsResolve
          => SdkPackages
    <2>1. \A l : SdkP!Lib(l) = SDK!Lib(l)
      BY DEF SdkP!Lib, SDK!Lib
    <2>2. \A other, l : SdkP!HasMeta(other, l) <=> SDK!HasMeta(other, l)
      BY DEF SdkP!HasMeta, SDK!HasMeta, SdkP!Old, SDK!Old, SdkP!New, SDK!New
    <2>3. SdkP!Library = SDK!Library
      BY DEF SdkP!Library, SDK!Library
    <2>4. <<"compiler-libs">> \in SdkP!AlwaysThere
      BY DEF SdkP!AlwaysThere, SdkP!CompilerLibPackages
    <2> QED
      BY <2>1, <2>2, <2>3, <2>4 DEF SdkPackages, SdkP!FfiWritten,
         SdkP!ToolchainResolves, SdkP!DependentsResolve
  <1> QED
    BY ImplementsParts, SameSdk, <1>1, <1>2, PTL

-----------------------------------------------------------------------------
(* Bazel.                                                                  *)

(* A label stays and is looked up only when the repository it names has    *)
(* been made, without an error; a repository is made for the labels that   *)
(* wait for it, all in that repository.                                    *)
BazelInv ==
    /\ bazel \in {"write", "load", "fetch", "failed"}
    /\ bazel = "write" => loaded = {}
    /\ loaded \subseteq labels
    /\ bazel = "fetch" =>
          /\ wanted \subseteq labels /\ wanted # {}
          /\ \A b, c \in wanted : b.label.repo = c.label.repo
    /\ status \in {"exit1", "killed"} => bazel = "failed" \/ Fetching(Sdk)
    /\ walk_pc = "exit1" => bazel = "failed" \/ Fetching(meta.root)
    /\ \A b \in loaded :
          /\ b.label.repo = Sdk => status = "exit0"
          /\ b.label.repo = meta.root => walk_pc \in {"done", "exit0"}

(* No package has the name of the SDK's repository, or of a library that   *)
(* is in it.                                                               *)
LEMMA RootIsPackage ==
    ASSUME PackageTyped
    PROVE  /\ meta.root \in Name /\ meta.root # Sdk
           /\ meta.root \notin OBAZL_PKGS \cup SDK!Library
           /\ meta.root \in Declared /\ Sdk \in Declared
  <1>1. meta \in Metas
    BY DEF PackageTyped
  <1>2. <<meta.root>> \in meta.paths /\ meta.paths \subseteq Seq(Name) \ {<<>>}
    BY <1>1, Assumptions DEF Walk!Assumptions, Walk!Package
  <1>3. meta.root \in Name
    <2>1. <<meta.root>> \in Seq(Name)
      BY <1>2
    <2> QED
      BY <2>1
  <1>4. Sdk \notin Name
    BY Assumptions DEF Deps!Assumptions
  <1>5. meta.root \notin OBAZL_PKGS \cup SDK!Library
    BY <1>1, Assumptions
  <1>6. meta.root \in Declared /\ Sdk \in Declared
    BY <1>5 DEF Declared, Listed
  <1> QED
    BY <1>3, <1>4, <1>5, <1>6

(* A tool that has ended makes no further step, and a step keeps the       *)
(* package.                                                                *)
LEMMA WalkMoves ==
    ASSUME Walk!Next
    PROVE  meta' = meta /\ walk_pc \in {"call", "loop"}
  BY DEF Walk!Next, Walk!CompilerLibsPkg, Walk!SpecialCase,
         Walk!ConfiguratorMismatch, Walk!HeadersGlobError, Walk!Emit,
         Walk!NextSubpackage, Walk!SubpackagesEnd

LEMMA SdkMoves ==
    ASSUME SDK!Step
    PROVE  status \in {"start", "module", "running"}
  BY DEF SDK!Step, SDK!SdkBin, SDK!Module, SDK!Call, SDK!Return,
         SDK!WriteBuild, SDK!CopyBuild, SDK!MakeLinks, SDK!LinkFails,
         SDK!BuildFails, SDK!ReaddirNull

(* Every step keeps BazelInv.                                              *)
LEMMA BazelStep == PackageTyped /\ BazelInv /\ [Next]_vars => BazelInv'
  <1> SUFFICES ASSUME PackageTyped, BazelInv, [Next]_vars PROVE BazelInv'
    OBVIOUS
  <1> USE DEF deps_vars, walk_vars, sdk_vars
  <1>0. meta.root # Sdk /\ meta.root \in Declared /\ Sdk \in Declared
    BY RootIsPackage
  <1>1. CASE WriteLabels
    BY <1>1 DEF WriteLabels, BazelInv, Fetching
  <1>2. CASE Written
    BY <1>2 DEF Written, BazelInv, Fetching
  <1>3. CASE Load
    <2>1. /\ bazel = "load" /\ UNCHANGED <<deps_vars, walk_vars, sdk_vars>>
          /\ status \notin {"exit1", "killed"} /\ walk_pc # "exit1"
      BY <1>3 DEF Load, BazelInv, Fetching
    <2>2. PICK b \in labels \ loaded :
             LET same == {c \in labels : c.label.repo = b.label.repo}
             IN  IF b.label.repo \in Declared /\ ~Made(b.label.repo)
                 THEN /\ bazel' = "fetch" /\ wanted' = same
                      /\ UNCHANGED loaded
                 ELSE /\ loaded' = loaded \cup same
                      /\ UNCHANGED <<bazel, wanted>>
      BY <1>3 DEF Load
    <2> DEFINE same == {c \in labels : c.label.repo = b.label.repo}
    <2>3. CASE b.label.repo \in Declared /\ ~Made(b.label.repo)
      <3>1. bazel' = "fetch" /\ wanted' = same /\ UNCHANGED loaded
        BY <2>2, <2>3
      <3> QED
        BY <2>1, <3>1 DEF BazelInv
    <2>4. CASE ~(b.label.repo \in Declared /\ ~Made(b.label.repo))
      <3>1. loaded' = loaded \cup same /\ UNCHANGED <<bazel, wanted>>
        BY <2>2, <2>4
      <3>2. b.label.repo = Sdk => status = "exit0"
        BY <1>0, <2>1, <2>4 DEF Made, SDK!Ended
      <3>3. b.label.repo = meta.root => walk_pc \in {"done", "exit0"}
        BY <1>0, <2>1, <2>4 DEF Made
      <3> QED
        BY <2>1, <3>1, <3>2, <3>3 DEF BazelInv
    <2> QED
      BY <2>3, <2>4
  <1>4. CASE FetchPackage
    <2>1. /\ Fetching(meta.root) /\ meta' = meta /\ walk_pc \in {"call", "loop"}
          /\ UNCHANGED <<bazel, wanted, loaded, deps_vars, sdk_vars>>
      BY <1>4, WalkMoves DEF FetchPackage
    <2> QED
      BY <2>1 DEF BazelInv, Fetching
  <1>5. CASE FetchSdk
    <2>1. /\ Fetching(Sdk) /\ status \in {"start", "module", "running"}
          /\ UNCHANGED <<bazel, wanted, loaded, deps_vars, walk_vars>>
      BY <1>5, SdkMoves DEF FetchSdk
    <2> QED
      BY <2>1 DEF BazelInv, Fetching
  <1>6. CASE Fetched
    <2>1. /\ bazel = "fetch" /\ wanted' = {}
          /\ UNCHANGED <<deps_vars, walk_vars, sdk_vars>>
          /\ \A b \in wanted : Made(b.label.repo)
      BY <1>6 DEF Fetched
    <2> DEFINE error == \/ Fetching(Sdk) /\ status # "exit0"
                        \/ Fetching(meta.root) /\ walk_pc = "exit1"
    <2>2. CASE error
      <3>1. bazel' = "failed" /\ UNCHANGED loaded
        BY <1>6, <2>2 DEF Fetched
      <3> QED
        BY <2>1, <3>1 DEF BazelInv
    <2>3. CASE ~error
      <3>1. bazel' = "load" /\ loaded' = loaded \cup wanted
        BY <1>6, <2>3 DEF Fetched
      <3>2. Fetching(Sdk) => status = "exit0"
        BY <2>3
      <3>3. Fetching(meta.root) => walk_pc # "exit1"
        BY <2>3
      <3>4. status \notin {"exit1", "killed"} /\ walk_pc # "exit1"
        BY <2>1, <3>2, <3>3 DEF BazelInv
      <3>5. ASSUME NEW b \in wanted
            PROVE  /\ b.label.repo = Sdk => status = "exit0"
                   /\ b.label.repo = meta.root => walk_pc \in {"done", "exit0"}
        <4>1. b.label.repo = Sdk => Fetching(Sdk)
          BY <2>1 DEF BazelInv, Fetching
        <4>2. b.label.repo = meta.root => walk_pc \in {"done", "exit0", "exit1"}
          BY <1>0, <2>1 DEF Made
        <4> QED
          BY <3>2, <3>4, <4>1, <4>2
      <3> QED
        BY <2>1, <3>1, <3>4, <3>5 DEF BazelInv
    <2> QED
      BY <2>2, <2>3
  <1>7. CASE SwitchChanges
    BY <1>7 DEF SwitchChanges, SDK!OpamChanges, BazelInv, Fetching
  <1>8. CASE UNCHANGED vars
    BY <1>8 DEF vars, BazelInv, Fetching
  <1> QED
    BY <1>1, <1>2, <1>3, <1>4, <1>5, <1>6, <1>7, <1>8 DEF Next

LEMMA BazelInvariance == Spec => []BazelInv
  <1>1. Init => BazelInv
    BY DEF Init, BazelInv, Walk!Init, SDK!Init
  <1> QED
    BY <1>1, BazelStep, PackageTypedCorrect, PTL DEF Spec

-----------------------------------------------------------------------------
(* Where labels lead.                                                      *)

(* A dependency in an opam package is no special case of either emitter.   *)
LEMMA PackageLabel ==
    ASSUME PackageTyped, NEW d \in meta.paths, ~Walk!Omitted(d),
           NEW p, NEW attr \in {"deps", "codeps"}
    PROVE  \/ Deps!Label(p, attr, d).repo = Fixme
           \/ Deps!Label(p, attr, d) = [repo |-> meta.root, path |-> Tail(d)]
  <1>1. d \in Seq(Name) /\ d # <<>> /\ d[1] = meta.root
    <2>1. meta \in Metas
      BY DEF PackageTyped
    <2> QED
      BY <2>1, Assumptions DEF Walk!Assumptions, Walk!Package
  <1>2. d[1] \notin OBAZL_PKGS \cup SDK!Library
    BY <1>1, RootIsPackage
  <1>3. d[1] \notin CompilerLibs
    <2>1. 1 \in 1..Len(d)
      BY <1>1
    <2> QED
      BY <2>1 DEF Walk!Omitted
  <1>4. d[1] \notin {"compiler-libs", "threads"} \cup Deps!Distrib
    BY <1>2 DEF OBAZL_PKGS, SDK!Library, Deps!Distrib
  <1>5. ~Deps!SpecialCase(d)
    BY <1>3, <1>4 DEF Deps!SpecialCase
  <1>6. /\ Deps!deps_label(d) = [repo |-> meta.root, path |-> Tail(d)]
        /\ Deps!codeps_label(d) = [repo |-> meta.root, path |-> Tail(d)]
    BY <1>1, <1>4, <1>5 DEF Deps!deps_label, Deps!codeps_label
  <1>7. [repo |-> Fixme, path |-> d].repo = Fixme
    OBVIOUS
  <1> QED
    BY <1>6, <1>7 DEF Deps!Label

(* Its label is looked up in the repository of the package, whose walk is  *)
(* done by then.                                                           *)
LEMMA PackageResolves ==
    ASSUME PackageTyped, BazelInv, LibTargets, LabelsOfDeps,
           NEW b \in loaded, NEW d, d = Deps!DepOf(b), InPackage(d),
           b.label.repo # Fixme
    PROVE  Resolves(b.label, d)
  <1>1. b \in labels /\ (b.label.repo = meta.root => walk_pc \in {"done", "exit0"})
    BY DEF BazelInv
  <1>2. b.label = Deps!Label(b.pkg, b.attr, d) /\ b.attr \in {"deps", "codeps"}
        /\ d \in Seq(Name) \ {<<>>}
    BY <1>1 DEF LabelsOfDeps
  <1>3. b.label = [repo |-> meta.root, path |-> Tail(d)]
    BY <1>2, PackageLabel DEF InPackage
  <1>4. walk_pc = "done"
    BY <1>1, <1>3 DEF InPackage
  <1>5. /\ Walk!LabelDir(d) \in DOMAIN files
        /\ files[Walk!LabelDir(d)].pkg = d
        /\ Walk!Once("lib", files[Walk!LabelDir(d)].targets)
    BY <1>4 DEF LibTargets, InPackage
  <1>6. [k \in 1..Len(Tail(d)) |-> <<Tail(d)[k]>>] = Walk!LabelDir(d)
    <2>1. Len(Tail(d)) = Len(d) - 1 /\ \A k \in 1..Len(Tail(d)) : Tail(d)[k] = d[k + 1]
      BY <1>2
    <2> QED
      BY <2>1 DEF Walk!LabelDir
  <1>7. PackageTarget(Tail(d), d)
    BY <1>5, <1>6 DEF PackageTarget
  <1>8. b.label.repo = meta.root /\ b.label.path = Tail(d) /\ meta.root # Sdk
    BY <1>3, RootIsPackage
  <1> QED
    BY <1>7, <1>8 DEF Resolves

(* A dependency in the compiler is a special case of the emitter that      *)
(* knows it.                                                               *)
LEMMA CompilerLabel ==
    ASSUME NEW d \in Seq(Name) \ {<<>>}, NEW p, NEW attr \in {"deps", "codeps"},
           InCompiler(d), ~Unknown(attr, d)
    PROVE  LET label == Deps!Label(p, attr, d)
           IN  \/ label.repo = Fixme
               \/ /\ label.repo = Sdk
                  /\ \/ label.path = <<"compiler-libs", "common">>
                     \/ /\ label.path = d /\ Len(d) = 2 /\ d[1] = "compiler-libs"
                        /\ d[2] \in SDK!CompilerLib
                     \/ label.path = <<"ffi">>
                     \/ /\ d[1] \in SDK!Library \ {"stdlib"}
                        /\ label.path = <<d[1]>>
                        /\ \A other \in Installations :
                              other.compiler = sdk.compiler
                                 => SDK!HasMeta(other, d[1])
  <1> DEFINE known == IF attr = "deps" THEN Deps!deps_label(d)
                                       ELSE Deps!codeps_label(d)
             Sure == \A other \in Installations :
                        other.compiler = sdk.compiler => SDK!HasMeta(other, d[1])
  <1>1. Deps!Label(p, attr, d) = known \/ Deps!Label(p, attr, d).repo = Fixme
    <2>1. [repo |-> Fixme, path |-> d].repo = Fixme
      OBVIOUS
    <2> QED
      BY <2>1 DEF Deps!Label
  <1>2. "compiler-libs" \in CompilerLibs /\ CompilerLibs \cap (SDK!Library \cup {"ffi"}) = {}
    BY Assumptions DEF Deps!Assumptions
  <1>3. (Len(d) = 1 \/ Len(d) > 1) /\ (Len(d) = 1 => d = <<d[1]>>)
    <2>1. Len(d) \in Nat /\ Len(d) >= 1 /\ (Len(d) = 1 => d = <<d[1]>>)
      OBVIOUS
    <2>2. \A n \in Nat : n >= 1 => n = 1 \/ n > 1
      OBVIOUS
    <2> QED
      BY <2>1, <2>2, Zenon
  <1>4. CASE d = <<"ffi">>
    <2>1. Len(d) = 1 /\ d[1] = "ffi"
      BY <1>4
    <2>2. attr = "deps" /\ ~Deps!SpecialCase(d)
      BY <1>2, <2>1 DEF Unknown, Deps!SpecialCase
    <2>3. known = [repo |-> Sdk, path |-> d]
      BY <2>1, <2>2 DEF Deps!deps_label, Deps!Distrib
    <2> QED
      BY <1>1, <1>4, <2>3
  <1>5. CASE d = <<"compiler-libs">>
    <2>1. Len(d) = 1 /\ d[1] = "compiler-libs"
      BY <1>5
    <2>2. Deps!SpecialCase(d)
      BY <1>2, <2>1 DEF Deps!SpecialCase
    <2>3. known = [repo |-> Sdk, path |-> <<"compiler-libs", "common">>]
      BY <2>1, <2>2 DEF Deps!deps_label, Deps!codeps_label, Deps!special_case_multiseg_dep
    <2> QED
      BY <1>1, <2>3
  <1>6. CASE Len(d) = 2 /\ d[1] = "compiler-libs" /\ d[2] \in SDK!CompilerLib
    <2>1. attr = "deps" /\ Deps!SpecialCase(d)
      BY <1>6 DEF Unknown, Deps!SpecialCase
    <2>2. known = [repo |-> Sdk, path |-> d]
      BY <1>6, <2>1 DEF Deps!deps_label, Deps!special_case_multiseg_dep
    <2> QED
      BY <1>1, <1>6, <2>2
  <1>7. CASE (Len(d) = 1 \/ d[1] = "threads") /\ d[1] \in SDK!Library /\ Sure
    <2>1. CASE d[1] = "threads"
      <3>1. known = [repo |-> Sdk, path |-> <<"threads">>]
        <4>1. attr = "deps" \/ Len(d) = 1
          BY DEF Unknown
        <4>2. Deps!SpecialCase(d)
          BY <2>1, <1>3 DEF Deps!SpecialCase
        <4> QED
          BY <2>1, <4>1, <4>2
             DEF Deps!deps_label, Deps!codeps_label, Deps!special_case_multiseg_dep
      <3> QED
        BY <1>1, <1>7, <2>1, <3>1
    <2>2. CASE d[1] # "threads"
      <3>1. Len(d) = 1 /\ d = <<d[1]>> /\ d[1] \in SDK!Library /\ Sure
        BY <1>3, <1>7, <2>2
      <3>2. d[1] # "compiler-libs"
        BY <3>1 DEF SDK!Library
      <3>3. attr = "deps" /\ d[1] \notin {"runtime_events", "stdlib"}
        BY <2>2, <3>2 DEF Unknown
      <3>4. ~Deps!SpecialCase(d)
        BY <1>2, <2>2, <3>1 DEF Deps!SpecialCase
      <3>5. d[1] \in Deps!Distrib
        BY <2>2, <3>1, <3>3 DEF SDK!Library, Deps!Distrib
      <3>6. known = [repo |-> Sdk, path |-> d]
        BY <3>1, <3>3, <3>4, <3>5 DEF Deps!deps_label
      <3>7. d[1] # "stdlib"
        BY <3>3
      <3> HIDE DEF known, Sure
      <3>8. known.repo = Sdk /\ known.path = <<d[1]>>
        BY <3>1, <3>6
      <3> QED
        BY <1>1, <3>1, <3>7, <3>8 DEF Sure
    <2> QED
      BY <2>1, <2>2
  <1> QED
    BY <1>4, <1>5, <1>6, <1>7 DEF InCompiler

LEMMA AppendToOne == ASSUME NEW a, NEW b PROVE Append(<<a>>, b) = <<a, b>>
  <1> DEFINE S == {a, b}
             s == Append(<<a>>, b)
             t == <<a, b>>
  <1>1. <<a>> \in Seq(S) /\ b \in S
    OBVIOUS
  <1>2. t \in Seq(S) /\ Len(t) = 2 /\ t[1] = a /\ t[2] = b
    OBVIOUS
  <1>3. s \in Seq(S) /\ Len(s) = 2 /\ s[1] = a /\ s[2] = b
    BY <1>1, AppendProperties
  <1> HIDE DEF s, t
  <1>4. \A k \in 1..Len(s) : s[k] = t[k]
    BY <1>2, <1>3
  <1>5. s = t
    BY <1>2, <1>3, <1>4, SeqEqual
  <1> QED
    BY <1>5 DEF s, t

(* It is looked up in the compiler's repository, which is there by then.   *)
LEMMA CompilerResolves ==
    ASSUME PackageTyped, BazelInv, SdkPackages, LabelsOfDeps,
           NEW b \in loaded, NEW d, d = Deps!DepOf(b), InCompiler(d),
           ~Unknown(b.attr, d), b.label.repo # Fixme
    PROVE  Resolves(b.label, d)
  <1> DEFINE path == b.label.path
             l == d[1]
  <1>1. b \in labels /\ (b.label.repo = Sdk => status = "exit0")
    BY DEF BazelInv
  <1>2. b.label = Deps!Label(b.pkg, b.attr, d) /\ b.attr \in {"deps", "codeps"}
        /\ d \in Seq(Name) \ {<<>>}
    BY <1>1 DEF LabelsOfDeps
  <1>3. /\ b.label.repo = Sdk
        /\ \/ path = <<"compiler-libs", "common">>
           \/ path = d /\ Len(d) = 2 /\ d[1] = "compiler-libs" /\ d[2] \in SDK!CompilerLib
           \/ path = <<"ffi">>
           \/ /\ l \in SDK!Library \ {"stdlib"} /\ path = <<l>>
              /\ \A other \in Installations :
                    other.compiler = sdk.compiler => SDK!HasMeta(other, l)
    BY <1>2, CompilerLabel
  <1>4. status = "exit0"
    BY <1>1, <1>3
  <1>5. SdkTarget(path)
    <2>1. CASE path = <<"compiler-libs", "common">>
      <3>1. <<"compiler-libs">> \in build
        BY <1>4 DEF SdkPackages
      <3>2. Len(path) = 2 /\ path[1] = "compiler-libs" /\ path[2] = "common"
        BY <2>1
      <3>3. "common" \in SDK!CompilerLib
        BY DEF SDK!CompilerLib
      <3> QED
        BY <3>1, <3>2, <3>3 DEF SdkTarget
    <2>2. CASE path = d /\ Len(d) = 2 /\ d[1] = "compiler-libs" /\ d[2] \in SDK!CompilerLib
      BY <1>4, <2>2 DEF SdkTarget, SdkPackages
    <2>3. ASSUME NEW n \in (SDK!Library \ {"stdlib"}) \cup {"ffi"}, path = <<n>>,
                 SDK!Lib(n) \in build
          PROVE  SdkTarget(path)
      <3>1. Append(path, "lib") = SDK!Lib(n)
        <4>1. Append(<<n>>, "lib") = <<n, "lib">>
          BY AppendToOne
        <4> HIDE DEF path
        <4> QED
          BY <4>1, <2>3 DEF SDK!Lib
      <3>2. SDK!Lib(n) \in SDK!Package
        BY DEF SDK!Package
      <3>3. SDK!Lib(n) \in WithLib
        BY <3>2 DEF WithLib
      <3> QED
        BY <2>3, <3>1, <3>3 DEF SdkTarget
    <2>4. CASE path = <<"ffi">>
      BY <1>4, <2>3, <2>4 DEF SdkPackages
    <2>5. CASE /\ l \in SDK!Library \ {"stdlib"} /\ path = <<l>>
               /\ \A other \in Installations :
                     other.compiler = sdk.compiler => SDK!HasMeta(other, l)
      <3>1. SDK!Lib(l) \in build
        BY <1>4, <2>5 DEF SdkPackages
      <3> QED
        BY <2>3, <2>5, <3>1
    <2> QED
      BY <1>3, <2>1, <2>2, <2>4, <2>5
  <1>6. b.label.repo = Sdk /\ b.label.repo # meta.root /\ SdkTarget(b.label.path)
    BY <1>3, <1>5, RootIsPackage
  <1> QED
    BY <1>6 DEF Resolves

(* A dependent's labels lead to targets, for all META files of dependents  *)
(* and packages, all compilers and switches, whatever the order in which   *)
(* Bazel makes the repositories and however often opam changes the switch  *)
(* in between.                                                             *)
THEOREM LabelsResolveCorrect == Spec => []LabelsResolve
  <1>1. PackageTyped /\ BazelInv /\ LibTargets /\ SdkPackages /\ LabelsOfDeps
           => LabelsResolve
    <2> SUFFICES ASSUME PackageTyped, BazelInv, LibTargets, SdkPackages,
                        LabelsOfDeps, NEW b \in loaded, NEW d, d = Deps!DepOf(b)
                 PROVE  \/ Resolves(b.label, d)
                        \/ b.label.repo = Fixme
                        \/ ~InPackage(d) /\ ~InCompiler(d)
                        \/ InCompiler(d) /\ Unknown(b.attr, d)
      BY DEF LabelsResolve
    <2>1. InCompiler(d) /\ ~Unknown(b.attr, d) /\ b.label.repo # Fixme
             => Resolves(b.label, d)
      BY CompilerResolves
    <2>2. InPackage(d) /\ b.label.repo # Fixme => Resolves(b.label, d)
      BY PackageResolves
    <2> QED
      BY <2>1, <2>2
  <1> QED
    BY <1>1, PackageTypedCorrect, BazelInvariance, LibTargetsCorrect,
       SdkPackagesCorrect, LabelsOfDepsCorrect, PTL
=============================================================================
