------------------------------ MODULE EmitDeps ------------------------------
(***************************************************************************)
(* What lib/emit_build_bazel.c makes of the dependencies in a META file:   *)
(* the bazel_deps of MODULE.bazel (emit_module_file), written first, and   *)
(* then, rule by rule of the BUILD files, the archives                     *)
(* (emit_bazel_archive_attr, emit_bazel_cmxs_attr) and the labels of deps  *)
(* (emit_bazel_deps_attribute, from requires) and of ppx_codeps            *)
(* (emit_bazel_ppx_codeps, from ppx_runtime_deps).                         *)
(*                                                                         *)
(* A dependency is the sequence of the names between its dots.  The rules  *)
(* of a package, in order, are those that EmitBuildBazel gives it; the     *)
(* values of a setting are what resolve_setting_values returns for it.  A  *)
(* property that is absent has no settings.  The keys of a select are left *)
(* out: its branches hold labels marked FIXME, which are in no repository. *)
(***************************************************************************)
EXTENDS Naturals, Sequences, FiniteSets

CONSTANTS
    Name,          (* the names between dots                               *)
    Metas,         (* the META files                                       *)
    BuiltIn,       (* names that start with compiler-libs, dynlink,        *)
                   (* ocamldoc, str, threads or unix                       *)
    CompilerLibs,  (* those that start with "compiler-libs"                *)
    Sdk,           (* what labels call the repository of the OCaml SDK     *)
    SdkModule,     (* what MODULE.bazel calls it, without obazl_pfx        *)
    Fixme          (* the repository of a label that is still to be fixed  *)

Dep     == Seq(Name) \ {<<>>}
Setting == [ppx_driver : BOOLEAN, values : Seq(Dep)]

(* A setting of archive or plugin: the cmtag its flags give (byte cma,     *)
(* native cmxa), whether a flag is deprecated, and how many files it has.  *)
FileSetting == [deprecated : BOOLEAN, cmtag : {"cma", "cmxa", "none"},
                files : Nat]

Package == [rules : Seq({"archive", "plugin", "deps"}),
            archive : Seq(FileSetting), plugin : Seq(FileSetting),
            requires : Seq(Setting), ppx_runtime_deps : Seq(Setting)]
Meta    == [name : Name, pkgs : Seq(Package)]

ASSUME Assumptions ==
    /\ Metas \subseteq Meta
    /\ {"str", "unix", "dynlink", "ocamldoc", "threads"} \subseteq BuiltIn
    /\ "compiler-libs" \in CompilerLibs
    /\ CompilerLibs \subseteq BuiltIn
    /\ {Sdk, SdkModule, Fixme} \cap Name = {}
    /\ Sdk # Fixme

VARIABLES
    meta,    (* the META file                                              *)
    pc,      (* "module", "rule", in an attribute, or "done"               *)
    pkg,     (* the package that is written                                *)
    rule,    (* which of its rules                                         *)
    i,       (* the loop over the settings of an attribute                 *)
    module,  (* the repositories for which MODULE.bazel has a bazel_dep    *)
    archives, (* what is printed for the archives of each rule              *)
    build    (* the labels printed, each with where it comes from          *)

vars == <<meta, pc, pkg, rule, i, module, archives, build>>

Attribute == {"deps", "codeps"}

Init ==
    /\ meta \in Metas
    /\ pc = "module" /\ pkg = 1 /\ rule = 1 /\ i = 1
    /\ module = {} /\ archives = {} /\ build = {}

-----------------------------------------------------------------------------
(* The settings of an attribute.                                           *)

Settings(p, attr) ==
    IF attr = "deps" THEN meta.pkgs[p].requires
                     ELSE meta.pkgs[p].ppx_runtime_deps

(* Those with the flag ppx_driver, as obzl_meta_flags_has_flag finds it.   *)
Flagged(p, attr) ==
    {k \in DOMAIN Settings(p, attr) : Settings(p, attr)[k].ppx_driver}

(* The flagged settings are taken off twice.                               *)
settings_ct_twice(p, attr) ==
    Len(Settings(p, attr)) - 2 * Cardinality(Flagged(p, attr))

settings_ct(p, attr) ==
    Len(Settings(p, attr)) - Cardinality(Flagged(p, attr))

-----------------------------------------------------------------------------
(* The label of a dependency.                                              *)

SpecialCase(d) ==
    \/ Len(d) = 1 /\ d[1] \in CompilerLibs \cup {"threads"}
    \/ Len(d) > 1 /\ d[1] \in {"compiler-libs", "threads"}

(* threads, threads.posix and threads.vm are one library.                  *)
special_case_multiseg_dep(d) ==
    [repo |-> Sdk,
     path |-> IF d[1] = "threads" THEN <<"threads">>
              ELSE IF Len(d) = 1 THEN <<"compiler-libs", "common">>
              ELSE d]

(* Libraries with a directory of their own in the SDK.                     *)
Distrib == {"bigarray", "str", "ffi", "dynlink", "profiling", "ocamldoc",
            "unix"}

(* Sub-packages of sub-packages are cut off.                               *)
deps_label_cut(d) ==
    IF SpecialCase(d) THEN special_case_multiseg_dep(d)
    ELSE IF Len(d) = 1 /\ d[1] \in Distrib THEN [repo |-> Sdk, path |-> d]
    ELSE [repo |-> d[1], path |-> IF Len(d) = 1 THEN <<>> ELSE <<d[2]>>]

deps_label(d) ==
    IF SpecialCase(d) THEN special_case_multiseg_dep(d)
    ELSE IF Len(d) = 1 /\ d[1] \in Distrib THEN [repo |-> Sdk, path |-> d]
    ELSE [repo |-> d[1], path |-> Tail(d)]

(* The whole name after the repository.                                    *)
codeps_label_whole(d) ==
    IF Len(d) = 1 /\ SpecialCase(d) THEN special_case_multiseg_dep(d)
    ELSE [repo |-> d[1], path |-> d]

(* The slashes are dots again when the special cases are looked for, which *)
(* therefore are found only in names of one segment.                       *)
codeps_label(d) ==
    IF Len(d) = 1 /\ SpecialCase(d) THEN special_case_multiseg_dep(d)
    ELSE [repo |-> d[1], path |-> Tail(d)]

Label(p, attr, d) ==
    IF settings_ct(p, attr) > 1 THEN [repo |-> Fixme, path |-> d]
    ELSE IF attr = "deps" THEN deps_label(d)
    ELSE codeps_label(d)

-----------------------------------------------------------------------------
(* MODULE.bazel.                                                           *)

(* The repositories a META file names in an attribute, in all packages.    *)
Repos(attr) ==
    UNION {UNION {{Settings(p, attr)[k].values[j][1] :
                      j \in DOMAIN Settings(p, attr)[k].values} :
                  k \in DOMAIN Settings(p, attr)} :
           p \in DOMAIN meta.pkgs}

findlib_pkg_deps   == Repos("deps")
findlib_pkg_codeps == Repos("codeps")

(* What looks like a built-in is left out of the codeps as well.           *)
bazel_deps_nobuiltin ==
    IF findlib_pkg_deps = {} THEN {}
    ELSE {SdkModule : d \in findlib_pkg_deps \cap BuiltIn}
         \cup (findlib_pkg_deps \ (BuiltIn \cup {meta.name}))
         \cup ((findlib_pkg_codeps \ BuiltIn)
                    \ (findlib_pkg_deps \cup {meta.name}))

(* Without deps the function returns before it gets to the codeps; a codep *)
(* that is a dep has been dealt with.                                      *)
bazel_deps ==
    IF findlib_pkg_deps = {} THEN {}
    ELSE {SdkModule : d \in findlib_pkg_deps \cap BuiltIn}
         \cup (findlib_pkg_deps \ (BuiltIn \cup {meta.name}))
         \cup (findlib_pkg_codeps \ (findlib_pkg_deps \cup {meta.name}))

emit_module_file ==
    /\ pc = "module"
    /\ module' = bazel_deps
    /\ pc' = "rule"
    /\ UNCHANGED <<meta, pkg, rule, i, archives, build>>

-----------------------------------------------------------------------------
(* The rules of the BUILD files, and their two attributes.                 *)

Rules(p) == meta.pkgs[p].rules

StartRule ==
    /\ pc = "rule" /\ pkg <= Len(meta.pkgs) /\ rule <= Len(Rules(pkg))
    /\ pc' = IF Rules(pkg)[rule] = "deps" THEN "deps" ELSE "archives"
    /\ i' = 1
    /\ UNCHANGED <<meta, pkg, rule, module, archives, build>>

(* Settings with a deprecated flag count as well.                          *)
Live_deprecated(settings) ==
    {k \in DOMAIN settings : settings[k].cmtag # "none"}

(* The settings for byte or native code without a deprecated flag.         *)
Live(settings) ==
    {k \in DOMAIN settings :
        ~settings[k].deprecated /\ settings[k].cmtag # "none"}

(* What stands before a file in the select: a leftover with one setting,   *)
(* and nothing before the second file of a setting.                        *)
Key(settings, k, j) ==
    IF Len(settings) = 1 THEN "5)"
    ELSE IF j > 1 THEN ""
    ELSE IF settings[k].cmtag = "cma" THEN "executor:vm" ELSE "executor:sys"

archive_attr(settings) ==
    UNION {{[setting |-> k, value |-> j, key |-> Key(settings, k, j)] :
               j \in 1..settings[k].files} : k \in Live(settings)}

(* "cmxs" is printed, and " =" with each file for native code.             *)
cmxs_attr(settings) ==
    UNION {{[setting |-> k, value |-> j, key |-> "="] :
               j \in 1..settings[k].files} :
           k \in {k \in Live(settings) : settings[k].cmtag = "cmxa"}}

PrintArchives ==
    /\ pc = "archives"
    /\ archives' = archives \cup
          {[pkg |-> pkg, rule |-> rule,
            entries |-> IF Rules(pkg)[rule] = "archive"
                        THEN archive_attr(meta.pkgs[pkg].archive)
                        ELSE cmxs_attr(meta.pkgs[pkg].plugin)]}
    /\ pc' = "deps"
    /\ UNCHANGED <<meta, pkg, rule, i, module, build>>

(* A setting with the flag is passed over; it counts in the loop.          *)
SkipSetting ==
    /\ pc \in Attribute /\ i <= settings_ct(pkg, pc)
    /\ i \in Flagged(pkg, pc)
    /\ i' = i + 1
    /\ UNCHANGED <<meta, pc, pkg, rule, module, archives, build>>

(* uchar is part of the standard library by now, and passed over in deps.  *)
Printed(attr, values) ==
    {j \in DOMAIN values : attr = "deps" => values[j] # <<"uchar">>}

PrintSetting ==
    /\ pc \in Attribute /\ i <= settings_ct(pkg, pc)
    /\ i \notin Flagged(pkg, pc)
    /\ LET values == Settings(pkg, pc)[i].values
       IN  build' = build \cup
             {[pkg |-> pkg, rule |-> rule, attr |-> pc, setting |-> i,
               value |-> j, label |-> Label(pkg, pc, values[j])] :
                j \in Printed(pc, values)}
    /\ i' = i + 1
    /\ UNCHANGED <<meta, pc, pkg, rule, module, archives>>

(* Only the rule of an archive has ppx_codeps.                             *)
EndDeps ==
    /\ pc = "deps" /\ i > settings_ct(pkg, pc)
    /\ IF Rules(pkg)[rule] = "archive"
       THEN pc' = "codeps" /\ i' = 1 /\ UNCHANGED rule
       ELSE pc' = "rule" /\ rule' = rule + 1 /\ UNCHANGED i
    /\ UNCHANGED <<meta, pkg, module, archives, build>>

EndCodeps ==
    /\ pc = "codeps" /\ i > settings_ct(pkg, pc)
    /\ pc' = "rule" /\ rule' = rule + 1
    /\ UNCHANGED <<meta, pkg, i, module, archives, build>>

NextPackage ==
    /\ pc = "rule" /\ pkg <= Len(meta.pkgs) /\ rule > Len(Rules(pkg))
    /\ pkg' = pkg + 1 /\ rule' = 1
    /\ UNCHANGED <<meta, pc, i, module, archives, build>>

Finish ==
    /\ pc = "rule" /\ pkg > Len(meta.pkgs)
    /\ pc' = "done"
    /\ UNCHANGED <<meta, pkg, rule, i, module, archives, build>>

Next ==
    \/ emit_module_file
    \/ StartRule \/ PrintArchives
    \/ SkipSetting \/ PrintSetting \/ EndDeps \/ EndCodeps
    \/ NextPackage \/ Finish

Spec == Init /\ [][Next]_vars

-----------------------------------------------------------------------------
(* Properties.                                                             *)

Repo  == Name \cup {Sdk, Fixme}
Entry == [pkg : Nat, rule : Nat, attr : Attribute, setting : Nat, value : Nat,
          label : [repo : Repo,
                   path : Seq(Name \cup {"compiler-libs", "common", "threads"})]]

TypeOK ==
    /\ meta \in Meta
    /\ pc \in {"module", "rule", "archives", "done"} \cup Attribute
    /\ pkg \in 1..(Len(meta.pkgs) + 1)
    /\ pkg <= Len(meta.pkgs) => rule \in 1..(Len(Rules(pkg)) + 1)
    /\ pc \in Attribute \cup {"archives"} =>
           pkg <= Len(meta.pkgs) /\ rule <= Len(Rules(pkg))
    /\ i \in Nat \ {0}
    /\ module \subseteq Name \cup {SdkModule}
    /\ build \subseteq Entry

(* One file for byte code and one for native code at most, in more than    *)
(* one setting; a plugin has one file for native code.                     *)
Usual(kind, settings) ==
    LET files(tag) == {f \in (DOMAIN settings) \X (1..2) :
                          /\ ~settings[f[1]].deprecated
                          /\ settings[f[1]].cmtag = tag
                          /\ f[2] <= settings[f[1]].files}
    IN  IF kind = "plugin" THEN Cardinality(files("cmxa")) = 1
        ELSE /\ Len(settings) > 1
             /\ Cardinality(files("cma")) <= 1
             /\ Cardinality(files("cmxa")) <= 1
             /\ files("cma") \cup files("cmxa") # {}

(* Bazel's view of what is printed: a select with distinct keys and one    *)
(* label for each, at least one; or one value.                             *)
Parses(entries) ==
    /\ entries # {}
    /\ \A e \in entries : e.key \in {"executor:vm", "executor:sys", "="}
    /\ \A e, f \in entries : e.key = f.key => e = f

FileSettings(a) ==
    IF Rules(a.pkg)[a.rule] = "archive" THEN meta.pkgs[a.pkg].archive
                                        ELSE meta.pkgs[a.pkg].plugin

(* An archive property with one setting is printed with the leftover 5).   *)
Single(a) == Rules(a.pkg)[a.rule] = "archive" /\ Len(FileSettings(a)) = 1

(* The attribute that names the archives of a library is well formed when  *)
(* META has one file for byte and one for native code, whatever other      *)
(* settings with deprecated flags are among them, and malformed when there *)
(* is none, or are two for one of them.  Single is a known defect.  One    *)
(* malformed attribute makes Bazel refuse the file with all its targets.   *)
ArchivesParse ==
    \A a \in archives :
        ~Single(a) =>
            (Parses(a.entries) <=> Usual(Rules(a.pkg)[a.rule], FileSettings(a)))

DepOf(b) == Settings(b.pkg, b.attr)[b.setting].values[b.value]

Told(repo) ==
    IF repo = Sdk THEN SdkModule \in module ELSE repo \in module \cup {meta.name}

(* The dependencies whose repository MODULE.bazel does not name: in deps,  *)
(* an opam package whose name starts like a built-in (stringext) and the   *)
(* three SDK libraries its list lacks; in ppx_codeps, everything when the  *)
(* META file has no deps, a built-in that is a dep too, and what takes the *)
(* SDK when no dep does.                                                   *)
Untold(b) ==
    LET name == DepOf(b)[1]
    IN  \/ b.attr = "deps" /\ b.label.repo = name /\ name \in BuiltIn
        \/ b.attr = "deps" /\ name \in {"bigarray", "ffi", "profiling"}
        \/ b.attr = "codeps" /\ findlib_pkg_deps = {}
        \/ b.attr = "codeps" /\ name \in BuiltIn \cap findlib_pkg_deps
        \/ b.attr = "codeps" /\ b.label.repo = Sdk

(* emit_module_file, "get **repo** deps: direct deps of pkg and all        *)
(* subpkgs": whatever repository a label of a BUILD file names, MODULE.    *)
(* bazel declares, but for the cases above.  The two are computed by       *)
(* different functions, from different lists of what is built in.          *)
LabelsDeclared ==
    \A b \in build :
        b.label.repo # Fixme => Told(b.label.repo) \/ Untold(b)

HasAttribute(p, r, attr) == attr = "deps" \/ Rules(p)[r] = "archive"

(* All values of a setting are printed in a rule.                          *)
AllPrinted(p, r, attr, k) ==
    \A j \in DOMAIN Settings(p, attr)[k].values :
        \/ Settings(p, attr)[k].values[j] = <<"uchar">>
        \/ \E b \in build :
              /\ b.pkg = p /\ b.rule = r /\ b.attr = attr
              /\ b.setting = k /\ b.value = j

(* No dependency is lost in the loops: when the flagged settings, which    *)
(* the code means to leave out, come after the others, every other setting *)
(* is printed in every rule, with all its values.  (With a flagged setting *)
(* before it a setting may be lost: the loop runs to the reduced count.)   *)
NothingLost ==
    pc = "done" =>
        \A p \in DOMAIN meta.pkgs : \A r \in DOMAIN Rules(p) :
        \A attr \in {a \in Attribute : HasAttribute(p, r, a)} :
        \A k \in DOMAIN Settings(p, attr) :
            (\A h \in 1..k : h \notin Flagged(p, attr)) =>
                AllPrinted(p, r, attr, k)

(* Names that are one library of the SDK.                                  *)
SameLibrary(d, e) ==
    \/ d[1] = "threads" /\ e[1] = "threads"
    \/ d[1] \in CompilerLibs /\ e[1] \in CompilerLibs

(* Bazel refuses a list with the same label twice.  Two dependencies get   *)
(* one label only when they are the same library: no opam package meets    *)
(* another, or a library of the SDK, whatever their names.                 *)
LabelsDistinct ==
    \A b, c \in build :
        b.attr = c.attr /\ b.label = c.label
            => DepOf(b) = DepOf(c) \/ SameLibrary(DepOf(b), DepOf(c))

(* What is a dependency of one rule and a runtime dependency of another is *)
(* one target under one label, except for the SDK's libraries, which only  *)
(* emit_bazel_deps_attribute knows.                                        *)
SameLabel ==
    \A b \in {e \in build : e.attr = "deps"} :
    \A c \in {e \in build : e.attr = "codeps"} :
        \/ DepOf(b) # DepOf(c)
        \/ Fixme \in {b.label.repo, c.label.repo}
        \/ DepOf(b)[1] \in Distrib \cup {"compiler-libs", "threads"}
        \/ b.label = c.label
=============================================================================
