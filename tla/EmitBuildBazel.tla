--------------------------- MODULE EmitBuildBazel ---------------------------
(***************************************************************************)
(* emit_build_bazel of lib/emit_build_bazel.c: the walk of the config tool *)
(* over the META file of one opam package, which writes a BUILD.bazel and  *)
(* symlinks the package's files for the package and each sub-package in    *)
(* it.  The walk recurses through emit_bazel_subpackages, which keeps two  *)
(* pieces of state across calls by hand: the file-scope counter newlevel   *)
(* and the string pkg_parent, which every call shares and restores.        *)
(*                                                                         *)
(* A package is the sequence of the names that lead to it, the root first. *)
(* A META file says which packages there are, which properties each has,   *)
(* in order, and its directory property; which of the switch's directories *)
(* exist, and hold headers, is part of the same record.  A property occurs *)
(* once in a package, for obzl_meta merges the settings of one property    *)
(* ("other" and "ignored" stand for several).  Siblings are visited in any *)
(* order.                                                                  *)
(*                                                                         *)
(* A directory below the repository is the sequence of its path segments   *)
(* without the final "lib", and a segment the sequence of the names that   *)
(* were printed into it one after the other.                               *)
(***************************************************************************)
EXTENDS Naturals, Sequences, SequencesExt

CONSTANTS
    Name,          (* names of packages and of directories                 *)
    Metas,         (* the META files to walk                               *)
    Ocaml,         (* names that start with "ocaml"                        *)
    CompilerLibs,  (* ... with "compiler-libs"                             *)
    Configurator,  (* ... with "configurator"                              *)
    Findlib,       (* ... with "findlib"                                   *)
    Distrib,       (* bigarray, dynlink, ocamldoc, str, threads, unix      *)
    Sdk,           (* the name obazl_pfx makes of "ocamlsdk"               *)
    GlobAborts     (* glob with GLOB_ERR fails on a missing directory      *)

Package   == Seq(Name) \ {<<>>}
Directory == [kind : {"none", "stdlib", "redirect", "relative"}, path : Seq(Name)]
Property  == {"archive", "plugin", "requires", "error", "other", "ignored"}

(* A directory of the switch, relative to its lib directory.               *)
SwitchDir == Seq(Name \cup {"ocaml", Sdk})

(* The prefix obazl_pfx has a dot at its end, which no name has.           *)
ErrorTarget == "<obazl_pfx><pkg_name>"

ASSUME Assumptions ==
    /\ \A m \in Metas :
          /\ m.paths \subseteq Package
          /\ <<m.root>> \in m.paths
          /\ m.entries \in [m.paths -> Seq(Property)]
          /\ m.directory \in [m.paths -> Directory]
          /\ m.headers \subseteq m.disk
          /\ \A p \in m.paths :
                /\ p[1] = m.root
                /\ \A k \in 1..Len(p) : SubSeq(p, 1, k) \in m.paths
                /\ \A i, j \in DOMAIN m.entries[p] :
                      m.entries[p][i] = m.entries[p][j]
                          => i = j \/ m.entries[p][i] \in {"other", "ignored"}
    /\ ErrorTarget \notin Name
    /\ GlobAborts \in BOOLEAN

VARIABLES
    meta,        (* the META file of the package                           *)
    pc,          (* "call", "loop", or how the walk ended                  *)
    arg,         (* the package the next call of emit_build_bazel is for   *)
    arg_dir,     (* its _filedeps_path, that of the package it is in       *)
    stack,       (* the active calls of emit_bazel_subpackages             *)
    newlevel,    (* the static variable of that name                       *)
    pkg_parent,  (* the shared string: <<>> is "", <<"./", a, b>> "./ab"   *)
    files        (* the directories written, with what is in them          *)

vars == <<meta, pc, arg, arg_dir, stack, newlevel, pkg_parent, files>>

Init ==
    /\ meta \in Metas
    /\ pc = "call" /\ arg = <<meta.root>> /\ arg_dir = <<meta.root>>
    /\ stack = <<>> /\ newlevel = 0 /\ pkg_parent = <<>>
    /\ files = <<>>

-----------------------------------------------------------------------------
(* Where a package's files are read from and written to.                   *)

Under(parent, directory) ==
    CASE directory.kind = "none"     -> parent
      [] directory.kind = "stdlib"   -> <<"ocaml">> \o directory.path
      [] directory.kind = "redirect" -> <<Sdk>> \o directory.path
      [] directory.kind = "relative" -> parent \o directory.path

new_filedeps_path == Under(arg_dir, meta.directory[arg])

Glued(parent) == IF Len(parent) <= 1 THEN <<>> ELSE <<Tail(parent)>>

(* Off by one: a sub-package of the root is taken for the root.            *)
bazel_pkg_label_level ==
    IF newlevel > 1 THEN Append(Glued(pkg_parent), <<Last(arg)>>) ELSE <<>>

bazel_pkg_label ==
    IF newlevel > 0 THEN Append(Glued(pkg_parent), <<Last(arg)>>) ELSE <<>>

(* The whole of _pkg_suffix in the place of pkg_parent.                    *)
StublibsDir_suffix ==
    IF Len(arg) > 1
    THEN [i \in 1..Len(arg) |-> <<arg[i]>>]
    ELSE <<>>

(* The directory emit_bazel_stublibs_attr lists, told by _pkg_suffix which *)
(* is NULL for the root.                                                   *)
StublibsDir ==
    IF Len(arg) > 1 THEN Append(Glued(pkg_parent), <<Last(arg)>>) ELSE <<>>

-----------------------------------------------------------------------------
(* The targets of a BUILD file.                                            *)

Has(prop) == \E i \in DOMAIN meta.entries[arg] : meta.entries[arg][i] = prop

(* The alias also for a package that is called lib.                        *)
archive_rule_alias(name) ==
    <<"lib">>
    \o (IF new_filedeps_path \in meta.headers THEN <<"hdrs">> ELSE <<>>)
    \o <<name>>

archive_rule(name) ==
    (IF name = "lib" THEN <<>> ELSE <<"lib">>)
    \o (IF new_filedeps_path \in meta.headers THEN <<"hdrs">> ELSE <<>>)
    \o <<name>>

plugin_rule(name) == <<"plugin">>

(* The tests for archive and plugin dropped.                               *)
deps_target_any(name) ==
    <<"lib", IF name \in Findlib THEN "findlib" ELSE name>>

deps_target(name) ==
    IF Has("archive") \/ Has("plugin") THEN <<>>
    ELSE <<"lib", IF name \in Findlib THEN "findlib" ELSE name>>

TargetsOf(prop) ==
    CASE prop = "archive"  -> archive_rule(Last(arg))
      [] prop = "plugin"   -> plugin_rule(Last(arg))
      [] prop = "requires" -> deps_target(Last(arg))
      [] prop = "ignored"  -> <<>>
      [] prop \in {"error", "other"} ->
            IF Has("error") THEN <<ErrorTarget>> ELSE <<>>

(* The loop over the entries breaks after an error target.                 *)
Breaks(i) == Has("error") /\ meta.entries[arg][i] \in {"error", "other"}

Entries ==
    LET entries == meta.entries[arg]
    IN  IF \E i \in DOMAIN entries : Breaks(i)
        THEN SubSeq(entries, 1, CHOOSE i \in DOMAIN entries :
                                  Breaks(i) /\ \A j \in 1..(i - 1) : ~Breaks(j))
        ELSE entries

(* Those of an entry; before the first one, those of a special case.       *)
TargetsAt(i) ==
    IF i > 0 THEN TargetsOf(Entries[i])
    ELSE IF Last(arg) = "cstubs" THEN <<"hdrs">> ELSE <<>>

(* A target is told by its place: <<i, k>> for the k-th one of entry i.    *)
Places == UNION {{i} \X DOMAIN TargetsAt(i) : i \in 0..Len(Entries)}

Targets == [p \in Places |-> TargetsAt(p[1])[p[2]]]

(* What is printed when the archive rule of entry i looks for headers: the *)
(* entries before it and its alias.                                        *)
TargetsBefore(i) ==
    LET alias == IF Last(arg) = "lib" THEN {} ELSE {<<i, 1>>}
    IN  [p \in {q \in Places : q[1] < i \/ q \in alias} |-> Targets[p]]

-----------------------------------------------------------------------------
(* One call of emit_build_bazel.                                           *)

Write(file) ==
    files' = [d \in DOMAIN files \cup {bazel_pkg_label} |->
                IF d = bazel_pkg_label THEN file ELSE files[d]]

BuildFile(targets) ==
    [pkg |-> arg, targets |-> targets,
     links |-> IF new_filedeps_path \in meta.disk THEN new_filedeps_path ELSE <<>>,
     ccdeps |-> StublibsDir]

(* An early return that ends the walk.                                     *)
Return_ends == pc' = "done"

(* Back in the caller: the loop of emit_bazel_subpackages, or the handler. *)
Return == pc' = IF stack = <<>> THEN "done" ELSE "loop"

Skipped == Last(arg) \in CompilerLibs

Special == arg[1] \in Ocaml /\ Last(arg) \in Distrib

(* emit_pkg_symlinks refuses a configurator that is not dune's.            *)
Mismatch ==
    /\ Last(arg) \in Configurator
    /\ new_filedeps_path \notin meta.disk
    /\ new_filedeps_path # <<"dune", "configurator">>

(* The glob for headers of emit_bazel_archive_rule.                        *)
GlobError ==
    /\ GlobAborts
    /\ new_filedeps_path \notin meta.disk
    /\ \E i \in DOMAIN Entries : Entries[i] = "archive"

CompilerLibsPkg ==
    /\ pc = "call" /\ Skipped
    /\ Return
    /\ UNCHANGED <<meta, arg, arg_dir, stack, newlevel, pkg_parent, files>>

(* emit_special_case_rule: one alias, and its sub-packages are left out.   *)
SpecialCase ==
    /\ pc = "call" /\ ~Skipped /\ Special
    /\ Write([BuildFile([p \in {<<0, 1>>} |-> Last(arg)]) EXCEPT !.links = <<>>])
    /\ Return
    /\ UNCHANGED <<meta, arg, arg_dir, stack, newlevel, pkg_parent>>

(* exit(0) with a BUILD file in which nothing has been written.            *)
ConfiguratorMismatch ==
    /\ pc = "call" /\ ~Skipped /\ ~Special /\ Mismatch
    /\ Write([BuildFile(<<>>) EXCEPT !.links = <<>>])
    /\ pc' = "exit0"
    /\ UNCHANGED <<meta, arg, arg_dir, stack, newlevel, pkg_parent>>

(* exit(1), which writes out what has been printed.                        *)
HeadersGlobError ==
    /\ pc = "call" /\ ~Skipped /\ ~Special /\ ~Mismatch /\ GlobError
    /\ \E i \in DOMAIN Entries :
          Entries[i] = "archive" /\ Write(BuildFile(TargetsBefore(i)))
    /\ pc' = "exit1"
    /\ UNCHANGED <<meta, arg, arg_dir, stack, newlevel, pkg_parent>>

Children(pkg) == {n \in Name : Append(pkg, n) \in meta.paths}

(* Sub-packages read relative to the directory that the package inherited. *)
Emit_filedeps ==
    /\ pc = "call" /\ ~Skipped /\ ~Special /\ ~Mismatch /\ ~GlobError
    /\ Write(BuildFile(Targets))
    /\ stack' = Append(stack, [pkg |-> arg, dir |-> arg_dir,
                               curr_parent |-> pkg_parent,
                               left |-> Children(arg)])
    /\ newlevel' = newlevel + 1
    /\ pkg_parent' = IF newlevel' > 1 THEN Append(pkg_parent, Last(arg))
                     ELSE Append(pkg_parent, "./")
    /\ pc' = "loop"
    /\ UNCHANGED <<meta, arg, arg_dir>>

(* The BUILD file is written and closed; emit_bazel_subpackages begins.    *)
Emit ==
    /\ pc = "call" /\ ~Skipped /\ ~Special /\ ~Mismatch /\ ~GlobError
    /\ Write(BuildFile(Targets))
    /\ stack' = Append(stack, [pkg |-> arg, dir |-> new_filedeps_path,
                               curr_parent |-> pkg_parent,
                               left |-> Children(arg)])
    /\ newlevel' = newlevel + 1
    /\ pkg_parent' = IF newlevel' > 1 THEN Append(pkg_parent, Last(arg))
                     ELSE Append(pkg_parent, "./")
    /\ pc' = "loop"
    /\ UNCHANGED <<meta, arg, arg_dir>>

-----------------------------------------------------------------------------
(* The loop of emit_bazel_subpackages.                                     *)

Top == stack[Len(stack)]

NextSubpackage ==
    /\ pc = "loop"
    /\ \E n \in Top.left :
          /\ stack' = [stack EXCEPT ![Len(stack)].left = @ \ {n}]
          /\ arg' = Append(Top.pkg, n)
          /\ arg_dir' = Top.dir
    /\ pc' = "call"
    /\ UNCHANGED <<meta, newlevel, pkg_parent, files>>

(* pkg_parent is not put back at the end of the loop.                      *)
SubpackagesEnd_keep ==
    /\ pc = "loop" /\ Top.left = {}
    /\ newlevel' = newlevel - 1
    /\ stack' = SubSeq(stack, 1, Len(stack) - 1)
    /\ pc' = IF Len(stack) = 1 THEN "done" ELSE "loop"
    /\ UNCHANGED <<meta, arg, arg_dir, pkg_parent, files>>

(* "restore", and return to the loop of the caller.                        *)
SubpackagesEnd ==
    /\ pc = "loop" /\ Top.left = {}
    /\ newlevel' = newlevel - 1
    /\ pkg_parent' = Top.curr_parent
    /\ stack' = SubSeq(stack, 1, Len(stack) - 1)
    /\ pc' = IF Len(stack) = 1 THEN "done" ELSE "loop"
    /\ UNCHANGED <<meta, arg, arg_dir, files>>

Next ==
    \/ CompilerLibsPkg \/ SpecialCase \/ ConfiguratorMismatch
    \/ HeadersGlobError \/ Emit
    \/ NextSubpackage \/ SubpackagesEnd

Spec == Init /\ [][Next]_vars

-----------------------------------------------------------------------------
(* Properties.                                                             *)

Parent == Seq(Name \cup {"./"})
Frame  == [pkg : Package, dir : SwitchDir, curr_parent : Parent,
           left : SUBSET Name]

TypeOK ==
    /\ meta \in Metas
    /\ pc \in {"call", "loop", "done", "exit0", "exit1"}
    /\ arg \in meta.paths
    /\ newlevel \in Nat
    /\ pkg_parent \in Parent
    /\ arg_dir \in SwitchDir
    /\ stack \in Seq(Frame)

(* The pkg_parent that the sub-packages of pkg are called with.            *)
ParentOf(pkg) == [i \in 1..Len(pkg) |-> IF i = 1 THEN "./" ELSE pkg[i]]

(* The counter and the string that the recursive calls share and put back  *)
(* by hand always agree with the calls that are active: however sub-trees  *)
(* nest, skip or return early, a package is at its depth in the tree and   *)
(* pkg_parent spells the packages around it, the root left out.            *)
SharedStateOK ==
    pc \in {"call", "loop"} =>
        /\ newlevel = Len(stack)
        /\ pc = "call" => newlevel = Len(arg) - 1
        /\ pkg_parent = ParentOf(IF stack = <<>> THEN <<>> ELSE Top.pkg)

(* Where the README says dependents find package pkg, as deps_attribute    *)
(* writes its label too: mtime.clock.os is @opam.mtime//clock/os/lib.      *)
LabelDir(pkg) == [i \in 1..(Len(pkg) - 1) |-> <<pkg[i + 1]>>]

(* What is written for a package or a sub-package of a sub-package is at   *)
(* all times in the directory its label names, the walk's position in the  *)
(* tree notwithstanding.  Deeper ones are not: pkg_parent has no slashes.  *)
WrittenInPlace ==
    \A d \in DOMAIN files :
        Len(files[d].pkg) <= 3 => d = LabelDir(files[d].pkg)

(* The packages the walk leaves out on purpose.                            *)
Omitted(pkg) ==
    \E k \in 1..Len(pkg) :
        \/ pkg[k] \in CompilerLibs
        \/ pkg[1] \in Ocaml /\ pkg[k] \in Distrib

Once(t, targets) ==
    \E p \in DOMAIN targets :
        targets[p] = t /\ \A q \in DOMAIN targets : targets[q] = t => q = p

(* README.adoc, "The mapping scheme is straightforward": a dependent of    *)
(* pkg finds a BUILD file where its label says, it is pkg's, and both lib  *)
(* and the package's name are targets in it, each declared once.           *)
Mapped(pkg) ==
    /\ LabelDir(pkg) \in DOMAIN files
    /\ LET file == files[LabelDir(pkg)]
       IN  /\ file.pkg = pkg
           /\ Once("lib", file.targets)
           /\ Once(pkg[Len(pkg)], file.targets)

HasArchive(pkg) ==
    /\ \E i \in DOMAIN meta.entries[pkg] : meta.entries[pkg][i] = "archive"
    /\ \A i \in DOMAIN meta.entries[pkg] : meta.entries[pkg][i] # "error"

(* When the walk is done, every package with an archive is mapped, up to   *)
(* sub-packages of sub-packages and but for the names the tool itself      *)
(* uses for targets.                                                       *)
MappingScheme ==
    pc = "done" =>
        \A pkg \in meta.paths :
            HasArchive(pkg) /\ ~Omitted(pkg) /\ Len(pkg) <= 3
                            /\ pkg[Len(pkg)] \notin {"plugin", "hdrs"}
                => Mapped(pkg)

(* The same without a limit on the depth, as the README states it.         *)
MappingSchemeAnyDepth ==
    pc = "done" =>
        \A pkg \in meta.paths :
            HasArchive(pkg) /\ ~Omitted(pkg)
                            /\ pkg[Len(pkg)] \notin {"plugin", "hdrs"}
                => Mapped(pkg)

(* No BUILD file declares a target twice, which Bazel refuses for the      *)
(* whole file; packages named as one of the tool's own targets excepted.   *)
TargetsDistinct ==
    \A d \in DOMAIN files :
        LET file == files[d]
        IN  \/ file.pkg[Len(file.pkg)] \in {"plugin", "hdrs", "cstubs"}
            \/ file.pkg[Len(file.pkg)] = "lib" /\ ~HasArchive(file.pkg)
            \/ \A p, q \in DOMAIN file.targets :
                  file.targets[p] = file.targets[q] => p = q

(* The stub libraries that an archive lists in cc_deps are those for which *)
(* the same BUILD file declares a cc_import: the two are read from the     *)
(* directory of the BUILD file, found by two different computations.       *)
StubsDeclared == \A d \in DOMAIN files : files[d].ccdeps = d

(* The package directory META's rules give: that of the package it is in,  *)
(* changed by a directory property; "+" is relative to the stdlib.         *)
PackageDir(pkg) ==
    LET dir[k \in 1..Len(pkg)] ==
            Under(IF k = 1 THEN <<meta.root>> ELSE dir[k - 1],
                  meta.directory[SubSeq(pkg, 1, k)])
    IN  dir[Len(pkg)]

(* The files linked next to a BUILD file are those of the package's own    *)
(* directory, which a sub-package without a directory property inherits.   *)
LinksFromPackageDir ==
    \A d \in DOMAIN files :
        files[d].links \in {<<>>, PackageDir(files[d].pkg)}
=============================================================================
