# A TLA+ model of tools_opam

`tools_opam` makes opam packages available to Bazel. A module extension, in
Starlark, finds or builds an opam switch, installs what is missing in it and
declares a Bazel repository for each package; each repository is filled by a C
program, the *config tool*, that translates findlib `META` files into `BUILD`
files. This directory models that code in TLA+, checks the models with TLC and
proves theorems about all of them with TLAPS. The reference is the source:
paths below are relative to the repository, and `PROJECT.json` ("map") names the
lines behind every definition.

## The system

| part | sources | state it keeps | operations |
|---|---|---|---|
| module extension | `extensions/opam.bzl` | tags read so far, the lists of packages, toolchain and version in force, repositories, metadata | read tags, build the config tool, check and prune the lists, configure a toolchain, declare repositories, return metadata |
| xdg toolchain | `extensions/opam/opam_toolchain_xdg.bzl`, `opam_ops.bzl` | on disk, shared by all projects of a user: the opam binary, the root, a switch for each OCaml version, the packages | download, init, create switch, install, list, each after a check that it is needed |
| local, global, opam toolchains | `extensions/opam/opam_toolchain_{local,global,opam}.bzl` | a switch each | check the version, create (local), install (local, and global on demand), list |
| repository rules | `extensions/opam/opam_dep.bzl`, `opam_repo.bzl`, `extensions/{utop,dbg,ocaml}/*.bzl` | one repository's directory | ask opam for the prefix, run the config tool; write the runners' targets |
| config tool | `extensions/config/*.c`, `lib/*.c` | static variables, the repository's directory | parse META, walk over sub-packages, write BUILD files, link files, read `dune-package`, write the SDK's repository |
| command runner | `lib/spawn_cmd.c`, `_opam_root` in `extensions/config/ext_emit_build_bazel.c` | descriptors, a child process, a line buffer | spawn with two pipes, wait, read both |
| runners, templates, aspects, build rules, scripts, coswitch | see `PROJECT.json` | none, or obsolete | |

The extension calls one toolchain function; those run `opam`, `file` and `ls`
through `mctx.execute`, which kills a command after 600 seconds. Repositories
are evaluated later, one config tool process each, and share only the switch.

What is hard here, and where the properties come from ("hazards" in
`PROJECT.json` gives the lines):

- the XDG directory is shared by projects, each with a Bazel server of its own,
  and everything in it is made after a check that it does not exist; a check
  cannot tell a half-made thing from a finished one;
- commands fail, are killed or run out of time in the middle, and the evaluation
  is repeated against what they left;
- lists of packages come from several modules and several tags, are pruned and
  turned into metadata that Bazel compares with what was declared;
- `spawn_cmd` waits before it reads;
- the config tool recurses with static variables, and ends with status 0 on
  several errors;
- the compiler's repository is put together by nineteen functions, each of which
  looks for itself where this version of OCaml keeps a library, while opam may
  change the switch.

What makes each part correct: an evaluation that returns has what it asked for;
nothing that is set up is ever updated; a retry converges; a switch that must not
be touched is not; Bazel accepts the metadata; a command whose output is
reasonable comes back, and leaves no descriptor or process behind; the label of
a dependency is the directory its BUILD file is in; the compiler's repository has
its whole toolchain, whichever compiler it is made from.

## Modules

| module | models | with |
|---|---|---|
| `XdgToolchain` | `config_xdg_toolchain`, run by several evaluations at once | `MCXdgToolchain`, `XdgToolchainProofs` |
| `OpamExt` | `_opam_ext_impl` and the toolchain functions, evaluation after evaluation | `MCOpamExt`, `OpamExtProofs` |
| `Provisioning` | what a toolchain function promises of the switches: abstract, implemented by the two above | checked in their runs |
| `SpawnCmd` | `spawn_cmd`, `_opam_root` and the command they run | `MCSpawnCmd`, `SpawnCmdProofs` |
| `EmitBuildBazel` | `emit_build_bazel`, its walk over the sub-packages of a META file | `MCEmitBuildBazel`, `EmitBuildBazelProofs` |
| `EmitDeps` | `emit_module_file` and the attributes of the targets: archives, dependencies, runtime dependencies | `MCEmitDeps`, `EmitDepsProofs` |
| `PkgBindir` | `emit_pkg_bindir` and the reader of `dune-package` | `MCPkgBindir` (`bindir_all`), and within `MCConfigTool`; proofs in `ConfigToolProofs` |
| `OcamlSdk` | `ext_emit_ocamlsdk_module` and the functions of `lib/emit_ocamlsdk.c` it calls, which write the compiler's repository | `MCOcamlSdk`, `OcamlSdkProofs` |
| `ConfigTool` | `_opam_dep_repo_impl` and the config tool's handler; composes `EmitBuildBazel`, `PkgBindir` and `OcamlSdk` | `MCConfigTool`, `ConfigToolProofs` |
| `Dependents` | a package's labels and the repositories they lead to; composes `EmitDeps`, `EmitBuildBazel` and `OcamlSdk` | `MCDependents`, `DependentsProofs` |

### XdgToolchain

`Run` is a set of evaluations of the extension in different projects that share
`$XDG_DATA_HOME/obazl/opam/<opam version>`. The disk has an opam binary, a root, a
switch for each version, and in each switch packages; each is `absent`, `partial`
(being made, or left by something killed) or `ok`, and `file_exists` sees only
whether it is absent. `pc[r]` is the place in the function; every command that
takes time is two actions, its begin and its end, with the other evaluations, the
crash, the timeout and the failure in between. opam's own lock on its root is
external: it is what the code counts on, and is modelled as opam does it.
`OpamVarStrict` says whether `opam var` refuses an unknown switch or answers;
the run has both. Where it refuses, the evaluation that creates a
switch always fails afterwards, for `_create_switch` returns no version
(opam_toolchain_xdg.bzl:154); the retry finds the switch. `Verbose` is a
verbosity above 0, with which `CheckBin` is followed by `AskVersion`, the
`opam --version` that only a message needs and that may fail like any command.

### OpamExt

One evaluation is a sequence of actions in the order of the code: `SpecialTags`,
`DepsTag` for each `opam.deps` tag, `BuildConfigTool`, `CheckDirect`, `Prune` for
each package of the SDK (`list_remove` takes one occurrence out, as Starlark's
does; `sdk` is what the loop has left), one of the `config_*_toolchain` actions (or
`unrecognized_toolchain`, for `OBAZL_USE_LOCAL_TC` may be anything), `CheckPkg` and
`opam_install_pkg` for each package, `ListDeps`, `Register`, `Metadata`. A `Project` is what a user writes:
tags of the root and of other modules, dev or not, and the environment variables
the code reads; whether a utop tag has a version is part of it, for one without
gets no repository of its own (`UtopTold`). `Had` is what a switch the user has made
may contain before the first evaluation. The switches survive: `Start` evaluates again, with the same
project or an edited one, after a success, a failure in any command, or a switch
creation that was killed. Packages are names; opam installs a package with what
it requires; `NoDir` are the packages that have no directory of their name (a
`conf-` package), `OBAZL_PKGS` those of the SDK. Bazel's part, `Accepted`, is
external: `extension_metadata` refuses duplicates, a repository that is in both
lists or was not declared, and direct dependencies of a root module that has no
non-dev use of the extension.

The xdg toolchain appears here in one action per check, create and install;
`XdgToolchain` has the steps and the concurrency.

### Provisioning

The abstract specification of both: for each switch its version, once it is
complete, and its packages. `Create` gives a switch without a version one, with
whatever is installed right away; `Install` adds packages to a complete switch.
Nothing else happens: no version changes, no package goes, nothing is installed
in a switch that is not complete. `XdgToolchain` implements it with `version` the
version of a switch that is `ok`, and `have` its packages that are: what is half
made is not seen, so that the begin of a command, its failure and its end by a
kill are stuttering steps, provided that none of them touches what was complete.
`OpamExt` implements it with the fields of `switches`.

### SpawnCmd

The process and the command, which writes its lines to two pipes whenever it
likes, in any order, blocks when a pipe is full, and may be signalled. A line
stands for what one `fgets` reads. `fds` are the pipe ends the process has
open, tagged with the call that made them; `buf` is the one buffer that both
streams are read into.

### EmitBuildBazel

A META file is a set of packages, each the sequence of names that leads to it,
with the properties of each in order, its directory property, and which
directories the switch has. `arg` is the package of the next call, `stack` the
active calls of `emit_bazel_subpackages` (the local `curr_parent` and what its
loop has left), `newlevel` and `pkg_parent` are the variables of the code, `files`
what has been written: for each directory the package it was written for, its
targets in order, the directory its files are linked from, and the directory in
which stub libraries were looked for. One action for each way a call ends:
skipped (`compiler-libs`), a special case, `exit(0)` at a configurator that is
not dune's, `exit(1)` at the glob of a missing directory, or a BUILD file.
A directory is a sequence of path segments and a segment the sequence of names
printed into it, so that names that run together are seen.

The targets of a file are told by their place: the entry of META that a target is
printed for and its number there (`Targets`), so that no concatenation has to be
computed, or reasoned about. An `exit(1)` leaves in the file what has been printed
by then (`TargetsBefore`).

Two simplifications. The attributes of a target are in `EmitDeps`, except for the
directory `cc_deps` is read from; left out are the `cc_import` targets, whose names
are those of files. And since a segment is a sequence of names, two packages four
levels deep whose names run together to one string (`m.a.b.c` and `m.ab.c` with an
`ab` of its own) have directories of their own here, and one in the code; this is
part of the misplacement that `build_depth` shows.

### EmitDeps

`module` is what `MODULE.bazel` declares, written by `emit_module_file` before
the rest; `archives` and `build` are what the rules print, in the order of the
code: `StartRule`, `PrintArchives`, the loop over the settings of `requires`
(`PrintSetting`, or `SkipSetting` for a flagged one, up to `settings_ct`), and for
an archive the loop over those of `ppx_runtime_deps`. A label is a repository and
a path. The SDK has two names, as in the code: labels call it by the prefix and
`ocamlsdk`, `MODULE.bazel` by `ocamlsdk`; a `bazel_dep` on the second is taken for a
declaration of the first. External are libobazl's settings (which flags count,
what `+=` adds) and findlibc's lists of repositories, taken to be the first names
of everything in the two properties, as the comment on line 1766 says, and NULL if
there is none. Left out: the keys of a select over settings, whose labels the
code itself marks FIXME. In the config tool, nothing reads the values of a META
file after `emit_bazel_ppx_codeps` has changed their dots in place; in the
coswitch, which is not modelled, `emit_module_file` does.

### PkgBindir

`dune` is the file in the switch, which `OpamChanges` removes or rewrites at any
time; `inbuf` is what was read of it, `left` the values still to be linked, and
`out` the two directories, each with the names its BUILD file exports and the
links. `Access`, `Open`, one round of the loop (`Link`) and the end of the file
are steps of their own, each with its failure. A file in the middle of an
installation has no complete `files` expression and reads as one with nothing
in it. `seen` is a history variable: what the file has been.
`dune_package_files_fld` is what the code computes, which is the first two
values; the parser of S-expressions is external.

### OcamlSdk

An `Installation` is a compiler with a switch: the directories there are, of the
few the tool looks at, with their files, which entries are links to nothing,
whether `OBAZL_SDKLIB` is set and which bin directory is next to it. Each
function of `lib/emit_ocamlsdk.c` is an operator of its name: the sequence of
operations it comes to on the directories there are when it is called, `Build`
and `Copy` for a BUILD file that is printed or copied from a template, `Links`
for the entries of a directory with one of some prefixes, `Must` for a file
linked without a look whether it is there, `Try` for one that is looked for.
`Call` takes the next function, and an action each carries out an operation or
fails in it. `build` is the packages that have their BUILD file, `links` the
symbolic links with the directory they lead to. `OpamChanges` gives the same
compiler another switch between any two operations; `SameCompiler` is the
assumption that this leaves the compiler's own directories alone, and
`LibrariesPlaced` that its archives are where the comments of `emit_ocamlsdk.c`
say: before OCaml 5 in `lib/ocaml`, but for threads, with META files of ocamlfind
in `lib/<l>`; since then each in `lib/ocaml/<l>`, but for the stdlib's.

Three ways to end are worth knowing. `buf[len]` is written behind its array
(ext_emit_build_bazel.c:400) whenever `OBAZL_SDKLIB` is set: `SdkBin` goes on or
is killed. `copyfile` reads into a `char` (utils.c:102), and where that is
unsigned the loop has no end: `CopyBuild` then leaves the operation as it is.
`opendir`'s result is not looked at for the bin directories: `ReaddirNull`.

`MODULE.bazel` is an action (`Module`) without contents. Files of a type the
directory does not tell (`DT_UNKNOWN`) are passed over by the code; the model has
file systems that tell it.

### ConfigTool

`rule` is where the repository rule is, `tool` where the config tool is or how it
ended, `META`, `stublibs` and `dune` the switch, which opam may change under the
tool, `module_file`, `files`, `out` and `stubs` the repository. `WalkStep` is a
step of `EmitBuildBazel`, an instance here with its program counter renamed,
`BindirStep` one of `PkgBindir`, which the module extends. `error` tells whether the
tool has printed or logged an error. The rule sees only the exit status. `Killed`
is Bazel's time limit, or an interrupt. `SdkStep` is a step of `OcamlSdk`,
another instance. Each change of the switch is one of what the tool reads for the
package at hand (`DunePackageChanges`, `SwitchChanges`, `InstallationChanges`).

### Dependents

The repositories of a package and of what it depends on are written by processes
that share no state; what they must agree on is labels. `WriteLabels` is a step of
`EmitDeps` for the dependent; `Load` is Bazel, which looks up the labels of one
repository and, if the extension has declared it (`Declared`, from `ls` of the
switch's lib and `OBAZL_PKGS`), has it made first: `FetchPackage` is a step of
`EmitBuildBazel`, `FetchSdk` one of `OcamlSdk`. `loaded` is the labels that have been
looked up. `Resolves` is Bazel's view of a label: a BUILD file in that directory,
written for that dependency, with that target once. The switch has one opam
package besides the dependent. A tool that ends in an error ends the build. Two
assumptions are the composition's own: the opam package is none of the libraries
that are part of the SDK, for which no repository is declared, and no library
but compiler-libs has a name that starts like it.

## Runs

| run | shows |
|---|---|
| `xdg_safety` | two evaluations, one version, two packages, one kill and one failed command anywhere: nothing half-made is without its builder unless something was killed; an evaluation that returned, with nothing killed and nothing failed, has its packages; what is set up is never written again; with retries and fairness, an evaluation that is repeated succeeds, or a half-built binary, root or switch is in its way for ever; all of it implements `Provisioning` |
| `ext_safety` | two evaluations in a row of every pair of projects of `MCOpamExt`: see the properties below |
| `ext_refused` | counterexample to what opam.bzl:325-336 provides for: a project whose dev package is stublibs has made no mistake, and Bazel refuses its metadata |
| `spawn_safety` | two calls, pipes of two lines, commands of up to three lines a stream, room for five descriptors |
| `build_safety` | 315 META files, walked with siblings in every order: see below |
| `build_depth` | counterexample to the mapping scheme of README.adoc:89-112: a sub-package three levels down is written to a directory in which two names have run together |
| `deps_safety` | 9469 META files with all short lists of settings, archives and special names: see below |
| `bindir_all` | counterexample to "write bin/BUILD.bazel with a rule for each" (emit_pkg_bindir.c:50): the third executable is lost |
| `sdk_safety` | OCaml 4 and 5, of the switch and of the system, complete and with parts missing, steps that fail and two changes by opam: see below |
| `config_safety` | the rule with the tool killed at any step, anything failing, and the switch, dune-package included, changed once meanwhile: see below |
| `config_errors` | counterexample to the tool's own error messages: it prints one, writes nothing, and Bazel takes the repository |
| `dependents_safety` | every pair of a dependency and a runtime dependency the code treats apart, four shapes of the package they name, four installations of the compiler, changed meanwhile: see below |

The properties of `ext_safety`:

- `RegistersInstalled`: when repositories are declared, every package any module
  asked for is in the switch, however many earlier evaluations failed;
- `GuardedUntouched`: a global switch without `OBAZL_FORCE_INSTALL`, and the
  switch of an `opam install`, are never changed;
- `NoUpdateWhenConfigured`: with a switch that has everything, no step updates it
  (README.adoc:201);
- `VersionOfSwitch`: the version the repositories are told is the switch's,
  but for the two cases the code makes: the one asked for, with a warning, and
  none, after the xdg switch was created;
- `AcceptedUnlessMistaken`: Bazel refuses the metadata of exactly the projects
  with a mistake of the user's (`Mistaken`: only dev uses, a package in two tags
  of the root module, a package without a directory of its name) and of those
  the code misreads (`Misread`). The second list is of defects, not of mistakes:
  stublibs as a dev dependency is handed to Bazel by its flag and by the loop
  over `dev_deps` (opam.bzl:525, 533); of an SDK package that two tags of a kind
  name, `list.remove` takes one occurrence out (342) and `opam install` is asked for
  the other; a package of another module counts as one of the root module's.
  That they are all there are is what the property says; that the first two
  contradict the code's own comments (325-336, 494) is `RefusedOnlyMistaken`, which
  `ext_refused` violates;
- `Provisions`: the evaluations implement `Provisioning`.

The type invariants, which are proved for every value of the constants, are not
among the runs' properties.

Of `spawn_safety`: `BlockedOnlyWhenTooLong` and `ReturnsOnlyWhatFits` say exactly
when the wait-before-read deadlocks; `LeavesNothing` that calls do not accumulate
descriptors or processes unless `fdopen` failed; `ResultOverwritten` which line
is handed out; `FittingReturns` that a command whose output fits comes back.

Of `build_safety`: `SharedStateOK`, that the static counter and the shared string
agree with the active calls; `WrittenInPlace`, that what has been written for a
package of up to three names is where the labels of its dependents look, and
`MappingScheme`, that at the end every such package with an archive is there,
with `lib` and its own name each a target once; `TargetsDistinct`, that no
target is declared twice; `StubsDeclared`, that `cc_deps` and the `cc_import`
targets come from one directory; `LinksFromPackageDir`, that files come from
the directory META's rules give. What `TargetsDistinct` leaves out is worth
knowing: a sub-package called `plugin` or `hdrs`, `cstubs` with headers, and one
called `lib` that has only `requires`, declare a target twice.

Of `deps_safety`: `LabelsDeclared`, that the repositories of all labels are
declared, but for what `Untold` lists; `NothingLost`, that the loops print every
setting if the flagged ones come last; `LabelsDistinct`, that no two libraries
meet in a label; `ArchivesParse`, that an archive property with more than one
setting is printed as something Bazel can read exactly when it has the usual form
(it says nothing of one with a single setting, which is printed wrongly
whatever its form). (That the
two attributes name a dependency alike, the SDK's libraries excepted, is
`SameLabel`, which is proved.) The
exceptions are the findings here: `stringext` is taken for a built-in because
`str` is one (line 1777), and gets labels but no `bazel_dep`; a META file without
`requires` declares no runtime dependency; `threads` and `threads.posix` in one
list are one label twice, which Bazel refuses, and so are `compiler-libs` and
`compiler-libs.common`; an archive with a single setting is printed with `5)` in
front of it (line 444); and a flagged setting that comes before another takes
the last setting's place in the loop.

Of `config_safety`, as of `emit_pkg_bindir` within it: `LinkedAsExported`, that each
BUILD file exports what is linked beside it; `OneVersion`, that a finished run has
completed both directories from one version that was there at some moment of
the run. Of the whole:
`WholeRepository`, that a repository accepted without an error reported has its
MODULE file and all its archives where dependents look; `OneVersionLinked`, that
its links are complete and of one version; `ToolchainAccepted`, that the
compiler's repository has its toolchain once Bazel takes it; `RuleEnds`.

Of `sdk_safety`: `LinksExist`, that links lead somewhere, and for the compiler's
files stay so; `Executables`, that bin has every executable of the switch, and
the compiler's where the switch has none; `ArchivesLinked`, that a library's
archive is next to its BUILD file, wherever META file and library are;
`DependentsResolve`, that a library with a META file has a package;
`ToolchainResolves`, that the packages of the toolchain are there with all those
their labels name, and the runtimes; `LinksKept`, that the first link of a name
stays; `Ends`, that the tool ends where `char` is signed.

What these leave out is worth knowing. `native-toplevel` of `compiler-libs`
requires `@opam.ocamlsdk//lib/dynlink` (compiler_libs.BUILD:141), and `bigarray`
`@opam.ocamlsdk//lib/unix` (bigarray.BUILD:36, 46): packages of a former layout that
no function writes; the packages are `dynlink/lib` and `unix/lib`. `bigarray` is
no part of the toolchain; of the toolchain's labels `ToolchainResolves` excepts that one
(`Dangling`) and requires all others. README.adoc:393 shows
`@opam.ocamlsdk//lib/unix:unix`, of the former layout. With a
compiler of the system before OCaml 5, `OBAZL_SDKLIB` is a directory in which
ocamlfind has put no META files: stdlib, dynlink, str and unix get no
package, and `threads`, which finds its own directory, requires `//unix/lib` all the
same (threads.BUILD:35); `DependentsResolve` is about libraries with a META file.
`ocamldoc` before OCaml 5 is linked from the directory of its META file
(emit_ocamlsdk.c:2342), and `profiling` has no archive: `ArchivesLinked` excepts both.

Of `dependents_safety`: `LabelsResolve`, that the label of a dependency that is in
the switch leads to a declared repository and there to a target of its own: the
agreement of `deps_label` and `codeps_label` with the walk's directories and
targets, with the SDK's packages and with what the extension declares. The
exceptions (`Unknown`) are worth knowing: `emit_bazel_deps_attribute` has no case
for `runtime_events` and `stdlib`, and `emit_bazel_ppx_codeps` knows no library of the
compiler but `compiler-libs` and `threads`, and those only without a sub-package:
`str`, `unix` or `threads.posix` as a runtime dependency get a label in a repository
that does not exist. A package that has a plugin and `requires` but no archive has
no target `lib`, and is not among the dependencies of the property (`Linkable`);
one named `lib` that has only `requires` has it twice, and is not either.

Some smaller disagreements with the code's comments have no run of
their own. A local switch of another version than the one asked for is used, with
a warning (opam_toolchain_local.bzl:99-105), and the repositories are told the
version asked for; the evaluation that creates an xdg switch tells them none
(opam_toolchain_xdg.bzl:154): `VersionOfSwitch` has both as its exceptions. `copyfile`
never ends where `char` is unsigned, as on the ARM machines that
opam_checksums.bzl:59 lists: the exception of `Ends`. The repository `opam`, "always implicitly configured" (opam.bzl:607), is
declared only for a root module with an `opam` tag in a dev use (line 421).
A package with an archive that is not installed, which
`emit_pkg_symlinks` passes over ("this can happen", emit_build_bazel.c:1927), ends
the tool in the glob for headers (line 703), for glibc answers `GLOB_ABORTED`:
action `HeadersGlobError`.

Bounds, and why they are enough. *Two evaluations*: what an evaluation reads of
the others is the disk and opam's lock, so a third adds no new kind of state;
`NoOrphans` and `NoUpdateWhenProvisioned` are proved for any number anyway. *One
version*: switches of different versions share nothing but binary, root and lock.
*Two packages*: an install can fail between them. *One kill, one fault*: each
leaves at most one thing half-made, and `NoOrphans` and `RetryConverges` are
about the first. *Two contents a switch had* (`MCHad`): nothing, and what two of the projects ask for. *Two evaluations in a row* (`MaxEvals`): the second finds every
switch the first can leave, and an evaluation depends on nothing else of the
first. *Two lines in a pipe, three a stream*: a stream that fits, one that fits
exactly, one that does not. *META files*: every assignment of three property lists to a tree of four
packages; one tree of depth four; the names the code singles out, as
sub-packages of roots that start with `ocaml` and that do not; every pair of
directory properties on a package and its sub-package, over directories that
exist or not. *META files of `deps_safety`*: up to three
settings, so that a flagged one can stand before, between and after others; two
dependencies a list, for the properties compare two labels. *Four
dune-packages and one change in `config_safety`*: both sections, either, or none; what a
change can spoil is a file that was looked at and is read afterwards, or one
read and used, and two or more changes are proved. *Ten installations in `sdk_safety`*: each place a library or its META file can be in, each kind of missing part;
two changes take a directory away and bring it back. In `config_safety` one compiler, with and
without its switch: `OcamlSdk` is checked on its own, and composed for what the
rule makes of its ends. *Three META files in `config_safety`*: one for each way the
walk ends. *One dependency of each
kind in `dependents_safety`*: labels are computed one by one, and the pair is for
two repositories made one after the other. *Five descriptors, two calls*: the second call runs
out of them after a first that leaked. `CHECK_DEADLOCK FALSE` is set where the
system may stop: all evaluations are done or used up, the process has exited or
hangs.

Fairness. `XdgToolchain`: weak fairness of each evaluation's own steps (a process
that is not waiting for a lock runs, and opam's commands end) and of restarting
one that has failed (the user builds again); none for kills and faults.
`SpawnCmd`: weak fairness of the process; strong fairness of the command, which
a debugger may stop and continue again and again, so that weak fairness would
not let it run. `OcamlSdk` and `ConfigTool`: weak
fairness of the tool, a process that waits for nothing, and of the rule, which
Bazel evaluates; none for kills and for what opam does. `OpamExt`,
`EmitBuildBazel`, `EmitDeps`, `PkgBindir` and `Dependents` state no liveness.

## Proofs

`XdgToolchainProofs` proves, for any sets of evaluations, versions and packages
and any bounds:

- `TypeCorrect`, `NoOrphansCorrect`: `TypeOK` and `NoOrphans` are invariants;
- `OneBuilderCorrect`: no two opam commands change the root at a time, and none
  works on a root or in a switch that is not complete;
- `NoUpdateCorrect`: the action property `NoUpdateWhenProvisioned`;
- `DoneHasPackagesCorrect`: `DoneHasPackages` is an invariant;
- `ProvisionsCorrect`: the racing evaluations implement `Provisioning`.

`NoOrphans` is not inductive: that a `partial` artefact has a builder must survive
the builder's last step, which needs that there is only one builder, that the lock
is held by whoever is in a locked section, and that what a builder relies on is
`ok`. The inductive invariant `IInv` adds these as `Sane` and `OneBuilder`;
each is preserved by a lemma of its own (`TypePreserved`, `SanePreserved`,
`BuilderPreserved`, `OrphansPreserved`), with a step for each action.
`NoUpdateCorrect` goes by `ProvisionedStep`: once an evaluation is `Served` no
action of it that writes is enabled, and the others keep it served (`MoveOn`).
`DoneHasPackagesCorrect` adds `Looked`, which says of each evaluation what it has
behind it: its list is the whole one up to the loop, and what the loop has dropped
from it is in the switch that is listed at the end (where `ocaml_version` names a
switch at all, it names that one). `LookedSelf` is the step of the evaluation
itself; the others keep its `Looked` (`LookedOther`) because no step that is not a
failure takes a package away (`LibKept`). That what is found half built has its
installer at work is `NoOrphans`.
`ProvisionsCorrect` maps the end of a create and of an install to the abstract
steps (`CreateEndProvisions`, `InstallEndProvisions`) and all others to stuttering
(`Unseen`); that a failed command takes back only what was `partial` is
`OneBuilder` again.

`OpamExtProofs` proves, for any sets of versions, packages and projects and any
number of evaluations, `TypeCorrect`, `RegistersInstalledCorrect`,
`VersionOfSwitchCorrect`, `GuardedUntouchedCorrect`,
`NoUpdateWhenConfiguredCorrect`, `ProvisionsCorrect` and
`AcceptedUnlessMistakenCorrect`. The inductive invariant
has three parts beside the types. `Guard`: a package is being installed only
where `MayInstall` allows it, and never with the opam toolchain. `Pending`: what is
wanted and not installed is still in `todo`; this is `RegistersInstalled` made
inductive. `Versions`: up to the toolchain function the version is an asked one
or the default, an xdg switch has the version of its name or none, and from then
on the repositories are told what `VersionOfSwitch` says. `ProvisionsCorrect` needs
`Ready` in addition: a switch without a directory has no version, and the one
whose packages are being checked has one. That `list_remove` returns a sequence
of packages is about the first index at which something is found; its existence
is `LeastNat`, from the well-foundedness of the naturals.

`AcceptedUnlessMistakenCorrect` relates the lists at the end to the tags they
started from. A list says three things of a package: not at all, once, or more
often (`In`, `Twice`), and so do the tags (`Counted`); concatenation keeps that
(`CountedConcat`), and one round of the pruning takes each of the three to the one
before (`Removed`). `Collected` is the invariant over the stages: `Gathered` while
tags are looked at, `Pruned` from then on, of an SDK package what is left is what
two tags name; `StubsTold` the same for the stublibs flags. `Declared` says what
the repositories are. At the end Bazel's four rules come to `Clean`
(`AcceptedClean`), and `Clean` to the absence of each mistake and of each misreading (`CleanMistaken`).

`SpawnCmdProofs` proves, for every capacity and every bound, `TypeCorrect`,
`BlockedCorrect`, `FitsCorrect`, `LeavesNothingCorrect` and `ResultCorrect`. The
invariant that carries them counts lines: what is in a pipe and what is still to be
written add up to the stream's output, except for what the process has read, and it
reads only after the command has exited. `ResultCorrect` adds `ReadSoFar`: from
stage to stage, what has left the pipes says which line is in the buffer.

`EmitBuildBazelProofs` proves, for every set of META trees of every depth,
`TypeCorrect`, `SharedStateCorrect`, `WrittenInPlaceCorrect`,
`StubsDeclaredCorrect`, `TargetsDistinctCorrect`, `MappingSchemeCorrect` and
`LinksFromPackageDirCorrect`. `SharedStateOK` only speaks of the innermost call; the
inductive `Walk` says of every active call that its package is as deep as the
call, and that the string it saved is the one its caller's sub-packages are
called with. `EmitInv` goes down (`ParentOfAppend` is the lemma about the
string), `SubpackagesEndInv` up again, `ReturnInv` covers the early returns.
From it `LabelOfArg` computes the directory of the next call, and `WriteInv`
carries that over to the files.

`MappingScheme` speaks of the end of the walk. `Mapping` is inductive: every package
is still to come, below the next call or below a sub-package that an active call
has left (`Pending`), or its file is in place; nothing is written over it because
two packages of one root never share a label (`LabelDirInjective`, `LabelOwner`).
`EmitLosesNothing`, `NextLosesNothing` and `EndLosesNothing` are its steps, and
`OnceInArchive` says that a file has its targets. `TargetsDistinctCorrect` goes by
cases over which entries print a name (`RuleNames`, `RuleOnce`) and that no
property occurs twice among the entries (`PropertiesOnce`). `LinksFromPackageDir`
compares with a recursive function, which the prover knows nothing about;
`DirsExist` and `DirsAgree` show, each by a least counterexample, that the
equation has one solution, and `PackageDirStep` that it goes from a package to its
sub-packages. With that `LinksInv` follows the directory that each active call
hands down.

`EmitDepsProofs` proves, for all META files and all names, `TypeCorrect`,
`LabelsDeclaredCorrect`, `LabelsDistinctCorrect`, `SameLabelCorrect`,
`NothingLostCorrect` and `ArchivesParseCorrect`. The
inductive part, `Emitted`, says that every label printed is that of a value of some
setting and that `MODULE.bazel` is settled before the first; what remains are
facts about the label operators, proved as lemmas (`HeadAndTail`, `SpecialLabels`,
`deps_labelDistinct`, `codeps_labelDistinct`). `NothingLostCorrect` orders the
steps of the loops: what they have passed is printed (`Progress`), and they pass
every setting before the first flagged one, since as many are counted
(`LeadingCounted`). `ArchivesParseCorrect` rests on lemmas about the two functions
that print archives, for settings of any number (`ArchiveParses`, `PluginParses`).

`ConfigToolProofs` proves of `emit_pkg_bindir` alone `BindirTypeCorrect`,
`LinkedAsExportedCorrect` and `OneVersionCorrect`, for sections of any length and
any number of changes. The invariant, `Progress`, follows a directory through `Untouched`, `InProgress` (what
is exported and what is left make up the field, `LinkMoves`) and `Complete`, with
the other one untouched or complete (`SectionEnds`).

`OcamlSdkProofs` proves, for every set of compilers and switches and any number
of changes, `TypeCorrect`, `LinksExistCorrect`, `LinksKeptCorrect`,
`ToolchainCorrect`, `DependentsCorrect`, `ExecutablesCorrect` and
`ArchivesLinkedCorrect`. That the end of a run has something says nothing about the states before; the invariant follows what is owed. `Due`
says of an operation that its function is not called yet, or that it is among
those left, or that it is done; `DueKept` is the step of every such
invariant, given that the function comes to the operation when it is called,
whatever the switch is then (`LibraryEmitted`, say); `LinksDue` and `LinksDueKept`
are the same for the files an operation links. `ExecutablesCorrect` needs
`SwitchFirst` in addition: the executables of the switch are the first links that
are made, so that none of them finds its name taken. `Finished` says that
a tool that ended well has nothing left. `ArchivesLinkedCorrect` is the one that
needs `LibrariesPlaced`: every function that writes a library's BUILD file has an
operation that links the archive, from the place it looks at (`ArchivesProvided`),
and no other function writes that file (`OthersWithin`); `ArchivesDue` follows the
operation until it is done.

`ConfigToolProofs` further proves that the config tool implements its three parts
(`ImplementsBindir`, `ImplementsWalk`, `ImplementsSdk`), whatever the rule, Bazel
and opam do between their steps, so that what is proved about the parts holds of
it (`BindirOneVersion`, `SdkToolchain`, and the types of all three for
`TypeCorrect`; the `Same...` lemmas say that two instances of a part are equal); with `Ending`, which
says what the tool has behind it when it ends well, `OneVersionLinkedCorrect` and
`ToolchainAcceptedCorrect` follow. `WholeRepositoryCorrect` takes `MappingScheme`
over from the walk (`WalkMapping`) and adds `Written`: which files the tool has
written at each of its stages.

`DependentsProofs` proves that a dependent, Bazel and the switch together implement
the emitter of the labels, the walk and the compiler's repository
(`ImplementsParts`), and `LabelsResolveCorrect`. Each part contributes one fact:
`LabelsOfDeps`, which label a dependency gets; `LibTargets`, that a package that
can be linked has its file in place with the target `lib` once (`LibOnce` in
`EmitBuildBazelProofs`); `SdkPackages`, what the compiler's repository has at its
end. `BazelInv` relates them in time: a label that has been looked up names a
repository whose tool has ended without an error, and tools that have ended make
no further step. What remains is where the two emitters send a dependency
(`PackageLabel`, `CompilerLabel`).

Assumptions: those on the constants, named `Assumptions` in each module (sets are
what the comments say, bounds are naturals, a pipe holds at least a line), and
`SameCompiler` and `LibrariesPlaced`. Some of them say something of the
environment: the packages of a META file form a tree in which each property
occurs once (`EmitBuildBazel`); the two of `Dependents` above; a tag of the extension names no package twice,
and no package has a directory `ocamlsdk` in lib, for a repository of that name is
always declared (`OpamExt`). TLC evaluates them in every run.

Only model-checked: `RetryConverges`, `FittingReturns`, `Ends` and `RuleEnds`, for
they are liveness.

## Not modelled

Messages, verbosity and progress reports; checksums and platform tables; the text
of templates beyond the labels that name packages of the compiler's repository; what an upgrade leaves
between the reading of META (`config_pkg.c:256`) and of dune-package, which no
document says anything about (each of the two is of one version); a dune-package
that is read while opam writes it; the paths of 512 characters that
`mkdir_r` (`utils.c:76`) cuts; the coswitch, which nothing builds; `opam_subrepo.bzl`, which
nothing loads; build rules, aspects and scripts, which have no state of their
own. A package directory that an install leaves half full is in `XdgToolchain`
only; in `OpamExt` a package is there or not. opam itself is modelled only as far
as the code sees it.

## Plan

Done, in this order: the toolchains and the extension; the command runner; the
config tool's parts, each with its proofs; their composition; the compiler's
repository; `Provisioning` with its two implementations; the agreement of labels
and repositories (`Dependents`). What is left: the special repositories and the
runners, which have hardly any state.
