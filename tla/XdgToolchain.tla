--------------------------- MODULE XdgToolchain ---------------------------
(***************************************************************************)
(* config_xdg_toolchain of extensions/opam/opam_toolchain_xdg.bzl: the     *)
(* evaluation of the module extension that provisions an opam binary, an   *)
(* opam root, a switch and the requested packages under XDG_DATA_HOME.     *)
(*                                                                         *)
(* The directory is shared by every project that says toolchain = "xdg",   *)
(* and nothing in the code serialises two evaluations, so a Run here is    *)
(* one project's Bazel server; it may be evaluated again after a failure,  *)
(* a crash or a change of MODULE.bazel.  Every artefact on disk is absent, *)
(* partial (its directory or file exists, its builder has not finished) or *)
(* ok.  The code only ever asks whether a path exists (file_exists), so it *)
(* cannot tell the last two apart.                                         *)
(*                                                                         *)
(* opam, cp and the network are external; what the code relies on of them  *)
(* is written in the actions that stand for the commands: opam's commands  *)
(* that change the root hold opam's own lock and are killed with their     *)
(* parent, which releases it.                                              *)
(***************************************************************************)
EXTENDS Naturals, Sequences

CONSTANTS
    Run,            (* evaluations of the extension sharing the directory  *)
    Version,        (* OCaml versions; a switch is named after its version *)
    Pkg,            (* opam packages                                       *)
    None,           (* Starlark's None, and "nobody" for writer and lock   *)
    WantVersion,    (* WantVersion[r]: ocaml_version, None if not given    *)
    WantPkgs,       (* WantPkgs[r]: direct_deps + dev_deps, a sequence     *)
    Verbose,        (* the runs with a verbosity above 0                   *)
    SysVersion,     (* what opam var sys-ocaml-version prints, or None     *)
    OpamVarStrict,  (* whether opam var refuses a switch that is not there *)
    MaxKills,       (* bound: abrupt ends that leave a half-built artefact *)
    MaxFaults       (* bound: commands that fail and clean up after them   *)

ASSUME Assumptions ==
    /\ None \notin Run \cup Version \cup Pkg
    /\ WantVersion \in [Run -> Version \cup {None}]
    /\ WantPkgs \in [Run -> Seq(Pkg)]
    /\ Verbose \subseteq Run
    /\ SysVersion \in Version \cup {None}
    /\ OpamVarStrict \subseteq BOOLEAN
    /\ MaxKills \in Nat
    /\ MaxFaults \in Nat

VARIABLES
    bin,      (* <XDG>/<opam_version>/bin/opam                             *)
    writer,   (* the run whose cp truncated bin last                       *)
    root,     (* <XDG>/<opam_version>/root                                 *)
    switch,   (* switch[v]: root/<v>                                       *)
    lib,      (* lib[v][p]: root/<v>/lib/<p>                               *)
    lock,     (* the run whose opam command holds the root's lock          *)
    pc,       (* pc[r]: where r is in config_xdg_toolchain                 *)
    ocaml,    (* ocaml[r]: r's local ocaml_version                         *)
    todo,     (* todo[r]: the packages r's loop has still to look at       *)
    deps,     (* deps[r]: the listing of the switch's lib directory        *)
    kills, faults

disk    == <<bin, writer, root, switch, lib>>
locals  == <<ocaml, todo, deps>>
bounds  == <<kills, faults>>
vars    == <<disk, lock, pc, locals, bounds>>

Artefact == {"absent", "partial", "ok"}

(* The stages in which a command that changes the disk is running.         *)
Running  == {"cpWrite", "initRun", "createRun", "installRun"}
Stopped  == {"idle", "failed", "done"}
Stage    == Running \cup Stopped \cup
            {"checkBin", "download", "cp", "version", "checkRoot", "init",
             "sysVersion", "checkSwitch", "create", "varPrefix",
             "pkgs", "install", "varLib", "ls"}

TypeOK ==
    /\ bin \in Artefact
    /\ writer \in Run \cup {None}
    /\ root \in Artefact
    /\ switch \in [Version -> Artefact]
    /\ lib \in [Version -> [Pkg -> Artefact]]
    /\ lock \in Run \cup {None}
    /\ pc \in [Run -> Stage]
    /\ ocaml \in [Run -> Version \cup {None}]
    /\ todo \in [Run -> Seq(Pkg)]
    /\ deps \in [Run -> SUBSET Pkg]
    /\ kills \in 0..MaxKills
    /\ faults \in 0..MaxFaults

Init ==
    /\ bin = "absent" /\ writer = None /\ root = "absent"
    /\ switch = [v \in Version |-> "absent"]
    /\ lib = [v \in Version |-> [p \in Pkg |-> "absent"]]
    /\ lock = None
    /\ pc = [r \in Run |-> "idle"]
    /\ ocaml = [r \in Run |-> None]
    /\ todo = [r \in Run |-> <<>>]
    /\ deps = [r \in Run |-> {}]
    /\ kills = 0 /\ faults = 0

-----------------------------------------------------------------------------
(* Helpers.                                                                *)

file_exists(artefact) == artefact # "absent"

Go(r, stage) == pc' = [pc EXCEPT ![r] = stage]

(* switch_id: the version asked for, else the system's.                    *)
SwitchId(r) == IF WantVersion[r] # None THEN WantVersion[r] ELSE SysVersion

(* What an opam command needs to start at all, and to find its root.       *)
Executable  == bin = "ok"
Initialised == Executable /\ root = "ok"

(* Writing to a file that is being executed fails (ETXTBSY).               *)
OpamBusy == \E q \in Run : pc[q] \in {"initRun", "createRun", "installRun"}

(* The outcomes opam var has for the switch named v: a name of no switch   *)
(* ("None") is refused or resolved to a path, as opam's releases differ,   *)
(* one that is half built may be known already or not.                     *)
OpamVar(v) ==
    IF ~Initialised THEN {FALSE}
    ELSE IF v = None \/ ~file_exists(switch[v]) THEN {~strict : strict \in OpamVarStrict}
    ELSE IF switch[v] = "ok" THEN {TRUE} ELSE BOOLEAN

(* A package looked for in no switch counts as installed.                  *)
is_pkg_installed_None(r, p) ==
    IF ocaml[r] = None THEN TRUE ELSE file_exists(lib[ocaml[r]][p])

is_pkg_installed(r, p) == ocaml[r] # None /\ file_exists(lib[ocaml[r]][p])

-----------------------------------------------------------------------------
(* The steps of config_xdg_toolchain, in the order of the code.            *)

Start(r) ==
    /\ pc[r] \in Stopped
    /\ Go(r, "checkBin")
    /\ ocaml' = [ocaml EXCEPT ![r] = WantVersion[r]]
    /\ todo' = [todo EXCEPT ![r] = WantPkgs[r]]
    /\ deps' = [deps EXCEPT ![r] = {}]
    /\ UNCHANGED <<disk, lock, bounds>>

AfterBin(r) == IF r \in Verbose THEN "version" ELSE "checkRoot"

CheckBin(r) ==
    /\ pc[r] = "checkBin"
    /\ Go(r, IF file_exists(bin) THEN AfterBin(r) ELSE "download")
    /\ UNCHANGED <<disk, lock, locals, bounds>>

(* _install_opam, first half: mkdir -p and the checksummed download go to  *)
(* the project's own directory and an idempotent mkdir.                    *)
Download(r) ==
    /\ pc[r] = "download"
    /\ Go(r, "cp")
    /\ UNCHANGED <<disk, lock, locals, bounds>>

(* cp opens its target: it truncates what is there, or is refused.         *)
CopyBegin(r) ==
    /\ pc[r] = "cp"
    /\ \/ /\ OpamBusy
          /\ Go(r, "failed")
          /\ UNCHANGED <<bin, writer>>
       \/ /\ ~OpamBusy
          /\ bin' = "partial"
          /\ writer' = r
          /\ Go(r, "cpWrite")
    /\ UNCHANGED <<root, switch, lib, lock, locals, bounds>>

(* cp ends.  The file is whole once the cp that truncated it last ends.    *)
CopyEnd(r) ==
    /\ pc[r] = "cpWrite"
    /\ bin' = IF writer = r THEN "ok" ELSE bin
    /\ Go(r, AfterBin(r))
    /\ UNCHANGED <<writer, root, switch, lib, lock, locals, bounds>>

(* opam --version, to print it: only this asks whether the binary runs.    *)
AskVersion(r) ==
    /\ pc[r] = "version"
    /\ Go(r, IF Executable THEN "checkRoot" ELSE "failed")
    /\ UNCHANGED <<disk, lock, locals, bounds>>

AfterRoot(r) == IF WantVersion[r] # None THEN "checkSwitch" ELSE "sysVersion"

(* The mkdir that _init_opam writes down and does not run, run.            *)
CheckRoot_mkdir(r) ==
    /\ pc[r] = "checkRoot"
    /\ root' = IF file_exists(root) THEN root ELSE "partial"
    /\ Go(r, IF file_exists(root) THEN AfterRoot(r) ELSE "init")
    /\ UNCHANGED <<bin, writer, switch, lib, lock, locals, bounds>>

CheckRoot(r) ==
    /\ pc[r] = "checkRoot"
    /\ Go(r, IF file_exists(root) THEN AfterRoot(r) ELSE "init")
    /\ UNCHANGED <<disk, lock, locals, bounds>>

(* _init_opam runs opam init --bare: it returns at once on an initialised  *)
(* root, and with OPAMNO refuses a directory that is something else.       *)
InitBegin(r) ==
    /\ pc[r] = "init"
    /\ \/ /\ ~Executable
          /\ Go(r, "failed")
          /\ UNCHANGED <<root, lock>>
       \/ /\ Executable /\ lock = None
          /\ root = "absent"
          /\ root' = "partial"
          /\ lock' = r
          /\ Go(r, "initRun")
       \/ /\ Executable /\ lock = None
          /\ root # "absent"
          /\ Go(r, IF root = "ok" THEN AfterRoot(r) ELSE "failed")
          /\ UNCHANGED <<root, lock>>
    /\ UNCHANGED <<bin, writer, switch, lib, locals, bounds>>

InitEnd(r) ==
    /\ pc[r] = "initRun"
    /\ root' = "ok"
    /\ lock' = None
    /\ Go(r, AfterRoot(r))
    /\ UNCHANGED <<bin, writer, switch, lib, locals, bounds>>

(* No ocaml_version: the opam on PATH is asked for the system's.           *)
AskSysVersion(r) ==
    /\ pc[r] = "sysVersion"
    /\ \/ /\ SysVersion # None /\ root = "ok"
          /\ ocaml' = [ocaml EXCEPT ![r] = SysVersion]
          /\ Go(r, "checkSwitch")
       \/ /\ SysVersion = None \/ root # "ok"
          /\ Go(r, "failed")
          /\ UNCHANGED ocaml
    /\ UNCHANGED <<disk, lock, todo, deps, bounds>>

(* The switch is created unconditionally, return code 2 being tolerated.   *)
CheckSwitch_always(r) ==
    /\ pc[r] = "checkSwitch"
    /\ Go(r, "create")
    /\ UNCHANGED <<disk, lock, locals, bounds>>

CheckSwitch(r) ==
    /\ pc[r] = "checkSwitch"
    /\ Go(r, IF file_exists(switch[SwitchId(r)]) THEN "varPrefix" ELSE "create")
    /\ UNCHANGED <<disk, lock, locals, bounds>>

(* _create_switch runs opam switch create.  Return code 2 ("already        *)
(* installed") is taken for success, and either way the function returns   *)
(* None as the ocaml_version.                                              *)
CreateBegin(r) ==
    /\ pc[r] = "create"
    /\ \/ /\ ~Initialised
          /\ Go(r, "failed")
          /\ UNCHANGED <<switch, lock, ocaml>>
       \/ /\ Initialised /\ lock = None
          /\ ~file_exists(switch[SwitchId(r)])
          /\ switch' = [switch EXCEPT ![SwitchId(r)] = "partial"]
          /\ lock' = r
          /\ Go(r, "createRun")
          /\ UNCHANGED ocaml
       \/ /\ Initialised /\ lock = None
          /\ file_exists(switch[SwitchId(r)])
          /\ ocaml' = [ocaml EXCEPT ![r] = None]
          /\ Go(r, "varPrefix")
          /\ UNCHANGED <<switch, lock>>
    /\ UNCHANGED <<bin, writer, root, lib, todo, deps, bounds>>

CreateEnd(r) ==
    /\ pc[r] = "createRun"
    /\ switch' = [switch EXCEPT ![SwitchId(r)] = "ok"]
    /\ lock' = None
    /\ ocaml' = [ocaml EXCEPT ![r] = None]
    /\ Go(r, "varPrefix")
    /\ UNCHANGED <<bin, writer, root, lib, todo, deps, bounds>>

(* opam var prefix and opam var bin, both with --switch switch_id.         *)
VarPrefix(r) ==
    /\ pc[r] = "varPrefix"
    /\ \E known \in OpamVar(SwitchId(r)) : Go(r, IF known THEN "pkgs" ELSE "failed")
    /\ UNCHANGED <<disk, lock, locals, bounds>>

(* One turn of the loop over pkgs.                                         *)
CheckPkg(r) ==
    /\ pc[r] = "pkgs"
    /\ \/ /\ todo[r] = <<>>
          /\ Go(r, "varLib")
          /\ UNCHANGED todo
       \/ /\ todo[r] # <<>>
          /\ is_pkg_installed(r, Head(todo[r]))
          /\ todo' = [todo EXCEPT ![r] = Tail(@)]
          /\ UNCHANGED pc
       \/ /\ todo[r] # <<>>
          /\ ~is_pkg_installed(r, Head(todo[r]))
          /\ Go(r, "install")
          /\ UNCHANGED todo
    /\ UNCHANGED <<disk, lock, ocaml, deps, bounds>>

(* opam reinstall: an installed package is taken out first.                *)
InstallBegin_reinstall(r) ==
    LET v == SwitchId(r)
    IN  /\ pc[r] = "install" /\ lock = None
        /\ \/ /\ ~Initialised \/ switch[v] # "ok"
              /\ Go(r, "failed")
              /\ UNCHANGED <<lib, lock>>
           \/ /\ Initialised /\ switch[v] = "ok"
              /\ lib' = [lib EXCEPT ![v][Head(todo[r])] = "partial"]
              /\ lock' = r
              /\ Go(r, "installRun")
        /\ UNCHANGED <<bin, writer, root, switch, locals, bounds>>

(* opam_install_pkg: nothing is done for a package that is installed, one  *)
(* that was left half installed is installed again.                        *)
InstallBegin(r) ==
    LET v == SwitchId(r)
        p == Head(todo[r])
    IN  /\ pc[r] = "install"
        /\ \/ /\ lock = None
              /\ ~Initialised \/ switch[v] # "ok"
              /\ Go(r, "failed")
              /\ UNCHANGED <<lib, lock, todo>>
           \/ /\ Initialised /\ lock = None
              /\ switch[v] = "ok" /\ lib[v][p] # "ok"
              /\ lib' = [lib EXCEPT ![v][p] = "partial"]
              /\ lock' = r
              /\ Go(r, "installRun")
              /\ UNCHANGED todo
           \/ /\ Initialised /\ lock = None
              /\ switch[v] = "ok" /\ lib[v][p] = "ok"
              /\ todo' = [todo EXCEPT ![r] = Tail(@)]
              /\ Go(r, "pkgs")
              /\ UNCHANGED <<lib, lock>>
        /\ UNCHANGED <<bin, writer, root, switch, ocaml, deps, bounds>>

InstallEnd(r) ==
    /\ pc[r] = "installRun"
    /\ lib' = [lib EXCEPT ![SwitchId(r)][Head(todo[r])] = "ok"]
    /\ lock' = None
    /\ todo' = [todo EXCEPT ![r] = Tail(@)]
    /\ Go(r, "pkgs")
    /\ UNCHANGED <<bin, writer, root, switch, ocaml, deps, bounds>>

(* opam var lib, asked for the switch str(ocaml_version).                  *)
VarLib(r) ==
    /\ pc[r] = "varLib"
    /\ \E known \in OpamVar(ocaml[r]) : Go(r, IF known THEN "ls" ELSE "failed")
    /\ UNCHANGED <<disk, lock, locals, bounds>>

(* ls of the lib directory of switch_id, which a half-built switch may not *)
(* have yet.                                                               *)
ListDeps(r) ==
    /\ pc[r] = "ls"
    /\ \/ /\ deps' = [deps EXCEPT ![r] =
                        {p \in Pkg : file_exists(lib[SwitchId(r)][p])}]
          /\ Go(r, "done")
       \/ /\ switch[SwitchId(r)] # "ok"
          /\ Go(r, "failed")
          /\ UNCHANGED deps
    /\ UNCHANGED <<disk, lock, ocaml, todo, bounds>>

-----------------------------------------------------------------------------
(* Failures of the environment.                                            *)

Release(r) == lock' = IF lock = r THEN None ELSE lock

(* A command returns an error and has undone its own changes: the download *)
(* fails, opam removes the root, the switch or the package it was making.  *)
(* Every caller turns the return code into fail().                         *)
Fault(r) ==
    /\ faults < MaxFaults
    /\ faults' = faults + 1
    /\ \/ /\ pc[r] = "download"
          /\ UNCHANGED <<root, switch, lib>>
       \/ /\ pc[r] = "initRun"
          /\ root' = "absent"
          /\ UNCHANGED <<switch, lib>>
       \/ /\ pc[r] = "createRun"
          /\ switch' = [switch EXCEPT ![SwitchId(r)] = "absent"]
          /\ UNCHANGED <<root, lib>>
       \/ /\ pc[r] = "installRun"
          /\ lib' = [lib EXCEPT ![SwitchId(r)][Head(todo[r])] = "absent"]
          /\ UNCHANGED <<root, switch>>
    /\ Release(r)
    /\ Go(r, "failed")
    /\ UNCHANGED <<bin, writer, locals, kills>>

(* The evaluation and the command it waits for end at once (interrupt,     *)
(* kill, power, a full disk): the disk stays as it is, opam's lock goes.   *)
Crash(r) ==
    /\ kills < MaxKills
    /\ pc[r] \notin Stopped
    /\ kills' = kills + 1
    /\ Release(r)
    /\ Go(r, "idle")
    /\ UNCHANGED <<disk, locals, faults>>

(* mctx.execute kills a command after 600 seconds unless told otherwise,   *)
(* and nobody tells it: a slow opam command ends where it is and its       *)
(* caller fails.                                                           *)
TimeOut(r) ==
    /\ kills < MaxKills
    /\ pc[r] \in {"initRun", "createRun", "installRun"}
    /\ kills' = kills + 1
    /\ Release(r)
    /\ Go(r, "failed")
    /\ UNCHANGED <<disk, locals, faults>>

-----------------------------------------------------------------------------
config_xdg_toolchain(r) ==
    \/ CheckBin(r) \/ Download(r) \/ CopyBegin(r) \/ CopyEnd(r)
    \/ AskVersion(r) \/ CheckRoot(r) \/ InitBegin(r) \/ InitEnd(r)
    \/ AskSysVersion(r) \/ CheckSwitch(r) \/ CreateBegin(r) \/ CreateEnd(r)
    \/ VarPrefix(r) \/ CheckPkg(r) \/ InstallBegin(r) \/ InstallEnd(r)
    \/ VarLib(r) \/ ListDeps(r)

Next == \E r \in Run :
    \/ Start(r) \/ config_xdg_toolchain(r)
    \/ Fault(r) \/ Crash(r) \/ TimeOut(r)

(* Bazel carries an evaluation on once it is started and commands end; a   *)
(* build that has not succeeded is started again by its user, one that has *)
(* need not be.                                                            *)
Fairness == \A r \in Run :
    /\ WF_vars(config_xdg_toolchain(r))
    /\ WF_vars(pc[r] # "done" /\ Start(r))

Spec == Init /\ [][Next]_vars /\ Fairness

-----------------------------------------------------------------------------
(* Properties.                                                             *)

(* The stage in which run r is the builder of each artefact.               *)
Copying(r)       == pc[r] = "cpWrite" /\ writer = r
Initialising(r)  == pc[r] = "initRun"
Creating(r, v)   == pc[r] = "createRun" /\ SwitchId(r) = v
Installing(r, v, p) ==
    pc[r] = "installRun" /\ SwitchId(r) = v /\ Head(todo[r]) = p

OrphanBin     == bin = "partial" /\ ~\E r \in Run : Copying(r)
OrphanRoot    == root = "partial" /\ ~\E r \in Run : Initialising(r)
OrphanSwitch(v) == switch[v] = "partial" /\ ~\E r \in Run : Creating(r, v)
OrphanPkg(v, p) ==
    lib[v][p] = "partial" /\ ~\E r \in Run : Installing(r, v, p)

(* A half-built opam binary, root, switch or package is on disk only while *)
(* the evaluation that builds it is running: while nothing has been        *)
(* killed, two projects racing through the existence checks and commands   *)
(* that fail never leave behind what a later file_exists would take for    *)
(* complete.                                                               *)
NoOrphans ==
    kills = 0 =>
        /\ ~OrphanBin
        /\ ~OrphanRoot
        /\ \A v \in Version : ~OrphanSwitch(v)
        /\ \A v \in Version, p \in Pkg : ~OrphanPkg(v, p)

(* While nothing was killed or failed, an evaluation that returned has     *)
(* every package it was asked for in its switch, installed or being        *)
(* installed by another project at this moment, and its listing names all. *)
DoneHasPackages ==
    kills = 0 /\ faults = 0 =>
        \A r \in Run : pc[r] = "done" =>
            \A i \in DOMAIN WantPkgs[r] :
                LET v == SwitchId(r)
                    p == WantPkgs[r][i]
                IN  /\ p \in deps[r]
                    /\ \/ lib[v][p] = "ok"
                       \/ \E q \in Run \ {r} : Installing(q, v, p)

(* Everything run r wants is on disk, and r knows which switch it is in    *)
(* if it is past the checks of the first three artefacts.                  *)
Served(r) ==
    /\ pc[r] \in {"checkSwitch", "varPrefix", "pkgs", "varLib", "ls"} =>
          ocaml[r] = SwitchId(r)
    /\ pc[r] \notin Running \cup {"download", "cp", "init", "create", "install"}
    /\ \A i \in 1..Len(todo[r]) : file_exists(lib[SwitchId(r)][todo[r][i]])
    /\ SwitchId(r) # None
    /\ file_exists(switch[SwitchId(r)])
    /\ \A i \in 1..Len(WantPkgs[r]) :
          file_exists(lib[SwitchId(r)][WantPkgs[r][i]])

Provisioned ==
    /\ file_exists(bin) /\ file_exists(root)
    /\ \A r \in Run : Served(r)

(* README.adoc: "If your switch is already properly configured ... then    *)
(* the extension executes no updating opam commands".  Once everything is  *)
(* there and no evaluation is past a check that said otherwise, no step of *)
(* any evaluation, crash or retry changes the shared directory again.      *)
NoUpdateWhenProvisioned ==
    [][Provisioned => Provisioned' /\ UNCHANGED disk]_vars

(* An evaluation that is retried succeeds, or is up against a binary, a    *)
(* root or a switch that a crash left half built and that no check can     *)
(* tell from a complete one: retrying then never helps.                    *)
Orphaned == OrphanBin \/ OrphanRoot \/ \E v \in Version : OrphanSwitch(v)

RetryConverges ==
    \A r \in Run : SwitchId(r) # None =>
        ([]<>(pc[r] = "done") \/ <>[]Orphaned)

(* However many evaluations race, are killed or retried: a complete switch *)
(* stays so, and an installed package is never taken out of it, though the *)
(* commands that make them undo their work when they fail.                 *)
Provision == INSTANCE Provisioning WITH
    Switch  <- Version,
    version <- [v \in Version |-> IF switch[v] = "ok" THEN v ELSE None],
    have    <- [v \in Version |-> {p \in Pkg : lib[v][p] = "ok"}]
Provisions == Provision!Spec
=============================================================================
