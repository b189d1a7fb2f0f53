------------------------------- MODULE OpamExt -------------------------------
(***************************************************************************)
(* _opam_ext_impl of extensions/opam.bzl: one evaluation of the module     *)
(* extension, from the tags in MODULE.bazel to the repositories it         *)
(* declares and the metadata it hands to Bazel, with the toolchain         *)
(* functions of extensions/opam it dispatches to.                          *)
(*                                                                         *)
(* The switches outlive an evaluation: it may fail half way, and the next  *)
(* one, of the same MODULE.bazel or of an edited one, finds what the last  *)
(* one left.  The xdg toolchain, seen here by one evaluation at a time, is *)
(* modelled step by step in XdgToolchain.                                  *)
(***************************************************************************)
EXTENDS Naturals, Sequences, FiniteSets, SequencesExt

CONSTANTS
    Version,     (* OCaml versions                                         *)
    None,        (* no version: "" or Starlark's None                      *)
    Pkg,         (* opam packages, by name                                 *)
    OBAZL_PKGS,  (* those that are part of the SDK                         *)
    NoDir,       (* packages whose directory in lib has another name       *)
    Requires,    (* Requires[p]: what opam installs along with p           *)
    Default,     (* the ocaml_version of a project without deps tags       *)
    SysVersion,  (* what opam var sys-ocaml-version prints, or None        *)
    Had,         (* what the user may have installed in a switch before    *)
    Project,     (* the MODULE.bazel files and environments to evaluate    *)
    MaxEvals     (* bound: evaluations                                     *)

Special == {"dbg", "ocaml", "opam", "utop"}
Names   == {"opam", "ocamldebug", "stublibs", "utop"}

(* The name of a switch.  Only the xdg toolchain has one for each version. *)
Switch == {<<t, None>> : t \in {"local", "global", "opam"}} \cup
          {<<"xdg", v>> : v \in Version}

Toolchain == {"local", "global", "xdg", "opam"}
Unknown   == "other"

(* The opam.deps tags.  The pkgs of one are the keys of a dictionary; the  *)
(* dev tags that Bazel shows are the root module's.                        *)
DepsTags == [root : BOOLEAN, dev : BOOLEAN, pkgs : Seq(Pkg),
             toolchain : Toolchain \ {"opam"},
             ocaml_version : Version \cup {None}]
IsDepsTag(t) == (t.dev => t.root) /\ IsInjective(t.pkgs)

ASSUME Assumptions ==
    /\ None \notin Version
    /\ Names \subseteq Pkg
    /\ OBAZL_PKGS \subseteq Pkg \ Names
    /\ NoDir \subseteq Pkg \ (Names \cup OBAZL_PKGS)
    /\ "ocamlsdk" \notin Pkg \ NoDir
    /\ Requires \in [Pkg -> SUBSET (Pkg \ OBAZL_PKGS)]
    /\ Default \in Version /\ SysVersion \in Version \cup {None}
    /\ Had \subseteq SUBSET Pkg
    /\ Project # {}
    /\ \A p \in Project :
          /\ p.special \in [Special -> {"no", "dev", "direct"}]
          /\ p.deps \in Seq(DepsTags)
          /\ \A i \in DOMAIN p.deps : IsDepsTag(p.deps[i])
          /\ p.nondev \in BOOLEAN /\ p.inOpam \in BOOLEAN /\ p.force \in BOOLEAN
          /\ p.utopVersion \in BOOLEAN
          /\ p.localTc \in Toolchain \cup {Unknown, None}
    /\ MaxEvals \in Nat

VARIABLES
    switches,   (* switches[s]: exists, its version, its installed packages *)
    project,    (* the project being evaluated                             *)
    evals,      (* evaluations so far                                      *)
    pc,         (* where the evaluation is                                 *)
    tags,       (* the deps tags not yet looked at                         *)
    toolchain, ocaml_version, direct_deps, dev_deps,   (* as in the code   *)
    stublibs,   (* "direct", "dev" or "no": the two stublibs flags         *)
    sdk,        (* the OBAZL_PKGS that have not been taken out yet         *)
    switch,     (* the switch that was configured                          *)
    todo,       (* the packages the toolchain function has yet to check    *)
    deps,       (* the directories in the switch's lib                     *)
    repos,      (* the repositories declared                               *)
    metadata    (* root_module_direct_deps and root_module_direct_dev_deps *)

lists  == <<toolchain, ocaml_version, direct_deps, dev_deps, stublibs, sdk>>
result == <<deps, repos, metadata>>
vars   == <<switches, project, evals, pc, tags, lists, switch, todo, result>>

Stopped == {"idle", "failed", "rejected", "done"}
Stage   == Stopped \cup {"special", "tags", "check", "prune", "switch", "pkgs",
                         "install", "list", "register", "metadata"}

Repo(p) == <<"opam.", p>>
Tool(t) == <<"", t>>
Repos   == {Repo(p) : p \in Pkg \cup {"ocamlsdk"}} \cup
           {Tool(t) : t \in Special \ {"utop"}}

TypeOK ==
    /\ switches \in [Switch -> [exists : BOOLEAN,
                                version : Version \cup {None},
                                have : SUBSET Pkg]]
    /\ project \in Project
    /\ evals \in 0..MaxEvals
    /\ pc \in Stage
    /\ \E n \in 1..(Len(project.deps) + 1) :
          tags = SubSeq(project.deps, n, Len(project.deps))
    /\ toolchain \in Toolchain \cup {Unknown}
    /\ ocaml_version \in Version \cup {None}
    /\ direct_deps \in Seq(Pkg) /\ dev_deps \in Seq(Pkg) /\ todo \in Seq(Pkg)
    /\ stublibs \in {"no", "direct", "dev"}
    /\ sdk \subseteq OBAZL_PKGS
    /\ switch \in Switch
    /\ deps \subseteq Pkg
    /\ repos \subseteq Repos
    /\ metadata \in [direct : Seq(Repos), dev : Seq(Repos)]

Empty == [exists |-> FALSE, version |-> None, have |-> {}]

(* The current global switch and the one opam installs into exist; a       *)
(* checkout may have a local switch.  The user has installed packages in   *)
(* them, or an OCaml before 5 has made directories for its own libraries.  *)
Init ==
    /\ \E v \in Version, local \in BOOLEAN, had \in Had :
          switches = [s \in Switch |->
              IF s[1] \in {"global", "opam"} \/ (s[1] = "local" /\ local)
              THEN [exists |-> TRUE, version |-> v, have |-> had] ELSE Empty]
    /\ project = CHOOSE p \in Project : TRUE
    /\ evals = 0 /\ pc = "idle" /\ tags = <<>>
    /\ toolchain = "xdg" /\ ocaml_version = None
    /\ direct_deps = <<>> /\ dev_deps = <<>> /\ todo = <<>>
    /\ stublibs = "no" /\ sdk = {} /\ switch = <<"global", None>>
    /\ deps = {} /\ repos = {} /\ metadata = [direct |-> <<>>, dev |-> <<>>]

-----------------------------------------------------------------------------
(* The evaluation, in the order of the code.                               *)

Go(stage) == pc' = stage

Fail == pc' = "failed"

Start(p) ==
    /\ pc \in Stopped
    /\ evals < MaxEvals
    /\ evals' = evals + 1
    /\ project' = p
    /\ Go("special")
    /\ tags' = p.deps
    /\ toolchain' = "xdg" /\ ocaml_version' = Default
    /\ direct_deps' = <<>> /\ dev_deps' = <<>> /\ stublibs' = "no"
    /\ sdk' = {} /\ todo' = <<>> /\ deps' = {} /\ repos' = {}
    /\ metadata' = [direct |-> <<>>, dev |-> <<>>]
    /\ UNCHANGED <<switches, switch>>

(* The dbg, ocaml, opam and utop tags of the root module.                  *)
SpecialTags ==
    /\ pc = "special"
    /\ \/ /\ \E t \in Special \ {"utop"} : project.special[t] = "direct"
          /\ Fail
          /\ UNCHANGED dev_deps
       \/ /\ \A t \in Special \ {"utop"} : project.special[t] # "direct"
          /\ dev_deps' = IF project.special["utop"] = "dev" THEN <<"utop">>
                         ELSE <<>>
          /\ Go("tags")
    /\ UNCHANGED <<switches, project, evals, tags, toolchain, ocaml_version,
                   direct_deps, stublibs, sdk, switch, todo, result>>

(* One opam.deps tag.  What the last direct tag of the root module says of *)
(* toolchain and version counts; OBAZL_USE_LOCAL_TC overrides the former.  *)
DepsTag ==
    LET cfg == Head(tags)
    IN  /\ pc = "tags" /\ tags # <<>>
        /\ tags' = Tail(tags)
        /\ \/ /\ cfg.dev
              /\ dev_deps' = dev_deps \o cfg.pkgs
              /\ UNCHANGED <<pc, direct_deps, toolchain, ocaml_version>>
           \/ /\ ~cfg.dev /\ Contains(cfg.pkgs, "utop")
              /\ Fail
              /\ UNCHANGED <<direct_deps, dev_deps, toolchain, ocaml_version>>
           \/ /\ ~cfg.dev /\ ~Contains(cfg.pkgs, "utop")
              /\ direct_deps' = direct_deps \o cfg.pkgs
              /\ toolchain' = IF ~cfg.root THEN toolchain
                              ELSE IF project.localTc # None THEN project.localTc
                              ELSE cfg.toolchain
              /\ ocaml_version' = IF cfg.root THEN cfg.ocaml_version
                                  ELSE ocaml_version
              /\ UNCHANGED <<pc, dev_deps>>
    /\ UNCHANGED <<switches, project, evals, stublibs, sdk, switch, todo,
                   result>>

(* _build_config_tool runs bazel in the extension's own directory.         *)
BuildConfigTool ==
    /\ pc = "tags" /\ tags = <<>>
    /\ toolchain' = IF project.inOpam THEN "opam" ELSE toolchain
    /\ Go("check") \/ Fail
    /\ UNCHANGED <<switches, project, evals, tags, ocaml_version, direct_deps,
                   dev_deps, stublibs, sdk, switch, todo, result>>

CheckDirect ==
    /\ pc = "check"
    /\ \/ /\ \E p \in {"opam", "ocamldebug"} : Contains(direct_deps, p)
          /\ Fail
          /\ UNCHANGED <<stublibs, sdk>>
       \/ /\ \A p \in {"opam", "ocamldebug"} : ~Contains(direct_deps, p)
          /\ stublibs' = IF Contains(direct_deps, "stublibs") THEN "direct"
                         ELSE IF Contains(dev_deps, "stublibs") THEN "dev"
                         ELSE "no"
          /\ sdk' = OBAZL_PKGS
          /\ Go("prune")
    /\ UNCHANGED <<switches, project, evals, tags, toolchain, ocaml_version,
                   direct_deps, dev_deps, switch, todo, result>>

(* Starlark's list.remove takes the first occurrence out.                  *)
list_remove(s, p) == RemoveFirst(s, p)

(* One round of the loop over OBAZL_PKGS, whose order does not matter, or  *)
(* its end.                                                                *)
Prune ==
    /\ pc = "prune"
    /\ \/ \E p \in sdk :
             /\ direct_deps' = list_remove(direct_deps, p)
             /\ dev_deps' = list_remove(dev_deps, p)
             /\ sdk' = sdk \ {p}
             /\ UNCHANGED pc
       \/ /\ sdk = {}
          /\ Go("switch")
          /\ UNCHANGED <<direct_deps, dev_deps, sdk>>
    /\ UNCHANGED <<switches, project, evals, tags, toolchain, ocaml_version,
                   stublibs, switch, todo, result>>

-----------------------------------------------------------------------------
(* The toolchain functions.                                                *)

(* The switch is there, and todo is what its function is going to check.   *)
(* A half-made one answers no opam var: then only CommandFails is left.    *)
Found(s, wanted) ==
    /\ switches[s].exists /\ switches[s].version # None
    /\ switch' = s
    /\ todo' = wanted
    /\ Go("pkgs")
    /\ UNCHANGED switches

(* What is there is not looked at.                                         *)
Create_over(s, v, others) ==
    /\ v # None
    /\ \E more \in others :
          switches' = [switches EXCEPT ![s] =
              [exists |-> TRUE, version |-> v, have |-> more]]
    /\ switch' = s
    /\ todo' = direct_deps \o dev_deps
    /\ Go("pkgs")

(* The switch is created, or its command fails and takes it back.  With    *)
(* --deps-only, opam installs what the project's own opam file asks for.   *)
Create(s, v, others) ==
    /\ ~switches[s].exists
    /\ \/ /\ v # None
          /\ \E more \in others :
                switches' = [switches EXCEPT ![s] =
                    [exists |-> TRUE, version |-> v, have |-> more]]
          /\ switch' = s
          /\ todo' = direct_deps \o dev_deps
          /\ Go("pkgs")
       \/ /\ Fail
          /\ UNCHANGED <<switches, switch, todo>>

(* The command is killed (by hand, or after the 600 seconds mctx.execute   *)
(* allows) and leaves its directory.                                       *)
Killed(s) ==
    /\ ~switches[s].exists
    /\ switches' = [switches EXCEPT ![s].exists = TRUE]
    /\ Fail
    /\ UNCHANGED <<switch, todo>>

Effective == IF ocaml_version # None THEN ocaml_version ELSE SysVersion

(* A version that differs from the one asked for is only warned about.     *)
config_local_toolchain ==
    LET s == <<"local", None>>
    IN  /\ pc = "switch" /\ toolchain = "local"
        /\ \/ /\ Found(s, direct_deps \o dev_deps)
              /\ ocaml_version' = IF ocaml_version # None THEN ocaml_version
                                  ELSE switches[s].version
           \/ /\ Create(s, Effective, {{}, Requires["utop"]})
              /\ ocaml_version' = Effective
           \/ /\ Killed(s)
              /\ UNCHANGED ocaml_version

(* The dev packages are not looked at.                                     *)
config_global_toolchain_direct ==
    LET s == <<"global", None>>
    IN  /\ pc = "switch" /\ toolchain = "global"
        /\ Found(s, direct_deps)
        /\ ocaml_version' = IF ocaml_version # None THEN ocaml_version
                            ELSE switches[s].version

config_global_toolchain ==
    LET s == <<"global", None>>
    IN  /\ pc = "switch" /\ toolchain = "global"
        /\ Found(s, direct_deps \o dev_deps)
        /\ ocaml_version' = IF ocaml_version # None THEN ocaml_version
                            ELSE switches[s].version

(* The version asked for is handed on, as the other toolchains do.         *)
config_opam_toolchain_asked ==
    /\ pc = "switch" /\ toolchain = "opam"
    /\ Found(<<"opam", None>>, <<>>)
    /\ UNCHANGED ocaml_version

(* opam has installed what the package being installed depends on.         *)
config_opam_toolchain ==
    LET s == <<"opam", None>>
    IN  /\ pc = "switch" /\ toolchain = "opam"
        /\ Found(s, <<>>)
        /\ ocaml_version' = switches[s].version

(* _create_switch returns None for the version.                            *)
config_xdg_toolchain ==
    /\ pc = "switch" /\ toolchain = "xdg"
    /\ \/ /\ Effective # None
          /\ \/ /\ Found(<<"xdg", Effective>>, direct_deps \o dev_deps)
                /\ ocaml_version' = Effective
             \/ /\ Create(<<"xdg", Effective>>, Effective, {{}})
                /\ ocaml_version' = None
             \/ /\ Killed(<<"xdg", Effective>>)
                /\ UNCHANGED ocaml_version
       \/ /\ Effective = None
          /\ Fail
          /\ UNCHANGED <<switches, switch, todo, ocaml_version>>

(* OBAZL_USE_LOCAL_TC may be anything.                                     *)
unrecognized_toolchain ==
    /\ pc = "switch" /\ toolchain = Unknown
    /\ Fail
    /\ UNCHANGED <<switches, switch, todo, ocaml_version>>

ConfigToolchain ==
    /\ \/ config_local_toolchain \/ config_global_toolchain
       \/ config_opam_toolchain \/ config_xdg_toolchain
       \/ unrecognized_toolchain
    /\ UNCHANGED <<project, evals, tags, toolchain, direct_deps, dev_deps,
                   stublibs, sdk, result>>

(* The directories in the switch's lib (stublibs is the compiler's own).   *)
Lib(s) == {"stublibs"} \cup (switches[s].have \ NoDir)

(* The directory of the version asked for is looked in.                    *)
Present_asked(p) == p \in Lib(switch) /\ ocaml_version = switches[switch].version

(* What file_exists finds.  With no version, the xdg toolchain looks in a  *)
(* switch that does not exist.                                             *)
Present(p) ==
    p \in Lib(switch) /\ ~(toolchain = "xdg" /\ ocaml_version = None)

(* No toolchain asks.                                                      *)
MayInstall_all == TRUE

(* Only the global toolchain asks before it installs.                      *)
MayInstall == toolchain = "global" => project.force

CheckPkg ==
    /\ pc = "pkgs"
    /\ \/ /\ todo = <<>>
          /\ Go("list")
          /\ UNCHANGED todo
       \/ /\ todo # <<>> /\ Present(Head(todo))
          /\ todo' = Tail(todo)
          /\ UNCHANGED pc
       \/ /\ todo # <<>> /\ ~Present(Head(todo))
          /\ IF MayInstall THEN Go("install") ELSE Fail
          /\ UNCHANGED todo
    /\ UNCHANGED <<switches, project, evals, tags, lists, switch, result>>

(* opam install, which knows no package of an SDK library's name.  When it *)
(* fails, what it has installed by then stays.                             *)
opam_install_pkg ==
    LET p == Head(todo)
    IN  /\ pc = "install"
        /\ \/ /\ p \notin OBAZL_PKGS
              /\ switches' = [switches EXCEPT
                    ![switch].have = @ \cup {p} \cup Requires[p]]
              /\ todo' = Tail(todo)
              /\ Go("pkgs")
           \/ /\ \E some \in {{}, Requires[p]} :
                    switches' = [switches EXCEPT ![switch].have = @ \cup some]
              /\ Fail
              /\ UNCHANGED todo
        /\ UNCHANGED <<project, evals, tags, lists, switch, result>>

(* ls, without the *.conf files.                                           *)
ListDeps ==
    /\ pc = "list"
    /\ deps' = Lib(switch)
    /\ Go("register")
    /\ UNCHANGED <<switches, project, evals, tags, lists, switch, todo, repos,
                   metadata>>

-----------------------------------------------------------------------------
(* Repositories and metadata.                                              *)

Dev(t) == project.special[t] = "dev"

(* A utop tag with a version: it has a repository rule of its own and has  *)
(* to be in the list.  One without gets a repository like the others.      *)
UtopTold == project.special["utop"] # "no" /\ project.utopVersion

Register ==
    /\ pc = "register"
    /\ \/ /\ UtopTold /\ "utop" \notin deps
          /\ Fail
          /\ UNCHANGED repos
       \/ /\ UtopTold => "utop" \in deps
          /\ repos' = {Repo("ocamlsdk"), Repo("stublibs")}
                      \cup {Tool(t) : t \in {t \in Special \ {"utop"} : Dev(t)}}
                      \cup {Repo(p) : p \in deps \ OBAZL_PKGS}
          /\ Go("metadata")
    /\ UNCHANGED <<switches, project, evals, tags, lists, switch, todo, deps,
                   metadata>>

RepoSeq(s) == [i \in DOMAIN s |-> Repo(s[i])]
If(cond, r) == IF cond THEN <<r>> ELSE <<>>

(* A direct stublibs is added by its flag as well.                         *)
RootModuleDeps_stublibs ==
    [direct |-> <<Repo("ocamlsdk")>> \o If(stublibs = "direct", Repo("stublibs"))
                \o RepoSeq(direct_deps),
     dev    |-> If(stublibs = "dev", Repo("stublibs")) \o If(Dev("dbg"), Tool("dbg"))
                \o If(Dev("ocaml"), Tool("ocaml")) \o If(Dev("opam"), Tool("opam"))
                \o RepoSeq(dev_deps)]

RootModuleDeps ==
    [direct |-> <<Repo("ocamlsdk")>> \o RepoSeq(direct_deps),
     dev    |-> If(stublibs = "dev", Repo("stublibs")) \o If(Dev("dbg"), Tool("dbg"))
                \o If(Dev("ocaml"), Tool("ocaml")) \o If(Dev("opam"), Tool("opam"))
                \o RepoSeq(dev_deps)]

(* What Bazel requires of extension_metadata.                              *)
Accepted(m) ==
    /\ IsInjective(m.direct) /\ IsInjective(m.dev)
    /\ ToSet(m.direct) \cap ToSet(m.dev) = {}
    /\ ToSet(m.direct) \cup ToSet(m.dev) \subseteq repos
    /\ m.direct # <<>> => project.nondev

Metadata ==
    /\ pc = "metadata"
    /\ metadata' = RootModuleDeps
    /\ Go(IF Accepted(RootModuleDeps) THEN "done" ELSE "rejected")
    /\ UNCHANGED <<switches, project, evals, tags, lists, switch, todo, deps, repos>>

(* A command that changes nothing fails: opam var, file, ls.               *)
CommandFails ==
    /\ pc \in {"switch", "pkgs", "list", "register"}
    /\ Fail
    /\ UNCHANGED <<switches, project, evals, tags, lists, switch, todo, result>>

_opam_ext_impl ==
    \/ SpecialTags \/ DepsTag \/ BuildConfigTool \/ CheckDirect
    \/ Prune \/ ConfigToolchain \/ CheckPkg \/ opam_install_pkg \/ ListDeps
    \/ Register \/ Metadata \/ CommandFails

Next == _opam_ext_impl \/ \E p \in Project : Start(p)

Spec == Init /\ [][Next]_vars

-----------------------------------------------------------------------------
(* Properties.                                                             *)

Wanted == ToSet(direct_deps) \cup ToSet(dev_deps)

(* Whichever of local, global and xdg the switch comes from, and however   *)
(* often an earlier evaluation failed in it: when the repositories are     *)
(* declared, every package any module asked for is installed.              *)
RegistersInstalled ==
    pc \in {"register", "metadata", "done"} /\ toolchain # "opam" =>
        Wanted \ {"stublibs"} \subseteq switches[switch].have

(* README.adoc: packages are installed in a global switch only on demand,  *)
(* and in the one of an opam install never.                                *)
Guarded == toolchain = "opam" \/ (toolchain = "global" /\ ~project.force)
GuardedUntouched == [][Guarded => UNCHANGED switches]_vars

(* The switch the evaluation is about to use, or uses, is there and has    *)
(* the directories of all that is wanted.                                  *)
Configured ==
    LET s == IF pc # "switch" THEN switch
             ELSE <<toolchain, IF toolchain = "xdg" THEN Effective ELSE None>>
    IN  /\ pc \in {"switch", "pkgs", "list", "register", "metadata"}
        /\ pc # "switch" /\ toolchain = "xdg" => ocaml_version # None
        /\ s \in Switch /\ switches[s].exists
        /\ Wanted \subseteq Lib(s) /\ ToSet(todo) \subseteq Lib(s)

(* README.adoc: with a switch that is properly configured, the extension   *)
(* runs no updating opam command: no step of the evaluation is one.        *)
NoUpdateWhenConfigured ==
    [][Configured => /\ UNCHANGED switches
                     /\ Configured' \/ pc' \in Stopped]_vars

(* The version that the SDK's and the tools' repositories are given is the *)
(* switch's, unless another one was asked for (a warning) or the xdg       *)
(* switch was created by this evaluation (none).                           *)
Asked == {project.deps[i].ocaml_version :
             i \in {i \in DOMAIN project.deps :
                        project.deps[i].root /\ ~project.deps[i].dev}}
VersionOfSwitch ==
    pc \in {"register", "metadata", "done", "rejected"} =>
        \/ ocaml_version = switches[switch].version
        \/ toolchain \in {"local", "global"} /\ ocaml_version \in Asked \cup {Default}
        \/ toolchain = "xdg" /\ ocaml_version = None

(* The tags that name package p, the utop tag counting as number 0.        *)
Mentions(p, dev) ==
    {i \in DOMAIN project.deps : /\ project.deps[i].dev = dev
                                 /\ Contains(project.deps[i].pkgs, p)}
    \cup IF p = "utop" /\ dev /\ Dev("utop") THEN {0} ELSE {}

(* Those of the root module.                                               *)
RootMentions(p, dev) == {i \in Mentions(p, dev) : i = 0 \/ project.deps[i].root}

Several(direct, dev) == Cardinality(direct) + Cardinality(dev) > 1

(* What the user did wrong: the root module has only dev uses, although    *)
(* its toolchains need @opam.ocamlsdk; it names a package in two tags; a   *)
(* package has no directory of its name in the switch.                     *)
Mistaken ==
    \/ ~project.nondev
    \/ \E p \in Pkg \ OBAZL_PKGS :
          \/ Several(RootMentions(p, FALSE), RootMentions(p, TRUE))
          \/ /\ Mentions(p, TRUE) \cup Mentions(p, FALSE) # {}
             /\ p \notin Lib(switch)

(* What the code makes wrong of a right project: stublibs as a dev         *)
(* dependency is added by its flag and again by the loop over dev_deps; of *)
(* an SDK package that two tags of a kind name, list.remove takes only one *)
(* out; a package of another module counts as one the root module lists.   *)
Misread ==
    \/ Mentions("stublibs", TRUE) # {}
    \/ \E p \in OBAZL_PKGS, dev \in BOOLEAN : Cardinality(Mentions(p, dev)) > 1
    \/ \E p \in Pkg \ OBAZL_PKGS :
          /\ Several(Mentions(p, FALSE), Mentions(p, TRUE))
          /\ Mentions(p, FALSE) # RootMentions(p, FALSE)

(* Bazel refuses the metadata of the projects with a mistake and of those  *)
(* three that the code misreads, and takes that of all others.             *)
AcceptedUnlessMistaken ==
    pc \in {"done", "rejected"} => (pc = "rejected" <=> Mistaken \/ Misread)

(* opam.bzl:325 and 333 provide for stublibs in pkgs, as a direct and as a *)
(* dev dependency, and 494 takes an SDK package for part of the SDK: Bazel *)
(* refuses only what the user did wrong.                                   *)
RefusedOnlyMistaken == pc = "rejected" => Mistaken

(* Whichever toolchain, and however often evaluations fail: a switch that  *)
(* is there is never made again or changed to another version, and         *)
(* packages are only added.                                                *)
Provision == INSTANCE Provisioning WITH
    version <- [s \in Switch |-> switches[s].version],
    have    <- [s \in Switch |-> switches[s].have]
Provisions == Provision!Spec
=============================================================================
