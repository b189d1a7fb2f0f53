------------------------- MODULE XdgToolchainProofs -------------------------
(***************************************************************************)
(* What holds of the xdg toolchain for any number of projects, versions    *)
(* and packages.  NoOrphans is not inductive: that nobody else is building *)
(* an artefact follows from opam's lock, so the invariant ties each stage  *)
(* of an evaluation to the lock it holds and to what it has on disk.       *)
(***************************************************************************)
EXTENDS XdgToolchain, TLAPS

(* The stages in which an opam command that changes the root is running.   *)
Locked == {"initRun", "createRun", "installRun"}

(* The stages that are reached with a switch to work in.                   *)
InSwitch == {"checkSwitch", "create", "createRun", "varPrefix", "pkgs",
             "install", "installRun", "varLib", "ls", "done"}

BeforeSwitch == {"checkBin", "download", "cp", "cpWrite", "version", "checkRoot",
                 "init", "initRun", "sysVersion"}

Sane(r) ==
    /\ pc[r] \in InSwitch => SwitchId(r) \in Version
    /\ pc[r] \in {"install", "installRun"} => todo[r] # <<>>
    /\ pc[r] \in BeforeSwitch => ocaml[r] = WantVersion[r]
    /\ pc[r] = "sysVersion" => WantVersion[r] = None

(* Two opam commands that change the root never run at once, and none runs *)
(* on a root, or in a switch, that another is still making.                *)
OneBuilder(r) ==
    /\ pc[r] \in Locked <=> lock = r
    /\ pc[r] = "initRun" => root = "partial"
    /\ pc[r] = "createRun" => root = "ok" /\ switch[SwitchId(r)] = "partial"
    /\ pc[r] = "installRun" =>
          /\ root = "ok" /\ switch[SwitchId(r)] = "ok"
          /\ lib[SwitchId(r)][Head(todo[r])] = "partial"

IInv ==
    /\ TypeOK
    /\ \A r \in Run : Sane(r) /\ OneBuilder(r)
    /\ NoOrphans

-----------------------------------------------------------------------------
(* The assumptions the steps rest on: not what opam var prints for which   *)
(* switch.                                                                 *)
LEMMA ConstantTypes ==
    /\ None \notin Run \cup Version \cup Pkg
    /\ WantVersion \in [Run -> Version \cup {None}]
    /\ WantPkgs \in [Run -> Seq(Pkg)]
    /\ SysVersion \in Version \cup {None}
    /\ MaxKills \in Nat
    /\ MaxFaults \in Nat
    BY Assumptions

(* A list with a first package has one, and what is left is a list.        *)
LEMMA HeadTail ==
    ASSUME NEW s \in Seq(Pkg), s # <<>>
    PROVE  Head(s) \in Pkg /\ Tail(s) \in Seq(Pkg)
    OBVIOUS

(* Changing the state of one package leaves a table of artefacts.          *)
LEMMA LibUpdate ==
    ASSUME NEW f \in [Version -> [Pkg -> Artefact]],
           NEW v \in Version, NEW p \in Pkg, NEW x \in Artefact
    PROVE  /\ [f EXCEPT ![v][p] = x] \in [Version -> [Pkg -> Artefact]]
           /\ [f EXCEPT ![v][p] = x][v][p] = x
           /\ \A w \in Version, q \in Pkg :
                 <<w, q>> # <<v, p>> => [f EXCEPT ![v][p] = x][w][q] = f[w][q]
    OBVIOUS

(* Every step keeps the variables in their types. *)
LEMMA TypePreserved ==
    IInv /\ [Next]_vars => TypeOK'
<1> SUFFICES ASSUME IInv, [Next]_vars
             PROVE  TypeOK'
    OBVIOUS
<1> USE ConstantTypes DEF IInv, Go, disk, locals, bounds,
        TypeOK, Artefact, Stage, Running, Stopped, Sane, InSwitch, BeforeSwitch
<1>1. CASE UNCHANGED vars
    BY <1>1 DEF vars
<1>2. ASSUME NEW r \in Run, \/ Start(r) \/ config_xdg_toolchain(r)
                             \/ Fault(r) \/ Crash(r) \/ TimeOut(r)
      PROVE  TypeOK'
    <2>1. CASE Start(r)
        BY <2>1 DEF Start
    <2>2. CASE CheckBin(r)
        BY <2>2 DEF CheckBin, AfterBin
    <2>3. CASE Download(r)
        BY <2>3 DEF Download
    <2>4. CASE CopyBegin(r)
        BY <2>4 DEF CopyBegin
    <2>5. CASE CopyEnd(r)
        BY <2>5 DEF CopyEnd, AfterBin
    <2>v. CASE AskVersion(r)
        BY <2>v DEF AskVersion
    <2>6. CASE CheckRoot(r)
        BY <2>6 DEF CheckRoot, AfterRoot
    <2>7. CASE InitBegin(r)
        BY <2>7 DEF InitBegin, AfterRoot
    <2>8. CASE InitEnd(r)
        BY <2>8 DEF InitEnd, AfterRoot
    <2>9. CASE AskSysVersion(r)
        <3>1. ocaml' = ocaml \/ ocaml' = [ocaml EXCEPT ![r] = SysVersion]
            BY <2>9 DEF AskSysVersion
        <3>2. ocaml' \in [Run -> Version \cup {None}]
            BY <3>1
        <3>3. QED
            BY <2>9, <3>2 DEF AskSysVersion
    <2>10. CASE CheckSwitch(r)
        BY <2>10 DEF CheckSwitch
    <2>11. CASE CreateBegin(r)
        <3>1. /\ \/ pc' = [pc EXCEPT ![r] = "failed"]
                 \/ pc' = [pc EXCEPT ![r] = "createRun"]
                 \/ pc' = [pc EXCEPT ![r] = "varPrefix"]
              /\ ocaml' = ocaml \/ ocaml' = [ocaml EXCEPT ![r] = None]
              /\ switch' = switch
                    \/ switch' = [switch EXCEPT ![SwitchId(r)] = "partial"]
              /\ lock' = lock \/ lock' = r
            BY <2>11 DEF CreateBegin
        <3>2. pc' \in [Run -> Stage] /\ lock' \in Run \cup {None}
            BY <3>1
        <3>6. ocaml' \in [Run -> Version \cup {None}]
            BY <3>1
        <3>3. switch' \in [Version -> Artefact]
            BY <3>1
        <3>4. UNCHANGED <<bin, writer, root, lib, todo, deps, kills, faults>>
            BY <2>11 DEF CreateBegin
        <3>5. QED
            BY <3>2, <3>6, <3>3, <3>4
    <2>12. CASE CreateEnd(r)
        BY <2>12 DEF CreateEnd
    <2>13. CASE VarPrefix(r)
        BY <2>13 DEF VarPrefix
    <2>14. CASE CheckPkg(r)
        <3>1. todo[r] # <<>> => Tail(todo[r]) \in Seq(Pkg)
            BY HeadTail
        <3>2. \/ todo' = todo
              \/ todo[r] # <<>> /\ todo' = [todo EXCEPT ![r] = Tail(todo[r])]
            BY <2>14 DEF CheckPkg
        <3>3. todo' \in [Run -> Seq(Pkg)]
            BY <3>1, <3>2
        <3>4. QED
            BY <2>14, <3>3 DEF CheckPkg
    <2>15. CASE InstallBegin(r)
        <3>1. /\ SwitchId(r) \in Version /\ Head(todo[r]) \in Pkg
              /\ Tail(todo[r]) \in Seq(Pkg)
            BY <2>15, HeadTail DEF InstallBegin
        <3> DEFINE building == [lib EXCEPT ![SwitchId(r)][Head(todo[r])] = "partial"]
        <3>2. building \in [Version -> [Pkg -> Artefact]]
            BY <3>1, LibUpdate
        <3>3. /\ lib' = lib \/ lib' = building
              /\ todo' = todo \/ todo' = [todo EXCEPT ![r] = Tail(todo[r])]
            BY <2>15 DEF InstallBegin
        <3> HIDE DEF building
        <3>4. lib' \in [Version -> [Pkg -> Artefact]]
            BY <3>2, <3>3
        <3>5. todo' \in [Run -> Seq(Pkg)]
            BY <3>1, <3>3
        <3>6. QED
            BY <2>15, <3>4, <3>5 DEF InstallBegin
    <2>16. CASE InstallEnd(r)
        <3>1. /\ SwitchId(r) \in Version /\ Head(todo[r]) \in Pkg
              /\ Tail(todo[r]) \in Seq(Pkg)
            BY <2>16, HeadTail DEF InstallEnd
        <3>2. QED
            BY <2>16, <3>1 DEF InstallEnd
    <2>17. CASE VarLib(r)
        BY <2>17 DEF VarLib
    <2>18. CASE ListDeps(r)
        <3> DEFINE listing == {p \in Pkg : file_exists(lib[SwitchId(r)][p])}
        <3>1. listing \in SUBSET Pkg
            OBVIOUS
        <3>2. deps' = deps \/ deps' = [deps EXCEPT ![r] = listing]
            BY <2>18 DEF ListDeps
        <3> HIDE DEF listing
        <3>3. deps' \in [Run -> SUBSET Pkg]
            BY <3>1, <3>2
        <3>4. QED
            BY <2>18, <3>3 DEF ListDeps
    <2>19. CASE Fault(r)
        <3> DEFINE removed == [lib EXCEPT ![SwitchId(r)][Head(todo[r])] = "absent"]
        <3>1. pc[r] = "installRun" =>
                  SwitchId(r) \in Version /\ Head(todo[r]) \in Pkg
            BY HeadTail
        <3>3. pc[r] = "installRun" => removed \in [Version -> [Pkg -> Artefact]]
            BY <3>1, LibUpdate
        <3>4. \/ lib' = lib
              \/ pc[r] = "installRun" /\ lib' = removed
            BY <2>19 DEF Fault
        <3> HIDE DEF removed
        <3>2. lib' \in [Version -> [Pkg -> Artefact]]
            BY <3>3, <3>4
        <3>5. switch' \in [Version -> Artefact] /\ root' \in Artefact
            BY <2>19 DEF Fault
        <3>6. QED
            BY <2>19, <3>2, <3>5 DEF Fault, Release
    <2>20. CASE Crash(r)
        BY <2>20 DEF Crash, Release
    <2>21. CASE TimeOut(r)
        BY <2>21 DEF TimeOut, Release
    <2>22. QED
        BY <1>2, <2>1, <2>2, <2>3, <2>4, <2>5, <2>v, <2>6, <2>7, <2>8, <2>9, <2>10,
           <2>11, <2>12, <2>13, <2>14, <2>15, <2>16, <2>17, <2>18, <2>19, <2>20, <2>21
        DEF config_xdg_toolchain
<1>3. QED
    BY <1>1, <1>2 DEF Next

(* An evaluation looks at a switch only once it knows which, and installs  *)
(* only while packages are left.                                           *)
LEMMA SanePreserved ==
    IInv /\ [Next]_vars => (\A q \in Run : Sane(q))'
<1> SUFFICES ASSUME IInv, [Next]_vars
             PROVE  (\A q \in Run : Sane(q))'
    OBVIOUS
<1> USE ConstantTypes DEF IInv, Go, disk, locals, bounds,
        TypeOK, Artefact, Stage, Running, Stopped, Sane, InSwitch, BeforeSwitch, SwitchId
<1>1. CASE UNCHANGED vars
    BY <1>1 DEF vars
<1>2. ASSUME NEW r \in Run, \/ Start(r) \/ config_xdg_toolchain(r)
                             \/ Fault(r) \/ Crash(r) \/ TimeOut(r)
      PROVE  (\A q \in Run : Sane(q))'
    <2>1. CASE Start(r)
        BY <2>1 DEF Start
    <2>2. CASE CheckBin(r)
        BY <2>2 DEF CheckBin, AfterBin
    <2>3. CASE Download(r)
        BY <2>3 DEF Download
    <2>4. CASE CopyBegin(r)
        BY <2>4 DEF CopyBegin
    <2>5. CASE CopyEnd(r)
        BY <2>5 DEF CopyEnd, AfterBin
    <2>v. CASE AskVersion(r)
        BY <2>v DEF AskVersion
    <2>6. CASE CheckRoot(r)
        BY <2>6 DEF CheckRoot, AfterRoot
    <2>7. CASE InitBegin(r)
        BY <2>7 DEF InitBegin, AfterRoot
    <2>8. CASE InitEnd(r)
        BY <2>8 DEF InitEnd, AfterRoot
    <2>9. CASE AskSysVersion(r)
        BY <2>9 DEF AskSysVersion
    <2>10. CASE CheckSwitch(r)
        BY <2>10 DEF CheckSwitch
    <2>11. CASE CreateBegin(r)
        BY <2>11 DEF CreateBegin
    <2>12. CASE CreateEnd(r)
        BY <2>12 DEF CreateEnd
    <2>13. CASE VarPrefix(r)
        BY <2>13 DEF VarPrefix
    <2>14. CASE CheckPkg(r)
        BY <2>14 DEF CheckPkg
    <2>15. CASE InstallBegin(r)
        BY <2>15 DEF InstallBegin
    <2>16. CASE InstallEnd(r)
        BY <2>16 DEF InstallEnd
    <2>17. CASE VarLib(r)
        BY <2>17 DEF VarLib
    <2>18. CASE ListDeps(r)
        BY <2>18 DEF ListDeps
    <2>19. CASE Fault(r)
        BY <2>19 DEF Fault, Release
    <2>20. CASE Crash(r)
        BY <2>20 DEF Crash, Release
    <2>21. CASE TimeOut(r)
        BY <2>21 DEF TimeOut, Release
    <2>22. QED
        BY <1>2, <2>1, <2>2, <2>3, <2>4, <2>5, <2>v, <2>6, <2>7, <2>8, <2>9, <2>10,
           <2>11, <2>12, <2>13, <2>14, <2>15, <2>16, <2>17, <2>18, <2>19, <2>20, <2>21
        DEF config_xdg_toolchain
<1>3. QED
    BY <1>1, <1>2 DEF Next

(* opam's lock is held by the evaluation whose command is running, and the *)
(* command's target and what it is built on stay as the command found them.*)
LEMMA BuilderPreserved ==
    IInv /\ [Next]_vars => (\A q \in Run : OneBuilder(q))'
<1> SUFFICES ASSUME IInv, [Next]_vars
             PROVE  (\A q \in Run : OneBuilder(q))'
    OBVIOUS
<1> USE ConstantTypes DEF IInv, Go, disk, locals, bounds,
        TypeOK, Artefact, Stage, Running, Stopped, Sane, InSwitch, BeforeSwitch,
            OneBuilder, Locked, OpamBusy
<1>1. CASE UNCHANGED vars
    BY <1>1 DEF vars
<1>2. ASSUME NEW r \in Run, \/ Start(r) \/ config_xdg_toolchain(r)
                             \/ Fault(r) \/ Crash(r) \/ TimeOut(r)
      PROVE  (\A q \in Run : OneBuilder(q))'
    <2>1. CASE Start(r)
        BY <2>1 DEF Start
    <2>2. CASE CheckBin(r)
        BY <2>2 DEF CheckBin, AfterBin
    <2>3. CASE Download(r)
        BY <2>3 DEF Download
    <2>4. CASE CopyBegin(r)
        BY <2>4 DEF CopyBegin
    <2>5. CASE CopyEnd(r)
        BY <2>5 DEF CopyEnd, AfterBin
    <2>v. CASE AskVersion(r)
        BY <2>v DEF AskVersion
    <2>6. CASE CheckRoot(r)
        BY <2>6 DEF CheckRoot, AfterRoot
    <2>7. CASE InitBegin(r)
        BY <2>7 DEF InitBegin, AfterRoot
    <2>8. CASE InitEnd(r)
        BY <2>8 DEF InitEnd, AfterRoot
    <2>9. CASE AskSysVersion(r)
        BY <2>9 DEF AskSysVersion
    <2>10. CASE CheckSwitch(r)
        BY <2>10 DEF CheckSwitch
    <2>11. CASE CreateBegin(r)
        <3>1. SwitchId(r) \in Version
            BY <2>11 DEF CreateBegin
        <3>2. CASE UNCHANGED <<switch, lock>>
            BY <2>11, <3>2 DEF CreateBegin, Initialised
        <3>3. CASE /\ Initialised /\ lock = None
                   /\ switch' = [switch EXCEPT ![SwitchId(r)] = "partial"]
                   /\ lock' = r
                   /\ pc' = [pc EXCEPT ![r] = "createRun"]
                   /\ UNCHANGED <<root, lib, todo>>
            BY <3>1, <3>3 DEF Initialised
        <3>4. QED
            BY <2>11, <3>2, <3>3 DEF CreateBegin
    <2>12. CASE CreateEnd(r)
        BY <2>12 DEF CreateEnd
    <2>13. CASE VarPrefix(r)
        BY <2>13 DEF VarPrefix
    <2>14. CASE CheckPkg(r)
        BY <2>14 DEF CheckPkg
    <2>15. CASE InstallBegin(r)
        <3>1. SwitchId(r) \in Version /\ Head(todo[r]) \in Pkg
            BY <2>15, HeadTail DEF InstallBegin
        <3>2. CASE UNCHANGED <<lib, lock>>
            BY <2>15, <3>2 DEF InstallBegin
        <3>3. CASE /\ Initialised /\ lock = None
                   /\ switch[SwitchId(r)] = "ok"
                   /\ lib' = [lib EXCEPT ![SwitchId(r)][Head(todo[r])] = "partial"]
                   /\ lock' = r
                   /\ pc' = [pc EXCEPT ![r] = "installRun"]
                   /\ UNCHANGED <<root, switch, todo>>
            BY <3>1, <3>3, LibUpdate DEF Initialised
        <3>4. QED
            BY <2>15, <3>2, <3>3 DEF InstallBegin
    <2>16. CASE InstallEnd(r)
        BY <2>16 DEF InstallEnd
    <2>17. CASE VarLib(r)
        BY <2>17 DEF VarLib
    <2>18. CASE ListDeps(r)
        BY <2>18 DEF ListDeps
    <2>19. CASE Fault(r)
        BY <2>19 DEF Fault, Release
    <2>20. CASE Crash(r)
        BY <2>20 DEF Crash, Release
    <2>21. CASE TimeOut(r)
        BY <2>21 DEF TimeOut, Release
    <2>22. QED
        BY <1>2, <2>1, <2>2, <2>3, <2>4, <2>5, <2>v, <2>6, <2>7, <2>8, <2>9, <2>10,
           <2>11, <2>12, <2>13, <2>14, <2>15, <2>16, <2>17, <2>18, <2>19, <2>20, <2>21
        DEF config_xdg_toolchain
<1>3. QED
    BY <1>1, <1>2 DEF Next

(* No step takes the builder of a half-built artefact away, and a step     *)
(* that half builds one has become its builder.                            *)
LEMMA OrphansPreserved ==
    IInv /\ [Next]_vars => NoOrphans'
<1> SUFFICES ASSUME IInv, [Next]_vars
             PROVE  NoOrphans'
    OBVIOUS
<1> USE ConstantTypes DEF IInv, Go, disk, locals, bounds,
        TypeOK, Artefact, Stage, Running, Stopped, Sane, InSwitch, BeforeSwitch,
            OneBuilder, Locked, NoOrphans, OrphanBin, OrphanRoot, OrphanSwitch, OrphanPkg,
            Copying, Initialising, Creating, Installing, OpamBusy
<1>1. CASE UNCHANGED vars
    BY <1>1 DEF vars
<1>2. ASSUME NEW r \in Run, \/ Start(r) \/ config_xdg_toolchain(r)
                             \/ Fault(r) \/ Crash(r) \/ TimeOut(r)
      PROVE  NoOrphans'
    <2>1. CASE Start(r)
        BY <2>1 DEF Start
    <2>2. CASE CheckBin(r)
        BY <2>2 DEF CheckBin, AfterBin
    <2>3. CASE Download(r)
        BY <2>3 DEF Download
    <2>4. CASE CopyBegin(r)
        BY <2>4 DEF CopyBegin
    <2>5. CASE CopyEnd(r)
        BY <2>5 DEF CopyEnd, AfterBin
    <2>v. CASE AskVersion(r)
        BY <2>v DEF AskVersion
    <2>6. CASE CheckRoot(r)
        BY <2>6 DEF CheckRoot, AfterRoot
    <2>7. CASE InitBegin(r)
        BY <2>7 DEF InitBegin, AfterRoot
    <2>8. CASE InitEnd(r)
        BY <2>8 DEF InitEnd, AfterRoot
    <2>9. CASE AskSysVersion(r)
        BY <2>9 DEF AskSysVersion
    <2>10. CASE CheckSwitch(r)
        BY <2>10 DEF CheckSwitch
    <2>11. CASE CreateBegin(r)
        BY <2>11 DEF CreateBegin
    <2>12. CASE CreateEnd(r)
        BY <2>12 DEF CreateEnd
    <2>13. CASE VarPrefix(r)
        BY <2>13 DEF VarPrefix
    <2>14. CASE CheckPkg(r)
        <3>1. pc[r] = "pkgs" /\ pc'[r] \in {"pkgs", "varLib", "install"}
            BY <2>14 DEF CheckPkg
        <3>2. /\ \A q \in Run \ {r} : pc'[q] = pc[q] /\ todo'[q] = todo[q]
              /\ UNCHANGED <<bin, writer, root, switch, lib, kills>>
            BY <2>14 DEF CheckPkg
        <3>3. \A q \in Run :
                  /\ Copying(q) => Copying(q)'
                  /\ Initialising(q) => Initialising(q)'
                  /\ \A v \in Version : Creating(q, v) => Creating(q, v)'
            BY <3>1, <3>2
        <3>4. \A q \in Run, v \in Version, p \in Pkg :
                  Installing(q, v, p) => Installing(q, v, p)'
            <4>1. \A q \in Run : pc[q] = "installRun" =>
                      pc'[q] = "installRun" /\ todo'[q] = todo[q]
                BY <3>1, <3>2
            <4>2. QED
                BY <4>1, Zenon
        <3> HIDE DEF Copying, Initialising, Creating, Installing
        <3>5. QED
            BY <3>2, <3>3, <3>4
    <2>15. CASE InstallBegin(r)
        <3>1. PICK v0 \in Version, p0 \in Pkg : v0 = SwitchId(r) /\ p0 = Head(todo[r])
            BY <2>15, HeadTail DEF InstallBegin
        <3>2. /\ pc[r] = "install"
              /\ \A q \in Run \ {r} : pc'[q] = pc[q] /\ todo'[q] = todo[q]
              /\ UNCHANGED <<bin, writer, root, switch, kills>>
            BY <2>15 DEF InstallBegin
        <3>3. \A q \in Run :
                  /\ Copying(q) => Copying(q)'
                  /\ Initialising(q) => Initialising(q)'
                  /\ \A v \in Version : Creating(q, v) => Creating(q, v)'
            BY <3>2
        <3>4. \A q \in Run, v \in Version, p \in Pkg :
                  Installing(q, v, p) => Installing(q, v, p)'
            BY <3>2
        <3>5. \/ lib' = lib
              \/ lib' = [lib EXCEPT ![v0][p0] = "partial"] /\ Installing(r, v0, p0)'
            BY <2>15, <3>1 DEF InstallBegin
        <3> HIDE DEF Copying, Initialising, Creating, Installing
        <3>6. \A v \in Version, p \in Pkg :
                  lib'[v][p] = lib[v][p] \/ Installing(r, v, p)'
            <4> TAKE v \in Version, p \in Pkg
            <4>1. CASE v = v0 /\ p = p0
                BY <3>5, <4>1
            <4>2. CASE ~(v = v0 /\ p = p0)
                BY <3>5, <4>2, LibUpdate
            <4>3. QED
                BY <4>1, <4>2
        <3>7. QED
            BY <3>2, <3>3, <3>4, <3>6
    <2>16. CASE InstallEnd(r)
        BY <2>16 DEF InstallEnd
    <2>17. CASE VarLib(r)
        BY <2>17 DEF VarLib
    <2>18. CASE ListDeps(r)
        BY <2>18 DEF ListDeps
    <2>19. CASE Fault(r)
        <3>1. CASE pc[r] = "installRun"
            <4>1. PICK v0 \in Version, p0 \in Pkg :
                      v0 = SwitchId(r) /\ p0 = Head(todo[r])
                BY <3>1, HeadTail
            <4>2. /\ lib' = [lib EXCEPT ![v0][p0] = "absent"]
                  /\ \A q \in Run \ {r} : pc'[q] = pc[q]
                  /\ UNCHANGED <<bin, writer, root, switch, todo, kills>>
                BY <2>19, <3>1, <4>1 DEF Fault
            <4>3. \A q \in Run :
                      /\ Copying(q) => Copying(q)'
                      /\ Initialising(q) => Initialising(q)'
                      /\ \A v \in Version : Creating(q, v) => Creating(q, v)'
                BY <3>1, <4>2
            <4>4. \A q \in Run, v \in Version, p \in Pkg :
                      Installing(q, v, p) =>
                          Installing(q, v, p)' \/ <<v, p>> = <<v0, p0>>
                BY <3>1, <4>1, <4>2
            <4>5. /\ lib'[v0][p0] = "absent"
                  /\ \A v \in Version, p \in Pkg :
                        <<v, p>> # <<v0, p0>> => lib'[v][p] = lib[v][p]
                BY <4>1, <4>2, LibUpdate
            <4> HIDE DEF Copying, Initialising, Creating, Installing
            <4>6. kills' = 0 => \A v \in Version, p \in Pkg : ~OrphanPkg(v, p)'
                BY <4>2, <4>4, <4>5
            <4>7. kills' = 0 => /\ ~OrphanBin' /\ ~OrphanRoot'
                                /\ \A v \in Version : ~OrphanSwitch(v)'
                BY <4>2, <4>3
            <4> HIDE DEF OrphanBin, OrphanRoot, OrphanSwitch, OrphanPkg
            <4>8. QED
                BY <4>6, <4>7
        <3>2. CASE pc[r] # "installRun"
            <4>1. /\ lib' = lib /\ UNCHANGED <<bin, writer, todo, kills>>
                  /\ \A q \in Run \ {r} : pc'[q] = pc[q]
                BY <2>19, <3>2 DEF Fault
            <4>2. \A q \in Run, v \in Version, p \in Pkg :
                      Installing(q, v, p) => Installing(q, v, p)'
                BY <3>2, <4>1
            <4>3. CASE pc[r] = "download"
                BY <2>19, <4>1, <4>2, <4>3 DEF Fault
            <4>4. CASE pc[r] = "initRun"
                BY <2>19, <4>1, <4>2, <4>4 DEF Fault
            <4>5. CASE pc[r] = "createRun"
                <5>1. SwitchId(r) \in Version /\ root' = root
                      /\ switch' = [switch EXCEPT ![SwitchId(r)] = "absent"]
                    BY <2>19, <4>5 DEF Fault
                <5>2. \A q \in Run, v \in Version :
                          Creating(q, v) => Creating(q, v)' \/ v = SwitchId(r)
                    BY <4>1, <4>5
                <5>3. \A q \in Run : /\ Copying(q) => Copying(q)'
                                     /\ Initialising(q) => Initialising(q)'
                    BY <4>1, <4>5
                <5> HIDE DEF Copying, Initialising, Creating, Installing
                <5>4. QED
                    BY <4>1, <4>2, <5>1, <5>2, <5>3
            <4>6. QED
                BY <2>19, <3>2, <4>3, <4>4, <4>5 DEF Fault
        <3>3. QED
            BY <3>1, <3>2
    <2>20. CASE Crash(r)
        BY <2>20 DEF Crash, Release
    <2>21. CASE TimeOut(r)
        BY <2>21 DEF TimeOut, Release
    <2>22. QED
        BY <1>2, <2>1, <2>2, <2>3, <2>4, <2>5, <2>v, <2>6, <2>7, <2>8, <2>9, <2>10,
           <2>11, <2>12, <2>13, <2>14, <2>15, <2>16, <2>17, <2>18, <2>19, <2>20, <2>21
        DEF config_xdg_toolchain
<1>3. QED
    BY <1>1, <1>2 DEF Next

-----------------------------------------------------------------------------
(* The directory starts empty and nobody is at work in it.                 *)
LEMMA InitIInv == Init => IInv
    BY Assumptions DEF Init, IInv, TypeOK, Artefact, Stage, Running, Stopped,
        Sane, InSwitch, BeforeSwitch, OneBuilder, Locked, NoOrphans, OrphanBin, OrphanRoot,
        OrphanSwitch, OrphanPkg

LEMMA Invariance == Spec => []IInv
<1>1. IInv /\ [Next]_vars => IInv'
    BY TypePreserved, SanePreserved, BuilderPreserved, OrphansPreserved DEF IInv
<1>2. QED
    BY InitIInv, <1>1, PTL DEF Spec

(* The variables keep their types, whatever the projects do.               *)
THEOREM TypeCorrect == Spec => []TypeOK
    BY Invariance, PTL DEF IInv

(* While nothing was killed, a half-built artefact has its builder at work,*)
(* however many projects share the directory.                              *)
THEOREM NoOrphansCorrect == Spec => []NoOrphans
    BY Invariance, PTL DEF IInv

(* No two opam commands change the root at once, and none is running on a  *)
(* root, or in a switch, that is not complete.                             *)
THEOREM OneBuilderCorrect == Spec => [](\A r \in Run : OneBuilder(r))
<1>1. IInv => \A r \in Run : OneBuilder(r)
    BY DEF IInv
<1>2. QED
    BY Invariance, <1>1, PTL

(* Moving on to a stage that changes nothing keeps everyone served.        *)
LEMMA MoveOn ==
    ASSUME TypeOK, Provisioned, NEW r \in Run,
           NEW stage \in Stage \ (Running \cup
               {"download", "cp", "init", "create", "install"}),
           stage \in {"checkSwitch", "varPrefix", "pkgs", "varLib", "ls"} =>
               ocaml[r] = SwitchId(r),
           Go(r, stage), UNCHANGED <<disk, locals>>
    PROVE  Provisioned' /\ UNCHANGED disk
<1>1. /\ UNCHANGED <<bin, writer, root, switch, lib, ocaml, todo>>
      /\ pc'[r] = stage
      /\ \A q \in Run \ {r} : pc'[q] = pc[q]
    BY DEF TypeOK, Go, disk, locals
<1>2. \A q \in Run \ {r} : Served(q)'
    BY <1>1 DEF Provisioned, Served
<1>3. Served(r)'
    BY <1>1 DEF Provisioned, Served
<1>4. QED
    BY <1>1, <1>2, <1>3 DEF Provisioned, disk

(* A new evaluation wants what is there.                                   *)
LEMMA StartServed ==
    ASSUME TypeOK, Provisioned, NEW r \in Run, Start(r)
    PROVE  Provisioned' /\ UNCHANGED disk
<1>1. /\ UNCHANGED <<bin, writer, root, switch, lib>>
      /\ pc'[r] = "checkBin" /\ todo'[r] = WantPkgs[r]
      /\ \A q \in Run \ {r} :
            pc'[q] = pc[q] /\ ocaml'[q] = ocaml[q] /\ todo'[q] = todo[q]
    BY ConstantTypes DEF TypeOK, Start, Go, disk
<1>2. \A q \in Run \ {r} : Served(q)'
    BY <1>1 DEF Provisioned, Served
<1>3. Served(r)'
    BY <1>1 DEF Provisioned, Served, Running
<1>4. QED
    BY <1>1, <1>2, <1>3 DEF Provisioned, disk

(* Once everything is provisioned, a step finds every check satisfied and  *)
(* leaves the disk as it is.                                               *)
LEMMA ProvisionedStep ==
    IInv /\ [Next]_vars => (Provisioned => Provisioned' /\ UNCHANGED disk)
<1> SUFFICES ASSUME TypeOK, \A q \in Run : Sane(q), [Next]_vars, Provisioned
             PROVE  Provisioned' /\ UNCHANGED disk
    BY DEF IInv
<1> USE ConstantTypes DEF TypeOK, Artefact, Stage, Running, Stopped,
        Go, disk, locals, bounds, Provisioned, Served, file_exists
<1>1. CASE UNCHANGED vars
    BY <1>1 DEF vars
<1>2. ASSUME NEW r \in Run, \/ Start(r) \/ config_xdg_toolchain(r)
                             \/ Fault(r) \/ Crash(r) \/ TimeOut(r)
      PROVE  Provisioned' /\ UNCHANGED disk
    <2>1. CASE Start(r)
        <3> HIDE DEF Go, disk, locals, Provisioned, TypeOK
        <3>1. QED
            BY <2>1, StartServed
    <2>2. CASE CheckBin(r)
        <3>1. UNCHANGED <<disk, locals>> /\ (Go(r, "version") \/ Go(r, "checkRoot"))
            BY <2>2 DEF CheckBin, AfterBin
        <3> HIDE DEF Go, disk, locals, Provisioned, TypeOK
        <3>2. QED
            BY <3>1, MoveOn
    <2>3. CASE Download(r)
        BY <2>3 DEF Download
    <2>4. CASE CopyBegin(r)
        BY <2>4 DEF CopyBegin
    <2>5. CASE CopyEnd(r)
        BY <2>5 DEF CopyEnd, AfterBin
    <2>v. CASE AskVersion(r)
        <3>1. UNCHANGED <<disk, locals>> /\ (Go(r, "checkRoot") \/ Go(r, "failed"))
            BY <2>v DEF AskVersion
        <3> HIDE DEF Go, disk, locals, Provisioned, TypeOK
        <3>2. QED
            BY <3>1, MoveOn
    <2>6. CASE CheckRoot(r)
        BY <2>6 DEF CheckRoot, AfterRoot, SwitchId, Sane, BeforeSwitch
    <2>7. CASE InitBegin(r)
        BY <2>7 DEF InitBegin
    <2>8. CASE InitEnd(r)
        BY <2>8 DEF InitEnd
    <2>9. CASE AskSysVersion(r)
        BY <2>9 DEF AskSysVersion, SwitchId, Sane
    <2>10. CASE CheckSwitch(r)
        BY <2>10 DEF CheckSwitch
    <2>11. CASE CreateBegin(r)
        BY <2>11 DEF CreateBegin
    <2>12. CASE CreateEnd(r)
        BY <2>12 DEF CreateEnd
    <2>13. CASE VarPrefix(r)
        <3>1. /\ pc[r] = "varPrefix" /\ UNCHANGED <<disk, locals>>
              /\ Go(r, "pkgs") \/ Go(r, "failed")
            BY <2>13 DEF VarPrefix
        <3>2. ocaml[r] = SwitchId(r)
            BY <3>1
        <3> HIDE DEF Go, disk, locals, Provisioned, TypeOK
        <3>3. QED
            BY <3>1, <3>2, MoveOn
    <2>14. CASE CheckPkg(r)
        <3>1. /\ pc[r] = "pkgs" /\ UNCHANGED <<disk, ocaml>>
              /\ \/ todo[r] = <<>> /\ pc' = [pc EXCEPT ![r] = "varLib"] /\ todo' = todo
                 \/ /\ todo[r] # <<>> /\ pc' = pc
                    /\ todo' = [todo EXCEPT ![r] = Tail(todo[r])]
            <4>1. ocaml[r] = SwitchId(r) /\ ocaml[r] # None
                BY <2>14 DEF CheckPkg
            <4>2. todo[r] # <<>> => is_pkg_installed(r, Head(todo[r]))
                BY <4>1 DEF is_pkg_installed
            <4>3. QED
                BY <2>14, <4>2 DEF CheckPkg
        <3>2. todo[r] # <<>> =>
                  \A i \in 1..Len(Tail(todo[r])) :
                      /\ i + 1 \in 1..Len(todo[r])
                      /\ Tail(todo[r])[i] = todo[r][i + 1]
            OBVIOUS
        <3>3. \A q \in Run : \A i \in 1..Len(todo'[q]) :
                  lib[SwitchId(q)][todo'[q][i]] # "absent"
            <4>1. \A i \in 1..Len(todo'[r]) :
                      lib[SwitchId(r)][todo'[r][i]] # "absent"
                <5>1. CASE todo' = todo
                    BY <5>1
                <5>2. CASE /\ todo[r] # <<>>
                           /\ todo' = [todo EXCEPT ![r] = Tail(todo[r])]
                    <6>1. todo'[r] = Tail(todo[r])
                        BY <5>2
                    <6>2. \A i \in 1..Len(todo[r]) :
                              lib[SwitchId(r)][todo[r][i]] # "absent"
                        OBVIOUS
                    <6>3. QED
                        BY ONLY <3>2, <5>2, <6>1, <6>2
                <5>3. QED
                    BY <3>1, <5>1, <5>2
            <4>2. \A q \in Run \ {r} : todo'[q] = todo[q]
                BY <3>1
            <4>3. \A q \in Run : \A i \in 1..Len(todo[q]) :
                      lib[SwitchId(q)][todo[q][i]] # "absent"
                OBVIOUS
            <4>4. QED
                BY ONLY <4>1, <4>2, <4>3
        <3>4. QED
            BY <3>1, <3>3
    <2>15. CASE InstallBegin(r)
        BY <2>15 DEF InstallBegin
    <2>16. CASE InstallEnd(r)
        BY <2>16 DEF InstallEnd
    <2>17. CASE VarLib(r)
        <3>1. /\ pc[r] = "varLib" /\ UNCHANGED <<disk, locals>>
              /\ Go(r, "ls") \/ Go(r, "failed")
            BY <2>17 DEF VarLib
        <3>2. ocaml[r] = SwitchId(r)
            BY <3>1
        <3> HIDE DEF Go, disk, locals, Provisioned, TypeOK
        <3>3. QED
            BY <3>1, <3>2, MoveOn
    <2>18. CASE ListDeps(r)
        BY <2>18 DEF ListDeps
    <2>19. CASE Fault(r)
        BY <2>19 DEF Fault
    <2>20. CASE Crash(r)
        BY <2>20 DEF Crash
    <2>21. CASE TimeOut(r)
        BY <2>21 DEF TimeOut
    <2>22. QED
        BY <1>2, <2>1, <2>2, <2>3, <2>4, <2>5, <2>v, <2>6, <2>7, <2>8, <2>9, <2>10,
           <2>11, <2>12, <2>13, <2>14, <2>15, <2>16, <2>17, <2>18, <2>19, <2>20, <2>21
        DEF config_xdg_toolchain
<1>3. QED
    BY <1>1, <1>2 DEF Next

(* A configured switch is left alone: from then on no evaluation, retry or *)
(* crash changes the shared directory.                                     *)
THEOREM NoUpdateCorrect == Spec => NoUpdateWhenProvisioned
<1>1. IInv /\ [Next]_vars
      => [Provisioned => Provisioned' /\ UNCHANGED disk]_vars
    BY ProvisionedStep
<1>2. QED
    BY Invariance, <1>1, PTL DEF Spec, NoUpdateWhenProvisioned

-----------------------------------------------------------------------------
(* The abstract specification.                                             *)

(* A step that completes and undoes nothing is not seen.                   *)
LEMMA Unseen ==
    ASSUME \A v \in Version : switch'[v] = "ok" <=> switch[v] = "ok",
           \A v \in Version, p \in Pkg : lib'[v][p] = "ok" <=> lib[v][p] = "ok"
    PROVE  UNCHANGED Provision!vars
<1>1. \A v \in Version :
         {p \in Pkg : lib'[v][p] = "ok"} = {p \in Pkg : lib[v][p] = "ok"}
    OBVIOUS
<1>2. QED
    BY <1>1 DEF Provision!vars

LEMMA CreateEndProvisions ==
    ASSUME IInv, NEW r \in Run, CreateEnd(r)
    PROVE  Provision!Create(SwitchId(r))
<1> DEFINE s == SwitchId(r)
           version == [v \in Version |-> IF switch[v] = "ok" THEN v ELSE None]
           have == [v \in Version |-> {p \in Pkg : lib[v][p] = "ok"}]
<1>1. s \in Version /\ switch[s] = "partial"
    BY DEF IInv, Sane, OneBuilder, CreateEnd, InSwitch
<1>2. switch' = [switch EXCEPT ![s] = "ok"] /\ lib' = lib
    BY DEF CreateEnd
<1>3. version[s] = None
    BY <1>1
<1>4. version' = [version EXCEPT ![s] = s]
    BY <1>1, <1>2 DEF IInv, TypeOK
<1>5. have' = [have EXCEPT ![s] = have[s]] /\ have[s] \in SUBSET Pkg
    BY <1>1, <1>2
<1>6. QED
    BY <1>1, <1>3, <1>4, <1>5 DEF Provision!Create

LEMMA InstallEndProvisions ==
    ASSUME IInv, NEW r \in Run, InstallEnd(r)
    PROVE  Provision!Install(SwitchId(r))
<1> DEFINE s == SwitchId(r)
           q == Head(todo[r])
           version == [v \in Version |-> IF switch[v] = "ok" THEN v ELSE None]
           have == [v \in Version |-> {p \in Pkg : lib[v][p] = "ok"}]
<1>1. s \in Version /\ switch[s] = "ok" /\ q \in Pkg
    BY HeadTail DEF IInv, TypeOK, Sane, OneBuilder, InstallEnd, InSwitch
<1>2. lib' = [lib EXCEPT ![s][q] = "ok"] /\ switch' = switch
    BY DEF InstallEnd
<1>3. version[s] # None /\ version' = version
    BY <1>1, <1>2, ConstantTypes
<1>4. /\ lib'[s][q] = "ok"
      /\ \A w \in Version, p \in Pkg : <<w, p>> # <<s, q>> => lib'[w][p] = lib[w][p]
    BY <1>1, <1>2, LibUpdate DEF IInv, TypeOK, Artefact
<1>5. \A w \in Version : have'[w] = IF w = s THEN have[w] \cup {q} ELSE have[w]
    BY <1>1, <1>4
<1>6. have' = [have EXCEPT ![s] = @ \cup {q}] /\ {q} \in SUBSET Pkg
    BY <1>1, <1>5
<1>7. QED
    BY <1>3, <1>6 DEF Provision!Install

(* However many evaluations race in the shared directory, are killed, fail *)
(* or are retried, what has been provisioned stays.                        *)
THEOREM ProvisionsCorrect == Spec => Provisions
<1>1. Init => Provision!Init
    BY ConstantTypes DEF Init, Provision!Init, Provision!TypeOK
<1>2. IInv /\ [Next]_vars => [Provision!Next]_(Provision!vars)
    <2> SUFFICES ASSUME IInv, [Next]_vars
                 PROVE  Provision!Next \/ UNCHANGED Provision!vars
        OBVIOUS
    <2>1. CASE UNCHANGED <<switch, lib>>
        BY <2>1, Unseen
    <2>2. CASE UNCHANGED vars
        BY <2>1, <2>2 DEF vars, disk
    <2>3. ASSUME NEW r \in Run, \/ Start(r) \/ config_xdg_toolchain(r)
                                \/ Fault(r) \/ Crash(r) \/ TimeOut(r)
          PROVE  Provision!Next \/ UNCHANGED Provision!vars
        <3>1. CASE CreateBegin(r)
            <4>1. lib' = lib
                BY <3>1 DEF CreateBegin
            <4>2. \/ switch' = switch
                  \/ /\ switch' = [switch EXCEPT ![SwitchId(r)] = "partial"]
                     /\ switch[SwitchId(r)] # "ok"
                BY <3>1 DEF CreateBegin, file_exists
            <4>3. \A v \in Version : switch'[v] = "ok" <=> switch[v] = "ok"
                BY <4>2 DEF IInv, TypeOK
            <4>4. QED
                BY <4>1, <4>3, Unseen
        <3>2. CASE CreateEnd(r)
            <4>1. SwitchId(r) \in Version
                BY <3>2 DEF IInv, Sane, CreateEnd, InSwitch
            <4>2. QED
                BY <3>2, <4>1, CreateEndProvisions DEF Provision!Next
        <3>3. CASE InstallBegin(r)
            <4>1. SwitchId(r) \in Version /\ Head(todo[r]) \in Pkg
                BY <3>3, HeadTail DEF IInv, TypeOK, Sane, InstallBegin, InSwitch
            <4>2. \/ lib' = lib
                  \/ /\ lib' = [lib EXCEPT ![SwitchId(r)][Head(todo[r])] = "partial"]
                     /\ lib[SwitchId(r)][Head(todo[r])] # "ok"
                BY <3>3 DEF InstallBegin
            <4>3. \A v \in Version, p \in Pkg : lib'[v][p] = "ok" <=> lib[v][p] = "ok"
                <5>1. CASE lib' = lib
                    BY <5>1
                <5>2. CASE /\ lib' = [lib EXCEPT ![SwitchId(r)][Head(todo[r])] = "partial"]
                           /\ lib[SwitchId(r)][Head(todo[r])] # "ok"
                    BY <4>1, <5>2, LibUpdate DEF IInv, TypeOK, Artefact
                <5>3. QED
                    BY <4>2, <5>1, <5>2
            <4>4. switch' = switch
                BY <3>3 DEF InstallBegin
            <4>5. QED
                BY <4>3, <4>4, Unseen
        <3>4. CASE InstallEnd(r)
            <4>1. SwitchId(r) \in Version
                BY <3>4 DEF IInv, Sane, InstallEnd, InSwitch
            <4>2. QED
                BY <3>4, <4>1, InstallEndProvisions DEF Provision!Next
        <3>5. CASE Fault(r)
            <4>1. CASE UNCHANGED <<switch, lib>>
                BY <2>1, <4>1
            <4>2. CASE /\ pc[r] = "createRun" /\ lib' = lib
                       /\ switch' = [switch EXCEPT ![SwitchId(r)] = "absent"]
                <5>1. switch[SwitchId(r)] = "partial"
                    BY <4>2 DEF IInv, OneBuilder
                <5>2. \A v \in Version : switch'[v] = "ok" <=> switch[v] = "ok"
                    BY <4>2, <5>1 DEF IInv, TypeOK
                <5>3. QED
                    BY <4>2, <5>2, Unseen
            <4>3. CASE /\ pc[r] = "installRun" /\ switch' = switch
                       /\ lib' = [lib EXCEPT ![SwitchId(r)][Head(todo[r])] = "absent"]
                <5>1. lib[SwitchId(r)][Head(todo[r])] = "partial"
                    BY <4>3 DEF IInv, OneBuilder
                <5>2. SwitchId(r) \in Version /\ Head(todo[r]) \in Pkg
                    BY <4>3, HeadTail DEF IInv, TypeOK, Sane, InSwitch
                <5>3. \A v \in Version, p \in Pkg : lib'[v][p] = "ok" <=> lib[v][p] = "ok"
                    BY <4>3, <5>1, <5>2, LibUpdate DEF IInv, TypeOK, Artefact
                <5>4. QED
                    BY <4>3, <5>3, Unseen
            <4>4. QED
                BY <3>5, <4>1, <4>2, <4>3 DEF Fault
        <3>6. CASE ~CreateBegin(r) /\ ~CreateEnd(r) /\ ~InstallBegin(r)
                   /\ ~InstallEnd(r) /\ ~Fault(r)
            BY <2>1, <2>3, <3>6
               DEF disk, config_xdg_toolchain, Start, CheckBin, Download, CopyBegin,
                   CopyEnd, AskVersion, CheckRoot, InitBegin, InitEnd, AskSysVersion,
                   CheckSwitch, VarPrefix, CheckPkg, VarLib, ListDeps, Crash, TimeOut
        <3>7. QED
            BY <3>1, <3>2, <3>3, <3>4, <3>5, <3>6
    <2>4. QED
        BY <2>2, <2>3 DEF Next
<1>3. QED
    BY <1>1, <1>2, Invariance, PTL DEF Spec, Provisions, Provision!Spec

-----------------------------------------------------------------------------
(* What an evaluation has looked at.                                       *)

Members(s) == {s[i] : i \in DOMAIN s}
Wanted(r)  == Members(WantPkgs[r])

(* The stages before the loop over the packages, and the ones after it     *)
(* began.                                                                  *)
BeforeLoop == BeforeSwitch \cup {"checkSwitch", "create", "createRun", "varPrefix"}
InLoop     == {"pkgs", "install", "installRun", "varLib", "ls", "done"}

(* What the loop has dropped from its list was found, or installed, in the *)
(* switch the listing is taken of.                                         *)
Looked(r) ==
    /\ pc[r] \in BeforeLoop => todo[r] = WantPkgs[r]
    /\ pc[r] \in InSwitch => ocaml[r] \in {None, SwitchId(r)}
    /\ pc[r] \in {"varLib", "ls", "done"} => todo[r] = <<>>
    /\ kills = 0 /\ faults = 0 /\ pc[r] \in InLoop =>
          \A p \in Wanted(r) :
              p \in Members(todo[r]) \/ file_exists(lib[SwitchId(r)][p])
    /\ kills = 0 /\ faults = 0 /\ pc[r] = "done" => Wanted(r) \subseteq deps[r]

AllLooked == \A r \in Run : Looked(r)

LEMMA MembersHeadTail ==
    ASSUME NEW s \in Seq(Pkg), s # <<>>
    PROVE  Members(s) \subseteq {Head(s)} \cup Members(Tail(s))
<1> SUFFICES ASSUME NEW i \in DOMAIN s, s[i] # Head(s)
             PROVE  s[i] \in Members(Tail(s))
    BY DEF Members
<1>1. i - 1 \in DOMAIN Tail(s) /\ Tail(s)[i - 1] = s[i]
    OBVIOUS
<1>2. QED
    BY <1>1 DEF Members

LEMMA WantedPkgs == \A r \in Run : WantPkgs[r] \in Seq(Pkg) /\ Wanted(r) \subseteq Pkg
    BY ConstantTypes DEF Wanted, Members

(* A change that makes a package exist takes none away.                    *)
LEMMA LibGrows ==
    ASSUME TypeOK, NEW v \in Version, NEW p \in Pkg,
           NEW x \in {"partial", "ok"}, lib' = [lib EXCEPT ![v][p] = x]
    PROVE  \A w \in Version, q \in Pkg :
               file_exists(lib[w][q]) => file_exists(lib'[w][q])
    BY LibUpdate DEF TypeOK, Artefact, file_exists

(* A package that is there stays there while no command fails.             *)
LEMMA LibKept ==
    ASSUME IInv, NEW r \in Run, faults' = 0,
           \/ Start(r) \/ config_xdg_toolchain(r)
           \/ Fault(r) \/ Crash(r) \/ TimeOut(r)
    PROVE  \A v \in Version, p \in Pkg :
               file_exists(lib[v][p]) => file_exists(lib[v][p])'
<1> USE DEF file_exists
<1>1. CASE InstallBegin(r)
    <2>1. lib' = lib \/ (pc[r] = "install" /\
              lib' = [lib EXCEPT ![SwitchId(r)][Head(todo[r])] = "partial"])
        BY <1>1 DEF InstallBegin
    <2>2. pc[r] = "install" => SwitchId(r) \in Version /\ Head(todo[r]) \in Pkg
        BY HeadTail DEF IInv, TypeOK, Sane, InSwitch
    <2>3. QED
        BY <2>1, <2>2, LibGrows DEF IInv
<1>2. CASE InstallEnd(r)
    <2>1. /\ pc[r] = "installRun"
          /\ lib' = [lib EXCEPT ![SwitchId(r)][Head(todo[r])] = "ok"]
        BY <1>2 DEF InstallEnd
    <2>2. SwitchId(r) \in Version /\ Head(todo[r]) \in Pkg
        BY <2>1, HeadTail DEF IInv, TypeOK, Sane, InSwitch
    <2>3. QED
        BY <2>1, <2>2, LibGrows DEF IInv
<1>3. CASE Fault(r)
    BY <1>3, ConstantTypes DEF Fault, IInv, TypeOK
<1>4. CASE ~(InstallBegin(r) \/ InstallEnd(r) \/ Fault(r))
    <2>1. lib' = lib
        BY <1>4 DEF Start, config_xdg_toolchain, Crash, TimeOut, CheckBin, Download,
           CopyBegin, CopyEnd, AskVersion, CheckRoot, InitBegin, InitEnd, AskSysVersion,
           CheckSwitch, CreateBegin, CreateEnd, VarPrefix, CheckPkg, VarLib,
           ListDeps, disk
    <2>2. QED
        BY <2>1
<1>5. QED
    BY <1>1, <1>2, <1>3, <1>4

(* The counts of the environment's failures only go up.                    *)
LEMMA FailuresKept ==
    ASSUME IInv, NEW r \in Run,
           \/ Start(r) \/ config_xdg_toolchain(r)
           \/ Fault(r) \/ Crash(r) \/ TimeOut(r)
    PROVE  (kills' = 0 => kills = 0) /\ (faults' = 0 => faults = 0)
<1>1. CASE Fault(r) \/ Crash(r) \/ TimeOut(r)
    BY <1>1, ConstantTypes DEF Fault, Crash, TimeOut, IInv, TypeOK
<1>2. CASE ~(Fault(r) \/ Crash(r) \/ TimeOut(r))
    BY <1>2 DEF Start, config_xdg_toolchain, CheckBin, Download,
       CopyBegin, CopyEnd, AskVersion, CheckRoot, InitBegin, InitEnd, AskSysVersion,
       CheckSwitch, CreateBegin, CreateEnd, VarPrefix, CheckPkg, InstallBegin,
       InstallEnd, VarLib, ListDeps, bounds
<1>3. QED
    BY <1>1, <1>2

(* Others go on from where they are.                                       *)
LEMMA LookedOther ==
    ASSUME IInv, NEW r \in Run, NEW q \in Run \ {r}, Looked(q),
           \/ Start(r) \/ config_xdg_toolchain(r)
           \/ Fault(r) \/ Crash(r) \/ TimeOut(r)
    PROVE  Looked(q)'
<1>1. /\ pc'[q] = pc[q] /\ todo'[q] = todo[q]
      /\ ocaml'[q] = ocaml[q] /\ deps'[q] = deps[q]
    BY DEF IInv, TypeOK, Go, Start, config_xdg_toolchain, Crash, TimeOut, Fault,
       CheckBin, Download, CopyBegin, CopyEnd, AskVersion, CheckRoot, InitBegin, InitEnd,
       AskSysVersion, CheckSwitch, CreateBegin, CreateEnd, VarPrefix, CheckPkg,
       InstallBegin, InstallEnd, VarLib, ListDeps, locals
<1>2. pc[q] \in InLoop => SwitchId(q) \in Version
    BY DEF IInv, Sane, InLoop, InSwitch
<1>3. SwitchId(q)' = SwitchId(q) /\ Wanted(q)' = Wanted(q)
    BY DEF SwitchId, Wanted, Members
<1>4. Members(todo'[q]) = Members(todo[q])
    BY <1>1
<1>5. QED
    BY <1>1, <1>2, <1>3, <1>4, LibKept, FailuresKept, WantedPkgs
    DEF Looked

(* An evaluation that moves on without touching its list.                  *)
LEMMA LookedMoves ==
    ASSUME IInv, NEW r \in Run, Looked(r), NEW stage \in Stage,
           Go(r, stage), UNCHANGED <<todo, lib>>,
           ocaml'[r] \in {None, ocaml[r]},
           kills' = 0 => kills = 0, faults' = 0 => faults = 0,
           stage \in BeforeLoop => pc[r] \in BeforeLoop,
           stage \in InSwitch => pc[r] \in InSwitch \/ stage = "checkSwitch",
           stage = "checkSwitch" => ocaml'[r] \in {None, SwitchId(r)},
           stage \in {"varLib", "ls", "done"} => todo[r] = <<>>,
           stage \in InLoop => pc[r] \in InLoop \cup {"varPrefix"},
           stage # "done"
    PROVE  Looked(r)'
<1>1. /\ pc'[r] = stage /\ todo'[r] = todo[r] /\ lib' = lib
    BY DEF IInv, TypeOK, Go
<1>2. SwitchId(r)' = SwitchId(r) /\ Wanted(r)' = Wanted(r)
    BY DEF SwitchId, Wanted, Members
<1>3. Members(todo'[r]) = Members(todo[r])
    BY <1>1
<1>4. pc[r] = "varPrefix" => Wanted(r) = Members(todo[r])
    BY DEF Looked, BeforeLoop, Wanted
<1>5. QED
    BY <1>1, <1>2, <1>3, <1>4 DEF Looked, file_exists

(* One turn of the loop that found its package, or installed it.           *)
LEMMA LookedTurns ==
    ASSUME IInv, NEW r \in Run, Looked(r), Go(r, "pkgs"),
           pc[r] \in {"pkgs", "install", "installRun"}, todo[r] # <<>>,
           todo' = [todo EXCEPT ![r] = Tail(@)],
           ocaml'[r] = ocaml[r],
           UNCHANGED bounds,
           file_exists(lib'[SwitchId(r)][Head(todo[r])]),
           \A v \in Version, p \in Pkg :
               file_exists(lib[v][p]) => file_exists(lib[v][p])'
    PROVE  Looked(r)'
<1>1. pc'[r] = "pkgs" /\ todo'[r] = Tail(todo[r])
    BY DEF IInv, TypeOK, Go
<1>2. SwitchId(r)' = SwitchId(r) /\ Wanted(r)' = Wanted(r)
    BY DEF SwitchId, Wanted, Members
<1>3. SwitchId(r) \in Version
    BY DEF IInv, Sane, InSwitch
<1>4. Members(todo[r]) \subseteq {Head(todo[r])} \cup Members(todo'[r])
    BY <1>1, MembersHeadTail DEF IInv, TypeOK
<1>6. ASSUME kills' = 0, faults' = 0, NEW p \in Wanted(r)
      PROVE  p \in Members(todo'[r]) \/ file_exists(lib'[SwitchId(r)][p])
    <2>1. p \in Members(todo[r]) \/ file_exists(lib[SwitchId(r)][p])
        BY <1>6 DEF Looked, InLoop, bounds
    <2>2. p \in Pkg
        BY WantedPkgs
    <2>3. QED
        BY <1>3, <1>4, <2>1, <2>2 DEF file_exists
<1>7. QED
    BY <1>1, <1>2, <1>6 DEF Looked, BeforeLoop, BeforeSwitch, InSwitch, file_exists

(* The evaluation that takes the step.                                     *)
LEMMA LookedSelf ==
    ASSUME IInv, NEW r \in Run, Looked(r),
           \/ Start(r) \/ config_xdg_toolchain(r)
           \/ Fault(r) \/ Crash(r) \/ TimeOut(r)
    PROVE  Looked(r)'
<1>k. (kills' = 0 => kills = 0) /\ (faults' = 0 => faults = 0)
    BY FailuresKept
<1>s. pc[r] \in Stage /\ SwitchId(r)' = SwitchId(r) /\ Wanted(r)' = Wanted(r)
    BY DEF IInv, TypeOK, SwitchId, Wanted, Members
<1>w. pc[r] \in BeforeSwitch => ocaml[r] = WantVersion[r]
    BY DEF IInv, Sane
<1> USE DEF locals, disk, BeforeLoop, BeforeSwitch, InSwitch, InLoop, Stage,
        Running, Stopped
<1>1. CASE Start(r)
    <2>1. pc'[r] = "checkBin" /\ todo'[r] = WantPkgs[r]
        BY <1>1 DEF Start, Go, IInv, TypeOK
    <2>2. QED
        BY <2>1 DEF Looked
<1>2. CASE CheckBin(r)
    BY <1>2, <1>k, LookedMoves DEF CheckBin, AfterBin
<1>3. CASE Download(r)
    BY <1>3, <1>k, LookedMoves DEF Download
<1>4. CASE CopyBegin(r)
    BY <1>4, <1>k, LookedMoves DEF CopyBegin
<1>5. CASE CopyEnd(r)
    BY <1>5, <1>k, LookedMoves DEF CopyEnd, AfterBin
<1>v. CASE AskVersion(r)
    BY <1>v, <1>k, LookedMoves DEF AskVersion
<1>r. \/ AfterRoot(r) = "sysVersion"
      \/ AfterRoot(r) = "checkSwitch" /\ SwitchId(r) = WantVersion[r]
    BY DEF AfterRoot, SwitchId
<1>6. CASE CheckRoot(r)
    BY <1>6, <1>k, <1>r, <1>w, LookedMoves DEF CheckRoot
<1>7. CASE InitBegin(r)
    BY <1>7, <1>k, <1>r, <1>w, LookedMoves DEF InitBegin
<1>8. CASE InitEnd(r)
    BY <1>8, <1>k, <1>r, <1>w, LookedMoves DEF InitEnd
<1>9. CASE AskSysVersion(r)
    <2>1. /\ pc[r] = "sysVersion" /\ todo'[r] = todo[r]
          /\ pc'[r] \in {"checkSwitch", "failed"}
          /\ pc'[r] = "checkSwitch" => ocaml'[r] = SwitchId(r)
        BY <1>9 DEF AskSysVersion, Go, IInv, TypeOK, Sane, SwitchId
    <2>2. QED
        BY <1>s, <2>1 DEF Looked
<1>10. CASE CheckSwitch(r)
    BY <1>10, <1>k, LookedMoves DEF CheckSwitch, Looked
<1>11. CASE CreateBegin(r)
    <2>1. ocaml'[r] \in {None, ocaml[r]}
        BY <1>11 DEF CreateBegin, IInv, TypeOK
    <2>2. QED
        BY <1>11, <2>1, <1>k, LookedMoves DEF CreateBegin
<1>12. CASE CreateEnd(r)
    <2>1. ocaml'[r] = None
        BY <1>12 DEF CreateEnd, IInv, TypeOK
    <2>2. QED
        BY <1>12, <2>1, <1>k, LookedMoves DEF CreateEnd
<1>13. CASE VarPrefix(r)
    BY <1>13, <1>k, LookedMoves DEF VarPrefix
<1>14. CASE CheckPkg(r)
    <2>1. CASE todo[r] = <<>> /\ Go(r, "varLib") /\ UNCHANGED todo
        BY <1>14, <2>1, <1>k, LookedMoves DEF CheckPkg
    <2>2. CASE /\ todo[r] # <<>> /\ is_pkg_installed(r, Head(todo[r]))
               /\ todo' = [todo EXCEPT ![r] = Tail(@)] /\ UNCHANGED pc
        <3>1. ocaml[r] = SwitchId(r)
            BY <1>14, <2>2 DEF CheckPkg, is_pkg_installed, Looked
        <3>2. /\ file_exists(lib'[SwitchId(r)][Head(todo[r])])
              /\ UNCHANGED <<lib, bounds>> /\ ocaml' = ocaml
            BY <1>14, <2>2, <3>1 DEF CheckPkg, is_pkg_installed
        <3>3. pc[r] = "pkgs" /\ Go(r, "pkgs")
            BY <1>14, <2>2 DEF CheckPkg, Go, IInv, TypeOK
        <3>4. QED
            BY <2>2, <3>2, <3>3, LookedTurns DEF file_exists
    <2>3. CASE todo[r] # <<>> /\ Go(r, "install") /\ UNCHANGED todo
        BY <1>14, <2>3, <1>k, LookedMoves DEF CheckPkg
    <2>4. QED
        BY <1>14, <2>1, <2>2, <2>3 DEF CheckPkg
<1>15. CASE InstallBegin(r)
    <2>1. pc[r] = "install" /\ todo[r] # <<>> /\ SwitchId(r) \in Version
        BY <1>15 DEF InstallBegin, IInv, Sane
    <2>2. CASE Go(r, "failed") /\ UNCHANGED <<todo, lib>>
        BY <1>15, <2>2, <1>k, LookedMoves DEF InstallBegin
    <2>3. CASE /\ lib' = [lib EXCEPT ![SwitchId(r)][Head(todo[r])] = "partial"]
               /\ Go(r, "installRun") /\ UNCHANGED todo
        <3>1. Head(todo[r]) \in Pkg
            BY <2>1, HeadTail DEF IInv, TypeOK
        <3>2. \A p \in Pkg : file_exists(lib[SwitchId(r)][p])
                                => file_exists(lib'[SwitchId(r)][p])
            BY <2>1, <2>3, <3>1, LibGrows DEF IInv
        <3>3. /\ pc'[r] = "installRun" /\ ocaml'[r] = ocaml[r]
              /\ todo' = todo
            BY <1>15, <2>3 DEF InstallBegin, Go, IInv, TypeOK
        <3>4. Members(todo'[r]) = Members(todo[r])
            BY <3>3
        <3>5. QED
            BY <1>s, <1>k, <2>1, <3>2, <3>3, <3>4, WantedPkgs DEF Looked
    <2>4. CASE /\ lib[SwitchId(r)][Head(todo[r])] = "ok"
               /\ todo' = [todo EXCEPT ![r] = Tail(@)]
               /\ Go(r, "pkgs") /\ UNCHANGED lib
        <3>1. ocaml' = ocaml /\ UNCHANGED bounds
            BY <1>15 DEF InstallBegin
        <3>2. file_exists(lib'[SwitchId(r)][Head(todo[r])])
            BY <2>4 DEF file_exists
        <3>3. QED
            BY <2>1, <2>4, <3>1, <3>2, LookedTurns DEF file_exists
    <2>5. QED
        BY <1>15, <2>2, <2>3, <2>4 DEF InstallBegin
<1>16. CASE InstallEnd(r)
    <2>1. /\ pc[r] = "installRun" /\ todo[r] # <<>> /\ SwitchId(r) \in Version
          /\ lib' = [lib EXCEPT ![SwitchId(r)][Head(todo[r])] = "ok"]
          /\ todo' = [todo EXCEPT ![r] = Tail(@)]
          /\ Go(r, "pkgs") /\ ocaml' = ocaml /\ UNCHANGED bounds
        BY <1>16 DEF InstallEnd, IInv, Sane
    <2>2. Head(todo[r]) \in Pkg
        BY <2>1, HeadTail DEF IInv, TypeOK
    <2>3. \A v \in Version, p \in Pkg :
              file_exists(lib[v][p]) => file_exists(lib'[v][p])
        BY <2>1, <2>2, LibGrows DEF IInv
    <2>4. file_exists(lib'[SwitchId(r)][Head(todo[r])])
        BY <2>1, <2>2, LibUpdate DEF IInv, TypeOK, Artefact, file_exists
    <2>5. QED
        BY <2>1, <2>3, <2>4, LookedTurns DEF file_exists
<1>17. CASE VarLib(r)
    BY <1>17, <1>k, LookedMoves DEF VarLib, Looked
<1>18. CASE ListDeps(r)
    <2>1. CASE Go(r, "failed") /\ UNCHANGED deps
        BY <1>18, <2>1, <1>k, LookedMoves DEF ListDeps
    <2>2. CASE /\ deps' = [deps EXCEPT ![r] =
                              {p \in Pkg : file_exists(lib[SwitchId(r)][p])}]
               /\ Go(r, "done")
        <3>1. /\ pc[r] = "ls" /\ pc'[r] = "done"
              /\ deps'[r] = {p \in Pkg : file_exists(lib[SwitchId(r)][p])}
              /\ UNCHANGED <<lib, ocaml, todo, bounds>>
            BY <1>18, <2>2 DEF ListDeps, Go, IInv, TypeOK
        <3>2. todo[r] = <<>> /\ Members(todo[r]) = {}
            BY <3>1 DEF Looked, Members
        <3>3. kills = 0 /\ faults = 0 =>
                  \A p \in Wanted(r) : file_exists(lib[SwitchId(r)][p])
            BY <3>1, <3>2 DEF Looked
        <3>4. kills = 0 /\ faults = 0 => Wanted(r) \subseteq deps'[r]
            BY <3>1, <3>3, WantedPkgs
        <3>5. QED
            BY <1>s, <3>1, <3>2, <3>3, <3>4 DEF Looked, bounds, file_exists
    <2>3. QED
        BY <1>18, <2>1, <2>2 DEF ListDeps
<1>19. CASE Fault(r) \/ Crash(r) \/ TimeOut(r)
    <2>1. pc'[r] \in {"failed", "idle"}
        BY <1>19 DEF Fault, Crash, TimeOut, Go, IInv, TypeOK
    <2>2. QED
        BY <2>1 DEF Looked
<1>20. QED
    BY <1>1, <1>2, <1>3, <1>4, <1>5, <1>v, <1>6, <1>7, <1>8, <1>9, <1>10, <1>11, <1>12,
       <1>13, <1>14, <1>15, <1>16, <1>17, <1>18, <1>19 DEF config_xdg_toolchain

LEMMA LookedPreserved ==
    IInv /\ AllLooked /\ [Next]_vars => AllLooked'
<1> SUFFICES ASSUME IInv, AllLooked, [Next]_vars, NEW q \in Run
             PROVE  Looked(q)'
    BY DEF AllLooked
<1> USE DEF AllLooked
<1>1. CASE UNCHANGED vars
    <2>1. UNCHANGED <<pc, todo, ocaml, deps, lib, kills, faults>>
        BY <1>1 DEF vars, disk, locals, bounds
    <2>2. UNCHANGED <<SwitchId(q), Wanted(q), Members(todo[q])>>
        BY <2>1 DEF SwitchId, Wanted, Members
    <2>3. QED
        BY <2>1, <2>2 DEF Looked, file_exists
<1>2. CASE Next
    BY <1>2, LookedSelf, LookedOther DEF Next
<1>3. QED
    BY <1>1, <1>2

(* For any number of projects, versions and packages: an evaluation that   *)
(* returned while nothing was killed or failed lists every package it was  *)
(* asked for, and each is installed or has its installer at work.          *)
THEOREM DoneHasPackagesCorrect == Spec => []DoneHasPackages
<1>1. Init => AllLooked
    BY DEF Init, AllLooked, Looked, BeforeLoop, BeforeSwitch, InSwitch, InLoop
<1>2. IInv /\ AllLooked => DoneHasPackages
    <2> SUFFICES ASSUME IInv, \A r \in Run : Looked(r), kills = 0, faults = 0,
                        NEW r \in Run, pc[r] = "done",
                        NEW i \in DOMAIN WantPkgs[r]
                 PROVE  LET v == SwitchId(r)
                            p == WantPkgs[r][i]
                        IN  /\ p \in deps[r]
                            /\ \/ lib[v][p] = "ok"
                               \/ \E q \in Run \ {r} : Installing(q, v, p)
        BY DEF DoneHasPackages, AllLooked
    <2>1. WantPkgs[r][i] \in Wanted(r) /\ WantPkgs[r][i] \in Pkg
        BY WantedPkgs DEF Wanted, Members
    <2>2. SwitchId(r) \in Version
        BY DEF IInv, Sane, InSwitch
    <2>3. todo[r] = <<>> /\ Members(todo[r]) = {}
        BY DEF Looked, Members
    <2>4. lib[SwitchId(r)][WantPkgs[r][i]] \in {"partial", "ok"}
        BY <2>1, <2>2, <2>3 DEF Looked, InLoop, file_exists, IInv, TypeOK, Artefact
    <2>5. ~OrphanPkg(SwitchId(r), WantPkgs[r][i])
        BY <2>1, <2>2 DEF IInv, NoOrphans
    <2>6. ~Installing(r, SwitchId(r), WantPkgs[r][i])
        BY DEF Installing
    <2>7. QED
        BY <2>1, <2>4, <2>5, <2>6 DEF Looked, OrphanPkg
<1>3. QED
    BY Invariance, LookedPreserved, <1>1, <1>2, PTL DEF Spec
=============================================================================
