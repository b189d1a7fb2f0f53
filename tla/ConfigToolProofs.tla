-------------------------- MODULE ConfigToolProofs --------------------------
(* The config tool as the composition of its parts: it implements them, so *)
(* what is proved about them holds of it, and Bazel accepts a repository   *)
(* only after they have ended well.                                        *)
EXTENDS ConfigTool, SequenceTheorems, TLAPS

WalkP == INSTANCE EmitBuildBazelProofs WITH pc <- walk_pc
SdkP  == INSTANCE OcamlSdkProofs WITH File <- SdkFile, changes <- sdk_changes

-----------------------------------------------------------------------------
(* emit_pkg_bindir alone, for packages with any number of executables and  *)
(* stub libraries, and any number of changes of the file meanwhile.        *)

(* A field reads as nothing only if it lists nothing.                      *)
LEMMA FieldRead ==
    ASSUME NEW values \in Seq(File)
    PROVE  /\ dune_package_files_fld(values) \in Seq(File)
           /\ dune_package_files_fld(values) = <<>> <=> values = <<>>
  <1> DEFINE n == IF Len(values) < 2 THEN Len(values) ELSE 2
  <1>1. n \in Int /\ n <= Len(values) /\ (n = 0 <=> values = <<>>) /\ n >= 0
    OBVIOUS
  <1>2. \A i \in 1..n : values[i] \in File
    BY <1>1
  <1> HIDE DEF n
  <1>3. /\ SubSeq(values, 1, n) \in Seq(File)
        /\ Len(SubSeq(values, 1, n)) = IF 1 <= n THEN n - 1 + 1 ELSE 0
    BY <1>1, <1>2, SubSeqProperties
  <1>4. SubSeq(values, 1, n) = <<>> <=> n = 0
    BY <1>1, <1>3
  <1> QED
    BY <1>1, <1>3, <1>4 DEF dune_package_files_fld, n

LEMMA ValuesType ==
    ASSUME inbuf \in DunePackages, section \in Section
    PROVE  /\ Values \in Seq(File)
           /\ Values = <<>> <=> inbuf[section] = <<>>
  <1>1. inbuf[section] \in Seq(File)
    BY BindirAssumptions
  <1> QED
    BY <1>1, FieldRead DEF Values

(* The types, for every set of dune-package files: what is read as one has *)
(* been there.                                                             *)
THEOREM BindirTypeCorrect == BindirSpec => []BindirTypeOK
  <1>1. BindirInit => BindirTypeOK
    BY BindirAssumptions DEF BindirInit, BindirTypeOK, Section, Directory, Absent
  <1>2. BindirTypeOK /\ [BindirNext]_pkg_bindir_vars => BindirTypeOK'
    <2> SUFFICES ASSUME BindirTypeOK, [BindirNext]_pkg_bindir_vars PROVE BindirTypeOK'
      OBVIOUS
    <2> USE DEF BindirTypeOK
    <2>1. CASE Access
      BY <2>1 DEF Access
    <2>2. CASE Open
      BY <2>2 DEF Open
    <2>3. CASE OpenFails
      BY <2>3 DEF OpenFails
    <2>4. CASE NoValues
      BY <2>4 DEF NoValues, NextSection, Section
    <2>5. CASE OpenSection
      <3>1. Values \in Seq(File)
        BY <2>5, ValuesType DEF OpenSection
      <3>2. out' \in [Section -> Directory]
        BY <2>5 DEF OpenSection, Directory
      <3> QED
        BY <2>5, <3>1, <3>2 DEF OpenSection
    <2>6. CASE OpenSectionFails
      BY <2>6 DEF OpenSectionFails
    <2>7. CASE Link
      <3>1. Head(left) \in File /\ Tail(left) \in Seq(File)
        BY <2>7 DEF Link
      <3>2. out[section] \in Directory
        OBVIOUS
      <3>3. Append(out[section].exports, Head(left)) \in Seq(File)
        BY <3>1, <3>2 DEF Directory
      <3>4. out' \in [Section -> Directory]
        BY <2>7, <3>1, <3>2, <3>3 DEF Link, Directory
      <3> QED
        BY <2>7, <3>1, <3>4 DEF Link
    <2>8. CASE LinkFails
      <3>1. Head(left) \in File
        BY <2>8 DEF LinkFails
      <3>2. out[section] \in Directory
        OBVIOUS
      <3>3. Append(out[section].exports, Head(left)) \in Seq(File)
        BY <3>1, <3>2 DEF Directory
      <3>4. out' \in [Section -> Directory]
        BY <2>8, <3>2, <3>3 DEF LinkFails, Directory
      <3> QED
        BY <2>8, <3>4 DEF LinkFails
    <2>9. CASE CloseSection
      <3>1. out' \in [Section -> Directory]
        BY <2>9 DEF CloseSection, Directory
      <3> QED
        BY <2>9, <3>1 DEF CloseSection, NextSection, Section
    <2>10. CASE OpamChanges
      <3>1. changes' \in 0..MaxChanges
        BY <2>10, BindirAssumptions DEF OpamChanges
      <3> QED
        BY <2>10, <3>1 DEF OpamChanges
    <2>11. CASE UNCHANGED pkg_bindir_vars
      BY <2>11 DEF pkg_bindir_vars
    <2> QED
      BY <2>1, <2>2, <2>3, <2>4, <2>5, <2>6, <2>7, <2>8, <2>9, <2>10, <2>11
         DEF BindirNext, emit_pkg_bindir
  <1> QED
    BY <1>1, <1>2, PTL DEF BindirSpec

-----------------------------------------------------------------------------
(* The links of both directories.                                          *)

LEMMA ToSetAppend ==
    ASSUME NEW s \in Seq(File), NEW x \in File
    PROVE  ToSet(Append(s, x)) = ToSet(s) \cup {x}
  <1>1. /\ DOMAIN Append(s, x) = (DOMAIN s) \cup {Len(s) + 1}
        /\ Append(s, x)[Len(s) + 1] = x
        /\ \A i \in DOMAIN s : Append(s, x)[i] = s[i]
    OBVIOUS
  <1> QED
    BY <1>1 DEF ToSet

(* What each BUILD file exports is linked next to it, at every moment of a *)
(* run that has not failed.                                                *)
THEOREM LinkedAsExportedCorrect == BindirSpec => []LinkedAsExported
  <1>1. BindirInit => LinkedAsExported
    BY DEF BindirInit, LinkedAsExported, Absent, ToSet
  <1>2. BindirTypeOK /\ LinkedAsExported /\ [BindirNext]_pkg_bindir_vars => LinkedAsExported'
    <2> SUFFICES ASSUME BindirTypeOK, LinkedAsExported, [BindirNext]_pkg_bindir_vars
                 PROVE  LinkedAsExported'
      OBVIOUS
    <2>1. CASE Link
      <3> SUFFICES ASSUME NEW s \in Section
                   PROVE  out'[s].links = ToSet(out'[s].exports)
        BY DEF LinkedAsExported
      <3>1. /\ Head(left) \in File
            /\ out[section] \in Directory
            /\ out[s].links = ToSet(out[s].exports)
        BY <2>1 DEF Link, BindirTypeOK, LinkedAsExported
      <3>2. CASE s = section
        <4>1. /\ out'[s].exports = Append(out[s].exports, Head(left))
              /\ out'[s].links = out[s].links \cup {Head(left)}
          BY <2>1, <3>2 DEF Link, BindirTypeOK, Directory
        <4> QED
          BY <4>1, <3>1, <3>2, ToSetAppend DEF Directory
      <3>3. CASE s # section
        BY <2>1, <3>1, <3>3 DEF Link, BindirTypeOK
      <3> QED
        BY <3>2, <3>3
    <2>2. CASE OpenSection
      <3>1. \A s \in Section : /\ out'[s].exports = out[s].exports
                               /\ out'[s].links = out[s].links
        BY <2>2 DEF OpenSection, BindirTypeOK, Directory
      <3> QED
        BY <2>2, <3>1 DEF OpenSection, LinkedAsExported
    <2>3. CASE CloseSection
      <3>1. \A s \in Section : /\ out'[s].exports = out[s].exports
                               /\ out'[s].links = out[s].links
        BY <2>3 DEF CloseSection, BindirTypeOK, Directory
      <3> QED
        BY <2>3, <3>1 DEF CloseSection, LinkedAsExported
    <2>4. CASE Access \/ Open \/ OpenFails \/ NoValues \/ OpenSectionFails
      BY <2>4 DEF Access, Open, OpenFails, NoValues, OpenSectionFails,
                  LinkedAsExported
    <2>5. CASE LinkFails
      BY <2>5 DEF LinkFails, LinkedAsExported
    <2>6. CASE OpamChanges \/ UNCHANGED pkg_bindir_vars
      BY <2>6 DEF OpamChanges, pkg_bindir_vars, LinkedAsExported
    <2> QED
      BY <2>1, <2>2, <2>3, <2>4, <2>5, <2>6 DEF BindirNext, emit_pkg_bindir
  <1> QED
    BY <1>1, <1>2, BindirTypeCorrect, PTL DEF BindirSpec
-----------------------------------------------------------------------------
(* One version in both directories.                                        *)

(* How far the directory of a section is: nothing yet; in the loop, where  *)
(* what is exported and what is left make up the values; complete.         *)
Untouched(s) == out[s] = Absent

InProgress(s) ==
    /\ inbuf[s] # <<>>
    /\ out[s].file = "open"
    /\ out[s].exports \o left = dune_package_files_fld(inbuf[s])

Complete(s) ==
    /\ out[s].exports = dune_package_files_fld(inbuf[s])
    /\ out[s].file = IF inbuf[s] = <<>> THEN "none" ELSE "closed"

(* The strengthening: all that is in the directories comes from inbuf,     *)
(* which has been the file's contents at some moment.                      *)
Progress ==
    /\ dune \in seen
    /\ bindir_pc \in {"access", "open"} =>
          section = "bin" /\ \A s \in Section : Untouched(s)
    /\ bindir_pc \in {"field", "links"} =>
          /\ inbuf \in seen
          /\ section = "bin" => Untouched("stublibs")
          /\ section = "stublibs" => Complete("bin")
    /\ bindir_pc = "field" => Untouched(section)
    /\ bindir_pc = "links" => InProgress(section)
    /\ bindir_pc = "done" =>
          \/ Missing \in seen /\ \A s \in Section : Untouched(s)
          \/ inbuf \in seen \cap DunePackages /\ \A s \in Section : Complete(s)

LEMMA ProgressImplies == BindirTypeOK /\ Progress => OneVersion
  <1> SUFFICES ASSUME BindirTypeOK, Progress, bindir_pc = "done" PROVE OneVersion
    BY DEF OneVersion
  <1>1. CASE Missing \in seen /\ \A s \in Section : Untouched(s)
    <2>1. out = [s \in Section |-> Absent]
      BY <1>1 DEF BindirTypeOK, Untouched
    <2> QED
      BY <1>1, <2>1 DEF OneVersion
  <1>2. CASE inbuf \in seen \cap DunePackages /\ \A s \in Section : Complete(s)
    BY <1>2, BindirAssumptions DEF OneVersion, Complete
  <1> QED
    BY <1>1, <1>2 DEF Progress

(* A section that comes to its end is complete: the other one is untouched *)
(* if it comes later, and complete if it came before.                      *)
LEMMA SectionEnds ==
    ASSUME BindirTypeOK, Progress, bindir_pc \in {"field", "links"}, NextSection,
           NEW s \in Section, s = section, Complete(s)',
           UNCHANGED <<dune, seen, inbuf>>,
           \A t \in Section \ {s} : out'[t] = out[t]
    PROVE  Progress'
  <1>1. inbuf \in DunePackages
    BY DEF BindirTypeOK
  <1>2. CASE s = "bin"
    <2>1. section' = "stublibs" /\ bindir_pc' = "field"
      BY <1>2 DEF NextSection
    <2>2. Untouched("stublibs")'
      BY <1>2 DEF Progress, Untouched, Section
    <2>3. Complete("bin")'
      BY <1>2
    <2> QED
      BY <2>1, <2>2, <2>3 DEF Progress, Untouched
  <1>3. CASE s = "stublibs"
    <2>1. section' = "stublibs" /\ bindir_pc' = "done"
      BY <1>3 DEF NextSection
    <2>2. Complete("bin")'
      BY <1>3 DEF Progress, Complete, Section
    <2>3. Complete("stublibs")'
      BY <1>3
    <2>4. (\A t \in Section : Complete(t))'
      BY <2>2, <2>3 DEF Section
    <2>5. inbuf' \in seen' \cap DunePackages
      BY <1>1 DEF Progress
    <2>6. dune' \in seen'
      BY DEF Progress
    <2> QED
      BY <2>1, <2>4, <2>5, <2>6 DEF Progress
  <1> QED
    BY <1>2, <1>3 DEF Section

(* Printing the next name moves it from what is left to what is exported.  *)
LEMMA LinkMoves ==
    ASSUME NEW e \in Seq(File), NEW l \in Seq(File), l # <<>>
    PROVE  Append(e, Head(l)) \o Tail(l) = e \o l
  <1>1. Head(l) \in File /\ Tail(l) \in Seq(File)
    BY HeadTailProperties
  <1>2. Append(e, Head(l)) = e \o <<Head(l)>>
    BY <1>1, AppendIsConcat
  <1>3. <<Head(l)>> \in Seq(File)
    BY <1>1
  <1>4. (e \o <<Head(l)>>) \o Tail(l) = e \o (<<Head(l)>> \o Tail(l))
    BY <1>1, <1>3, ConcatAssociative
  <1>5. <<Head(l)>> \o Tail(l) = l
    BY <1>1
  <1> QED
    BY <1>2, <1>4, <1>5

(* A finished run exports, in both directories, what one version of the    *)
(* package lists that was installed at some moment of the run, however     *)
(* often and whenever the file changed.                                    *)
THEOREM OneVersionCorrect == BindirSpec => []OneVersion
  <1>1. BindirInit => Progress
    BY DEF BindirInit, Progress, Untouched
  <1>2. BindirTypeOK /\ Progress /\ [BindirNext]_pkg_bindir_vars => Progress'
    <2> SUFFICES ASSUME BindirTypeOK, Progress, [BindirNext]_pkg_bindir_vars PROVE Progress'
      OBVIOUS
    <2>1. CASE Access
      BY <2>1 DEF Access, Progress, Untouched
    <2>2. CASE Open
      BY <2>2 DEF Open, Progress, Untouched, Section
    <2>3. CASE OpenFails
      BY <2>3 DEF OpenFails, Progress, Untouched
    <2>4. CASE NoValues
      <3>1. inbuf \in DunePackages /\ section \in Section
        BY <2>4 DEF NoValues, BindirTypeOK
      <3>2. inbuf[section] = <<>> /\ Values = <<>>
        BY <2>4, <3>1, ValuesType DEF NoValues
      <3>3. out[section] = Absent
        BY <2>4 DEF NoValues, Progress, Untouched
      <3> DEFINE s == section
      <3>4. /\ out'[s].exports = dune_package_files_fld(inbuf'[s])
            /\ out'[s].file = IF inbuf'[s] = <<>> THEN "none" ELSE "closed"
        BY <2>4, <3>2, <3>3 DEF NoValues, Absent, Values
      <3>5. PICK t \in Section : t = section
        BY <3>1
      <3>6. Complete(t)'
        BY <3>4, <3>5 DEF Complete
      <3> QED
        BY <2>4, <3>5, <3>6, SectionEnds DEF NoValues
    <2>5. CASE OpenSection
      <3>1. inbuf \in DunePackages /\ section \in Section
        BY <2>5 DEF OpenSection, BindirTypeOK
      <3>2. inbuf[section] # <<>> /\ Values \in Seq(File)
        BY <2>5, <3>1, ValuesType DEF OpenSection
      <3>3. out[section] = Absent
        BY <2>5 DEF OpenSection, Progress, Untouched
      <3>4. out'[section].file = "open" /\ out'[section].exports = <<>>
        BY <2>5, <3>1, <3>3 DEF OpenSection, Absent, BindirTypeOK, Directory
      <3>5. <<>> \o Values = Values
        BY <3>2, ConcatEmptySeq
      <3>6. InProgress(section)'
        BY <2>5, <3>2, <3>4, <3>5 DEF OpenSection, InProgress, Values
      <3>7. \A t \in Section \ {section} : out'[t] = out[t]
        BY <2>5 DEF OpenSection, BindirTypeOK
      <3>8. /\ section = "bin" => Untouched("stublibs")'
            /\ section = "stublibs" => Complete("bin")'
        BY <2>5, <3>7 DEF OpenSection, Progress, Untouched, Complete, Section
      <3> QED
        BY <2>5, <3>6, <3>8 DEF OpenSection, Progress
    <2>6. CASE OpenSectionFails
      BY <2>6 DEF OpenSectionFails, Progress
    <2>7. CASE Link
      <3>1. /\ section \in Section /\ out[section] \in Directory
            /\ left \in Seq(File) /\ left # <<>>
        BY <2>7 DEF Link, BindirTypeOK
      <3>2. /\ out'[section].exports = Append(out[section].exports, Head(left))
            /\ out'[section].file = out[section].file
        BY <2>7, <3>1 DEF Link, BindirTypeOK, Directory
      <3>3. out'[section].exports \o left' = out[section].exports \o left
        BY <2>7, <3>1, <3>2, LinkMoves DEF Link, Directory
      <3>4. InProgress(section)'
        BY <2>7, <3>2, <3>3 DEF Link, Progress, InProgress
      <3>5. \A t \in Section \ {section} : out'[t] = out[t]
        BY <2>7 DEF Link, BindirTypeOK
      <3>6. /\ section = "bin" => Untouched("stublibs")'
            /\ section = "stublibs" => Complete("bin")'
        BY <2>7, <3>5 DEF Link, Progress, Untouched, Complete, Section
      <3> QED
        BY <2>7, <3>4, <3>6 DEF Link, Progress
    <2>8. CASE LinkFails
      BY <2>8 DEF LinkFails, Progress
    <2>9. CASE CloseSection
      <3>1. /\ section \in Section /\ out[section] \in Directory
            /\ InProgress(section)
        BY <2>9 DEF CloseSection, BindirTypeOK, Progress
      <3>2. /\ out'[section].exports = out[section].exports
            /\ out'[section].file = "closed"
        BY <2>9, <3>1 DEF CloseSection, BindirTypeOK, Directory
      <3>3. out[section].exports \o <<>> = out[section].exports
        BY <3>1, ConcatEmptySeq DEF Directory
      <3>4. PICK t \in Section : t = section
        BY <3>1
      <3>5. Complete(t)'
        BY <2>9, <3>1, <3>2, <3>3, <3>4 DEF CloseSection, InProgress, Complete
      <3>6. \A u \in Section \ {t} : out'[u] = out[u]
        BY <2>9, <3>4 DEF CloseSection, BindirTypeOK
      <3> QED
        BY <2>9, <3>4, <3>5, <3>6, SectionEnds DEF CloseSection
    <2>10. CASE OpamChanges
      <3>1. /\ seen \subseteq seen' /\ dune' \in seen'
            /\ UNCHANGED <<bindir_pc, inbuf, section, left, out>>
        BY <2>10 DEF OpamChanges
      <3> QED
        BY <3>1 DEF Progress, Untouched, InProgress, Complete
    <2>11. CASE UNCHANGED pkg_bindir_vars
      BY <2>11 DEF pkg_bindir_vars, Progress, Untouched, InProgress, Complete
    <2> QED
      BY <2>1, <2>2, <2>3, <2>4, <2>5, <2>6, <2>7, <2>8, <2>9, <2>10, <2>11
         DEF BindirNext, emit_pkg_bindir
  <1> QED
    BY <1>1, <1>2, BindirTypeCorrect, ProgressImplies, PTL DEF BindirSpec

-----------------------------------------------------------------------------
(* Every run of the rule and the config tool, with all that Bazel and opam *)
(* do meanwhile, is a run of emit_pkg_bindir: each step is one of its      *)
(* steps or leaves its state alone.                                        *)
THEOREM ImplementsBindir == Spec => BindirSpec
  <1>1. Init => BindirInit
    BY DEF Init
  <1>2. [Next]_vars => [BindirNext]_pkg_bindir_vars
    <2> SUFFICES ASSUME [Next]_vars
                 PROVE  BindirNext \/ UNCHANGED pkg_bindir_vars
      OBVIOUS
    <2> USE DEF switch_vars, part_vars, bindir_vars, pkg_bindir_vars
    <2>1. CASE Rule
      BY <2>1 DEF Rule, OpamVarFails, RunTool, ToolEnded
    <2>2. CASE Handler \/ MetaMissing \/ MetaFound \/ ParseError \/ Parsed
      BY <2>2 DEF Handler, MetaMissing, MetaFound, ParseError, Parsed
    <2>3. CASE EmitModule \/ EmitModuleFails \/ WalkStep \/ WalkEnds \/ BindirEnds
      BY <2>3 DEF EmitModule, EmitModuleFails, WalkStep, WalkEnds, BindirEnds
    <2>4. CASE BindirStep
      BY <2>4 DEF BindirStep, BindirNext
    <2>5. CASE \/ StublibsMissing \/ StublibsFiles \/ StublibsFail
               \/ StublibsLinks \/ StublibsLinksFail \/ SdkStep \/ SdkEnds
      BY <2>5 DEF StublibsMissing, StublibsFiles, StublibsFail,
                  StublibsLinks, StublibsLinksFail, SdkStep, SdkEnds
    <2>6. CASE DunePackageChanges
      BY <2>6 DEF DunePackageChanges, BindirNext
    <2>7. CASE Killed \/ SwitchChanges \/ InstallationChanges \/ UNCHANGED vars
      BY <2>7 DEF Killed, SwitchChanges, InstallationChanges, vars
    <2> QED
      BY <2>1, <2>2, <2>3, <2>4, <2>5, <2>6, <2>7 DEF Next, Tool, Others
  <1> QED
    BY <1>1, <1>2, PTL DEF Spec, BindirSpec

(* Likewise it is a run of emit_build_bazel over the package's META file.  *)
THEOREM ImplementsWalk == Spec => Walk!Spec
  <1>1. Init => Walk!Init
    BY DEF Init
  <1>2. [Next]_vars => [Walk!Next]_(Walk!vars)
    <2> SUFFICES ASSUME [Next]_vars
                 PROVE  Walk!Next \/ UNCHANGED Walk!vars
      OBVIOUS
    <2> USE DEF part_vars, walk_vars, Walk!vars
    <2>1. CASE Rule
      BY <2>1 DEF Rule, OpamVarFails, RunTool, ToolEnded
    <2>2. CASE Handler \/ MetaMissing \/ MetaFound \/ ParseError \/ Parsed
      BY <2>2 DEF Handler, MetaMissing, MetaFound, ParseError, Parsed
    <2>3. CASE WalkStep
      BY <2>3 DEF WalkStep
    <2>4. CASE \/ EmitModule \/ EmitModuleFails \/ WalkEnds
               \/ BindirStep \/ BindirEnds
      BY <2>4 DEF EmitModule, EmitModuleFails, WalkEnds, BindirStep, BindirEnds
    <2>5. CASE \/ StublibsMissing \/ StublibsFiles \/ StublibsFail
               \/ StublibsLinks \/ StublibsLinksFail \/ SdkStep \/ SdkEnds
      BY <2>5 DEF StublibsMissing, StublibsFiles, StublibsFail,
                  StublibsLinks, StublibsLinksFail, SdkStep, SdkEnds
    <2>6. CASE Others \/ UNCHANGED vars
      BY <2>6 DEF Others, Killed, DunePackageChanges, SwitchChanges,
                  InstallationChanges, vars
    <2> QED
      BY <2>1, <2>2, <2>3, <2>4, <2>5, <2>6 DEF Next, Tool
  <1> QED
    BY <1>1, <1>2, PTL DEF Spec, Walk!Spec

(* And, for the package ocamlsdk, of ext_emit_ocamlsdk_module.             *)
THEOREM ImplementsSdk == Spec => SDK!Spec
  <1>1. Init => SDK!Init
    BY DEF Init
  <1>2. [Next]_vars => [SDK!Next]_(SDK!vars)
    <2> SUFFICES ASSUME [Next]_vars
                 PROVE  SDK!Next \/ UNCHANGED SDK!vars
      OBVIOUS
    <2> USE DEF part_vars, sdk_vars, SDK!vars
    <2>1. CASE Rule
      BY <2>1 DEF Rule, OpamVarFails, RunTool, ToolEnded
    <2>2. CASE Handler \/ MetaMissing \/ MetaFound \/ ParseError \/ Parsed
      BY <2>2 DEF Handler, MetaMissing, MetaFound, ParseError, Parsed
    <2>3. CASE \/ EmitModule \/ EmitModuleFails \/ WalkStep \/ WalkEnds
               \/ BindirStep \/ BindirEnds
      BY <2>3 DEF EmitModule, EmitModuleFails, WalkStep, WalkEnds,
                  BindirStep, BindirEnds
    <2>4. CASE SdkStep
      BY <2>4 DEF SdkStep, SDK!Next
    <2>5. CASE \/ StublibsMissing \/ StublibsFiles \/ StublibsFail
               \/ StublibsLinks \/ StublibsLinksFail \/ SdkEnds
      BY <2>5 DEF StublibsMissing, StublibsFiles, StublibsFail,
                  StublibsLinks, StublibsLinksFail, SdkEnds
    <2>6. CASE InstallationChanges
      BY <2>6 DEF InstallationChanges, SDK!Next
    <2>7. CASE Killed \/ DunePackageChanges \/ SwitchChanges \/ UNCHANGED vars
      BY <2>7 DEF Killed, DunePackageChanges, SwitchChanges, vars
    <2> QED
      BY <2>1, <2>2, <2>3, <2>4, <2>5, <2>6, <2>7 DEF Next, Tool, Others
  <1> QED
    BY <1>1, <1>2, PTL DEF Spec, SDK!Spec

-----------------------------------------------------------------------------
(* What is proved about emit_pkg_bindir, for the config tool.              *)
LEMMA BindirOneVersion == Spec => []OneVersion
  BY ImplementsBindir, OneVersionCorrect, PTL

(* What is proved about the compiler's repository, for the config tool:    *)
(* first that both instances of OcamlSdk define the same.                  *)
LEMMA SameEmit == \A n : SDK!Emit(n) = SdkP!Emit(n)
  BY DEF SDK!Emit, SdkP!Emit,
         SDK!emit_ocaml_bin_build_file, SdkP!emit_ocaml_bin_build_file,
         SDK!emit_ocaml_bin_symlinks, SdkP!emit_ocaml_bin_symlinks,
         SDK!emit_ocaml_sdkbin_symlinks, SdkP!emit_ocaml_sdkbin_symlinks,
         SDK!emit_bin, SdkP!emit_bin, SDK!emit_ocaml_toolchain_buildfiles,
         SdkP!emit_ocaml_toolchain_buildfiles, SDK!emit_ocaml_config_pkg,
         SdkP!emit_ocaml_config_pkg, SDK!symlink_ocaml_stdlib,
         SdkP!symlink_ocaml_stdlib, SDK!emit_ocaml_stdlib_pkg,
         SdkP!emit_ocaml_stdlib_pkg, SDK!symlink_ocaml_expunge,
         SdkP!symlink_ocaml_expunge, SDK!emit_ocaml_expunge,
         SdkP!emit_ocaml_expunge, SDK!emit_ocaml_stublibs_symlinks,
         SdkP!emit_ocaml_stublibs_symlinks, SDK!emit_ocaml_stublibs,
         SdkP!emit_ocaml_stublibs, SDK!symlink_ocaml_compiler_libs,
         SdkP!symlink_ocaml_compiler_libs,
         SDK!emit_ocaml_compiler_libs_pkg,
         SdkP!emit_ocaml_compiler_libs_pkg, SDK!symlink_ocaml_bigarray,
         SdkP!symlink_ocaml_bigarray, SDK!emit_ocaml_bigarray_pkg,
         SdkP!emit_ocaml_bigarray_pkg, SDK!symlink_ocaml_dynlink,
         SdkP!symlink_ocaml_dynlink, SDK!emit_ocaml_dynlink_pkg,
         SdkP!emit_ocaml_dynlink_pkg, SDK!symlink_ocaml_ocamldoc,
         SdkP!symlink_ocaml_ocamldoc, SDK!emit_ocaml_ocamldoc_pkg,
         SdkP!emit_ocaml_ocamldoc_pkg, SDK!symlink_ocaml_profiling,
         SdkP!symlink_ocaml_profiling, SDK!emit_ocaml_profiling_pkg,
         SdkP!emit_ocaml_profiling_pkg, SDK!symlink_ocaml_rtevents,
         SdkP!symlink_ocaml_rtevents, SDK!emit_ocaml_rtevents_pkg,
         SdkP!emit_ocaml_rtevents_pkg, SDK!symlink_ocaml_str,
         SdkP!symlink_ocaml_str, SDK!emit_ocaml_str_pkg,
         SdkP!emit_ocaml_str_pkg, SDK!symlink_ocaml_threads,
         SdkP!symlink_ocaml_threads, SDK!emit_ocaml_threads_pkg,
         SdkP!emit_ocaml_threads_pkg, SDK!symlink_libunix,
         SdkP!symlink_libunix, SDK!symlink_ocaml_unix,
         SdkP!symlink_ocaml_unix, SDK!emit_ocaml_unix_pkg,
         SdkP!emit_ocaml_unix_pkg, SDK!symlink_ocaml_runtime_libs,
         SdkP!symlink_ocaml_runtime_libs,
         SDK!symlink_ocaml_runtime_compiler_libs,
         SdkP!symlink_ocaml_runtime_compiler_libs,
         SDK!emit_ocaml_runtime_pkg, SdkP!emit_ocaml_runtime_pkg,
         SDK!symlink_ocaml_c_hdrs, SdkP!symlink_ocaml_c_hdrs,
         SDK!emit_ocaml_c_ffi_pkg, SdkP!emit_ocaml_c_ffi_pkg,
         SDK!emit_ocaml_version, SdkP!emit_ocaml_version, SDK!Exists,
         SdkP!Exists, SDK!Entries, SdkP!Entries, SDK!Resolves,
         SdkP!Resolves, SDK!Build, SdkP!Build, SDK!Copy, SdkP!Copy,
         SDK!Links, SdkP!Links, SDK!Must, SdkP!Must, SDK!Try, SdkP!Try,
         SDK!Lib, SdkP!Lib, SDK!Old, SdkP!Old, SDK!New, SdkP!New,
         SDK!ocaml, SdkP!ocaml, SDK!switch_bin, SdkP!switch_bin,
         SDK!system_bin, SdkP!system_bin

LEMMA SameNext == [SDK!Next]_(SDK!vars) => [SdkP!Next]_(SdkP!vars)
  BY SameEmit DEF SDK!Next, SdkP!Next, SDK!vars, SdkP!vars,
         SDK!Step, SdkP!Step, SDK!SdkBin, SdkP!SdkBin, SDK!Module,
         SdkP!Module, SDK!Call, SdkP!Call, SDK!Return, SdkP!Return,
         SDK!WriteBuild, SdkP!WriteBuild, SDK!CopyBuild, SdkP!CopyBuild,
         SDK!MakeLinks, SdkP!MakeLinks, SDK!LinkFails, SdkP!LinkFails,
         SDK!BuildFails, SdkP!BuildFails, SDK!ReaddirNull,
         SdkP!ReaddirNull, SDK!OpamChanges, SdkP!OpamChanges, SDK!Steps,
         SdkP!Steps, SDK!Writes, SdkP!Writes, SDK!Sources, SdkP!Sources,
         SDK!Linked, SdkP!Linked, SDK!NewLinks, SdkP!NewLinks, SDK!Fails,
         SdkP!Fails, SDK!Unreadable, SdkP!Unreadable, SDK!Resolves,
         SdkP!Resolves, SDK!Entries, SdkP!Entries, SDK!Exists, SdkP!Exists,
         SDK!ocaml, SdkP!ocaml, SDK!switch_bin, SdkP!switch_bin,
         SDK!system_bin, SdkP!system_bin

LEMMA SameToolchainResolves == SdkP!ToolchainResolves => SDK!ToolchainResolves
  <1>1. SDK!AlwaysThere = SdkP!AlwaysThere /\ SDK!Dangling = SdkP!Dangling
    BY DEF
         SDK!AlwaysThere, SdkP!AlwaysThere, SDK!Dangling, SdkP!Dangling,
         SDK!Toolchain, SdkP!Toolchain, SDK!CompilerLib, SdkP!CompilerLib,
         SDK!CompilerLibPackages, SdkP!CompilerLibPackages
  <1>2. \A p : SDK!Labels(p) = SdkP!Labels(p)
    BY DEF
         SDK!Labels, SdkP!Labels, SDK!Lib, SdkP!Lib, SDK!CompilerLib,
         SdkP!CompilerLib, SDK!CompilerLibPackages, SdkP!CompilerLibPackages,
         SDK!threads_BUILD, SdkP!threads_BUILD, SDK!bigarray_BUILD,
         SdkP!bigarray_BUILD, SDK!compiler_libs_BUILD,
         SdkP!compiler_libs_BUILD, SDK!compiler_libs_alias_BUILD,
         SdkP!compiler_libs_alias_BUILD, SDK!config_BUILD,
         SdkP!config_BUILD, SDK!toolchain_selector_local_BUILD,
         SdkP!toolchain_selector_local_BUILD,
         SDK!toolchain_adapter_local_BUILD,
         SdkP!toolchain_adapter_local_BUILD
  <1> QED
    BY <1>1, <1>2 DEF SDK!ToolchainResolves, SdkP!ToolchainResolves,
         SDK!Linked, SdkP!Linked, SDK!Entries, SdkP!Entries, SDK!Exists,
         SdkP!Exists, SDK!ocaml, SdkP!ocaml

LEMMA SdkAssumptions == SdkP!Assumptions
  BY Assumptions DEF
         SDK!Assumptions, SdkP!Assumptions, SDK!Prefix, SdkP!Prefix,
         SDK!Library, SdkP!Library, SDK!Dir, SdkP!Dir, SDK!switch_bin,
         SdkP!switch_bin, SDK!system_bin, SdkP!system_bin, SDK!ocaml,
         SdkP!ocaml, SDK!Old, SdkP!Old, SDK!New, SdkP!New

LEMMA SdkSameCompiler == SdkP!SameCompiler
  BY Assumptions DEF
         SDK!SameCompiler, SdkP!SameCompiler, SDK!OfCompiler,
         SdkP!OfCompiler, SDK!Library, SdkP!Library, SDK!Dir, SdkP!Dir,
         SDK!switch_bin, SdkP!switch_bin, SDK!system_bin, SdkP!system_bin,
         SDK!ocaml, SdkP!ocaml, SDK!Old, SdkP!Old, SDK!New, SdkP!New

LEMMA SdkLibrariesPlaced == SdkP!LibrariesPlaced
  BY Assumptions DEF
         SDK!LibrariesPlaced, SdkP!LibrariesPlaced, SDK!BeforeOCaml5,
         SdkP!BeforeOCaml5, SDK!SinceOCaml5, SdkP!SinceOCaml5, SDK!Keeps,
         SdkP!Keeps, SDK!WithArchive, SdkP!WithArchive, SDK!Library,
         SdkP!Library, SDK!ocaml, SdkP!ocaml, SDK!Old, SdkP!Old, SDK!New,
         SdkP!New

LEMMA SameSdk == SDK!Spec => SdkP!Spec
  <1>1. SDK!Init => SdkP!Init
    BY DEF SDK!Init, SdkP!Init, SDK!switch_bin, SdkP!switch_bin
  <1> QED
    BY <1>1, SameNext, PTL DEF SDK!Spec, SdkP!Spec

LEMMA SdkToolchain == Spec => []SDK!ToolchainResolves
  <1>1. SdkP!Spec => []SdkP!ToolchainResolves
    BY SdkAssumptions, SdkSameCompiler, SdkLibrariesPlaced, SdkP!ToolchainCorrect
  <1> QED
    BY ImplementsSdk, <1>1, SameSdk, SameToolchainResolves, PTL

-----------------------------------------------------------------------------
(* The two instances of EmitBuildBazel define the same steps.              *)
LEMMA SameTargets ==
    /\ Walk!Targets = WalkP!Targets
    /\ Walk!Entries = WalkP!Entries
    /\ \A i : Walk!TargetsBefore(i) = WalkP!TargetsBefore(i)
  <1>2. \A s : Walk!Last(s) = WalkP!Last(s)
    BY DEF Walk!Last, WalkP!Last
  <1>3. \A prop : Walk!Has(prop) <=> WalkP!Has(prop)
    BY DEF Walk!Has, WalkP!Has
  <1>4. Walk!new_filedeps_path = WalkP!new_filedeps_path
    BY DEF Walk!new_filedeps_path, WalkP!new_filedeps_path, Walk!Under, WalkP!Under
  <1>5. \A n : /\ Walk!archive_rule(n) = WalkP!archive_rule(n)
               /\ Walk!plugin_rule(n) = WalkP!plugin_rule(n)
               /\ Walk!deps_target(n) = WalkP!deps_target(n)
    BY <1>3, <1>4 DEF
         Walk!archive_rule, WalkP!archive_rule, Walk!plugin_rule,
         WalkP!plugin_rule, Walk!deps_target, WalkP!deps_target
  <1>6. \A prop : Walk!TargetsOf(prop) = WalkP!TargetsOf(prop)
    BY <1>2, <1>3, <1>5 DEF Walk!TargetsOf, WalkP!TargetsOf,
           Walk!ErrorTarget, WalkP!ErrorTarget
  <1>7. Walk!Entries = WalkP!Entries
    BY DEF Walk!Entries, WalkP!Entries, Walk!Breaks, WalkP!Breaks,
           Walk!Has, WalkP!Has
  <1>8. \A i : Walk!TargetsAt(i) = WalkP!TargetsAt(i)
    BY <1>2, <1>6, <1>7 DEF Walk!TargetsAt, WalkP!TargetsAt
  <1>9. Walk!Places = WalkP!Places
    BY <1>7, <1>8 DEF Walk!Places, WalkP!Places
  <1>10. Walk!Targets = WalkP!Targets
    BY <1>8, <1>9 DEF Walk!Targets, WalkP!Targets
  <1>11. \A i : Walk!TargetsBefore(i) = WalkP!TargetsBefore(i)
    BY <1>2, <1>9, <1>10 DEF Walk!TargetsBefore, WalkP!TargetsBefore
  <1> QED
    BY <1>7, <1>10, <1>11

LEMMA SameWalkNext == [Walk!Next]_(Walk!vars) => [WalkP!Next]_(WalkP!vars)
  <1>1. \A s : Walk!Last(s) = WalkP!Last(s)
    BY DEF Walk!Last, WalkP!Last
  <1>2. /\ Walk!new_filedeps_path = WalkP!new_filedeps_path
        /\ Walk!bazel_pkg_label = WalkP!bazel_pkg_label
        /\ Walk!StublibsDir = WalkP!StublibsDir
    BY <1>1 DEF
         Walk!new_filedeps_path, WalkP!new_filedeps_path, Walk!Under,
         WalkP!Under, Walk!bazel_pkg_label, WalkP!bazel_pkg_label,
         Walk!StublibsDir, WalkP!StublibsDir, Walk!Glued, WalkP!Glued
  <1>3. /\ \A t : Walk!BuildFile(t) = WalkP!BuildFile(t)
        /\ Walk!Skipped = WalkP!Skipped /\ Walk!Special = WalkP!Special
        /\ Walk!Mismatch = WalkP!Mismatch /\ Walk!GlobError = WalkP!GlobError
        /\ \A g : Walk!Children(g) = WalkP!Children(g)
        /\ Walk!Top = WalkP!Top
    BY <1>1, <1>2, SameTargets DEF
         Walk!BuildFile, WalkP!BuildFile, Walk!Skipped, WalkP!Skipped,
         Walk!Special, WalkP!Special, Walk!Mismatch, WalkP!Mismatch,
         Walk!GlobError, WalkP!GlobError, Walk!Children, WalkP!Children,
         Walk!Top, WalkP!Top
  <1>4. /\ \A f : Walk!Write(f) <=> WalkP!Write(f)
        /\ Walk!Return <=> WalkP!Return
    BY <1>2 DEF Walk!Write, WalkP!Write, Walk!Return, WalkP!Return
  <1> QED
    BY <1>1, <1>2, <1>3, <1>4, SameTargets DEF
         Walk!Next, WalkP!Next, Walk!vars, WalkP!vars, Walk!CompilerLibsPkg,
         WalkP!CompilerLibsPkg, Walk!SpecialCase, WalkP!SpecialCase,
         Walk!ConfiguratorMismatch, WalkP!ConfiguratorMismatch,
         Walk!HeadersGlobError, WalkP!HeadersGlobError, Walk!Emit,
         WalkP!Emit, Walk!NextSubpackage, WalkP!NextSubpackage,
         Walk!SubpackagesEnd, WalkP!SubpackagesEnd

LEMMA WalkAssumptions == WalkP!Assumptions
  BY Assumptions DEF Walk!Assumptions, WalkP!Assumptions, Walk!Package,
         WalkP!Package, Walk!Property, WalkP!Property, Walk!Directory,
         WalkP!Directory, Walk!ErrorTarget, WalkP!ErrorTarget

LEMMA SameWalk == Walk!Spec => WalkP!Spec
  <1>1. Walk!Init => WalkP!Init
    BY DEF Walk!Init, WalkP!Init
  <1> QED
    BY <1>1, SameWalkNext, PTL DEF Walk!Spec, WalkP!Spec

(* The mapping scheme, for the config tool.                                *)
LEMMA WalkMapping == Spec => []Walk!MappingScheme
  <1>1. WalkP!Spec => []WalkP!MappingScheme
    BY WalkAssumptions, WalkP!MappingSchemeCorrect
  <1>2. WalkP!MappingScheme => Walk!MappingScheme
    BY DEF WalkP!MappingScheme, Walk!MappingScheme, WalkP!HasArchive,
           Walk!HasArchive, WalkP!Omitted, Walk!Omitted, WalkP!Mapped,
           Walk!Mapped, WalkP!LabelDir, Walk!LabelDir, WalkP!Once, Walk!Once
  <1> QED
    BY ImplementsWalk, SameWalk, <1>1, <1>2, PTL

-----------------------------------------------------------------------------
(* Types: those of the parts, and the tool's own.                          *)
LEMMA WalkTypes == Spec => []Walk!TypeOK
  <1>2. WalkP!Spec => []WalkP!TypeOK
    BY WalkAssumptions, WalkP!TypeCorrect
  <1>3. WalkP!TypeOK => Walk!TypeOK
    BY DEF WalkP!TypeOK, Walk!TypeOK, WalkP!Parent, Walk!Parent,
           WalkP!SwitchDir, Walk!SwitchDir, WalkP!Frame, Walk!Frame,
           WalkP!Package, Walk!Package
  <1> QED
    BY ImplementsWalk, SameWalk, <1>2, <1>3, PTL

LEMMA BindirTypes == Spec => []BindirTypeOK
  BY ImplementsBindir, BindirTypeCorrect, PTL

LEMMA SdkTypes == Spec => []SDK!TypeOK
  <1>1. SdkP!Spec => []SdkP!TypeOK
    BY SdkAssumptions, SdkSameCompiler, SdkLibrariesPlaced, SdkP!TypeCorrect
  <1>2. SdkP!TypeOK => SDK!TypeOK
    BY DEF
         SDK!TypeOK, SdkP!TypeOK, SDK!Ended, SdkP!Ended, SDK!Steps,
         SdkP!Steps, SDK!Op, SdkP!Op, SDK!Package, SdkP!Package, SDK!Dir,
         SdkP!Dir, SDK!Library, SdkP!Library, SDK!Lib, SdkP!Lib, SDK!Old,
         SdkP!Old, SDK!New, SdkP!New, SDK!switch_bin, SdkP!switch_bin,
         SDK!system_bin, SdkP!system_bin, SDK!ocaml, SdkP!ocaml,
         SDK!Toolchain, SdkP!Toolchain, SDK!CompilerLib, SdkP!CompilerLib,
         SDK!CompilerLibPackages, SdkP!CompilerLibPackages, SDK!Runtime,
         SdkP!Runtime
  <1> QED
    BY ImplementsSdk, SameSdk, <1>1, <1>2, PTL

(* The types of the tool's own variables, and that nothing is walked that  *)
(* has not been parsed.                                                    *)
OwnTypes ==
    /\ rule \in {"prefix", "running", "done", "failed"}
    /\ tool \in Ended \cup {"none", "handler", "access", "parse", "module",
                            "walk", "bindir", "stublibs", "stublinks",
                            "ocamlsdk"}
    /\ pkg \in {"library", "stublibs", "ocamlsdk"}
    /\ META \in MetaFile /\ parsed \in {"none", "empty", "good"}
    /\ parsed = "none" => tool \notin {"module", "walk"}
    /\ stublibs \in {Missing} \cup SUBSET File
    /\ rewritten \in 0..MaxChanges
    /\ module_file \in BOOLEAN /\ error \in BOOLEAN
    /\ stubs \in [build : BOOLEAN, links : SUBSET File]

LEMMA OwnInvariance == Spec => []OwnTypes
  <1>1. Init => OwnTypes
    <2>1. MaxChanges \in Nat
      BY Assumptions DEF BindirAssumptions
    <2>2. Init => /\ rule = "prefix" /\ tool = "none" /\ parsed = "none"
                  /\ pkg \in {"library", "stublibs", "ocamlsdk"}
                  /\ META \in MetaFile /\ stublibs \in {Missing} \cup SUBSET File
                  /\ module_file = FALSE /\ error = FALSE /\ rewritten = 0
                  /\ stubs \in [build : BOOLEAN, links : SUBSET File]
      BY DEF Init, NoStubs
    <2>3. 0 \in 0..MaxChanges
      BY <2>1
    <2> QED
      BY <2>2, <2>3 DEF OwnTypes
  <1>2. OwnTypes /\ [Next]_vars => OwnTypes'
    <2> SUFFICES ASSUME OwnTypes, [Next]_vars PROVE OwnTypes'
      OBVIOUS
    <2> USE DEF OwnTypes, Ended, switch_vars
    <2>1. CASE Rule
      BY <2>1 DEF Rule, OpamVarFails, RunTool, ToolEnded
    <2>2. CASE Handler
      BY <2>2 DEF Handler
    <2>3. CASE MetaMissing \/ MetaFound \/ ParseError \/ Parsed
      BY <2>3 DEF MetaMissing, MetaFound, ParseError, Parsed
    <2>4. CASE EmitModule \/ EmitModuleFails
      BY <2>4 DEF EmitModule, EmitModuleFails
    <2>5. CASE WalkStep \/ BindirStep \/ SdkStep
      BY <2>5 DEF WalkStep, BindirStep, SdkStep
    <2>6. CASE WalkEnds \/ BindirEnds
      BY <2>6 DEF WalkEnds, BindirEnds
    <2>7. CASE StublibsMissing \/ StublibsFiles \/ StublibsFail
      BY <2>7 DEF StublibsMissing, StublibsFiles, StublibsFail
    <2>8. CASE StublibsLinks \/ StublibsLinksFail
      BY <2>8 DEF StublibsLinks, StublibsLinksFail
    <2>9. CASE SdkEnds
      BY <2>9 DEF SdkEnds, SDK!Ended
    <2>10. CASE Killed \/ DunePackageChanges \/ InstallationChanges
      BY <2>10 DEF Killed, DunePackageChanges, InstallationChanges
    <2>11. CASE SwitchChanges
      BY <2>11, Assumptions DEF SwitchChanges, BindirAssumptions
    <2>12. CASE UNCHANGED vars
      BY <2>12 DEF vars
    <2> QED
      BY <2>1, <2>2, <2>3, <2>4, <2>5, <2>6, <2>7, <2>8, <2>9, <2>10, <2>11,
         <2>12 DEF Next, Tool, Others
  <1> QED
    BY <1>1, <1>2, PTL DEF Spec

(* Every variable of the rule, the tool and its parts has its type.        *)
THEOREM TypeCorrect == Spec => []TypeOK
  <1>1. OwnTypes /\ Walk!TypeOK /\ BindirTypeOK /\ SDK!TypeOK => TypeOK
    BY DEF OwnTypes, TypeOK
  <1> QED
    BY <1>1, OwnInvariance, WalkTypes, BindirTypes, SdkTypes, PTL

-----------------------------------------------------------------------------
(* The strengthening: which part of the tool works for which package, and  *)
(* that the tool ends well with nothing to report only after the links.    *)
Ending ==
    /\ tool \in {"access", "parse", "module", "walk", "bindir"} => pkg = "library"
    /\ tool \in {"stublibs", "stublinks"} => pkg = "stublibs"
    /\ tool = "ocamlsdk" => pkg = "ocamlsdk"
    /\ tool = "exit0" /\ ~error /\ pkg = "library" => bindir_pc = "done"
    /\ tool = "exit0" /\ pkg = "ocamlsdk" => status = "exit0"
    /\ rule = "prefix" => tool = "none"
    /\ rule = "done" => tool = "exit0"
    /\ pkg \in {"library", "stublibs", "ocamlsdk"}
    /\ error \in BOOLEAN

LEMMA EndingInvariance == Spec => []Ending
  <1>1. Init => Ending
    BY DEF Init, Ending
  <1>2. Ending /\ [Next]_vars => Ending'
    <2> SUFFICES ASSUME Ending, [Next]_vars PROVE Ending'
      OBVIOUS
    <2> USE DEF Ending, part_vars, bindir_vars, sdk_vars
    <2>1. CASE Rule
      BY <2>1 DEF Rule, OpamVarFails, RunTool, ToolEnded
    <2>2. CASE Handler
      BY <2>2 DEF Handler
    <2>3. CASE MetaMissing \/ MetaFound \/ ParseError \/ Parsed
      BY <2>3 DEF MetaMissing, MetaFound, ParseError, Parsed
    <2>4. CASE EmitModule \/ EmitModuleFails
      BY <2>4 DEF EmitModule, EmitModuleFails
    <2>5. CASE WalkStep \/ BindirStep
      BY <2>5 DEF WalkStep, BindirStep
    <2>6. CASE WalkEnds
      BY <2>6 DEF WalkEnds
    <2>7. CASE BindirEnds
      BY <2>7 DEF BindirEnds
    <2>8. CASE \/ StublibsMissing \/ StublibsFiles \/ StublibsFail
               \/ StublibsLinks \/ StublibsLinksFail \/ SdkStep \/ SdkEnds
      BY <2>8 DEF StublibsMissing, StublibsFiles, StublibsFail,
                  StublibsLinks, StublibsLinksFail, SdkStep, SdkEnds,
                  SDK!Ended
    <2>9. CASE Killed
      BY <2>9 DEF Killed
    <2>10. CASE DunePackageChanges
      BY <2>10 DEF DunePackageChanges, OpamChanges
    <2>11. CASE SwitchChanges \/ InstallationChanges \/ UNCHANGED vars
      BY <2>11 DEF SwitchChanges, InstallationChanges, SDK!OpamChanges, vars
    <2> QED
      BY <2>1, <2>2, <2>3, <2>4, <2>5, <2>6, <2>7, <2>8, <2>9, <2>10, <2>11
         DEF Next, Tool, Others
  <1> QED
    BY <1>1, <1>2, PTL DEF Spec

(* The links of a repository that Bazel accepts without an error reported  *)
(* are complete and of one version, for every set of packages and however  *)
(* often opam changes them while the rule runs.                            *)
THEOREM OneVersionLinkedCorrect == Spec => []OneVersionLinked
  <1>1. Ending /\ OneVersion => OneVersionLinked
    BY DEF Ending, OneVersionLinked
  <1> QED
    BY <1>1, EndingInvariance, BindirOneVersion, PTL

(* The compiler's repository that Bazel accepts has its toolchain, for     *)
(* every compiler and switch, whatever the tool could not write and        *)
(* however often opam changes the switch.                                  *)
THEOREM ToolchainAcceptedCorrect == Spec => []ToolchainAccepted
  <1>1. Ending /\ SDK!ToolchainResolves => ToolchainAccepted
    BY DEF Ending, ToolchainAccepted
  <1> QED
    BY <1>1, EndingInvariance, SdkToolchain, PTL

-----------------------------------------------------------------------------
(* What the tool has written by where it is: the MODULE file before the    *)
(* walk and the links, of the package stublibs with the BUILD file.        *)
Written ==
    /\ tool \in {"none", "handler", "stublibs"} => ~module_file /\ ~stubs.build
    /\ tool \in {"access", "parse", "module"} => pkg = "library"
    /\ tool = "walk" => module_file /\ pkg = "library"
    /\ tool = "stublibs" => pkg = "stublibs"
    /\ tool = "stublinks" => module_file /\ stubs.build /\ pkg = "stublibs"
    /\ tool = "bindir" => pkg = "library"
    /\ tool = "ocamlsdk" => pkg = "ocamlsdk"
    /\ tool \in {"bindir", "exit0"} /\ ~error /\ pkg = "library" =>
          module_file /\ (parsed = "good" => walk_pc = "done")
    /\ tool = "exit0" /\ ~error /\ pkg = "stublibs" => stubs.build = module_file
    /\ rule = "prefix" => tool = "none"
    /\ rule = "done" => tool = "exit0"

LEMMA WrittenInvariance == Spec => []Written
  <1>1. Init => Written
    BY DEF Init, Written, NoStubs
  <1>2. OwnTypes /\ Written /\ [Next]_vars => Written'
    <2> SUFFICES ASSUME OwnTypes, Written, [Next]_vars PROVE Written'
      OBVIOUS
    <2>0. /\ stubs \in [build : BOOLEAN, links : SUBSET File]
          /\ pkg \in {"library", "stublibs", "ocamlsdk"}
          /\ module_file \in BOOLEAN /\ error \in BOOLEAN
          /\ parsed \in {"none", "empty", "good"}
          /\ parsed = "none" => tool \notin {"module", "walk"}
      BY DEF OwnTypes
    <2> USE DEF Written, part_vars, walk_vars
    <2>1. CASE Rule
      BY <2>1 DEF Rule, OpamVarFails, RunTool, ToolEnded
    <2>2. CASE Handler
      BY <2>0, <2>2 DEF Handler
    <2>3. CASE MetaMissing \/ MetaFound \/ ParseError \/ Parsed
      BY <2>0, <2>3 DEF MetaMissing, MetaFound, ParseError, Parsed
    <2>4. CASE EmitModule \/ EmitModuleFails
      BY <2>0, <2>4 DEF EmitModule, EmitModuleFails
    <2>5. CASE WalkStep \/ BindirStep
      BY <2>5 DEF WalkStep, BindirStep
    <2>6. CASE WalkEnds
      BY <2>0, <2>6 DEF WalkEnds
    <2>7. CASE BindirEnds
      BY <2>0, <2>7 DEF BindirEnds
    <2>8. CASE StublibsMissing \/ StublibsFiles \/ StublibsFail
      BY <2>0, <2>8 DEF StublibsMissing, StublibsFiles, StublibsFail
    <2>9. CASE StublibsLinks \/ StublibsLinksFail
      BY <2>0, <2>9 DEF StublibsLinks, StublibsLinksFail
    <2>10. CASE SdkStep \/ SdkEnds
      BY <2>10 DEF SdkStep, SdkEnds, SDK!Ended
    <2>11. CASE Killed \/ DunePackageChanges \/ InstallationChanges
      BY <2>11 DEF Killed, DunePackageChanges, InstallationChanges
    <2>12. CASE SwitchChanges \/ UNCHANGED vars
      BY <2>12 DEF SwitchChanges, vars
    <2> QED
      BY <2>1, <2>2, <2>3, <2>4, <2>5, <2>6, <2>7, <2>8, <2>9, <2>10, <2>11,
         <2>12 DEF Next, Tool, Others
  <1> QED
    BY <1>1, <1>2, OwnInvariance, PTL DEF Spec

(* A repository that Bazel accepts without an error reported is whole: for *)
(* every META tree its MODULE file is there and every archive of up to     *)
(* three names where its dependents look, wherever the tool may have been  *)
(* killed, failed to write or found the switch changed.                    *)
THEOREM WholeRepositoryCorrect == Spec => []WholeRepository
  <1>1. Written /\ Walk!MappingScheme => WholeRepository
    BY DEF Written, WholeRepository
  <1> QED
    BY <1>1, WrittenInvariance, WalkMapping, PTL
=============================================================================
