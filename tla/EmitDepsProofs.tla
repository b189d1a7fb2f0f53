--------------------------- MODULE EmitDepsProofs ---------------------------
(* The labels and bazel_deps of EmitDeps, for all META files: packages and *)
(* settings in any number, and any names.                                  *)
EXTENDS EmitDeps, FiniteSetTheorems, SequenceTheorems, TLAPS

LEMMA SettingsType ==
    ASSUME meta \in Meta, NEW p \in DOMAIN meta.pkgs, NEW attr
    PROVE  Settings(p, attr) \in Seq(Setting)
  <1>1. meta.pkgs[p] \in Package
    BY DEF Meta
  <1> QED
    BY <1>1 DEF Settings, Package

LEMMA RulesType ==
    ASSUME meta \in Meta, NEW p \in 1..Len(meta.pkgs)
    PROVE  Len(Rules(p)) \in Nat
  <1>1. meta.pkgs[p] \in Package
    BY DEF Meta
  <1> QED
    BY <1>1 DEF Rules, Package

(* The loop over the settings stays within them.                           *)
LEMMA CountInBounds ==
    ASSUME meta \in Meta, NEW p \in DOMAIN meta.pkgs, NEW attr
    PROVE  /\ settings_ct(p, attr) \in Int
           /\ settings_ct(p, attr) <= Len(Settings(p, attr))
  <1> DEFINE S == Settings(p, attr)
  <1>1. S \in Seq(Setting)
    BY SettingsType
  <1>2. Len(S) \in Nat /\ DOMAIN S = 1..Len(S)
    BY <1>1
  <1>3. IsFiniteSet(DOMAIN S)
    BY <1>2, FS_Interval
  <1>4. Flagged(p, attr) \subseteq DOMAIN S
    BY DEF Flagged
  <1>5. Cardinality(Flagged(p, attr)) \in Nat
    BY <1>3, <1>4, FS_Subset, FS_CardinalityType
  <1> QED
    BY <1>2, <1>5 DEF settings_ct

LEMMA LabelType ==
    ASSUME NEW p, NEW attr, NEW d \in Dep
    PROVE  Label(p, attr, d) \in
             [repo : Repo,
              path : Seq(Name \cup {"compiler-libs", "common", "threads"})]
  <1> DEFINE Path == Seq(Name \cup {"compiler-libs", "common", "threads"})
  <1>1. d \in Path /\ Tail(d) \in Path /\ d[1] \in Name
    BY DEF Dep
  <1>2. <<"threads">> \in Path /\ <<"compiler-libs", "common">> \in Path
    OBVIOUS
  <1>3. special_case_multiseg_dep(d) \in [repo : Repo, path : Path]
    BY <1>1, <1>2 DEF special_case_multiseg_dep, Repo
  <1> QED
    BY <1>1, <1>3 DEF Label, deps_label, codeps_label, Repo

THEOREM TypeCorrect == Spec => []TypeOK
  <1>1. Init => TypeOK
    <2> SUFFICES ASSUME Init PROVE TypeOK
      OBVIOUS
    <2>1. meta \in Meta
      BY Assumptions DEF Init
    <2>2. Len(meta.pkgs) \in Nat
      BY <2>1 DEF Meta
    <2>3. 1 <= Len(meta.pkgs) => Len(Rules(1)) \in Nat
      BY <2>1, <2>2, RulesType
    <2> QED
      BY <2>1, <2>2, <2>3 DEF Init, TypeOK, Attribute
  <1>2. TypeOK /\ [Next]_vars => TypeOK'
    <2> SUFFICES ASSUME TypeOK, [Next]_vars PROVE TypeOK'
      OBVIOUS
    <2> USE DEF TypeOK, Attribute
    <2>0. Len(meta.pkgs) \in Nat /\ DOMAIN meta.pkgs = 1..Len(meta.pkgs)
      BY DEF Meta
    <2>1. CASE emit_module_file
      <3>1. bazel_deps \subseteq Name \cup {SdkModule}
        <4>1. ASSUME NEW attr PROVE Repos(attr) \subseteq Name
          <5>1. ASSUME NEW p \in DOMAIN meta.pkgs,
                       NEW k \in DOMAIN Settings(p, attr),
                       NEW j \in DOMAIN Settings(p, attr)[k].values
                PROVE  Settings(p, attr)[k].values[j][1] \in Name
            <6>1. Settings(p, attr)[k] \in Setting
              BY SettingsType
            <6>2. Settings(p, attr)[k].values[j] \in Dep
              BY <6>1 DEF Setting
            <6> QED
              BY <6>2 DEF Dep
          <5> QED
            BY <5>1 DEF Repos
        <4> QED
          BY <4>1 DEF bazel_deps, findlib_pkg_deps, findlib_pkg_codeps
      <3> QED
        BY <2>1, <3>1 DEF emit_module_file, Rules
    <2>2. CASE StartRule
      BY <2>2 DEF StartRule, Rules
    <2>a. CASE PrintArchives
      BY <2>a DEF PrintArchives, Rules
    <2>3. CASE SkipSetting
      BY <2>3 DEF SkipSetting, Rules
    <2>4. CASE PrintSetting
      <3>1. pkg \in DOMAIN meta.pkgs
        BY <2>0, <2>4 DEF PrintSetting
      <3>2. settings_ct(pkg, pc) \in Int
            /\ settings_ct(pkg, pc) <= Len(Settings(pkg, pc))
        BY <3>1, CountInBounds
      <3>3. Settings(pkg, pc)[i] \in Setting
        BY <2>4, <3>1, <3>2, SettingsType DEF PrintSetting
      <3> DEFINE values == Settings(pkg, pc)[i].values
      <3>4. values \in Seq(Dep)
        BY <3>3 DEF Setting
      <3>5. ASSUME NEW j \in Printed(pc, values)
            PROVE  [pkg |-> pkg, rule |-> rule, attr |-> pc, setting |-> i,
                    value |-> j, label |-> Label(pkg, pc, values[j])] \in Entry
        <4>1. j \in Nat /\ values[j] \in Dep
          BY <3>4 DEF Printed
        <4>2. pkg \in Nat /\ rule \in Nat /\ i \in Nat /\ pc \in Attribute
          <5>1. rule \in 1..(Len(Rules(pkg)) + 1)
            BY <2>4 DEF PrintSetting
          <5> QED
            BY <5>1, <2>4, <2>0 DEF PrintSetting
        <4> QED
          BY <4>1, <4>2, LabelType DEF Entry
      <3>6. build' \subseteq Entry
        BY <2>4, <3>5 DEF PrintSetting
      <3>7. UNCHANGED <<meta, pc, pkg, rule, module, archives>> /\ i' = i + 1
        BY <2>4 DEF PrintSetting
      <3> QED
        BY <3>6, <3>7 DEF Rules
    <2>5. CASE EndDeps
      <3>1. Len(Rules(pkg)) \in Nat
        BY <2>0, <2>5, RulesType DEF EndDeps
      <3> QED
        BY <2>5, <3>1 DEF EndDeps, Rules
    <2>6. CASE EndCodeps
      <3>1. Len(Rules(pkg)) \in Nat
        BY <2>0, <2>6, RulesType DEF EndCodeps
      <3> QED
        BY <2>6, <3>1 DEF EndCodeps, Rules
    <2>7. CASE NextPackage
      <3>1. pkg + 1 <= Len(meta.pkgs) => Len(Rules(pkg + 1)) \in Nat
        BY <2>0, <2>7, RulesType DEF NextPackage
      <3>2. /\ pkg' = pkg + 1 /\ rule' = 1
            /\ UNCHANGED <<meta, pc, i, module, archives, build>>
            /\ pc = "rule" /\ pkg <= Len(meta.pkgs)
        BY <2>7 DEF NextPackage
      <3>3. Rules(pkg)' = Rules(pkg + 1)
        BY <3>2 DEF Rules
      <3>4. pkg' \in 1..(Len(meta'.pkgs) + 1)
        BY <2>0, <3>2
      <3>5. pkg' <= Len(meta'.pkgs) => rule' \in 1..(Len(Rules(pkg)') + 1)
        BY <3>1, <3>2, <3>3
      <3> QED
        BY <3>2, <3>4, <3>5
    <2>8. CASE Finish
      BY <2>8 DEF Finish, Rules
    <2>9. CASE UNCHANGED vars
      BY <2>9 DEF vars, Rules
    <2> QED
      BY <2>1, <2>2, <2>3, <2>4, <2>5, <2>6, <2>7, <2>8, <2>9, <2>a DEF Next
  <1> QED
    BY <1>1, <1>2, PTL DEF Spec

-----------------------------------------------------------------------------
(* Every label printed is that of a value of a setting, and what           *)
(* MODULE.bazel declares is settled before the first is.                   *)
FromSetting(b) ==
    /\ b.pkg \in DOMAIN meta.pkgs /\ b.attr \in Attribute
    /\ b.setting \in DOMAIN Settings(b.pkg, b.attr)
    /\ b.value \in DOMAIN Settings(b.pkg, b.attr)[b.setting].values
    /\ b.label = Label(b.pkg, b.attr, DepOf(b))

Emitted ==
    /\ \A b \in build : FromSetting(b)
    /\ pc = "module" => build = {}
    /\ pc # "module" => module = bazel_deps

LEMMA EmittedCorrect == Spec => []Emitted
  <1>1. Init => Emitted
    BY DEF Init, Emitted
  <1>2. TypeOK /\ Emitted /\ [Next]_vars => Emitted'
    <2> SUFFICES ASSUME TypeOK, Emitted, [Next]_vars PROVE Emitted'
      OBVIOUS
    <2>1. meta' = meta
      BY DEF Next, vars, emit_module_file, StartRule, PrintArchives, SkipSetting, PrintSetting,
             EndDeps, EndCodeps, NextPackage, Finish
    <2>2. bazel_deps' = bazel_deps
      BY <2>1 DEF bazel_deps, findlib_pkg_deps, findlib_pkg_codeps, Repos, Settings
    <2>3. ASSUME NEW b, FromSetting(b) PROVE FromSetting(b)'
      BY <2>1, <2>3 DEF FromSetting, DepOf, Label, settings_ct, Flagged, Settings
    <2>4. CASE emit_module_file
      BY <2>2, <2>4 DEF emit_module_file, Emitted
    <2>5. CASE PrintSetting
      <3>1. /\ pkg \in DOMAIN meta.pkgs /\ pc \in Attribute
            /\ i \in DOMAIN Settings(pkg, pc)
        <4>1. /\ pkg \in 1..Len(meta.pkgs) /\ DOMAIN meta.pkgs = 1..Len(meta.pkgs)
              /\ pc \in Attribute /\ i \in Nat \ {0}
              /\ i <= settings_ct(pkg, pc)
          BY <2>5 DEF PrintSetting, TypeOK, Meta
        <4>2. Settings(pkg, pc) \in Seq(Setting) /\ settings_ct(pkg, pc) \in Int
              /\ settings_ct(pkg, pc) <= Len(Settings(pkg, pc))
          BY <4>1, SettingsType, CountInBounds DEF TypeOK
        <4> QED
          BY <4>1, <4>2
      <3> DEFINE values == Settings(pkg, pc)[i].values
                 new(j) == [pkg |-> pkg, rule |-> rule, attr |-> pc, setting |-> i,
                            value |-> j, label |-> Label(pkg, pc, values[j])]
      <3>2. ASSUME NEW j \in Printed(pc, values) PROVE FromSetting(new(j))
        <4>1. j \in DOMAIN values
          BY DEF Printed
        <4>2. DepOf(new(j)) = values[j]
          BY DEF DepOf
        <4> QED
          BY <3>1, <4>1, <4>2 DEF FromSetting
      <3>3. build' = build \cup {new(j) : j \in Printed(pc, values)}
        BY <2>5 DEF PrintSetting
      <3>4. \A b \in build' : FromSetting(b)
        BY <3>2, <3>3 DEF Emitted
      <3>5. \A b \in build' : FromSetting(b)'
        BY <2>3, <3>4
      <3> QED
        BY <2>2, <2>5, <3>5 DEF PrintSetting, Emitted, Attribute
    <2>6. CASE StartRule \/ PrintArchives \/ SkipSetting \/ EndDeps \/ EndCodeps \/ NextPackage
                 \/ Finish \/ UNCHANGED vars
      <3>1. build' = build /\ module' = module
            /\ (pc' = "module" <=> pc = "module")
        BY <2>6 DEF StartRule, PrintArchives, SkipSetting, EndDeps, EndCodeps, NextPackage,
                    Finish, vars, Attribute
      <3> QED
        BY <2>2, <2>3, <3>1 DEF Emitted
    <2> QED
      BY <2>4, <2>5, <2>6 DEF Next
  <1> QED
    BY <1>1, <1>2, TypeCorrect, PTL DEF Spec

(* What a printed label was made of: a dependency whose first name counts  *)
(* among the repositories of the META file.                                *)
LEMMA DepOfType ==
    ASSUME TypeOK, NEW b, FromSetting(b)
    PROVE  DepOf(b) \in Dep /\ DepOf(b)[1] \in Repos(b.attr)
  <1>1. Settings(b.pkg, b.attr)[b.setting] \in Setting
    BY SettingsType DEF FromSetting, TypeOK
  <1>2. DepOf(b) \in Dep
    BY <1>1 DEF Setting, DepOf, FromSetting
  <1>3. DepOf(b)[1] \in Repos(b.attr)
    BY DEF Repos, DepOf, FromSetting
  <1> QED
    BY <1>2, <1>3

(* Which repository a label names.                                         *)
LEMMA LabelRepo ==
    ASSUME TypeOK, NEW b, FromSetting(b)
    PROVE  LET name == DepOf(b)[1]
           IN  /\ b.label.repo \in {Sdk, Fixme, name}
               /\ b.attr = "deps" /\ b.label.repo = Sdk
                    => name \in CompilerLibs \cup Distrib \cup {"threads"}
  <1>1. DepOf(b) \in Dep /\ DepOf(b)[1] \in Name
    BY DepOfType DEF Dep
  <1>2. b.label = Label(b.pkg, b.attr, DepOf(b))
    BY DEF FromSetting
  <1> QED
    BY <1>1, <1>2, Assumptions
       DEF Label, deps_label, codeps_label, special_case_multiseg_dep, SpecialCase

(* The repositories that labels name are declared, but for the cases that  *)
(* Untold lists, in META files of any size and with any names.             *)
THEOREM LabelsDeclaredCorrect == Spec => []LabelsDeclared
  <1>1. TypeOK /\ Emitted => LabelsDeclared
    <2> SUFFICES ASSUME TypeOK, Emitted, NEW b \in build, b.label.repo # Fixme
                 PROVE  Told(b.label.repo) \/ Untold(b)
      BY DEF LabelsDeclared
    <2> DEFINE name == DepOf(b)[1]
    <2>1. FromSetting(b) /\ module = bazel_deps
      BY DEF Emitted
    <2>2. b.label.repo \in {Sdk, name} /\ name \in Repos(b.attr) /\ name \in Name
      BY <2>1, LabelRepo, DepOfType DEF Dep
    <2>3. b.label.repo # Sdk => b.label.repo = name
      BY <2>2
    <2>4. name # Sdk
      BY <2>2, Assumptions
    <2>5. b.attr \in {"deps", "codeps"}
      BY <2>1 DEF FromSetting, Attribute
    <2>6. CASE b.attr = "deps" /\ b.label.repo = Sdk
      <3>1. name \in CompilerLibs \cup Distrib \cup {"threads"}
        BY <2>1, <2>6, LabelRepo
      <3>2. name \in BuiltIn \/ name \in {"bigarray", "ffi", "profiling"}
        BY <3>1, Assumptions DEF Distrib
      <3>3. name \in BuiltIn => SdkModule \in bazel_deps
        BY <2>2, <2>6 DEF bazel_deps, findlib_pkg_deps
      <3> QED
        BY <2>1, <2>6, <3>2, <3>3 DEF Told, Untold
    <2>7. CASE b.attr = "deps" /\ b.label.repo = name
      BY <2>1, <2>2, <2>4, <2>7 DEF Told, Untold, bazel_deps, findlib_pkg_deps
    <2>8. CASE b.attr = "codeps" /\ b.label.repo = Sdk
      BY <2>8 DEF Untold
    <2>9. CASE b.attr = "codeps" /\ b.label.repo = name
      BY <2>1, <2>2, <2>4, <2>9
         DEF Told, Untold, bazel_deps, findlib_pkg_deps, findlib_pkg_codeps
    <2> QED
      BY <2>2, <2>5, <2>6, <2>7, <2>8, <2>9
  <1> QED
    BY <1>1, TypeCorrect, EmittedCorrect, PTL

-----------------------------------------------------------------------------
(* A dependency is its first name and the rest.                            *)
LEMMA HeadAndTail ==
    ASSUME NEW d \in Dep, NEW e \in Dep, d[1] = e[1], Tail(d) = Tail(e)
    PROVE  d = e
  <1>1. d \in Seq(Name) /\ e \in Seq(Name) /\ Len(d) >= 1 /\ Len(e) >= 1
    BY DEF Dep
  <1>2. Len(d) = Len(e)
    BY <1>1
  <1>3. ASSUME NEW k \in 1..Len(d) PROVE d[k] = e[k]
    <2>1. CASE k = 1
      BY <2>1
    <2>2. CASE k # 1
      <3>1. k - 1 \in 1..Len(Tail(d)) /\ k - 1 \in 1..Len(Tail(e))
        BY <1>1, <1>2, <2>2
      <3>2. d[k] = Tail(d)[k - 1] /\ e[k] = Tail(e)[k - 1]
        BY <1>1, <2>2, <3>1
      <3> QED
        BY <3>2
    <2> QED
      BY <2>1, <2>2
  <1> QED
    BY <1>1, <1>2, <1>3, SeqEqual

(* Two special cases share a label only as one library.                    *)
LEMMA SpecialLabels ==
    ASSUME NEW d \in Dep, NEW e \in Dep, SpecialCase(d), SpecialCase(e),
           special_case_multiseg_dep(d) = special_case_multiseg_dep(e)
    PROVE  SameLibrary(d, e)
  <1>1. d[1] \in CompilerLibs \cup {"threads"} /\ e[1] \in CompilerLibs \cup {"threads"}
    BY Assumptions DEF SpecialCase
  <1>2. Len(d) \in Nat /\ Len(e) \in Nat /\ Len(<<"threads">>) = 1
    BY DEF Dep
  <1>3. ASSUME NEW f \in Dep, SpecialCase(f), f[1] # "threads"
        PROVE  special_case_multiseg_dep(f).path # <<"threads">>
    <2>1. CASE Len(f) = 1
      BY <1>3, <2>1 DEF special_case_multiseg_dep
    <2>2. CASE Len(f) # 1
      BY <1>3, <2>2 DEF special_case_multiseg_dep
    <2> QED
      BY <2>1, <2>2
  <1>4. d[1] = "threads" <=> e[1] = "threads"
    BY <1>3 DEF special_case_multiseg_dep
  <1> QED
    BY <1>1, <1>4 DEF SameLibrary

(* A special case is no library with a directory of its own.               *)
LEMMA SpecialOrDistrib ==
    ASSUME NEW d \in Dep, NEW e \in Dep, SpecialCase(d),
           Len(e) = 1, ~SpecialCase(e)
    PROVE  special_case_multiseg_dep(d).path # e
  <1>1. e[1] \notin CompilerLibs \cup {"threads"}
    BY DEF SpecialCase
  <1>2. CASE d[1] = "threads"
    BY <1>1, <1>2 DEF special_case_multiseg_dep
  <1>3. CASE d[1] # "threads" /\ Len(d) = 1
    BY <1>3 DEF special_case_multiseg_dep
  <1>4. CASE d[1] # "threads" /\ Len(d) # 1
    BY <1>4 DEF special_case_multiseg_dep
  <1> QED
    BY <1>2, <1>3, <1>4

LEMMA deps_labelDistinct ==
    ASSUME NEW d \in Dep, NEW e \in Dep, deps_label(d) = deps_label(e)
    PROVE  d = e \/ SameLibrary(d, e)
  <1> DEFINE Own(f) == ~SpecialCase(f) /\ Len(f) = 1 /\ f[1] \in Distrib
             Opam(f) == ~SpecialCase(f) /\ ~(Len(f) = 1 /\ f[1] \in Distrib)
  <1>1. d[1] \in Name /\ e[1] \in Name /\ Sdk \notin Name
    BY Assumptions DEF Dep
  <1>2. CASE SpecialCase(d) /\ SpecialCase(e)
    BY <1>2, SpecialLabels DEF deps_label
  <1>3. CASE SpecialCase(d) /\ Own(e)
    BY <1>3, SpecialOrDistrib DEF deps_label
  <1>4. CASE Own(d) /\ SpecialCase(e)
    BY <1>4, SpecialOrDistrib DEF deps_label
  <1>5. CASE Own(d) /\ Own(e)
    BY <1>5 DEF deps_label
  <1>6. CASE Opam(d) /\ Opam(e)
    BY <1>6, HeadAndTail DEF deps_label
  <1>7. CASE Opam(d) /\ ~Opam(e)
    BY <1>1, <1>7 DEF deps_label, special_case_multiseg_dep
  <1>8. CASE ~Opam(d) /\ Opam(e)
    BY <1>1, <1>8 DEF deps_label, special_case_multiseg_dep
  <1> QED
    BY <1>2, <1>3, <1>4, <1>5, <1>6, <1>7, <1>8

LEMMA codeps_labelDistinct ==
    ASSUME NEW d \in Dep, NEW e \in Dep, codeps_label(d) = codeps_label(e)
    PROVE  d = e \/ SameLibrary(d, e)
  <1> DEFINE Short(f) == Len(f) = 1 /\ SpecialCase(f)
  <1>1. d[1] \in Name /\ e[1] \in Name /\ Sdk \notin Name
    BY Assumptions DEF Dep
  <1>2. CASE Short(d) /\ Short(e)
    BY <1>2, SpecialLabels DEF codeps_label
  <1>3. CASE ~Short(d) /\ ~Short(e)
    BY <1>3, HeadAndTail DEF codeps_label
  <1>4. CASE Short(d) # Short(e)
    BY <1>1, <1>4 DEF codeps_label, special_case_multiseg_dep
  <1> QED
    BY <1>2, <1>3, <1>4

(* No two dependencies meet in one label of an attribute unless they are   *)
(* one library of the SDK, whatever names a META file contains.            *)
THEOREM LabelsDistinctCorrect == Spec => []LabelsDistinct
  <1>1. TypeOK /\ Emitted => LabelsDistinct
    <2> SUFFICES ASSUME TypeOK, Emitted, NEW b \in build, NEW c \in build,
                        b.attr = c.attr, b.label = c.label
                 PROVE  DepOf(b) = DepOf(c) \/ SameLibrary(DepOf(b), DepOf(c))
      BY DEF LabelsDistinct
    <2>1. FromSetting(b) /\ FromSetting(c)
      BY DEF Emitted
    <2> DEFINE d == DepOf(b)
               e == DepOf(c)
               Select(p) == settings_ct(p, b.attr) > 1
    <2>2. d \in Dep /\ e \in Dep
      BY <2>1, DepOfType
    <2>3. /\ b.label = Label(b.pkg, b.attr, d)
          /\ b.label = Label(c.pkg, b.attr, e)
      BY <2>1 DEF FromSetting
    <2>4. ASSUME NEW f \in Dep
          PROVE  deps_label(f).repo # Fixme /\ codeps_label(f).repo # Fixme
      <3>1. f[1] \in Name
        BY DEF Dep
      <3> QED
        BY <3>1, Assumptions DEF deps_label, codeps_label, special_case_multiseg_dep
    <2>5. Select(b.pkg) <=> Select(c.pkg)
      BY <2>2, <2>3, <2>4 DEF Label
    <2>6. CASE Select(b.pkg)
      BY <2>3, <2>5, <2>6 DEF Label
    <2>7. CASE ~Select(b.pkg) /\ b.attr = "deps"
      BY <2>2, <2>3, <2>5, <2>7, deps_labelDistinct DEF Label
    <2>8. CASE ~Select(b.pkg) /\ b.attr # "deps"
      BY <2>2, <2>3, <2>5, <2>8, codeps_labelDistinct DEF Label
    <2> QED
      BY <2>6, <2>7, <2>8
  <1> QED
    BY <1>1, TypeCorrect, EmittedCorrect, PTL

(* A dependency has one label as a dependency and as a runtime dependency, *)
(* unless it is a library of the SDK.                                      *)
THEOREM SameLabelCorrect == Spec => []SameLabel
  <1>1. TypeOK /\ Emitted => SameLabel
    <2> SUFFICES ASSUME TypeOK, Emitted,
                        NEW b \in build, b.attr = "deps",
                        NEW c \in build, c.attr = "codeps",
                        DepOf(b) = DepOf(c),
                        Fixme \notin {b.label.repo, c.label.repo},
                        DepOf(b)[1] \notin Distrib \cup {"compiler-libs", "threads"}
                 PROVE  b.label = c.label
      BY DEF SameLabel
    <2> DEFINE d == DepOf(b)
    <2>1. FromSetting(b) /\ FromSetting(c)
      BY DEF Emitted
    <2>2. d \in Dep
      BY <2>1, DepOfType
    <2>3. b.label = deps_label(d) /\ c.label = codeps_label(d)
      BY <2>1 DEF FromSetting, Label
    <2>4. SpecialCase(d) => Len(d) = 1
      BY <2>2 DEF SpecialCase
    <2> QED
      BY <2>2, <2>3, <2>4 DEF deps_label, codeps_label
  <1> QED
    BY <1>1, TypeCorrect, EmittedCorrect, PTL

-----------------------------------------------------------------------------
(* Before the first flagged setting, the loops do not stop short.          *)
Leading(p, attr, k) == \A h \in 1..k : h \notin Flagged(p, attr)

LEMMA LeadingCounted ==
    ASSUME meta \in Meta, NEW p \in DOMAIN meta.pkgs, NEW attr,
           NEW k \in DOMAIN Settings(p, attr), Leading(p, attr, k)
    PROVE  k <= settings_ct(p, attr)
  <1> DEFINE n == Len(Settings(p, attr))
  <1>1. n \in Nat /\ DOMAIN Settings(p, attr) = 1..n
    BY SettingsType
  <1>2. IsFiniteSet((k + 1)..n) /\ Cardinality((k + 1)..n) = n - k
    <2>1. /\ IsFiniteSet((k + 1)..n)
          /\ Cardinality((k + 1)..n) = IF k + 1 > n THEN 0 ELSE n - (k + 1) + 1
      <3>1. k \in 1..n /\ k + 1 \in Int /\ n \in Int
        BY <1>1
      <3> QED
        BY <3>1, FS_Interval
    <2> QED
      BY <1>1, <2>1
  <1>3. Flagged(p, attr) \in SUBSET ((k + 1)..n)
    BY <1>1 DEF Flagged, Leading
  <1>4. Cardinality(Flagged(p, attr)) \in Nat /\ Cardinality(Flagged(p, attr)) <= n - k
    BY <1>2, <1>3, FS_Subset, FS_CardinalityType
  <1> QED
    BY <1>1, <1>4 DEF settings_ct

(* The value j of setting k has been printed.                              *)
InBuild(p, r, attr, k, j) ==
    \E b \in build : /\ b.pkg = p /\ b.rule = r /\ b.attr = attr
                     /\ b.setting = k /\ b.value = j

SettingPrinted(p, r, attr, k) ==
    \A j \in DOMAIN Settings(p, attr)[k].values :
        \/ Settings(p, attr)[k].values[j] = <<"uchar">>
        \/ InBuild(p, r, attr, k, j)

(* The walk is past setting k of an attribute.                             *)
Passed(p, r, attr, k) ==
    \/ p < pkg
    \/ p = pkg /\ r < rule
    \/ p = pkg /\ r = rule /\ attr = "deps" /\ pc = "codeps"
    \/ p = pkg /\ r = rule /\ attr = pc /\ k < i

(* What the loops have passed is printed, and they end past the last       *)
(* package.                                                                *)
Progress ==
    /\ \A p \in DOMAIN meta.pkgs : \A r \in DOMAIN Rules(p) :
       \A attr \in {a \in Attribute : HasAttribute(p, r, a)} :
       \A k \in DOMAIN Settings(p, attr) :
           Leading(p, attr, k) /\ Passed(p, r, attr, k)
               => SettingPrinted(p, r, attr, k)
    /\ pc = "module" => pkg = 1 /\ rule = 1
    /\ pc = "archives" => i = 1
    /\ pc = "done" => pkg > Len(meta.pkgs)

LEMMA ProgressStep == TypeOK /\ Progress /\ [Next]_vars => Progress'
  <1> SUFFICES ASSUME TypeOK, Progress, [Next]_vars PROVE Progress'
    OBVIOUS
  <1>1. meta' = meta /\ build \subseteq build'
    BY DEF Next, vars, emit_module_file, StartRule, PrintArchives, SkipSetting, PrintSetting,
           EndDeps, EndCodeps, NextPackage, Finish
  <1>2. /\ \A p : Rules(p)' = Rules(p)
        /\ \A p, attr : /\ Settings(p, attr)' = Settings(p, attr)
                        /\ Flagged(p, attr)' = Flagged(p, attr)
                        /\ settings_ct(p, attr)' = settings_ct(p, attr)
    BY <1>1 DEF Rules, Settings, Flagged, settings_ct
  <1>3. /\ \A p, attr, k : Leading(p, attr, k)' <=> Leading(p, attr, k)
        /\ \A p, r, attr, k : SettingPrinted(p, r, attr, k) => SettingPrinted(p, r, attr, k)'
    BY <1>1, <1>2 DEF Leading, SettingPrinted, InBuild
  <1>4. Len(meta.pkgs) \in Nat /\ DOMAIN meta.pkgs = 1..Len(meta.pkgs) /\ meta \in Meta
    BY DEF TypeOK, Meta
  <1>5. /\ pkg \in Nat /\ i \in Nat
        /\ pkg <= Len(meta.pkgs) => rule \in Nat /\ Len(Rules(pkg)) \in Nat
    BY <1>4, RulesType DEF TypeOK
  (* What had been passed is printed and stays so; this is about the rest. *)
  <1>6. ASSUME NEW p \in DOMAIN meta.pkgs, NEW r \in DOMAIN Rules(p),
               NEW attr \in Attribute, HasAttribute(p, r, attr),
               NEW k \in DOMAIN Settings(p, attr),
               Leading(p, attr, k), Passed(p, r, attr, k)',
               ~Passed(p, r, attr, k)
        PROVE  SettingPrinted(p, r, attr, k)'
    <2>0. /\ p \in Nat /\ r \in 1..Len(Rules(p)) /\ k \in Nat /\ k >= 1
          /\ k <= settings_ct(p, attr)
          /\ settings_ct(p, attr) \in Int /\ Len(Rules(p)) \in Nat
      <3>1. Rules(p) \in Seq({"archive", "plugin", "deps"})
        <4>1. meta.pkgs[p] \in Package
          BY <1>4 DEF Meta
        <4> QED
          BY <4>1 DEF Package, Rules
      <3> QED
        BY <1>4, <1>6, <3>1, SettingsType, LeadingCounted, CountInBounds
    <2> USE DEF Passed, Attribute
    <2>1. CASE emit_module_file
      BY <1>4, <1>5, <1>6, <2>0, <2>1 DEF emit_module_file
    <2>2. CASE StartRule
      BY <1>4, <1>5, <1>6, <2>0, <2>2 DEF StartRule
    <2>3. CASE PrintArchives
      BY <1>4, <1>5, <1>6, <2>0, <2>3 DEF PrintArchives, Progress
    <2>4. CASE SkipSetting
      <3>1. p = pkg /\ attr = pc /\ k = i
        BY <1>4, <1>5, <1>6, <2>0, <2>4 DEF SkipSetting
      <3> QED
        BY <1>6, <2>0, <2>4, <3>1 DEF SkipSetting, Leading
    <2>5. CASE PrintSetting
      <3>1. p = pkg /\ r = rule /\ attr = pc /\ k = i
        BY <1>4, <1>5, <1>6, <2>0, <2>5 DEF PrintSetting
      <3> DEFINE values == Settings(pkg, pc)[i].values
                 new(j) == [pkg |-> pkg, rule |-> rule, attr |-> pc, setting |-> i,
                            value |-> j, label |-> Label(pkg, pc, values[j])]
      <3>2. build' = build \cup {new(j) : j \in Printed(pc, values)}
        BY <2>5 DEF PrintSetting
      <3>3. ASSUME NEW j \in DOMAIN values, values[j] # <<"uchar">>
            PROVE  InBuild(p, r, attr, k, j)'
        <4>1. j \in Printed(pc, values)
          BY <3>3 DEF Printed
        <4>2. new(j) \in build'
          BY <3>2, <4>1
        <4> QED
          BY <3>1, <4>2 DEF InBuild
      <3> QED
        BY <1>2, <3>1, <3>3 DEF SettingPrinted
    <2>6. CASE EndDeps
      BY <1>4, <1>5, <1>6, <2>0, <2>6 DEF EndDeps, HasAttribute
    <2>7. CASE EndCodeps
      BY <1>4, <1>5, <1>6, <2>0, <2>7 DEF EndCodeps
    <2>8. CASE NextPackage
      BY <1>4, <1>5, <1>6, <2>0, <2>8 DEF NextPackage
    <2>9. CASE Finish
      BY <1>6, <2>0, <2>9 DEF Finish
    <2>10. CASE UNCHANGED vars
      BY <1>6, <2>10 DEF vars
    <2> QED
      BY <2>1, <2>2, <2>3, <2>4, <2>5, <2>6, <2>7, <2>8, <2>9, <2>10 DEF Next
  <1>7. pc' = "module" => pkg' = 1 /\ rule' = 1
    BY DEF Progress, Next, vars, emit_module_file, StartRule, PrintArchives, SkipSetting,
           PrintSetting, EndDeps, EndCodeps, NextPackage, Finish, Attribute
  <1>8. pc' = "done" => pkg' > Len(meta.pkgs)
    BY DEF Progress, Next, vars, emit_module_file, StartRule, PrintArchives, SkipSetting,
           PrintSetting, EndDeps, EndCodeps, NextPackage, Finish, Attribute
  <1>9. pc' = "archives" => i' = 1
    BY DEF Progress, Next, vars, emit_module_file, StartRule, PrintArchives, SkipSetting,
           PrintSetting, EndDeps, EndCodeps, NextPackage, Finish, Attribute
  <1> QED
    BY <1>1, <1>2, <1>3, <1>6, <1>7, <1>8, <1>9 DEF Progress, HasAttribute

(* Of every setting that stands before a flagged one, all values are       *)
(* printed in every rule that has the attribute, for META files of any     *)
(* size: the reduced count ends no loop too early for them.                *)
THEOREM NothingLostCorrect == Spec => []NothingLost
  <1>1. Init => Progress
    <2> SUFFICES ASSUME Init PROVE Progress
      OBVIOUS
    <2>1. ASSUME NEW p \in DOMAIN meta.pkgs, NEW r \in DOMAIN Rules(p),
                 NEW attr \in Attribute, NEW k
          PROVE  ~Passed(p, r, attr, k)
      <3>1. p \in Nat /\ p >= 1 /\ (p = 1 => r \in Nat /\ r >= 1)
        <4>1. meta \in Meta
          BY Assumptions DEF Init
        <4>2. meta.pkgs[p] \in Package
          BY <4>1 DEF Meta
        <4>3. Rules(p) \in Seq({"archive", "plugin", "deps"})
          BY <4>2 DEF Package, Rules
        <4> QED
          BY <4>1, <4>3 DEF Meta
      <3> QED
        BY <3>1 DEF Init, Passed, Attribute
    <2> QED
      BY <2>1 DEF Init, Progress
  <1>2. TypeOK /\ Progress => NothingLost
    <2> SUFFICES ASSUME TypeOK, Progress, pc = "done",
                        NEW p \in DOMAIN meta.pkgs, NEW r \in DOMAIN Rules(p),
                        NEW attr \in {a \in Attribute : HasAttribute(p, r, a)},
                        NEW k \in DOMAIN Settings(p, attr), Leading(p, attr, k)
                 PROVE  SettingPrinted(p, r, attr, k)
      BY DEF NothingLost, AllPrinted, Leading, SettingPrinted, InBuild
    <2>1. p < pkg
      BY DEF Progress, TypeOK, Meta
    <2> QED
      BY <2>1 DEF Progress, Passed
  <1> QED
    BY <1>1, <1>2, ProgressStep, TypeCorrect, PTL DEF Spec

-----------------------------------------------------------------------------
(* One element at most, or exactly one.                                    *)
LEMMA AtMostOne ==
    ASSUME NEW S, IsFiniteSet(S)
    PROVE  /\ Cardinality(S) <= 1 <=> \A x, y \in S : x = y
           /\ Cardinality(S) = 1 <=> S # {} /\ \A x, y \in S : x = y
  <1>1. Cardinality(S) \in Nat
    BY FS_CardinalityType
  <1>2. /\ Cardinality(S) = 0 <=> S = {}
        /\ Cardinality(S) = 1 <=> \E x : S = {x}
    BY FS_EmptySet, FS_Singleton
  <1>3. (\E x : S = {x}) <=> S # {} /\ \A x, y \in S : x = y
    <2>1. ASSUME S # {}, \A x, y \in S : x = y PROVE \E x : S = {x}
      <3>1. PICK x \in S : TRUE
        BY <2>1
      <3>2. S = {x}
        BY <2>1, <3>1
      <3> QED
        BY <3>2
    <2> QED
      BY <2>1
  <1>4. CASE S = {}
    BY <1>2, <1>4
  <1>5. CASE S # {}
    <2>1. Cardinality(S) <= 1 <=> Cardinality(S) = 1
      BY <1>1, <1>2, <1>5
    <2> QED
      BY <1>2, <1>3, <1>5, <2>1
  <1> QED
    BY <1>4, <1>5

(* The files of live settings, the first two of each.                      *)
FilesOf(settings, tag) ==
    {f \in (DOMAIN settings) \X (1..2) :
        /\ ~settings[f[1]].deprecated /\ settings[f[1]].cmtag = tag
        /\ f[2] <= settings[f[1]].files}

LEMMA FilesOfFinite ==
    ASSUME NEW settings \in Seq(FileSetting), NEW tag
    PROVE  IsFiniteSet(FilesOf(settings, tag))
  <1>1. IsFiniteSet(DOMAIN settings) /\ IsFiniteSet(1..2)
    <2>1. DOMAIN settings = 1..Len(settings) /\ Len(settings) \in Int /\ 1 \in Int /\ 2 \in Int
      OBVIOUS
    <2> QED
      BY <2>1, FS_Interval
  <1>2. IsFiniteSet((DOMAIN settings) \X (1..2))
    BY <1>1, FS_Product
  <1>3. FilesOf(settings, tag) \in SUBSET ((DOMAIN settings) \X (1..2))
    BY DEF FilesOf
  <1> QED
    BY <1>2, <1>3, FS_Subset

(* What belongs to FilesOf, without tuples.                                *)
LEMMA FilesOfElements ==
    ASSUME NEW settings \in Seq(FileSetting), NEW tag
    PROVE  /\ \A k \in DOMAIN settings, j \in 1..2 :
                 <<k, j>> \in FilesOf(settings, tag)
                     <=> /\ ~settings[k].deprecated /\ settings[k].cmtag = tag
                         /\ j <= settings[k].files
           /\ \A f \in FilesOf(settings, tag) :
                 f[1] \in DOMAIN settings /\ f[2] \in 1..2 /\ f = <<f[1], f[2]>>
  BY DEF FilesOf

(* The entries of a select, one by one.                                    *)
LEMMA ArchiveEntries ==
    ASSUME NEW settings \in Seq(FileSetting)
    PROVE  /\ \A e \in archive_attr(settings) :
                 /\ e.setting \in DOMAIN settings /\ ~settings[e.setting].deprecated
                 /\ settings[e.setting].cmtag \in {"cma", "cmxa"}
                 /\ e.value \in 1..settings[e.setting].files
                 /\ e = [setting |-> e.setting, value |-> e.value,
                         key |-> Key(settings, e.setting, e.value)]
           /\ \A k \in DOMAIN settings : \A j \in 1..settings[k].files :
                 ~settings[k].deprecated /\ settings[k].cmtag # "none"
                     => [setting |-> k, value |-> j, key |-> Key(settings, k, j)]
                            \in archive_attr(settings)
  <1>1. \A k \in DOMAIN settings : settings[k] \in FileSetting
    OBVIOUS
  <1> QED
    BY <1>1 DEF archive_attr, Live, FileSetting

LEMMA ArchiveParses ==
    ASSUME NEW settings \in Seq(FileSetting)
    PROVE  Parses(archive_attr(settings)) <=> Usual("archive", settings)
  <1> DEFINE E == archive_attr(settings)
             F(tag) == FilesOf(settings, tag)
             entry(k, j) == [setting |-> k, value |-> j, key |-> Key(settings, k, j)]
             live(k) == ~settings[k].deprecated /\ settings[k].cmtag # "none"
             one(tag) == \A f, g \in F(tag) : f = g
  <1>1. Usual("archive", settings) <=>
            /\ Len(settings) > 1
            /\ one("cma") /\ one("cmxa") /\ F("cma") \cup F("cmxa") # {}
    <2>1. Usual("archive", settings) <=>
            /\ Len(settings) > 1
            /\ Cardinality(F("cma")) <= 1 /\ Cardinality(F("cmxa")) <= 1
            /\ F("cma") \cup F("cmxa") # {}
      BY DEF Usual, FilesOf
    <2>2. \A tag : Cardinality(F(tag)) <= 1 <=> one(tag)
      <3> SUFFICES ASSUME NEW tag PROVE Cardinality(F(tag)) <= 1 <=> one(tag)
        OBVIOUS
      <3>1. IsFiniteSet(F(tag))
        BY FilesOfFinite
      <3> HIDE DEF F
      <3> QED
        BY <3>1, AtMostOne
    <2> HIDE DEF F, one
    <2> QED
      BY <2>1, <2>2
  <1>2. /\ Len(settings) \in Nat
        /\ \A k \in DOMAIN settings :
              /\ settings[k].files \in Nat
              /\ settings[k].cmtag \in {"cma", "cmxa", "none"}
              /\ settings[k].deprecated \in BOOLEAN
    <2>1. \A k \in DOMAIN settings : settings[k] \in FileSetting
      OBVIOUS
    <2> QED
      BY <2>1 DEF FileSetting
  <1>a. \A tag : \A k \in DOMAIN settings, j \in 1..2 :
            <<k, j>> \in F(tag) <=> /\ ~settings[k].deprecated
                                   /\ settings[k].cmtag = tag
                                   /\ j <= settings[k].files
    BY FilesOfElements
  <1>d. ASSUME NEW tag, NEW f \in F(tag)
        PROVE  /\ f[1] \in DOMAIN settings /\ f[2] \in {1, 2} /\ f = <<f[1], f[2]>>
               /\ ~settings[f[1]].deprecated /\ settings[f[1]].cmtag = tag
               /\ f[2] <= settings[f[1]].files
    <2>1. f[1] \in DOMAIN settings /\ f[2] \in 1..2 /\ f = <<f[1], f[2]>>
      BY FilesOfElements
    <2> DEFINE k == f[1]
               j == f[2]
    <2>2. k \in DOMAIN settings /\ j \in 1..2 /\ <<k, j>> \in F(tag)
      BY <2>1
    <2> HIDE DEF k, j
    <2>3. ~settings[k].deprecated /\ settings[k].cmtag = tag /\ j <= settings[k].files
      BY <1>a, <2>2
    <2> QED
      BY <2>1, <2>3 DEF k, j
  <1>b. /\ \A e \in E : /\ e.setting \in DOMAIN settings
                        /\ ~settings[e.setting].deprecated
                        /\ settings[e.setting].cmtag \in {"cma", "cmxa"}
                        /\ e.value \in 1..settings[e.setting].files
                        /\ e = entry(e.setting, e.value)
        /\ \A k \in DOMAIN settings : \A j \in 1..settings[k].files :
              live(k) => entry(k, j) \in E
    BY ArchiveEntries
  <1>c. Len(settings) > 1 =>
            \A k : /\ Key(settings, k, 1) = IF settings[k].cmtag = "cma" THEN "executor:vm"
                                           ELSE "executor:sys"
                  /\ Key(settings, k, 2) = ""
    BY <1>2 DEF Key
  <1> HIDE DEF E, F
  <1>3. ASSUME Parses(E) PROVE Usual("archive", settings)
    <2>1. PICK e \in E : TRUE
      BY <1>3 DEF Parses
    <2>2. Len(settings) > 1
      <3>1. Len(settings) \in Nat /\ e.setting \in 1..Len(settings)
        BY <1>2, <1>b, <2>1
      <3>2. Len(settings) # 1
        <4>1. Key(settings, e.setting, e.value) \in {"executor:vm", "executor:sys", "="}
          BY <1>3, <2>1, <1>b DEF Parses
        <4> QED
          BY <4>1 DEF Key
      <3>3. ASSUME NEW n \in Nat, NEW m \in 1..n, n # 1 PROVE n > 1
        BY <3>3
      <3> QED
        BY <3>1, <3>2, <3>3
    <2>3. ASSUME NEW k \in DOMAIN settings, live(k) PROVE settings[k].files <= 1
      <3> SUFFICES ASSUME settings[k].files > 1 PROVE FALSE
        BY <1>2
      <3>1. entry(k, 2) \in E
        BY <1>2, <2>3, <1>b
      <3>2. Key(settings, k, 2) = ""
        BY <1>c, <2>2
      <3> QED
        BY <1>3, <3>1, <3>2 DEF Parses
    <2>4. ASSUME NEW tag \in {"cma", "cmxa"} PROVE one(tag)
      <3> SUFFICES ASSUME NEW f \in F(tag), NEW g \in F(tag) PROVE f = g
        OBVIOUS
      <3>1. /\ f[1] \in DOMAIN settings /\ live(f[1]) /\ f[2] = 1 /\ f = <<f[1], f[2]>>
            /\ settings[f[1]].cmtag = tag /\ settings[f[1]].files >= 1
        BY <1>2, <1>d, <2>3
      <3>2. /\ g[1] \in DOMAIN settings /\ live(g[1]) /\ g[2] = 1 /\ g = <<g[1], g[2]>>
            /\ settings[g[1]].cmtag = tag /\ settings[g[1]].files >= 1
        BY <1>2, <1>d, <2>3
      <3>3. entry(f[1], 1) \in E /\ entry(g[1], 1) \in E
        BY <1>2, <3>1, <3>2, <1>b
      <3>4. Key(settings, f[1], 1) = Key(settings, g[1], 1)
        BY <1>c, <2>2, <3>1, <3>2
      <3>5. entry(f[1], 1) = entry(g[1], 1)
        BY <1>3, <3>3, <3>4 DEF Parses
      <3> QED
        BY <3>1, <3>2, <3>5
    <2>5. F("cma") \cup F("cmxa") # {}
      <3> DEFINE k == e.setting
      <3>1. k \in DOMAIN settings /\ live(k) /\ 1 <= settings[k].files
            /\ settings[k].cmtag \in {"cma", "cmxa"}
        BY <1>2, <2>1, <1>b
      <3>2. <<k, 1>> \in F(settings[k].cmtag)
        BY <1>2, <1>a, <3>1, 1 \in 1..2
      <3> QED
        BY <3>1, <3>2
    <2> QED
      BY <1>1, <2>2, <2>4, <2>5
  <1>4. ASSUME Usual("archive", settings) PROVE Parses(E)
    <2>0. Len(settings) > 1 /\ one("cma") /\ one("cmxa") /\ F("cma") \cup F("cmxa") # {}
      BY <1>1, <1>4
    <2>1. ASSUME NEW e \in E
          PROVE  /\ e.value = 1 /\ <<e.setting, 1>> \in F(settings[e.setting].cmtag)
                 /\ settings[e.setting].cmtag \in {"cma", "cmxa"}
                 /\ e.key = Key(settings, e.setting, 1)
                 /\ e = entry(e.setting, 1)
      <3> DEFINE k == e.setting
                 tag == settings[k].cmtag
      <3>1. /\ k \in DOMAIN settings /\ live(k) /\ tag \in {"cma", "cmxa"}
            /\ e.value \in 1..settings[k].files /\ settings[k].files \in Nat
            /\ e = entry(k, e.value)
        BY <1>2, <1>b
      <3>a. 1 <= settings[k].files
        BY <3>1
      <3>2. <<k, 1>> \in F(tag)
        BY <1>a, <3>1, <3>a, 1 \in 1..2
      <3>3. ~(settings[k].files >= 2)
        <4> SUFFICES ASSUME settings[k].files >= 2 PROVE FALSE
          OBVIOUS
        <4>1. <<k, 2>> \in F(tag)
          BY <1>2, <1>a, <3>1, 2 \in 1..2
        <4>2. <<k, 1>> = <<k, 2>>
          BY <2>0, <3>1, <3>2, <4>1
        <4> QED
          BY <4>2
      <3>4. e.value = 1
        BY <3>1, <3>3
      <3> QED
        BY <3>1, <3>2, <3>4
    <2>2. ASSUME NEW e \in E PROVE e.key \in {"executor:vm", "executor:sys", "="}
      BY <1>c, <2>0, <2>1
    <2>3. ASSUME NEW e \in E, NEW f \in E, e.key = f.key PROVE e = f
      <3> DEFINE a == settings[e.setting].cmtag
                 b == settings[f.setting].cmtag
      <3>a. a \in {"cma", "cmxa"} /\ b \in {"cma", "cmxa"}
        BY <2>1
      <3>b. /\ e.key = IF a = "cma" THEN "executor:vm" ELSE "executor:sys"
            /\ f.key = IF b = "cma" THEN "executor:vm" ELSE "executor:sys"
        BY <1>c, <2>0, <2>1
      <3> HIDE DEF a, b
      <3>1. a = b
        BY <2>3, <3>a, <3>b
      <3>2. <<e.setting, 1>> = <<f.setting, 1>>
        BY <2>0, <2>1, <3>1, <3>a DEF a, b
      <3> QED
        BY <2>1, <3>2
    <2>4. E # {}
      <3>1. PICK tag \in {"cma", "cmxa"} : F(tag) # {}
        BY <2>0
      <3>2. PICK f \in F(tag) : TRUE
        BY <3>1
      <3>3. f[1] \in DOMAIN settings /\ live(f[1]) /\ 1 \in 1..settings[f[1]].files
        BY <1>2, <1>d, <3>2
      <3> QED
        BY <3>3, <1>b
    <2> QED
      BY <2>2, <2>3, <2>4 DEF Parses
  <1> QED
    BY <1>3, <1>4 DEF E

(* For a plugin the key is always the same: there is one entry at most.    *)
LEMMA PluginParses ==
    ASSUME NEW settings \in Seq(FileSetting)
    PROVE  Parses(cmxs_attr(settings)) <=> Usual("plugin", settings)
  <1> DEFINE E == cmxs_attr(settings)
             F == FilesOf(settings, "cmxa")
             entry(k, j) == [setting |-> k, value |-> j, key |-> "="]
             live(k) == ~settings[k].deprecated /\ settings[k].cmtag = "cmxa"
  <1>1. Usual("plugin", settings) <=> F # {} /\ \A f, g \in F : f = g
    <2>1. Usual("plugin", settings) <=> Cardinality(F) = 1
      BY DEF Usual, FilesOf
    <2>2. IsFiniteSet(F)
      BY FilesOfFinite
    <2> HIDE DEF F
    <2> QED
      BY <2>1, <2>2, AtMostOne
  <1>2. \A k \in DOMAIN settings : settings[k].files \in Nat
    <2>1. \A k \in DOMAIN settings : settings[k] \in FileSetting
      OBVIOUS
    <2> QED
      BY <2>1 DEF FileSetting
  <1>3. \A k \in DOMAIN settings, j \in 1..2 :
            <<k, j>> \in F <=> live(k) /\ j <= settings[k].files
    BY FilesOfElements
  <1>4. \A f \in F :
            f[1] \in DOMAIN settings /\ f[2] \in 1..2 /\ f = <<f[1], f[2]>>
    BY FilesOfElements
  <1>5. /\ \A e \in E : /\ e.setting \in DOMAIN settings /\ live(e.setting)
                        /\ e.value \in 1..settings[e.setting].files
                        /\ e = entry(e.setting, e.value) /\ e.key = "="
        /\ \A k \in DOMAIN settings : \A j \in 1..settings[k].files :
              live(k) => entry(k, j) \in E
    BY DEF cmxs_attr, Live
  <1>6. Parses(E) <=> E # {} /\ \A e, f \in E : e = f
    BY <1>5 DEF Parses
  <1> HIDE DEF E, F
  <1>7. ASSUME NEW f \in F
        PROVE  /\ f[1] \in DOMAIN settings /\ f[2] \in 1..settings[f[1]].files
               /\ f = <<f[1], f[2]>> /\ live(f[1])
    <2> DEFINE k == f[1]
               j == f[2]
    <2>1. k \in DOMAIN settings /\ j \in 1..2 /\ <<k, j>> \in F /\ f = <<k, j>>
      BY <1>4
    <2> HIDE DEF k, j
    <2>2. live(k) /\ j <= settings[k].files /\ settings[k].files \in Nat
      BY <1>2, <1>3, <2>1
    <2>3. j \in 1..settings[k].files
      BY <2>1, <2>2
    <2> QED
      BY <2>1, <2>2, <2>3 DEF k, j
  <1>8. ASSUME NEW e \in E PROVE <<e.setting, 1>> \in F
    <2>1. e.setting \in DOMAIN settings /\ live(e.setting) /\ 1 <= settings[e.setting].files
      BY <1>2, <1>5
    <2> QED
      BY <1>3, <2>1, 1 \in 1..2
  <1>9. E # {} <=> F # {}
    <2>1. ASSUME NEW f \in F PROVE E # {}
      BY <1>5, <1>7
    <2> QED
      BY <1>8, <2>1
  <1>10. ASSUME \A e, f \in E : e = f, NEW f \in F, NEW g \in F PROVE f = g
    <2>1. entry(f[1], f[2]) \in E /\ entry(g[1], g[2]) \in E
      BY <1>5, <1>7
    <2>2. entry(f[1], f[2]) = entry(g[1], g[2])
      BY <1>10, <2>1
    <2>3. f[1] = g[1] /\ f[2] = g[2]
      BY <2>2
    <2> QED
      BY <1>7, <2>3
  <1>11. ASSUME \A f, g \in F : f = g, NEW e \in E, NEW h \in E PROVE e = h
    <2>1. ASSUME NEW d \in E PROVE d.value = 1
      <3>1. d.value \in 1..settings[d.setting].files /\ settings[d.setting].files \in Nat
            /\ d.setting \in DOMAIN settings /\ live(d.setting)
        BY <1>2, <1>5
      <3> SUFFICES ASSUME 2 <= settings[d.setting].files PROVE FALSE
        BY <3>1
      <3>2. <<d.setting, 2>> \in F
        BY <1>3, <3>1, 2 \in 1..2
      <3>3. <<d.setting, 1>> = <<d.setting, 2>>
        BY <1>8, <1>11, <3>2
      <3> QED
        BY <3>3
    <2>2. <<e.setting, 1>> = <<h.setting, 1>>
      BY <1>8, <1>11
    <2>3. e = entry(e.setting, e.value) /\ h = entry(h.setting, h.value)
      BY <1>5
    <2>4. e.setting = h.setting /\ e.value = h.value
      BY <2>1, <2>2
    <2> QED
      BY <2>3, <2>4
  <1> QED
    BY <1>1, <1>6, <1>9, <1>10, <1>11 DEF E

(* What is printed for a rule is made of the settings of its package.      *)
FromFiles(a) ==
    /\ a.pkg \in DOMAIN meta.pkgs
    /\ Rules(a.pkg)[a.rule] \in {"archive", "plugin"}
    /\ a.entries = IF Rules(a.pkg)[a.rule] = "archive"
                   THEN archive_attr(meta.pkgs[a.pkg].archive)
                   ELSE cmxs_attr(meta.pkgs[a.pkg].plugin)

ArchivesInv ==
    /\ \A a \in archives : FromFiles(a)
    /\ pc = "archives" => Rules(pkg)[rule] # "deps"

LEMMA ArchivesStep == TypeOK /\ ArchivesInv /\ [Next]_vars => ArchivesInv'
  <1> SUFFICES ASSUME TypeOK, ArchivesInv, [Next]_vars PROVE ArchivesInv'
    OBVIOUS
  <1>1. meta' = meta
    BY DEF Next, vars, emit_module_file, StartRule, PrintArchives, SkipSetting, PrintSetting,
           EndDeps, EndCodeps, NextPackage, Finish
  <1>2. ASSUME NEW a PROVE FromFiles(a) <=> FromFiles(a)'
    BY <1>1 DEF FromFiles, Rules
  <1>3. CASE PrintArchives
    <2> DEFINE a == [pkg |-> pkg, rule |-> rule,
                     entries |-> IF Rules(pkg)[rule] = "archive"
                                 THEN archive_attr(meta.pkgs[pkg].archive)
                                 ELSE cmxs_attr(meta.pkgs[pkg].plugin)]
    <2>1. Rules(pkg)[rule] \in {"archive", "plugin"} /\ pkg \in DOMAIN meta.pkgs
      <3>1. /\ pkg \in 1..Len(meta.pkgs) /\ meta.pkgs \in Seq(Package)
            /\ rule \in 1..Len(Rules(pkg))
        BY <1>3, RulesType DEF PrintArchives, TypeOK, Meta
      <3>2. meta.pkgs[pkg] \in Package
        BY <3>1
      <3>3. Rules(pkg)[rule] \in {"archive", "plugin", "deps"}
        BY <3>1, <3>2 DEF Rules, Package
      <3> QED
        BY <1>3, <3>1, <3>3 DEF PrintArchives, ArchivesInv
    <2>2. FromFiles(a)
      BY <2>1 DEF FromFiles
    <2>3. archives' = archives \cup {a} /\ pc' = "deps"
      BY <1>3 DEF PrintArchives
    <2> QED
      BY <1>2, <2>2, <2>3 DEF ArchivesInv
  <1>4. CASE StartRule
    BY <1>2, <1>4 DEF StartRule, ArchivesInv, Rules
  <1>5. CASE \/ emit_module_file \/ SkipSetting \/ PrintSetting \/ EndDeps \/ EndCodeps
             \/ NextPackage \/ Finish \/ UNCHANGED vars
    <2>1. /\ archives' = archives
          /\ pc' = "archives" => pc = "archives" /\ UNCHANGED <<meta, pkg, rule>>
      BY <1>5 DEF emit_module_file, SkipSetting, PrintSetting, EndDeps, EndCodeps,
                  NextPackage, Finish, vars, Attribute
    <2> QED
      BY <1>2, <2>1 DEF ArchivesInv, Rules
  <1> QED
    BY <1>3, <1>4, <1>5 DEF Next

(* The archives of a rule are printed as something Bazel can read exactly  *)
(* for the META files of the usual form, whatever and however many other   *)
(* settings they have.                                                     *)
THEOREM ArchivesParseCorrect == Spec => []ArchivesParse
  <1>1. Init => ArchivesInv
    BY DEF Init, ArchivesInv
  <1>2. TypeOK /\ ArchivesInv => ArchivesParse
    <2> SUFFICES ASSUME TypeOK, ArchivesInv, NEW a \in archives
                 PROVE  Parses(a.entries)
                            <=> Usual(Rules(a.pkg)[a.rule], FileSettings(a))
      BY DEF ArchivesParse
    <2>1. FromFiles(a)
      BY DEF ArchivesInv
    <2>2. /\ meta.pkgs[a.pkg].archive \in Seq(FileSetting)
          /\ meta.pkgs[a.pkg].plugin \in Seq(FileSetting)
      <3>1. meta.pkgs[a.pkg] \in Package
        BY <2>1 DEF FromFiles, TypeOK, Meta
      <3> QED
        BY <3>1 DEF Package
    <2>3. CASE Rules(a.pkg)[a.rule] = "archive"
      BY <2>1, <2>2, <2>3, ArchiveParses DEF FromFiles, FileSettings
    <2>4. CASE Rules(a.pkg)[a.rule] = "plugin"
      BY <2>1, <2>2, <2>4, PluginParses DEF FromFiles, FileSettings
    <2> QED
      BY <2>1, <2>3, <2>4 DEF FromFiles
  <1> QED
    BY <1>1, <1>2, ArchivesStep, TypeCorrect, PTL DEF Spec
=============================================================================
