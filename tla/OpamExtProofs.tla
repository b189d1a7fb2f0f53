---------------------------- MODULE OpamExtProofs ----------------------------
(***************************************************************************)
(* Proofs about OpamExt, for any sets of versions, packages and projects   *)
(* and any number of evaluations: its types, what is installed when the    *)
(* repositories are declared, the version they are told, that guarded and  *)
(* configured switches are left alone, that the whole provisions switches, *)
(* and what metadata Bazel accepts.                                        *)
(***************************************************************************)
EXTENDS OpamExt, WellFoundedInduction, FiniteSetTheorems, TLAPS

-----------------------------------------------------------------------------
(* Sequences and Starlark's list.remove.                                   *)

(* A set of naturals that is not empty has a least element.                *)
LEMMA LeastNat ==
    ASSUME NEW T, T \subseteq Nat, T # {}
    PROVE  \E x \in T : \A y \in T : x <= y
<1> DEFINE R == {ss \in Nat \X Nat : ss[1] < ss[2]}
<1>1. IsWellFoundedOn(R, Nat)
  BY NatLessThanWellFounded DEF OpToRel
<1>2. PICK x \in T : \A y \in T : ~ (<<y, x>> \in R)
  BY <1>1, WFMin
<1>3. ASSUME NEW y \in T PROVE x <= y
  <2>1. <<y, x>> \notin R /\ x \in Nat /\ y \in Nat
    BY <1>2
  <2> QED BY <2>1
<1> QED BY <1>3

(* The first occurrence is taken out, if there is one.                     *)
LEMMA RemovedAt ==
    ASSUME NEW S, NEW s \in Seq(S), NEW e, \E i \in 1..Len(s) : s[i] = e
    PROVE  \E m \in 1..Len(s) :
              /\ s[m] = e
              /\ list_remove(s, e) = SubSeq(s, 1, m - 1) \o SubSeq(s, m + 1, Len(s))
<1> DEFINE I == {i \in 1..Len(s) : s[i] = e}
<1> DEFINE m == Min(I)
<1>1. I \subseteq Nat /\ I # {}
  OBVIOUS
<1>2. Min(I) \in I
  BY <1>1, LeastNat DEF Min
<1>3. SelectInSeq(s, LAMBDA v : v = e) = Min(I)
  BY <1>1 DEF SelectInSeq
<1>4. Min(I) \in 1..Len(s) /\ s[Min(I)] = e
  BY <1>2
<1>5. list_remove(s, e) = RemoveAt(s, SelectInSeq(s, LAMBDA v : v = e))
  BY DEF list_remove, RemoveFirst
<1> HIDE DEF m, I
<1>6. list_remove(s, e) = RemoveAt(s, m)
  BY <1>3, <1>5 DEF m
<1>7. RemoveAt(s, m) = SubSeq(s, 1, m - 1) \o SubSeq(s, m + 1, Len(s))
  BY DEF RemoveAt
<1> QED
  BY <1>4, <1>6, <1>7, Zenon DEF m

LEMMA NothingRemoved ==
    ASSUME NEW s, NEW e, ~\E i \in 1..Len(s) : s[i] = e
    PROVE  list_remove(s, e) = s
  BY DEF list_remove, RemoveFirst

(* What is left of a list is a list of the same things.                    *)
LEMMA list_removeType ==
    ASSUME NEW S, NEW s \in Seq(S), NEW e
    PROVE  list_remove(s, e) \in Seq(S)
<1>1. CASE \E i \in 1..Len(s) : s[i] = e
  <2>1. PICK m \in 1..Len(s) :
          list_remove(s, e) = SubSeq(s, 1, m - 1) \o SubSeq(s, m + 1, Len(s))
    BY <1>1, RemovedAt
  <2>2. SubSeq(s, 1, m - 1) \in Seq(S) /\ SubSeq(s, m + 1, Len(s)) \in Seq(S)
    OBVIOUS
  <2>3. \A a, b \in Seq(S) : a \o b \in Seq(S)
    OBVIOUS
  <2> QED BY <2>1, <2>2, <2>3
<1>2. CASE ~\E i \in 1..Len(s) : s[i] = e
  BY <1>2, NothingRemoved
<1> QED BY <1>1, <1>2

(* How often something is in a list: not at all, once, or more often.      *)
In(s, x)    == \E i \in DOMAIN s : s[i] = x
Twice(s, x) == \E i, j \in DOMAIN s : i # j /\ s[i] = x /\ s[j] = x

LEMMA ConcatParts ==
    ASSUME NEW S, NEW s \in Seq(S), NEW t \in Seq(S)
    PROVE  /\ Len(s) \in Nat /\ Len(t) \in Nat
           /\ DOMAIN s = 1..Len(s) /\ DOMAIN t = 1..Len(t)
           /\ DOMAIN (s \o t) = 1..(Len(s) + Len(t))
           /\ \A i \in 1..Len(s) : (s \o t)[i] = s[i]
           /\ \A i \in 1..Len(t) : (s \o t)[Len(s) + i] = t[i]
           /\ \A i \in 1..(Len(s) + Len(t)) :
                 i \in 1..Len(s) \/ (i - Len(s) \in 1..Len(t) /\ i = Len(s) + (i - Len(s)))
  OBVIOUS

LEMMA InConcat ==
    ASSUME NEW S, NEW s \in Seq(S), NEW t \in Seq(S), NEW x
    PROVE  In(s \o t, x) <=> In(s, x) \/ In(t, x)
<1> DEFINE u == s \o t
           m == Len(s)
           n == Len(t)
<1>1. /\ m \in Nat /\ n \in Nat
      /\ DOMAIN s = 1..m /\ DOMAIN t = 1..n /\ DOMAIN u = 1..(m + n)
      /\ \A i \in 1..m : u[i] = s[i]
      /\ \A i \in 1..n : u[m + i] = t[i]
      /\ \A i \in 1..(m + n) :
            i \in 1..m \/ (i - m \in 1..n /\ i = m + (i - m))
  BY ConcatParts
<1> HIDE DEF u, m, n
<1>2. In(u, x) => In(s, x) \/ In(t, x)
  <2> SUFFICES ASSUME NEW i \in 1..(m + n), u[i] = x
               PROVE  In(s, x) \/ In(t, x)
    BY <1>1 DEF In
  <2>1. \/ i \in 1..m /\ s[i] = x
        \/ i - m \in 1..n /\ t[i - m] = x
    BY <1>1
  <2> QED BY <1>1, <2>1 DEF In
<1>3. In(s, x) => In(u, x)
  BY <1>1 DEF In
<1>4. ASSUME NEW i \in 1..n, t[i] = x PROVE In(u, x)
  <2>1. m + i \in 1..(m + n) /\ u[m + i] = x
    BY <1>1, <1>4
  <2> QED BY <1>1, <2>1 DEF In
<1>5. In(t, x) => In(u, x)
  BY <1>1, <1>4 DEF In
<1> QED BY <1>2, <1>3, <1>5 DEF u

LEMMA TwiceConcat ==
    ASSUME NEW S, NEW s \in Seq(S), NEW t \in Seq(S), NEW x
    PROVE  Twice(s \o t, x) <=> \/ Twice(s, x) \/ Twice(t, x)
                                \/ In(s, x) /\ In(t, x)
<1> DEFINE u == s \o t
           m == Len(s)
           n == Len(t)
<1>1. /\ m \in Nat /\ n \in Nat
      /\ DOMAIN s = 1..m /\ DOMAIN t = 1..n /\ DOMAIN u = 1..(m + n)
      /\ \A i \in 1..m : u[i] = s[i]
      /\ \A i \in 1..n : u[m + i] = t[i]
      /\ \A i \in 1..(m + n) :
            i \in 1..m \/ (i - m \in 1..n /\ i = m + (i - m))
  BY ConcatParts
<1> HIDE DEF u, m, n
<1>2. ASSUME NEW i \in 1..(m + n), NEW j \in 1..(m + n), i # j, u[i] = x, u[j] = x
      PROVE  Twice(s, x) \/ Twice(t, x) \/ (In(s, x) /\ In(t, x))
  <2>1. i \in 1..m => s[i] = x
    BY <1>1, <1>2
  <2>2. j \in 1..m => s[j] = x
    BY <1>1, <1>2
  <2>3. i \notin 1..m => i - m \in 1..n /\ t[i - m] = x
    BY <1>1, <1>2
  <2>4. j \notin 1..m => j - m \in 1..n /\ t[j - m] = x
    BY <1>1, <1>2
  <2>5. CASE i \in 1..m /\ j \in 1..m
    BY <1>1, <1>2, <2>1, <2>2, <2>5 DEF Twice
  <2>6. CASE i \notin 1..m /\ j \notin 1..m
    <3>1. i - m # j - m
      BY <1>1, <1>2
    <3> QED BY <1>1, <2>3, <2>4, <2>6, <3>1 DEF Twice
  <2>7. CASE ~(i \in 1..m <=> j \in 1..m)
    BY <1>1, <2>1, <2>2, <2>3, <2>4, <2>7 DEF In
  <2> QED BY <2>5, <2>6, <2>7
<1>3. Twice(s, x) => Twice(u, x)
  BY <1>1 DEF Twice
<1>4. ASSUME NEW i \in 1..n, t[i] = x
      PROVE  m + i \in 1..(m + n) /\ u[m + i] = x /\ m + i \notin 1..m
  BY <1>1, <1>4
<1>5. Twice(t, x) => Twice(u, x)
  <2> SUFFICES ASSUME NEW i \in 1..n, NEW j \in 1..n, i # j, t[i] = x, t[j] = x
               PROVE  Twice(u, x)
    BY <1>1 DEF Twice
  <2>1. m + i # m + j
    BY <1>1
  <2> QED BY <1>1, <1>4, <2>1 DEF Twice
<1>6. In(s, x) /\ In(t, x) => Twice(u, x)
  <2> SUFFICES ASSUME NEW i \in 1..m, NEW j \in 1..n, s[i] = x, t[j] = x
               PROVE  Twice(u, x)
    BY <1>1 DEF In
  <2>1. i \in 1..(m + n) /\ u[i] = x
    BY <1>1
  <2> QED BY <1>1, <1>4, <2>1 DEF Twice
<1> QED BY <1>1, <1>2, <1>3, <1>5, <1>6 DEF u, Twice

(* Taking an SDK package out leaves all others, and itself only where it   *)
(* was there twice.                                                        *)
LEMMA Removed ==
    ASSUME NEW S, NEW s \in Seq(S), NEW e
    PROVE  /\ \A x : x # e => /\ In(list_remove(s, e), x) <=> In(s, x)
                              /\ Twice(list_remove(s, e), x) <=> Twice(s, x)
           /\ In(list_remove(s, e), e) <=> Twice(s, e)
<1>1. CASE ~In(s, e)
  <2>1. list_remove(s, e) = s
    BY <1>1, NothingRemoved DEF In
  <2> QED BY <1>1, <2>1 DEF In, Twice
<1>2. CASE In(s, e)
  <2>1. PICK m \in 1..Len(s) :
          /\ s[m] = e
          /\ list_remove(s, e) = SubSeq(s, 1, m - 1) \o SubSeq(s, m + 1, Len(s))
    <3>1. \E i \in 1..Len(s) : s[i] = e
      BY <1>2 DEF In
    <3> QED BY <3>1, RemovedAt
  <2> DEFINE a == SubSeq(s, 1, m - 1)
             b == SubSeq(s, m + 1, Len(s))
             n == Len(s)
  <2>2. /\ a \in Seq(S) /\ b \in Seq(S) /\ n \in Nat /\ m \in 1..n
        /\ DOMAIN s = 1..n
        /\ DOMAIN a = 1..(m - 1) /\ DOMAIN b = 1..(n - m)
        /\ \A i \in 1..(m - 1) : a[i] = s[i]
        /\ \A i \in 1..(n - m) : b[i] = s[m + i]
    OBVIOUS
  <2>3. /\ \A x : In(list_remove(s, e), x) <=> In(a, x) \/ In(b, x)
        /\ \A x : Twice(list_remove(s, e), x)
                    <=> Twice(a, x) \/ Twice(b, x) \/ (In(a, x) /\ In(b, x))
    <3>1. list_remove(s, e) = a \o b
      BY <2>1
    <3> HIDE DEF a, b, n
    <3>2. \A x : In(a \o b, x) <=> In(a, x) \/ In(b, x)
      BY <2>2, InConcat
    <3>3. \A x : Twice(a \o b, x)
                  <=> Twice(a, x) \/ Twice(b, x) \/ (In(a, x) /\ In(b, x))
      BY <2>2, TwiceConcat
    <3> QED BY <3>1, <3>2, <3>3
  <2> HIDE DEF a, b, n
  <2>4. \A i \in 1..n : \/ i \in 1..(m - 1) /\ a[i] = s[i]
                        \/ i = m
                        \/ i - m \in 1..(n - m) /\ b[i - m] = s[i]
    <3> SUFFICES ASSUME NEW i \in 1..n, ~(i <= m)
                 PROVE  i - m \in 1..(n - m) /\ b[i - m] = s[i]
      BY <2>2
    <3>1. i - m \in 1..(n - m) /\ m + (i - m) = i
      BY <2>2
    <3> QED BY <2>2, <3>1
  <2>5. \A i \in 1..(m - 1) : i \in 1..n /\ i < m
    BY <2>2
  <2>6. \A i \in 1..(n - m) : m + i \in 1..n /\ m < m + i
    BY <2>2
  <2>7. \A x : In(a, x) \/ In(b, x) => In(s, x)
    BY <2>2, <2>5, <2>6 DEF In
  <2>8. \A x : x # e /\ In(s, x) => In(a, x) \/ In(b, x)
    BY <2>1, <2>2, <2>4 DEF In
  <2>9. ASSUME NEW x, Twice(a, x) \/ Twice(b, x) \/ (In(a, x) /\ In(b, x))
        PROVE  Twice(s, x)
    <3>1. CASE Twice(a, x)
      BY <2>2, <2>5, <3>1 DEF Twice
    <3>2. CASE Twice(b, x)
      <4>1. PICK i, j \in 1..(n - m) : i # j /\ b[i] = x /\ b[j] = x
        BY <2>2, <3>2 DEF Twice
      <4>2. m + i # m + j
        BY <2>2, <4>1
      <4> QED BY <2>2, <2>6, <4>1, <4>2 DEF Twice
    <3>3. CASE In(a, x) /\ In(b, x)
      <4>1. PICK i \in 1..(m - 1) : s[i] = x
        BY <2>2, <3>3 DEF In
      <4>2. PICK j \in 1..(n - m) : s[m + j] = x
        BY <2>2, <3>3 DEF In
      <4>3. i # m + j
        BY <2>2
      <4> QED BY <2>2, <2>5, <2>6, <4>1, <4>2, <4>3 DEF Twice
    <3> QED BY <2>9, <3>1, <3>2, <3>3
  <2>10. ASSUME NEW x, x # e, Twice(s, x)
         PROVE  Twice(a, x) \/ Twice(b, x) \/ (In(a, x) /\ In(b, x))
    <3>1. PICK i, j \in 1..n : i # j /\ s[i] = x /\ s[j] = x
      BY <2>2, <2>10 DEF Twice
    <3>2. /\ (i \in 1..(m - 1) /\ a[i] = x) \/ (i - m \in 1..(n - m) /\ b[i - m] = x)
          /\ (j \in 1..(m - 1) /\ a[j] = x) \/ (j - m \in 1..(n - m) /\ b[j - m] = x)
      BY <2>1, <2>4, <2>10, <3>1
    <3>3. i - m # j - m
      BY <2>2, <3>1
    <3> QED BY <2>2, <3>1, <3>2, <3>3 DEF Twice, In
  <2>11. In(a, e) \/ In(b, e) => Twice(s, e)
    <3>1. \A i \in 1..(m - 1) : i # m
      BY <2>2
    <3>2. \A i \in 1..(n - m) : m + i # m
      BY <2>2
    <3> QED BY <2>1, <2>2, <2>5, <2>6, <3>1, <3>2 DEF In, Twice
  <2>12. Twice(s, e) => In(a, e) \/ In(b, e)
    <3> SUFFICES ASSUME NEW i \in 1..n, i # m, s[i] = e
                 PROVE  In(a, e) \/ In(b, e)
      BY <2>2 DEF Twice
    <3> QED BY <2>2, <2>4 DEF In
  <2> QED BY <2>3, <2>7, <2>8, <2>9, <2>10, <2>11, <2>12
<1> QED BY <1>1, <1>2

LEMMA ToSetConcat ==
    ASSUME NEW S, NEW s \in Seq(S), NEW t \in Seq(S)
    PROVE  ToSet(s \o t) = ToSet(s) \cup ToSet(t)
<1>1. ToSet(s \o t) \subseteq ToSet(s) \cup ToSet(t)
  BY DEF ToSet
<1>2. ToSet(s) \subseteq ToSet(s \o t)
  BY DEF ToSet
<1>3. ASSUME NEW i \in DOMAIN t PROVE t[i] \in ToSet(s \o t)
  <2>1. (s \o t)[Len(s) + i] = t[i] /\ Len(s) + i \in DOMAIN (s \o t)
    OBVIOUS
  <2> QED BY <2>1 DEF ToSet
<1> QED BY <1>1, <1>2, <1>3 DEF ToSet

LEMMA ToSetTail ==
    ASSUME NEW S, NEW s \in Seq(S), s # <<>>
    PROVE  ToSet(s) = {Head(s)} \cup ToSet(Tail(s))
<1>1. ToSet(s) \subseteq {Head(s)} \cup ToSet(Tail(s))
  <2> SUFFICES ASSUME NEW i \in DOMAIN s, i # 1
               PROVE  s[i] \in ToSet(Tail(s))
    BY DEF ToSet
  <2>1. i - 1 \in DOMAIN Tail(s) /\ Tail(s)[i - 1] = s[i]
    OBVIOUS
  <2> QED BY <2>1 DEF ToSet
<1>2. Head(s) \in ToSet(s) /\ ToSet(Tail(s)) \subseteq ToSet(s)
  BY DEF ToSet
<1> QED BY <1>1, <1>2

LEMMA Suffix ==
    ASSUME NEW S, NEW s \in Seq(S), NEW n \in 1..(Len(s) + 1),
           SubSeq(s, n, Len(s)) # <<>>
    PROVE  /\ n \in DOMAIN s
           /\ Head(SubSeq(s, n, Len(s))) = s[n]
           /\ Tail(SubSeq(s, n, Len(s))) = SubSeq(s, n + 1, Len(s))
<1>1. n <= Len(s)
  OBVIOUS
<1>2. Len(SubSeq(s, n, Len(s))) = Len(s) - n + 1
  BY <1>1
<1>3. Tail(SubSeq(s, n, Len(s))) = SubSeq(s, n + 1, Len(s))
  BY <1>1, <1>2
<1> QED BY <1>1, <1>2, <1>3

-----------------------------------------------------------------------------
(* Types.                                                                  *)

ListTypes ==
    /\ toolchain \in Toolchain \cup {Unknown}
    /\ ocaml_version \in Version \cup {None}
    /\ direct_deps \in Seq(Pkg) /\ dev_deps \in Seq(Pkg)
    /\ stublibs \in {"no", "direct", "dev"}
    /\ sdk \subseteq OBAZL_PKGS

SwitchTypes ==
    [exists : BOOLEAN, version : Version \cup {None},
     have : SUBSET Pkg]

TagTypes ==
    \E n \in 1..(Len(project.deps) + 1) :
        tags = SubSeq(project.deps, n, Len(project.deps))

LEMMA ProjectTypes ==
    ASSUME NEW p \in Project
    PROVE  /\ p.deps \in Seq(DepsTags)
           /\ p.localTc \in Toolchain \cup {Unknown, None}
  BY Assumptions

LEMMA NewSwitch ==
    ASSUME NEW s \in Switch, switches \in [Switch -> SwitchTypes]
    PROVE  /\ \A v \in Version, have \in SUBSET Pkg :
                  [switches EXCEPT ![s] = [exists |-> TRUE, version |-> v,
                                           have |-> have]]
                  \in [Switch -> SwitchTypes]
           /\ [switches EXCEPT ![s].exists = TRUE] \in [Switch -> SwitchTypes]
           /\ \A more \in SUBSET Pkg :
                  [switches EXCEPT ![s].have = @ \cup more]
                  \in [Switch -> SwitchTypes]
  BY DEF SwitchTypes

LEMMA PkgNames ==
    /\ \A p \in Pkg : Requires[p] \in SUBSET Pkg
    /\ "utop" \in Pkg /\ "stublibs" \in Pkg
  BY Assumptions DEF Names

LEMMA EffectiveType ==
    ASSUME ocaml_version \in Version \cup {None}
    PROVE  Effective \in Version \cup {None}
  BY Assumptions DEF Effective

LEMMA LibType ==
    ASSUME switches \in [Switch -> SwitchTypes], NEW s \in Switch
    PROVE  Lib(s) \subseteq Pkg
  BY Assumptions DEF SwitchTypes, Lib, Names

LEMMA MetadataType ==
    ASSUME ListTypes
    PROVE  RootModuleDeps \in [direct : Seq(Repos), dev : Seq(Repos)]
<1>1. \A s \in Seq(Pkg) : RepoSeq(s) \in Seq(Repos)
  BY DEF RepoSeq, Repos
<1>2. ASSUME NEW cond \in BOOLEAN, NEW r \in Repos
      PROVE  If(cond, r) \in Seq(Repos)
  BY DEF If
<1>3. /\ Repo("ocamlsdk") \in Repos /\ Repo("stublibs") \in Repos
      /\ \A t \in {"dbg", "ocaml", "opam"} : Tool(t) \in Repos
  BY PkgNames DEF Repos, Special
<1>4. \A a, b \in Seq(Repos) : a \o b \in Seq(Repos)
  OBVIOUS
<1>5. <<Repo("ocamlsdk")>> \o RepoSeq(direct_deps) \in Seq(Repos)
  BY <1>1, <1>3, <1>4 DEF ListTypes
<1>6. /\ If(stublibs = "dev", Repo("stublibs")) \in Seq(Repos)
      /\ If(Dev("dbg"), Tool("dbg")) \in Seq(Repos)
      /\ If(Dev("ocaml"), Tool("ocaml")) \in Seq(Repos)
      /\ If(Dev("opam"), Tool("opam")) \in Seq(Repos)
      /\ RepoSeq(dev_deps) \in Seq(Repos)
  BY <1>1, <1>2, <1>3 DEF ListTypes, Dev
<1>7. If(stublibs = "dev", Repo("stublibs")) \o If(Dev("dbg"), Tool("dbg"))
          \o If(Dev("ocaml"), Tool("ocaml")) \o If(Dev("opam"), Tool("opam"))
          \o RepoSeq(dev_deps) \in Seq(Repos)
  BY <1>4, <1>6
<1> QED
  BY <1>5, <1>7 DEF RootModuleDeps

LEMMA InitTypes == Init => TypeOK
<1> SUFFICES ASSUME Init PROVE TypeOK
  OBVIOUS
<1>1. project \in Project
  BY Assumptions DEF Init
<1>2. switches \in [Switch -> SwitchTypes]
  BY Assumptions DEF Init, Empty, SwitchTypes
<1>3. project.deps \in Seq(DepsTags)
  BY <1>1, ProjectTypes
<1>4. TagTypes
  <2>1. \A s \in Seq(DepsTags) : SubSeq(s, Len(s) + 1, Len(s)) = <<>>
    OBVIOUS
  <2>2. tags = SubSeq(project.deps, Len(project.deps) + 1, Len(project.deps))
    BY <1>3, <2>1 DEF Init
  <2>3. Len(project.deps) + 1 \in 1..(Len(project.deps) + 1)
    BY <1>3
  <2> QED BY <2>2, <2>3, Zenon DEF TagTypes
<1>5. ListTypes
  BY Assumptions DEF Init, ListTypes, Toolchain
<1>6. /\ evals \in 0..MaxEvals /\ pc \in Stage /\ todo \in Seq(Pkg)
      /\ deps \subseteq Pkg /\ repos \subseteq Repos
      /\ metadata \in [direct : Seq(Repos), dev : Seq(Repos)]
  BY Assumptions DEF Init, Stage, Stopped
<1>7. switch \in Switch
  BY DEF Init, Switch
<1> QED
  BY <1>1, <1>2, <1>4, <1>5, <1>6, <1>7 DEF TypeOK, ListTypes, TagTypes, SwitchTypes

(* TypeOK, by the groups of variables that the actions change together.    *)
Rest ==
    /\ todo \in Seq(Pkg) /\ switch \in Switch /\ pc \in Stage
ResultTypes ==
    /\ deps \subseteq Pkg /\ repos \subseteq Repos
    /\ metadata \in [direct : Seq(Repos), dev : Seq(Repos)]

LEMMA TypeParts ==
    TypeOK <=> /\ switches \in [Switch -> SwitchTypes]
               /\ project \in Project /\ evals \in 0..MaxEvals
               /\ TagTypes /\ ListTypes /\ Rest /\ ResultTypes
  BY DEF TypeOK, SwitchTypes, TagTypes, ListTypes, Rest, ResultTypes

(* What is being installed is the head of todo.                            *)
Installing == pc = "install" => todo # <<>>

LEMMA TypePreserved ==
    ASSUME TypeOK, Installing, [Next]_vars
    PROVE  TypeOK'
<1> USE DEF Go, Fail
<1>0. /\ switches \in [Switch -> SwitchTypes]
      /\ project \in Project /\ evals \in 0..MaxEvals
      /\ TagTypes /\ ListTypes /\ Rest /\ ResultTypes
  BY TypeParts
<1>s. {"failed", "tags", "check", "prune", "switch", "pkgs", "install", "list",
       "register", "metadata", "done", "rejected", "special"} \subseteq Stage
  BY DEF Stage, Stopped
<1> SUFFICES /\ switches' \in [Switch -> SwitchTypes]
             /\ project' \in Project /\ evals' \in 0..MaxEvals
             /\ TagTypes' /\ ListTypes' /\ Rest' /\ ResultTypes'
  BY DEF TypeOK, SwitchTypes, TagTypes, ListTypes, Rest, ResultTypes
<1>1. CASE UNCHANGED vars
  BY <1>0, <1>1 DEF vars, lists, result, TagTypes, ListTypes, Rest, ResultTypes
<1>2. ASSUME NEW p \in Project, Start(p)
      PROVE  /\ switches' \in [Switch -> SwitchTypes]
             /\ project' \in Project /\ evals' \in 0..MaxEvals
             /\ TagTypes' /\ ListTypes' /\ Rest' /\ ResultTypes'
  <2>1. project' \in Project /\ evals' \in 0..MaxEvals
    BY <1>0, <1>2, Assumptions DEF Start
  <2>2. TagTypes'
    <3>1. p.deps \in Seq(DepsTags)
      BY ProjectTypes
    <3>2. \A d \in Seq(DepsTags) : d = SubSeq(d, 1, Len(d)) /\ 1 \in 1..(Len(d) + 1)
      OBVIOUS
    <3>3. project' = p /\ tags' = p.deps
      BY <1>2 DEF Start
    <3> QED BY <3>1, <3>2, <3>3 DEF TagTypes
  <2>3. ListTypes'
    BY <1>2, Assumptions DEF Start, ListTypes, Toolchain
  <2>4. Rest' /\ ResultTypes' /\ switches' = switches
    BY <1>0, <1>2, <1>s DEF Start, Rest, ResultTypes
  <2> QED BY <1>0, <2>1, <2>2, <2>3, <2>4
<1>3. CASE SpecialTags
  <2>1. dev_deps' \in Seq(Pkg)
    <3>1. <<"utop">> \in Seq(Pkg) /\ <<>> \in Seq(Pkg)
      BY PkgNames
    <3> QED BY <1>0, <1>3, <3>1 DEF SpecialTags, ListTypes
  <2>2. pc' \in Stage
    BY <1>3, <1>s DEF SpecialTags
  <2> QED
    BY <1>0, <1>3, <2>1, <2>2
       DEF SpecialTags, result, TagTypes, ListTypes, Rest, ResultTypes
<1>4. CASE DepsTag
  <2> DEFINE d == project.deps
  <2>1. d \in Seq(DepsTags) /\ project.localTc \in Toolchain \cup {Unknown, None}
    BY <1>0, ProjectTypes
  <2>2. PICK n \in 1..(Len(d) + 1) : tags = SubSeq(d, n, Len(d))
    BY <1>0 DEF TagTypes
  <2>3. n \in DOMAIN d /\ Head(tags) = d[n] /\ Tail(tags) = SubSeq(d, n + 1, Len(d))
    BY <1>4, <2>1, <2>2, Suffix DEF DepsTag
  <2>4. Head(tags) \in DepsTags
    BY <2>1, <2>3
  <2>5. UNCHANGED <<switches, project, evals, stublibs, sdk, switch, todo, result>>
        /\ tags' = Tail(tags)
    BY <1>4 DEF DepsTag
  <2>6. TagTypes'
    <3>1. n + 1 \in 1..(Len(d) + 1)
      BY <2>1, <2>3
    <3> QED BY <2>3, <2>5, <3>1 DEF TagTypes
  <2>7. \A a \in Seq(Pkg) : a \o Head(tags).pkgs \in Seq(Pkg)
    BY <2>4 DEF DepsTags
  <2>8. ListTypes'
    <3>1. dev_deps' \in Seq(Pkg) /\ direct_deps' \in Seq(Pkg)
      BY <1>0, <1>4, <2>7 DEF DepsTag, ListTypes
    <3>2. /\ Head(tags).toolchain \in Toolchain \cup {Unknown}
          /\ Head(tags).ocaml_version \in Version \cup {None}
      BY <2>4 DEF DepsTags
    <3>3. toolchain' \in Toolchain \cup {Unknown} /\ ocaml_version' \in Version \cup {None}
      BY <1>0, <1>4, <2>1, <3>2 DEF DepsTag, ListTypes
    <3> QED BY <1>0, <2>5, <3>1, <3>3 DEF ListTypes
  <2>9. Rest'
    BY <1>0, <1>4, <1>s, <2>5 DEF DepsTag, Rest
  <2> QED BY <1>0, <2>5, <2>6, <2>8, <2>9 DEF result, ResultTypes
<1>5. CASE BuildConfigTool
  BY <1>0, <1>5, <1>s
     DEF BuildConfigTool, result, TagTypes, ListTypes, Rest, ResultTypes, Toolchain
<1>6. CASE CheckDirect
  BY <1>0, <1>6, <1>s
     DEF CheckDirect, result, TagTypes, ListTypes, Rest, ResultTypes
<1>7. CASE Prune
  BY <1>0, <1>7, <1>s, list_removeType
     DEF Prune, result, TagTypes, ListTypes, Rest, ResultTypes
<1>8. CASE ConfigToolchain
  <2>1. UNCHANGED <<project, evals, tags, toolchain, direct_deps, dev_deps,
                    stublibs, sdk, result>>
    BY <1>8 DEF ConfigToolchain
  <2>2. direct_deps \o dev_deps \in Seq(Pkg) /\ <<>> \in Seq(Pkg)
    BY <1>0 DEF ListTypes
  <2>3. /\ <<"local", None>> \in Switch /\ <<"global", None>> \in Switch
        /\ <<"opam", None>> \in Switch
        /\ Effective # None => <<"xdg", Effective>> \in Switch
    BY <1>0, EffectiveType DEF Switch, ListTypes
  <2>4. \A s \in Switch : switches[s].version \in Version \cup {None}
    BY <1>0 DEF SwitchTypes
  <2>5. ASSUME NEW s \in Switch, NEW wanted \in Seq(Pkg), Found(s, wanted)
        PROVE  switches' \in [Switch -> SwitchTypes] /\ Rest'
    BY <1>0, <1>s, <2>5 DEF Found, Rest
  <2>6. ASSUME NEW s \in Switch, NEW v \in Version \cup {None},
               NEW others \in SUBSET SUBSET Pkg, Create(s, v, others)
        PROVE  switches' \in [Switch -> SwitchTypes] /\ Rest'
    <3>1. CASE Fail /\ UNCHANGED <<switches, switch, todo>>
      BY <1>0, <1>s, <3>1 DEF Rest
    <3>2. ASSUME v # None, NEW more \in others,
                 switches' = [switches EXCEPT ![s] =
                    [exists |-> TRUE, version |-> v, have |-> more]],
                 switch' = s, todo' = direct_deps \o dev_deps, pc' = "pkgs"
          PROVE  switches' \in [Switch -> SwitchTypes] /\ Rest'
      <4>1. v \in Version /\ more \in SUBSET Pkg
        BY <3>2
      <4>2. switches' \in [Switch -> SwitchTypes]
        BY <1>0, <3>2, <4>1, NewSwitch
      <4> QED BY <1>s, <2>2, <3>2, <4>2 DEF Rest
    <3> QED BY <2>6, <3>1, <3>2 DEF Create
  <2>7. ASSUME NEW s \in Switch, Killed(s)
        PROVE  switches' \in [Switch -> SwitchTypes] /\ Rest'
    BY <1>0, <1>s, <2>7, NewSwitch DEF Killed, Rest
  <2>8. Effective \in Version \cup {None} /\ ocaml_version \in Version \cup {None}
    BY <1>0, EffectiveType DEF ListTypes
  <2>9. /\ {{}, Requires["utop"]} \in SUBSET SUBSET Pkg
        /\ {{}} \in SUBSET SUBSET Pkg
    BY PkgNames
  <2>10. switches' \in [Switch -> SwitchTypes] /\ Rest' /\ ocaml_version' \in Version \cup {None}
    <3>1. CASE config_local_toolchain
      BY <3>1, <2>2, <2>3, <2>4, <2>5, <2>6, <2>7, <2>8, <2>9 DEF config_local_toolchain
    <3>2. CASE config_global_toolchain
      BY <3>2, <2>2, <2>3, <2>4, <2>5, <2>8 DEF config_global_toolchain
    <3>3. CASE config_opam_toolchain
      BY <3>3, <2>2, <2>3, <2>4, <2>5, <2>8 DEF config_opam_toolchain
    <3>4. CASE config_xdg_toolchain
      <4>1. CASE Effective # None
        BY <3>4, <4>1, <2>2, <2>3, <2>5, <2>6, <2>7, <2>8, <2>9 DEF config_xdg_toolchain
      <4>2. CASE Effective = None
        BY <1>0, <1>s, <3>4, <4>2, <2>8 DEF config_xdg_toolchain, Rest
      <4> QED BY <4>1, <4>2
    <3>5. CASE unrecognized_toolchain
      BY <1>0, <1>s, <3>5 DEF unrecognized_toolchain, ListTypes, Rest
    <3> QED BY <1>8, <3>1, <3>2, <3>3, <3>4, <3>5 DEF ConfigToolchain
  <2> QED
    BY <1>0, <2>1, <2>10 DEF result, TagTypes, ListTypes, ResultTypes
<1>9. CASE CheckPkg
  <2>1. todo' \in Seq(Pkg)
    BY <1>0, <1>9 DEF CheckPkg, Rest
  <2>2. pc' \in Stage
    BY <1>0, <1>9, <1>s DEF CheckPkg, Rest
  <2> QED
    BY <1>0, <1>9, <2>1, <2>2
       DEF CheckPkg, lists, result, TagTypes, ListTypes, Rest, ResultTypes
<1>10. CASE opam_install_pkg
  <2> DEFINE p == Head(todo)
  <2>1. PICK more : /\ switches' = [switches EXCEPT ![switch].have = @ \cup more]
                    /\ \/ p \notin OBAZL_PKGS /\ more = {p} \cup Requires[p]
                       \/ more = {} \/ more = Requires[p]
    <3>1. CASE p \notin OBAZL_PKGS /\ switches' = [switches EXCEPT
                    ![switch].have = @ \cup {p} \cup Requires[p]]
      <4>1. switches[switch].have \cup {p} \cup Requires[p]
              = switches[switch].have \cup ({p} \cup Requires[p])
        OBVIOUS
      <4> QED BY <3>1, <4>1
    <3> QED BY <1>10, <3>1 DEF opam_install_pkg
  <2>2. p \in Pkg /\ Tail(todo) \in Seq(Pkg)
    BY <1>0, <1>10 DEF opam_install_pkg, Installing, Rest
  <2>3. more \in SUBSET Pkg
    BY <2>1, <2>2, PkgNames
  <2>4. switches' \in [Switch -> SwitchTypes]
    BY <1>0, <2>1, <2>3, NewSwitch DEF Rest
  <2>5. Rest'
    BY <1>0, <1>10, <1>s, <2>2 DEF opam_install_pkg, Rest
  <2> QED
    BY <1>0, <1>10, <2>4, <2>5
       DEF opam_install_pkg, lists, result, TagTypes, ListTypes, ResultTypes
<1>11. CASE ListDeps
  BY <1>0, <1>11, <1>s, LibType
     DEF ListDeps, lists, TagTypes, ListTypes, Rest, ResultTypes
<1>12. CASE Register
  <2>1. {Repo("ocamlsdk"), Repo("stublibs")}
          \cup {Tool(t) : t \in {t \in Special \ {"utop"} : Dev(t)}}
          \cup {Repo(p) : p \in deps \ OBAZL_PKGS} \subseteq Repos
    BY <1>0, PkgNames DEF Repos, ResultTypes
  <2>2. repos' \subseteq Repos
    BY <1>0, <1>12, <2>1 DEF Register, ResultTypes
  <2>3. pc' \in Stage
    BY <1>12, <1>s DEF Register
  <2> QED
    BY <1>0, <1>12, <2>2, <2>3
       DEF Register, lists, TagTypes, ListTypes, Rest, ResultTypes
<1>13. CASE Metadata
  BY <1>0, <1>13, <1>s, MetadataType
     DEF Metadata, lists, TagTypes, ListTypes, Rest, ResultTypes
<1>14. CASE CommandFails
  BY <1>0, <1>14, <1>s
     DEF CommandFails, lists, result, TagTypes, ListTypes, Rest, ResultTypes
<1> QED
  BY <1>1, <1>2, <1>3, <1>4, <1>5, <1>6, <1>7, <1>8, <1>9, <1>10, <1>11, <1>12,
     <1>13, <1>14 DEF Next, _opam_ext_impl

-----------------------------------------------------------------------------
(* What may be installed.                                                  *)

(* Whoever is about to install has something to install and may do it; the *)
(* opam toolchain has nothing to check.                                    *)
Guard ==
    /\ pc \in {"pkgs", "install"} /\ toolchain = "opam" => todo = <<>>
    /\ pc = "install" => todo # <<>> /\ MayInstall

(* The stages after the switch was configured, and those before.           *)
Before == {"idle", "failed", "special", "tags", "check", "prune", "switch"}

LEMMA GuardPreserved ==
    ASSUME TypeOK, Guard, [Next]_vars
    PROVE  Guard'
<1> USE DEF Go, Fail
<1>1. CASE UNCHANGED vars
  BY <1>1 DEF vars, lists, result, Guard, MayInstall
<1>2. CASE pc' \in Before \cup {"list", "register", "metadata", "done", "rejected"}
  BY <1>2 DEF Guard, Before
<1>3. ASSUME NEW p \in Project, Start(p) PROVE Guard'
  BY <1>2, <1>3 DEF Start, Before
<1>4. CASE SpecialTags \/ DepsTag \/ BuildConfigTool \/ CheckDirect \/ Prune
  BY <1>2, <1>4 DEF SpecialTags, DepsTag, BuildConfigTool, CheckDirect, Prune, Before
<1>5. CASE ConfigToolchain
  <2>1. toolchain' = toolchain
    BY <1>5 DEF ConfigToolchain
  <2>2. CASE config_opam_toolchain
    BY <2>1, <2>2 DEF config_opam_toolchain, Found, Guard
  <2>3. CASE config_local_toolchain
    BY <2>1, <2>3 DEF config_local_toolchain, Found, Create, Killed, Guard
  <2>4. CASE config_global_toolchain
    BY <2>1, <2>4 DEF config_global_toolchain, Found, Guard
  <2>5. CASE config_xdg_toolchain
    BY <2>1, <2>5 DEF config_xdg_toolchain, Found, Create, Killed, Guard
  <2>6. CASE unrecognized_toolchain
    BY <2>6 DEF unrecognized_toolchain, Guard
  <2> QED BY <1>5, <2>2, <2>3, <2>4, <2>5, <2>6 DEF ConfigToolchain
<1>6. CASE CheckPkg
  BY <1>6 DEF CheckPkg, lists, Guard, MayInstall
<1>7. CASE opam_install_pkg
  BY <1>7 DEF opam_install_pkg, lists, Guard
<1>8. CASE ListDeps \/ Register \/ Metadata \/ CommandFails
  BY <1>2, <1>8 DEF ListDeps, Register, Metadata, CommandFails, Before
<1> QED
  BY <1>1, <1>3, <1>4, <1>5, <1>6, <1>7, <1>8 DEF Next, _opam_ext_impl

-----------------------------------------------------------------------------
(* What is installed.                                                      *)

Missing == Wanted \ {"stublibs"}

(* What is not installed yet is still going to be looked at.               *)
Pending ==
    /\ pc \in {"pkgs", "install"} /\ toolchain # "opam" =>
          Missing \subseteq switches[switch].have \cup ToSet(todo)
    /\ pc \in {"list", "register", "metadata", "done"} /\ toolchain # "opam" =>
          Missing \subseteq switches[switch].have

LEMMA PendingPreserved ==
    ASSUME TypeOK, Guard, Pending, [Next]_vars
    PROVE  Pending'
<1> USE DEF Go, Fail
<1>0. /\ todo \in Seq(Pkg) /\ direct_deps \in Seq(Pkg) /\ dev_deps \in Seq(Pkg)
      /\ switches \in [Switch -> SwitchTypes] /\ switch \in Switch
  BY DEF TypeOK, SwitchTypes
<1>1. CASE UNCHANGED vars
  BY <1>1 DEF vars, lists, result, Pending, Missing, Wanted
<1>2. CASE pc' \in Before \cup {"rejected"}
  BY <1>2 DEF Pending, Before
<1>3. ASSUME NEW p \in Project, Start(p) PROVE Pending'
  BY <1>2, <1>3 DEF Start, Before
<1>4. CASE SpecialTags \/ DepsTag \/ BuildConfigTool \/ CheckDirect \/ Prune
  BY <1>2, <1>4 DEF SpecialTags, DepsTag, BuildConfigTool, CheckDirect, Prune, Before
<1>5. CASE ConfigToolchain
  <2>1. UNCHANGED <<toolchain, direct_deps, dev_deps>>
    BY <1>5 DEF ConfigToolchain
  <2>2. ToSet(direct_deps \o dev_deps) = Wanted /\ Wanted' = Wanted
    BY <1>0, <2>1, ToSetConcat DEF Wanted
  <2>3. ASSUME pc' = "pkgs", todo' = direct_deps \o dev_deps
        PROVE  Pending'
    BY <2>2, <2>3 DEF Pending, Missing
  <2>4. CASE config_opam_toolchain
    BY <2>1, <2>4 DEF config_opam_toolchain, Found, Pending
  <2>5. CASE config_local_toolchain
    BY <1>2, <2>3, <2>5 DEF config_local_toolchain, Found, Create, Killed, Before
  <2>6. CASE config_global_toolchain
    BY <2>3, <2>6 DEF config_global_toolchain, Found
  <2>7. CASE config_xdg_toolchain
    BY <1>2, <2>3, <2>7 DEF config_xdg_toolchain, Found, Create, Killed, Before
  <2>8. CASE unrecognized_toolchain
    BY <1>2, <2>8 DEF unrecognized_toolchain, Before
  <2> QED BY <1>5, <2>4, <2>5, <2>6, <2>7, <2>8 DEF ConfigToolchain
<1>6. CASE CheckPkg
  <2>1. UNCHANGED <<switches, switch, toolchain, direct_deps, dev_deps>> /\ pc = "pkgs"
    BY <1>6 DEF CheckPkg, lists
  <2>2. Missing' = Missing
    BY <2>1 DEF Missing, Wanted
  <2>3. CASE todo = <<>> /\ pc' = "list"
    <3>1. ToSet(todo) = {}
      BY <2>3 DEF ToSet
    <3> QED BY <2>1, <2>2, <2>3, <3>1 DEF Pending
  <2>4. CASE todo # <<>> /\ Present(Head(todo)) /\ todo' = Tail(todo) /\ pc' = pc
    <3>1. ToSet(todo) = {Head(todo)} \cup ToSet(todo')
      BY <1>0, <2>4, ToSetTail
    <3>2. Head(todo) \in switches[switch].have \cup {"stublibs"}
      BY <2>4 DEF Present, Lib
    <3>3. "stublibs" \notin Missing
      BY DEF Missing
    <3> QED BY <2>1, <2>2, <2>4, <3>1, <3>2, <3>3 DEF Pending
  <2>5. CASE todo' = todo /\ pc' = "install"
    BY <2>1, <2>2, <2>5 DEF Pending
  <2>6. CASE pc' = "failed"
    BY <1>2, <2>6 DEF Before
  <2> QED BY <1>6, <2>3, <2>4, <2>5, <2>6 DEF CheckPkg
<1>7. CASE opam_install_pkg
  <2>1. UNCHANGED <<switch, toolchain, direct_deps, dev_deps>> /\ pc = "install"
    BY <1>7 DEF opam_install_pkg, lists
  <2>2. Missing' = Missing
    BY <2>1 DEF Missing, Wanted
  <2>3. CASE /\ switches' = [switches EXCEPT ![switch].have =
                                 @ \cup {Head(todo)} \cup Requires[Head(todo)]]
             /\ todo' = Tail(todo) /\ pc' = "pkgs"
    <3>1. ToSet(todo) = {Head(todo)} \cup ToSet(todo')
      BY <1>0, <2>1, <2>3, ToSetTail DEF Guard
    <3>2. switches[switch].have \cup {Head(todo)} \subseteq switches'[switch].have
      BY <1>0, <2>3 DEF SwitchTypes
    <3> QED BY <2>1, <2>2, <2>3, <3>1, <3>2 DEF Pending
  <2>4. CASE pc' = "failed"
    BY <1>2, <2>4 DEF Before
  <2> QED BY <1>7, <2>3, <2>4 DEF opam_install_pkg
<1>8. CASE ListDeps \/ Register \/ Metadata
  <2>1. UNCHANGED <<switches, switch, toolchain, direct_deps, dev_deps>>
    BY <1>8 DEF ListDeps, Register, Metadata, lists
  <2>2. Missing' = Missing
    BY <2>1 DEF Missing, Wanted
  <2>3. pc \in {"list", "register", "metadata"}
    BY <1>8 DEF ListDeps, Register, Metadata
  <2>4. pc' \in {"register", "metadata", "done"} \cup {"rejected", "failed"}
    BY <1>8 DEF ListDeps, Register, Metadata
  <2> QED BY <2>1, <2>2, <2>3, <2>4 DEF Pending
<1>9. CASE CommandFails
  BY <1>2, <1>9 DEF CommandFails, Before
<1> QED
  BY <1>1, <1>3, <1>4, <1>5, <1>6, <1>7, <1>8, <1>9 DEF Next, _opam_ext_impl

-----------------------------------------------------------------------------
(* What version the repositories are told.                                 *)

XdgVersions == \A v \in Version : switches[<<"xdg", v>>].version \in {v, None}

Told ==
    \/ ocaml_version = switches[switch].version
    \/ toolchain \in {"local", "global"} /\ ocaml_version \in Asked \cup {Default}
    \/ toolchain = "xdg" /\ ocaml_version = None

Versions ==
    /\ XdgVersions
    /\ pc \in Before \ {"idle", "failed"} => ocaml_version \in Asked \cup {Default}
    /\ pc \in Stage \ Before => Told

LEMMA VersionsPreserved ==
    ASSUME TypeOK, Versions, [Next]_vars
    PROVE  Versions'
<1> USE DEF Go, Fail
<1>0. /\ switches \in [Switch -> SwitchTypes] /\ switch \in Switch /\ pc \in Stage
      /\ project.deps \in Seq(DepsTags)
      /\ ocaml_version \in Version \cup {None}
  BY ProjectTypes DEF TypeOK, SwitchTypes
<1>s. /\ Before \subseteq Stage
      /\ "failed" \notin Before \ {"idle", "failed"} /\ "failed" \in Before
  BY DEF Before, Stage, Stopped
<1>1. CASE UNCHANGED vars
  BY <1>1 DEF vars, lists, result, Versions, XdgVersions, Told, Asked
<1>2. CASE UNCHANGED switches /\ pc' = "failed"
  BY <1>2, <1>s DEF Versions, XdgVersions
<1>3. ASSUME NEW p \in Project, Start(p) PROVE Versions'
  <2>1. pc' = "special" /\ ocaml_version' = Default /\ UNCHANGED switches
    BY <1>3 DEF Start
  <2> QED BY <2>1 DEF Versions, XdgVersions, Before
<1>4. CASE DepsTag
  <2> DEFINE d == project.deps
  <2>1. PICK n \in 1..(Len(d) + 1) : tags = SubSeq(d, n, Len(d))
    BY DEF TypeOK
  <2>2. n \in DOMAIN d /\ Head(tags) = d[n]
    BY <1>0, <1>4, <2>1, Suffix DEF DepsTag
  <2>3. CASE pc' = "failed"
    BY <1>2, <1>4, <2>3 DEF DepsTag
  <2>4. CASE pc' = pc
    <3>1. UNCHANGED <<switches, project>> /\ pc = "tags" /\ Asked' = Asked
      BY <1>4 DEF DepsTag, Asked
    <3>2. ocaml_version' \in {ocaml_version} \cup Asked
      BY <1>4, <2>2 DEF DepsTag, Asked
    <3> QED BY <2>4, <3>1, <3>2 DEF Versions, XdgVersions, Before
  <2> QED BY <1>4, <2>3, <2>4 DEF DepsTag
<1>5. CASE SpecialTags \/ BuildConfigTool \/ CheckDirect \/ Prune
  <2>1. UNCHANGED <<switches, project, ocaml_version>> /\ Asked' = Asked
    BY <1>5 DEF SpecialTags, BuildConfigTool, CheckDirect, Prune, Asked
  <2>2. /\ pc \in Before \ {"idle", "failed"}
        /\ pc' \in Before \ {"idle"}
    BY <1>5 DEF SpecialTags, BuildConfigTool, CheckDirect, Prune, Before
  <2> QED BY <2>1, <2>2 DEF Versions, XdgVersions
<1>6. CASE ConfigToolchain
  <2>1. UNCHANGED <<project, toolchain>> /\ Asked' = Asked
    BY <1>6 DEF ConfigToolchain, Asked
  <2>2. pc = "switch" /\ ocaml_version \in Asked \cup {Default}
    <3>1. pc = "switch"
      BY <1>6 DEF ConfigToolchain, config_local_toolchain, config_global_toolchain,
                  config_opam_toolchain, config_xdg_toolchain, unrecognized_toolchain
    <3> QED BY <3>1 DEF Versions, Before
  <2>3. ASSUME XdgVersions', Told' PROVE Versions'
    <3>1. CASE pc' \notin Before
      BY <2>3, <3>1 DEF Versions
    <3>2. CASE pc' = "failed"
      BY <2>3, <3>2, <1>s DEF Versions
    <3>3. pc' \in {"pkgs", "failed"}
      BY <1>6 DEF ConfigToolchain, config_local_toolchain, config_global_toolchain,
                  config_opam_toolchain, config_xdg_toolchain, unrecognized_toolchain,
                  Found, Create, Killed
    <3> QED BY <3>1, <3>2, <3>3 DEF Before
  <2>4. ASSUME NEW s \in Switch, Killed(s) PROVE Versions'
    <3>1. \A t \in Switch : switches'[t].version = switches[t].version
      BY <1>0, <2>4 DEF Killed, SwitchTypes
    <3>2. \A v \in Version : <<"xdg", v>> \in Switch
      BY DEF Switch
    <3>3. pc' = "failed"
      BY <2>4 DEF Killed
    <3> QED BY <1>s, <3>1, <3>2, <3>3 DEF Versions, XdgVersions
  <2>5. ASSUME NEW s \in Switch, NEW wanted, Found(s, wanted)
        PROVE  XdgVersions' /\ switch' = s /\ switches' = switches
    BY <2>5 DEF Found, Versions, XdgVersions
  <2>6. ASSUME NEW s \in Switch, NEW v \in Version \cup {None}, NEW others,
               s[1] = "xdg" => s = <<"xdg", v>>, Create(s, v, others)
        PROVE  \/ pc' = "failed" /\ switches' = switches
               \/ XdgVersions' /\ switch' = s /\ switches'[s].version = v
    <3>1. ASSUME v # None, NEW more \in others,
                 switches' = [switches EXCEPT ![s] =
                    [exists |-> TRUE, version |-> v, have |-> more]],
                 switch' = s
          PROVE  XdgVersions' /\ switches'[s].version = v
      <4>1. switches'[s].version = v
        BY <1>0, <3>1
      <4>2. \A t \in Switch \ {s} : switches'[t] = switches[t]
        BY <1>0, <3>1
      <4>3. ASSUME NEW w \in Version
            PROVE  switches'[<<"xdg", w>>].version \in {w, None}
        <5>1. <<"xdg", w>> \in Switch
          BY DEF Switch
        <5>2. CASE s = <<"xdg", w>>
          BY <2>6, <4>1, <5>2
        <5>3. CASE s # <<"xdg", w>>
          BY <4>2, <5>1, <5>3 DEF Versions, XdgVersions
        <5> QED BY <5>2, <5>3
      <4> QED BY <4>1, <4>3 DEF XdgVersions
    <3> QED BY <2>6, <3>1 DEF Create
  <2>7. CASE config_local_toolchain
    <3> DEFINE s == <<"local", None>>
    <3>1. s \in Switch /\ s[1] # "xdg" /\ Effective \in Version \cup {None}
      BY <1>0, EffectiveType DEF Switch
    <3>2. CASE Found(s, direct_deps \o dev_deps)
               /\ ocaml_version' = IF ocaml_version # None THEN ocaml_version
                                   ELSE switches[s].version
      BY <2>1, <2>2, <2>3, <2>5, <2>7, <3>1, <3>2 DEF Told, config_local_toolchain
    <3>3. CASE Create(s, Effective, {{}, Requires["utop"]})
               /\ ocaml_version' = Effective
      <4>1. CASE pc' = "failed" /\ switches' = switches
        BY <1>2, <4>1
      <4>2. CASE XdgVersions' /\ switch' = s /\ switches'[s].version = Effective
        BY <2>3, <3>3, <4>2 DEF Told
      <4> QED BY <2>6, <3>1, <3>3, <4>1, <4>2
    <3> QED BY <2>4, <2>7, <3>1, <3>2, <3>3 DEF config_local_toolchain
  <2>8. CASE config_global_toolchain
    <3>1. <<"global", None>> \in Switch
      BY DEF Switch
    <3> QED BY <2>1, <2>2, <2>3, <2>5, <2>8, <3>1 DEF Told, config_global_toolchain
  <2>9. CASE config_opam_toolchain
    <3>1. <<"opam", None>> \in Switch
      BY DEF Switch
    <3> QED BY <2>3, <2>5, <2>9, <3>1 DEF Told, config_opam_toolchain
  <2>10. CASE config_xdg_toolchain
    <3> DEFINE s == <<"xdg", Effective>>
    <3>1. Effective \in Version \cup {None}
      BY <1>0, EffectiveType
    <3>2. CASE Effective = None
      BY <1>2, <2>10, <3>2 DEF config_xdg_toolchain
    <3>3. CASE Effective # None
      <4>1. s \in Switch /\ Effective \in Version
        BY <3>1, <3>3 DEF Switch
      <4>2. CASE Found(s, direct_deps \o dev_deps) /\ ocaml_version' = Effective
        <5>1. switches[s].version = Effective
          BY <4>1, <4>2 DEF Found, Versions, XdgVersions
        <5> QED BY <2>3, <2>5, <4>1, <4>2, <5>1 DEF Told
      <4>3. CASE Create(s, Effective, {{}}) /\ ocaml_version' = None
        <5>1. toolchain' = "xdg"
          BY <2>1, <2>10 DEF config_xdg_toolchain
        <5>2. CASE pc' = "failed" /\ switches' = switches
          BY <1>2, <5>2
        <5>3. CASE XdgVersions'
          BY <2>3, <4>3, <5>1, <5>3 DEF Told
        <5> QED BY <2>6, <3>1, <4>1, <4>3, <5>2, <5>3
      <4> QED BY <2>4, <2>10, <3>3, <4>1, <4>2, <4>3 DEF config_xdg_toolchain
    <3> QED BY <3>2, <3>3
  <2>11. CASE unrecognized_toolchain
    BY <1>2, <2>11 DEF unrecognized_toolchain
  <2> QED BY <1>6, <2>7, <2>8, <2>9, <2>10, <2>11 DEF ConfigToolchain
<1>7. CASE CheckPkg \/ ListDeps \/ Register \/ Metadata
  <2>1. UNCHANGED <<switches, project, switch, toolchain, ocaml_version>>
    BY <1>7 DEF CheckPkg, ListDeps, Register, Metadata, lists
  <2>2. Told' = Told
    BY <2>1 DEF Told, Asked
  <2>3. pc \in Stage \ Before
    BY <1>0, <1>7 DEF CheckPkg, ListDeps, Register, Metadata, Before
  <2>4. pc' \notin Before \ {"idle", "failed"}
    BY <1>7, <2>3 DEF CheckPkg, ListDeps, Register, Metadata, Before
  <2> QED BY <2>1, <2>2, <2>3, <2>4 DEF Versions, XdgVersions
<1>8. CASE opam_install_pkg
  <2>1. UNCHANGED <<project, switch, toolchain, ocaml_version>> /\ Asked' = Asked
    BY <1>8 DEF opam_install_pkg, lists, Asked
  <2>2. \A t \in Switch : switches'[t].version = switches[t].version
    BY <1>0, <1>8 DEF opam_install_pkg, SwitchTypes
  <2>3. XdgVersions'
    BY <2>2 DEF Versions, XdgVersions, Switch
  <2>4. pc \in Stage \ Before /\ pc' \notin Before \ {"idle", "failed"}
    BY <1>0, <1>8 DEF opam_install_pkg, Before
  <2> QED BY <1>0, <2>1, <2>2, <2>3, <2>4 DEF Versions, Told
<1>9. CASE CommandFails
  BY <1>2, <1>9 DEF CommandFails
<1> QED
  BY <1>1, <1>3, <1>4, <1>5, <1>6, <1>7, <1>8, <1>9 DEF Next, _opam_ext_impl

-----------------------------------------------------------------------------
(* The theorems.                                                           *)

IInv == TypeOK /\ Guard /\ Pending /\ Versions

LEMMA Inductive == Spec => []IInv
<1>1. Init => IInv
  <2> SUFFICES ASSUME Init PROVE IInv
    OBVIOUS
  <2>1. TypeOK
    BY InitTypes
  <2>2. Guard /\ Pending
    BY DEF Init, Guard, Pending
  <2>3. Versions
    <3>1. \A v \in Version : <<"xdg", v>> \in Switch /\ <<"xdg", v>>[1] = "xdg"
      BY DEF Switch
    <3>2. \A v \in Version : switches[<<"xdg", v>>] = Empty
      BY <3>1 DEF Init
    <3>3. pc \notin Before \ {"idle", "failed"} /\ pc \in Before
      BY DEF Init, Before
    <3> QED BY <3>2, <3>3 DEF Versions, XdgVersions, Empty
  <2> QED BY <2>1, <2>2, <2>3 DEF IInv
<1>2. IInv /\ [Next]_vars => IInv'
  <2> SUFFICES ASSUME IInv, [Next]_vars PROVE IInv'
    OBVIOUS
  <2>1. Installing
    BY DEF IInv, Guard, Installing
  <2> QED
    BY <2>1, TypePreserved, GuardPreserved, PendingPreserved, VersionsPreserved DEF IInv
<1> QED
  BY <1>1, <1>2, PTL DEF Spec

(* The variables have their types, whatever fails in whichever evaluation. *)
THEOREM TypeCorrect == Spec => []TypeOK
<1>1. IInv => TypeOK
  BY DEF IInv
<1> QED
  BY <1>1, Inductive, PTL

(* With the local, the global and the xdg toolchain, what any module asked *)
(* for is installed when the repositories are declared.                    *)
THEOREM RegistersInstalledCorrect == Spec => []RegistersInstalled
<1>1. IInv => RegistersInstalled
  BY DEF IInv, Pending, Missing, RegistersInstalled
<1> QED
  BY <1>1, Inductive, PTL

(* The repositories are told the version of the switch, but for the two    *)
(* cases in which the code says another one or none.                       *)
THEOREM VersionOfSwitchCorrect == Spec => []VersionOfSwitch
<1>1. IInv => VersionOfSwitch
  <2>1. {"register", "metadata", "done", "rejected"} \subseteq Stage \ Before
    BY DEF Stage, Stopped, Before
  <2> QED BY <2>1 DEF IInv, Versions, Told, VersionOfSwitch
<1> QED
  BY <1>1, Inductive, PTL

(* No step changes a switch of an opam install, or a global one without    *)
(* OBAZL_FORCE_INSTALL.                                                    *)
THEOREM GuardedUntouchedCorrect == Spec => GuardedUntouched
<1>1. IInv /\ [Next]_vars => [Guarded => UNCHANGED switches]_vars
  <2> SUFFICES ASSUME IInv, Next, Guarded
               PROVE  UNCHANGED switches
    OBVIOUS
  <2>1. CASE ConfigToolchain
    BY <2>1 DEF ConfigToolchain, config_local_toolchain, config_global_toolchain,
                config_opam_toolchain, config_xdg_toolchain, unrecognized_toolchain,
                Found, Guarded
  <2>2. CASE opam_install_pkg
    BY <2>2 DEF opam_install_pkg, IInv, Guard, Guarded, MayInstall
  <2>3. CASE ~ConfigToolchain /\ ~opam_install_pkg
    BY <2>3 DEF Next, _opam_ext_impl, Start, SpecialTags, DepsTag,
                BuildConfigTool, CheckDirect, Prune, CheckPkg, ListDeps,
                Register, Metadata, CommandFails
  <2> QED BY <2>1, <2>2, <2>3
<1> QED
  BY <1>1, Inductive, PTL DEF Spec, GuardedUntouched

(* Once the switch has all that is wanted, the evaluation changes nothing  *)
(* in it up to its end.                                                    *)
THEOREM NoUpdateWhenConfiguredCorrect == Spec => NoUpdateWhenConfigured
<1>1. IInv /\ [Next]_vars =>
        [Configured => /\ UNCHANGED switches
                       /\ Configured' \/ pc' \in Stopped]_vars
  <2> SUFFICES ASSUME IInv, Next, Configured
               PROVE  UNCHANGED switches /\ (Configured' \/ pc' \in Stopped)
    OBVIOUS
  <2> USE DEF Go, Fail
  <2>0. /\ todo \in Seq(Pkg) /\ direct_deps \in Seq(Pkg) /\ dev_deps \in Seq(Pkg)
        /\ switch \in Switch /\ ocaml_version \in Version \cup {None}
    BY DEF IInv, TypeOK
  <2>1. pc \in {"switch", "pkgs", "list", "register", "metadata"}
    BY DEF Configured
  <2>2. CASE UNCHANGED switches /\ pc' \in Stopped
    BY <2>2
  <2>3. CASE ConfigToolchain
    <3>1. UNCHANGED <<toolchain, direct_deps, dev_deps>>
      BY <2>3 DEF ConfigToolchain
    <3>2. pc = "switch"
      BY <2>3 DEF ConfigToolchain, config_local_toolchain, config_global_toolchain,
                  config_opam_toolchain, config_xdg_toolchain, unrecognized_toolchain
    <3> DEFINE s == <<toolchain, IF toolchain = "xdg" THEN Effective ELSE None>>
    <3>3. /\ s \in Switch /\ switches[s].exists
          /\ Wanted \subseteq Lib(s)
      BY <3>2 DEF Configured
    <3>4. toolchain = "xdg" => Effective \in Version
      BY <3>3 DEF Switch
    <3>5. ASSUME NEW wanted \in Seq(Pkg), ToSet(wanted) \subseteq Wanted,
                 Found(s, wanted), toolchain = "xdg" => ocaml_version' # None
          PROVE  UNCHANGED switches /\ Configured'
      <4>1. switches' = switches /\ switch' = s /\ todo' = wanted /\ pc' = "pkgs"
        BY <3>5 DEF Found
      <4>2. Wanted' = Wanted
        BY <3>1 DEF Wanted
      <4>3. Lib(switch)' = Lib(s)
        BY <4>1 DEF Lib
      <4> QED BY <3>1, <3>3, <3>5, <4>1, <4>2, <4>3 DEF Configured
    <3>6. /\ ToSet(direct_deps \o dev_deps) \subseteq Wanted
          /\ direct_deps \o dev_deps \in Seq(Pkg)
          /\ ToSet(<<>>) \subseteq Wanted /\ <<>> \in Seq(Pkg)
      <4>1. ToSet(direct_deps \o dev_deps) = Wanted
        BY <2>0, ToSetConcat DEF Wanted
      <4>2. direct_deps \o dev_deps \in Seq(Pkg)
        BY <2>0
      <4>3. ToSet(<<>>) = {}
        BY DEF ToSet
      <4> QED BY <4>1, <4>2, <4>3
    <3>7. CASE config_local_toolchain
      BY <3>3, <3>5, <3>6, <3>7 DEF config_local_toolchain, Create, Killed
    <3>8. CASE config_global_toolchain
      BY <3>3, <3>5, <3>6, <3>8 DEF config_global_toolchain
    <3>9. CASE config_opam_toolchain
      BY <3>3, <3>5, <3>6, <3>9 DEF config_opam_toolchain
    <3>10. CASE config_xdg_toolchain
      <4>1. Effective # None /\ s = <<"xdg", Effective>>
        BY <3>4, <3>10, Assumptions DEF config_xdg_toolchain
      <4>2. Found(s, direct_deps \o dev_deps) /\ ocaml_version' = Effective
        BY <3>3, <3>10, <4>1 DEF config_xdg_toolchain, Create, Killed
      <4> QED BY <3>5, <3>6, <4>1, <4>2
    <3>11. CASE unrecognized_toolchain
      BY <2>2, <3>11 DEF unrecognized_toolchain, Stopped
    <3> QED BY <2>3, <3>7, <3>8, <3>9, <3>10, <3>11 DEF ConfigToolchain
  <2>4. CASE CheckPkg
    <3>1. pc = "pkgs" /\ UNCHANGED <<switches, switch, toolchain, ocaml_version,
                                     direct_deps, dev_deps>>
      BY <2>4 DEF CheckPkg, lists
    <3>2. Lib(switch)' = Lib(switch) /\ Wanted' = Wanted
      BY <3>1 DEF Lib, Wanted
    <3>3. ASSUME pc' \in {"pkgs", "list"}, ToSet(todo') \subseteq ToSet(todo)
          PROVE  Configured'
      BY <3>1, <3>2, <3>3 DEF Configured
    <3>4. CASE todo = <<>>
      BY <2>4, <3>1, <3>3, <3>4 DEF CheckPkg
    <3>5. CASE todo # <<>>
      <4>1. ToSet(todo) = {Head(todo)} \cup ToSet(Tail(todo))
        BY <2>0, <3>5, ToSetTail
      <4>2. Present(Head(todo))
        BY <3>1, <4>1 DEF Configured, Present
      <4>3. todo' = Tail(todo) /\ pc' = pc
        BY <2>4, <3>5, <4>2 DEF CheckPkg
      <4> QED BY <3>1, <3>3, <4>1, <4>3
    <3> QED BY <3>4, <3>5
  <2>5. CASE ListDeps \/ Register
    <3>1. UNCHANGED <<switches, switch, todo, toolchain, ocaml_version,
                      direct_deps, dev_deps>> /\ pc # "switch"
      BY <2>5 DEF ListDeps, Register, lists
    <3>2. Lib(switch)' = Lib(switch) /\ Wanted' = Wanted
      BY <3>1 DEF Lib, Wanted
    <3>3. pc' \in {"register", "metadata", "failed"}
      BY <2>5 DEF ListDeps, Register
    <3> QED BY <3>1, <3>2, <3>3 DEF Configured, Stopped
  <2>6. CASE Metadata \/ CommandFails
    BY <2>6 DEF Metadata, CommandFails, Stopped
  <2> QED
    BY <2>1, <2>3, <2>4, <2>5, <2>6
       DEF Next, _opam_ext_impl, Start, SpecialTags, DepsTag, BuildConfigTool,
           CheckDirect, Prune, opam_install_pkg, Stopped
<1> QED
  BY <1>1, Inductive, PTL DEF Spec, NoUpdateWhenConfigured

-----------------------------------------------------------------------------
(* The abstract specification.                                             *)

(* A switch without a directory has no version, and the one whose packages *)
(* are being checked has one.                                              *)
Ready ==
    /\ \A s \in Switch : switches[s].exists \/ switches[s].version = None
    /\ pc \in {"pkgs", "install"} => switches[switch].version # None

Provided == Provision!Next \/ UNCHANGED Provision!vars

LEMMA Same ==
    ASSUME \A s \in Switch : /\ switches'[s].version = switches[s].version
                             /\ switches'[s].have = switches[s].have
    PROVE  UNCHANGED Provision!vars
  BY DEF Provision!vars

(* The three things that a toolchain function does with its switch.        *)
LEMMA FoundStep ==
    ASSUME TypeOK, Ready, NEW s \in Switch, NEW wanted, Found(s, wanted)
    PROVE  Ready' /\ Provided
  BY Same DEF Found, Ready, Provided

LEMMA CreateStep ==
    ASSUME TypeOK, Ready, pc = "switch", NEW s \in Switch,
           NEW v \in Version \cup {None},
           NEW others \in SUBSET SUBSET Pkg, Create(s, v, others)
    PROVE  Ready' /\ Provided
<1>1. switches[s].version = None
  BY DEF Create, Ready
<1>2. CASE Fail /\ UNCHANGED <<switches, switch, todo>>
  BY <1>2, Same DEF Ready, Provided, Fail
<1>3. ASSUME NEW more \in others, v # None, switch' = s,
             switches' = [switches EXCEPT ![s] =
                [exists |-> TRUE, version |-> v, have |-> more]]
      PROVE  Ready' /\ Provided
  <2>1. /\ switches'[s] = [exists |-> TRUE, version |-> v, have |-> more]
        /\ \A t \in Switch \ {s} : switches'[t] = switches[t]
    BY <1>3 DEF TypeOK
  <2>2. Ready'
    BY <1>3, <2>1 DEF Ready
  <2> DEFINE ver == [t \in Switch |-> switches[t].version]
             hav == [t \in Switch |-> switches[t].have]
  <2>3. /\ ver' = [t \in Switch |-> IF t = s THEN v ELSE ver[t]]
        /\ hav' = [t \in Switch |-> IF t = s THEN more ELSE hav[t]]
    BY <2>1
  <2>4. v \in Version /\ more \in SUBSET Pkg /\ ver[s] = None
    BY <1>1, <1>3
  <2>5. Provision!Create(s)
    BY <2>3, <2>4 DEF Provision!Create
  <2> QED BY <2>2, <2>5 DEF Provided, Provision!Next
<1> QED
  BY <1>2, <1>3 DEF Create

LEMMA KilledStep ==
    ASSUME TypeOK, Ready, NEW s \in Switch, Killed(s)
    PROVE  Ready' /\ Provided
<1>1. /\ \A t \in Switch : /\ switches'[t].version = switches[t].version
                           /\ switches'[t].have = switches[t].have
      /\ \A t \in Switch : switches[t].exists => switches'[t].exists
  BY DEF Killed, TypeOK
<1>2. pc' = "failed"
  BY DEF Killed, Fail
<1> QED
  BY <1>1, <1>2, Same DEF Ready, Provided

LEMMA InstallStep ==
    ASSUME TypeOK, Ready, opam_install_pkg, todo # <<>>
    PROVE  Ready' /\ Provided
<1>1. PICK more \in SUBSET Pkg :
          switches' = [switches EXCEPT ![switch].have = @ \cup more]
  <2>1. Head(todo) \in Pkg
    BY DEF TypeOK
  <2>2. Requires[Head(todo)] \subseteq Pkg
    BY <2>1, PkgNames
  <2>3. CASE switches' = [switches EXCEPT
                ![switch].have = @ \cup {Head(todo)} \cup Requires[Head(todo)]]
    <3>1. \A have : have \cup {Head(todo)} \cup Requires[Head(todo)]
                    = have \cup ({Head(todo)} \cup Requires[Head(todo)])
      OBVIOUS
    <3> QED BY <2>1, <2>2, <2>3, <3>1
  <2>4. CASE \E some \in {{}, Requires[Head(todo)]} :
                switches' = [switches EXCEPT ![switch].have = @ \cup some]
    BY <2>2, <2>4
  <2> QED BY <2>3, <2>4 DEF opam_install_pkg
<1>2. switch \in Switch /\ pc = "install" /\ switch' = switch
  BY DEF TypeOK, opam_install_pkg
<1>3. /\ \A t \in Switch : switches'[t].version = switches[t].version
      /\ \A t \in Switch : switches'[t].exists = switches[t].exists
      /\ switches'[switch].have = switches[switch].have \cup more
      /\ \A t \in Switch \ {switch} : switches'[t].have = switches[t].have
  BY <1>1, <1>2 DEF TypeOK
<1>4. Ready'
  BY <1>2, <1>3 DEF Ready
<1> DEFINE ver == [t \in Switch |-> switches[t].version]
           hav == [t \in Switch |-> switches[t].have]
<1>5. ver' = ver /\ hav' = [hav EXCEPT ![switch] = @ \cup more]
  BY <1>2, <1>3
<1>6. ver[switch] # None
  BY <1>2 DEF Ready
<1>7. \E s \in Switch : Provision!Install(s)
  <2>1. PICK s \in Switch : s = switch
    BY <1>2
  <2> QED BY <1>5, <1>6, <2>1 DEF Provision!Install
<1> QED
  BY <1>4, <1>7 DEF Provided, Provision!Next

LEMMA ReadyStep ==
    ASSUME IInv, Ready, [Next]_vars
    PROVE  Ready' /\ Provided
<1>0. TypeOK
  BY DEF IInv
<1>1. ASSUME UNCHANGED <<switches, switch>>,
             pc' \in {"pkgs", "install"} => pc \in {"pkgs", "install"}
      PROVE  Ready' /\ Provided
  BY <1>1, Same DEF Ready, Provided
<1>2. CASE UNCHANGED vars
  BY <1>1, <1>2 DEF vars
<1>3. CASE ConfigToolchain
  <2>1. /\ <<"local", None>> \in Switch /\ <<"global", None>> \in Switch
        /\ <<"opam", None>> \in Switch
        /\ Effective \in Version \cup {None}
        /\ Effective # None => <<"xdg", Effective>> \in Switch
    BY <1>0, EffectiveType DEF Switch, TypeOK
  <2>2. /\ {{}, Requires["utop"]} \in SUBSET SUBSET Pkg
        /\ {{}} \in SUBSET SUBSET Pkg
    BY PkgNames
  <2>3. CASE config_local_toolchain
    <3>1. pc = "switch"
      BY <2>3 DEF config_local_toolchain
    <3>2. \/ Found(<<"local", None>>, direct_deps \o dev_deps)
          \/ Create(<<"local", None>>, Effective, {{}, Requires["utop"]})
          \/ Killed(<<"local", None>>)
      BY <2>3 DEF config_local_toolchain
    <3> QED
      BY <1>0, <2>1, <2>2, <3>1, <3>2, FoundStep, CreateStep, KilledStep, Zenon
  <2>4. CASE config_global_toolchain
    BY <1>0, <2>1, <2>4, FoundStep DEF config_global_toolchain
  <2>5. CASE config_opam_toolchain
    BY <1>0, <2>1, <2>5, FoundStep DEF config_opam_toolchain
  <2>6. CASE config_xdg_toolchain
    <3>1. CASE Effective # None
      <4>1. \/ Found(<<"xdg", Effective>>, direct_deps \o dev_deps)
            \/ Create(<<"xdg", Effective>>, Effective, {{}})
            \/ Killed(<<"xdg", Effective>>)
        BY <2>6, <3>1 DEF config_xdg_toolchain
      <4>2. pc = "switch"
        BY <2>6 DEF config_xdg_toolchain
      <4> QED
        BY <1>0, <2>1, <2>2, <3>1, <4>1, <4>2, FoundStep, CreateStep, KilledStep, Zenon
    <3>2. CASE Effective = None
      BY <1>1, <2>6, <3>2 DEF config_xdg_toolchain, Fail
    <3> QED BY <3>1, <3>2
  <2>7. CASE unrecognized_toolchain
    BY <1>1, <2>7 DEF unrecognized_toolchain, Fail
  <2> QED BY <1>3, <2>3, <2>4, <2>5, <2>6, <2>7 DEF ConfigToolchain
<1>4. CASE opam_install_pkg
  <2>1. todo # <<>>
    BY <1>4 DEF IInv, Guard, opam_install_pkg
  <2> QED BY <1>0, <1>4, <2>1, InstallStep
<1>5. CASE /\ Next /\ ~ConfigToolchain /\ ~opam_install_pkg
  BY <1>1, <1>5
     DEF Next, _opam_ext_impl, Start, SpecialTags, DepsTag, BuildConfigTool,
         CheckDirect, Prune, CheckPkg, ListDeps, Register, Metadata,
         CommandFails, Go, Fail
<1> QED
  BY <1>2, <1>3, <1>4, <1>5

(* Whichever toolchains the evaluations use, and however they fail or are  *)
(* killed: no switch is made again or changed to another version, and no   *)
(* package goes.                                                           *)
THEOREM ProvisionsCorrect == Spec => Provisions
<1>1. Init => Provision!Init /\ Ready
  <2> SUFFICES ASSUME Init PROVE Provision!Init /\ Ready
    OBVIOUS
  <2>1. /\ switches \in [Switch -> SwitchTypes]
        /\ \A s \in Switch : switches[s].version = None => switches[s].have = {}
    BY InitTypes, Assumptions DEF Init, TypeOK, SwitchTypes, Empty
  <2>2. Ready
    BY DEF Init, Ready, Empty
  <2>3. Provision!Init
    BY <2>1 DEF Provision!Init, Provision!TypeOK, SwitchTypes
  <2> QED BY <2>2, <2>3
<1>2. IInv /\ Ready /\ [Next]_vars => Ready' /\ [Provision!Next]_(Provision!vars)
  BY ReadyStep DEF Provided
<1> QED
  BY <1>1, <1>2, Inductive, PTL DEF Spec, Provisions, Provision!Spec

-----------------------------------------------------------------------------
(* What Bazel accepts.  A package is in a list as often as tags name it,   *)
(* up to "not at all", "once" and "more often"; of an SDK package the list *)
(* has one less after its round of the loop.                               *)

Two(M) == \E i, j \in M : i # j

Counted(s, p, M) ==
    /\ In(s, p) <=> M # {}
    /\ Twice(s, p) <=> Two(M)

LEMMA MoreThanOne ==
    ASSUME NEW M, IsFiniteSet(M)
    PROVE  /\ Cardinality(M) \in Nat
           /\ Cardinality(M) > 1 <=> Two(M)
           /\ Cardinality(M) > 0 <=> M # {}
<1>1. Cardinality(M) \in Nat /\ (Cardinality(M) = 0 <=> M = {})
  BY FS_CardinalityType, FS_EmptySet
<1>2. Cardinality(M) = 1 <=> \E x : M = {x}
  BY FS_Singleton
<1>3. (\E x : M = {x}) <=> M # {} /\ ~Two(M)
  BY DEF Two
<1> QED
  BY <1>1, <1>2, <1>3 DEF Two

(* Two tags of either kind.                                                *)
LEMMA MoreThanOneOfBoth ==
    ASSUME NEW A, NEW B, IsFiniteSet(A), IsFiniteSet(B)
    PROVE  Cardinality(A) + Cardinality(B) > 1
             <=> Two(A) \/ Two(B) \/ (A # {} /\ B # {})
<1>1. /\ Cardinality(A) \in Nat /\ Cardinality(B) \in Nat
      /\ Cardinality(A) > 1 <=> Two(A)
      /\ Cardinality(B) > 1 <=> Two(B)
      /\ Cardinality(A) > 0 <=> A # {}
      /\ Cardinality(B) > 0 <=> B # {}
  BY MoreThanOne
<1> DEFINE a == Cardinality(A)
           b == Cardinality(B)
<1>2. \A x, y \in Nat : x + y > 1 <=> x > 1 \/ y > 1 \/ (x > 0 /\ y > 0)
  OBVIOUS
<1> HIDE DEF a, b
<1>3. a + b > 1 <=> a > 1 \/ b > 1 \/ (a > 0 /\ b > 0)
  BY <1>1, <1>2 DEF a, b
<1> QED
  BY <1>1, <1>3 DEF a, b

(* The tags among the first n - 1 that name p.                             *)
Seen(p, dev, n) == {i \in Mentions(p, dev) : i < n}

LEMMA MentionsRange ==
    ASSUME project \in Project, NEW p, NEW dev
    PROVE  /\ Len(project.deps) \in Nat
           /\ Mentions(p, dev) \subseteq 0..Len(project.deps)
           /\ IsFiniteSet(Mentions(p, dev))
           /\ Seen(p, dev, Len(project.deps) + 1) = Mentions(p, dev)
<1>1. project.deps \in Seq(DepsTags)
  BY ProjectTypes
<1>2. Len(project.deps) \in Nat /\ DOMAIN project.deps = 1..Len(project.deps)
  BY <1>1
<1>3. Mentions(p, dev) \subseteq 0..Len(project.deps)
  BY <1>2 DEF Mentions
<1>4. IsFiniteSet(0..Len(project.deps))
  BY <1>2, FS_Interval
<1>5. IsFiniteSet(Mentions(p, dev))
  BY <1>3, <1>4, FS_Subset
<1>6. Seen(p, dev, Len(project.deps) + 1) = Mentions(p, dev)
  BY <1>2, <1>3 DEF Seen
<1> QED
  BY <1>2, <1>3, <1>5, <1>6

(* One more tag.                                                           *)
LEMMA SeenNext ==
    ASSUME project \in Project, NEW p, NEW dev, NEW n \in DOMAIN project.deps
    PROVE  /\ n \notin Seen(p, dev, n)
           /\ Seen(p, dev, n + 1) =
                IF project.deps[n].dev = dev /\ Contains(project.deps[n].pkgs, p)
                THEN Seen(p, dev, n) \cup {n} ELSE Seen(p, dev, n)
<1>1. project.deps \in Seq(DepsTags)
  BY ProjectTypes
<1>2. DOMAIN project.deps = 1..Len(project.deps) /\ Len(project.deps) \in Nat
  BY <1>1
<1>3. n \in Mentions(p, dev) <=> project.deps[n].dev = dev /\ Contains(project.deps[n].pkgs, p)
  BY <1>2 DEF Mentions
<1>4. \A i \in Mentions(p, dev) : i < n + 1 <=> i < n \/ i = n
  BY <1>2, MentionsRange
<1> QED
  BY <1>2, <1>3, <1>4 DEF Seen

LEMMA CountedConcat ==
    ASSUME NEW S, NEW s \in Seq(S), NEW t \in Seq(S), IsInjective(t),
           NEW p, NEW M, NEW n, n \notin M, Counted(s, p, M)
    PROVE  Counted(s \o t, p, IF Contains(t, p) THEN M \cup {n} ELSE M)
<1>1. /\ In(s \o t, p) <=> In(s, p) \/ In(t, p)
      /\ Twice(s \o t, p) <=> Twice(s, p) \/ Twice(t, p) \/ (In(s, p) /\ In(t, p))
  BY InConcat, TwiceConcat
<1>2. ~Twice(t, p)
  BY DEF IsInjective, Twice
<1>3. Contains(t, p) <=> In(t, p)
  BY DEF Contains, In
<1>4. Two(M \cup {n}) <=> M # {}
  BY DEF Two
<1>5. Two(M) => M # {}
  BY DEF Two
<1> QED
  BY <1>1, <1>2, <1>3, <1>4, <1>5 DEF Counted

Gathered(n) ==
    \A p \in Pkg : /\ Counted(direct_deps, p, Seen(p, FALSE, n))
                   /\ Counted(dev_deps, p, Seen(p, TRUE, n))

(* Of the SDK packages that have had their round what is left is what is   *)
(* named twice.                                                            *)
Pruned ==
    /\ \A p \in Pkg \ (OBAZL_PKGS \ sdk) :
          /\ Counted(direct_deps, p, Mentions(p, FALSE))
          /\ Counted(dev_deps, p, Mentions(p, TRUE))
    /\ \A p \in OBAZL_PKGS \ sdk :
          /\ In(direct_deps, p) <=> Two(Mentions(p, FALSE))
          /\ In(dev_deps, p) <=> Two(Mentions(p, TRUE))

StubsTold ==
    /\ stublibs = "direct" <=> Mentions("stublibs", FALSE) # {}
    /\ stublibs = "dev" <=> /\ Mentions("stublibs", FALSE) = {}
                            /\ Mentions("stublibs", TRUE) # {}

Later == {"switch", "pkgs", "install", "list", "register", "metadata", "done",
          "rejected"}

Collected ==
    /\ pc = "special" => /\ direct_deps = <<>> /\ dev_deps = <<>>
                         /\ tags = project.deps
    /\ pc = "tags" => \E n \in 1..(Len(project.deps) + 1) :
                         /\ tags = SubSeq(project.deps, n, Len(project.deps))
                         /\ Gathered(n)
    /\ pc = "check" => Gathered(Len(project.deps) + 1)
    /\ pc \in {"prune"} \cup Later => Pruned /\ StubsTold
    /\ pc \in Later => sdk = {}

(* What is listed and declared stays as the switch is.                     *)
Declared ==
    /\ pc \in {"register", "metadata", "done", "rejected"} => deps = Lib(switch)
    /\ pc \in {"metadata", "done", "rejected"} =>
          repos = {Repo("ocamlsdk"), Repo("stublibs")}
                  \cup {Tool(t) : t \in {t \in Special \ {"utop"} : Dev(t)}}
                  \cup {Repo(p) : p \in deps \ OBAZL_PKGS}
    /\ pc = "done" => Accepted(RootModuleDeps)
    /\ pc = "rejected" => ~Accepted(RootModuleDeps)

LEMMA SameMentions ==
    ASSUME UNCHANGED project, NEW p, NEW dev
    PROVE  /\ Mentions(p, dev)' = Mentions(p, dev)
           /\ \A n : Seen(p, dev, n)' = Seen(p, dev, n)
  BY DEF Mentions, Seen, Dev

(* Steps that leave the lists alone.                                       *)
LEMMA SameLists ==
    ASSUME UNCHANGED <<project, direct_deps, dev_deps, stublibs, sdk>>
    PROVE  /\ Pruned => Pruned'
           /\ StubsTold => StubsTold'
           /\ \A n : Gathered(n) => Gathered(n)'
<1>1. \A p, dev : Mentions(p, dev)' = Mentions(p, dev)
  BY SameMentions
<1>2. \A p, dev, n : Seen(p, dev, n)' = Seen(p, dev, n)
  BY SameMentions
<1>3. Pruned => Pruned'
  <2> SUFFICES ASSUME Pruned
               PROVE  /\ \A p \in Pkg \ (OBAZL_PKGS \ sdk') :
                            /\ Counted(direct_deps', p, Mentions(p, FALSE)')
                            /\ Counted(dev_deps', p, Mentions(p, TRUE)')
                      /\ \A p \in OBAZL_PKGS \ sdk' :
                            /\ In(direct_deps', p) <=> Two(Mentions(p, FALSE)')
                            /\ In(dev_deps', p) <=> Two(Mentions(p, TRUE)')
    BY DEF Pruned, Counted, In, Twice, Two
  <2> QED BY <1>1 DEF Pruned
<1>4. StubsTold => StubsTold'
  BY <1>1 DEF StubsTold
<1>5. ASSUME NEW n, Gathered(n) PROVE Gathered(n)'
  <2> SUFFICES ASSUME NEW p \in Pkg
               PROVE  /\ Counted(direct_deps', p, Seen(p, FALSE, n)')
                      /\ Counted(dev_deps', p, Seen(p, TRUE, n)')
    BY DEF Gathered, Counted, In, Twice, Two
  <2> QED BY <1>2, <1>5 DEF Gathered
<1> QED
  BY <1>3, <1>4, <1>5

(* The dev list starts with utop if the utop tag says so.                  *)
LEMMA SpecialTagsGathers ==
    ASSUME TypeOK, Collected, SpecialTags, pc' = "tags"
    PROVE  Gathered(1)'
<1>1. project \in Project /\ UNCHANGED project
  BY DEF TypeOK, SpecialTags
<1>2. direct_deps' = <<>> /\ dev_deps' = IF Dev("utop") THEN <<"utop">> ELSE <<>>
  BY DEF SpecialTags, Collected, Dev, Fail
<1>3. \A p, dev : Seen(p, dev, 1) = IF p = "utop" /\ dev /\ Dev("utop") THEN {0} ELSE {}
  <2>1. project.deps \in Seq(DepsTags)
    BY <1>1, ProjectTypes
  <2>2. \A i \in DOMAIN project.deps : ~(i < 1)
    BY <2>1
  <2> QED BY <2>2 DEF Seen, Mentions
<1>4. \A p, dev : Seen(p, dev, 1)' = Seen(p, dev, 1)
  BY <1>1, SameMentions
<1>5. \A p : ~In(<<>>, p) /\ ~Twice(<<>>, p)
  BY DEF In, Twice
<1>6. \A p : (In(<<"utop">>, p) <=> p = "utop") /\ ~Twice(<<"utop">>, p)
  BY DEF In, Twice
<1>7. ~Two({}) /\ ~Two({0})
  BY DEF Two
<1>8. \A p : Counted(direct_deps, p, Seen(p, FALSE, 1))'
  BY <1>2, <1>3, <1>4, <1>5, <1>7 DEF Counted
<1>9. \A p : Counted(dev_deps, p, Seen(p, TRUE, 1))'
  BY <1>2, <1>3, <1>4, <1>5, <1>6, <1>7 DEF Counted
<1> QED
  BY <1>8, <1>9 DEF Gathered

(* A tag adds its packages to the list of its kind.                        *)
LEMMA DepsTagGathers ==
    ASSUME TypeOK, DepsTag, pc' = "tags", NEW n \in DOMAIN project.deps,
           Head(tags) = project.deps[n], Gathered(n)
    PROVE  Gathered(n + 1)'
<1> DEFINE cfg == project.deps[n]
<1>1. project \in Project /\ UNCHANGED project
  BY DEF TypeOK, DepsTag
<1>2. direct_deps \in Seq(Pkg) /\ dev_deps \in Seq(Pkg)
  BY DEF TypeOK
<1>3. /\ cfg.dev \in BOOLEAN /\ cfg.pkgs \in Seq(Pkg)
      /\ IsInjective(cfg.pkgs)
  <2>1. project.deps \in Seq(DepsTags) /\ IsDepsTag(cfg)
    BY <1>1, Assumptions
  <2>2. cfg \in DepsTags
    BY <2>1
  <2> QED BY <2>1, <2>2 DEF IsDepsTag, DepsTags
<1>4. /\ direct_deps' = IF cfg.dev THEN direct_deps ELSE direct_deps \o cfg.pkgs
      /\ dev_deps' = IF cfg.dev THEN dev_deps \o cfg.pkgs ELSE dev_deps
  BY DEF DepsTag, Fail
<1>5. \A p, dev : /\ n \notin Seen(p, dev, n)
                  /\ Seen(p, dev, n + 1)' =
                        IF cfg.dev = dev /\ Contains(cfg.pkgs, p)
                        THEN Seen(p, dev, n) \cup {n} ELSE Seen(p, dev, n)
  <2>1. \A p, dev : Seen(p, dev, n + 1)' = Seen(p, dev, n + 1)
    BY <1>1, SameMentions
  <2>2. \A p, dev : /\ n \notin Seen(p, dev, n)
                    /\ Seen(p, dev, n + 1) =
                          IF cfg.dev = dev /\ Contains(cfg.pkgs, p)
                          THEN Seen(p, dev, n) \cup {n} ELSE Seen(p, dev, n)
    BY <1>1, SeenNext
  <2> QED BY <2>1, <2>2
<1> HIDE DEF cfg
<1>6. ASSUME NEW p \in Pkg
      PROVE  /\ Counted(direct_deps, p, Seen(p, FALSE, n + 1))'
             /\ Counted(dev_deps, p, Seen(p, TRUE, n + 1))'
  <2>1. /\ Counted(direct_deps, p, Seen(p, FALSE, n))
        /\ Counted(dev_deps, p, Seen(p, TRUE, n))
    BY DEF Gathered
  <2>2. /\ Counted(direct_deps \o cfg.pkgs, p,
                   IF Contains(cfg.pkgs, p) THEN Seen(p, FALSE, n) \cup {n}
                   ELSE Seen(p, FALSE, n))
        /\ Counted(dev_deps \o cfg.pkgs, p,
                   IF Contains(cfg.pkgs, p) THEN Seen(p, TRUE, n) \cup {n}
                   ELSE Seen(p, TRUE, n))
    BY <1>2, <1>3, <1>5, <2>1, CountedConcat
  <2>3. CASE cfg.dev
    <3>1. /\ Seen(p, FALSE, n + 1)' = Seen(p, FALSE, n)
          /\ Seen(p, TRUE, n + 1)' = IF Contains(cfg.pkgs, p)
                THEN Seen(p, TRUE, n) \cup {n} ELSE Seen(p, TRUE, n)
          /\ direct_deps' = direct_deps /\ dev_deps' = dev_deps \o cfg.pkgs
      BY <1>3, <1>4, <1>5, <2>3
    <3> QED BY <2>1, <2>2, <3>1 DEF Counted
  <2>4. CASE ~cfg.dev
    <3>1. /\ Seen(p, TRUE, n + 1)' = Seen(p, TRUE, n)
          /\ Seen(p, FALSE, n + 1)' = IF Contains(cfg.pkgs, p)
                THEN Seen(p, FALSE, n) \cup {n} ELSE Seen(p, FALSE, n)
          /\ direct_deps' = direct_deps \o cfg.pkgs /\ dev_deps' = dev_deps
      BY <1>3, <1>4, <1>5, <2>4
    <3> QED BY <2>1, <2>2, <3>1 DEF Counted
  <2> QED BY <2>3, <2>4
<1> QED
  BY <1>6 DEF Gathered

LEMMA CheckDirectTells ==
    ASSUME TypeOK, CheckDirect, pc' = "prune", Gathered(Len(project.deps) + 1)
    PROVE  Pruned' /\ StubsTold'
<1>1. project \in Project /\ UNCHANGED <<project, direct_deps, dev_deps>>
      /\ sdk' = OBAZL_PKGS /\ "stublibs" \in Pkg
      /\ direct_deps \in Seq(Pkg) /\ dev_deps \in Seq(Pkg)
  BY PkgNames DEF TypeOK, CheckDirect, Fail
<1>2. \A p, dev : Mentions(p, dev)' = Mentions(p, dev)
  BY <1>1, SameMentions
<1>3. \A p, dev : Seen(p, dev, Len(project.deps) + 1) = Mentions(p, dev)
  BY <1>1, MentionsRange
<1>4. \A p \in Pkg : /\ Counted(direct_deps, p, Mentions(p, FALSE))
                     /\ Counted(dev_deps, p, Mentions(p, TRUE))
  BY <1>3 DEF Gathered
<1>5. Pruned'
  <2> SUFFICES /\ \A p \in Pkg \ (OBAZL_PKGS \ sdk') :
                     /\ Counted(direct_deps', p, Mentions(p, FALSE)')
                     /\ Counted(dev_deps', p, Mentions(p, TRUE)')
               /\ OBAZL_PKGS \ sdk' = {}
    BY DEF Pruned, Counted, In, Twice, Two
  <2> QED BY <1>1, <1>2, <1>4
<1>6. /\ Contains(direct_deps, "stublibs") <=> Mentions("stublibs", FALSE) # {}
      /\ Contains(dev_deps, "stublibs") <=> Mentions("stublibs", TRUE) # {}
  <2>1. \A s \in Seq(Pkg) : Contains(s, "stublibs") <=> In(s, "stublibs")
    BY DEF Contains, In
  <2> QED BY <1>1, <1>4, <2>1 DEF Counted
<1>7. stublibs' = IF Contains(direct_deps, "stublibs") THEN "direct"
                  ELSE IF Contains(dev_deps, "stublibs") THEN "dev" ELSE "no"
  BY DEF CheckDirect, Fail
<1>8. StubsTold'
  BY <1>2, <1>6, <1>7 DEF StubsTold
<1> QED
  BY <1>5, <1>8

LEMMA PruneRound ==
    ASSUME TypeOK, Pruned, NEW p \in sdk,
           direct_deps' = list_remove(direct_deps, p),
           dev_deps' = list_remove(dev_deps, p),
           sdk' = sdk \ {p}, UNCHANGED <<project, stublibs>>
    PROVE  Pruned'
<1>1. direct_deps \in Seq(Pkg) /\ dev_deps \in Seq(Pkg) /\ sdk \subseteq OBAZL_PKGS
      /\ OBAZL_PKGS \subseteq Pkg
  BY Assumptions DEF TypeOK
<1>2. \A q, dev : Mentions(q, dev)' = Mentions(q, dev)
  BY SameMentions
<1>3. /\ \A q : q # p => /\ In(direct_deps', q) <=> In(direct_deps, q)
                         /\ Twice(direct_deps', q) <=> Twice(direct_deps, q)
      /\ In(direct_deps', p) <=> Twice(direct_deps, p)
  BY <1>1, Removed
<1>4. /\ \A q : q # p => /\ In(dev_deps', q) <=> In(dev_deps, q)
                         /\ Twice(dev_deps', q) <=> Twice(dev_deps, q)
      /\ In(dev_deps', p) <=> Twice(dev_deps, p)
  BY <1>1, Removed
<1>5. /\ Twice(direct_deps, p) <=> Two(Mentions(p, FALSE))
      /\ Twice(dev_deps, p) <=> Two(Mentions(p, TRUE))
  BY <1>1 DEF Pruned, Counted
<1>6. ASSUME NEW q \in Pkg \ (OBAZL_PKGS \ sdk')
      PROVE  /\ Counted(direct_deps', q, Mentions(q, FALSE)')
             /\ Counted(dev_deps', q, Mentions(q, TRUE)')
  <2>1. q # p /\ q \in Pkg \ (OBAZL_PKGS \ sdk)
    BY <1>1
  <2>2. /\ Counted(direct_deps, q, Mentions(q, FALSE))
        /\ Counted(dev_deps, q, Mentions(q, TRUE))
    BY <2>1 DEF Pruned
  <2> QED BY <1>2, <1>3, <1>4, <2>1, <2>2 DEF Counted
<1>7. ASSUME NEW q \in OBAZL_PKGS \ sdk'
      PROVE  /\ In(direct_deps', q) <=> Two(Mentions(q, FALSE)')
             /\ In(dev_deps', q) <=> Two(Mentions(q, TRUE)')
  <2>1. CASE q = p
    BY <1>2, <1>3, <1>4, <1>5, <2>1
  <2>2. CASE q # p
    <3>1. q \in OBAZL_PKGS \ sdk
      BY <2>2
    <3>2. /\ In(direct_deps, q) <=> Two(Mentions(q, FALSE))
          /\ In(dev_deps, q) <=> Two(Mentions(q, TRUE))
      BY <3>1 DEF Pruned
    <3> QED BY <1>2, <1>3, <1>4, <2>2, <3>2
  <2> QED BY <2>1, <2>2
<1> QED
  BY <1>6, <1>7 DEF Pruned, Counted, In, Twice, Two

LEMMA CollectedPreserved ==
    ASSUME TypeOK, Collected, [Next]_vars
    PROVE  Collected'
<1> USE DEF Go, Fail
<1>1. CASE UNCHANGED vars
  <2>1. /\ UNCHANGED <<project, direct_deps, dev_deps, stublibs, sdk>>
        /\ UNCHANGED <<pc, tags>>
    BY <1>1 DEF vars, lists
  <2>2. /\ Pruned => Pruned'
        /\ StubsTold => StubsTold'
        /\ \A n : Gathered(n) => Gathered(n)'
    BY <2>1, SameLists
  <2> QED BY <2>1, <2>2 DEF Collected, Later
<1>2. ASSUME NEW p \in Project, Start(p) PROVE Collected'
  BY <1>2 DEF Start, Collected, Later
<1>3. CASE SpecialTags
  <2>1. pc' \in {"tags", "failed"} /\ tags' = project.deps /\ project' = project
    BY <1>3 DEF SpecialTags, Collected
  <2>2. pc' = "tags" => Gathered(1)'
    BY <1>3, SpecialTagsGathers
  <2>3. 1 \in 1..(Len(project.deps) + 1)
        /\ project.deps = SubSeq(project.deps, 1, Len(project.deps))
    <3>1. project.deps \in Seq(DepsTags)
      BY ProjectTypes DEF TypeOK
    <3> QED BY <3>1
  <2> QED BY <2>1, <2>2, <2>3 DEF Collected, Later
<1>4. CASE DepsTag
  <2> DEFINE d == project.deps
  <2>1. d \in Seq(DepsTags)
    BY ProjectTypes DEF TypeOK
  <2>2. PICK n \in 1..(Len(d) + 1) : tags = SubSeq(d, n, Len(d)) /\ Gathered(n)
    BY <1>4 DEF DepsTag, Collected
  <2>3. n \in DOMAIN d /\ Head(tags) = d[n] /\ Tail(tags) = SubSeq(d, n + 1, Len(d))
    BY <1>4, <2>1, <2>2, Suffix DEF DepsTag
  <2>4. pc' = "tags" => Gathered(n + 1)'
    BY <1>4, <2>2, <2>3, DepsTagGathers
  <2>5. pc' \in {"tags", "failed"} /\ tags' = Tail(tags) /\ project' = project
    BY <1>4 DEF DepsTag
  <2>6. n + 1 \in 1..(Len(d) + 1)
    BY <2>1, <2>3
  <2> QED BY <2>3, <2>4, <2>5, <2>6 DEF Collected, Later
<1>5. CASE BuildConfigTool
  <2> DEFINE d == project.deps
  <2>1. d \in Seq(DepsTags)
    BY ProjectTypes DEF TypeOK
  <2>2. PICK n \in 1..(Len(d) + 1) : tags = SubSeq(d, n, Len(d)) /\ Gathered(n)
    BY <1>5 DEF BuildConfigTool, Collected
  <2>3. n = Len(d) + 1
    <3>1. SubSeq(d, n, Len(d)) = <<>>
      BY <1>5, <2>2 DEF BuildConfigTool
    <3>2. n <= Len(d) => Len(SubSeq(d, n, Len(d))) = Len(d) - n + 1
      BY <2>1
    <3>3. Len(d) \in Nat /\ Len(<<>>) = 0
      BY <2>1
    <3> QED BY <3>1, <3>2, <3>3
  <2>4. UNCHANGED <<project, direct_deps, dev_deps, stublibs, sdk>>
        /\ pc' \in {"check", "failed"}
    BY <1>5 DEF BuildConfigTool
  <2>5. Gathered(Len(d) + 1)'
    <3>1. Gathered(n)'
      BY <2>2, <2>4, SameLists
    <3> QED BY <2>3, <2>4, <3>1
  <2> QED BY <2>4, <2>5 DEF Collected, Later
<1>6. CASE CheckDirect
  <2>1. Gathered(Len(project.deps) + 1) /\ pc' \in {"prune", "failed"}
    BY <1>6 DEF CheckDirect, Collected
  <2>2. pc' = "prune" => Pruned' /\ StubsTold'
    BY <1>6, <2>1, CheckDirectTells
  <2> QED BY <2>1, <2>2 DEF Collected, Later
<1>7. CASE Prune
  <2>1. Pruned /\ StubsTold /\ UNCHANGED <<project, stublibs>>
    BY <1>7 DEF Prune, Collected
  <2>2. StubsTold'
    BY <2>1, SameMentions DEF StubsTold
  <2>3. ASSUME NEW p \in sdk,
               direct_deps' = list_remove(direct_deps, p),
               dev_deps' = list_remove(dev_deps, p),
               sdk' = sdk \ {p}, UNCHANGED pc
        PROVE  Collected'
    <3>1. Pruned'
      BY <2>1, <2>3, PruneRound
    <3>2. pc' = "prune"
      BY <1>7, <2>3 DEF Prune
    <3> QED BY <2>2, <3>1, <3>2 DEF Collected, Later
  <2>4. CASE sdk = {} /\ pc' = "switch" /\ UNCHANGED <<direct_deps, dev_deps, sdk>>
    <3>1. Pruned'
      BY <2>1, <2>4, SameLists
    <3> QED BY <2>2, <2>4, <3>1 DEF Collected, Later
  <2> QED BY <1>7, <2>3, <2>4 DEF Prune
<1>8. ASSUME pc \in Later, pc' \in Later \cup {"failed"},
             UNCHANGED <<project, direct_deps, dev_deps, stublibs, sdk>>
      PROVE  Collected'
  <2>1. Pruned /\ StubsTold /\ sdk = {}
    BY <1>8 DEF Collected
  <2>2. Pruned' /\ StubsTold' /\ sdk' = {}
    BY <1>8, <2>1, SameLists
  <2>3. pc' \notin {"special", "tags", "check"}
    BY <1>8 DEF Later
  <2> QED BY <2>2, <2>3 DEF Collected
<1>9. CASE ConfigToolchain
  <2>1. pc = "switch" /\ pc' \in {"pkgs", "failed"}
    BY <1>9
       DEF ConfigToolchain, config_local_toolchain, config_global_toolchain,
           config_opam_toolchain, config_xdg_toolchain, unrecognized_toolchain,
           Found, Create, Killed
  <2>2. UNCHANGED <<project, direct_deps, dev_deps, stublibs, sdk>>
    BY <1>9 DEF ConfigToolchain
  <2> QED BY <1>8, <2>1, <2>2 DEF Later
<1>10. CASE CheckPkg \/ opam_install_pkg \/ ListDeps
  BY <1>8, <1>10 DEF CheckPkg, opam_install_pkg, ListDeps, lists, Later
<1>11. CASE Register \/ Metadata \/ CommandFails
  <2>1. pc' \in {"metadata", "done", "rejected", "failed"}
    BY <1>11 DEF Register, Metadata, CommandFails
  <2> QED BY <1>8, <1>11, <2>1 DEF Register, Metadata, CommandFails, lists, Later
<1> QED
  BY <1>1, <1>2, <1>3, <1>4, <1>5, <1>6, <1>7, <1>9, <1>10, <1>11
     DEF Next, _opam_ext_impl

LEMMA DeclaredPreserved ==
    ASSUME TypeOK, Declared, [Next]_vars
    PROVE  Declared'
<1> USE DEF Go, Fail
<1> DEFINE All == {Repo("ocamlsdk"), Repo("stublibs")}
                  \cup {Tool(t) : t \in {t \in Special \ {"utop"} : Dev(t)}}
                  \cup {Repo(p) : p \in deps \ OBAZL_PKGS}
<1>1. CASE UNCHANGED vars
  <2>1. UNCHANGED <<switches, project, pc, direct_deps, dev_deps, stublibs,
                    switch, deps, repos>>
    BY <1>1 DEF vars, lists, result
  <2>2. Lib(switch)' = Lib(switch) /\ All' = All
    BY <2>1 DEF Lib, Dev
  <2>3. Accepted(RootModuleDeps)' <=> Accepted(RootModuleDeps)
    BY <2>1 DEF Accepted, RootModuleDeps, RepoSeq, Dev
  <2> QED BY <2>1, <2>2, <2>3 DEF Declared
<1>2. CASE ListDeps
  <2>1. pc' = "register" /\ deps' = Lib(switch)'
    BY <1>2 DEF ListDeps, Lib
  <2> QED BY <2>1 DEF Declared
<1>3. CASE Register
  <2>1. UNCHANGED <<switches, project, switch, deps>> /\ deps = Lib(switch)
    BY <1>3 DEF Register, Declared
  <2>2. deps' = Lib(switch)' /\ All' = All
    BY <2>1 DEF Lib, Dev
  <2>3. pc' = "failed" \/ (pc' = "metadata" /\ repos' = All)
    BY <1>3 DEF Register
  <2> QED BY <2>2, <2>3 DEF Declared
<1>4. CASE Metadata
  <2>1. /\ UNCHANGED <<switches, project, direct_deps, dev_deps, stublibs,
                       switch, deps, repos>>
        /\ pc = "metadata"
        /\ pc' = IF Accepted(RootModuleDeps) THEN "done" ELSE "rejected"
    BY <1>4 DEF Metadata, lists
  <2>2. Lib(switch)' = Lib(switch) /\ All' = All
    BY <2>1 DEF Lib, Dev
  <2>3. Accepted(RootModuleDeps)' <=> Accepted(RootModuleDeps)
    BY <2>1 DEF Accepted, RootModuleDeps, RepoSeq, Dev
  <2> QED BY <2>1, <2>2, <2>3 DEF Declared
<1>5. ASSUME pc' \notin {"register", "metadata", "done", "rejected"}
      PROVE  Declared'
  BY <1>5 DEF Declared
<1>6. CASE ConfigToolchain
  <2>1. pc' \in {"pkgs", "failed"}
    BY <1>6
       DEF ConfigToolchain, config_local_toolchain, config_global_toolchain,
           config_opam_toolchain, config_xdg_toolchain, unrecognized_toolchain,
           Found, Create, Killed
  <2> QED BY <1>5, <2>1
<1>7. CASE CheckPkg \/ opam_install_pkg
  <2>1. pc' \in {"pkgs", "install", "list", "failed"}
    BY <1>7 DEF CheckPkg, opam_install_pkg
  <2> QED BY <1>5, <2>1
<1>8. CASE SpecialTags \/ DepsTag \/ BuildConfigTool \/ CheckDirect \/ Prune
           \/ CommandFails
  <2>1. pc' \in {"tags", "check", "prune", "switch", "failed"}
    BY <1>8 DEF SpecialTags, DepsTag, BuildConfigTool, CheckDirect, Prune, CommandFails
  <2> QED BY <1>5, <2>1
<1>9. ASSUME NEW p \in Project, Start(p) PROVE Declared'
  <2>1. pc' = "special"
    BY <1>9 DEF Start
  <2> QED BY <1>5, <2>1
<1> QED
  BY <1>1, <1>2, <1>3, <1>4, <1>6, <1>7, <1>8, <1>9 DEF Next, _opam_ext_impl

(* The lists of repositories, in terms of the lists of packages.           *)
LEMMA InjectiveMeans ==
    ASSUME NEW s
    PROVE  /\ IsInjective(s) <=> \A x : ~Twice(s, x)
           /\ \A x : x \in ToSet(s) <=> In(s, x)
  BY DEF IsInjective, Twice, ToSet, In

LEMMA RepoSeqMeans ==
    ASSUME NEW s \in Seq(Pkg)
    PROVE  /\ RepoSeq(s) \in Seq(Repos)
           /\ \A p : In(RepoSeq(s), Repo(p)) <=> In(s, p)
           /\ \A p : Twice(RepoSeq(s), Repo(p)) <=> Twice(s, p)
           /\ \A t : ~In(RepoSeq(s), Tool(t))
<1>1. DOMAIN RepoSeq(s) = DOMAIN s /\ \A i \in DOMAIN s : RepoSeq(s)[i] = Repo(s[i])
  BY DEF RepoSeq
<1>2. \A p, q : Repo(p) = Repo(q) <=> p = q
  BY DEF Repo
<1>3. \A p, t : Repo(p) # Tool(t)
  BY DEF Repo, Tool
<1>4. RepoSeq(s) \in Seq(Repos)
  BY DEF RepoSeq, Repos
<1> QED
  BY <1>1, <1>2, <1>3, <1>4 DEF In, Twice

(* What precedes the dev packages: stublibs and the tools.                 *)
ToolsFirst == If(stublibs = "dev", Repo("stublibs")) \o If(Dev("dbg"), Tool("dbg"))
              \o If(Dev("ocaml"), Tool("ocaml")) \o If(Dev("opam"), Tool("opam"))

LEMMA ToolsFirstMeans ==
    /\ ToolsFirst \in Seq(Repos)
    /\ \A r : In(ToolsFirst, r) <=>
                 \/ stublibs = "dev" /\ r = Repo("stublibs")
                 \/ \E t \in {"dbg", "ocaml", "opam"} : Dev(t) /\ r = Tool(t)
    /\ \A r : ~Twice(ToolsFirst, r)
<1> DEFINE a == If(stublibs = "dev", Repo("stublibs"))
           b == If(Dev("dbg"), Tool("dbg"))
           c == If(Dev("ocaml"), Tool("ocaml"))
           d == If(Dev("opam"), Tool("opam"))
<1>1. \A r \in Repos : /\ <<r>> \in Seq(Repos) /\ <<>> \in Seq(Repos)
                       /\ \A x : (In(<<r>>, x) <=> x = r) /\ ~In(<<>>, x)
                       /\ \A x : ~Twice(<<r>>, x) /\ ~Twice(<<>>, x)
  BY DEF In, Twice
<1>2. /\ Repo("stublibs") \in Repos
      /\ \A t \in {"dbg", "ocaml", "opam"} : Tool(t) \in Repos
  BY PkgNames DEF Repos, Special
<1>3. /\ a \in Seq(Repos) /\ b \in Seq(Repos) /\ c \in Seq(Repos) /\ d \in Seq(Repos)
      /\ \A r : /\ In(a, r) <=> stublibs = "dev" /\ r = Repo("stublibs")
                /\ In(b, r) <=> Dev("dbg") /\ r = Tool("dbg")
                /\ In(c, r) <=> Dev("ocaml") /\ r = Tool("ocaml")
                /\ In(d, r) <=> Dev("opam") /\ r = Tool("opam")
      /\ \A r : ~Twice(a, r) /\ ~Twice(b, r) /\ ~Twice(c, r) /\ ~Twice(d, r)
  <2>1. /\ a = IF stublibs = "dev" THEN <<Repo("stublibs")>> ELSE <<>>
        /\ b = IF Dev("dbg") THEN <<Tool("dbg")>> ELSE <<>>
        /\ c = IF Dev("ocaml") THEN <<Tool("ocaml")>> ELSE <<>>
        /\ d = IF Dev("opam") THEN <<Tool("opam")>> ELSE <<>>
    BY Zenon DEF If
  <2> HIDE DEF a, b, c, d
  <2> QED BY <1>1, <1>2, <2>1
<1> HIDE DEF a, b, c, d
<1>4. /\ Tool("dbg") # Tool("ocaml") /\ Tool("dbg") # Tool("opam")
      /\ Tool("ocaml") # Tool("opam")
      /\ \A t \in {"dbg", "ocaml", "opam"} : Tool(t) # Repo("stublibs")
  BY DEF Tool, Repo
<1>5. /\ a \o b \in Seq(Repos)
      /\ \A r : In(a \o b, r) <=> In(a, r) \/ In(b, r)
      /\ \A r : ~Twice(a \o b, r)
  <2>1. a \o b \in Seq(Repos)
    BY <1>3
  <2>2. \A r : In(a \o b, r) <=> In(a, r) \/ In(b, r)
    BY <1>3, InConcat
  <2>3. \A r : Twice(a \o b, r) <=> Twice(a, r) \/ Twice(b, r) \/ (In(a, r) /\ In(b, r))
    BY <1>3, TwiceConcat
  <2> QED BY <1>3, <1>4, <2>1, <2>2, <2>3
<1>6. /\ a \o b \o c \in Seq(Repos)
      /\ \A r : In(a \o b \o c, r) <=> In(a, r) \/ In(b, r) \/ In(c, r)
      /\ \A r : ~Twice(a \o b \o c, r)
  <2> DEFINE ab == a \o b
  <2> HIDE DEF ab
  <2>0. /\ ab \in Seq(Repos) /\ \A r : In(ab, r) <=> In(a, r) \/ In(b, r)
        /\ \A r : ~Twice(ab, r)
    BY <1>5 DEF ab
  <2>1. ab \o c \in Seq(Repos)
    BY <1>3, <2>0
  <2>2. \A r : In(ab \o c, r) <=> In(ab, r) \/ In(c, r)
    BY <1>3, <2>0, InConcat
  <2>3. \A r : Twice(ab \o c, r) <=> Twice(ab, r) \/ Twice(c, r) \/ (In(ab, r) /\ In(c, r))
    BY <1>3, <2>0, TwiceConcat
  <2>4. /\ ab \o c \in Seq(Repos)
        /\ \A r : In(ab \o c, r) <=> In(a, r) \/ In(b, r) \/ In(c, r)
        /\ \A r : ~Twice(ab \o c, r)
    BY <1>3, <1>4, <2>0, <2>1, <2>2, <2>3
  <2> QED BY <2>4 DEF ab
<1>7. /\ a \o b \o c \o d \in Seq(Repos)
      /\ \A r : In(a \o b \o c \o d, r) <=> In(a, r) \/ In(b, r) \/ In(c, r) \/ In(d, r)
      /\ \A r : ~Twice(a \o b \o c \o d, r)
  <2> DEFINE ab == a \o b \o c
  <2> HIDE DEF ab
  <2>0. /\ ab \in Seq(Repos) /\ \A r : In(ab, r) <=> In(a, r) \/ In(b, r) \/ In(c, r)
        /\ \A r : ~Twice(ab, r)
    BY <1>6 DEF ab
  <2>1. ab \o d \in Seq(Repos)
    BY <1>3, <2>0
  <2>2. \A r : In(ab \o d, r) <=> In(ab, r) \/ In(d, r)
    BY <1>3, <2>0, InConcat
  <2>3. \A r : Twice(ab \o d, r) <=> Twice(ab, r) \/ Twice(d, r) \/ (In(ab, r) /\ In(d, r))
    BY <1>3, <2>0, TwiceConcat
  <2>4. /\ ab \o d \in Seq(Repos)
        /\ \A r : In(ab \o d, r) <=> In(a, r) \/ In(b, r) \/ In(c, r) \/ In(d, r)
        /\ \A r : ~Twice(ab \o d, r)
    BY <1>3, <1>4, <2>0, <2>1, <2>2, <2>3
  <2> QED BY <2>4 DEF ab
<1>8. ToolsFirst = a \o b \o c \o d
  BY DEF ToolsFirst, a, b, c, d
<1> QED
  BY <1>3, <1>7, <1>8

(* What Bazel's rules come to: no package is listed twice, in one list or  *)
(* in both, and all have repositories; some dependency is not a dev one.   *)
Clean ==
    /\ project.nondev
    /\ \A p \in Pkg :
          /\ ~Twice(direct_deps, p) /\ ~Twice(dev_deps, p)
          /\ ~(In(direct_deps, p) /\ In(dev_deps, p))
          /\ In(direct_deps, p) \/ In(dev_deps, p) =>
                p # "ocamlsdk" /\ p \in {"stublibs"} \cup (deps \ OBAZL_PKGS)
    /\ stublibs = "dev" =>
          ~In(direct_deps, "stublibs") /\ ~In(dev_deps, "stublibs")

LEMMA AcceptedClean ==
    ASSUME TypeOK, Declared, pc \in {"metadata", "done", "rejected"}
    PROVE  Accepted(RootModuleDeps) <=> Clean
<1> DEFINE direct == RootModuleDeps.direct
           dev == RootModuleDeps.dev
           Named == Pkg \cup {"ocamlsdk"}
           Tools == {"dbg", "ocaml", "opam"}
<1>1. direct_deps \in Seq(Pkg) /\ dev_deps \in Seq(Pkg) /\ "stublibs" \in Pkg
  BY PkgNames DEF TypeOK
<1>2. /\ direct = <<Repo("ocamlsdk")>> \o RepoSeq(direct_deps)
      /\ dev = ToolsFirst \o RepoSeq(dev_deps)
  BY DEF RootModuleDeps, ToolsFirst
<1>3. /\ <<Repo("ocamlsdk")>> \in Seq(Repos) /\ ToolsFirst \in Seq(Repos)
      /\ RepoSeq(direct_deps) \in Seq(Repos) /\ RepoSeq(dev_deps) \in Seq(Repos)
  <2>1. Repo("ocamlsdk") \in Repos
    BY DEF Repos
  <2> QED BY <1>1, <2>1, ToolsFirstMeans, RepoSeqMeans
<1>4. /\ \A p, q : Repo(p) = Repo(q) <=> p = q
      /\ \A p, t : Repo(p) # Tool(t)
      /\ \A t, u : Tool(t) = Tool(u) <=> t = u
  BY DEF Repo, Tool
<1>5. /\ \A r : In(<<Repo("ocamlsdk")>>, r) <=> r = Repo("ocamlsdk")
      /\ \A r : ~Twice(<<Repo("ocamlsdk")>>, r)
  BY DEF In, Twice
<1>6. /\ \A r : In(direct, r) <=> In(<<Repo("ocamlsdk")>>, r) \/ In(RepoSeq(direct_deps), r)
      /\ \A r : In(dev, r) <=> In(ToolsFirst, r) \/ In(RepoSeq(dev_deps), r)
  <2> HIDE DEF direct, dev
  <2>1. \A r : In(<<Repo("ocamlsdk")>> \o RepoSeq(direct_deps), r)
                 <=> In(<<Repo("ocamlsdk")>>, r) \/ In(RepoSeq(direct_deps), r)
    BY <1>3, InConcat
  <2>2. \A r : In(ToolsFirst \o RepoSeq(dev_deps), r)
                 <=> In(ToolsFirst, r) \/ In(RepoSeq(dev_deps), r)
    BY <1>3, InConcat
  <2> QED BY <1>2, <2>1, <2>2
<1>7. /\ \A r : Twice(direct, r) <=>
                   \/ Twice(<<Repo("ocamlsdk")>>, r) \/ Twice(RepoSeq(direct_deps), r)
                   \/ In(<<Repo("ocamlsdk")>>, r) /\ In(RepoSeq(direct_deps), r)
      /\ \A r : Twice(dev, r) <=>
                   \/ Twice(ToolsFirst, r) \/ Twice(RepoSeq(dev_deps), r)
                   \/ In(ToolsFirst, r) /\ In(RepoSeq(dev_deps), r)
  <2> HIDE DEF direct, dev
  <2>1. \A r : Twice(<<Repo("ocamlsdk")>> \o RepoSeq(direct_deps), r) <=>
                   \/ Twice(<<Repo("ocamlsdk")>>, r) \/ Twice(RepoSeq(direct_deps), r)
                   \/ In(<<Repo("ocamlsdk")>>, r) /\ In(RepoSeq(direct_deps), r)
    BY <1>3, TwiceConcat
  <2>2. \A r : Twice(ToolsFirst \o RepoSeq(dev_deps), r) <=>
                   \/ Twice(ToolsFirst, r) \/ Twice(RepoSeq(dev_deps), r)
                   \/ In(ToolsFirst, r) /\ In(RepoSeq(dev_deps), r)
    BY <1>3, TwiceConcat
  <2> QED BY <1>2, <2>1, <2>2
<1>8. /\ \A p : In(RepoSeq(direct_deps), Repo(p)) <=> In(direct_deps, p)
      /\ \A p : Twice(RepoSeq(direct_deps), Repo(p)) <=> Twice(direct_deps, p)
      /\ \A t : ~In(RepoSeq(direct_deps), Tool(t))
      /\ \A p : In(RepoSeq(dev_deps), Repo(p)) <=> In(dev_deps, p)
      /\ \A p : Twice(RepoSeq(dev_deps), Repo(p)) <=> Twice(dev_deps, p)
      /\ \A t : ~In(RepoSeq(dev_deps), Tool(t))
  BY <1>1, RepoSeqMeans
<1>9. /\ \A p : In(ToolsFirst, Repo(p)) <=> stublibs = "dev" /\ p = "stublibs"
      /\ \A t : In(ToolsFirst, Tool(t)) <=> t \in Tools /\ Dev(t)
      /\ \A r : ~Twice(ToolsFirst, r)
  BY <1>4, ToolsFirstMeans
<1>10. \A p : /\ In(direct, Repo(p)) <=> p = "ocamlsdk" \/ In(direct_deps, p)
              /\ Twice(direct, Repo(p)) <=>
                    Twice(direct_deps, p) \/ (p = "ocamlsdk" /\ In(direct_deps, p))
              /\ In(dev, Repo(p)) <=>
                    (stublibs = "dev" /\ p = "stublibs") \/ In(dev_deps, p)
              /\ Twice(dev, Repo(p)) <=>
                    Twice(dev_deps, p)
                    \/ (stublibs = "dev" /\ p = "stublibs" /\ In(dev_deps, p))
  BY <1>4, <1>5, <1>6, <1>7, <1>8, <1>9
<1>11. \A t : /\ ~In(direct, Tool(t)) /\ ~Twice(direct, Tool(t)) /\ ~Twice(dev, Tool(t))
              /\ In(dev, Tool(t)) <=> t \in Tools /\ Dev(t)
  <2>1. \A s, r : Twice(s, r) => In(s, r)
    BY DEF Twice, In
  <2> QED BY <1>4, <1>5, <1>6, <1>7, <1>8, <1>9, <2>1
<1>12. /\ \A p \in Named : Repo(p) \in repos <=>
                              p \in {"ocamlsdk", "stublibs"} \cup (deps \ OBAZL_PKGS)
       /\ \A t \in Tools : Dev(t) => Tool(t) \in repos
  <2>1. repos = {Repo("ocamlsdk"), Repo("stublibs")}
                \cup {Tool(t) : t \in {t \in Special \ {"utop"} : Dev(t)}}
                \cup {Repo(p) : p \in deps \ OBAZL_PKGS}
    BY DEF Declared
  <2>2. Tools = Special \ {"utop"}
    BY DEF Special
  <2> QED BY <1>4, <2>1, <2>2
<1>13. /\ direct \in Seq(Repos) /\ dev \in Seq(Repos) /\ direct # <<>>
  <2>1. direct \in Seq(Repos) /\ dev \in Seq(Repos)
    BY <1>2, <1>3
  <2>2. In(direct, Repo("ocamlsdk")) /\ ~In(<<>>, Repo("ocamlsdk"))
    BY <1>5, <1>6 DEF In
  <2> QED BY <2>1, <2>2
<1>14. \A r : In(direct, r) \/ In(dev, r) =>
                 (\E p \in Named : r = Repo(p)) \/ (\E t \in Tools : r = Tool(t))
  <2>1. ASSUME NEW r, In(direct, r) \/ In(dev, r) PROVE r \in Repos
    BY <1>13, <2>1 DEF In
  <2>2. \A r \in Repos :
           (\E p \in Named : r = Repo(p)) \/ (\E t \in Tools : r = Tool(t))
    BY DEF Repos, Special
  <2> QED BY <2>1, <2>2
<1>15. Accepted(RootModuleDeps) <=>
          /\ \A r : ~Twice(direct, r) /\ ~Twice(dev, r)
          /\ \A r : ~(In(direct, r) /\ In(dev, r))
          /\ \A r : In(direct, r) \/ In(dev, r) => r \in repos
          /\ project.nondev
  <2>1. /\ IsInjective(direct) <=> \A r : ~Twice(direct, r)
        /\ IsInjective(dev) <=> \A r : ~Twice(dev, r)
        /\ \A r : r \in ToSet(direct) <=> In(direct, r)
        /\ \A r : r \in ToSet(dev) <=> In(dev, r)
    BY InjectiveMeans
  <2>2. Accepted(RootModuleDeps) <=>
          /\ IsInjective(direct) /\ IsInjective(dev)
          /\ ToSet(direct) \cap ToSet(dev) = {}
          /\ ToSet(direct) \cup ToSet(dev) \subseteq repos
          /\ project.nondev
    BY <1>13 DEF Accepted
  <2> HIDE DEF direct, dev
  <2>3. /\ ToSet(direct) \cap ToSet(dev) = {} <=> \A r : ~(In(direct, r) /\ In(dev, r))
        /\ ToSet(direct) \cup ToSet(dev) \subseteq repos
             <=> \A r : In(direct, r) \/ In(dev, r) => r \in repos
    BY <2>1
  <2> QED BY <2>1, <2>2, <2>3
<1> HIDE DEF direct, dev, Named, Tools
<1>16. \A s, r : Twice(s, r) => In(s, r)
  BY DEF Twice, In
<1>17. Accepted(RootModuleDeps) <=>
          /\ \A p \in Named :
                /\ ~Twice(direct, Repo(p)) /\ ~Twice(dev, Repo(p))
                /\ ~(In(direct, Repo(p)) /\ In(dev, Repo(p)))
                /\ In(direct, Repo(p)) \/ In(dev, Repo(p)) =>
                      p \in {"ocamlsdk", "stublibs"} \cup (deps \ OBAZL_PKGS)
          /\ project.nondev
  BY <1>11, <1>12, <1>14, <1>15, <1>16
<1>18. \A p : In(direct_deps, p) \/ In(dev_deps, p) => p \in Pkg
  BY <1>1 DEF In
<1>19. /\ \A p \in Named : p \in Pkg \/ p = "ocamlsdk"
       /\ \A p \in Pkg : p \in Named
       /\ "ocamlsdk" \in Named
  BY DEF Named
<1>20. ASSUME Accepted(RootModuleDeps) PROVE Clean
  <2>1. ASSUME NEW p \in Pkg
        PROVE  /\ ~Twice(direct_deps, p) /\ ~Twice(dev_deps, p)
               /\ ~(In(direct_deps, p) /\ In(dev_deps, p))
               /\ In(direct_deps, p) \/ In(dev_deps, p) =>
                    p # "ocamlsdk" /\ p \in {"stublibs"} \cup (deps \ OBAZL_PKGS)
    BY <1>10, <1>17, <1>19, <1>20
  <2>2. stublibs = "dev" => ~In(direct_deps, "stublibs") /\ ~In(dev_deps, "stublibs")
    BY <1>1, <1>10, <1>17, <1>19, <1>20
  <2> QED BY <1>17, <1>20, <2>1, <2>2 DEF Clean
<1>21. ASSUME Clean PROVE Accepted(RootModuleDeps)
  <2>1. project.nondev
    BY <1>21 DEF Clean
  <2>2. ASSUME NEW p \in Pkg, p # "ocamlsdk"
        PROVE  /\ ~Twice(direct, Repo(p)) /\ ~Twice(dev, Repo(p))
               /\ ~(In(direct, Repo(p)) /\ In(dev, Repo(p)))
               /\ In(direct, Repo(p)) \/ In(dev, Repo(p)) =>
                     p \in {"ocamlsdk", "stublibs"} \cup (deps \ OBAZL_PKGS)
    BY <1>10, <1>21, <2>2 DEF Clean
  <2>3. /\ ~In(direct_deps, "ocamlsdk") /\ ~In(dev_deps, "ocamlsdk")
        /\ ~Twice(direct_deps, "ocamlsdk") /\ ~Twice(dev_deps, "ocamlsdk")
    BY <1>16, <1>18, <1>21 DEF Clean
  <2>4. /\ ~Twice(direct, Repo("ocamlsdk")) /\ ~Twice(dev, Repo("ocamlsdk"))
        /\ ~In(dev, Repo("ocamlsdk"))
    BY <1>10, <2>3
  <2> QED BY <1>17, <1>19, <2>1, <2>2, <2>4
<1> QED
  BY <1>20, <1>21

(* A package that the root module names in two tags, or any modules do.    *)
LEMMA SeveralMeans ==
    ASSUME TypeOK, NEW p
    PROVE  /\ Several(RootMentions(p, FALSE), RootMentions(p, TRUE))
              \/ (/\ Several(Mentions(p, FALSE), Mentions(p, TRUE))
                  /\ Mentions(p, FALSE) # RootMentions(p, FALSE))
              <=> Several(Mentions(p, FALSE), Mentions(p, TRUE))
           /\ Several(Mentions(p, FALSE), Mentions(p, TRUE))
              <=> \/ Two(Mentions(p, TRUE)) \/ Two(Mentions(p, FALSE))
                  \/ Mentions(p, TRUE) # {} /\ Mentions(p, FALSE) # {}
<1> DEFINE f == Mentions(p, FALSE)
           d == Mentions(p, TRUE)
           rf == RootMentions(p, FALSE)
           rd == RootMentions(p, TRUE)
<1>1. IsFiniteSet(f) /\ IsFiniteSet(d)
  BY MentionsRange DEF TypeOK
<1>2. rf \subseteq f /\ rd \subseteq d
  BY DEF RootMentions
<1>3. d = rd
  <2>1. /\ project.deps \in Seq(DepsTags)
        /\ \A i \in DOMAIN project.deps : IsDepsTag(project.deps[i])
    BY Assumptions DEF TypeOK
  <2>2. ASSUME NEW i \in d, i # 0 PROVE project.deps[i].root
    <3>1. i \in DOMAIN project.deps /\ project.deps[i].dev
      BY <2>2 DEF Mentions
    <3> QED BY <2>1, <3>1 DEF IsDepsTag
  <2> QED BY <1>2, <2>2 DEF RootMentions
<1> HIDE DEF f, d, rf, rd
<1>4. IsFiniteSet(rf) /\ IsFiniteSet(rd)
  BY <1>1, <1>2, FS_Subset
<1>5. /\ Several(f, d) <=> Two(f) \/ Two(d) \/ (f # {} /\ d # {})
      /\ Several(rf, rd) <=> Two(rf) \/ Two(rd) \/ (rf # {} /\ rd # {})
  BY <1>1, <1>4, MoreThanOneOfBoth DEF Several
<1>6. Several(rf, rd) => Several(f, d)
  BY <1>2, <1>5 DEF Two
<1>7. Several(f, d) /\ f = rf => Several(rf, rd)
  BY <1>3
<1> QED
  BY <1>5, <1>6, <1>7 DEF f, d, rf, rd

LEMMA CleanMistaken ==
    ASSUME TypeOK, Collected, Declared, pc \in {"done", "rejected"}
    PROVE  Clean <=> ~(Mistaken \/ Misread)
<1> DEFINE Wrong == Mistaken \/ Misread
<1>1. Pruned /\ StubsTold /\ sdk = {} /\ deps = Lib(switch)
  BY DEF Collected, Declared, Later
<1>2. /\ \A p \in Pkg \ OBAZL_PKGS :
            /\ In(direct_deps, p) <=> Mentions(p, FALSE) # {}
            /\ Twice(direct_deps, p) <=> Two(Mentions(p, FALSE))
            /\ In(dev_deps, p) <=> Mentions(p, TRUE) # {}
            /\ Twice(dev_deps, p) <=> Two(Mentions(p, TRUE))
      /\ \A p \in OBAZL_PKGS : /\ In(direct_deps, p) <=> Two(Mentions(p, FALSE))
                               /\ In(dev_deps, p) <=> Two(Mentions(p, TRUE))
  BY <1>1 DEF Pruned, Counted
<1>3. /\ OBAZL_PKGS \subseteq Pkg /\ "stublibs" \in Pkg \ OBAZL_PKGS
      /\ "ocamlsdk" \notin Pkg \ NoDir
  BY Assumptions DEF Names
<1>4. /\ Lib(switch) \subseteq Pkg /\ "stublibs" \in Lib(switch)
      /\ "ocamlsdk" \notin Lib(switch)
  <2>1. switches[switch].have \subseteq Pkg
    BY DEF TypeOK
  <2> QED BY <1>3, <2>1 DEF Lib
<1>5. \A p, dev : Cardinality(Mentions(p, dev)) > 1 <=> Two(Mentions(p, dev))
  <2>1. \A p, dev : IsFiniteSet(Mentions(p, dev))
    BY MentionsRange DEF TypeOK
  <2> QED BY <2>1, MoreThanOne
<1>7. Wrong <=>
        \/ ~project.nondev
        \/ Mentions("stublibs", TRUE) # {}
        \/ \E p \in Pkg \ OBAZL_PKGS :
              \/ Two(Mentions(p, TRUE)) \/ Two(Mentions(p, FALSE))
              \/ Mentions(p, TRUE) # {} /\ Mentions(p, FALSE) # {}
              \/ /\ Mentions(p, TRUE) # {} \/ Mentions(p, FALSE) # {}
                 /\ p \notin Lib(switch)
        \/ \E p \in OBAZL_PKGS : Two(Mentions(p, TRUE)) \/ Two(Mentions(p, FALSE))
  <2>1. \A p : Mentions(p, TRUE) \cup Mentions(p, FALSE) # {}
                 <=> Mentions(p, TRUE) # {} \/ Mentions(p, FALSE) # {}
    OBVIOUS
  <2>2. \A p : (\E dev \in BOOLEAN : Cardinality(Mentions(p, dev)) > 1)
                 <=> Two(Mentions(p, TRUE)) \/ Two(Mentions(p, FALSE))
    BY <1>5
  <2>3. Wrong <=>
          \/ ~project.nondev
          \/ Mentions("stublibs", TRUE) # {}
          \/ \E p \in Pkg \ OBAZL_PKGS :
                \/ Several(RootMentions(p, FALSE), RootMentions(p, TRUE))
                \/ /\ Several(Mentions(p, FALSE), Mentions(p, TRUE))
                   /\ Mentions(p, FALSE) # RootMentions(p, FALSE)
                \/ /\ Mentions(p, TRUE) \cup Mentions(p, FALSE) # {}
                   /\ p \notin Lib(switch)
          \/ \E p \in OBAZL_PKGS : \E dev \in BOOLEAN : Cardinality(Mentions(p, dev)) > 1
    BY Zenon DEF Mistaken, Misread
  <2> HIDE DEF Wrong
  <2>4. \A p : \/ Several(RootMentions(p, FALSE), RootMentions(p, TRUE))
               \/ /\ Several(Mentions(p, FALSE), Mentions(p, TRUE))
                  /\ Mentions(p, FALSE) # RootMentions(p, FALSE)
               \/ /\ Mentions(p, TRUE) \cup Mentions(p, FALSE) # {}
                  /\ p \notin Lib(switch)
               <=> \/ Two(Mentions(p, TRUE)) \/ Two(Mentions(p, FALSE))
                   \/ Mentions(p, TRUE) # {} /\ Mentions(p, FALSE) # {}
                   \/ /\ Mentions(p, TRUE) # {} \/ Mentions(p, FALSE) # {}
                      /\ p \notin Lib(switch)
    <3> SUFFICES ASSUME NEW p
                 PROVE  \/ Several(RootMentions(p, FALSE), RootMentions(p, TRUE))
                        \/ /\ Several(Mentions(p, FALSE), Mentions(p, TRUE))
                           /\ Mentions(p, FALSE) # RootMentions(p, FALSE)
                        \/ /\ Mentions(p, TRUE) \cup Mentions(p, FALSE) # {}
                           /\ p \notin Lib(switch)
                        <=> \/ Two(Mentions(p, TRUE)) \/ Two(Mentions(p, FALSE))
                            \/ Mentions(p, TRUE) # {} /\ Mentions(p, FALSE) # {}
                            \/ /\ Mentions(p, TRUE) # {} \/ Mentions(p, FALSE) # {}
                               /\ p \notin Lib(switch)
      OBVIOUS
    <3>1. Mentions(p, TRUE) \cup Mentions(p, FALSE) # {}
            <=> Mentions(p, TRUE) # {} \/ Mentions(p, FALSE) # {}
      BY <2>1
    <3>2. \/ Several(RootMentions(p, FALSE), RootMentions(p, TRUE))
          \/ /\ Several(Mentions(p, FALSE), Mentions(p, TRUE))
             /\ Mentions(p, FALSE) # RootMentions(p, FALSE)
          <=> \/ Two(Mentions(p, TRUE)) \/ Two(Mentions(p, FALSE))
              \/ Mentions(p, TRUE) # {} /\ Mentions(p, FALSE) # {}
      BY SeveralMeans, Zenon
    <3> QED BY <3>1, <3>2, Zenon
  <2> QED BY <2>2, <2>3, <2>4, Zenon
<1> HIDE DEF Wrong
<1>8. Wrong <=>
        \/ ~project.nondev
        \/ In(dev_deps, "stublibs")
        \/ \E p \in Pkg \ OBAZL_PKGS :
              \/ Twice(dev_deps, p) \/ Twice(direct_deps, p)
              \/ In(dev_deps, p) /\ In(direct_deps, p)
              \/ (In(dev_deps, p) \/ In(direct_deps, p)) /\ p \notin Lib(switch)
        \/ \E p \in OBAZL_PKGS : In(dev_deps, p) \/ In(direct_deps, p)
  BY <1>2, <1>3, <1>7
<1>9. stublibs = "dev" => ~In(direct_deps, "stublibs") /\ In(dev_deps, "stublibs")
  BY <1>1, <1>2, <1>3 DEF StubsTold
<1>10. \A s, p : Twice(s, p) => In(s, p)
  BY DEF Twice, In
<1>11. ASSUME Clean PROVE ~Wrong
  <2>1. project.nondev
    BY <1>11 DEF Clean
  <2>2. ~In(dev_deps, "stublibs")
    <3>1. stublibs = "dev" => ~In(dev_deps, "stublibs")
      BY <1>11 DEF Clean
    <3>2. stublibs # "dev" /\ In(dev_deps, "stublibs") => In(direct_deps, "stublibs")
      BY <1>1, <1>2, <1>3 DEF StubsTold
    <3>3. ~(In(direct_deps, "stublibs") /\ In(dev_deps, "stublibs"))
      BY <1>3, <1>11 DEF Clean
    <3> QED BY <3>1, <3>2, <3>3
  <2>3. \A p \in Pkg :
          /\ ~Twice(direct_deps, p) /\ ~Twice(dev_deps, p)
          /\ ~(In(direct_deps, p) /\ In(dev_deps, p))
          /\ In(direct_deps, p) \/ In(dev_deps, p) => p \in Lib(switch) \ OBAZL_PKGS
    BY <1>1, <1>3, <1>4, <1>11 DEF Clean
  <2> QED BY <1>3, <1>4, <1>8, <2>1, <2>2, <2>3
<1>12. ASSUME ~Wrong PROVE Clean
  <2>1. project.nondev /\ ~In(dev_deps, "stublibs")
    BY <1>8, <1>12
  <2>2. ASSUME NEW p \in Pkg
        PROVE  /\ ~Twice(direct_deps, p) /\ ~Twice(dev_deps, p)
               /\ ~(In(direct_deps, p) /\ In(dev_deps, p))
               /\ In(direct_deps, p) \/ In(dev_deps, p) =>
                    p # "ocamlsdk" /\ p \in {"stublibs"} \cup (deps \ OBAZL_PKGS)
    <3>1. CASE p \in OBAZL_PKGS
      BY <1>8, <1>10, <1>12, <3>1
    <3>2. CASE p \notin OBAZL_PKGS
      BY <1>1, <1>4, <1>8, <1>12, <3>2
    <3> QED BY <3>1, <3>2
  <2> QED BY <1>9, <2>1, <2>2 DEF Clean
<1> QED
  BY <1>11, <1>12 DEF Wrong

(* Whatever tags the modules have and whatever earlier evaluations left:   *)
(* Bazel refuses the metadata of the mistaken and of the misread projects  *)
(* and of no others.                                                       *)
THEOREM AcceptedUnlessMistakenCorrect == Spec => []AcceptedUnlessMistaken
<1>1. Init => Collected /\ Declared
  BY DEF Init, Collected, Declared, Later
<1>2. IInv /\ Collected /\ Declared /\ [Next]_vars => Collected' /\ Declared'
  BY CollectedPreserved, DeclaredPreserved DEF IInv
<1>3. IInv /\ Collected /\ Declared => AcceptedUnlessMistaken
  <2> SUFFICES ASSUME TypeOK, Collected, Declared, pc \in {"done", "rejected"}
               PROVE  pc = "rejected" <=> Mistaken \/ Misread
    BY DEF IInv, AcceptedUnlessMistaken
  <2>1. pc = "rejected" <=> ~Accepted(RootModuleDeps)
    BY DEF Declared
  <2> QED BY <2>1, AcceptedClean, CleanMistaken
<1> QED
  BY <1>1, <1>2, <1>3, Inductive, PTL DEF Spec
=============================================================================
