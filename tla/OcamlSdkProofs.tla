--------------------------- MODULE OcamlSdkProofs ---------------------------
(* Proofs about OcamlSdk.  What the tool still owes the repository is      *)
(* either done, or among the operations left of the function that runs, or *)
(* of a function that is not called yet; when the tool ends well, nothing  *)
(* is left, and it has been done.                                          *)
EXTENDS OcamlSdk, SequenceTheorems, TLAPS

-----------------------------------------------------------------------------
(* Sequences of operations.                                                *)

Has(s, op) == \E i \in DOMAIN s : s[i] = op

LEMMA HasConcat ==
  ASSUME NEW S, NEW s \in Seq(S), NEW t \in Seq(S), NEW op
  PROVE  Has(s \o t, op) <=> Has(s, op) \/ Has(t, op)
  <1>1. /\ Len(s \o t) = Len(s) + Len(t)
        /\ \A i \in 1..(Len(s) + Len(t)) :
              (s \o t)[i] = IF i <= Len(s) THEN s[i] ELSE t[i - Len(s)]
    OBVIOUS
  <1>2. ASSUME Has(s \o t, op) PROVE Has(s, op) \/ Has(t, op)
    <2>1. PICK i \in 1..(Len(s) + Len(t)) : (s \o t)[i] = op
      BY <1>1, <1>2 DEF Has
    <2>2. CASE i <= Len(s)
      BY <2>1, <2>2, <1>1 DEF Has
    <2>3. CASE ~(i <= Len(s))
      <3>1. i - Len(s) \in DOMAIN t /\ t[i - Len(s)] = op
        BY <2>1, <2>3, <1>1
      <3> QED
        BY <3>1 DEF Has
    <2> QED
      BY <2>2, <2>3
  <1>3. ASSUME Has(s, op) PROVE Has(s \o t, op)
    <2>1. PICK i \in 1..Len(s) : s[i] = op
      BY <1>3 DEF Has
    <2> QED
      BY <2>1, <1>1 DEF Has
  <1>4. ASSUME Has(t, op) PROVE Has(s \o t, op)
    <2>1. PICK i \in 1..Len(t) : t[i] = op
      BY <1>4 DEF Has
    <2>2. i + Len(s) \in DOMAIN (s \o t) /\ (s \o t)[i + Len(s)] = op
      BY <2>1, <1>1
    <2> QED
      BY <2>2 DEF Has
  <1> QED
    BY <1>2, <1>3, <1>4

LEMMA HeadOrTail ==
  ASSUME NEW S, NEW s \in Seq(S), s # <<>>, NEW op, Has(s, op)
  PROVE  op = Head(s) \/ Has(Tail(s), op)
  <1>1. PICK i \in 1..Len(s) : s[i] = op
    BY DEF Has
  <1>2. CASE i = 1
    BY <1>1, <1>2
  <1>3. CASE i # 1
    <2>1. i - 1 \in DOMAIN Tail(s) /\ Tail(s)[i - 1] = op
      BY <1>1, <1>3
    <2> QED
      BY <2>1 DEF Has
  <1> QED
    BY <1>2, <1>3

LEMMA HasOne == ASSUME NEW a PROVE Has(<<a>>, a)
  BY DEF Has

-----------------------------------------------------------------------------
(* Each function comes to operations of Op.                                *)

LEMMA OpTypes ==
  /\ \A p \in Package : Build(p) \in Op /\ Copy(p) \in Op
  /\ \A d \in Dir, names \in SUBSET File, p \in Package : Links(d, names, p) \in Op
  /\ \A f \in File, p \in Package : Must(f, p) \in Op
  /\ \A names \in SUBSET File, p \in Package : Try(names, p) \in Op
  <1>1. ocaml \in Dir
    BY DEF Dir
  <1> QED
    BY <1>1 DEF Op, Build, Copy, Links, Must, Try

LEMMA PackageTypes ==
  /\ <<"bin">> \in Package /\ <<"config">> \in Package /\ <<"version">> \in Package
  /\ Lib("ffi") \in Package /\ Lib("stublibs") \in Package
  /\ \A l \in Library : Lib(l) \in Package
  /\ Toolchain \subseteq Package
  /\ CompilerLibPackages \subseteq Package
  /\ Runtime \subseteq Package /\ <<"runtime">> \in Package
  BY DEF Package, Runtime

LEMMA DirTypes ==
  /\ switch_bin \in Dir /\ system_bin \in Dir /\ ocaml \in Dir
  /\ \A l \in Library : Old(l) \in Dir /\ New(l) \in Dir
  /\ New("stublibs") \in Dir /\ New("compiler-libs") \in Dir /\ New("caml") \in Dir
  BY DEF Dir

LEMMA PrefixTypes == \A p \in Prefix : StartsWith[p] \in SUBSET File
  BY Assumptions

LEMMA FileTypes ==
  {"expunge", "libthreads.a", "libthreadsnat.a", "libunixnat.a",
   "libunixbyt.a", "libunix.a"} \subseteq File
  BY Assumptions

LEMMA One == ASSUME NEW S, NEW a \in S PROVE <<a>> \in Seq(S)
  OBVIOUS

LEMMA Cat == ASSUME NEW S, NEW s \in Seq(S), NEW t \in Seq(S) PROVE s \o t \in Seq(S)
  OBVIOUS

LEMMA EmitTypes ==
  ASSUME sdk \in Installations, NEW n \in 1..Steps
  PROVE  Emit(n) \in Seq(Op)
  <1> USE OpTypes, PackageTypes, DirTypes, PrefixTypes, FileTypes
  <1>a. {"bigarray", "dynlink", "ocamldoc", "profiling", "runtime_events",
         "stdlib", "str", "threads", "unix"} = Library
    BY DEF Library
  <1>b. {"bigarray", "camlinternal", "dynlink", "lib", "libunix", "ocaml",
         "profiling", "runtime", "stdlib", "stdlib.a", "str.", "unix.",
         "unixLabels."} = Prefix
    BY DEF Prefix
  <1>c. sdk.sdk_bin \in Dir
    BY Assumptions
  <1>d. UNION {StartsWith[p] : p \in {"unix.", "unixLabels.", "libunix"}}
           \in SUBSET File
    BY <1>b
  <1> USE <1>a, <1>b, <1>c, <1>d
  <1>1. emit_bin \in Seq(Op)
    <2>1. emit_ocaml_bin_build_file \in Seq(Op) /\ emit_ocaml_bin_symlinks \in Seq(Op)
      BY DEF emit_ocaml_bin_build_file, emit_ocaml_bin_symlinks
    <2>2. emit_ocaml_sdkbin_symlinks \in Seq(Op)
      BY DEF emit_ocaml_sdkbin_symlinks
    <2> QED
      BY <2>1, <2>2 DEF emit_bin
  <1>2. emit_ocaml_toolchain_buildfiles \in Seq(Op)
    BY DEF emit_ocaml_toolchain_buildfiles, Toolchain
  <1>3. emit_ocaml_config_pkg \in Seq(Op)
    BY DEF emit_ocaml_config_pkg
  <1>4. emit_ocaml_stdlib_pkg \in Seq(Op)
    BY DEF emit_ocaml_stdlib_pkg, symlink_ocaml_stdlib
  <1>5. emit_ocaml_expunge \in Seq(Op)
    BY DEF emit_ocaml_expunge, symlink_ocaml_expunge
  <1>6. emit_ocaml_stublibs \in Seq(Op)
    BY DEF emit_ocaml_stublibs, emit_ocaml_stublibs_symlinks
  <1>7. emit_ocaml_compiler_libs_pkg \in Seq(Op)
    <2>1. \A c \in CompilerLib : <<"compiler-libs", c>> \in Package
      BY DEF CompilerLibPackages
    <2>2. {"common", "bytecomp", "optcomp", "toplevel", "native-toplevel"}
             = CompilerLib
      BY DEF CompilerLib
    <2>3. <<"compiler-libs">> \in Package
      BY DEF CompilerLibPackages
    <2> QED
      BY <2>1, <2>2, <2>3 DEF emit_ocaml_compiler_libs_pkg,
                              symlink_ocaml_compiler_libs
  <1>8. emit_ocaml_bigarray_pkg \in Seq(Op)
    BY DEF emit_ocaml_bigarray_pkg, symlink_ocaml_bigarray
  <1>9. emit_ocaml_dynlink_pkg \in Seq(Op)
    BY DEF emit_ocaml_dynlink_pkg, symlink_ocaml_dynlink
  <1>10. emit_ocaml_ocamldoc_pkg \in Seq(Op)
    BY DEF emit_ocaml_ocamldoc_pkg, symlink_ocaml_ocamldoc
  <1>11. emit_ocaml_profiling_pkg \in Seq(Op)
    BY DEF emit_ocaml_profiling_pkg, symlink_ocaml_profiling
  <1>12. emit_ocaml_rtevents_pkg \in Seq(Op)
    BY DEF emit_ocaml_rtevents_pkg, symlink_ocaml_rtevents
  <1>13. emit_ocaml_str_pkg \in Seq(Op)
    BY DEF emit_ocaml_str_pkg, symlink_ocaml_str
  <1>14. emit_ocaml_threads_pkg \in Seq(Op)
    BY DEF emit_ocaml_threads_pkg, symlink_ocaml_threads
  <1>15. emit_ocaml_unix_pkg \in Seq(Op)
    <2>1. symlink_libunix \in Seq(Op)
      BY DEF symlink_libunix
    <2>2. symlink_ocaml_unix(ocaml) \in Seq(Op)
            /\ symlink_ocaml_unix(New("unix")) \in Seq(Op)
      BY DEF symlink_ocaml_unix
    <2> QED
      BY <2>1, <2>2 DEF emit_ocaml_unix_pkg
  <1>16. emit_ocaml_runtime_pkg \in Seq(Op)
    <2>1. symlink_ocaml_runtime_libs \in Seq(Op)
      BY DEF symlink_ocaml_runtime_libs, Runtime
    <2>2. symlink_ocaml_runtime_compiler_libs \in Seq(Op)
      BY DEF symlink_ocaml_runtime_compiler_libs, Runtime
    <2> QED
      BY <2>1, <2>2 DEF emit_ocaml_runtime_pkg, Runtime
  <1>17. emit_ocaml_c_ffi_pkg \in Seq(Op)
    BY DEF emit_ocaml_c_ffi_pkg, symlink_ocaml_c_hdrs
  <1>18. emit_ocaml_version \in Seq(Op)
    BY DEF emit_ocaml_version
  <1> HIDE OpTypes, PackageTypes, DirTypes, PrefixTypes, FileTypes,
           <1>a, <1>b, <1>c, <1>d
  <1> QED
    BY <1>1, <1>2, <1>3, <1>4, <1>5, <1>6, <1>7, <1>8, <1>9, <1>10, <1>11,
       <1>12, <1>13, <1>14, <1>15, <1>16, <1>17, <1>18 DEF Emit, Steps

-----------------------------------------------------------------------------
(* Type correctness.                                                       *)

LEMMA HeadTypes ==
  ASSUME todo \in Seq(Op), todo # <<>>
  PROVE  /\ Head(todo) \in Op /\ Tail(todo) \in Seq(Op)
         /\ Head(todo).pkg \in Package /\ Head(todo).from \in Dir
         /\ Head(todo).names \in SUBSET File
  <1>1. Head(todo) \in Op /\ Tail(todo) \in Seq(Op)
    OBVIOUS
  <1> QED
    BY <1>1 DEF Op

LEMMA NewLinksTypes ==
  ASSUME NEW op \in Op, NEW files \in SUBSET Sources(op)
  PROVE  NewLinks(op, files) \subseteq Package \X File \X Dir
  <1>1. op.pkg \in Package /\ op.from \in Dir /\ files \subseteq File
    BY DEF Op, Sources
  <1> QED
    BY <1>1 DEF NewLinks

(* The types of OcamlSdk, for every set of compilers and switches: the     *)
(* tool writes the packages of the repository and no others.               *)
THEOREM TypeCorrect == Spec => []TypeOK
  <1>1. Init => TypeOK
    BY Assumptions DEF Init, TypeOK, Steps
  <1>2. TypeOK /\ [Next]_vars => TypeOK'
    <2> SUFFICES ASSUME TypeOK, [Next]_vars PROVE TypeOK'
      OBVIOUS
    <2> USE DEF TypeOK
    <2>1. CASE SdkBin \/ Module \/ Return
      BY <2>1 DEF SdkBin, Module, Return, Ended
    <2>2. CASE Call
      <3>1. Emit(step) \in Seq(Op)
        BY <2>2, EmitTypes DEF Call
      <3>2. step + 1 \in 1..(Steps + 1)
        BY <2>2 DEF Call, Steps
      <3> QED
        BY <2>2, <3>1, <3>2 DEF Call
    <2>3. CASE WriteBuild \/ CopyBuild
      BY <2>3, HeadTypes DEF WriteBuild, CopyBuild
    <2>4. CASE MakeLinks
      <3>1. Head(todo) \in Op /\ Tail(todo) \in Seq(Op)
        BY <2>4, HeadTypes DEF MakeLinks
      <3>2. NewLinks(Head(todo), {f \in Sources(Head(todo)) :
                                    Resolves(Head(todo).from, f)})
               \subseteq Package \X File \X Dir
        BY <3>1, NewLinksTypes
      <3> QED
        BY <2>4, <3>1, <3>2 DEF MakeLinks
    <2>5. CASE LinkFails
      <3>1. Head(todo) \in Op
        BY <2>5, HeadTypes DEF LinkFails
      <3>2. PICK some \in SUBSET {f \in Sources(Head(todo)) :
                                    Resolves(Head(todo).from, f)} :
               links' = links \cup NewLinks(Head(todo), some)
        BY <2>5 DEF LinkFails
      <3>3. NewLinks(Head(todo), some) \subseteq Package \X File \X Dir
        BY <3>1, NewLinksTypes
      <3> QED
        BY <2>5, <3>2, <3>3 DEF LinkFails, Ended
    <2>6. CASE BuildFails \/ ReaddirNull
      BY <2>6 DEF BuildFails, ReaddirNull, Ended
    <2>7. CASE OpamChanges
      BY <2>7, Assumptions DEF OpamChanges
    <2>8. CASE UNCHANGED vars
      BY <2>8 DEF vars
    <2> QED
      BY <2>1, <2>2, <2>3, <2>4, <2>5, <2>6, <2>7, <2>8 DEF Next, Step
  <1> QED
    BY <1>1, <1>2, PTL DEF Spec

-----------------------------------------------------------------------------
(* What has been linked stays: of two directories that have a file of one  *)
(* name, the first one linked wins, whatever happens afterwards.           *)
THEOREM LinksKeptCorrect == Spec => LinksKept
  <1>1. [Next]_vars => [links \subseteq links']_vars
    BY DEF Next, Step, SdkBin, Module, Call, Return, WriteBuild, CopyBuild,
           MakeLinks, LinkFails, BuildFails, ReaddirNull, OpamChanges
  <1> QED
    BY <1>1, PTL DEF Spec, LinksKept

-----------------------------------------------------------------------------
(* A link to a file of the compiler leads to it, however often opam        *)
(* changes the switch, and one to a file of the switch until opam does.    *)

LEMMA LinksOfOp ==
  ASSUME TypeOK, LinksExist, NEW op \in Op,
         NEW files \in SUBSET {f \in Sources(op) : Resolves(op.from, f)},
         links' = links \cup NewLinks(op, files), UNCHANGED <<sdk, changes>>
  PROVE  LinksExist'
  <1> SUFFICES ASSUME NEW l \in links', changes = 0 \/ OfCompiler(l[3])
               PROVE  Resolves(l[3], l[2])
    BY DEF LinksExist, Resolves, Entries, Exists
  <1>1. CASE l \in links
    BY <1>1 DEF LinksExist
  <1>2. CASE l \in NewLinks(op, files)
    <2>1. PICK f \in files : l = <<op.pkg, f, op.from>>
      BY <1>2 DEF NewLinks
    <2> QED
      BY <2>1
  <1> QED
    BY <1>1, <1>2

LEMMA SameResolves ==
  ASSUME NEW i \in Installations, NEW j \in Installations,
         i.compiler = j.compiler, NEW d \in Dir, OfCompiler(d), NEW f \in File,
         d \in DOMAIN i.dir, f \in i.dir[d], <<d, f>> \notin i.broken
  PROVE  d \in DOMAIN j.dir /\ f \in j.dir[d] /\ <<d, f>> \notin j.broken
  BY SameCompiler

THEOREM LinksExistCorrect == Spec => []LinksExist
  <1>1. Init => LinksExist
    BY DEF Init, LinksExist
  <1>2. TypeOK /\ LinksExist /\ [Next]_vars => LinksExist'
    <2> SUFFICES ASSUME TypeOK, LinksExist, [Next]_vars PROVE LinksExist'
      OBVIOUS
    <2>1. CASE SdkBin \/ Module \/ Call \/ Return \/ WriteBuild \/ CopyBuild
      BY <2>1 DEF SdkBin, Module, Call, Return, WriteBuild, CopyBuild,
                  LinksExist, Resolves, Entries, Exists
    <2>2. CASE MakeLinks
      BY <2>2, LinksOfOp, HeadTypes DEF MakeLinks, TypeOK
    <2>3. CASE LinkFails
      <3>1. PICK some \in SUBSET {f \in Sources(Head(todo)) :
                                    Resolves(Head(todo).from, f)} :
               links' = links \cup NewLinks(Head(todo), some)
        BY <2>3 DEF LinkFails
      <3>2. Head(todo) \in Op
        BY <2>3, HeadTypes DEF LinkFails, TypeOK
      <3> QED
        BY <2>3, <3>1, <3>2, LinksOfOp DEF LinkFails
    <2>4. CASE BuildFails \/ ReaddirNull
      BY <2>4 DEF BuildFails, ReaddirNull, LinksExist, Resolves, Entries, Exists
    <2>5. CASE OpamChanges
      <3> SUFFICES ASSUME NEW l \in links', (changes = 0 \/ OfCompiler(l[3]))'
                   PROVE  Resolves(l[3], l[2])'
        BY DEF LinksExist
      <3>1. OfCompiler(l[3])
        BY <2>5 DEF OpamChanges, TypeOK, OfCompiler
      <3>2. l \in links /\ l[3] \in Dir /\ l[2] \in File
        BY <2>5 DEF OpamChanges, TypeOK
      <3>3. /\ l[3] \in DOMAIN sdk.dir /\ l[2] \in sdk.dir[l[3]]
            /\ <<l[3], l[2]>> \notin sdk.broken
        BY <3>1, <3>2 DEF LinksExist, Resolves, Entries, Exists
      <3>4. /\ sdk \in Installations /\ sdk' \in Installations
            /\ sdk.compiler = sdk'.compiler
        BY <2>5 DEF OpamChanges, TypeOK
      <3> QED
        BY <3>1, <3>2, <3>3, <3>4, SameResolves DEF Resolves, Entries, Exists
    <2>6. CASE UNCHANGED vars
      BY <2>6 DEF vars, LinksExist, Resolves, Entries, Exists
    <2> QED
      BY <2>1, <2>2, <2>3, <2>4, <2>5, <2>6 DEF Next, Step
  <1> QED
    BY <1>1, <1>2, TypeCorrect, PTL DEF Spec

-----------------------------------------------------------------------------
(* A BUILD file that the n-th function writes is written, or is among the  *)
(* operations left, or the function has not been called.                   *)

Due(n, op) == step <= n \/ Has(todo, op) \/ op.pkg \in build

LEMMA DueKept ==
  ASSUME NEW n \in 1..Steps, NEW op \in Op, Writes(op), TypeOK, Due(n, op),
         [Next]_vars, Call /\ step = n => Has(Emit(n), op)
  PROVE  Due(n, op)'
  <1> USE DEF Due
  <1>1. CASE SdkBin \/ Module \/ Return
    BY <1>1 DEF SdkBin, Module, Return, Has
  <1>2. CASE Call
    <2>1. step \in 1..(Steps + 1) /\ todo = <<>> /\ step' = step + 1 /\ todo' = Emit(step)
      BY <1>2 DEF Call, TypeOK
    <2>2. ~Has(<<>>, op)
      BY DEF Has
    <2>3. CASE step = n
      BY <1>2, <2>1, <2>3 DEF Has
    <2>4. CASE step # n
      BY <1>2, <2>1, <2>2, <2>4 DEF Call, Steps
    <2> QED
      BY <2>3, <2>4
  <1>3. CASE WriteBuild \/ CopyBuild
    <2>1. /\ build' = build \cup {Head(todo).pkg} /\ step' = step
          /\ todo' = todo \/ todo' = Tail(todo)
          /\ todo # <<>> /\ todo \in Seq(Op)
      BY <1>3 DEF WriteBuild, CopyBuild, TypeOK
    <2>2. Has(todo, op) => op = Head(todo) \/ Has(Tail(todo), op)
      BY <2>1, HeadOrTail
    <2> QED
      BY <2>1, <2>2 DEF Has
  <1>4. CASE MakeLinks
    <2>1. /\ build' = build /\ step' = step /\ todo' = Tail(todo)
          /\ todo # <<>> /\ todo \in Seq(Op) /\ ~Writes(Head(todo))
      BY <1>4 DEF MakeLinks, TypeOK
    <2>2. Has(todo, op) => op = Head(todo) \/ Has(Tail(todo), op)
      BY <2>1, HeadOrTail
    <2> QED
      BY <2>1, <2>2 DEF Has
  <1>5. CASE LinkFails \/ BuildFails \/ ReaddirNull \/ OpamChanges
    BY <1>5 DEF LinkFails, BuildFails, ReaddirNull, OpamChanges, Has
  <1>6. CASE UNCHANGED vars
    BY <1>6 DEF vars, Has
  <1> QED
    BY <1>1, <1>2, <1>3, <1>4, <1>5, <1>6 DEF Next, Step

(* The tool ends well only with nothing left.                              *)
Finished == status = "exit0" => step = Steps + 1 /\ todo = <<>>

LEMMA FinishedCorrect == Spec => []Finished
  <1>1. Init => Finished
    BY DEF Init, Finished
  <1>2. TypeOK /\ Finished /\ [Next]_vars => Finished'
    BY DEF TypeOK, Finished, Next, Step, vars, SdkBin, Module, Call, Return,
           WriteBuild, CopyBuild, MakeLinks, LinkFails, BuildFails,
           ReaddirNull, OpamChanges, Steps
  <1> QED
    BY <1>1, <1>2, TypeCorrect, PTL DEF Spec

LEMMA DueDone ==
  ASSUME NEW n \in 1..Steps, NEW op, Due(n, op), Finished, status = "exit0"
  PROVE  op.pkg \in build
  BY DEF Due, Finished, Has, Steps

(* What the toolchain, config and compiler-libs are made of, and what      *)
(* their labels name.                                                      *)
ToolchainDue ==
    /\ Due(1, Build(<<"bin">>))
    /\ \A p \in Toolchain : Due(2, Copy(p))
    /\ Due(3, Copy(<<"config">>))
    /\ Due(6, Build(Lib("stublibs")))
    /\ \A p \in CompilerLibPackages : Due(7, Copy(p))
    /\ Due(16, Copy(<<"runtime">>))
    /\ Due(18, Build(<<"version">>))

LEMMA FirstPart ==
  ASSUME NEW S, NEW s \in Seq(S), NEW t \in Seq(S), NEW i \in 1..Len(s)
  PROVE  i \in DOMAIN (s \o t) /\ (s \o t)[i] = s[i]
  <1>1. /\ Len(s \o t) = Len(s) + Len(t)
        /\ \A j \in 1..(Len(s) + Len(t)) :
              (s \o t)[j] = IF j <= Len(s) THEN s[j] ELSE t[j - Len(s)]
    OBVIOUS
  <1> QED
    BY <1>1

LEMMA ToolchainEmitted ==
  ASSUME sdk \in Installations
  PROVE  /\ Has(Emit(1), Build(<<"bin">>))
         /\ \A p \in Toolchain : Has(Emit(2), Copy(p))
         /\ Has(Emit(3), Copy(<<"config">>))
         /\ Has(Emit(6), Build(Lib("stublibs")))
         /\ \A p \in CompilerLibPackages : Has(Emit(7), Copy(p))
         /\ Has(Emit(16), Copy(<<"runtime">>))
         /\ Has(Emit(18), Build(<<"version">>))
  <1>1. Has(Emit(1), Build(<<"bin">>))
    <2>1. /\ emit_bin # <<>>
          /\ 1 \in DOMAIN emit_bin
          /\ emit_bin[1] = Build(<<"bin">>)
      BY DEF emit_bin, emit_ocaml_bin_build_file, emit_ocaml_bin_symlinks,
             emit_ocaml_sdkbin_symlinks
    <2> QED
      BY <2>1 DEF Has, Emit
  <1>2. \A p \in Toolchain : Has(Emit(2), Copy(p))
    BY DEF Has, Emit, Toolchain, emit_ocaml_toolchain_buildfiles
  <1>3. Has(Emit(3), Copy(<<"config">>))
    BY DEF Has, Emit, emit_ocaml_config_pkg
  <1>4. Has(Emit(6), Build(Lib("stublibs")))
    BY DEF Has, Emit, emit_ocaml_stublibs, emit_ocaml_stublibs_symlinks
  <1>5. \A p \in CompilerLibPackages : Has(Emit(7), Copy(p))
    <2> DEFINE six == <<Copy(<<"compiler-libs">>),
                        Copy(<<"compiler-libs", "common">>),
                        Copy(<<"compiler-libs", "bytecomp">>),
                        Copy(<<"compiler-libs", "optcomp">>),
                        Copy(<<"compiler-libs", "toplevel">>),
                        Copy(<<"compiler-libs", "native-toplevel">>)>>
               one == <<Links(New("compiler-libs"), File, <<"compiler-libs">>)>>
               ops == {six[i] : i \in 1..6} \cup {one[1]}
    <2>a. emit_ocaml_compiler_libs_pkg = six \o one
      BY DEF emit_ocaml_compiler_libs_pkg, symlink_ocaml_compiler_libs
    <2>b. Emit(7) = six \o one
      BY <2>a DEF Emit
    <2>c. six \in Seq(ops) /\ one \in Seq(ops) /\ Len(six) = 6
      OBVIOUS
    <2>1. 1..6 \subseteq DOMAIN Emit(7) /\ \A i \in 1..6 : Emit(7)[i] = six[i]
      <3> HIDE DEF six, one, ops
      <3>1. ASSUME NEW i \in 1..6
            PROVE  i \in DOMAIN (six \o one) /\ (six \o one)[i] = six[i]
        <4>1. i \in 1..Len(six)
          BY <2>c
        <4> QED
          BY <2>c, <4>1, FirstPart
      <3> QED
        BY <2>b, <3>1
    <2>2. 1..6 \subseteq DOMAIN Emit(7)
      BY <2>1
    <2>3. \A i \in 1..6 : Has(Emit(7), Emit(7)[i])
      BY <2>2 DEF Has
    <2>4. /\ Emit(7)[1] = Copy(<<"compiler-libs">>)
          /\ Emit(7)[2] = Copy(<<"compiler-libs", "common">>)
          /\ Emit(7)[3] = Copy(<<"compiler-libs", "bytecomp">>)
          /\ Emit(7)[4] = Copy(<<"compiler-libs", "optcomp">>)
          /\ Emit(7)[5] = Copy(<<"compiler-libs", "toplevel">>)
          /\ Emit(7)[6] = Copy(<<"compiler-libs", "native-toplevel">>)
      BY <2>1
    <2> QED
      BY <2>3, <2>4 DEF CompilerLibPackages, CompilerLib
  <1>6. Has(Emit(16), Copy(<<"runtime">>))
    BY DEF Has, Emit, emit_ocaml_runtime_pkg, symlink_ocaml_runtime_libs,
           symlink_ocaml_runtime_compiler_libs
  <1>7. Has(Emit(18), Build(<<"version">>))
    BY DEF Has, Emit, emit_ocaml_version
  <1> QED
    BY <1>1, <1>2, <1>3, <1>4, <1>5, <1>6, <1>7

LEMMA ToolchainDueCorrect == Spec => []ToolchainDue
  <1> USE PackageTypes, OpTypes
  <1>1. Init => ToolchainDue
    BY DEF Init, ToolchainDue, Due
  <1>2. TypeOK /\ ToolchainDue /\ [Next]_vars => ToolchainDue'
    <2> SUFFICES ASSUME TypeOK, ToolchainDue, [Next]_vars PROVE ToolchainDue'
      OBVIOUS
    <2>1. /\ 1 \in 1..Steps /\ 2 \in 1..Steps /\ 3 \in 1..Steps /\ 6 \in 1..Steps
          /\ 7 \in 1..Steps /\ 16 \in 1..Steps /\ 18 \in 1..Steps
      BY DEF Steps
    <2>2. sdk \in Installations
      BY DEF TypeOK
    <2>3. \A p \in Package : /\ Build(p) \in Op /\ Writes(Build(p))
                             /\ Copy(p) \in Op /\ Writes(Copy(p))
      BY DEF Writes, Build, Copy
    <2>4. Due(1, Build(<<"bin">>))'
      BY <2>1, <2>2, <2>3, DueKept, ToolchainEmitted DEF ToolchainDue
    <2>5. \A p \in Toolchain : Due(2, Copy(p))'
      BY <2>1, <2>2, <2>3, DueKept, ToolchainEmitted DEF ToolchainDue
    <2>6. Due(3, Copy(<<"config">>))'
      BY <2>1, <2>2, <2>3, DueKept, ToolchainEmitted DEF ToolchainDue
    <2>7. Due(6, Build(Lib("stublibs")))'
      BY <2>1, <2>2, <2>3, DueKept, ToolchainEmitted DEF ToolchainDue
    <2>8. \A p \in CompilerLibPackages : Due(7, Copy(p))'
      BY <2>1, <2>2, <2>3, DueKept, ToolchainEmitted DEF ToolchainDue
    <2>9. Due(16, Copy(<<"runtime">>))'
      BY <2>1, <2>2, <2>3, DueKept, ToolchainEmitted DEF ToolchainDue
    <2>10. Due(18, Build(<<"version">>))'
      BY <2>1, <2>2, <2>3, DueKept, ToolchainEmitted DEF ToolchainDue
    <2> QED
      BY <2>4, <2>5, <2>6, <2>7, <2>8, <2>9, <2>10 DEF ToolchainDue
  <1> QED
    BY <1>1, <1>2, TypeCorrect, PTL DEF Spec

-----------------------------------------------------------------------------
(* The files that an operation of the n-th function links, likewise.       *)
LinksDue(n, op) ==
    step <= n \/ Has(todo, op) \/ \A f \in Sources(op) : Linked(op.pkg, f)

LEMMA LinksDueKept ==
  ASSUME NEW n \in 1..Steps, NEW op \in Op, op.do = "links", TypeOK,
         LinksDue(n, op), [Next]_vars, Entries(op.from)' = Entries(op.from),
         Call /\ step = n => Has(Emit(n), op)
  PROVE  LinksDue(n, op)'
  <1>a. links \subseteq links'
    BY DEF Next, Step, vars, SdkBin, Module, Call, Return, WriteBuild,
           CopyBuild, MakeLinks, LinkFails, BuildFails, ReaddirNull, OpamChanges
  <1>b. \A f : Linked(op.pkg, f) => Linked(op.pkg, f)'
    BY <1>a DEF Linked
  <1>c. Sources(op)' = Sources(op)
    BY DEF Sources
  <1> USE DEF LinksDue
  <1>1. CASE SdkBin \/ Module \/ Return
    BY <1>1, <1>b, <1>c DEF SdkBin, Module, Return, Has
  <1>2. CASE Call
    <2>1. step \in 1..(Steps + 1) /\ todo = <<>> /\ step' = step + 1 /\ todo' = Emit(step)
      BY <1>2 DEF Call, TypeOK
    <2>2. ~Has(<<>>, op)
      BY DEF Has
    <2>3. CASE step = n
      BY <1>2, <2>1, <2>3 DEF Has
    <2>4. CASE step # n
      BY <2>1, <2>2, <2>4, <1>b, <1>c DEF Steps
    <2> QED
      BY <2>3, <2>4
  <1>3. CASE WriteBuild \/ CopyBuild \/ MakeLinks
    <2>1. /\ step' = step
          /\ todo' = todo \/ todo' = Tail(todo)
          /\ todo # <<>> /\ todo \in Seq(Op)
      BY <1>3 DEF WriteBuild, CopyBuild, MakeLinks, TypeOK
    <2>2. Has(todo, op) => op = Head(todo) \/ Has(Tail(todo), op)
      BY <2>1, HeadOrTail
    <2>3. CASE op = Head(todo)
      <3>1. MakeLinks /\ ~Fails(op)
        BY <1>3, <2>3 DEF WriteBuild, CopyBuild, MakeLinks
      <3>2. ASSUME NEW f \in Sources(op)
            PROVE  Linked(op.pkg, f)'
        <4>1. Resolves(op.from, f)
          BY <3>1, <3>2 DEF Fails
        <4>2. CASE Linked(op.pkg, f)
          BY <4>2, <1>b
        <4>3. CASE ~Linked(op.pkg, f)
          <5>1. <<op.pkg, f, op.from>> \in links'
            BY <3>1, <4>1, <4>3, <2>3 DEF MakeLinks, NewLinks
          <5> QED
            BY <5>1 DEF Linked
        <4> QED
          BY <4>2, <4>3
      <3> QED
        BY <3>2, <1>c
    <2>4. CASE op # Head(todo)
      <3>1. CASE step <= n
        BY <2>1, <3>1
      <3>2. CASE Has(todo, op)
        <4>1. Has(Tail(todo), op)
          BY <2>2, <2>4, <3>2
        <4> QED
          BY <2>1, <3>2, <4>1 DEF Has
      <3>3. CASE \A f \in Sources(op) : Linked(op.pkg, f)
        BY <3>3, <1>b, <1>c
      <3> QED
        BY <3>1, <3>2, <3>3
    <2> QED
      BY <2>3, <2>4
  <1>4. CASE LinkFails \/ BuildFails \/ ReaddirNull \/ OpamChanges
    BY <1>4, <1>b, <1>c DEF LinkFails, BuildFails, ReaddirNull, OpamChanges, Has
  <1>5. CASE UNCHANGED vars
    BY <1>5, <1>b, <1>c DEF vars, Has
  <1> QED
    BY <1>1, <1>2, <1>3, <1>4, <1>5 DEF Next, Step

(* The C libraries of the runtime.                                         *)
RuntimeOp == Links(ocaml, StartsWith["lib"] \cup StartsWith["stdlib.a"],
                   <<"runtime">>)

RuntimeDue == LinksDue(16, RuntimeOp)

LEMMA RuntimeDueCorrect == Spec => []RuntimeDue
  <1>1. Init => RuntimeDue
    BY DEF Init, RuntimeDue, LinksDue
  <1>2. TypeOK /\ RuntimeDue /\ [Next]_vars => RuntimeDue'
    <2> SUFFICES ASSUME TypeOK, RuntimeDue, [Next]_vars PROVE RuntimeDue'
      OBVIOUS
    <2>1. /\ RuntimeOp \in Op /\ RuntimeOp.do = "links"
          /\ RuntimeOp.from = ocaml /\ 16 \in 1..Steps
      <3>1. StartsWith["lib"] \cup StartsWith["stdlib.a"] \in SUBSET File
        BY PrefixTypes DEF Prefix
      <3> QED
        BY <3>1, OpTypes, DirTypes, PackageTypes DEF RuntimeOp, Links, Steps
    <2>2. Entries(ocaml)' = Entries(ocaml)
      <3>1. CASE OpamChanges
        <4>1. /\ sdk \in Installations /\ sdk' \in Installations
              /\ sdk.compiler = sdk'.compiler
          BY <3>1 DEF OpamChanges, TypeOK
        <4>2. ocaml \in Dir /\ OfCompiler(ocaml)
          BY DirTypes DEF OfCompiler
        <4> QED
          BY <4>1, <4>2, SameCompiler DEF Entries, Exists
      <3>2. CASE sdk' = sdk
        BY <3>2 DEF Entries, Exists
      <3> QED
        BY <3>1, <3>2 DEF Next, Step, vars, SdkBin, Module, Call, Return,
           WriteBuild, CopyBuild, MakeLinks, LinkFails, BuildFails, ReaddirNull
    <2>3. Has(Emit(16), RuntimeOp)
      <3>1. /\ 1 \in DOMAIN emit_ocaml_runtime_pkg
            /\ emit_ocaml_runtime_pkg[1] = RuntimeOp
        BY DEF emit_ocaml_runtime_pkg, symlink_ocaml_runtime_libs,
               symlink_ocaml_runtime_compiler_libs, RuntimeOp
      <3> QED
        BY <3>1 DEF Has, Emit
    <2> QED
      BY <2>1, <2>2, <2>3, LinksDueKept DEF RuntimeDue
  <1> QED
    BY <1>1, <1>2, TypeCorrect, PTL DEF Spec

(* When the tool ends well, the toolchain is complete, whatever compiler   *)
(* and switch there are and however often opam changes the switch.         *)
THEOREM ToolchainCorrect == Spec => []ToolchainResolves
  <1>1. ToolchainDue /\ RuntimeDue /\ Finished => ToolchainResolves
    <2> SUFFICES ASSUME ToolchainDue, RuntimeDue, Finished, status = "exit0"
                 PROVE  /\ AlwaysThere \subseteq build
                        /\ \A p \in AlwaysThere : Labels(p) \ Dangling \subseteq build
                        /\ \A f \in Entries(ocaml) \cap StartsWith["lib"] :
                              Linked(<<"runtime">>, f)
      BY DEF ToolchainResolves
    <2>1. \A p : Build(p).pkg = p /\ Copy(p).pkg = p
      BY DEF Build, Copy
    <2>2. /\ 1 \in 1..Steps /\ 2 \in 1..Steps /\ 3 \in 1..Steps /\ 6 \in 1..Steps
          /\ 7 \in 1..Steps /\ 16 \in 1..Steps /\ 18 \in 1..Steps
      BY DEF Steps
    <2>3. /\ <<"bin">> \in build /\ <<"config">> \in build
          /\ Lib("stublibs") \in build /\ <<"runtime">> \in build
          /\ <<"version">> \in build
      BY <2>1, <2>2, DueDone DEF ToolchainDue
    <2>4. Toolchain \subseteq build /\ CompilerLibPackages \subseteq build
      BY <2>1, <2>2, DueDone DEF ToolchainDue
    <2>5. AlwaysThere \subseteq build
      BY <2>3, <2>4 DEF AlwaysThere
    <2>6. \A p \in AlwaysThere : Labels(p) \ Dangling \subseteq build
      <3> SUFFICES ASSUME NEW p \in AlwaysThere PROVE Labels(p) \ Dangling \subseteq build
        OBVIOUS
      <3>1. Lib("threads") \notin AlwaysThere /\ Lib("bigarray") \notin AlwaysThere
        BY DEF AlwaysThere, Lib, Toolchain, CompilerLibPackages, CompilerLib
      <3>2. /\ <<"toolchain", "adapters", "local">> \in build
            /\ <<"compiler-libs">> \in build
        BY <2>4 DEF Toolchain, CompilerLibPackages
      <3>3. Labels(p) \in {compiler_libs_BUILD, compiler_libs_alias_BUILD,
                           config_BUILD, toolchain_selector_local_BUILD,
                           toolchain_adapter_local_BUILD, {}}
        BY <3>1 DEF Labels
      <3>4. compiler_libs_BUILD \ Dangling = {}
        BY DEF compiler_libs_BUILD, Dangling
      <3>5. /\ compiler_libs_alias_BUILD \subseteq build
            /\ config_BUILD \subseteq build
            /\ toolchain_selector_local_BUILD \subseteq build
            /\ toolchain_adapter_local_BUILD \subseteq build
        BY <2>3, <3>2 DEF compiler_libs_alias_BUILD, config_BUILD,
           toolchain_selector_local_BUILD, toolchain_adapter_local_BUILD
      <3> QED
        BY <3>3, <3>4, <3>5
    <2>7. \A f \in Entries(ocaml) \cap StartsWith["lib"] : Linked(<<"runtime">>, f)
      BY DEF RuntimeDue, LinksDue, RuntimeOp, Links, Sources, Finished, Has, Steps
    <2> QED
      BY <2>5, <2>6, <2>7
  <1> QED
    BY <1>1, ToolchainDueCorrect, RuntimeDueCorrect, FinishedCorrect, PTL

-----------------------------------------------------------------------------
(* The package of the header files is written for every compiler.          *)
FfiOp == Copy(Lib("ffi"))

FfiDue == Due(17, FfiOp)

FfiWritten == status = "exit0" => Lib("ffi") \in build

LEMMA HasFirst ==
  ASSUME NEW a, NEW S, NEW t \in Seq(S)
  PROVE  Has(<<a>> \o t, a)
  <1>1. 1 \in DOMAIN (<<a>> \o t) /\ (<<a>> \o t)[1] = a
    OBVIOUS
  <1> QED
    BY <1>1 DEF Has

LEMMA FfiCorrect == Spec => []FfiWritten
  <1>1. 17 \in 1..Steps /\ FfiOp \in Op /\ Writes(FfiOp) /\ FfiOp.pkg = Lib("ffi")
    BY OpTypes, PackageTypes DEF Steps, FfiOp, Writes, Copy
  <1>2. Has(Emit(17), FfiOp)
    <2>1. emit_ocaml_c_ffi_pkg = <<FfiOp>> \o symlink_ocaml_c_hdrs
      BY DEF emit_ocaml_c_ffi_pkg, FfiOp
    <2>2. symlink_ocaml_c_hdrs = <<Links(New("caml"), File, Lib("ffi"))>>
      BY DEF symlink_ocaml_c_hdrs
    <2>3. Emit(17) = <<FfiOp>> \o <<Links(New("caml"), File, Lib("ffi"))>>
      BY <2>1, <2>2 DEF Emit
    <2>4. <<Links(New("caml"), File, Lib("ffi"))>> \in Seq(Op)
      BY OpTypes, PackageTypes, DirTypes, FileTypes
    <2> QED
      BY <2>3, <2>4, HasFirst
  <1>3. Init => FfiDue
    BY DEF Init, FfiDue, Due
  <1>4. TypeOK /\ FfiDue /\ [Next]_vars => FfiDue'
    BY <1>1, <1>2, DueKept DEF FfiDue, FfiOp, Copy
  <1>5. FfiDue /\ Finished => FfiWritten
    BY <1>1, DueDone DEF FfiDue, FfiWritten
  <1> QED
    BY <1>3, <1>4, <1>5, TypeCorrect, FinishedCorrect, PTL DEF Spec

-----------------------------------------------------------------------------
(* The libraries that have their META files the whole time.                *)

Sure(l) == \A i \in Installations : i.compiler = sdk.compiler => HasMeta(i, l)

LibraryDue ==
    /\ Sure("stdlib")         => Due(4, Copy(Lib("stdlib")))
    /\ Sure("bigarray")       => Due(8, Copy(Lib("bigarray")))
    /\ Sure("dynlink")        => Due(9, Copy(Lib("dynlink")))
    /\ Sure("ocamldoc")       => Due(10, Copy(Lib("ocamldoc")))
    /\ Sure("profiling")      => Due(11, Copy(Lib("profiling")))
    /\ Sure("runtime_events") => Due(12, Copy(Lib("runtime_events")))
    /\ Sure("str")            => Due(13, Copy(Lib("str")))
    /\ Sure("threads")        => Due(14, Copy(Lib("threads")))
    /\ Sure("unix")           => Due(15, Copy(Lib("unix")))

(* A library's function starts with its BUILD file.                        *)
LEMMA StartsWithBuild ==
  ASSUME NEW l \in Library, NEW t \in Seq(Op)
  PROVE  Has(<<Copy(Lib(l))>> \o t, Copy(Lib(l)))
  BY HasFirst

LEMMA StartsWithBuildTwo ==
  ASSUME NEW l \in Library, NEW t \in Seq(Op), NEW u \in Seq(Op)
  PROVE  Has(<<Copy(Lib(l))>> \o t \o u, Copy(Lib(l)))
  <1>1. <<Copy(Lib(l))>> \o t \in Seq(Op)
    BY OpTypes, PackageTypes
  <1> QED
    BY <1>1, StartsWithBuild, HasConcat

LEMMA LibraryEmitted ==
  ASSUME sdk \in Installations
  PROVE  /\ HasMeta(sdk, "stdlib")         => Has(Emit(4), Copy(Lib("stdlib")))
         /\ HasMeta(sdk, "bigarray")       => Has(Emit(8), Copy(Lib("bigarray")))
         /\ HasMeta(sdk, "dynlink")        => Has(Emit(9), Copy(Lib("dynlink")))
         /\ HasMeta(sdk, "ocamldoc")       => Has(Emit(10), Copy(Lib("ocamldoc")))
         /\ HasMeta(sdk, "profiling")      => Has(Emit(11), Copy(Lib("profiling")))
         /\ HasMeta(sdk, "runtime_events") =>
               Has(Emit(12), Copy(Lib("runtime_events")))
         /\ HasMeta(sdk, "str")            => Has(Emit(13), Copy(Lib("str")))
         /\ HasMeta(sdk, "threads")        => Has(Emit(14), Copy(Lib("threads")))
         /\ HasMeta(sdk, "unix")           => Has(Emit(15), Copy(Lib("unix")))
  <1>a. {"bigarray", "dynlink", "ocamldoc", "profiling", "runtime_events",
         "stdlib", "str", "threads", "unix"} = Library
    BY DEF Library
  <1>b. {"bigarray", "camlinternal", "dynlink", "lib", "libunix", "ocaml",
         "profiling", "runtime", "stdlib", "stdlib.a", "str.", "unix.",
         "unixLabels."} = Prefix
    BY DEF Prefix
  <1> USE <1>a, <1>b
  <1>c. \A l : HasMeta(sdk, l) => Exists(Old(l)) \/ (Exists(New(l)) /\ l # "bigarray")
    BY DEF HasMeta, Exists
  <1>1. HasMeta(sdk, "stdlib") => Has(Emit(4), Copy(Lib("stdlib")))
    <2>1. symlink_ocaml_stdlib \in Seq(Op)
      BY OpTypes, PackageTypes, DirTypes, PrefixTypes, FileTypes DEF symlink_ocaml_stdlib
    <2>2. HasMeta(sdk, "stdlib") => Emit(4) = <<Copy(Lib("stdlib"))>> \o symlink_ocaml_stdlib
      BY <1>c DEF Emit, emit_ocaml_stdlib_pkg
    <2> QED
      BY <2>1, <2>2, StartsWithBuild
  <1>2. HasMeta(sdk, "bigarray") => Has(Emit(8), Copy(Lib("bigarray")))
    <2>1. symlink_ocaml_bigarray \in Seq(Op)
      BY OpTypes, PackageTypes, DirTypes, PrefixTypes, FileTypes DEF symlink_ocaml_bigarray
    <2>2. HasMeta(sdk, "bigarray") => Emit(8) = <<Copy(Lib("bigarray"))>> \o symlink_ocaml_bigarray
      BY <1>c DEF Emit, emit_ocaml_bigarray_pkg
    <2> QED
      BY <2>1, <2>2, StartsWithBuild
  <1>3. HasMeta(sdk, "dynlink") => Has(Emit(9), Copy(Lib("dynlink")))
    <2>1. symlink_ocaml_dynlink(ocaml) \in Seq(Op)
      BY OpTypes, PackageTypes, DirTypes, PrefixTypes, FileTypes DEF symlink_ocaml_dynlink
    <2>2. symlink_ocaml_dynlink(New("dynlink")) \in Seq(Op)
      BY OpTypes, PackageTypes, DirTypes, PrefixTypes, FileTypes DEF symlink_ocaml_dynlink
    <2>3. HasMeta(sdk, "dynlink") =>
            \/ Emit(9) = <<Copy(Lib("dynlink"))>> \o symlink_ocaml_dynlink(ocaml)
            \/ Emit(9) = <<Copy(Lib("dynlink"))>> \o symlink_ocaml_dynlink(New("dynlink"))
      BY <1>c DEF Emit, emit_ocaml_dynlink_pkg
    <2> QED
      BY <2>1, <2>2, <2>3, StartsWithBuild
  <1>4. HasMeta(sdk, "ocamldoc") => Has(Emit(10), Copy(Lib("ocamldoc")))
    <2>1. symlink_ocaml_ocamldoc(Old("ocamldoc")) \in Seq(Op)
      BY OpTypes, PackageTypes, DirTypes, PrefixTypes, FileTypes DEF symlink_ocaml_ocamldoc
    <2>2. symlink_ocaml_ocamldoc(New("ocamldoc")) \in Seq(Op)
      BY OpTypes, PackageTypes, DirTypes, PrefixTypes, FileTypes DEF symlink_ocaml_ocamldoc
    <2>3. HasMeta(sdk, "ocamldoc") =>
            \/ Emit(10) = <<Copy(Lib("ocamldoc"))>> \o symlink_ocaml_ocamldoc(Old("ocamldoc"))
            \/ Emit(10) = <<Copy(Lib("ocamldoc"))>> \o symlink_ocaml_ocamldoc(New("ocamldoc"))
      BY <1>c DEF Emit, emit_ocaml_ocamldoc_pkg
    <2> QED
      BY <2>1, <2>2, <2>3, StartsWithBuild
  <1>5. HasMeta(sdk, "profiling") => Has(Emit(11), Copy(Lib("profiling")))
    <2>1. symlink_ocaml_profiling(Old("profiling")) \in Seq(Op)
      BY OpTypes, PackageTypes, DirTypes, PrefixTypes, FileTypes DEF symlink_ocaml_profiling
    <2>2. symlink_ocaml_profiling(New("profiling")) \in Seq(Op)
      BY OpTypes, PackageTypes, DirTypes, PrefixTypes, FileTypes DEF symlink_ocaml_profiling
    <2>3. HasMeta(sdk, "profiling") =>
            \/ Emit(11) = <<Copy(Lib("profiling"))>> \o symlink_ocaml_profiling(Old("profiling"))
            \/ Emit(11) = <<Copy(Lib("profiling"))>> \o symlink_ocaml_profiling(New("profiling"))
      BY <1>c DEF Emit, emit_ocaml_profiling_pkg
    <2> QED
      BY <2>1, <2>2, <2>3, StartsWithBuild
  <1>6. HasMeta(sdk, "runtime_events") => Has(Emit(12), Copy(Lib("runtime_events")))
    <2>1. symlink_ocaml_rtevents(ocaml) \in Seq(Op)
      BY OpTypes, PackageTypes, DirTypes, PrefixTypes, FileTypes DEF symlink_ocaml_rtevents
    <2>2. symlink_ocaml_rtevents(New("runtime_events")) \in Seq(Op)
      BY OpTypes, PackageTypes, DirTypes, PrefixTypes, FileTypes DEF symlink_ocaml_rtevents
    <2>3. HasMeta(sdk, "runtime_events") =>
            \/ Emit(12) = <<Copy(Lib("runtime_events"))>> \o symlink_ocaml_rtevents(ocaml)
            \/ Emit(12) = <<Copy(Lib("runtime_events"))>> \o symlink_ocaml_rtevents(New("runtime_events"))
      BY <1>c DEF Emit, emit_ocaml_rtevents_pkg
    <2> QED
      BY <2>1, <2>2, <2>3, StartsWithBuild
  <1>7. HasMeta(sdk, "str") => Has(Emit(13), Copy(Lib("str")))
    <2>1. symlink_ocaml_str(ocaml) \in Seq(Op)
      BY OpTypes, PackageTypes, DirTypes, PrefixTypes, FileTypes DEF symlink_ocaml_str
    <2>2. symlink_ocaml_str(New("str")) \in Seq(Op)
      BY OpTypes, PackageTypes, DirTypes, PrefixTypes, FileTypes DEF symlink_ocaml_str
    <2>3. HasMeta(sdk, "str") =>
            \/ Emit(13) = <<Copy(Lib("str"))>> \o symlink_ocaml_str(ocaml)
            \/ Emit(13) = <<Copy(Lib("str"))>> \o symlink_ocaml_str(New("str"))
      BY <1>c DEF Emit, emit_ocaml_str_pkg
    <2> QED
      BY <2>1, <2>2, <2>3, StartsWithBuild
  <1>8. HasMeta(sdk, "threads") => Has(Emit(14), Copy(Lib("threads")))
    <2>1. symlink_ocaml_threads \in Seq(Op)
      BY OpTypes, PackageTypes, DirTypes, PrefixTypes, FileTypes DEF symlink_ocaml_threads
    <2>2. HasMeta(sdk, "threads") => Emit(14) = <<Copy(Lib("threads"))>> \o symlink_ocaml_threads
      BY <1>c DEF Emit, emit_ocaml_threads_pkg
    <2> QED
      BY <2>1, <2>2, StartsWithBuild
  <1>9. HasMeta(sdk, "unix") => Has(Emit(15), Copy(Lib("unix")))
    <2>1. symlink_ocaml_unix(ocaml) \in Seq(Op) /\ symlink_ocaml_unix(New("unix")) \in Seq(Op)
      <3>1. UNION {StartsWith[p] : p \in {"unix.", "unixLabels.", "libunix"}}
               \in SUBSET File
        BY PrefixTypes
      <3> QED
        BY <3>1, OpTypes, PackageTypes, DirTypes, PrefixTypes, FileTypes DEF symlink_ocaml_unix
    <2>2. symlink_libunix \in Seq(Op)
      BY OpTypes, PackageTypes, DirTypes, PrefixTypes, FileTypes DEF symlink_libunix
    <2>3. HasMeta(sdk, "unix") =>
            \/ Emit(15) = <<Copy(Lib("unix"))>> \o symlink_ocaml_unix(ocaml)
            \/ Emit(15) = <<Copy(Lib("unix"))>> \o symlink_ocaml_unix(New("unix")) \o symlink_libunix
      BY <1>c DEF Emit, emit_ocaml_unix_pkg
    <2> QED
      BY <2>1, <2>2, <2>3, StartsWithBuild, StartsWithBuildTwo
  <1> HIDE <1>a, <1>b
  <1> QED
    BY <1>1, <1>2, <1>3, <1>4, <1>5, <1>6, <1>7, <1>8, <1>9

LEMMA SureKept ==
  ASSUME TypeOK, [Next]_vars
  PROVE  \A l : Sure(l)' <=> Sure(l)
  <1>1. sdk'.compiler = sdk.compiler
    BY DEF Next, Step, vars, SdkBin, Module, Call, Return, WriteBuild,
           CopyBuild, MakeLinks, LinkFails, BuildFails, ReaddirNull, OpamChanges
  <1> QED
    BY <1>1 DEF Sure

LEMMA SureNow ==
  ASSUME TypeOK, NEW l, Sure(l) PROVE HasMeta(sdk, l)
  BY DEF TypeOK, Sure

LEMMA LibraryDueKept ==
  ASSUME TypeOK, [Next]_vars, NEW l \in Library, NEW n \in 1..Steps,
         Sure(l) => Due(n, Copy(Lib(l))), HasMeta(sdk, l) => Has(Emit(n), Copy(Lib(l)))
  PROVE  Sure(l)' => Due(n, Copy(Lib(l)))'
  <1>1. Copy(Lib(l)) \in Op /\ Writes(Copy(Lib(l)))
    BY OpTypes, PackageTypes DEF Writes, Copy
  <1> QED
    BY <1>1, DueKept, SureKept, SureNow

(* What is required of a library whose META file is there resolves,        *)
(* however often opam changes the rest of the switch.                      *)
THEOREM DependentsCorrect == Spec => []DependentsResolve
  <1>1. Init => LibraryDue
    BY DEF Init, LibraryDue, Due
  <1>2. TypeOK /\ LibraryDue /\ [Next]_vars => LibraryDue'
    <2> SUFFICES ASSUME TypeOK, LibraryDue, [Next]_vars PROVE LibraryDue'
      OBVIOUS
    <2>1. sdk \in Installations
      BY DEF TypeOK
    <2>2. \A n \in {4, 8, 9, 10, 11, 12, 13, 14, 15} : n \in 1..Steps
      BY DEF Steps
    <2>3. {"bigarray", "dynlink", "ocamldoc", "profiling", "runtime_events",
           "stdlib", "str", "threads", "unix"} = Library
      BY DEF Library
    <2>4. Sure("stdlib")' => Due(4, Copy(Lib("stdlib")))'
      BY <2>1, <2>2, <2>3, LibraryEmitted, LibraryDueKept DEF LibraryDue
    <2>5. Sure("bigarray")' => Due(8, Copy(Lib("bigarray")))'
      BY <2>1, <2>2, <2>3, LibraryEmitted, LibraryDueKept DEF LibraryDue
    <2>6. Sure("dynlink")' => Due(9, Copy(Lib("dynlink")))'
      BY <2>1, <2>2, <2>3, LibraryEmitted, LibraryDueKept DEF LibraryDue
    <2>7. Sure("ocamldoc")' => Due(10, Copy(Lib("ocamldoc")))'
      BY <2>1, <2>2, <2>3, LibraryEmitted, LibraryDueKept DEF LibraryDue
    <2>8. Sure("profiling")' => Due(11, Copy(Lib("profiling")))'
      BY <2>1, <2>2, <2>3, LibraryEmitted, LibraryDueKept DEF LibraryDue
    <2>9. Sure("runtime_events")' => Due(12, Copy(Lib("runtime_events")))'
      BY <2>1, <2>2, <2>3, LibraryEmitted, LibraryDueKept DEF LibraryDue
    <2>10. Sure("str")' => Due(13, Copy(Lib("str")))'
      BY <2>1, <2>2, <2>3, LibraryEmitted, LibraryDueKept DEF LibraryDue
    <2>11. Sure("threads")' => Due(14, Copy(Lib("threads")))'
      BY <2>1, <2>2, <2>3, LibraryEmitted, LibraryDueKept DEF LibraryDue
    <2>12. Sure("unix")' => Due(15, Copy(Lib("unix")))'
      BY <2>1, <2>2, <2>3, LibraryEmitted, LibraryDueKept DEF LibraryDue
    <2> QED
      BY <2>4, <2>5, <2>6, <2>7, <2>8, <2>9, <2>10, <2>11, <2>12 DEF LibraryDue
  <1>3. LibraryDue /\ Finished => DependentsResolve
    <2> SUFFICES ASSUME LibraryDue, Finished, status = "exit0",
                        NEW l \in Library, Sure(l)
                 PROVE  Lib(l) \in build
      BY DEF DependentsResolve, Sure
    <2>1. \A n \in {4, 8, 9, 10, 11, 12, 13, 14, 15} : n \in 1..Steps
      BY DEF Steps
    <2>2. Copy(Lib(l)).pkg = Lib(l)
      BY DEF Copy
    <2> QED
      BY <2>1, <2>2, DueDone DEF LibraryDue, Library
  <1> QED
    BY <1>1, <1>2, <1>3, TypeCorrect, FinishedCorrect, PTL DEF Spec

-----------------------------------------------------------------------------
(* The executables.                                                        *)

SwitchBinOp == Links(switch_bin, File, <<"bin">>)
SdkBinOp(d) == Links(d, StartsWith["ocaml"], <<"bin">>)

(* The switch's executables are the first links there are.                 *)
SwitchFirst ==
    \/ status \in {"exit1", "killed"}
    \/ step = 1 /\ todo = <<>> /\ links = {}
    \/ step = 2 /\ todo \in {emit_bin, Tail(emit_bin)} /\ links = {}
    \/ \A f \in Entries(switch_bin) : <<<<"bin">>, f, switch_bin>> \in links

CompilerNext ==
    \A d \in {switch_bin, system_bin} :
        sdk.set /\ sdk.sdk_bin = d => LinksDue(1, SdkBinOp(d))

ExecutablesDue == changes = 0 => SwitchFirst /\ CompilerNext

LEMMA ConcatOne ==
  ASSUME NEW S, NEW s \in Seq(S), NEW t \in Seq(S), NEW z \in S,
         Len(t) = Len(s) + 1, \A i \in 1..Len(s) : t[i] = s[i],
         t[Len(s) + 1] = z
  PROVE  s \o <<z>> = t
  <1>1. /\ Append(s, z) \in Seq(S) /\ Len(Append(s, z)) = Len(s) + 1
        /\ \A i \in 1..Len(s) : Append(s, z)[i] = s[i]
        /\ Append(s, z)[Len(s) + 1] = z
    BY AppendProperties
  <1>2. \A i \in 1..(Len(s) + 1) : i \in 1..Len(s) \/ i = Len(s) + 1
    OBVIOUS
  <1>3. Append(s, z) = t
    BY <1>1, <1>2, SeqEqual
  <1> QED
    BY <1>3, AppendIsConcat

LEMMA ConcatOnes ==
  ASSUME NEW S, NEW x \in S, NEW y \in S, NEW z \in S
  PROVE  /\ <<x>> \o <<y>> = <<x, y>>
         /\ (<<x>> \o <<y>>) \o <<z>> = <<x, y, z>>
  <1> DEFINE one == <<x>>  two == <<x, y>>  three == <<x, y, z>>
  <1>1. one \in Seq(S) /\ two \in Seq(S) /\ three \in Seq(S)
    OBVIOUS
  <1>2. /\ Len(two) = Len(one) + 1 /\ two[Len(one) + 1] = y
        /\ \A i \in 1..Len(one) : two[i] = one[i]
    OBVIOUS
  <1>3. /\ Len(three) = Len(two) + 1 /\ three[Len(two) + 1] = z
        /\ \A i \in 1..Len(two) : three[i] = two[i]
    OBVIOUS
  <1> HIDE DEF one, two, three
  <1>4. one \o <<y>> = two
    BY <1>1, <1>2, ConcatOne
  <1>5. two \o <<z>> = three
    BY <1>1, <1>3, ConcatOne
  <1> QED
    BY <1>4, <1>5, Zenon DEF one, two, three

(* What emit_bin comes to first.                                           *)
LEMMA EmitBin ==
  ASSUME sdk \in Installations
  PROVE  /\ emit_bin # <<>> /\ Head(emit_bin) = Build(<<"bin">>)
         /\ Tail(emit_bin) # <<>> /\ Head(Tail(emit_bin)) = SwitchBinOp
         /\ sdk.set => Has(emit_bin, SdkBinOp(sdk.sdk_bin))
  <1> DEFINE b == Build(<<"bin">>)
             s == SwitchBinOp
             c == SdkBinOp(sdk.sdk_bin)
  <1>1. emit_bin = IF sdk.set THEN <<b, s, c>> ELSE <<b, s>>
    <2>1. emit_bin = IF sdk.set THEN (<<b>> \o <<s>>) \o <<c>> ELSE <<b>> \o <<s>>
      BY DEF emit_bin, emit_ocaml_bin_build_file, emit_ocaml_bin_symlinks,
             emit_ocaml_sdkbin_symlinks, SwitchBinOp, SdkBinOp
    <2> HIDE DEF b, s, c
    <2>2. b \in {b, s, c} /\ s \in {b, s, c} /\ c \in {b, s, c}
      OBVIOUS
    <2>3. <<b>> \o <<s>> = <<b, s>> /\ (<<b>> \o <<s>>) \o <<c>> = <<b, s, c>>
      BY <2>2, ConcatOnes
    <2> QED
      BY <2>1, <2>3
  <1> HIDE DEF b, s, c
  <1>2. /\ emit_bin # <<>> /\ Head(emit_bin) = b
        /\ Tail(emit_bin) # <<>> /\ Head(Tail(emit_bin)) = s
    BY <1>1
  <1>3. sdk.set => Has(emit_bin, c)
    <2>1. 3 \in DOMAIN <<b, s, c>> /\ <<b, s, c>>[3] = c
      OBVIOUS
    <2> QED
      BY <1>1, <2>1 DEF Has
  <1> QED
    BY <1>2, <1>3 DEF b, s, c

LEMMA SwitchFirstKept ==
  ASSUME TypeOK, SwitchFirst, [Next]_vars, sdk' = sdk, ~OpamChanges
  PROVE  SwitchFirst'
  <1>a. /\ Entries(switch_bin)' = Entries(switch_bin) /\ emit_bin' = emit_bin
        /\ links \subseteq links'
    BY DEF Entries, Exists, emit_bin, emit_ocaml_bin_build_file,
       emit_ocaml_bin_symlinks, emit_ocaml_sdkbin_symlinks, Next, Step, vars,
       SdkBin, Module, Call, Return, WriteBuild, CopyBuild, MakeLinks,
       LinkFails, BuildFails, ReaddirNull
  <1>b. CASE \A f \in Entries(switch_bin) : <<<<"bin">>, f, switch_bin>> \in links
    BY <1>a, <1>b DEF SwitchFirst
  <1>c. CASE status \in {"exit1", "killed"}
    BY <1>c DEF SwitchFirst, Next, Step, vars, SdkBin, Module, Call, Return,
       WriteBuild, CopyBuild, MakeLinks, LinkFails, BuildFails, ReaddirNull
  <1>d. CASE step = 1 /\ todo = <<>> /\ links = {}
    <2>1. CASE Call
      BY <2>1, <1>a, <1>d DEF Call, Emit, SwitchFirst
    <2>2. CASE UNCHANGED <<step, todo, links>>
      BY <2>2, <1>d DEF SwitchFirst
    <2> QED
      BY <2>1, <2>2, <1>d DEF Next, Step, vars, SdkBin, Module, Return,
         WriteBuild, CopyBuild, MakeLinks, LinkFails, BuildFails, ReaddirNull
  <1>e. CASE step = 2 /\ todo \in {emit_bin, Tail(emit_bin)} /\ links = {}
    <2>0. /\ todo # <<>>
          /\ \/ Head(todo) = Build(<<"bin">>) /\ todo = emit_bin
             \/ Head(todo) = SwitchBinOp
      BY <1>e, EmitBin DEF TypeOK
    <2>1. CASE WriteBuild
      BY <2>0, <2>1, <1>a, <1>e
         DEF WriteBuild, SwitchBinOp, Links, SwitchFirst
    <2>2. CASE MakeLinks
      <3>1. Head(todo) = SwitchBinOp /\ ~Fails(SwitchBinOp)
        BY <2>0, <2>2 DEF MakeLinks, Build, Writes
      <3>2. Entries(switch_bin) \subseteq File
        BY Assumptions DEF TypeOK, Entries, Exists
      <3>3. ASSUME NEW f \in Entries(switch_bin)
            PROVE  <<<<"bin">>, f, switch_bin>> \in links'
        <4>1. f \in Sources(SwitchBinOp) /\ Resolves(switch_bin, f)
          BY <3>1, <3>2, <3>3 DEF Fails, Sources, SwitchBinOp, Links
        <4>2. ~Linked(<<"bin">>, f)
          BY <1>e DEF Linked
        <4> QED
          BY <2>2, <3>1, <4>1, <4>2 DEF MakeLinks, NewLinks, SwitchBinOp, Links
      <3> QED
        BY <1>a, <3>3 DEF SwitchFirst
    <2>3. CASE CopyBuild
      BY <2>0, <2>3 DEF CopyBuild, Build, SwitchBinOp, Links
    <2>4. CASE LinkFails \/ BuildFails \/ ReaddirNull
      BY <2>4 DEF LinkFails, BuildFails, ReaddirNull, SwitchFirst
    <2>5. CASE UNCHANGED <<step, todo, links>>
      BY <2>5, <1>a, <1>e DEF SwitchFirst
    <2> QED
      <3>1. ~Call /\ (SdkBin \/ Module \/ Return => UNCHANGED <<step, todo, links>>)
        BY <2>0 DEF Call, SdkBin, Module, Return
      <3>2. UNCHANGED vars => UNCHANGED <<step, todo, links>>
        BY DEF vars
      <3> QED
        BY <2>1, <2>2, <2>3, <2>4, <2>5, <3>1, <3>2 DEF Next, Step
  <1> QED
    BY <1>b, <1>c, <1>d, <1>e DEF SwitchFirst

LEMMA CompilerNextKept ==
  ASSUME TypeOK, CompilerNext, [Next]_vars, sdk' = sdk
  PROVE  CompilerNext'
  <1> SUFFICES ASSUME NEW d \in {switch_bin, system_bin}, sdk.set, sdk.sdk_bin = d
               PROVE  LinksDue(1, SdkBinOp(d))'
    BY DEF CompilerNext
  <1>1. LinksDue(1, SdkBinOp(d))
    BY DEF CompilerNext
  <1>2. SdkBinOp(d) \in Op /\ SdkBinOp(d).do = "links" /\ SdkBinOp(d).from = d
    <2>1. StartsWith["ocaml"] \in SUBSET File
      BY PrefixTypes DEF Prefix
    <2> QED
      BY <2>1, OpTypes, DirTypes, PackageTypes DEF SdkBinOp, Links
  <1>3. Entries(d)' = Entries(d)
    BY DEF Entries, Exists
  <1>4. Has(Emit(1), SdkBinOp(d))
    BY EmitBin DEF TypeOK, Emit
  <1>5. 1 \in 1..Steps
    BY DEF Steps
  <1> QED
    BY <1>1, <1>2, <1>3, <1>4, <1>5, LinksDueKept

(* For every compiler and every switch: when the tool ends well and opam   *)
(* kept still, bin has all executables of the switch, and those of the     *)
(* compiler fill it up.                                                    *)
THEOREM ExecutablesCorrect == Spec => []Executables
  <1>1. Init => ExecutablesDue
    BY DEF Init, ExecutablesDue, SwitchFirst, CompilerNext, LinksDue
  <1>2. TypeOK /\ ExecutablesDue /\ [Next]_vars => ExecutablesDue'
    <2> SUFFICES ASSUME TypeOK, ExecutablesDue, [Next]_vars, changes' = 0
                 PROVE  (SwitchFirst /\ CompilerNext)'
      BY DEF ExecutablesDue
    <2>1. ~OpamChanges
      BY Assumptions DEF OpamChanges, TypeOK
    <2>2. sdk' = sdk /\ changes = 0
      BY <2>1 DEF Next, Step, vars, SdkBin, Module, Call, Return, WriteBuild,
         CopyBuild, MakeLinks, LinkFails, BuildFails, ReaddirNull
    <2> QED
      BY <2>1, <2>2, SwitchFirstKept, CompilerNextKept DEF ExecutablesDue
  <1>3. TypeOK /\ ExecutablesDue /\ Finished => Executables
    <2> SUFFICES ASSUME TypeOK, ExecutablesDue, Finished, status = "exit0", changes = 0
                 PROVE  /\ \A f \in Entries(switch_bin) :
                              <<<<"bin">>, f, switch_bin>> \in links
                        /\ sdk.set =>
                              \A f \in Entries(sdk.sdk_bin) \cap StartsWith["ocaml"] :
                                  Linked(<<"bin">>, f)
      BY DEF Executables
    <2>1. step = 19 /\ todo = <<>> /\ SwitchFirst /\ CompilerNext
      BY DEF Finished, Steps, ExecutablesDue
    <2>2. \A f \in Entries(switch_bin) : <<<<"bin">>, f, switch_bin>> \in links
      BY <2>1 DEF SwitchFirst
    <2>3. ASSUME sdk.set
          PROVE  \A f \in Entries(sdk.sdk_bin) \cap StartsWith["ocaml"] :
                    Linked(<<"bin">>, f)
      <3>1. PICK d \in {switch_bin, system_bin} : sdk.sdk_bin = d
        BY Assumptions DEF TypeOK
      <3>2. LinksDue(1, SdkBinOp(d))
        BY <2>1, <2>3, <3>1 DEF CompilerNext
      <3> QED
        BY <2>1, <3>1, <3>2 DEF LinksDue, Has, SdkBinOp, Links, Sources
    <2> QED
      BY <2>2, <2>3
  <1> QED
    BY <1>1, <1>2, <1>3, TypeCorrect, FinishedCorrect, PTL DEF Spec

-----------------------------------------------------------------------------
(* The archives.  Of a function that writes a library's BUILD file one of  *)
(* the operations after it links the library's archive; until then it is   *)
(* among those left.                                                       *)

Brings(op, l) ==
    /\ op \in Op /\ op.do = "links" /\ op.pkg = Lib(l)
    /\ OfCompiler(op.from) /\ Archive[l] \in Sources(op)

Coming(s, l) == \E i \in DOMAIN s : Brings(s[i], l)

WritesLib(s, l) == \E i \in DOMAIN s : Writes(s[i]) /\ s[i].pkg = Lib(l)

ArchivesDue ==
    \A l \in WithArchive :
        Lib(l) \in build \/ WritesLib(todo, l)
            => Linked(Lib(l), Archive[l]) \/ Coming(todo, l)

(* The packages that a function is about.                                  *)
Within(s, P) == s \in Seq(Op) /\ \A i \in DOMAIN s : s[i].pkg \in P

LEMMA WithinOne ==
  ASSUME NEW P, NEW op \in Op, op.pkg \in P
  PROVE  Within(<<op>>, P)
  BY DEF Within

LEMMA WithinConcat ==
  ASSUME NEW P, NEW s, NEW t, Within(s, P), Within(t, P)
  PROVE  Within(s \o t, P)
  <1>1. s \in Seq(Op) /\ t \in Seq(Op)
    BY DEF Within
  <1>2. s \o t \in Seq(Op)
    BY <1>1
  <1>3. ASSUME NEW i \in DOMAIN (s \o t)
        PROVE  (s \o t)[i].pkg \in P
    <2>1. Has(s \o t, (s \o t)[i])
      BY DEF Has
    <2>2. Has(s, (s \o t)[i]) \/ Has(t, (s \o t)[i])
      BY <1>1, <2>1, HasConcat
    <2> QED
      BY <2>2 DEF Has, Within
  <1> QED
    BY <1>2, <1>3 DEF Within

(* All packages but those of the libraries with archives.                  *)
Other == Package \ {Lib(l) : l \in WithArchive}

LEMMA OtherPackages ==
  /\ <<"bin">> \in Other /\ <<"config">> \in Other /\ <<"version">> \in Other
  /\ Lib("ffi") \in Other /\ Lib("stublibs") \in Other
  /\ Lib("ocamldoc") \in Other /\ Lib("profiling") \in Other
  /\ Toolchain \subseteq Other /\ CompilerLibPackages \subseteq Other
  /\ Runtime \subseteq Other /\ <<"runtime">> \in Other
  <1>1. \A l \in WithArchive : l \in Library /\ l # "ocamldoc" /\ l # "profiling"
    BY DEF WithArchive
  <1>2. \A l \in Library : l # "ffi" /\ l # "stublibs"
    BY DEF Library
  <1>3. {"ocamldoc", "profiling"} \subseteq Library
    BY DEF Library
  <1>4. /\ Lib("ffi") \in Other /\ Lib("stublibs") \in Other
        /\ Lib("ocamldoc") \in Other /\ Lib("profiling") \in Other
    BY <1>1, <1>2, <1>3, PackageTypes DEF Other, Lib
  <1>5. \A l \in WithArchive : /\ <<"bin">> # Lib(l) /\ <<"config">> # Lib(l)
                              /\ <<"version">> # Lib(l) /\ <<"runtime">> # Lib(l)
    BY DEF Lib
  <1>6. \A l \in WithArchive : Lib(l) \notin Toolchain
    BY DEF Lib, Toolchain
  <1>7. \A l \in WithArchive : Lib(l) \notin CompilerLibPackages
    BY <1>1 DEF Lib, CompilerLibPackages, CompilerLib, Library
  <1>8. \A l \in WithArchive : Lib(l) \notin Runtime
    BY DEF Lib, Runtime
  <1> QED
    BY <1>4, <1>5, <1>6, <1>7, <1>8, PackageTypes DEF Other

LEMMA OthersWithin ==
  ASSUME sdk \in Installations
  PROVE  \A n \in {1, 2, 3, 5, 6, 7, 10, 11, 16, 17, 18} : Within(Emit(n), Other)
  <1> USE OpTypes, PackageTypes, DirTypes, PrefixTypes, FileTypes, OtherPackages
  <1>a. {"bigarray", "camlinternal", "dynlink", "lib", "libunix", "ocaml",
         "profiling", "runtime", "stdlib", "stdlib.a", "str.", "unix.",
         "unixLabels."} = Prefix
    BY DEF Prefix
  <1>b. sdk.sdk_bin \in Dir
    BY Assumptions
  <1>c. \A l \in {"ocamldoc", "profiling"} : Old(l) \in Dir /\ New(l) \in Dir
    BY DEF Library
  <1>d. Within(<<>>, Other)
    BY DEF Within
  <1> USE <1>a, <1>b, <1>c
  <1>e. \A p \in Other : Within(<<Build(p)>>, Other) /\ Within(<<Copy(p)>>, Other)
    BY WithinOne DEF Other, Build, Copy
  <1>f. \A d \in Dir, names \in SUBSET File, p \in Other :
           Within(<<Links(d, names, p)>>, Other)
    BY WithinOne DEF Other, Links
  <1>1. Within(emit_bin, Other)
    <2>1. /\ Within(emit_ocaml_bin_build_file, Other)
          /\ Within(emit_ocaml_bin_symlinks, Other)
          /\ Within(emit_ocaml_sdkbin_symlinks, Other)
      BY <1>e, <1>f DEF emit_ocaml_bin_build_file, emit_ocaml_bin_symlinks,
                        emit_ocaml_sdkbin_symlinks
    <2> QED
      BY <2>1, WithinConcat DEF emit_bin
  <1>2. Within(emit_ocaml_toolchain_buildfiles, Other)
    BY EmitTypes DEF emit_ocaml_toolchain_buildfiles, Toolchain, Within, Copy
  <1>3. Within(emit_ocaml_config_pkg, Other)
    BY <1>e DEF emit_ocaml_config_pkg
  <1>5. Within(emit_ocaml_expunge, Other)
    BY WithinOne DEF emit_ocaml_expunge, symlink_ocaml_expunge, Must
  <1>6. Within(emit_ocaml_stublibs, Other)
    BY <1>e, <1>f, WithinConcat DEF emit_ocaml_stublibs, emit_ocaml_stublibs_symlinks
  <1>7. Within(emit_ocaml_compiler_libs_pkg, Other)
    <2>1. Within(symlink_ocaml_compiler_libs, Other)
      BY <1>f DEF symlink_ocaml_compiler_libs, CompilerLibPackages
    <2>2. Within(<<Copy(<<"compiler-libs">>),
                   Copy(<<"compiler-libs", "common">>),
                   Copy(<<"compiler-libs", "bytecomp">>),
                   Copy(<<"compiler-libs", "optcomp">>),
                   Copy(<<"compiler-libs", "toplevel">>),
                   Copy(<<"compiler-libs", "native-toplevel">>)>>, Other)
      <3>1. \A c \in CompilerLib : <<"compiler-libs", c>> \in Other
        BY DEF CompilerLibPackages
      <3>2. {"common", "bytecomp", "optcomp", "toplevel", "native-toplevel"}
               = CompilerLib
        BY DEF CompilerLib
      <3>3. <<"compiler-libs">> \in Other
        BY DEF CompilerLibPackages
      <3>4. \A p \in Other : Copy(p) \in Op /\ Copy(p).pkg \in Other
        BY DEF Other, Copy
      <3> QED
        BY <3>1, <3>2, <3>3, <3>4 DEF Within
    <2> QED
      BY <2>1, <2>2, WithinConcat DEF emit_ocaml_compiler_libs_pkg
  <1>10. Within(emit_ocaml_ocamldoc_pkg, Other)
    BY <1>d, <1>e, <1>f, WithinConcat DEF emit_ocaml_ocamldoc_pkg, symlink_ocaml_ocamldoc
  <1>11. Within(emit_ocaml_profiling_pkg, Other)
    BY <1>d, <1>e, <1>f, WithinConcat DEF emit_ocaml_profiling_pkg, symlink_ocaml_profiling
  <1>16. Within(emit_ocaml_runtime_pkg, Other)
    <2>1. /\ Within(symlink_ocaml_runtime_libs, Other)
          /\ Within(symlink_ocaml_runtime_compiler_libs, Other)
      BY <1>f DEF symlink_ocaml_runtime_libs, symlink_ocaml_runtime_compiler_libs
    <2>2. Within(<<Copy(<<"runtime">>), Copy(<<"runtime", "sys">>),
                   Copy(<<"runtime", "vm">>)>>, Other)
      <3>1. \A p \in Other : Copy(p) \in Op /\ Copy(p).pkg \in Other
        BY DEF Other, Copy
      <3> QED
        BY <3>1 DEF Within, Runtime
    <2> QED
      BY <2>1, <2>2, WithinConcat DEF emit_ocaml_runtime_pkg
  <1>17. Within(emit_ocaml_c_ffi_pkg, Other)
    BY <1>e, <1>f, WithinConcat DEF emit_ocaml_c_ffi_pkg, symlink_ocaml_c_hdrs
  <1>18. Within(emit_ocaml_version, Other)
    BY <1>e DEF emit_ocaml_version
  <1> HIDE OpTypes, PackageTypes, DirTypes, PrefixTypes, FileTypes, OtherPackages,
           <1>a, <1>b, <1>c
  <1> QED
    BY <1>1, <1>2, <1>3, <1>5, <1>6, <1>7, <1>10, <1>11, <1>16, <1>17, <1>18 DEF Emit

(* A function that is about a library either finds it nowhere, or one of   *)
(* its operations links the archive.                                       *)
Provides(s, l) == Within(s, {Lib(l)}) /\ (s = <<>> \/ Coming(s, l))

LEMMA LinksBrings ==
  ASSUME sdk \in Installations, NEW l \in Library, NEW d \in Dir,
         NEW names \in SUBSET File, OfCompiler(d), Archive[l] \in names,
         Keeps(sdk, d, l)
  PROVE  Brings(Links(d, names, Lib(l)), l)
  BY OpTypes, PackageTypes DEF Brings, Links, Sources, Entries, Exists, Keeps

(* The two kinds of functions: the links are made after the BUILD file,    *)
(* and the C libraries before or after them.                               *)
LEMMA ProvidesLinks ==
  ASSUME NEW l \in Library, NEW op, Brings(op, l)
  PROVE  Provides(<<Copy(Lib(l))>> \o <<op>>, l)
  <1>1. Copy(Lib(l)) \in Op /\ Copy(Lib(l)).pkg = Lib(l) /\ op \in Op /\ op.pkg = Lib(l)
    BY OpTypes, PackageTypes DEF Copy, Brings
  <1>2. Within(<<Copy(Lib(l))>>, {Lib(l)}) /\ Within(<<op>>, {Lib(l)})
    BY <1>1, WithinOne
  <1>3. Has(<<Copy(Lib(l))>> \o <<op>>, op)
    <2>1. <<Copy(Lib(l))>> \in Seq(Op) /\ <<op>> \in Seq(Op)
      BY <1>1
    <2> QED
      BY <2>1, HasOne, HasConcat
  <1> QED
    BY <1>2, <1>3, WithinConcat DEF Provides, Coming, Has

LEMMA ProvidesMore ==
  ASSUME NEW l \in Library, NEW s, NEW t, Coming(s, l) \/ Coming(t, l),
         Within(s, {Lib(l)}), Within(t, {Lib(l)})
  PROVE  Provides(s \o t, l)
  <1>1. s \in Seq(Op) /\ t \in Seq(Op)
    BY DEF Within
  <1>2. PICK op : Brings(op, l) /\ (Has(s, op) \/ Has(t, op))
    BY DEF Coming, Has
  <1>3. Has(s \o t, op)
    BY <1>1, <1>2, HasConcat
  <1> QED
    BY <1>2, <1>3, WithinConcat DEF Provides, Coming, Has

(* Where a library that is found has its archive.                          *)
LEMMA ArchivePlaces ==
  ASSUME sdk \in Installations
  PROVE  /\ \A l \in {"bigarray", "dynlink", "runtime_events", "str", "unix"} :
               Exists(Old(l)) => Keeps(sdk, ocaml, l)
         /\ \A l \in {"dynlink", "runtime_events", "str", "unix"} :
               Exists(New(l)) => Keeps(sdk, New(l), l)
         /\ Exists(Old("stdlib")) \/ Exists(New("stdlib")) => Keeps(sdk, ocaml, "stdlib")
         /\ Exists(Old("threads")) \/ Exists(New("threads"))
               => Keeps(sdk, New("threads"), "threads")
  <1>1. BeforeOCaml5(sdk) \/ SinceOCaml5(sdk)
    BY LibrariesPlaced
  <1>2. WithArchive = {"bigarray", "dynlink", "runtime_events", "stdlib", "str",
                       "threads", "unix"}
    BY DEF WithArchive, Library
  <1>3. CASE BeforeOCaml5(sdk)
    BY <1>2, <1>3 DEF BeforeOCaml5, Exists
  <1>4. CASE SinceOCaml5(sdk)
    BY <1>2, <1>4 DEF SinceOCaml5, Exists
  <1> QED
    BY <1>1, <1>3, <1>4

LEMMA ArchivesProvided ==
  ASSUME sdk \in Installations
  PROVE  /\ Provides(Emit(4), "stdlib")
         /\ Provides(Emit(8), "bigarray")
         /\ Provides(Emit(9), "dynlink")
         /\ Provides(Emit(12), "runtime_events")
         /\ Provides(Emit(13), "str")
         /\ Provides(Emit(14), "threads")
         /\ Provides(Emit(15), "unix")
  <1>a. {"bigarray", "dynlink", "runtime_events", "stdlib", "str", "threads",
         "unix"} \subseteq Library
    BY DEF Library
  <1>b. {"bigarray", "camlinternal", "dynlink", "lib", "libunix", "ocaml",
         "profiling", "runtime", "stdlib", "stdlib.a", "str.", "unix.",
         "unixLabels."} = Prefix
    BY DEF Prefix
  <1>c. /\ ocaml \in Dir /\ OfCompiler(ocaml)
        /\ \A l \in Library : New(l) \in Dir /\ OfCompiler(New(l))
    BY DirTypes DEF OfCompiler
  <1>d. \A l : Provides(<<>>, l)
    BY DEF Provides, Within
  <1>4. Provides(Emit(4), "stdlib")
    <2>1. CASE Exists(Old("stdlib")) \/ Exists(New("stdlib"))
      <3>1. StartsWith["stdlib"] \cup StartsWith["camlinternal"] \in SUBSET File
        BY <1>b, PrefixTypes
      <3>2. Archive["stdlib"] \in StartsWith["stdlib"] \cup StartsWith["camlinternal"]
        BY LibrariesPlaced
      <3>3. Brings(Links(ocaml, StartsWith["stdlib"] \cup StartsWith["camlinternal"],
                         Lib("stdlib")), "stdlib")
        BY <1>a, <1>c, <2>1, <3>1, <3>2, ArchivePlaces, LinksBrings
      <3> QED
        BY <1>a, <2>1, <3>3, ProvidesLinks
           DEF Emit, emit_ocaml_stdlib_pkg, symlink_ocaml_stdlib
    <2>2. CASE ~(Exists(Old("stdlib")) \/ Exists(New("stdlib")))
      BY <1>d, <2>2 DEF Emit, emit_ocaml_stdlib_pkg
    <2> QED
      BY <2>1, <2>2
  <1>8. Provides(Emit(8), "bigarray")
    <2>1. Exists(Old("bigarray")) =>
             Brings(Links(ocaml, StartsWith["bigarray"], Lib("bigarray")), "bigarray")
      BY <1>a, <1>b, <1>c, ArchivePlaces, LinksBrings, LibrariesPlaced, PrefixTypes
    <2>2. Exists(Old("bigarray")) =>
             Provides(<<Copy(Lib("bigarray"))>> \o symlink_ocaml_bigarray, "bigarray")
      BY <1>a, <2>1, ProvidesLinks DEF symlink_ocaml_bigarray
    <2> QED
      BY <1>d, <2>2 DEF Emit, emit_ocaml_bigarray_pkg
  <1>9. Provides(Emit(9), "dynlink")
    <2>1. ASSUME NEW d \in Dir, OfCompiler(d), Keeps(sdk, d, "dynlink")
          PROVE  Provides(<<Copy(Lib("dynlink"))>> \o symlink_ocaml_dynlink(d), "dynlink")
      <3>1. Brings(Links(d, StartsWith["dynlink"], Lib("dynlink")), "dynlink")
        BY <1>a, <1>b, <2>1, LinksBrings, LibrariesPlaced, PrefixTypes
      <3> QED
        BY <1>a, <3>1, ProvidesLinks DEF symlink_ocaml_dynlink
    <2>2. /\ Exists(Old("dynlink")) => Keeps(sdk, ocaml, "dynlink")
          /\ Exists(New("dynlink")) => Keeps(sdk, New("dynlink"), "dynlink")
      BY ArchivePlaces
    <2> QED
      BY <1>a, <1>c, <1>d, <2>1, <2>2 DEF Emit, emit_ocaml_dynlink_pkg
  <1>12. Provides(Emit(12), "runtime_events")
    <2>1. ASSUME NEW d \in Dir, OfCompiler(d), Keeps(sdk, d, "runtime_events")
          PROVE  Provides(<<Copy(Lib("runtime_events"))>> \o symlink_ocaml_rtevents(d),
                          "runtime_events")
      <3>1. Brings(Links(d, StartsWith["runtime"], Lib("runtime_events")), "runtime_events")
        BY <1>a, <1>b, <2>1, LinksBrings, LibrariesPlaced, PrefixTypes
      <3> QED
        BY <1>a, <3>1, ProvidesLinks DEF symlink_ocaml_rtevents
    <2>2. /\ Exists(Old("runtime_events")) => Keeps(sdk, ocaml, "runtime_events")
          /\ Exists(New("runtime_events"))
                => Keeps(sdk, New("runtime_events"), "runtime_events")
      BY ArchivePlaces
    <2> QED
      BY <1>a, <1>c, <1>d, <2>1, <2>2 DEF Emit, emit_ocaml_rtevents_pkg
  <1>13. Provides(Emit(13), "str")
    <2>1. ASSUME NEW d \in Dir, OfCompiler(d), Keeps(sdk, d, "str")
          PROVE  Provides(<<Copy(Lib("str"))>> \o symlink_ocaml_str(d), "str")
      <3>1. Brings(Links(d, StartsWith["str."], Lib("str")), "str")
        BY <1>a, <1>b, <2>1, LinksBrings, LibrariesPlaced, PrefixTypes
      <3> QED
        BY <1>a, <3>1, ProvidesLinks DEF symlink_ocaml_str
    <2>2. /\ Exists(Old("str")) => Keeps(sdk, ocaml, "str")
          /\ Exists(New("str")) => Keeps(sdk, New("str"), "str")
      BY ArchivePlaces
    <2> QED
      BY <1>a, <1>c, <1>d, <2>1, <2>2 DEF Emit, emit_ocaml_str_pkg
  <1>14. Provides(Emit(14), "threads")
    <2> DEFINE a == Must("libthreads.a", Lib("threads"))
               b == Must("libthreadsnat.a", Lib("threads"))
               c == Links(New("threads"), File, Lib("threads"))
    <2>1. CASE Exists(Old("threads")) \/ Exists(New("threads"))
      <3>1. Brings(c, "threads")
        BY <1>a, <1>c, <2>1, ArchivePlaces, LinksBrings, Assumptions
      <3>2. /\ a \in Op /\ b \in Op /\ c \in Op
            /\ a.pkg = Lib("threads") /\ b.pkg = Lib("threads") /\ c.pkg = Lib("threads")
        BY <1>a, <1>c, OpTypes, PackageTypes, FileTypes DEF Must, Links
      <3>3. symlink_ocaml_threads = <<a, b, c>>
        BY DEF symlink_ocaml_threads
      <3> HIDE DEF a, b, c
      <3>4. Within(<<a, b, c>>, {Lib("threads")})
        BY <3>2 DEF Within
      <3>5. Coming(<<a, b, c>>, "threads")
        <4>1. 3 \in DOMAIN <<a, b, c>> /\ <<a, b, c>>[3] = c
          OBVIOUS
        <4> QED
          BY <3>1, <4>1 DEF Coming
      <3>6. Within(<<Copy(Lib("threads"))>>, {Lib("threads")})
        BY <1>a, OpTypes, PackageTypes, WithinOne DEF Copy
      <3>7. Provides(<<Copy(Lib("threads"))>> \o <<a, b, c>>, "threads")
        BY <1>a, <3>4, <3>5, <3>6, ProvidesMore
      <3> QED
        BY <2>1, <3>3, <3>7 DEF Emit, emit_ocaml_threads_pkg
    <2>2. CASE ~(Exists(Old("threads")) \/ Exists(New("threads")))
      BY <1>d, <2>2 DEF Emit, emit_ocaml_threads_pkg
    <2> QED
      BY <2>1, <2>2
  <1>15. Provides(Emit(15), "unix")
    <2> DEFINE names == UNION {StartsWith[p] : p \in {"unix.", "unixLabels.", "libunix"}}
    <2>a. names \in SUBSET File /\ Archive["unix"] \in names
      BY <1>b, PrefixTypes, LibrariesPlaced
    <2>1. ASSUME NEW d \in Dir, OfCompiler(d), Keeps(sdk, d, "unix")
          PROVE  Provides(<<Copy(Lib("unix"))>> \o symlink_ocaml_unix(d), "unix")
      <3>1. Brings(Links(d, names, Lib("unix")), "unix")
        BY <1>a, <2>a, <2>1, LinksBrings
      <3> QED
        BY <1>a, <3>1, ProvidesLinks DEF symlink_ocaml_unix
    <2>2. /\ Exists(Old("unix")) => Keeps(sdk, ocaml, "unix")
          /\ Exists(New("unix")) => Keeps(sdk, New("unix"), "unix")
      BY ArchivePlaces
    <2>3. Within(symlink_libunix, {Lib("unix")})
      <3>1. \A f \in {"libunixnat.a", "libunixbyt.a", "libunix.a"} :
               /\ Try({f}, Lib("unix")) \in Op
               /\ Try({f}, Lib("unix")).pkg = Lib("unix")
        BY <1>a, OpTypes, PackageTypes, FileTypes DEF Try
      <3>2. \A x, y \in Op : x.pkg = Lib("unix") /\ y.pkg = Lib("unix")
               => Within(<<x, y>>, {Lib("unix")}) /\ Within(<<x>>, {Lib("unix")})
        BY DEF Within
      <3> QED
        BY <3>1, <3>2 DEF symlink_libunix
    <2>4. ASSUME NEW s, Provides(s, "unix"), Coming(s, "unix")
          PROVE  Provides(s \o symlink_libunix, "unix")
      BY <1>a, <2>3, <2>4, ProvidesMore DEF Provides
    <2>5. CASE Exists(Old("unix"))
      BY <1>c, <2>1, <2>2, <2>5 DEF Emit, emit_ocaml_unix_pkg
    <2>6. CASE ~Exists(Old("unix")) /\ Exists(New("unix"))
      <3> DEFINE s == <<Copy(Lib("unix"))>> \o symlink_ocaml_unix(New("unix"))
      <3>1. Provides(s, "unix")
        BY <1>a, <1>c, <2>1, <2>2, <2>6
      <3>2. s # <<>>
        BY DEF symlink_ocaml_unix
      <3>3. Emit(15) = s \o symlink_libunix
        BY <2>6 DEF Emit, emit_ocaml_unix_pkg
      <3> HIDE DEF s
      <3>4. Coming(s, "unix")
        BY <3>1, <3>2 DEF Provides
      <3> QED
        BY <2>4, <3>1, <3>3, <3>4
    <2>7. CASE ~Exists(Old("unix")) /\ ~Exists(New("unix"))
      BY <1>d, <2>7 DEF Emit, emit_ocaml_unix_pkg
    <2> QED
      BY <2>5, <2>6, <2>7
  <1> QED
    BY <1>4, <1>8, <1>9, <1>12, <1>13, <1>14, <1>15

(* What a call brings: with the BUILD file of a library also its archive.  *)
LEMMA CallBrings ==
  ASSUME sdk \in Installations, NEW n \in 1..Steps, NEW l \in WithArchive,
         WritesLib(Emit(n), l)
  PROVE  Coming(Emit(n), l)
  <1>1. PICK i \in DOMAIN Emit(n) : Emit(n)[i].pkg = Lib(l)
    BY DEF WritesLib
  <1>2. ~Within(Emit(n), Other)
    BY <1>1 DEF Within, Other
  <1>3. ASSUME NEW k \in WithArchive, Provides(Emit(n), k)
        PROVE  Coming(Emit(n), l)
    <2>1. Emit(n) # <<>>
      BY <1>1
    <2>2. Lib(k) = Lib(l)
      BY <1>1, <1>3 DEF Provides, Within
    <2>3. k = l
      BY <2>2 DEF Lib
    <2> QED
      BY <1>3, <2>1, <2>3 DEF Provides
  <1>4. {"bigarray", "dynlink", "runtime_events", "stdlib", "str", "threads",
         "unix"} \subseteq WithArchive
    BY DEF WithArchive, Library
  <1>5. n \in {1, 2, 3, 5, 6, 7, 10, 11, 16, 17, 18} \cup {4, 8, 9, 12, 13, 14, 15}
    BY DEF Steps
  <1>6. n \in {4, 8, 9, 12, 13, 14, 15}
    BY <1>2, <1>5, OthersWithin
  <1> QED
    BY <1>3, <1>4, <1>6, ArchivesProvided

(* The directories of the compiler stay as they are.                       *)
LEMMA CompilerStays ==
  ASSUME TypeOK, [Next]_vars, NEW d \in Dir, OfCompiler(d)
  PROVE  Entries(d)' = Entries(d)
  <1>1. CASE OpamChanges
    <2>1. /\ sdk \in Installations /\ sdk' \in Installations
          /\ sdk.compiler = sdk'.compiler
      BY <1>1 DEF OpamChanges, TypeOK
    <2> QED
      BY <2>1, SameCompiler DEF Entries, Exists
  <1>2. CASE sdk' = sdk
    BY <1>2 DEF Entries, Exists
  <1> QED
    BY <1>1, <1>2 DEF Next, Step, vars, SdkBin, Module, Call, Return,
       WriteBuild, CopyBuild, MakeLinks, LinkFails, BuildFails, ReaddirNull

LEMMA BringsKept ==
  ASSUME TypeOK, [Next]_vars, NEW op, NEW l, Brings(op, l)
  PROVE  Brings(op, l)'
  <1>1. op \in Op /\ op.from \in Dir
    BY DEF Brings, Op
  <1>2. Entries(op.from)' = Entries(op.from)
    BY <1>1, CompilerStays DEF Brings
  <1> QED
    BY <1>2 DEF Brings, Sources, OfCompiler

LEMMA OfTail ==
  ASSUME NEW s \in Seq(Op), s # <<>>, NEW l
  PROVE  /\ WritesLib(Tail(s), l) => WritesLib(s, l)
         /\ Coming(s, l) => Brings(Head(s), l) \/ Coming(Tail(s), l)
  <1>1. ASSUME NEW i \in DOMAIN Tail(s)
        PROVE  i + 1 \in DOMAIN s /\ s[i + 1] = Tail(s)[i]
    OBVIOUS
  <1>2. WritesLib(Tail(s), l) => WritesLib(s, l)
    BY <1>1 DEF WritesLib
  <1>3. ASSUME NEW i \in DOMAIN s, Brings(s[i], l)
        PROVE  Brings(Head(s), l) \/ Coming(Tail(s), l)
    <2>1. s[i] = Head(s) \/ Has(Tail(s), s[i])
      BY <1>3, HeadOrTail DEF Has
    <2> QED
      BY <1>3, <2>1 DEF Has, Coming
  <1> QED
    BY <1>2, <1>3 DEF Coming

(* When the tool ends well, each library that has a BUILD file has its     *)
(* archive next to it, whatever opam does to the META files meanwhile, for *)
(* every compiler that keeps its archives where the comments say.          *)
THEOREM ArchivesLinkedCorrect == Spec => []ArchivesLinked
  <1>1. Init => ArchivesDue
    BY DEF Init, ArchivesDue, WritesLib
  <1>2. TypeOK /\ ArchivesDue /\ [Next]_vars => ArchivesDue'
    <2> SUFFICES ASSUME TypeOK, ArchivesDue, [Next]_vars, NEW l \in WithArchive,
                        (Lib(l) \in build \/ WritesLib(todo, l))'
                 PROVE  Linked(Lib(l), Archive[l])' \/ Coming(todo, l)'
      BY DEF ArchivesDue
    <2>a. Lib(l) \in build \/ WritesLib(todo, l)
             => Linked(Lib(l), Archive[l]) \/ Coming(todo, l)
      BY DEF ArchivesDue
    <2>b. Linked(Lib(l), Archive[l]) => Linked(Lib(l), Archive[l])'
      BY DEF Linked, Next, Step, vars, SdkBin, Module, Call, Return, WriteBuild,
         CopyBuild, MakeLinks, LinkFails, BuildFails, ReaddirNull, OpamChanges
    <2>c. \A op : Brings(op, l) => Brings(op, l)'
      BY BringsKept
    <2>1. CASE UNCHANGED <<todo, build>>
      BY <2>1, <2>a, <2>b, <2>c DEF Coming, WritesLib
    <2>2. CASE Call
      <3>1. todo = <<>> /\ todo' = Emit(step) /\ build' = build /\ step \in 1..Steps
            /\ sdk \in Installations
        BY <2>2 DEF Call, TypeOK, Steps
      <3>2. CASE Lib(l) \in build
        BY <2>a, <2>b, <3>1, <3>2 DEF Coming
      <3>3. CASE Lib(l) \notin build
        <4>1. WritesLib(Emit(step), l)
          BY <3>1, <3>3 DEF WritesLib
        <4>2. Coming(Emit(step), l)
          BY <3>1, <4>1, CallBrings
        <4> QED
          BY <2>c, <3>1, <4>2 DEF Coming
      <3> QED
        BY <3>2, <3>3
    <2>3. CASE WriteBuild \/ CopyBuild
      <3>1. /\ todo \in Seq(Op) /\ todo # <<>> /\ Writes(Head(todo))
            /\ build' = build \cup {Head(todo).pkg}
            /\ todo' = todo \/ todo' = Tail(todo)
        BY <2>3 DEF WriteBuild, CopyBuild, TypeOK, Writes
      <3>2. Lib(l) = Head(todo).pkg => WritesLib(todo, l)
        <4>1. 1 \in DOMAIN todo /\ Head(todo) = todo[1]
          BY <3>1
        <4> QED
          BY <3>1, <4>1 DEF WritesLib
      <3>3. Lib(l) \in build \/ WritesLib(todo, l)
        BY <3>1, <3>2, OfTail DEF WritesLib
      <3>4. ~Brings(Head(todo), l)
        BY <3>1 DEF Brings, Writes
      <3>5. Coming(todo, l) => Coming(todo', l)
        BY <3>1, <3>4, OfTail
      <3> QED
        BY <2>a, <2>b, <2>c, <3>3, <3>5 DEF Coming
    <2>4. CASE MakeLinks
      <3>1. /\ todo \in Seq(Op) /\ todo # <<>> /\ ~Fails(Head(todo))
            /\ todo' = Tail(todo) /\ build' = build
            /\ links' = links \cup NewLinks(Head(todo),
                   {f \in Sources(Head(todo)) : Resolves(Head(todo).from, f)})
        BY <2>4 DEF MakeLinks, TypeOK
      <3>2. Lib(l) \in build \/ WritesLib(todo, l)
        BY <3>1, OfTail DEF WritesLib
      <3>3. CASE Brings(Head(todo), l)
        <4>1. /\ Archive[l] \in Sources(Head(todo)) /\ Head(todo).pkg = Lib(l)
              /\ Head(todo).do = "links"
          BY <3>3 DEF Brings
        <4>2. Resolves(Head(todo).from, Archive[l])
          BY <3>1, <4>1 DEF Fails
        <4>3. CASE Linked(Lib(l), Archive[l])
          BY <2>b, <4>3
        <4>4. CASE ~Linked(Lib(l), Archive[l])
          <5>1. <<Lib(l), Archive[l], Head(todo).from>> \in links'
            BY <3>1, <4>1, <4>2, <4>4 DEF NewLinks
          <5> QED
            BY <5>1 DEF Linked
        <4> QED
          BY <4>3, <4>4
      <3>4. CASE ~Brings(Head(todo), l)
        <4>1. Coming(todo, l) => Coming(todo', l)
          BY <3>1, <3>4, OfTail
        <4> QED
          BY <2>a, <2>b, <2>c, <3>2, <4>1 DEF Coming
      <3> QED
        BY <3>3, <3>4
    <2> QED
      BY <2>1, <2>2, <2>3, <2>4 DEF Next, Step, vars, SdkBin, Module, Return,
         LinkFails, BuildFails, ReaddirNull, OpamChanges
  <1>3. ArchivesDue /\ Finished => ArchivesLinked
    BY DEF ArchivesDue, Finished, ArchivesLinked, Coming
  <1> QED
    BY <1>1, <1>2, <1>3, TypeCorrect, FinishedCorrect, PTL DEF Spec
=============================================================================
