------------------------ MODULE EmitBuildBazelProofs ------------------------
(* Proofs about EmitBuildBazel, for every META tree of every depth.        *)
EXTENDS EmitBuildBazel, SequenceTheorems, WellFoundedInduction, TLAPS

(* The package the active call number k is for, none for k = 0.            *)
Caller(k) == IF k = 0 THEN <<>> ELSE stack[k].pkg

(* The strengthening: the stack of calls is a path in the tree, each call  *)
(* has saved the string its caller was called with, and the next call is   *)
(* for a sub-package of the last.                                          *)
Walk ==
    /\ newlevel = Len(stack)
    /\ pkg_parent = ParentOf(Caller(Len(stack)))
    /\ \A k \in 1..Len(stack) :
          /\ Len(stack[k].pkg) = k
          /\ stack[k].curr_parent = ParentOf(Caller(k - 1))
          /\ stack[k].left \subseteq Children(stack[k].pkg)
    /\ pc = "loop" => stack # <<>>
    /\ pc = "call" =>
          /\ Len(arg) = Len(stack) + 1
          /\ \A i \in 1..Len(stack) : arg[i] = stack[Len(stack)].pkg[i]

IInv == TypeOK /\ (pc \in {"call", "loop"} => Walk)

-----------------------------------------------------------------------------
(* Appending a sub-package's name to the parent string gives the parent    *)
(* string of that sub-package's own sub-packages.                          *)
LEMMA ParentOfAppend ==
    ASSUME NEW pkg \in Seq(Name), pkg # <<>>,
           NEW sub \in Seq(Name), Len(sub) = Len(pkg) + 1
           , \A i \in 1..Len(pkg) : sub[i] = pkg[i]
    PROVE  ParentOf(sub) = Append(ParentOf(pkg), Last(sub))
<1> DEFINE p == ParentOf(pkg)
           q == Append(p, Last(sub))
<1>1. Len(pkg) \in Nat /\ Len(pkg) >= 1
  OBVIOUS
<1>2. p \in Seq(Name \cup {"./"}) /\ Len(p) = Len(pkg)
  <2>1. \A i \in 1..Len(pkg) : pkg[i] \in Name
    OBVIOUS
  <2>2. p \in [1..Len(pkg) -> Name \cup {"./"}]
    BY <2>1 DEF ParentOf
  <2> QED BY <2>2, <1>1
<1>3. Last(sub) \in Name /\ Last(sub) = sub[Len(pkg) + 1]
  BY <1>1 DEF Last
<1>4. q \in Seq(Name \cup {"./"}) /\ Len(q) = Len(pkg) + 1
  BY <1>2, <1>3
<1>5. \A i \in 1..(Len(pkg) + 1) :
         q[i] = IF i = 1 THEN "./" ELSE sub[i]
  <2> SUFFICES ASSUME NEW i \in 1..(Len(pkg) + 1)
               PROVE  q[i] = IF i = 1 THEN "./" ELSE sub[i]
    OBVIOUS
  <2>1. CASE i = Len(pkg) + 1
    BY <2>1, <1>1, <1>2, <1>3
  <2>2. CASE i # Len(pkg) + 1
    <3>1. i \in 1..Len(pkg)
      BY <2>2, <1>1
    <3>2. q[i] = p[i]
      BY <3>1, <1>2, <1>3
    <3>3. p[i] = IF i = 1 THEN "./" ELSE pkg[i]
      BY <3>1 DEF ParentOf
    <3> QED BY <3>1, <3>2, <3>3
  <2> QED BY <2>1, <2>2
<1>6. q = [i \in 1..Len(q) |-> q[i]]
  <2> HIDE DEF q
  <2> QED BY <1>4
<1> HIDE DEF p, q
<1>7. q = [i \in 1..Len(sub) |-> IF i = 1 THEN "./" ELSE sub[i]]
  BY <1>1, <1>4, <1>5, <1>6
<1> QED
  BY <1>7 DEF ParentOf, p, q

(* The parent string of the root's sub-packages.                           *)
LEMMA ParentOfRoot ==
    ASSUME NEW pkg \in Seq(Name), Len(pkg) = 1
    PROVE  ParentOf(pkg) = Append(ParentOf(<<>>), "./")
<1>1. ParentOf(<<>>) = <<>>
  BY DEF ParentOf
<1>2. ParentOf(pkg) = <<"./">>
  BY DEF ParentOf
<1> QED BY <1>1, <1>2

(* The source directory of a package is a directory of the switch.         *)
LEMMA FiledepsType ==
    ASSUME TypeOK
    PROVE  new_filedeps_path \in SwitchDir
<1>1. meta.directory[arg] \in Directory
  BY Assumptions DEF TypeOK
<1>2. /\ meta.directory[arg].kind \in {"none", "stdlib", "redirect", "relative"}
      /\ meta.directory[arg].path \in Seq(Name \cup {"ocaml", Sdk})
  BY <1>1 DEF Directory
<1>3. <<"ocaml">> \in SwitchDir /\ <<Sdk>> \in SwitchDir /\ arg_dir \in SwitchDir
  BY DEF SwitchDir, TypeOK
<1> DEFINE d == meta.directory[arg]
<1>4. CASE d.kind = "none"
  BY <1>3, <1>4 DEF new_filedeps_path, Under
<1>5. CASE d.kind = "stdlib"
  BY <1>2, <1>3, <1>5 DEF new_filedeps_path, Under, SwitchDir
<1>6. CASE d.kind = "redirect"
  BY <1>2, <1>3, <1>6 DEF new_filedeps_path, Under, SwitchDir
<1>7. CASE d.kind = "relative"
  BY <1>2, <1>3, <1>7 DEF new_filedeps_path, Under, SwitchDir
<1> QED
  BY <1>2, <1>4, <1>5, <1>6, <1>7

(* The package of a call has a name.                                       *)
LEMMA ArgType ==
    ASSUME TypeOK
    PROVE  arg \in Seq(Name) /\ arg # <<>> /\ Last(arg) \in Name
<1>1. arg \in Seq(Name) /\ arg # <<>>
  BY Assumptions DEF TypeOK, Package
<1>2. Len(arg) \in 1..Len(arg)
  BY <1>1
<1> QED BY <1>1, <1>2 DEF Last

-----------------------------------------------------------------------------
(* The handler calls emit_build_bazel for the root with an empty stack.    *)
LEMMA InitInv == Init => IInv
<1> SUFFICES ASSUME Init PROVE IInv
  OBVIOUS
<1>1. TypeOK
  <2>1. <<meta.root>> \in meta.paths /\ meta.paths \subseteq Package
    BY Assumptions DEF Init
  <2>2. <<meta.root>> \in SwitchDir
    BY <2>1 DEF Package, SwitchDir
  <2> QED BY <2>1, <2>2 DEF Init, TypeOK, Parent
<1>2. Walk
  <2>1. ParentOf(<<>>) = <<>>
    BY DEF ParentOf
  <2> QED BY <2>1 DEF Init, Walk, Caller
<1> QED BY <1>1, <1>2 DEF IInv

(* A call that only returns: the walk goes on where it was.                *)
LEMMA ReturnInv ==
    ASSUME IInv, pc = "call", Return,
           UNCHANGED <<meta, arg, arg_dir, stack, newlevel, pkg_parent>>
    PROVE  IInv'
<1>1. TypeOK'
  BY DEF IInv, TypeOK, Return
<1>2. ASSUME pc' \in {"call", "loop"} PROVE Walk'
  BY <1>2 DEF IInv, Walk, Return, Caller, Children
<1> QED BY <1>1, <1>2 DEF IInv

(* A BUILD file is written and the walk goes one level down.               *)
LEMMA EmitInv == ASSUME IInv, Emit PROVE IInv'
<1> DEFINE frame == [pkg |-> arg, dir |-> new_filedeps_path,
                     curr_parent |-> pkg_parent, left |-> Children(arg)]
<1> USE DEF IInv
<1>1. /\ pc = "call" /\ pc' = "loop" /\ Walk /\ TypeOK
      /\ stack' = Append(stack, frame) /\ newlevel' = newlevel + 1
      /\ UNCHANGED <<meta, arg, arg_dir>>
  BY DEF Emit
<1>2. arg \in Package /\ arg \in Seq(Name) /\ arg # <<>> /\ Last(arg) \in Name
  BY <1>1, ArgType, Assumptions DEF TypeOK
<1>3. frame \in Frame
  BY <1>1, <1>2, FiledepsType DEF Frame, TypeOK, Children
<1>4. stack \in Seq(Frame) /\ newlevel = Len(stack) /\ Len(stack) \in Nat
  BY <1>1 DEF TypeOK, Walk
<1>5. /\ stack' \in Seq(Frame) /\ Len(stack') = Len(stack) + 1
      /\ stack'[Len(stack) + 1] = frame
      /\ \A k \in 1..Len(stack) : stack'[k] = stack[k]
  BY <1>1, <1>3, <1>4
<1>6. pkg_parent' = ParentOf(arg)
  <2>1. CASE Len(stack) = 0
    <3>1. pkg_parent' = Append(pkg_parent, "./")
      BY <2>1, <1>1, <1>4 DEF Emit
    <3>2. pkg_parent = ParentOf(<<>>) /\ Len(arg) = 1
      BY <2>1, <1>1 DEF Walk, Caller
    <3> QED BY <3>1, <3>2, <1>2, ParentOfRoot
  <2>2. CASE Len(stack) > 0
    <3> DEFINE caller == stack[Len(stack)].pkg
    <3>1. pkg_parent' = Append(pkg_parent, Last(arg))
      BY <2>2, <1>1, <1>4 DEF Emit
    <3>2. pkg_parent = ParentOf(caller)
      BY <2>2, <1>1 DEF Walk, Caller
    <3>3. caller \in Seq(Name) /\ caller # <<>>
      <4>1. stack[Len(stack)] \in Frame
        BY <2>2, <1>4
      <4> QED BY <4>1 DEF Frame, Package
    <3>4. Len(caller) = Len(stack)
      BY <2>2, <1>1, <1>4 DEF Walk
    <3>5. Len(arg) = Len(caller) + 1 /\ \A i \in 1..Len(caller) : arg[i] = caller[i]
      BY <3>4, <1>1 DEF Walk
    <3> HIDE DEF caller
    <3> QED BY <3>1, <3>2, <3>3, <3>5, <1>2, ParentOfAppend
  <2> QED BY <2>1, <2>2, <1>4
<1>7. TypeOK'
  <2>1. pkg_parent' \in Parent
    BY <1>1, <1>2 DEF Emit, TypeOK, Parent
  <2> QED BY <2>1, <1>1, <1>4, <1>5 DEF TypeOK
<1>8. Walk'
  <2>1. newlevel' = Len(stack') /\ stack' # <<>>
    BY <1>1, <1>4, <1>5
  <2>2. pkg_parent' = ParentOf(Caller(Len(stack)))'
    BY <1>4, <1>5, <1>6 DEF Caller
  <2>3. ASSUME NEW k \in 1..Len(stack')
        PROVE  /\ Len(stack'[k].pkg) = k
               /\ stack'[k].curr_parent = ParentOf(Caller(k - 1))'
               /\ (stack[k].left \subseteq Children(stack[k].pkg))'
    <3>1. CASE k = Len(stack) + 1
      <4>1. Len(arg) = k /\ stack'[k].pkg = arg
        BY <3>1, <1>1, <1>4, <1>5 DEF Walk
      <4>2. pkg_parent = ParentOf(Caller(k - 1))'
        BY <3>1, <1>1, <1>4, <1>5 DEF Walk, Caller
      <4>3. (stack[k].left \subseteq Children(stack[k].pkg))'
        BY <3>1, <4>1, <1>1, <1>5 DEF Children
      <4> QED BY <3>1, <4>1, <4>2, <4>3, <1>5
    <3>2. CASE k # Len(stack) + 1
      <4>1. k \in 1..Len(stack) /\ stack'[k] = stack[k]
        BY <3>2, <1>4, <1>5
      <4>2. Caller(k - 1)' = Caller(k - 1)
        BY <4>1, <1>4, <1>5 DEF Caller
      <4> QED BY <4>1, <4>2, <1>1 DEF Walk, ParentOf, Children
    <3> QED BY <3>1, <3>2
  <2> QED BY <2>1, <2>2, <2>3, <1>1 DEF Walk
<1> QED BY <1>7, <1>8
(* The loop of emit_bazel_subpackages takes its next sub-package.          *)
LEMMA NextSubpackageInv == ASSUME IInv, NextSubpackage PROVE IInv'
<1> USE DEF IInv
<1> DEFINE top == Len(stack)
<1>1. /\ pc = "loop" /\ pc' = "call" /\ Walk /\ TypeOK
      /\ UNCHANGED <<meta, newlevel, pkg_parent, files>>
  BY DEF NextSubpackage
<1>2. stack \in Seq(Frame) /\ top \in Nat /\ top >= 1 /\ stack[top] \in Frame
  <2>1. stack \in Seq(Frame) /\ stack # <<>>
    BY <1>1 DEF TypeOK, Walk
  <2> QED BY <2>1
<1>3. PICK n \in stack[top].left :
         /\ stack' = [stack EXCEPT ![top].left = @ \ {n}]
         /\ arg' = Append(stack[top].pkg, n)
         /\ arg_dir' = stack[top].dir
  BY DEF NextSubpackage, Top
<1>4. /\ Len(stack[top].pkg) = top /\ stack[top].pkg \in Seq(Name)
      /\ n \in Name /\ arg' \in meta.paths
  BY <1>1, <1>2, <1>3 DEF Walk, Children, Frame, Package
<1>5. /\ stack' \in Seq(Frame) /\ Len(stack') = top
      /\ \A k \in 1..top : /\ stack'[k].pkg = stack[k].pkg
                           /\ stack'[k].curr_parent = stack[k].curr_parent
                           /\ stack'[k].left \subseteq stack[k].left
  <2>1. [stack[top] EXCEPT !.left = @ \ {n}] \in Frame
    BY <1>2 DEF Frame
  <2> QED BY <1>2, <1>3, <2>1
<1>6. TypeOK'
  BY <1>1, <1>2, <1>3, <1>4, <1>5 DEF TypeOK, Frame
<1>7. Walk'
  <2>1. \A k \in 0..top : Caller(k)' = Caller(k)
    BY <1>2, <1>5 DEF Caller
  <2>2. newlevel' = Len(stack') /\ pkg_parent' = ParentOf(Caller(Len(stack)))'
    BY <1>1, <1>2, <1>5, <2>1 DEF Walk, ParentOf
  <2>3. ASSUME NEW k \in 1..Len(stack')
        PROVE  /\ Len(stack'[k].pkg) = k
               /\ stack'[k].curr_parent = ParentOf(Caller(k - 1))'
               /\ (stack[k].left \subseteq Children(stack[k].pkg))'
    <3>1. k \in 1..top /\ Caller(k - 1)' = Caller(k - 1)
      BY <1>2, <1>5, <2>1
    <3> QED BY <3>1, <1>1, <1>5 DEF Walk, ParentOf, Children
  <2>4. /\ Len(arg') = Len(stack') + 1
        /\ \A i \in 1..Len(stack') : arg'[i] = stack'[Len(stack')].pkg[i]
    BY <1>2, <1>3, <1>4, <1>5
  <2> QED BY <1>1, <2>2, <2>3, <2>4 DEF Walk
<1> QED BY <1>6, <1>7

(* A stack without its last element.                                       *)
LEMMA Popped ==
    ASSUME NEW S, NEW s \in Seq(S), Len(s) >= 1
    PROVE  /\ SubSeq(s, 1, Len(s) - 1) \in Seq(S)
           /\ Len(SubSeq(s, 1, Len(s) - 1)) = Len(s) - 1
           /\ \A k \in 1..(Len(s) - 1) : SubSeq(s, 1, Len(s) - 1)[k] = s[k]
<1> DEFINE top == Len(s)
           front == SubSeq(s, 1, top - 1)
<1>1. top \in Nat /\ top - 1 \in Int /\ \A k \in 1..(top - 1) : s[k] \in S
  OBVIOUS
<1>2. /\ front \in Seq(S)
      /\ Len(front) = IF 1 <= top - 1 THEN (top - 1) - 1 + 1 ELSE 0
      /\ \A k \in 1..((top - 1) - 1 + 1) : front[k] = s[1 + k - 1]
  BY <1>1, SubSeqProperties, 1 \in Int
<1>3. Len(front) = top - 1
  <2>1. \A n \in Nat : n >= 1 => (IF 1 <= n - 1 THEN (n - 1) - 1 + 1 ELSE 0) = n - 1
    OBVIOUS
  <2> HIDE DEF top, front
  <2>2. top >= 1
    BY DEF top
  <2> QED BY <1>1, <1>2, <2>1, <2>2
<1>4. ASSUME NEW k \in 1..(top - 1) PROVE front[k] = s[k]
  <2>1. k \in 1..((top - 1) - 1 + 1) /\ 1 + k - 1 = k
    BY <1>1
  <2> QED BY <2>1, <1>2
<1> QED BY <1>2, <1>3, <1>4

(* The loop ends: the string is put back, the level decremented.           *)
LEMMA SubpackagesEndInv == ASSUME IInv, SubpackagesEnd PROVE IInv'
<1> USE DEF IInv
<1> DEFINE top == Len(stack)
<1>1. /\ pc = "loop" /\ Walk /\ TypeOK
      /\ pc' = IF top = 1 THEN "done" ELSE "loop"
      /\ newlevel' = newlevel - 1
      /\ pkg_parent' = stack[top].curr_parent
      /\ stack' = SubSeq(stack, 1, top - 1)
      /\ UNCHANGED <<meta, arg, arg_dir, files>>
  BY DEF SubpackagesEnd, Top
<1>2. stack \in Seq(Frame) /\ top \in Nat /\ top >= 1 /\ stack[top] \in Frame
  <2>1. stack \in Seq(Frame) /\ stack # <<>>
    BY <1>1 DEF TypeOK, Walk
  <2> QED BY <2>1
<1>3. /\ stack' \in Seq(Frame) /\ Len(stack') = top - 1
      /\ \A k \in 1..(top - 1) : stack'[k] = stack[k]
  BY <1>1, <1>2, Popped
<1>4. TypeOK'
  BY <1>1, <1>2, <1>3 DEF TypeOK, Frame, Walk
<1>5. Walk'
  <2>1. \A k \in 0..(top - 1) : Caller(k)' = Caller(k)
    BY <1>2, <1>3 DEF Caller
  <2>2. /\ newlevel' = Len(stack')
        /\ pkg_parent' = ParentOf(Caller(Len(stack)))'
    <3>1. pkg_parent' = ParentOf(Caller(top - 1)) /\ newlevel' = top - 1
      BY <1>1, <1>2 DEF Walk
    <3>2. Caller(Len(stack))' = Caller(top - 1)
      BY <1>2, <1>3, <2>1 DEF Caller
    <3> QED BY <3>1, <3>2, <1>3 DEF ParentOf
  <2>3. ASSUME NEW k \in 1..Len(stack')
        PROVE  /\ Len(stack'[k].pkg) = k
               /\ stack'[k].curr_parent = ParentOf(Caller(k - 1))'
               /\ (stack[k].left \subseteq Children(stack[k].pkg))'
    <3>1. k \in 1..top /\ Caller(k - 1)' = Caller(k - 1) /\ stack'[k] = stack[k]
      BY <1>2, <1>3, <2>1
    <3> QED BY <3>1, <1>1 DEF Walk, ParentOf, Children
  <2>4. ASSUME pc' = "loop" PROVE stack' # <<>>
    <3>1. Len(stack') # 0
      BY <2>4, <1>1, <1>2, <1>3
    <3>2. Len(<<>>) = 0
      OBVIOUS
    <3> QED BY <3>1, <3>2
  <2>5. pc' # "call"
    BY <1>1
  <2> QED BY <2>2, <2>3, <2>4, <2>5 DEF Walk
<1> QED BY <1>4, <1>5

(* Every step of the walk keeps the invariant.                             *)
LEMMA StepInv == IInv /\ [Next]_vars => IInv'
<1> SUFFICES ASSUME IInv, [Next]_vars PROVE IInv'
  OBVIOUS
<1>1. CASE CompilerLibsPkg
  BY <1>1, ReturnInv DEF CompilerLibsPkg
<1>2. CASE SpecialCase
  BY <1>2, ReturnInv DEF SpecialCase
<1>3. CASE ConfiguratorMismatch
  BY <1>3 DEF ConfiguratorMismatch, IInv, TypeOK
<1>4. CASE HeadersGlobError
  BY <1>4 DEF HeadersGlobError, IInv, TypeOK
<1>5. CASE Emit
  BY <1>5, EmitInv
<1>6. CASE NextSubpackage
  BY <1>6, NextSubpackageInv
<1>7. CASE SubpackagesEnd
  BY <1>7, SubpackagesEndInv
<1>8. CASE UNCHANGED vars
  BY <1>8 DEF vars, IInv, TypeOK, Walk, Caller, Children, ParentOf
<1> QED
  BY <1>1, <1>2, <1>3, <1>4, <1>5, <1>6, <1>7, <1>8 DEF Next

(* The invariant holds in every state of the walk.                         *)
LEMMA Invariance == Spec => []IInv
  BY InitInv, StepInv, PTL DEF Spec

-----------------------------------------------------------------------------
(* The types of EmitBuildBazel hold for every META tree.                   *)
THEOREM TypeCorrect == Spec => []TypeOK
<1>1. IInv => TypeOK
  BY DEF IInv
<1> QED BY <1>1, Invariance, PTL

(* newlevel and pkg_parent agree with the active calls, in trees of every  *)
(* shape and depth, whichever packages return early.                       *)
THEOREM SharedStateCorrect == Spec => []SharedStateOK
<1>1. IInv => SharedStateOK
  <2> SUFFICES ASSUME IInv, pc \in {"call", "loop"}
               PROVE  /\ newlevel = Len(stack)
                      /\ pc = "call" => newlevel = Len(arg) - 1
                      /\ pkg_parent = ParentOf(IF stack = <<>> THEN <<>>
                                               ELSE Top.pkg)
    BY DEF SharedStateOK
  <2>1. Walk /\ TypeOK /\ stack \in Seq(Frame)
    BY DEF IInv, TypeOK
  <2>2. Caller(Len(stack)) = IF stack = <<>> THEN <<>> ELSE Top.pkg
    BY <2>1 DEF Caller, Top
  <2> QED BY <2>1, <2>2 DEF Walk
<1> QED BY <1>1, Invariance, PTL
-----------------------------------------------------------------------------
(* A sequence of one and one more.                                         *)
LEMMA AppendToOne ==
    ASSUME NEW S, NEW x \in S, NEW y \in S
    PROVE  Append(<<x>>, y) = <<x, y>>
<1> DEFINE s == Append(<<x>>, y)
           t == <<x, y>>
<1>1. s \in Seq(S) /\ Len(s) = 2 /\ s[1] = x /\ s[2] = y
  BY AppendProperties
<1>2. t \in Seq(S) /\ Len(t) = 2 /\ t[1] = x /\ t[2] = y
  OBVIOUS
<1> HIDE DEF s, t
<1>3. \A i \in 1..Len(s) : s[i] = t[i]
  BY <1>1, <1>2
<1>4. s = t
  BY <1>1, <1>2, <1>3, SeqEqual
<1> QED BY <1>4 DEF s, t

(* Where the next call writes: the directory its stub libraries are looked *)
(* for in, and, for up to three names, the one its label says.             *)
LEMMA LabelOfArg ==
    ASSUME IInv, pc = "call"
    PROVE  /\ bazel_pkg_label = StublibsDir
           /\ Len(arg) <= 3 => bazel_pkg_label = LabelDir(arg)
<1>1. Walk /\ TypeOK /\ stack \in Seq(Frame)
  BY DEF IInv, TypeOK
<1>2. arg \in Seq(Name) /\ arg # <<>> /\ Len(arg) \in Nat /\ Len(arg) >= 1
  BY <1>1, ArgType
<1>3. newlevel = Len(arg) - 1 /\ Len(stack) = Len(arg) - 1 /\ Last(arg) = arg[Len(arg)]
  BY <1>1, <1>2 DEF Walk, Last
<1>4. bazel_pkg_label = StublibsDir
  BY <1>2, <1>3 DEF bazel_pkg_label, StublibsDir
<1>5. CASE Len(arg) = 1
  <2>1. bazel_pkg_label = <<>>
    BY <1>3, <1>5 DEF bazel_pkg_label
  <2>2. LabelDir(arg) = <<>>
    BY <1>5 DEF LabelDir
  <2> QED BY <2>1, <2>2, <1>4
<1>6. CASE Len(arg) = 2
  <2>1. pkg_parent = ParentOf(stack[1].pkg) /\ Len(stack[1].pkg) = 1
    BY <1>1, <1>3, <1>6 DEF Walk, Caller
  <2>2. pkg_parent = <<"./">>
    BY <2>1 DEF ParentOf
  <2>3. bazel_pkg_label = << <<arg[2]>> >>
    BY <2>2, <1>3, <1>6 DEF bazel_pkg_label, Glued
  <2>4. LabelDir(arg) = << <<arg[2]>> >>
    BY <1>6 DEF LabelDir
  <2> QED BY <2>3, <2>4, <1>4
<1>7. CASE Len(arg) = 3
  <2> DEFINE caller == stack[2].pkg
  <2>1. /\ pkg_parent = ParentOf(caller) /\ Len(caller) = 2
        /\ arg[2] = caller[2]
    BY <1>1, <1>3, <1>7 DEF Walk, Caller
  <2>2. pkg_parent = <<"./", arg[2]>>
    BY <2>1 DEF ParentOf
  <2>3. Glued(pkg_parent) = << <<arg[2]>> >>
    BY <2>2 DEF Glued
  <2>4. bazel_pkg_label = << <<arg[2]>>, <<arg[3]>> >>
    <3>1. bazel_pkg_label = Append(<< <<arg[2]>> >>, <<arg[3]>>)
      BY <2>3, <1>3, <1>7 DEF bazel_pkg_label
    <3>2. <<arg[2]>> \in Seq(Name) /\ <<arg[3]>> \in Seq(Name)
      BY <1>2, <1>7
    <3> QED BY <3>1, <3>2, AppendToOne
  <2>5. LabelDir(arg) = << <<arg[2]>>, <<arg[3]>> >>
    BY <1>7 DEF LabelDir
  <2> QED BY <2>4, <2>5, <1>4
<1>8. Len(arg) <= 3 => Len(arg) \in {1, 2, 3}
  <2>1. \A n \in Nat : n >= 1 /\ n <= 3 => n \in {1, 2, 3}
    OBVIOUS
  <2> QED BY <1>2, <2>1
<1> QED BY <1>4, <1>5, <1>6, <1>7, <1>8

(* What the files written so far satisfy.                                  *)
FilesInv == StubsDeclared /\ WrittenInPlace

(* Writing a BUILD file in the directory of the call keeps the files right.*)
LEMMA WriteInv ==
    ASSUME IInv, pc = "call", FilesInv,
           NEW file, file.pkg = arg, file.ccdeps = StublibsDir, Write(file)
    PROVE  FilesInv'
<1>1. /\ bazel_pkg_label = StublibsDir
      /\ Len(arg) <= 3 => bazel_pkg_label = LabelDir(arg)
  BY LabelOfArg
<1>2. ASSUME NEW d \in DOMAIN files'
      PROVE  /\ files'[d].ccdeps = d
             /\ Len(files'[d].pkg) <= 3 => d = LabelDir(files'[d].pkg)
  <2>1. CASE d = bazel_pkg_label
    BY <1>1, <1>2, <2>1 DEF Write
  <2>2. CASE d # bazel_pkg_label
    <3>1. d \in DOMAIN files /\ files'[d] = files[d]
      BY <1>2, <2>2 DEF Write
    <3> QED BY <3>1 DEF FilesInv, StubsDeclared, WrittenInPlace
  <2> QED BY <2>1, <2>2
<1> QED BY <1>2 DEF FilesInv, StubsDeclared, WrittenInPlace, LabelDir

(* So does every step.                                                     *)
LEMMA FilesStep == IInv /\ FilesInv /\ [Next]_vars => FilesInv'
<1> SUFFICES ASSUME IInv, FilesInv, [Next]_vars PROVE FilesInv'
  OBVIOUS
<1>0. ASSUME NEW targets
      PROVE  /\ BuildFile(targets).pkg = arg
             /\ BuildFile(targets).ccdeps = StublibsDir
             /\ [BuildFile(targets) EXCEPT !.links = <<>>].pkg = arg
             /\ [BuildFile(targets) EXCEPT !.links = <<>>].ccdeps = StublibsDir
  BY DEF BuildFile
<1>1. CASE UNCHANGED files
  BY <1>1 DEF FilesInv, StubsDeclared, WrittenInPlace
<1>2. CASE SpecialCase
  BY <1>2, <1>0, WriteInv DEF SpecialCase
<1>3. CASE ConfiguratorMismatch
  BY <1>3, <1>0, WriteInv DEF ConfiguratorMismatch
<1>4. CASE HeadersGlobError
  BY <1>4, <1>0, WriteInv DEF HeadersGlobError
<1>5. CASE Emit
  BY <1>5, <1>0, WriteInv DEF Emit
<1> QED
  BY <1>1, <1>2, <1>3, <1>4, <1>5
     DEF Next, CompilerLibsPkg, NextSubpackage, SubpackagesEnd, vars

(* So in every state the files are right.                                  *)
LEMMA FilesInvariance == Spec => []FilesInv
<1>1. Init => FilesInv
  BY DEF Init, FilesInv, StubsDeclared, WrittenInPlace
<1> QED BY <1>1, FilesStep, Invariance, PTL DEF Spec

(* Whatever the META tree, a package of up to three names is written where *)
(* the labels that dependents write for it look.                           *)
THEOREM WrittenInPlaceCorrect == Spec => []WrittenInPlace
<1>1. FilesInv => WrittenInPlace
  BY DEF FilesInv
<1> QED BY <1>1, FilesInvariance, PTL

(* At every depth, the stub libraries in cc_deps come from the directory   *)
(* whose BUILD file declares them.                                         *)
THEOREM StubsDeclaredCorrect == Spec => []StubsDeclared
<1>1. FilesInv => StubsDeclared
  BY DEF FilesInv
<1> QED BY <1>1, FilesInvariance, PTL

-----------------------------------------------------------------------------
(* The targets of one BUILD file.                                          *)

(* A set of naturals that is not empty has a least element.                *)
LEMMA LeastNat ==
    ASSUME NEW T, T \subseteq Nat, T # {}
    PROVE  \E x \in T : \A y \in T : x <= y
<1> DEFINE R == {ss \in Nat \X Nat : ss[1] < ss[2]}
<1>1. IsWellFoundedOn(R, Nat)
  BY NatLessThanWellFounded DEF OpToRel
<1>2. PICK x \in T : \A y \in T : ~ (<<y, x>> \in R)
  BY <1>1, WFMin
<1>3. ASSUME NEW y \in T PROVE x <= y
  <2>1. <<y, x>> \notin R /\ x \in Nat /\ y \in Nat
    BY <1>2
  <2> QED BY <2>1
<1> QED BY <1>3

(* Rules of two and of three targets.                                      *)
LEMMA Concatenated ==
    ASSUME NEW S, NEW x \in S, NEW y \in S, NEW z \in S
    PROVE  /\ <<x>> \o <<y>> = <<x, y>>
           /\ <<x, y>> \o <<z>> = <<x, y, z>>
           /\ <<x>> \o <<>> = <<x>> /\ <<>> \o <<x>> = <<x>>
           /\ <<>> \o <<>> = <<>>
<1>1. <<x>> \in Seq(S) /\ <<y>> \in Seq(S) /\ <<x, y>> \in Seq(S) /\ <<>> \in Seq(S)
  OBVIOUS
<1>2. <<x>> \o <<y>> = <<x, y>>
  <2>1. Append(<<x>>, y) = <<x>> \o <<y>>
    BY <1>1, AppendIsConcat
  <2> QED BY <2>1, AppendToOne
<1>3. <<x, y>> \o <<z>> = <<x, y, z>>
  <2> DEFINE s == Append(<<x, y>>, z)
             t == <<x, y, z>>
  <2>1. s = <<x, y>> \o <<z>>
    BY <1>1, AppendIsConcat
  <2>2. s \in Seq(S) /\ Len(s) = 3 /\ s[1] = x /\ s[2] = y /\ s[3] = z
    BY <1>1, AppendProperties
  <2>3. t \in Seq(S) /\ Len(t) = 3 /\ t[1] = x /\ t[2] = y /\ t[3] = z
    OBVIOUS
  <2> HIDE DEF s, t
  <2>4. \A i \in 1..Len(s) : s[i] = t[i]
    BY <2>2, <2>3
  <2>5. s = t
    BY <2>2, <2>3, <2>4, SeqEqual
  <2> QED BY <2>1, <2>5 DEF t
<1> QED BY <1>1, <1>2, <1>3, ConcatEmptySeq

(* What Assumptions says of the properties of a package.                   *)
LEMMA PropertiesOnce ==
    ASSUME NEW m \in Metas, NEW p \in m.paths
    PROVE  /\ m.entries[p] \in Seq(Property)
           /\ \A i, j \in DOMAIN m.entries[p] :
                 m.entries[p][i] = m.entries[p][j]
                     => i = j \/ m.entries[p][i] \in {"other", "ignored"}
BY Assumptions

(* The entries that the loop comes to are the first ones, and only the     *)
(* last one may be where it breaks.                                        *)
LEMMA EntriesPrefix ==
    ASSUME TypeOK
    PROVE  /\ Entries \in Seq(Property) /\ Len(Entries) \in Nat
           /\ \A i \in 1..Len(Entries) : /\ i \in DOMAIN meta.entries[arg]
                                         /\ Entries[i] = meta.entries[arg][i]
           /\ \A i, j \in 1..Len(Entries) : Breaks(i) /\ Breaks(j) => i = j
           /\ ~Has("error") => Entries = meta.entries[arg]
<1> DEFINE entries == meta.entries[arg]
           B(i) == Has("error") /\ entries[i] \in {"error", "other"}
           First(i) == B(i) /\ \A j \in 1..(i - 1) : ~B(j)
<1>1. entries \in Seq(Property)
  BY PropertiesOnce DEF TypeOK
<1>2. Len(entries) \in Nat /\ DOMAIN entries = 1..Len(entries)
  BY <1>1
<1>3. \A i : Breaks(i) <=> B(i)
  BY DEF Breaks
<1>4. CASE ~\E i \in DOMAIN entries : Breaks(i)
  <2>1. Entries = entries
    BY <1>4 DEF Entries
  <2> QED BY <2>1, <1>1, <1>2, <1>4
<1>5. CASE \E i \in DOMAIN entries : Breaks(i)
  <2>1. PICK k \in DOMAIN entries : First(k)
    <3> DEFINE K == {i \in DOMAIN entries : B(i)}
    <3>1. K \subseteq Nat /\ K # {}
      BY <1>2, <1>3, <1>5
    <3>2. PICK k \in K : \A j \in K : k <= j
      <4> HIDE DEF K
      <4> QED BY <3>1, LeastNat
    <3>3. \A j \in 1..(k - 1) : ~B(j)
      <4> SUFFICES ASSUME NEW j \in 1..(k - 1), B(j) PROVE FALSE
        OBVIOUS
      <4>1. k \in 1..Len(entries)
        BY <1>2
      <4>2. j \in DOMAIN entries /\ ~(k <= j)
        BY <4>1, <1>2
      <4> QED BY <4>2, <3>2
    <3> QED BY <3>2, <3>3
  <2> DEFINE c == CHOOSE i \in DOMAIN entries :
                     Breaks(i) /\ \A j \in 1..(i - 1) : ~Breaks(j)
  <2>2. c \in DOMAIN entries /\ Breaks(c) /\ \A j \in 1..(c - 1) : ~Breaks(j)
    <3>1. Breaks(k) /\ \A j \in 1..(k - 1) : ~Breaks(j)
      BY <2>1, <1>3
    <3> QED BY <3>1
  <2>3. Entries = SubSeq(entries, 1, c)
    BY <1>5 DEF Entries
  <2> HIDE DEF c, entries, B, First
  <2>4. c \in 1..Len(entries)
    BY <2>2, <1>2
  <2>5. /\ Entries \in Seq(Property) /\ Len(Entries) = c
        /\ \A i \in 1..c : Entries[i] = entries[i]
    BY <2>3, <2>4, <1>1, <1>2
  <2>6. \A i \in 1..c : Breaks(i) => i = c
    BY <2>2, <2>4, <1>2
  <2>7. Has("error")
    BY <2>2 DEF Breaks
  <2> QED BY <2>4, <2>5, <2>6, <2>7, <1>2 DEF entries
<1> QED BY <1>4, <1>5

(* A target that is printed is that of the entry and the rule at its place.*)
LEMMA PlaceOf ==
    ASSUME NEW p \in Places
    PROVE  /\ p[1] \in 0..Len(Entries) /\ p[2] \in DOMAIN TargetsAt(p[1])
           /\ p = <<p[1], p[2]>> /\ Targets[p] = TargetsAt(p[1])[p[2]]
<1>1. PICK i \in 0..Len(Entries) : p \in {i} \X DOMAIN TargetsAt(i)
  BY DEF Places
<1>2. p[1] = i /\ p[2] \in DOMAIN TargetsAt(i) /\ p = <<p[1], p[2]>>
  BY <1>1
<1>3. Targets[p] = TargetsAt(p[1])[p[2]]
  BY DEF Targets
<1> QED BY <1>1, <1>2, <1>3

LEMMA PlaceExists ==
    ASSUME NEW i \in 0..Len(Entries), NEW k \in DOMAIN TargetsAt(i)
    PROVE  <<i, k>> \in Places /\ Targets[<<i, k>>] = TargetsAt(i)[k]
<1>1. <<i, k>> \in Places
  BY DEF Places
<1> QED BY <1>1 DEF Targets

(* What an entry declares, by what it is.                                  *)
Rule(prop, name, rule) ==
    /\ prop = "archive" =>
          \/ name # "lib" /\ rule \in {<<"lib", "hdrs", name>>, <<"lib", name>>}
          \/ name = "lib" /\ rule \in {<<"hdrs", name>>, <<name>>}
    /\ prop = "plugin" => rule = <<"plugin">>
    /\ prop = "requires" =>
          \/ rule = <<>>
          \/ /\ ~Has("archive") /\ ~Has("plugin")
             /\ rule \in {<<"lib", name>>, <<"lib", "findlib">>}
    /\ prop = "ignored" => rule = <<>>
    /\ prop \in {"error", "other"} =>
          rule = <<>> \/ (Has("error") /\ rule = <<ErrorTarget>>)

LEMMA Rules ==
    ASSUME NEW prop \in Property
    PROVE  Rule(prop, Last(arg), TargetsOf(prop))
<1> DEFINE name == Last(arg)
<1>1. CASE prop = "archive"
  <2>1. TargetsOf(prop) = archive_rule(name)
    BY <1>1 DEF TargetsOf
  <2> DEFINE S == {"lib", "hdrs", name}
             lib  == IF name = "lib" THEN <<>> ELSE <<"lib">>
             hdrs == IF new_filedeps_path \in meta.headers THEN <<"hdrs">> ELSE <<>>
  <2>2. TargetsOf(prop) = (lib \o hdrs) \o <<name>>
    BY <2>1 DEF archive_rule
  <2>3. /\ "lib" \in S /\ "hdrs" \in S /\ name \in S
        /\ hdrs \in {<<"hdrs">>, <<>>}
    OBVIOUS
  <2> HIDE DEF S, hdrs
  <2>4. CASE name = "lib"
    <3>1. lib \o hdrs \in {<<"hdrs">>, <<>>}
      BY <2>3, <2>4, Concatenated
    <3>2. TargetsOf(prop) \in {<<"hdrs", name>>, <<name>>}
      <4> HIDE DEF lib
      <4> QED BY <3>1, <2>2, <2>3, Concatenated
    <3> QED BY <3>2, <2>4, <1>1 DEF Rule
  <2>5. CASE name # "lib"
    <3>1. lib \o hdrs \in {<<"lib", "hdrs">>, <<"lib">>}
      BY <2>3, <2>5, Concatenated
    <3>2. TargetsOf(prop) \in {<<"lib", "hdrs", name>>, <<"lib", name>>}
      <4> HIDE DEF lib
      <4> QED BY <3>1, <2>2, <2>3, Concatenated
    <3> QED BY <3>2, <2>5, <1>1 DEF Rule
  <2> QED BY <2>4, <2>5
<1>2. CASE prop = "plugin"
  BY <1>2 DEF TargetsOf, plugin_rule, Rule
<1>3. CASE prop = "requires"
  <2>1. TargetsOf(prop) = deps_target(name)
    BY <1>3 DEF TargetsOf
  <2>2. CASE Has("archive") \/ Has("plugin")
    BY <2>1, <2>2, <1>3 DEF deps_target, Rule
  <2>3. CASE ~(Has("archive") \/ Has("plugin"))
    <3>1. CASE name \in Findlib
      <4>1. deps_target(name) = <<"lib", "findlib">>
        BY <3>1, <2>3 DEF deps_target
      <4> QED BY <4>1, <2>1, <2>3, <1>3 DEF Rule
    <3>2. CASE name \notin Findlib
      <4>1. deps_target(name) = <<"lib", name>>
        BY <3>2, <2>3 DEF deps_target
      <4> QED BY <4>1, <2>1, <2>3, <1>3 DEF Rule
    <3> QED BY <3>1, <3>2
  <2> QED BY <2>2, <2>3
<1>4. CASE prop = "ignored"
  BY <1>4 DEF TargetsOf, Rule
<1>5. CASE prop \in {"error", "other"}
  <2>1. TargetsOf(prop) = IF Has("error") THEN <<ErrorTarget>> ELSE <<>>
    BY <1>5 DEF TargetsOf
  <2>2. TargetsOf(prop) = <<>> \/ (Has("error") /\ TargetsOf(prop) = <<ErrorTarget>>)
    BY <2>1, Zenon
  <2>3. prop \notin {"archive", "plugin", "requires", "ignored"}
    BY <1>5
  <2> QED BY <2>2, <2>3, Zenon DEF Rule
<1> QED BY <1>1, <1>2, <1>3, <1>4, <1>5 DEF Property

(* The targets of one rule, and that they are different.                   *)
TargetNames(prop, name) ==
    CASE prop = "archive"  -> {"lib", "hdrs", name}
      [] prop = "plugin"   -> {"plugin"}
      [] prop = "requires" -> {"lib", "findlib", name}
      [] OTHER             -> {ErrorTarget}

LEMMA RuleNames ==
    ASSUME NEW prop \in Property, NEW name, NEW rule, Rule(prop, name, rule),
           NEW k \in DOMAIN rule
    PROVE  /\ rule[k] \in TargetNames(prop, name)
           /\ prop # "ignored"
           /\ prop = "requires" => ~Has("archive") /\ ~Has("plugin")
           /\ prop \in {"error", "other"} => Has("error")
<1>1. CASE prop = "archive"
  BY <1>1 DEF Rule, TargetNames
<1>2. CASE prop = "plugin"
  BY <1>2 DEF Rule, TargetNames
<1>3. CASE prop = "requires"
  <2>1. rule # <<>>
    OBVIOUS
  <2>2. ~Has("archive") /\ ~Has("plugin") /\ rule \in {<<"lib", name>>, <<"lib", "findlib">>}
    BY <2>1, <1>3, Zenon DEF Rule
  <2>3. rule[k] \in {"lib", "findlib", name}
    BY <2>2
  <2> QED BY <2>2, <2>3, <1>3 DEF TargetNames
<1>4. CASE prop = "ignored"
  BY <1>4 DEF Rule
<1>5. CASE prop \in {"error", "other"}
  <2>1. rule # <<>>
    OBVIOUS
  <2>2. Has("error") /\ rule = <<ErrorTarget>>
    BY <2>1, <1>5, Zenon DEF Rule
  <2>3. rule[k] = ErrorTarget
    BY <2>2
  <2> QED BY <2>2, <2>3, <1>5 DEF TargetNames
<1> QED BY <1>1, <1>2, <1>3, <1>4, <1>5 DEF Property

LEMMA RuleOnce ==
    ASSUME NEW prop \in Property, NEW name, NEW rule, Rule(prop, name, rule),
           name # "hdrs", name = "lib" => Has("archive"),
           NEW k \in DOMAIN rule, NEW l \in DOMAIN rule, rule[k] = rule[l]
    PROVE  k = l
<1>1. CASE prop = "archive"
  BY <1>1 DEF Rule
<1>2. CASE prop = "plugin"
  BY <1>2 DEF Rule
<1>3. CASE prop = "requires"
  <2>1. rule # <<>>
    OBVIOUS
  <2>2. ~Has("archive") /\ rule \in {<<"lib", name>>, <<"lib", "findlib">>}
    BY <2>1, <1>3, Zenon DEF Rule
  <2> QED BY <2>2
<1>4. CASE prop = "ignored"
  BY <1>4 DEF Rule
<1>5. CASE prop \in {"error", "other"}
  <2>1. rule # <<>>
    OBVIOUS
  <2>2. rule = <<ErrorTarget>>
    BY <2>1, <1>5, Zenon DEF Rule
  <2> QED BY <2>2
<1> QED BY <1>1, <1>2, <1>3, <1>4, <1>5 DEF Property

(* Two places with one target are the same, when the package's name is not *)
(* that of a target of the tool and the error target's is no package's.    *)
LEMMA TargetsOnce ==
    ASSUME TypeOK,
           Last(arg) \notin {"plugin", "hdrs", "cstubs"},
           Last(arg) = "lib" => Has("archive"),
           NEW p \in Places, NEW q \in Places, Targets[p] = Targets[q]
    PROVE  p = q
<1> DEFINE name == Last(arg)
           i == p[1]   k == p[2]
           j == q[1]   l == q[2]
           x == Entries[i]   y == Entries[j]
<1>1. /\ Entries \in Seq(Property)
      /\ \A n \in 1..Len(Entries) : /\ n \in DOMAIN meta.entries[arg]
                                    /\ Entries[n] = meta.entries[arg][n]
      /\ \A n, m \in 1..Len(Entries) : Breaks(n) /\ Breaks(m) => n = m
  BY EntriesPrefix
<1>2. /\ p = <<i, k>> /\ Targets[p] = TargetsAt(i)[k] /\ k \in DOMAIN TargetsAt(i)
      /\ q = <<j, l>> /\ Targets[q] = TargetsAt(j)[l] /\ l \in DOMAIN TargetsAt(j)
      /\ i \in 0..Len(Entries) /\ j \in 0..Len(Entries)
  BY PlaceOf
<1> HIDE DEF i, j, k, l
<1>3. /\ i \in 1..Len(Entries) /\ TargetsAt(i) = TargetsOf(x)
      /\ j \in 1..Len(Entries) /\ TargetsAt(j) = TargetsOf(y)
  <2>1. TargetsAt(0) = <<>>
    BY DEF TargetsAt
  <2>2. i # 0 /\ j # 0
    BY <2>1, <1>2
  <2>3. i > 0 /\ j > 0
    BY <2>2, <1>2
  <2> QED BY <2>2, <2>3, <1>2 DEF TargetsAt
<1>4. x \in Property /\ y \in Property
  BY <1>1, <1>3
<1>5. Rule(x, name, TargetsOf(x)) /\ Rule(y, name, TargetsOf(y))
  BY <1>4, Rules
<1>6. x = y => i = j
  <2>1. CASE x \notin {"other", "ignored"}
    BY <2>1, <1>1, <1>3, PropertiesOnce DEF TypeOK
  <2>2. CASE x = "ignored" /\ x = y
    BY <2>2, <1>2, <1>3, <1>5 DEF Rule
  <2>3. CASE x = "other" /\ x = y
    <3>1. Has("error")
      BY <2>3, <1>2, <1>3, <1>5 DEF Rule
    <3>2. Breaks(i) /\ Breaks(j)
      BY <3>1, <2>3, <1>1, <1>3 DEF Breaks
    <3> QED BY <3>2, <1>1, <1>3
  <2> QED BY <2>1, <2>2, <2>3
<1>7. name \in Name /\ name # ErrorTarget
  BY ArgType, Assumptions
<1>8. /\ x = "archive" => Has("archive")
      /\ x = "plugin" => Has("plugin")
      /\ y = "archive" => Has("archive")
      /\ y = "plugin" => Has("plugin")
  BY <1>1, <1>3 DEF Has
<1>9. x \in {"error", "other"} /\ y \in {"error", "other"} => i = j
  <2> SUFFICES ASSUME x \in {"error", "other"}, y \in {"error", "other"} PROVE i = j
    OBVIOUS
  <2>1. Has("error")
    BY <1>2, <1>3, <1>5 DEF Rule
  <2>2. Breaks(i) /\ Breaks(j)
    BY <2>1, <1>1, <1>3 DEF Breaks
  <2> QED BY <2>2, <1>1, <1>3
<1>10. /\ Targets[p] \in TargetNames(x, name) /\ Targets[p] \in TargetNames(y, name)
       /\ x # "ignored" /\ y # "ignored"
       /\ x = "requires" \/ y = "requires" => ~Has("archive") /\ ~Has("plugin")
  BY <1>2, <1>3, <1>4, <1>5, RuleNames
<1>11. i = j
  <2> SUFFICES ASSUME i # j PROVE FALSE
    OBVIOUS
  <2> HIDE DEF x, y, name
  <2>1. CASE x = "archive"
    <3>1. y \in {"plugin", "error", "other"}
      BY <2>1, <1>4, <1>6, <1>8, <1>10 DEF Property
    <3> QED BY <3>1, <2>1, <1>7, <1>10 DEF TargetNames, ErrorTarget, name
  <2>2. CASE x = "plugin"
    <3>1. y \in {"archive", "error", "other"}
      BY <2>2, <1>4, <1>6, <1>8, <1>10 DEF Property
    <3> QED BY <3>1, <2>2, <1>7, <1>10 DEF TargetNames, ErrorTarget, name
  <2>3. CASE x = "requires"
    <3>1. y \in {"error", "other"}
      BY <2>3, <1>4, <1>6, <1>8, <1>10 DEF Property
    <3> QED BY <3>1, <2>3, <1>7, <1>10 DEF TargetNames, ErrorTarget, name
  <2>4. CASE x \in {"error", "other"}
    <3>1. y \in {"archive", "plugin", "requires"}
      BY <2>4, <1>4, <1>9, <1>10 DEF Property
    <3> QED BY <3>1, <2>4, <1>7, <1>10 DEF TargetNames, ErrorTarget, name
  <2> QED BY <2>1, <2>2, <2>3, <2>4, <1>4, <1>10 DEF Property
<1>12. TargetsAt(j) = TargetsOf(x) /\ k \in DOMAIN TargetsOf(x) /\ l \in DOMAIN TargetsOf(x)
      /\ TargetsOf(x)[k] = TargetsOf(x)[l]
  BY <1>2, <1>3, <1>11
<1>13. k = l
  BY <1>4, <1>5, <1>12, RuleOnce
<1> QED BY <1>2, <1>11, <1>13

(* What TargetsDistinct says of one file.                                  *)
Distinct(file) ==
    \/ file.pkg[Len(file.pkg)] \in {"plugin", "hdrs", "cstubs"}
    \/ file.pkg[Len(file.pkg)] = "lib" /\ ~HasArchive(file.pkg)
    \/ \A p, q \in DOMAIN file.targets :
          file.targets[p] = file.targets[q] => p = q

(* The files of a call that have been printed as far as they go.           *)
LEMMA CallDistinct ==
    ASSUME TypeOK, NEW places, places \subseteq Places,
           NEW file, file.pkg = arg, file.targets = [p \in places |-> Targets[p]]
    PROVE  Distinct(file)
<1> SUFFICES ASSUME Last(arg) \notin {"plugin", "hdrs", "cstubs"},
                    ~ (Last(arg) = "lib" /\ ~HasArchive(arg)),
                    NEW p \in places, NEW q \in places, Targets[p] = Targets[q]
             PROVE  p = q
  BY DEF Distinct, Last
<1>1. HasArchive(arg) => Has("archive")
  BY DEF HasArchive, Has
<1> QED BY <1>1, TargetsOnce

(* Every step keeps the targets of every file different.                   *)
LEMMA DistinctStep == IInv /\ TargetsDistinct /\ [Next]_vars => TargetsDistinct'
<1> SUFFICES ASSUME IInv, TargetsDistinct, [Next]_vars PROVE TargetsDistinct'
  OBVIOUS
<1>1. TypeOK /\ UNCHANGED meta
  BY DEF IInv, Next, vars, CompilerLibsPkg, SpecialCase, ConfiguratorMismatch,
         HeadersGlobError, Emit, NextSubpackage, SubpackagesEnd
<1>2. \A d \in DOMAIN files : Distinct(files[d])
  BY DEF TargetsDistinct, Distinct
<1>3. \A file : Distinct(file)' <=> Distinct(file)
  BY <1>1 DEF Distinct, HasArchive
<1>4. ASSUME NEW file, Distinct(file), Write(file) PROVE TargetsDistinct'
  BY <1>2, <1>3, <1>4 DEF Write, TargetsDistinct, Distinct
<1>5. CASE UNCHANGED files
  BY <1>1, <1>5 DEF TargetsDistinct, HasArchive
<1>6. CASE SpecialCase
  BY <1>4, <1>6 DEF SpecialCase, BuildFile, Distinct
<1>7. CASE ConfiguratorMismatch
  BY <1>4, <1>7 DEF ConfiguratorMismatch, BuildFile, Distinct
<1>8. CASE HeadersGlobError
  BY <1>1, <1>4, <1>8, CallDistinct DEF HeadersGlobError, BuildFile, TargetsBefore
<1>9. CASE Emit
  BY <1>1, <1>4, <1>9, CallDistinct DEF Emit, BuildFile, Targets
<1> QED
  BY <1>5, <1>6, <1>7, <1>8, <1>9
     DEF Next, CompilerLibsPkg, NextSubpackage, SubpackagesEnd, vars

(* Whatever properties a package has and in which order, no BUILD file     *)
(* declares a target twice, but for the names of the tool's own targets.   *)
THEOREM TargetsDistinctCorrect == Spec => []TargetsDistinct
<1>1. Init => TargetsDistinct
  BY DEF Init, TargetsDistinct
<1> QED BY <1>1, DistinctStep, Invariance, PTL DEF Spec

-----------------------------------------------------------------------------
(* The mapping scheme.                                                     *)

(* pkg is p or a package below it.                                         *)
Below(pkg, p) == Len(p) <= Len(pkg) /\ \A i \in 1..Len(p) : pkg[i] = p[i]

(* The walk is still to come to pkg: it is below the package of the next   *)
(* call, or below a sub-package that an active call has left.              *)
Pending(pkg) ==
    \/ pc = "call" /\ Below(pkg, arg)
    \/ \E k \in 1..Len(stack) : \E n \in stack[k].left :
          Below(pkg, Append(stack[k].pkg, n))

(* Its BUILD file is there, and it is the package's own.                   *)
InPlace(pkg) ==
    LabelDir(pkg) \in DOMAIN files /\ files[LabelDir(pkg)].pkg = pkg

(* No package is lost: the walk comes to it, or has written its file, and  *)
(* nothing has been written over it.                                       *)
NoneLost ==
    \A pkg \in meta.paths :
        ~Omitted(pkg) /\ Len(pkg) <= 3 => Pending(pkg) \/ InPlace(pkg)

(* What can be linked of a package: it has an archive, or requires others  *)
(* and is nothing but that; the target lib is in its BUILD file once.      *)
HasLib(pkg) ==
    /\ \A i \in DOMAIN meta.entries[pkg] : meta.entries[pkg][i] # "error"
    /\ \/ \E i \in DOMAIN meta.entries[pkg] : meta.entries[pkg][i] = "archive"
       \/ /\ \E i \in DOMAIN meta.entries[pkg] : meta.entries[pkg][i] = "requires"
          /\ \A i \in DOMAIN meta.entries[pkg] : meta.entries[pkg][i] # "plugin"
          /\ pkg[Len(pkg)] # "lib"

(* A file for a package with an archive has both targets, one for a       *)
(* package that can be linked the target lib.                              *)
Complete(file) ==
    /\ HasArchive(file.pkg) /\ ~Omitted(file.pkg)
                            /\ file.pkg[Len(file.pkg)] \notin {"plugin", "hdrs"}
          => /\ Once("lib", file.targets)
             /\ Once(file.pkg[Len(file.pkg)], file.targets)
    /\ HasLib(file.pkg) /\ ~Omitted(file.pkg) => Once("lib", file.targets)

Mapping ==
    pc \in {"call", "loop", "done"} =>
        /\ NoneLost
        /\ \A d \in DOMAIN files : Complete(files[d])
        /\ pc = "done" => stack = <<>>

(* The packages of a META file form a tree.                                *)
LEMMA PackageTree ==
    ASSUME TypeOK, NEW pkg \in meta.paths
    PROVE  /\ pkg \in Seq(Name) /\ Len(pkg) \in Nat /\ Len(pkg) >= 1
           /\ pkg[1] = meta.root
           /\ \A k \in 1..Len(pkg) : SubSeq(pkg, 1, k) \in meta.paths
<1>1. pkg \in Package
  BY Assumptions DEF TypeOK
<1>2. pkg \in Seq(Name) /\ pkg # <<>>
  BY <1>1 DEF Package
<1>3. Len(pkg) \in Nat /\ Len(pkg) >= 1
  BY <1>2
<1>4. pkg[1] = meta.root /\ \A k \in 1..Len(pkg) : SubSeq(pkg, 1, k) \in meta.paths
  BY Assumptions DEF TypeOK
<1> QED BY <1>2, <1>3, <1>4

(* Two packages of one root whose labels agree are one.                    *)
LEMMA LabelDirInjective ==
    ASSUME NEW p \in Seq(Name), NEW q \in Seq(Name),
           Len(p) >= 1, Len(q) >= 1, p[1] = q[1], LabelDir(p) = LabelDir(q)
    PROVE  p = q
<1>1. Len(p) \in Nat /\ Len(q) \in Nat
  OBVIOUS
<1>2. /\ DOMAIN LabelDir(p) = 1..(Len(p) - 1)
      /\ \A i \in 1..(Len(p) - 1) : LabelDir(p)[i] = <<p[i + 1]>>
      /\ DOMAIN LabelDir(q) = 1..(Len(q) - 1)
      /\ \A i \in 1..(Len(q) - 1) : LabelDir(q)[i] = <<q[i + 1]>>
  BY DEF LabelDir
<1> DEFINE P == LabelDir(p)
<1>3. /\ DOMAIN P = 1..(Len(p) - 1) /\ DOMAIN P = 1..(Len(q) - 1)
      /\ \A i \in 1..(Len(p) - 1) : P[i] = <<p[i + 1]>>
      /\ \A i \in 1..(Len(q) - 1) : P[i] = <<q[i + 1]>>
  BY <1>2
<1> HIDE DEF P
<1>4. Len(p) = Len(q)
  <2>1. ASSUME NEW m \in Nat, NEW n \in Nat, m >= 1, n >= 1, 1..(m - 1) = 1..(n - 1)
        PROVE  ~ (m < n)
    <3> SUFFICES ASSUME m < n PROVE FALSE
      OBVIOUS
    <3>1. n - 1 \in 1..(n - 1) /\ n - 1 \notin 1..(m - 1)
      BY <2>1
    <3> QED BY <3>1, <2>1
  <2>2. ~ (Len(p) < Len(q)) /\ ~ (Len(q) < Len(p))
    BY <2>1, <1>1, <1>3
  <2> QED BY <2>2, <1>1
<1>5. ASSUME NEW i \in 1..Len(p) PROVE p[i] = q[i]
  <2>1. CASE i = 1
    BY <2>1
  <2>2. CASE i # 1
    <3>1. i - 1 \in 1..(Len(p) - 1) /\ i - 1 \in 1..(Len(q) - 1) /\ (i - 1) + 1 = i
      BY <2>2, <1>1, <1>4
    <3>2. <<p[i]>> = <<q[i]>>
      BY <3>1, <1>3
    <3> QED BY <3>2
  <2> QED BY <2>1, <2>2
<1> QED BY <1>4, <1>5, SeqEqual

(* A package that is written in the directory of another one's label, of   *)
(* up to three names, is that one: a deeper one's first segment glues two  *)
(* names at least.                                                         *)
LEMMA LabelOwner ==
    ASSUME IInv, pc = "call", NEW pkg \in meta.paths, Len(pkg) <= 3,
           bazel_pkg_label = LabelDir(pkg)
    PROVE  arg = pkg
<1>1. Walk /\ TypeOK /\ stack \in Seq(Frame) /\ arg \in meta.paths
  BY DEF IInv, TypeOK
<1>2. /\ arg \in Seq(Name) /\ Len(arg) \in Nat /\ Len(arg) >= 1 /\ arg[1] = meta.root
      /\ pkg \in Seq(Name) /\ Len(pkg) \in Nat /\ Len(pkg) >= 1 /\ pkg[1] = meta.root
  BY <1>1, PackageTree
<1>3. CASE Len(arg) <= 3
  <2>1. LabelDir(arg) = LabelDir(pkg)
    BY <1>3, LabelOfArg
  <2> QED BY <2>1, <1>2, LabelDirInjective
<1>4. CASE Len(arg) > 3
  <2> DEFINE caller == stack[Len(stack)].pkg
             label  == bazel_pkg_label
  <2>1. /\ Len(stack) = Len(arg) - 1 /\ newlevel = Len(stack)
        /\ Len(caller) = Len(stack) /\ pkg_parent = ParentOf(caller)
    BY <1>1, <1>2, <1>4 DEF Walk, Caller
  <2>2. pkg_parent \in Seq(Name \cup {"./"}) /\ Len(pkg_parent) >= 3
    <3>1. pkg_parent \in Parent
      BY <1>1 DEF TypeOK
    <3>2. DOMAIN pkg_parent = 1..Len(caller)
      BY <2>1 DEF ParentOf
    <3>3. Len(pkg_parent) = Len(caller)
      <4>1. Len(caller) \in Nat
        BY <2>1, <1>2
      <4> QED BY <3>1, <3>2, <4>1 DEF Parent
    <3> QED BY <3>1, <3>3, <2>1, <1>2, <1>4 DEF Parent
  <2> HIDE DEF caller
  <2>3. Glued(pkg_parent) = <<Tail(pkg_parent)>>
    BY <2>2 DEF Glued
  <2>4. label = Append(<<Tail(pkg_parent)>>, <<Last(arg)>>)
    BY <2>1, <2>3, <1>2, <1>4 DEF bazel_pkg_label
  <2>5. Tail(pkg_parent) \in Seq(Name \cup {"./"}) /\ Len(Tail(pkg_parent)) >= 2
    BY <2>2
  <2>6. <<Last(arg)>> \in Seq(Name \cup {"./"})
    <3>1. Last(arg) \in Name
      BY <1>1, ArgType
    <3> QED BY <3>1
  <2>7. label = <<Tail(pkg_parent), <<Last(arg)>> >>
    BY <2>4, <2>5, <2>6, AppendToOne
  <2>8. DOMAIN label = {1, 2} /\ label[1] = Tail(pkg_parent)
    BY <2>7
  <2>9. DOMAIN LabelDir(pkg) = 1..(Len(pkg) - 1)
        /\ \A i \in 1..(Len(pkg) - 1) : LabelDir(pkg)[i] = <<pkg[i + 1]>>
    BY DEF LabelDir
  <2>10. label = LabelDir(pkg)
    OBVIOUS
  <2> HIDE DEF label
  <2>11. 1 \in 1..(Len(pkg) - 1) /\ Tail(pkg_parent) = <<pkg[1 + 1]>>
    BY <2>8, <2>9, <2>10
  <2>12. ASSUME NEW t, NEW x, t = <<x>> PROVE Len(t) = 1
    BY <2>12
  <2>13. Len(Tail(pkg_parent)) = 1
    BY <2>11, <2>12
  <2>14. \A n : n = 1 => ~ (n >= 2)
    OBVIOUS
  <2> DEFINE n == Len(Tail(pkg_parent))
  <2>15. n = 1 /\ n >= 2
    BY <2>5, <2>13
  <2> HIDE DEF n
  <2> QED BY <2>14, <2>15, Zenon
<1> QED BY <1>2, <1>3, <1>4

(* What the walk leaves out at once it leaves out on purpose.              *)
LEMMA LeftOut ==
    ASSUME TypeOK, NEW pkg \in meta.paths, Below(pkg, arg), Skipped \/ Special
    PROVE  Omitted(pkg)
<1>1. /\ Len(arg) \in 1..Len(pkg) /\ Last(arg) = pkg[Len(arg)] /\ arg[1] = pkg[1]
  <2>1. arg \in Seq(Name) /\ Len(arg) \in Nat /\ Len(arg) >= 1 /\ Len(pkg) \in Nat
    BY PackageTree DEF TypeOK
  <2>2. Len(arg) <= Len(pkg) /\ \A i \in 1..Len(arg) : pkg[i] = arg[i]
    BY DEF Below
  <2> QED BY <2>1, <2>2 DEF Last
<1> QED BY <1>1 DEF Omitted, Skipped, Special

(* A file that is written takes no other package's place, and its own is   *)
(* where its label says.                                                   *)
LEMMA WriteInPlace ==
    ASSUME IInv, pc = "call", NEW file, file.pkg = arg, Write(file),
           NEW pkg \in meta.paths, Len(pkg) <= 3
    PROVE  (InPlace(pkg) \/ pkg = arg) => InPlace(pkg)'
<1>1. /\ DOMAIN files' = DOMAIN files \cup {bazel_pkg_label}
      /\ files'[bazel_pkg_label] = file
      /\ \A d \in DOMAIN files : d # bazel_pkg_label => files'[d] = files[d]
  BY DEF Write
<1>2. InPlace(pkg)' <=> LabelDir(pkg) \in DOMAIN files' /\ files'[LabelDir(pkg)].pkg = pkg
  BY DEF InPlace, LabelDir
<1>3. CASE pkg = arg
  BY <1>1, <1>2, <1>3, LabelOfArg
<1>4. CASE bazel_pkg_label = LabelDir(pkg)
  BY <1>1, <1>2, <1>4, LabelOwner
<1>5. CASE InPlace(pkg) /\ bazel_pkg_label # LabelDir(pkg)
  BY <1>1, <1>2, <1>5 DEF InPlace
<1> QED BY <1>3, <1>4, <1>5

(* A call that returns without having gone down into its sub-packages has  *)
(* left nothing pending that is not left out on purpose.                   *)
LEMMA ReturnLosesNothing ==
    ASSUME IInv, NoneLost, pc = "call", Skipped \/ Special, Return,
           UNCHANGED <<meta, arg, stack>>,
           \/ UNCHANGED files
           \/ \E file : file.pkg = arg /\ Write(file)
    PROVE  NoneLost' /\ (pc' = "done" => stack' = <<>>)
<1>1. TypeOK
  BY DEF IInv
<1>2. ASSUME NEW pkg \in meta.paths, ~Omitted(pkg), Len(pkg) <= 3
      PROVE  Pending(pkg)' \/ InPlace(pkg)'
  <2>1. CASE Pending(pkg)
    <3>1. ~Below(pkg, arg)
      BY <1>1, <1>2, LeftOut
    <3>2. PICK k \in 1..Len(stack) : \E n \in stack[k].left :
             Below(pkg, Append(stack[k].pkg, n))
      BY <2>1, <3>1 DEF Pending
    <3> QED BY <3>2 DEF Pending, Below
  <2>2. CASE InPlace(pkg)
    <3>1. CASE UNCHANGED files
      BY <2>2, <3>1 DEF InPlace, LabelDir
    <3>2. CASE \E file : file.pkg = arg /\ Write(file)
      BY <2>2, <3>2, <1>2, WriteInPlace
    <3> QED BY <3>1, <3>2
  <2> QED BY <1>2, <2>1, <2>2 DEF NoneLost
<1>3. NoneLost'
  BY <1>2 DEF NoneLost, Omitted
<1>4. pc' = "done" => stack' = <<>>
  BY DEF Return
<1> QED BY <1>3, <1>4

(* When a package's file is written, its sub-packages are left to come to. *)
LEMMA EmitLosesNothing ==
    ASSUME IInv, NoneLost, Emit
    PROVE  NoneLost'
<1> DEFINE frame == [pkg |-> arg, dir |-> new_filedeps_path,
                     curr_parent |-> pkg_parent, left |-> Children(arg)]
<1>1. /\ TypeOK /\ pc = "call" /\ stack \in Seq(Frame) /\ Len(stack) \in Nat
      /\ UNCHANGED <<meta, arg>> /\ Write(BuildFile(Targets))
      /\ BuildFile(Targets).pkg = arg
      /\ stack' = Append(stack, frame)
  BY DEF IInv, TypeOK, Emit, BuildFile
<1>2. frame \in Frame
  <2>1. arg \in Package /\ pkg_parent \in Parent
    BY <1>1, Assumptions DEF TypeOK
  <2> QED BY <1>1, <2>1, FiledepsType DEF Frame, Children
<1>3. /\ Len(stack') = Len(stack) + 1 /\ stack'[Len(stack) + 1] = frame
      /\ \A k \in 1..Len(stack) : stack'[k] = stack[k]
  BY <1>1, <1>2
<1>4. ASSUME NEW pkg \in meta.paths, ~Omitted(pkg), Len(pkg) <= 3
      PROVE  Pending(pkg)' \/ InPlace(pkg)'
  <2>0. /\ pkg \in Seq(Name) /\ Len(pkg) \in Nat
        /\ arg \in Seq(Name) /\ Len(arg) \in Nat /\ Len(arg) >= 1
        /\ \A k \in 1..Len(pkg) : SubSeq(pkg, 1, k) \in meta.paths
    BY <1>1, PackageTree DEF TypeOK
  <2>1. CASE Below(pkg, arg)
    <3>1. Len(arg) <= Len(pkg) /\ \A i \in 1..Len(arg) : pkg[i] = arg[i]
      BY <2>1 DEF Below
    <3>2. CASE Len(pkg) = Len(arg)
      <4>1. pkg = arg
        BY <2>0, <3>1, <3>2, SeqEqual
      <4> QED BY <4>1, <1>1, <1>4, WriteInPlace
    <3>3. CASE Len(pkg) # Len(arg)
      <4> DEFINE l == Len(arg) + 1
                 n == pkg[l]
                 sub == SubSeq(pkg, 1, l)
                 app == Append(arg, n)
      <4>1. l \in 1..Len(pkg) /\ n \in Name
        BY <2>0, <3>1, <3>3
      <4>2. app \in Seq(Name) /\ Len(app) = l /\ \A i \in 1..l : app[i] = pkg[i]
        BY <2>0, <3>1, <4>1
      <4>3. sub \in Seq(Name) /\ Len(sub) = l /\ \A i \in 1..l : sub[i] = pkg[i]
        BY <2>0, <4>1
      <4>4. sub \in meta.paths
        BY <2>0, <4>1
      <4> HIDE DEF l, sub, app, n
      <4>5. sub = app
        BY <4>2, <4>3, SeqEqual
      <4>6. n \in Children(arg)
        BY <4>1, <4>4, <4>5 DEF Children, app
      <4>7. Below(pkg, app)
        BY <4>1, <4>2, <2>0 DEF Below
      <4>8. /\ Len(stack) + 1 \in 1..Len(stack')
            /\ stack'[Len(stack) + 1].pkg = arg
            /\ n \in stack'[Len(stack) + 1].left
        BY <4>6, <1>1, <1>3
      <4>9. Below(pkg, Append(stack'[Len(stack) + 1].pkg, n))
        BY <4>7, <4>8 DEF app
      <4>10. \E k \in 1..Len(stack') : \E m \in stack'[k].left :
                Below(pkg, Append(stack'[k].pkg, m))
        BY <4>8, <4>9
      <4> QED BY <4>10 DEF Pending, Below
    <3> QED BY <3>2, <3>3
  <2>2. CASE Pending(pkg) /\ ~Below(pkg, arg)
    <3>1. PICK k \in 1..Len(stack) : \E n \in stack[k].left :
             Below(pkg, Append(stack[k].pkg, n))
      BY <2>2 DEF Pending
    <3>2. k \in 1..Len(stack') /\ stack'[k] = stack[k]
      BY <1>1, <1>3
    <3>3. \E h \in 1..Len(stack') : \E n \in stack'[h].left :
             Below(pkg, Append(stack'[h].pkg, n))
      BY <3>1, <3>2
    <3> QED BY <3>3 DEF Pending, Below
  <2>3. CASE InPlace(pkg)
    BY <2>3, <1>1, <1>4, WriteInPlace
  <2> QED BY <1>4, <2>1, <2>2, <2>3 DEF NoneLost
<1> QED BY <1>1, <1>4 DEF NoneLost, Omitted

(* The sub-package that the loop takes is the one of the next call.        *)
LEMMA NextLosesNothing ==
    ASSUME IInv, NoneLost, NextSubpackage
    PROVE  NoneLost'
<1> DEFINE top == Len(stack)
<1>1. /\ pc = "loop" /\ pc' = "call" /\ Walk /\ TypeOK
      /\ stack \in Seq(Frame) /\ top \in Nat /\ UNCHANGED <<meta, files>>
  BY DEF NextSubpackage, IInv, TypeOK
<1>2. stack # <<>> /\ top \in 1..Len(stack) /\ stack[top] \in Frame
  <2>1. stack # <<>>
    BY <1>1 DEF Walk
  <2> QED BY <2>1, <1>1
<1>3. PICK n \in stack[top].left :
         /\ stack' = [stack EXCEPT ![top].left = @ \ {n}]
         /\ arg' = Append(stack[top].pkg, n)
  BY DEF NextSubpackage, Top
<1>4. /\ Len(stack') = top
      /\ \A k \in 1..top : /\ stack'[k].pkg = stack[k].pkg
                           /\ stack[k].left \subseteq stack'[k].left \cup
                                 (IF k = top THEN {n} ELSE {})
  <2>1. [stack[top] EXCEPT !.left = @ \ {n}] \in Frame
    BY <1>2 DEF Frame
  <2> QED BY <1>1, <1>2, <1>3, <2>1 DEF Frame
<1>5. ASSUME NEW pkg \in meta.paths, Pending(pkg) PROVE Pending(pkg)'
  <2>0. pc # "call"
    BY <1>1
  <2>1. PICK k \in 1..Len(stack) : \E m \in stack[k].left :
           Below(pkg, Append(stack[k].pkg, m))
    BY <2>0, <1>5, Zenon DEF Pending
  <2> PICK m \in stack[k].left : Below(pkg, Append(stack[k].pkg, m))
    BY <2>1
  <2>2. CASE k = top /\ m = n
    BY <2>1, <2>2, <1>1, <1>3 DEF Pending, Below
  <2>3. CASE ~ (k = top /\ m = n)
    <3>1. k \in 1..Len(stack') /\ m \in stack'[k].left /\ stack'[k].pkg = stack[k].pkg
      BY <2>1, <2>3, <1>4
    <3> QED BY <2>1, <3>1 DEF Pending, Below
  <2> QED BY <2>2, <2>3
<1>6. ASSUME NEW pkg \in meta.paths, InPlace(pkg) PROVE InPlace(pkg)'
  BY <1>1, <1>6 DEF InPlace, LabelDir
<1> QED BY <1>1, <1>5, <1>6 DEF NoneLost, Omitted

(* A loop that ends has nothing left.                                      *)
LEMMA EndLosesNothing ==
    ASSUME IInv, NoneLost, SubpackagesEnd
    PROVE  NoneLost' /\ (pc' = "done" => stack' = <<>>)
<1> DEFINE top == Len(stack)
<1>1. /\ pc = "loop" /\ Walk /\ TypeOK /\ stack \in Seq(Frame) /\ top \in Nat
      /\ UNCHANGED <<meta, files>> /\ stack[top].left = {}
      /\ stack' = SubSeq(stack, 1, top - 1)
      /\ pc' = IF top = 1 THEN "done" ELSE "loop"
  BY DEF SubpackagesEnd, IInv, TypeOK, Top
<1>2. top >= 1
  <2>1. stack # <<>>
    BY <1>1 DEF Walk
  <2> QED BY <2>1, <1>1
<1>3. /\ Len(stack') = top - 1
      /\ \A k \in 1..(top - 1) : stack'[k] = stack[k]
  BY <1>1, <1>2, Popped
<1>4. ASSUME NEW pkg \in meta.paths, Pending(pkg) PROVE Pending(pkg)'
  <2>0. pc # "call"
    BY <1>1
  <2>1. PICK k \in 1..Len(stack) : \E m \in stack[k].left :
           Below(pkg, Append(stack[k].pkg, m))
    BY <2>0, <1>4, Zenon DEF Pending
  <2>2. k # top
    BY <1>1, <2>1
  <2>3. k \in 1..Len(stack') /\ stack'[k] = stack[k]
    BY <1>1, <1>2, <1>3, <2>2
  <2>4. \E i \in 1..Len(stack') : \E m \in stack'[i].left :
           Below(pkg, Append(stack'[i].pkg, m))
    BY <2>1, <2>3
  <2> QED BY <2>4 DEF Pending, Below
<1>5. ASSUME NEW pkg \in meta.paths, InPlace(pkg) PROVE InPlace(pkg)'
  BY <1>1, <1>5 DEF InPlace, LabelDir
<1>6. pc' = "done" => stack' = <<>>
  <2> SUFFICES ASSUME pc' = "done" PROVE stack' = <<>>
    OBVIOUS
  <2>1. top = 1
    BY <1>1
  <2>2. stack' \in Seq(Frame) /\ Len(stack') = 0
    <3>1. stack' = SubSeq(stack, 1, 0)
      BY <1>1, <2>1
    <3> QED BY <3>1, <1>1, <2>1
  <2> QED BY <2>2
<1> QED BY <1>1, <1>4, <1>5, <1>6 DEF NoneLost, Omitted

-----------------------------------------------------------------------------
(* Both targets are in the file of a package with an archive.              *)

(* A target at one place only, in the rule of the archive.                 *)
LEMMA OnceInArchive ==
    ASSUME TypeOK, HasArchive(arg), NEW k \in DOMAIN TargetsOf("archive"),
           NEW t, t = TargetsOf("archive")[k],
           Last(arg) \notin {"plugin", "hdrs"}, t \in {"lib", Last(arg)}
    PROVE  Once(t, Targets)
<1> DEFINE name == Last(arg)
<1>1. Has("archive") /\ ~Has("error")
  BY DEF HasArchive, Has
<1>2. PICK i \in DOMAIN meta.entries[arg] : meta.entries[arg][i] = "archive"
  BY DEF HasArchive
<1>3. /\ Entries = meta.entries[arg] /\ Entries \in Seq(Property)
      /\ Len(Entries) \in Nat
      /\ \A m, n \in DOMAIN Entries :
            Entries[m] = Entries[n] => m = n \/ Entries[m] \in {"other", "ignored"}
  BY <1>1, EntriesPrefix, PropertiesOnce DEF TypeOK
<1>4. i \in 1..Len(Entries) /\ Entries[i] = "archive" /\ TargetsAt(i) = TargetsOf("archive")
  <2>1. i \in 1..Len(Entries) /\ Entries[i] = "archive"
    BY <1>2, <1>3
  <2>2. i > 0
    BY <2>1
  <2> QED BY <2>1, <2>2 DEF TargetsAt
<1>5. <<i, k>> \in Places /\ Targets[<<i, k>>] = t
  BY <1>4, PlaceExists
<1>6. t # "hdrs" /\ t # "plugin"
  OBVIOUS
<1>7. ASSUME NEW q \in Places, Targets[q] = t
      PROVE  q = <<i, k>>
  <2> DEFINE j == q[1]   l == q[2]
  <2>1. /\ j \in 0..Len(Entries) /\ l \in DOMAIN TargetsAt(j) /\ q = <<j, l>>
        /\ TargetsAt(j)[l] = t
    BY <1>7, PlaceOf
  <2> HIDE DEF j, l
  <2>2. j # 0
    <3> SUFFICES ASSUME j = 0 PROVE FALSE
      OBVIOUS
    <3>1. TargetsAt(0) \in {<<"hdrs">>, <<>>}
      BY DEF TargetsAt
    <3> QED BY <3>1, <2>1, <1>6
  <2>3. /\ j \in 1..Len(Entries) /\ TargetsAt(j) = TargetsOf(Entries[j])
        /\ Entries[j] \in Property
    <3>1. j \in 1..Len(Entries) /\ j > 0
      BY <2>1, <2>2, <1>3
    <3> QED BY <3>1, <1>3 DEF TargetsAt
  <2>4. /\ Rule(Entries[j], name, TargetsOf(Entries[j]))
        /\ Rule("archive", name, TargetsOf("archive"))
    BY <2>3, Rules DEF Property
  <2>5. t \in TargetNames(Entries[j], name) /\ Entries[j] \notin {"ignored", "requires", "error", "other"}
    BY <2>1, <2>3, <2>4, <1>1, RuleNames DEF Property
  <2>6. Entries[j] = "archive"
    <3>1. Entries[j] # "plugin"
      BY <2>5, <1>6 DEF TargetNames
    <3> QED BY <3>1, <2>3, <2>5 DEF Property
  <2>7. j = i
    BY <2>3, <2>6, <1>3, <1>4
  <2>8. l \in DOMAIN TargetsOf("archive") /\ TargetsOf("archive")[l] = TargetsOf("archive")[k]
    BY <2>1, <2>7, <1>4
  <2>9. l = k
    BY <2>4, <2>8, <1>1, RuleOnce DEF Property
  <2> QED BY <2>1, <2>7, <2>9
<1>8. DOMAIN Targets = Places
  BY DEF Targets
<1> QED BY <1>5, <1>7, <1>8 DEF Once

(* The rule it comes from declares lib, and once.                          *)
LEMMA LibOfRule ==
    ASSUME NEW prop \in {"archive", "requires"},
           prop = "requires" => ~Has("archive") /\ ~Has("plugin") /\ Last(arg) # "lib"
    PROVE  \E k \in DOMAIN TargetsOf(prop) :
              /\ TargetsOf(prop)[k] = "lib"
              /\ \A l \in DOMAIN TargetsOf(prop) : TargetsOf(prop)[l] = "lib" => l = k
<1> DEFINE name == Last(arg)
           rule == TargetsOf(prop)
<1>1. CASE prop = "archive"
  <2>1. Rule("archive", name, rule)
    BY <1>1, Rules DEF Property
  <2>2. \/ name # "lib" /\ rule \in {<<"lib", "hdrs", name>>, <<"lib", name>>}
        \/ name = "lib" /\ rule \in {<<"hdrs", name>>, <<name>>}
    BY <2>1 DEF Rule
  <2> HIDE DEF rule, name
  <2>3. CASE name # "lib" /\ rule = <<"lib", "hdrs", name>>
    <3>1. 1 \in DOMAIN rule /\ rule[1] = "lib"
      BY <2>3
    <3>2. \A l \in DOMAIN rule : rule[l] = "lib" => l = 1
      BY <2>3
    <3> QED BY <3>1, <3>2 DEF rule
  <2>4. CASE name # "lib" /\ rule = <<"lib", name>>
    <3>1. 1 \in DOMAIN rule /\ rule[1] = "lib"
      BY <2>4
    <3>2. \A l \in DOMAIN rule : rule[l] = "lib" => l = 1
      BY <2>4
    <3> QED BY <3>1, <3>2 DEF rule
  <2>5. CASE name = "lib" /\ rule = <<"hdrs", name>>
    <3>1. 2 \in DOMAIN rule /\ rule[2] = "lib"
      BY <2>5
    <3>2. \A l \in DOMAIN rule : rule[l] = "lib" => l = 2
      BY <2>5
    <3> QED BY <3>1, <3>2 DEF rule
  <2>6. CASE name = "lib" /\ rule = <<name>>
    <3>1. 1 \in DOMAIN rule /\ rule[1] = "lib"
      BY <2>6
    <3>2. \A l \in DOMAIN rule : rule[l] = "lib" => l = 1
      BY <2>6
    <3> QED BY <3>1, <3>2 DEF rule
  <2> QED BY <2>2, <2>3, <2>4, <2>5, <2>6 DEF rule
<1>2. CASE prop = "requires"
  <2>1. rule = deps_target(name)
    BY <1>2 DEF TargetsOf
  <2>2. rule \in {<<"lib", name>>, <<"lib", "findlib">>} /\ name # "lib"
    BY <2>1, <1>2 DEF deps_target
  <2> HIDE DEF rule, name
  <2>3. 1 \in DOMAIN rule /\ rule[1] = "lib"
    BY <2>2
  <2>4. \A l \in DOMAIN rule : rule[l] = "lib" => l = 1
    BY <2>2
  <2> QED BY <2>3, <2>4 DEF rule
<1> QED BY <1>1, <1>2

LEMMA LibOnce ==
    ASSUME TypeOK, HasLib(arg)
    PROVE  Once("lib", Targets)
<1> DEFINE name == Last(arg)
           prop == IF Has("archive") THEN "archive" ELSE "requires"
<1>1. /\ ~Has("error") /\ Has(prop) /\ prop \in {"archive", "requires"}
      /\ prop = "archive" <=> Has("archive")
      /\ prop = "requires" => ~Has("archive") /\ ~Has("plugin") /\ name # "lib"
  BY DEF HasLib, Has, Last
<1> HIDE DEF prop, name
<1>2. PICK i \in DOMAIN meta.entries[arg] : meta.entries[arg][i] = prop
  BY <1>1 DEF Has
<1>3. /\ Entries = meta.entries[arg] /\ Entries \in Seq(Property)
      /\ Len(Entries) \in Nat
      /\ \A m, n \in DOMAIN Entries :
            Entries[m] = Entries[n] => m = n \/ Entries[m] \in {"other", "ignored"}
  BY <1>1, EntriesPrefix, PropertiesOnce DEF TypeOK
<1>4. i \in 1..Len(Entries) /\ Entries[i] = prop /\ TargetsAt(i) = TargetsOf(prop)
  <2>1. i \in 1..Len(Entries) /\ Entries[i] = prop
    BY <1>2, <1>3
  <2>2. i > 0
    BY <2>1
  <2> QED BY <2>1, <2>2 DEF TargetsAt
<1>5. PICK k \in DOMAIN TargetsOf(prop) :
         /\ TargetsOf(prop)[k] = "lib"
         /\ \A l \in DOMAIN TargetsOf(prop) : TargetsOf(prop)[l] = "lib" => l = k
  BY <1>1, LibOfRule DEF name
<1>6. <<i, k>> \in Places /\ Targets[<<i, k>>] = "lib"
  BY <1>4, <1>5, PlaceExists
<1>7. ASSUME NEW q \in Places, Targets[q] = "lib"
      PROVE  q = <<i, k>>
  <2> DEFINE j == q[1]   l == q[2]
  <2>1. /\ j \in 0..Len(Entries) /\ l \in DOMAIN TargetsAt(j) /\ q = <<j, l>>
        /\ TargetsAt(j)[l] = "lib"
    BY <1>7, PlaceOf
  <2> HIDE DEF j, l
  <2>2. j # 0
    <3> SUFFICES ASSUME j = 0 PROVE FALSE
      OBVIOUS
    <3>1. TargetsAt(0) \in {<<"hdrs">>, <<>>}
      BY DEF TargetsAt
    <3> QED BY <3>1, <2>1
  <2>3. /\ j \in 1..Len(Entries) /\ TargetsAt(j) = TargetsOf(Entries[j])
        /\ Entries[j] \in Property
    <3>1. j \in 1..Len(Entries) /\ j > 0
      BY <2>1, <2>2, <1>3
    <3> QED BY <3>1, <1>3 DEF TargetsAt
  <2>4. Rule(Entries[j], name, TargetsOf(Entries[j]))
    BY <2>3, Rules DEF name
  <2>5. /\ "lib" \in TargetNames(Entries[j], name)
        /\ Entries[j] \notin {"ignored", "error", "other"}
        /\ Entries[j] = "requires" => ~Has("archive")
    BY <2>1, <2>3, <2>4, <1>1, RuleNames
  <2>6. Entries[j] = "archive" => Has("archive")
    BY <2>3, <1>3 DEF Has
  <2>7. Entries[j] = prop
    <3>1. Entries[j] # "plugin"
      BY <2>5 DEF TargetNames
    <3> QED BY <3>1, <2>3, <2>5, <2>6, <1>1 DEF Property
  <2>8. j = i
    BY <2>3, <2>7, <1>1, <1>3, <1>4
  <2>9. l = k
    BY <2>1, <2>8, <1>4, <1>5
  <2> QED BY <2>1, <2>8, <2>9
<1>8. DOMAIN Targets = Places
  BY DEF Targets
<1> QED BY <1>6, <1>7, <1>8 DEF Once

(* The file of a whole call is complete.                                   *)
LEMMA EmitComplete ==
    ASSUME TypeOK, NEW file, file.pkg = arg, file.targets = Targets
    PROVE  Complete(file)
<1> DEFINE name == Last(arg)
           rule == TargetsOf("archive")
<1> SUFFICES ASSUME HasArchive(arg), name \notin {"plugin", "hdrs"}
             PROVE  Once("lib", Targets) /\ Once(name, Targets)
  BY LibOnce DEF Complete, Last
<1>1. Rule("archive", name, rule)
  BY Rules DEF Property
<1>2. \A t \in {"lib", name} : \E k \in DOMAIN rule : t = rule[k]
  <2> HIDE DEF rule, name
  <2>1. CASE rule = <<"lib", "hdrs", name>>
    <3>1. 1 \in DOMAIN rule /\ 3 \in DOMAIN rule /\ rule[1] = "lib" /\ rule[3] = name
      BY <2>1
    <3> QED BY <3>1
  <2>2. CASE rule = <<"lib", name>>
    <3>1. 1 \in DOMAIN rule /\ 2 \in DOMAIN rule /\ rule[1] = "lib" /\ rule[2] = name
      BY <2>2
    <3> QED BY <3>1
  <2>3. CASE name = "lib" /\ rule = <<"hdrs", name>>
    <3>1. 2 \in DOMAIN rule /\ rule[2] = name
      BY <2>3
    <3> QED BY <3>1, <2>3
  <2>4. CASE name = "lib" /\ rule = <<name>>
    <3>1. 1 \in DOMAIN rule /\ rule[1] = name
      BY <2>4
    <3> QED BY <3>1, <2>4
  <2> QED BY <2>1, <2>2, <2>3, <2>4, <1>1 DEF Rule
<1> QED BY <1>2, OnceInArchive

(* Every step keeps Mapping.                                               *)
LEMMA MappingStep == IInv /\ Mapping /\ [Next]_vars => Mapping'
<1> SUFFICES ASSUME IInv, Mapping, [Next]_vars PROVE Mapping'
  OBVIOUS
<1>1. TypeOK /\ UNCHANGED meta
  BY DEF IInv, Next, vars, CompilerLibsPkg, SpecialCase, ConfiguratorMismatch,
         HeadersGlobError, Emit, NextSubpackage, SubpackagesEnd
<1> DEFINE AllComplete == \A d \in DOMAIN files : Complete(files[d])
<1>2. \A file : Complete(file)' <=> Complete(file)
  BY <1>1 DEF Complete, HasArchive, HasLib, Omitted, Once
<1>3. ASSUME AllComplete, UNCHANGED files PROVE AllComplete'
  BY <1>2, <1>3
<1>4. ASSUME AllComplete, NEW file, Complete(file), Write(file) PROVE AllComplete'
  BY <1>2, <1>4 DEF Write
<1>5. CASE CompilerLibsPkg
  BY <1>3, <1>5, ReturnLosesNothing DEF CompilerLibsPkg, Mapping
<1>6. CASE SpecialCase
  <2> DEFINE file == [BuildFile([p \in {<<0, 1>>} |-> Last(arg)]) EXCEPT !.links = <<>>]
  <2>1. file.pkg = arg /\ Write(file)
    BY <1>6 DEF SpecialCase, BuildFile
  <2> HIDE DEF file
  <2>2. Omitted(arg)
    BY <1>1, <1>6, LeftOut DEF SpecialCase, Below, TypeOK
  <2>3. Complete(file)
    BY <2>1, <2>2 DEF Complete
  <2> QED BY <1>4, <1>6, <2>1, <2>3, ReturnLosesNothing DEF SpecialCase, Mapping
<1>7. CASE ConfiguratorMismatch
  BY <1>7 DEF ConfiguratorMismatch, Mapping
<1>8. CASE HeadersGlobError
  BY <1>8 DEF HeadersGlobError, Mapping
<1>9. CASE Emit
  <2>1. Complete(BuildFile(Targets))
    BY <1>1, EmitComplete DEF BuildFile
  <2> QED BY <1>4, <1>9, <2>1, EmitLosesNothing DEF Emit, Mapping
<1>10. CASE NextSubpackage
  BY <1>3, <1>10, NextLosesNothing DEF NextSubpackage, Mapping
<1>11. CASE SubpackagesEnd
  BY <1>3, <1>11, EndLosesNothing DEF SubpackagesEnd, Mapping
<1>12. CASE UNCHANGED vars
  <2>1. \A pkg : /\ Pending(pkg)' <=> Pending(pkg)
                 /\ InPlace(pkg)' <=> InPlace(pkg)
    BY <1>12 DEF vars, Pending, InPlace, Below, LabelDir
  <2> QED BY <1>3, <1>12, <2>1 DEF vars, Mapping, NoneLost, Omitted
<1> QED
  BY <1>5, <1>6, <1>7, <1>8, <1>9, <1>10, <1>11, <1>12 DEF Next

LEMMA MappingInvariance == Spec => []Mapping
<1>1. Init => Mapping
  <2> SUFFICES ASSUME Init PROVE Mapping
    OBVIOUS
  <2>1. TypeOK
    BY InitInv DEF IInv
  <2>2. ASSUME NEW pkg \in meta.paths PROVE Below(pkg, arg)
    BY <2>1, PackageTree DEF Init, Below
  <2> QED BY <2>2 DEF Init, Mapping, NoneLost, Pending
<1> QED BY <1>1, MappingStep, Invariance, PTL DEF Spec

(* Whatever the META tree and the order of the walk, when it is done a     *)
(* dependent of a package with an archive finds the package's BUILD file   *)
(* where its label says, with both targets in it.                          *)
THEOREM MappingSchemeCorrect == Spec => []MappingScheme
<1>1. IInv /\ Mapping => MappingScheme
  <2> SUFFICES ASSUME IInv, Mapping, pc = "done", NEW pkg \in meta.paths,
                      HasArchive(pkg), ~Omitted(pkg), Len(pkg) <= 3,
                      pkg[Len(pkg)] \notin {"plugin", "hdrs"}
               PROVE  Mapped(pkg)
    BY DEF MappingScheme
  <2>1. NoneLost /\ (\A d \in DOMAIN files : Complete(files[d])) /\ stack = <<>>
    BY DEF Mapping
  <2>2. ~Pending(pkg)
    <3>1. 1..Len(stack) = {}
      BY <2>1
    <3> QED BY <3>1 DEF Pending
  <2>3. InPlace(pkg)
    BY <2>1, <2>2 DEF NoneLost
  <2> QED BY <2>1, <2>3 DEF Mapped, InPlace, Complete
<1> QED BY <1>1, Invariance, MappingInvariance, PTL

(* What dependents need of it: the target lib, of every package that can   *)
(* be linked.                                                              *)
LibMapped ==
    pc = "done" =>
        \A pkg \in meta.paths :
            HasLib(pkg) /\ ~Omitted(pkg) /\ Len(pkg) <= 3
                => InPlace(pkg) /\ Once("lib", files[LabelDir(pkg)].targets)

LEMMA LibMappedCorrect == Spec => []LibMapped
<1>1. IInv /\ Mapping => LibMapped
  <2> SUFFICES ASSUME IInv, Mapping, pc = "done", NEW pkg \in meta.paths,
                      HasLib(pkg), ~Omitted(pkg), Len(pkg) <= 3
               PROVE  InPlace(pkg) /\ Once("lib", files[LabelDir(pkg)].targets)
    BY DEF LibMapped
  <2>1. NoneLost /\ (\A d \in DOMAIN files : Complete(files[d])) /\ stack = <<>>
    BY DEF Mapping
  <2>2. ~Pending(pkg)
    <3>1. 1..Len(stack) = {}
      BY <2>1
    <3> QED BY <3>1 DEF Pending
  <2>3. InPlace(pkg)
    BY <2>1, <2>2 DEF NoneLost
  <2> QED BY <2>1, <2>3 DEF InPlace, Complete
<1> QED BY <1>1, Invariance, MappingInvariance, PTL

-----------------------------------------------------------------------------
(* The directory that the rules of META give a package.                    *)

(* f is the recursive function of PackageDir as far as m.                  *)
IsDirs(pkg, m, f) ==
    f = [k \in 1..m |-> Under(IF k = 1 THEN <<meta.root>> ELSE f[k - 1],
                              meta.directory[SubSeq(pkg, 1, k)])]

LEMMA DirsExist == \A pkg : \A m \in Nat : \E f : IsDirs(pkg, m, f)
<1> SUFFICES ASSUME NEW pkg PROVE \A m \in Nat : \E f : IsDirs(pkg, m, f)
  OBVIOUS
<1> DEFINE D(f, k) == Under(IF k = 1 THEN <<meta.root>> ELSE f[k - 1],
                            meta.directory[SubSeq(pkg, 1, k)])
           T == {m \in Nat : ~ \E f : IsDirs(pkg, m, f)}
<1>1. \A f, m : IsDirs(pkg, m, f) <=> f = [k \in 1..m |-> D(f, k)]
  BY DEF IsDirs
<1> SUFFICES ASSUME T # {} PROVE FALSE
  OBVIOUS
<1>2. PICK m \in T : \A n \in T : m <= n
  <2>1. T \subseteq Nat
    OBVIOUS
  <2> HIDE DEF T
  <2> QED BY <2>1, LeastNat
<1>3. m # 0
  <2> DEFINE f == [k \in 1..0 |-> <<>>]
  <2>1. f = [k \in 1..0 |-> D(f, k)]
    <3> HIDE DEF D
    <3> QED OBVIOUS
  <2>2. IsDirs(pkg, 0, f)
    <3> HIDE DEF f, D
    <3> QED BY <1>1, <2>1
  <2> QED BY <2>2
<1>4. m \in Nat /\ m - 1 \in Nat /\ m - 1 \notin T
  BY <1>2, <1>3
<1>5. PICK f : IsDirs(pkg, m - 1, f)
  BY <1>4
<1> DEFINE g == [k \in 1..m |-> IF k = m THEN D(f, m) ELSE f[k]]
<1>6. f = [k \in 1..(m - 1) |-> D(f, k)]
  BY <1>1, <1>5
<1>7. ASSUME NEW k \in 1..m PROVE g[k] = D(g, k)
  <2>1. k = 1 \/ (k - 1 \in 1..m /\ k - 1 # m)
    BY <1>4
  <2>2. k # 1 => g[k - 1] = f[k - 1]
    BY <2>1
  <2>3. D(g, k) = D(f, k)
    <3> HIDE DEF g
    <3> QED BY <2>2
  <2>4. CASE k = m
    BY <2>3, <2>4
  <2>5. CASE k # m
    <3>1. k \in 1..(m - 1)
      BY <2>5, <1>4
    <3>2. f[k] = D(f, k)
      <4> HIDE DEF D
      <4> QED BY <3>1, <1>6
    <3>3. g[k] = f[k]
      BY <2>5
    <3> QED BY <3>2, <3>3, <2>3
  <2> QED BY <2>4, <2>5
<1>8. IsDirs(pkg, m, g)
  <2>1. g = [k \in 1..m |-> g[k]]
    OBVIOUS
  <2> HIDE DEF g, D
  <2>2. g = [k \in 1..m |-> D(g, k)]
    BY <1>7, <2>1
  <2> QED BY <1>1, <2>2
<1> QED BY <1>2, <1>8

(* Two of them agree as far as the packages do.                            *)
LEMMA DirsAgree ==
    ASSUME NEW p, NEW q, NEW m \in Nat, NEW n \in Nat, m <= n,
           NEW f, NEW g, IsDirs(p, m, f), IsDirs(q, n, g),
           \A k \in 1..m : SubSeq(p, 1, k) = SubSeq(q, 1, k)
    PROVE  \A k \in 1..m : f[k] = g[k]
<1> DEFINE T == {k \in 1..m : f[k] # g[k]}
<1>1. /\ \A k \in 1..m : f[k] = Under(IF k = 1 THEN <<meta.root>> ELSE f[k - 1],
                                      meta.directory[SubSeq(p, 1, k)])
      /\ \A k \in 1..n : g[k] = Under(IF k = 1 THEN <<meta.root>> ELSE g[k - 1],
                                      meta.directory[SubSeq(q, 1, k)])
  <2>1. \A k \in 1..m : f[k] = Under(IF k = 1 THEN <<meta.root>> ELSE f[k - 1],
                                      meta.directory[SubSeq(p, 1, k)])
    BY DEF IsDirs
  <2>2. \A k \in 1..n : g[k] = Under(IF k = 1 THEN <<meta.root>> ELSE g[k - 1],
                                      meta.directory[SubSeq(q, 1, k)])
    BY DEF IsDirs
  <2> QED BY <2>1, <2>2
<1> SUFFICES ASSUME T # {} PROVE FALSE
  OBVIOUS
<1>2. PICK k \in T : \A j \in T : k <= j
  <2>1. T \subseteq Nat
    OBVIOUS
  <2> HIDE DEF T
  <2> QED BY <2>1, LeastNat
<1>3. k \in 1..m /\ k \in 1..n /\ f[k] # g[k]
  BY <1>2
<1>4. k # 1 => f[k - 1] = g[k - 1]
  <2> SUFFICES ASSUME k # 1, f[k - 1] # g[k - 1] PROVE FALSE
    OBVIOUS
  <2>1. k - 1 \in 1..m
    BY <1>3
  <2>2. k - 1 \in T /\ ~ (k <= k - 1)
    BY <2>1, <1>3
  <2> QED BY <2>2, <1>2
<1>5. SubSeq(p, 1, k) = SubSeq(q, 1, k)
  BY <1>3
<1>6. /\ f[k] = Under(IF k = 1 THEN <<meta.root>> ELSE f[k - 1],
                      meta.directory[SubSeq(p, 1, k)])
      /\ g[k] = Under(IF k = 1 THEN <<meta.root>> ELSE g[k - 1],
                      meta.directory[SubSeq(q, 1, k)])
  BY <1>1, <1>3
<1> QED BY <1>3, <1>4, <1>5, <1>6

LEMMA PackageDirIs ==
    ASSUME NEW pkg, Len(pkg) \in Nat
    PROVE  \E f : IsDirs(pkg, Len(pkg), f) /\ PackageDir(pkg) = f[Len(pkg)]
<1> DEFINE dir == CHOOSE f : IsDirs(pkg, Len(pkg), f)
<1>1. IsDirs(pkg, Len(pkg), dir)
  BY DirsExist
<1>2. PackageDir(pkg) = dir[Len(pkg)]
  BY DEF PackageDir, IsDirs
<1> QED BY <1>1, <1>2

(* The directory of a package is what its directory property makes of that *)
(* of the package it is in.                                                *)
LEMMA PackageDirStep ==
    ASSUME TypeOK, NEW pkg \in meta.paths
    PROVE  PackageDir(pkg) =
             Under(IF Len(pkg) = 1 THEN <<meta.root>>
                   ELSE PackageDir(SubSeq(pkg, 1, Len(pkg) - 1)),
                   meta.directory[pkg])
<1> DEFINE n == Len(pkg)
           front == SubSeq(pkg, 1, n - 1)
<1>1. pkg \in Seq(Name) /\ n \in Nat /\ n >= 1
  BY PackageTree
<1>2. SubSeq(pkg, 1, n) = pkg
  BY <1>1
<1>3. PICK f : IsDirs(pkg, n, f) /\ PackageDir(pkg) = f[n]
  BY <1>1, PackageDirIs
<1>4. f[n] = Under(IF n = 1 THEN <<meta.root>> ELSE f[n - 1], meta.directory[SubSeq(pkg, 1, n)])
  <2>1. n \in 1..n
    BY <1>1
  <2> HIDE DEF n
  <2> QED BY <2>1, <1>3 DEF IsDirs
<1>5. CASE n = 1
  BY <1>2, <1>3, <1>4, <1>5
<1>6. CASE n # 1
  <2>1. front \in Seq(Name) /\ Len(front) = n - 1 /\ n - 1 \in Nat
        /\ \A k \in 1..(n - 1) : front[k] = pkg[k]
    BY <1>1, Popped
  <2>2. PICK g : IsDirs(front, n - 1, g) /\ PackageDir(front) = g[n - 1]
    <3>1. Len(front) \in Nat
      BY <2>1
    <3> HIDE DEF front
    <3> QED BY <2>1, <3>1, PackageDirIs
  <2>3. \A k \in 1..(n - 1) : SubSeq(front, 1, k) = SubSeq(pkg, 1, k)
    <3> SUFFICES ASSUME NEW k \in 1..(n - 1) PROVE SubSeq(front, 1, k) = SubSeq(pkg, 1, k)
      OBVIOUS
    <3> DEFINE a == SubSeq(front, 1, k)
               b == SubSeq(pkg, 1, k)
    <3> HIDE DEF n, front
    <3>1. a \in Seq(Name) /\ Len(a) = k /\ \A i \in 1..k : a[i] = front[i]
      BY <2>1
    <3>2. b \in Seq(Name) /\ Len(b) = k /\ \A i \in 1..k : b[i] = pkg[i]
      BY <1>1 DEF n
    <3> HIDE DEF a, b
    <3>3. a = b
      BY <3>1, <3>2, <2>1, SeqEqual
    <3> QED BY <3>3 DEF a, b
  <2>4. g[n - 1] = f[n - 1]
    <3>1. n - 1 <= n /\ n - 1 \in 1..(n - 1)
      <4> HIDE DEF n
      <4> QED BY <1>1, <1>6
    <3>2. \A k \in 1..(n - 1) : g[k] = f[k]
      <4> HIDE DEF n, front
      <4> QED BY <1>1, <1>3, <2>1, <2>2, <2>3, <3>1, DirsAgree
    <3> QED BY <3>1, <3>2
  <2> QED BY <1>2, <1>3, <1>4, <1>6, <2>2, <2>4
<1> QED BY <1>5, <1>6

(* What the sub-packages of the package of call number k inherit.          *)
Inherited(k) == IF k = 0 THEN <<meta.root>> ELSE stack[k].dir

(* Each active call hands down the directory of its package.               *)
Handed ==
    /\ \A k \in 1..Len(stack) :
          stack[k].pkg \in meta.paths /\ stack[k].dir = PackageDir(stack[k].pkg)
    /\ pc = "call" => arg_dir = Inherited(Len(stack))

LinksInv ==
    /\ pc \in {"call", "loop"} => Handed
    /\ LinksFromPackageDir

(* A call reads the files of its package's own directory.                  *)
LEMMA CallDir ==
    ASSUME IInv, pc = "call", Handed
    PROVE  new_filedeps_path = PackageDir(arg)
<1>1. TypeOK /\ Walk /\ arg \in meta.paths /\ stack \in Seq(Frame)
  BY DEF IInv, TypeOK
<1>2. /\ arg \in Seq(Name) /\ Len(arg) \in Nat /\ Len(arg) = Len(stack) + 1
      /\ \A i \in 1..Len(stack) : arg[i] = stack[Len(stack)].pkg[i]
  BY <1>1, PackageTree DEF Walk
<1>3. arg_dir = IF Len(arg) = 1 THEN <<meta.root>>
                ELSE PackageDir(SubSeq(arg, 1, Len(arg) - 1))
  <2>1. CASE Len(stack) = 0
    BY <2>1, <1>2 DEF Handed, Inherited
  <2>2. CASE Len(stack) # 0
    <3> DEFINE caller == stack[Len(stack)].pkg
               front  == SubSeq(arg, 1, Len(arg) - 1)
    <3>1. Len(stack) \in 1..Len(stack) /\ Len(stack) \in Nat
      BY <2>2, <1>1
    <3>2. caller \in meta.paths /\ arg_dir = PackageDir(caller)
      BY <3>1, <2>2 DEF Handed, Inherited
    <3>3. caller \in Seq(Name) /\ Len(caller) = Len(stack)
      BY <3>1, <3>2, <1>1, PackageTree DEF Walk
    <3>4. front \in Seq(Name) /\ Len(front) = Len(stack)
          /\ \A k \in 1..Len(stack) : front[k] = arg[k]
      <4>1. Len(arg) >= 1 /\ Len(arg) - 1 = Len(stack)
        BY <1>2, <3>1
      <4> QED BY <4>1, <1>2, Popped
    <3> HIDE DEF caller, front
    <3>5. \A k \in 1..Len(stack) : front[k] = caller[k]
      BY <3>4, <1>2 DEF caller
    <3>6. front = caller
      BY <3>3, <3>4, <3>5, SeqEqual
    <3>7. Len(arg) # 1
      BY <2>2, <1>2, <3>1
    <3> QED BY <3>2, <3>6, <3>7 DEF front
  <2> QED BY <2>1, <2>2
<1> QED BY <1>1, <1>3, PackageDirStep DEF new_filedeps_path

(* The walk does not change where packages are.                            *)
LEMMA SamePackageDir == UNCHANGED meta => \A pkg : PackageDir(pkg)' = PackageDir(pkg)
BY DEF PackageDir, Under

(* A file that a call writes links the files of the package, or none.      *)
LEMMA WriteLinks ==
    ASSUME LinksFromPackageDir, UNCHANGED meta, NEW file, Write(file),
           file.links \in {<<>>, PackageDir(file.pkg)}
    PROVE  LinksFromPackageDir'
<1>1. \A pkg : PackageDir(pkg)' = PackageDir(pkg)
  BY SamePackageDir
<1>2. \A d \in DOMAIN files' : files'[d].links \in {<<>>, PackageDir(files'[d].pkg)}
  BY DEF LinksFromPackageDir, Write
<1> QED BY <1>1, <1>2 DEF LinksFromPackageDir

(* Every step keeps LinksInv.                                              *)
LEMMA LinksStep == IInv /\ LinksInv /\ [Next]_vars => LinksInv'
<1> SUFFICES ASSUME IInv, LinksInv, [Next]_vars PROVE LinksInv'
  OBVIOUS
<1>1. TypeOK /\ UNCHANGED meta
  BY DEF IInv, Next, vars, CompilerLibsPkg, SpecialCase, ConfiguratorMismatch,
         HeadersGlobError, Emit, NextSubpackage, SubpackagesEnd
<1>2. \A pkg : PackageDir(pkg)' = PackageDir(pkg)
  BY <1>1, SamePackageDir
<1>3. stack \in Seq(Frame) /\ Len(stack) \in Nat
  BY <1>1 DEF TypeOK
<1>4. UNCHANGED files => LinksFromPackageDir'
  BY <1>2 DEF LinksInv, LinksFromPackageDir
<1>5. ASSUME pc = "call", Return, UNCHANGED <<arg_dir, stack>>,
             pc' \in {"call", "loop"}
      PROVE  Handed'
  BY <1>1, <1>2, <1>5 DEF LinksInv, Handed, Return, Inherited
<1>6. ASSUME NEW targets, pc = "call"
      PROVE  /\ BuildFile(targets).links \in {<<>>, PackageDir(arg)}
             /\ BuildFile(targets).pkg = arg
             /\ [BuildFile(targets) EXCEPT !.links = <<>>].links = <<>>
  BY <1>6, CallDir DEF BuildFile, LinksInv
<1>7. CASE CompilerLibsPkg
  BY <1>4, <1>5, <1>7 DEF CompilerLibsPkg, LinksInv
<1>8. CASE SpecialCase
  <2>1. LinksFromPackageDir'
    BY <1>1, <1>6, <1>8, WriteLinks DEF SpecialCase, LinksInv
  <2> QED BY <2>1, <1>5, <1>8 DEF SpecialCase, LinksInv
<1>9. CASE ConfiguratorMismatch
  <2>1. LinksFromPackageDir'
    BY <1>1, <1>6, <1>9, WriteLinks DEF ConfiguratorMismatch, LinksInv
  <2> QED BY <2>1, <1>9 DEF ConfiguratorMismatch, LinksInv
<1>10. CASE HeadersGlobError
  <2>1. LinksFromPackageDir'
    BY <1>1, <1>6, <1>10, WriteLinks DEF HeadersGlobError, LinksInv
  <2> QED BY <2>1, <1>10 DEF HeadersGlobError, LinksInv
<1>11. CASE Emit
  <2> DEFINE frame == [pkg |-> arg, dir |-> new_filedeps_path,
                       curr_parent |-> pkg_parent, left |-> Children(arg)]
  <2>1. /\ pc = "call" /\ pc' = "loop" /\ Write(BuildFile(Targets))
        /\ stack' = Append(stack, frame) /\ Handed
    BY <1>11 DEF Emit, LinksInv
  <2>2. LinksFromPackageDir'
    BY <1>1, <1>6, <2>1, WriteLinks DEF LinksInv
  <2>3. frame.pkg = arg /\ frame.dir = PackageDir(arg) /\ arg \in meta.paths
    BY <2>1, <1>1, CallDir DEF TypeOK
  <2>4. frame \in Frame
    <3>1. arg \in Package /\ pkg_parent \in Parent
      BY <1>1, Assumptions DEF TypeOK
    <3> QED BY <1>1, <3>1, FiledepsType DEF Frame, Children
  <2> HIDE DEF frame
  <2>5. /\ Len(stack') = Len(stack) + 1 /\ stack'[Len(stack) + 1] = frame
        /\ \A k \in 1..Len(stack) : stack'[k] = stack[k]
    BY <1>3, <2>1, <2>4
  <2>6. Handed'
    <3> SUFFICES ASSUME NEW k \in 1..Len(stack')
                 PROVE  /\ stack'[k].pkg \in meta'.paths
                        /\ stack'[k].dir = PackageDir(stack'[k].pkg)
      BY <1>2, <2>1 DEF Handed
    <3>1. CASE k = Len(stack) + 1
      BY <3>1, <1>1, <2>3, <2>5
    <3>2. CASE k # Len(stack) + 1
      <4>1. k \in 1..Len(stack) /\ stack'[k] = stack[k]
        BY <3>2, <1>3, <2>5
      <4> QED BY <4>1, <1>1, <2>1 DEF Handed
    <3> QED BY <3>1, <3>2
  <2> QED BY <2>2, <2>6 DEF LinksInv
<1>12. CASE NextSubpackage
  <2>1. /\ pc = "loop" /\ pc' = "call" /\ Walk /\ Handed /\ UNCHANGED files
    BY <1>12 DEF NextSubpackage, IInv, LinksInv
  <2>2. Len(stack) \in 1..Len(stack) /\ stack[Len(stack)] \in Frame
    <3>1. stack # <<>>
      BY <2>1 DEF Walk
    <3> QED BY <3>1, <1>3
  <2>3. PICK n \in stack[Len(stack)].left :
           /\ stack' = [stack EXCEPT ![Len(stack)].left = @ \ {n}]
           /\ arg_dir' = stack[Len(stack)].dir
    BY <1>12 DEF NextSubpackage, Top
  <2>4. /\ Len(stack') = Len(stack)
        /\ \A k \in 1..Len(stack) : /\ stack'[k].pkg = stack[k].pkg
                                    /\ stack'[k].dir = stack[k].dir
    <3>1. [stack[Len(stack)] EXCEPT !.left = @ \ {n}] \in Frame
      BY <2>2 DEF Frame
    <3> QED BY <1>3, <2>2, <2>3, <3>1 DEF Frame
  <2>5. arg_dir' = Inherited(Len(stack))'
    BY <2>2, <2>3, <2>4 DEF Inherited
  <2>6. Handed'
    BY <1>1, <1>2, <2>1, <2>4, <2>5 DEF Handed
  <2> QED BY <1>4, <2>1, <2>6 DEF LinksInv
<1>13. CASE SubpackagesEnd
  <2>1. /\ pc = "loop" /\ pc' # "call" /\ Walk /\ Handed /\ UNCHANGED files
        /\ stack' = SubSeq(stack, 1, Len(stack) - 1)
    BY <1>13 DEF SubpackagesEnd, IInv, LinksInv
  <2>2. Len(stack) >= 1
    <3>1. stack # <<>>
      BY <2>1 DEF Walk
    <3> QED BY <3>1, <1>3
  <2>3. /\ Len(stack') = Len(stack) - 1
        /\ \A k \in 1..(Len(stack) - 1) : stack'[k] = stack[k]
    BY <1>3, <2>1, <2>2, Popped
  <2>4. \A k \in 1..Len(stack') : k \in 1..Len(stack) /\ stack'[k] = stack[k]
    BY <1>3, <2>3
  <2>5. Handed'
    BY <1>1, <1>2, <2>1, <2>4 DEF Handed
  <2> QED BY <1>4, <2>1, <2>5 DEF LinksInv
<1>14. CASE UNCHANGED vars
  BY <1>2, <1>4, <1>14 DEF vars, LinksInv, Handed, Inherited
<1> QED
  BY <1>7, <1>8, <1>9, <1>10, <1>11, <1>12, <1>13, <1>14 DEF Next

(* In every META tree the files linked next to a BUILD file are those of   *)
(* the directory that META's rules give the package.                       *)
THEOREM LinksFromPackageDirCorrect == Spec => []LinksFromPackageDir
<1>1. Init => LinksInv
  <2> SUFFICES ASSUME Init PROVE LinksInv
    OBVIOUS
  <2>1. Len(stack) = 0
    BY DEF Init
  <2> QED BY <2>1 DEF Init, LinksInv, Handed, Inherited, LinksFromPackageDir
<1>2. LinksInv => LinksFromPackageDir
  BY DEF LinksInv
<1> QED BY <1>1, <1>2, LinksStep, Invariance, PTL DEF Spec
=============================================================================
