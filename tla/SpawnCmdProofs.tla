--------------------------- MODULE SpawnCmdProofs ---------------------------
(***************************************************************************)
(* What holds of spawn_cmd and _opam_root for pipes of any capacity,       *)
(* commands of any length and any descriptor limit.  The invariant counts  *)
(* lines (what is in a pipe and what is still to be written is what the    *)
(* command writes) and lists, stage by stage, the descriptors of the call. *)
(***************************************************************************)
EXTENDS SpawnCmd, TLAPS

Reading == {"openOut", "readOut", "openErr", "readErr"}

(* The lines of the command's streams.                                     *)
Counted ==
    /\ want # "none" => left[want] > 0
    /\ child \in {"running", "stopped", "exited", "killed"} =>
          pc \in {"wait", "exited"}
    /\ pc = "wait" =>
          \A s \in Stream : pipe[s] + left[s] = output[s] /\ pipe[s] <= PipeCap
    /\ child = "exited" => \A s \in Stream : left[s] = 0
    /\ pc \in Reading =>
          \A s \in Stream :
              left[s] = 0 /\ pipe[s] <= output[s] /\ output[s] <= PipeCap

(* The stages in which the current call may have a pipe end open.          *)
Holding(s, e) ==
    IF e = "w"
    THEN {"spawn", "wait"} \cup (IF s = "out" THEN {"pipeErr"} ELSE {})
    ELSE {"spawn", "wait", "openOut", "readOut"} \cup
         (IF s = "out" THEN {"pipeErr"} ELSE {"openErr", "readErr"})

Descriptors ==
    /\ pc # "idle" => call > 0 /\ call \notin nulls
    /\ nulls \subseteq 0..call
    /\ \A fd \in fds :
          fd[1] \in nulls \/ (fd[1] = call /\ pc \in Holding(fd[2], fd[3]))
    /\ pc = "idle" => child = "none"

IInv == TypeOK /\ Counted /\ Descriptors

-----------------------------------------------------------------------------
LEMMA InitIInv == Init => IInv
    BY Assumptions DEF Init, IInv, TypeOK, Counted, Descriptors,
       Stage, Stream, Garbage, Reading

(* Every step keeps the variables in their types. *)
LEMMA TypePreserved ==
    IInv /\ [Next]_vars => TypeOK'
<1> SUFFICES ASSUME IInv, [Next]_vars
             PROVE  TypeOK'
    OBVIOUS
<1> USE Assumptions DEF IInv, TypeOK, Stage, Stream, End, parent, command
<1>1. CASE UNCHANGED vars
    BY <1>1 DEF vars
<1>2. CASE Call
    BY <1>2 DEF Call, Garbage
<1>3. ASSUME NEW s \in Stream, NEW here \in Stage,
             NEW next \in Stage,
             here # "idle", OpenPipe(s, here, next)
      PROVE  TypeOK'
    <2>1. Ends(s) \subseteq (1..MaxCalls) \X Stream \X End
        BY <1>3 DEF OpenPipe, Ends, Descriptors
    <2>2. QED
        BY <1>3, <2>1 DEF OpenPipe, ExitFailure
<1>4. CASE Spawn
    <2>1. CASE ExitFailure /\ UNCHANGED command
        BY <2>1 DEF ExitFailure
    <2>2. CASE ~(ExitFailure /\ UNCHANGED command)
        <3>1. PICK o \in [Stream -> 0..MaxLines] : output' = o /\ left' = o
            BY <1>4, <2>2 DEF Spawn
        <3>2. pipe' \in [Stream -> 0..MaxLines]
            BY <1>4, <2>2 DEF Spawn
        <3>3. QED
            BY <1>4, <2>2, <3>1, <3>2 DEF Spawn
    <2>3. QED
        BY <2>1, <2>2
<1>5. CASE Wait
    BY <1>5 DEF Wait, ExitFailure, Widow
<1>6. ASSUME NEW here \in Stage, NEW next \in Stage, here # "idle",
             Fdopen(here, next)
      PROVE  TypeOK'
    <2>1. call \in 1..MaxCalls
        BY <1>6 DEF Fdopen, Descriptors
    <2>2. nulls' \subseteq 1..MaxCalls
        BY <1>6, <2>1 DEF Fdopen
    <2>3. QED
        BY <1>6, <2>2 DEF Fdopen
<1>7. ASSUME NEW s \in Stream, NEW here \in Reading, ReadLine(s, here)
      PROVE  TypeOK'
    <2>1. /\ left[s] = 0 /\ pipe[s] <= output[s] /\ pipe[s] > 0
          /\ output[s] \in 0..MaxLines /\ pipe[s] \in 0..MaxLines
        BY <1>7 DEF ReadLine, Counted
    <2>2. output[s] - left[s] - pipe[s] + 1 \in 1..MaxLines
        BY <2>1
    <2>3. pipe[s] - 1 \in 0..MaxLines
        BY <2>1
    <2>4. QED
        BY <1>7, <2>2, <2>3 DEF ReadLine
<1>8. ASSUME NEW s \in Stream, NEW here \in Stage, NEW next \in Stage,
             CloseStream(s, here, next)
      PROVE  TypeOK'
    BY <1>8 DEF CloseStream
<1>9. ASSUME NEW s \in Stream, WriteBegin(s)
      PROVE  TypeOK'
    BY <1>9 DEF WriteBegin
<1>10. ASSUME NEW s \in Stream, WriteEnd(s)
       PROVE  TypeOK'
    <2>1. CASE child' = "killed" /\ UNCHANGED <<pipe, left, want>>
        BY <1>10, <2>1 DEF WriteEnd
    <2>2. CASE /\ <<call, s, "r">> \in fds
               /\ pipe' = [pipe EXCEPT ![s] = @ + 1]
               /\ left' = [left EXCEPT ![s] = @ - 1]
               /\ want' = "none" /\ UNCHANGED child
        <3>1. pc = "wait" \/ pc = "exited"
            BY <1>10 DEF WriteEnd, Counted
        <3>2. left[s] > 0
            BY <1>10 DEF WriteEnd, Counted
        <3>3. pc = "wait"
            BY <2>2, <3>1 DEF Descriptors, Holding
        <3>4. pipe[s] + left[s] = output[s]
            BY <3>3 DEF Counted
        <3>5. pipe[s] + 1 \in 0..MaxLines /\ left[s] - 1 \in 0..MaxLines
            BY <3>2, <3>4
        <3>6. QED
            BY <1>10, <2>2, <3>5 DEF WriteEnd
    <2>3. QED
        BY <1>10, <2>1, <2>2 DEF WriteEnd
<1>11. CASE Exit
    BY <1>11 DEF Exit
<1>12. CASE Signal
    BY <1>12 DEF Signal
<1>13. QED
    <2> HIDE DEF TypeOK
    <2>1. CASE spawn_cmd
        BY <2>1, <1>3, <1>4, <1>5 DEF spawn_cmd
    <2>2. CASE ReadStreams
        BY <2>2, <1>6, <1>7, <1>8 DEF ReadStreams, Reading
    <2>3. CASE opam
        BY <2>3, <1>9, <1>10, <1>11 DEF opam
    <2>4. QED
        BY <1>1, <1>2, <1>12, <2>1, <2>2, <2>3 DEF Next, _opam_root

(* Every step keeps count of the command's lines.                          *)
LEMMA CountedPreserved ==
    IInv /\ [Next]_vars => Counted'
<1> SUFFICES ASSUME TypeOK, Counted, Descriptors, [Next]_vars
             PROVE  Counted'
    BY DEF IInv
<1> USE DEF Counted, Reading, parent, command
<1>t. /\ PipeCap \in Nat /\ Stream = {"out", "err"}
      /\ pc \in Stage /\ want \in Stream \cup {"none"}
      /\ child \in {"none", "running", "stopped", "exited", "killed"}
      /\ output \in [Stream -> Nat] /\ left \in [Stream -> Nat]
      /\ pipe \in [Stream -> Nat]
    BY Assumptions DEF TypeOK, Stream
<1>1. CASE UNCHANGED vars
    BY <1>1 DEF vars
<1>2. CASE Call
    BY <1>2 DEF Call, Descriptors
<1>3. ASSUME NEW s \in Stream, NEW here, NEW next, OpenPipe(s, here, next),
             \/ here = "pipeOut" /\ next = "pipeErr"
             \/ here = "pipeErr" /\ next = "spawn"
      PROVE  Counted'
    BY <1>3 DEF OpenPipe, ExitFailure
<1>4. CASE Spawn
    <2>1. CASE ExitFailure /\ UNCHANGED command
        BY <2>1, <1>4 DEF ExitFailure, Spawn
    <2>2. CASE ~(ExitFailure /\ UNCHANGED command)
        <3>1. PICK o \in [Stream -> 0..MaxLines] : output' = o /\ left' = o
            BY <1>4, <2>2 DEF Spawn
        <3>2. \A s \in Stream : o[s] \in Nat /\ pipe'[s] = 0
            BY <1>4, <2>2, <3>1, Assumptions DEF Spawn
        <3>3. QED
            BY <1>t, <1>4, <2>2, <3>1, <3>2 DEF Spawn
    <2>3. QED
        BY <2>1, <2>2
<1>5. CASE Wait
    <2>1. CASE child = "exited" /\ child' = "none" /\ Widow
        BY <1>t, <1>5, <2>1 DEF Wait, Widow
    <2>2. CASE ExitFailure
        BY <1>5, <2>2 DEF Wait, ExitFailure
    <2>3. QED
        BY <1>5, <2>1, <2>2 DEF Wait
<1>6. ASSUME NEW here, NEW next, Fdopen(here, next),
             \/ here = "openOut" /\ next = "readOut"
             \/ here = "openErr" /\ next = "readErr"
      PROVE  Counted'
    BY <1>6 DEF Fdopen
<1>7. ASSUME NEW s \in Stream, NEW here \in Reading, ReadLine(s, here)
      PROVE  Counted'
    BY <1>t, <1>7 DEF ReadLine
<1>8. ASSUME NEW s \in Stream, NEW here, NEW next, CloseStream(s, here, next),
             \/ here = "readOut" /\ next = "openErr"
             \/ here = "readErr" /\ next = "idle"
      PROVE  Counted'
    BY <1>8 DEF CloseStream
<1>9. ASSUME NEW s \in Stream, WriteBegin(s)
      PROVE  Counted'
    BY <1>t, <1>9 DEF WriteBegin
<1>10. ASSUME NEW s \in Stream, WriteEnd(s)
       PROVE  Counted'
    BY <1>t, <1>10 DEF WriteEnd
<1>11. CASE Exit
    BY <1>t, <1>11 DEF Exit
<1>12. CASE Signal
    BY <1>12 DEF Signal
<1>13. QED
    <2> HIDE DEF Counted
    <2>1. CASE spawn_cmd
        BY <2>1, <1>t, <1>3, <1>4, <1>5 DEF spawn_cmd
    <2>2. CASE ReadStreams
        BY <2>2, <1>t, <1>6, <1>7, <1>8 DEF ReadStreams
    <2>3. CASE opam
        BY <2>3, <1>9, <1>10, <1>11 DEF opam
    <2>4. QED
        BY <1>1, <1>2, <1>12, <2>1, <2>2, <2>3 DEF Next, _opam_root

(* Every step accounts for the descriptors of the call.                    *)
LEMMA DescriptorsPreserved ==
    IInv /\ [Next]_vars => Descriptors'
<1> SUFFICES ASSUME TypeOK, Counted, Descriptors, [Next]_vars
             PROVE  Descriptors'
    BY DEF IInv
<1> USE DEF Descriptors, Holding, parent, command
<1>t. /\ Stream = {"out", "err"} /\ End = {"r", "w"}
      /\ call \in Nat /\ MaxCalls \in Nat
      /\ fds \subseteq (1..MaxCalls) \X Stream \X End
      /\ pc \in Stage
    BY Assumptions DEF TypeOK, Stream, End
<1>1. CASE UNCHANGED vars
    BY <1>1 DEF vars
<1>2. CASE Call
    <2>1. /\ pc = "idle" /\ pc' = "pipeOut" /\ call' = call + 1
          /\ fds' = fds /\ nulls' = nulls
        BY <1>2 DEF Call
    <2>2. \A fd \in fds : fd[1] \in nulls
        BY <2>1
    <2>3. nulls \subseteq 0..(call + 1) /\ call + 1 \notin nulls
        BY <1>t
    <2>4. QED
        BY <1>t, <2>1, <2>2, <2>3
<1>3. ASSUME NEW s \in Stream, NEW here, NEW next, OpenPipe(s, here, next),
             \/ s = "out" /\ here = "pipeOut" /\ next = "pipeErr"
             \/ s = "err" /\ here = "pipeErr" /\ next = "spawn"
      PROVE  Descriptors'
    <2>1. CASE ExitFailure
        BY <1>3, <2>1 DEF OpenPipe, ExitFailure
    <2>2. CASE fds' = fds \cup Ends(s) /\ pc' = next /\ UNCHANGED <<call, nulls>>
        <3>1. \A fd \in Ends(s) :
                  fd[1] = call /\ fd[2] = s /\ fd[3] \in {"r", "w"}
            BY <1>t DEF Ends
        <3>2. \A fd \in fds : fd[2] \in Stream /\ fd[3] \in End
            BY <1>t
        <3>3. QED
            BY <1>t, <1>3, <2>2, <3>1, <3>2 DEF OpenPipe
    <2>3. QED
        BY <1>3, <2>1, <2>2 DEF OpenPipe
<1>4. CASE Spawn
    BY <1>4 DEF Spawn, ExitFailure
<1>5. CASE Wait
    <2>1. CASE child = "exited" /\ child' = "none" /\ Widow
        <3>1. \A fd \in fds : /\ fd[2] \in Stream /\ fd[3] \in End
                              /\ fd = <<fd[1], fd[2], fd[3]>>
            BY <1>t
        <3>2. \A fd \in fds' : fd \in fds /\ (fd[1] = call => fd[3] = "r")
            BY <1>t, <2>1, <3>1 DEF Widow
        <3>3. QED
            BY <1>t, <1>5, <2>1, <3>1, <3>2 DEF Wait, Widow
    <2>2. CASE ExitFailure
        BY <1>5, <2>2 DEF Wait, ExitFailure
    <2>3. QED
        BY <1>5, <2>1, <2>2 DEF Wait
<1>6. ASSUME NEW here, NEW next, Fdopen(here, next),
             \/ here = "openOut" /\ next = "readOut"
             \/ here = "openErr" /\ next = "readErr"
      PROVE  Descriptors'
    <2>1. child = "none"
        BY <1>6 DEF Fdopen, Counted, TypeOK
    <2>2. \A fd \in fds : fd[2] \in Stream /\ fd[3] \in End
        BY <1>t
    <2>3. CASE pc' = next /\ UNCHANGED nulls
        BY <1>t, <1>6, <2>1, <2>2, <2>3 DEF Fdopen
    <2>4. CASE pc' = "idle" /\ nulls' = nulls \cup {call}
        BY <1>t, <1>6, <2>1, <2>2, <2>4 DEF Fdopen
    <2>5. QED
        BY <1>6, <2>3, <2>4 DEF Fdopen
<1>7. ASSUME NEW s \in Stream, NEW here, ReadLine(s, here)
      PROVE  Descriptors'
    BY <1>7 DEF ReadLine
<1>8. ASSUME NEW s \in Stream, NEW here, NEW next, CloseStream(s, here, next),
             \/ s = "out" /\ here = "readOut" /\ next = "openErr"
             \/ s = "err" /\ here = "readErr" /\ next = "idle"
      PROVE  Descriptors'
    <2>1. child = "none"
        BY <1>8 DEF CloseStream, Counted, TypeOK
    <2>2. \A fd \in fds : /\ fd[2] \in Stream /\ fd[3] \in End
                          /\ fd = <<fd[1], fd[2], fd[3]>>
        BY <1>t
    <2>3. QED
        BY <1>t, <1>8, <2>1, <2>2 DEF CloseStream
<1>9. ASSUME NEW s \in Stream, WriteBegin(s) \/ WriteEnd(s)
      PROVE  Descriptors'
    BY <1>9 DEF WriteBegin, WriteEnd
<1>10. CASE Exit
    BY <1>10 DEF Exit
<1>11. CASE Signal
    BY <1>11 DEF Signal
<1>12. QED
    <2> HIDE DEF Descriptors
    <2>1. CASE spawn_cmd
        BY <2>1, <1>t, <1>3, <1>4, <1>5 DEF spawn_cmd
    <2>2. CASE ReadStreams
        BY <2>2, <1>t, <1>6, <1>7, <1>8 DEF ReadStreams
    <2>3. CASE opam
        BY <2>3, <1>9, <1>10 DEF opam
    <2>4. QED
        BY <1>1, <1>2, <1>11, <2>1, <2>2, <2>3 DEF Next, _opam_root

LEMMA Invariance == Spec => []IInv
<1>1. IInv /\ [Next]_vars => IInv'
    BY TypePreserved, CountedPreserved, DescriptorsPreserved DEF IInv
<1>2. QED
    BY InitIInv, <1>1, PTL DEF Spec

-----------------------------------------------------------------------------
(* The variables keep their types.                                         *)
THEOREM TypeCorrect == Spec => []TypeOK
    BY Invariance, PTL DEF IInv

(* For any pipe capacity: the process and its command are stuck with each  *)
(* other only over a stream longer than the capacity.                      *)
THEOREM BlockedCorrect == Spec => []BlockedOnlyWhenTooLong
<1>1. IInv => BlockedOnlyWhenTooLong
    <2> SUFFICES ASSUME TypeOK, Counted, Blocked
                 PROVE  output[want] > PipeCap
        BY DEF IInv, BlockedOnlyWhenTooLong
    <2>1. want \in Stream /\ left[want] > 0
        BY DEF Blocked, TypeOK, Counted
    <2>2. pipe[want] + left[want] = output[want] /\ pipe[want] = PipeCap
        BY <2>1 DEF Blocked, Counted
    <2>3. PipeCap \in Nat /\ left[want] \in Nat
        BY <2>1, Assumptions DEF TypeOK
    <2>4. QED
        BY <2>1, <2>2, <2>3
<1>2. QED
    BY Invariance, <1>1, PTL

(* spawn_cmd succeeds only with commands whose streams fit into the pipes. *)
THEOREM FitsCorrect == Spec => []ReturnsOnlyWhatFits
<1>1. IInv => ReturnsOnlyWhatFits
    BY DEF IInv, Counted, Reading, ReturnsOnlyWhatFits
<1>2. QED
    BY Invariance, <1>1, PTL

(* No call that returns a string leaves a descriptor open or a command     *)
(* behind.                                                                 *)
THEOREM LeavesNothingCorrect == Spec => []LeavesNothing
<1>1. IInv => LeavesNothing
    BY DEF IInv, Descriptors, Holding, LeavesNothing
<1>2. QED
    BY Invariance, <1>1, PTL

-----------------------------------------------------------------------------
(* What the buffer holds.                                                  *)

(* The line read last: of stderr if one was read, else of stdout.          *)
LastRead(s, before) ==
    IF pipe[s] < output[s] THEN <<s, output[s] - pipe[s]>> ELSE before

(* Stage by stage: what is still in the pipes, and what is in the buffer.  *)
ReadSoFar ==
    /\ pc \in {"pipeOut", "pipeErr", "spawn", "wait"} => buf = Garbage
    /\ pc = "openOut" => pipe["out"] = output["out"]
    /\ pc \in {"openOut", "readOut", "openErr"} => pipe["err"] = output["err"]
    /\ pc \in {"openErr", "readErr"} => pipe["out"] = 0
    /\ pc \in Reading => buf = LastRead("err", LastRead("out", Garbage))
    /\ ResultOverwritten

LEMMA InitReadSoFar == Init => ReadSoFar
    BY DEF Init, ReadSoFar, Reading, ResultOverwritten

(* Every step keeps the buffer in line with what has left the pipes.       *)
LEMMA ReadSoFarPreserved ==
    IInv /\ ReadSoFar /\ [Next]_vars => ReadSoFar'
<1> SUFFICES ASSUME TypeOK, Counted, Descriptors, ReadSoFar, [Next]_vars
             PROVE  ReadSoFar'
    BY DEF IInv
<1> USE DEF ReadSoFar, Reading, LastRead, ResultOverwritten, parent, command
<1>t. /\ Stream = {"out", "err"} /\ pc \in Stage
      /\ call \in Nat /\ MaxCalls \in Nat
      /\ child \in {"none", "running", "stopped", "exited", "killed"}
      /\ output \in [Stream -> Nat] /\ left \in [Stream -> Nat]
      /\ pipe \in [Stream -> Nat]
    BY Assumptions DEF TypeOK, Stream
<1>1. CASE UNCHANGED vars
    BY <1>1 DEF vars
<1>2. CASE Call
    BY <1>2 DEF Call
<1>3. ASSUME NEW s \in Stream, NEW here, NEW next, OpenPipe(s, here, next),
             \/ here = "pipeOut" /\ next = "pipeErr"
             \/ here = "pipeErr" /\ next = "spawn"
      PROVE  ReadSoFar'
    BY <1>3 DEF OpenPipe, ExitFailure
<1>4. CASE Spawn
    BY <1>4 DEF Spawn, ExitFailure
<1>5. CASE Wait
    <2>1. CASE child = "exited" /\ child' = "none" /\ Widow
        <3>1. \A s \in Stream : pipe[s] = output[s]
            BY <1>t, <1>5, <2>1 DEF Wait, Counted
        <3>2. QED
            BY <1>t, <1>5, <2>1, <3>1 DEF Wait, Widow
    <2>2. CASE ExitFailure
        BY <1>5, <2>2 DEF Wait, ExitFailure
    <2>3. QED
        BY <1>5, <2>1, <2>2 DEF Wait
<1>6. ASSUME NEW here, NEW next, Fdopen(here, next),
             \/ here = "openOut" /\ next = "readOut"
             \/ here = "openErr" /\ next = "readErr"
      PROVE  ReadSoFar'
    BY <1>6 DEF Fdopen
<1>7. ASSUME NEW s \in Stream, NEW here, ReadLine(s, here),
             \/ s = "out" /\ here = "readOut"
             \/ s = "err" /\ here = "readErr"
      PROVE  ReadSoFar'
    <2>1. left[s] = 0 /\ pipe[s] <= output[s] /\ pipe[s] > 0
        BY <1>7 DEF ReadLine, Counted
    <2>2. /\ pipe'[s] = pipe[s] - 1 /\ pipe'[s] < output[s]
          /\ buf' = <<s, output[s] - pipe'[s]>>
          /\ \A r \in Stream \ {s} : pipe'[r] = pipe[r]
          /\ pc' = pc /\ output' = output
        BY <1>t, <1>7, <2>1 DEF ReadLine
    <2>3. CASE s = "out"
        BY <1>t, <1>7, <2>2, <2>3 DEF ReadLine
    <2>4. CASE s = "err"
        BY <1>t, <1>7, <2>2, <2>4 DEF ReadLine
    <2>5. QED
        BY <1>7, <2>3, <2>4
<1>8. ASSUME NEW s \in Stream, NEW here, NEW next, CloseStream(s, here, next),
             \/ s = "out" /\ here = "readOut" /\ next = "openErr"
             \/ s = "err" /\ here = "readErr" /\ next = "idle"
      PROVE  ReadSoFar'
    BY <1>t, <1>8 DEF CloseStream, EndOfFile
<1>9. ASSUME NEW s \in Stream, WriteBegin(s)
      PROVE  ReadSoFar'
    BY <1>9 DEF WriteBegin
<1>10. ASSUME NEW s \in Stream, WriteEnd(s)
       PROVE  ReadSoFar'
    BY <1>10 DEF WriteEnd, Counted
<1>11. CASE Exit
    BY <1>11 DEF Exit
<1>12. CASE Signal
    BY <1>12 DEF Signal
<1>13. QED
    <2> HIDE DEF ReadSoFar
    <2>1. CASE spawn_cmd
        BY <2>1, <1>t, <1>3, <1>4, <1>5 DEF spawn_cmd
    <2>2. CASE ReadStreams
        BY <2>2, <1>t, <1>6, <1>7, <1>8 DEF ReadStreams
    <2>3. CASE opam
        BY <2>3, <1>9, <1>10, <1>11 DEF opam
    <2>4. QED
        BY <1>1, <1>2, <1>12, <2>1, <2>2, <2>3 DEF Next, _opam_root

(* A call hands out the last line of stdout only if stderr stayed silent,  *)
(* whatever the pipes hold and however many lines the command writes.      *)
THEOREM ResultCorrect == Spec => []ResultOverwritten
<1>1. ReadSoFar => ResultOverwritten
    BY DEF ReadSoFar
<1>2. QED
    BY Invariance, InitReadSoFar, ReadSoFarPreserved, <1>1, PTL DEF Spec
=============================================================================
