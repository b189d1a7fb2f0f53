------------------------------ MODULE SpawnCmd ------------------------------
(***************************************************************************)
(* spawn_cmd of lib/spawn_cmd.c and the function that calls it, _opam_root *)
(* of extensions/config/ext_emit_build_bazel.c: a process that runs a      *)
(* command with its stdout and stderr redirected to two pipes, waits for   *)
(* the command to end, and only then reads the pipes.                      *)
(*                                                                         *)
(* The command is a process of its own.  A line stands for what one fgets  *)
(* reads; a pipe holds PipeCap of them (the kernel's buffer).              *)
(***************************************************************************)
EXTENDS Naturals, FiniteSets

CONSTANTS
    PipeCap,    (* lines a pipe holds before a write blocks                *)
    MaxLines,   (* bound: lines the command writes to each stream          *)
    FdRoom,     (* descriptors the process may still open                  *)
    MaxCalls    (* bound: calls of _opam_root                              *)

ASSUME Assumptions ==
    /\ PipeCap \in Nat \ {0}
    /\ MaxLines \in Nat
    /\ FdRoom \in Nat
    /\ MaxCalls \in Nat

VARIABLES
    pc,       (* where the process is in _opam_root                        *)
    call,     (* the number of the current call                            *)
    fds,      (* the pipe ends the process has open, each with its call    *)
    nulls,    (* the calls that returned NULL                              *)
    buf,      (* the line read last, Garbage before the first              *)
    child,    (* the state of the command                                  *)
    output,   (* output[s]: the lines the command writes to stream s       *)
    left,     (* left[s]: those of them it has not written yet             *)
    want,     (* the stream the command is in a write to, or "none"        *)
    pipe      (* pipe[s]: the lines in the pipe of stream s                *)

parent   == <<pc, call, fds, nulls, buf>>
command  == <<child, output, left, want, pipe>>
vars     == <<parent, command>>

Stream  == {"out", "err"}
End     == {"r", "w"}
Garbage == <<"garbage", 0>>
Stage   == {"idle", "pipeOut", "pipeErr", "spawn", "wait", "openOut", "readOut",
            "openErr", "readErr", "exited"}

TypeOK ==
    /\ pc \in Stage
    /\ call \in 0..MaxCalls
    /\ fds \subseteq (1..MaxCalls) \X Stream \X End
    /\ nulls \subseteq 1..MaxCalls
    /\ buf \in {Garbage} \cup (Stream \X (1..MaxLines))
    /\ child \in {"none", "running", "stopped", "exited", "killed"}
    /\ output \in [Stream -> 0..MaxLines]
    /\ left \in [Stream -> 0..MaxLines]
    /\ want \in Stream \cup {"none"}
    /\ pipe \in [Stream -> 0..MaxLines]

Init ==
    /\ pc = "idle" /\ call = 0 /\ fds = {} /\ nulls = {} /\ buf = Garbage
    /\ child = "none" /\ want = "none"
    /\ output = [s \in Stream |-> 0]
    /\ left = [s \in Stream |-> 0]
    /\ pipe = [s \in Stream |-> 0]

-----------------------------------------------------------------------------
(* The process.                                                            *)

Ends(s) == {<<call, s, e>> : e \in End}

(* exit(EXIT_FAILURE), which is also how _opam_root takes any failure of   *)
(* spawn_cmd: the kernel closes what is open.                              *)
ExitFailure ==
    /\ pc' = "exited"
    /\ fds' = {}
    /\ UNCHANGED <<call, nulls, buf>>

Call ==
    /\ pc = "idle"
    /\ call < MaxCalls
    /\ pc' = "pipeOut"
    /\ call' = call + 1
    /\ buf' = Garbage
    /\ UNCHANGED <<fds, nulls, command>>

(* pipe(2) takes two descriptors.                                          *)
OpenPipe(s, here, next) ==
    /\ pc = here
    /\ \/ /\ Cardinality(fds) + 2 <= FdRoom
          /\ fds' = fds \cup Ends(s)
          /\ pc' = next
          /\ UNCHANGED <<call, nulls, buf>>
       \/ /\ Cardinality(fds) + 2 > FdRoom
          /\ ExitFailure
    /\ UNCHANGED command

(* What an earlier call left in the pipes is still there.                  *)
Spawn_samePipes ==
    /\ pc = "spawn"
    /\ \E o \in [Stream -> 0..MaxLines] : output' = o /\ left' = o
    /\ child' = "running"
    /\ want' = "none"
    /\ pc' = "wait"
    /\ UNCHANGED <<call, fds, nulls, buf, pipe>>

(* posix_spawnp fails (no such command) or starts the command, which has   *)
(* the write ends of both pipes.                                           *)
Spawn ==
    /\ pc = "spawn"
    /\ \/ /\ ExitFailure
          /\ UNCHANGED command
       \/ /\ \E o \in [Stream -> 0..MaxLines] : output' = o /\ left' = o
          /\ child' = "running"
          /\ want' = "none"
          /\ pipe' = [s \in Stream |-> 0]
          /\ pc' = "wait"
          /\ UNCHANGED <<call, fds, nulls, buf>>

(* The write end of stderr's pipe stays open.                              *)
Widow_outOnly ==
    /\ fds' = fds \ {<<call, "out", "w">>}
    /\ pc' = "openOut"
    /\ UNCHANGED <<call, nulls, buf>>

(* The process gives its write ends up, so that reading meets an end.      *)
Widow ==
    /\ fds' = fds \ {<<call, s, "w">> : s \in Stream}
    /\ pc' = "openOut"
    /\ UNCHANGED <<call, nulls, buf>>

(* The command's output is not waited for to end.                          *)
Wait_running ==
    /\ pc = "wait"
    /\ child \in {"running", "exited"}
    /\ Widow
    /\ UNCHANGED command

(* waitpid with WUNTRACED returns when the command has ended or stopped.   *)
(* It also fails if somebody else (an ignored SIGCHLD) reaps the command.  *)
Wait ==
    /\ pc = "wait"
    /\ \/ /\ child = "exited"
          /\ child' = "none"
          /\ Widow
       \/ /\ child \in {"exited", "killed"}
          /\ child' = "none"
          /\ ExitFailure
       \/ /\ child = "stopped"
          /\ ExitFailure
          /\ UNCHANGED child
    /\ UNCHANGED <<output, left, want, pipe>>

(* fdopen has no memory: the function returns NULL, and what is open stays *)
(* open.                                                                   *)
Fdopen(here, next) ==
    /\ pc = here
    /\ \/ /\ pc' = next
          /\ UNCHANGED nulls
       \/ /\ pc' = "idle"
          /\ nulls' = nulls \cup {call}
    /\ UNCHANGED <<call, fds, buf, command>>

(* No process holds the write end and nothing is left to read.             *)
EndOfFile(s) ==
    /\ pipe[s] = 0
    /\ <<call, s, "w">> \notin fds
    /\ child \notin {"running", "stopped"}

(* One fgets: into the one buffer, whichever the stream.                   *)
ReadLine(s, here) ==
    /\ pc = here
    /\ pipe[s] > 0
    /\ pipe' = [pipe EXCEPT ![s] = @ - 1]
    /\ buf' = <<s, output[s] - left[s] - pipe[s] + 1>>
    /\ UNCHANGED <<pc, call, fds, nulls, child, output, left, want>>

(* The stream is read to its end and not closed.                           *)
CloseStream_open(s, here, next) ==
    /\ pc = here
    /\ EndOfFile(s)
    /\ pc' = next
    /\ UNCHANGED <<fds, call, nulls, buf, command>>

(* fclose at the end of file.  The close calls that follow the second one  *)
(* find both descriptors closed already.                                   *)
CloseStream(s, here, next) ==
    /\ pc = here
    /\ EndOfFile(s)
    /\ fds' = fds \ {<<call, s, "r">>}
    /\ pc' = next
    /\ UNCHANGED <<call, nulls, buf, command>>

spawn_cmd ==
    \/ OpenPipe("out", "pipeOut", "pipeErr")
    \/ OpenPipe("err", "pipeErr", "spawn")
    \/ Spawn
    \/ Wait

(* stderr is read first.                                                   *)
ReadStreams_swapped ==
    \/ Fdopen("openOut", "readOut")
    \/ ReadLine("err", "readOut")
    \/ CloseStream("err", "readOut", "openErr")
    \/ Fdopen("openErr", "readErr")
    \/ ReadLine("out", "readErr")
    \/ CloseStream("out", "readErr", "idle")

(* stdout is read to its end, then stderr.                                 *)
ReadStreams ==
    \/ Fdopen("openOut", "readOut")
    \/ ReadLine("out", "readOut")
    \/ CloseStream("out", "readOut", "openErr")
    \/ Fdopen("openErr", "readErr")
    \/ ReadLine("err", "readErr")
    \/ CloseStream("err", "readErr", "idle")

_opam_root == spawn_cmd \/ ReadStreams

-----------------------------------------------------------------------------
(* The command.                                                            *)

WriteBegin(s) ==
    /\ child = "running" /\ want = "none"
    /\ left[s] > 0
    /\ want' = s
    /\ UNCHANGED <<parent, child, output, left, pipe>>

(* A write needs room in the pipe; without a reader it is fatal.           *)
WriteEnd(s) ==
    /\ child = "running" /\ want = s
    /\ \/ /\ <<call, s, "r">> \in fds
          /\ pipe[s] < PipeCap
          /\ pipe' = [pipe EXCEPT ![s] = @ + 1]
          /\ left' = [left EXCEPT ![s] = @ - 1]
          /\ want' = "none"
          /\ UNCHANGED child
       \/ /\ <<call, s, "r">> \notin fds
          /\ child' = "killed"
          /\ UNCHANGED <<pipe, left, want>>
    /\ UNCHANGED <<parent, output>>

Exit ==
    /\ child = "running"
    /\ \A s \in Stream : left[s] = 0
    /\ child' = "exited"
    /\ UNCHANGED <<parent, output, left, want, pipe>>

(* Signals from outside: kill, stop, continue.                             *)
Signal ==
    /\ \/ child \in {"running", "stopped"} /\ child' = "killed"
       \/ child = "running" /\ child' = "stopped"
       \/ child = "stopped" /\ child' = "running"
    /\ UNCHANGED <<parent, output, left, want, pipe>>

opam == Exit \/ \E s \in Stream : WriteBegin(s) \/ WriteEnd(s)

Next == Call \/ _opam_root \/ opam \/ Signal

(* Neither process is held up for ever by the scheduler, and the command's *)
(* own program comes to its end, however often it is stopped and continued *)
(* (hence strong fairness).  Signals need not come.                        *)
Spec == Init /\ [][Next]_vars /\ WF_vars(_opam_root) /\ SF_vars(opam)

-----------------------------------------------------------------------------
(* Properties.                                                             *)

(* The command waits for room in a pipe that is read only after it ended.  *)
Blocked ==
    /\ pc = "wait" /\ child = "running"
    /\ want # "none" /\ pipe[want] = PipeCap

(* The two processes wait for each other only over a stream to which the   *)
(* command writes more than the pipe holds.                                *)
BlockedOnlyWhenTooLong == Blocked => output[want] > PipeCap

(* The price of waiting before reading: spawn_cmd returns to its caller    *)
(* only after a command each of whose streams fitted into its pipe.        *)
ReturnsOnlyWhatFits ==
    pc \in {"openOut", "readOut", "openErr", "readErr"} =>
        \A s \in Stream : output[s] <= PipeCap

(* Between calls nothing of a call is left: its command is reaped and its  *)
(* pipes are closed, but for the ones whose call returned NULL.            *)
LeavesNothing ==
    pc = "idle" => child = "none" /\ \A fd \in fds : fd[1] \in nulls

(* What a call hands out: the last line of stdout, but only if the command *)
(* wrote nothing to stderr, whose lines are read into the same buffer.     *)
ResultOverwritten ==
    pc = "idle" /\ call > 0 /\ call \notin nulls =>
        buf = IF output["err"] > 0 THEN <<"err", output["err"]>>
              ELSE IF output["out"] > 0 THEN <<"out", output["out"]>>
              ELSE Garbage

(* A call whose command's output fits into the pipes comes back or ends    *)
(* the process: the wait ends, and each reader meets the end of its pipe.  *)
FittingReturns ==
    pc = "wait" /\ (\A s \in Stream : output[s] <= PipeCap)
        ~> pc \in {"idle", "exited"}
=============================================================================
