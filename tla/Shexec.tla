-------------------------------- MODULE Shexec --------------------------------
(* shexec of the E-ACSL runtime (e_acsl_shexec.h): the monitor forks a        *)
(* command, feeds its standard input and collects its two outputs over pipes. *)
(* The trace of a failed assertion runs addr2line this way.  The command is   *)
(* any sequence of reads of one byte, reads up to the end of the input,       *)
(* writes of one byte, and the closing of both outputs.  A byte is the number *)
(* of the step that wrote it.                                                 *)
EXTENDS Integers, Sequences, SequencesExt

CONSTANTS
  PIPE,        \* capacity of a pipe
  bufsize,     \* bytes fd_read asks for, 256 in the code
  MaxInput,    \* longest string given to the command
  MaxProgram,  \* longest program of the command
  MaxStray     \* bound on what the monitor's copy prints when exec fails

VARIABLES
  call,        \* the processes, the pipes and the buffers
  result       \* << >>, or what shexec has returned

Steps == {"read", "drain", "out", "err", "close"}
Silent(prog, k) == \E j \in 1..(k - 1) : prog[j] = "close"
Programs == {prog \in UNION {[1..n -> Steps] : n \in 0..MaxProgram} :
               \A k \in DOMAIN prog :
                 prog[k] \in {"out", "err", "close"} => ~Silent(prog, k)}

NoRead == [buffer |-> <<>>, size |-> bufsize, alloc |-> bufsize, rd |-> 0, fits |-> TRUE,
           null |-> FALSE]

(* parent: where __shexec is in the calling process.  child: "starting"       *)
(* between fork and exec, "running", "gone" with its ends of the pipes        *)
(* closed, "returned" when exec failed and it goes on in the code after fork. *)
(* closed: the calling process has closed its ends of the pipes.              *)
Init ==
  /\ result = <<>>
  /\ \E prog \in Programs, n \in 0..MaxInput :
       call = [f |-> "shexec", parent |-> "pipe", child |-> "none",
               prog |-> prog, step |-> 1, stray |-> 0, stdins |-> n, given |-> n, infd |-> 0, closed |-> FALSE,
               outfd |-> <<>>, errfd |-> <<>>, stdouts |-> NoRead, stderrs |-> NoRead]

Running == call.f = "shexec" /\ result = <<>>
ChildHolds == call.child \in {"starting", "running", "returned"}
ChildWrites == ChildHolds /\ ~Silent(call.prog, call.step)
Finished(parent, value) == call' = [call EXCEPT !.parent = parent] /\ result' = <<value>>

-------------------------------------------------------------------------------
(* The calling process. *)

(* error is not initialised, so it may be set even when every pipe was made. *)
CreatePipes ==
  /\ Running /\ call.parent = "pipe"
  /\ \/ call' = [call EXCEPT !.parent = "error"] /\ result' = <<"data">>
     \/ call' = [call EXCEPT !.parent = "fork"] /\ UNCHANGED result

(* A fork that fails gives pid = -1, which is taken for a child. *)
Fork ==
  /\ Running /\ call.parent = "fork"
  /\ \E child \in {"starting", "gone"} :
       call' = [call EXCEPT !.parent = "write", !.child = child]
  /\ UNCHANGED result

(* One byte of write.  When no one can read the pipe SIGPIPE ends the         *)
(* monitor, unless the program ignores it: then write fails, or, if it has    *)
(* written some bytes before, returns their number and shexec goes on.        *)
WriteInput ==
  /\ Running /\ call.parent = "write"
  /\ \/ /\ call.stdins = 0
        /\ call' = [call EXCEPT !.parent = "readout"] /\ UNCHANGED result
     \/ /\ call.stdins > 0 /\ ChildHolds /\ call.infd < PIPE
        /\ call' = [call EXCEPT !.stdins = @ - 1, !.infd = @ + 1] /\ UNCHANGED result
     \/ /\ call.stdins > 0 /\ ~ChildHolds
        /\ \/ Finished("killed", "none")
           \/ call.stdins = call.given /\ Finished("failed", "NULL")
           \/ /\ call.stdins < call.given
              /\ call' = [call EXCEPT !.parent = "readout"] /\ UNCHANGED result

(* Wrong: the next bytes are read over the last of those before. *)
ReadOverLast(r, bytes) ==
  LET at == r.size - bufsize
      size == r.size + Len(bytes)
      from == IF at > 0 THEN at - 1 ELSE at
  IN  [r EXCEPT !.buffer = SubSeq(@, 1, from) \o bytes, !.size = size, !.alloc = size + 1,
                !.rd = @ + Len(bytes), !.fits = @ /\ at + bufsize <= r.alloc]

(* An iteration of fd_read: bytes are put at size - bufsize, and the buffer   *)
(* grows by as many.                                                          *)
fd_read(r, bytes) ==
  LET at == r.size - bufsize
      size == r.size + Len(bytes)
  IN  [r EXCEPT !.buffer = SubSeq(@, 1, at) \o bytes, !.size = size, !.alloc = size + 1,
                !.rd = @ + Len(bytes), !.fits = @ /\ at + bufsize <= r.alloc]

(* read returns up to bufsize bytes, 0 when no one can write any more, or -1  *)
(* when a signal interrupts it while it waits: then fd_read returns NULL, and *)
(* the rest of this output is not read.                                       *)
ReadOutput ==
  /\ Running /\ call.parent = "readout" /\ UNCHANGED result
  /\ \/ \E n \in 1..bufsize :
          /\ n <= Len(call.outfd)
          /\ call' = [call EXCEPT !.stdouts = fd_read(@, SubSeq(call.outfd, 1, n)),
                                  !.outfd = SubSeq(@, n + 1, Len(@))]
     \/ /\ call.outfd = <<>>
        /\ call' = [call EXCEPT !.parent = "readerr", !.stdouts.null = ChildWrites]

ReadErrors ==
  /\ Running /\ call.parent = "readerr" /\ UNCHANGED result
  /\ \/ \E n \in 1..bufsize :
          /\ n <= Len(call.errfd)
          /\ call' = [call EXCEPT !.stderrs = fd_read(@, SubSeq(call.errfd, 1, n)),
                                  !.errfd = SubSeq(@, n + 1, Len(@))]
     \/ /\ call.errfd = <<>>
        /\ call' = [call EXCEPT !.parent = "close", !.stderrs.null = ChildWrites]

(* waitpid returns when the child is gone, or when a signal interrupts it. *)
CloseAndWait ==
  /\ Running /\ call.parent = "close"
  /\ \/ ~call.closed /\ call' = [call EXCEPT !.closed = TRUE] /\ UNCHANGED result
     \/ call.closed /\ Finished("done", "data")

-------------------------------------------------------------------------------
(* The command. *)

execvp ==
  /\ Running /\ call.child = "starting" /\ UNCHANGED result
  /\ \E child \in {"running", "returned"} : call' = [call EXCEPT !.child = child]

Step == call.prog[call.step]
Advanced == [call EXCEPT !.step = @ + 1]

Command ==
  /\ Running /\ call.child = "running" /\ UNCHANGED result
  /\ \/ /\ call.step > Len(call.prog)
        /\ call' = [call EXCEPT !.child = "gone"]
     \/ /\ call.step <= Len(call.prog)
        /\ \/ Step = "close" /\ call' = Advanced
           \/ /\ Step = "read" /\ (call.infd > 0 \/ call.closed)
              /\ call' = [Advanced EXCEPT !.infd = IF @ > 0 THEN @ - 1 ELSE 0]
           \/ /\ Step = "drain" /\ call.infd > 0
              /\ call' = [call EXCEPT !.infd = @ - 1]
           \/ /\ Step = "drain" /\ call.infd = 0 /\ call.closed
              /\ call' = Advanced
           \/ /\ Step \in {"out", "err"} /\ call.closed
              /\ call' = [call EXCEPT !.child = "gone"]
           \/ /\ Step = "out" /\ ~call.closed /\ Len(call.outfd) < PIPE
              /\ call' = [Advanced EXCEPT !.outfd = Append(@, call.step)]
           \/ /\ Step = "err" /\ ~call.closed /\ Len(call.errfd) < PIPE
              /\ call' = [Advanced EXCEPT !.errfd = Append(@, call.step)]

(* The process in which exec failed is a copy of the monitor that goes on     *)
(* after shexec, with the pipes for its standard streams: it prints the rest  *)
(* of the trace there, as zeros, until it ends.                               *)
Stray ==
  /\ Running /\ call.child = "returned" /\ UNCHANGED result
  /\ \/ call' = [call EXCEPT !.child = "gone"]
     \/ /\ call.stray < MaxStray /\ ~call.closed /\ Len(call.outfd) < PIPE
        /\ call' = [call EXCEPT !.stray = @ + 1, !.outfd = Append(@, 0)]

Next == CreatePipes \/ Fork \/ WriteInput \/ ReadOutput \/ ReadErrors
        \/ CloseAndWait \/ execvp \/ Command \/ Stray

Spec == Init /\ [][Next]_<<call, result>>

-------------------------------------------------------------------------------
Printed(op) == SelectSeq([k \in 1..(call.step - 1) |-> k], LAMBDA k : call.prog[k] = op)
Count(op) == Len(SelectSeq(call.prog, LAMBDA x : x = op))

(* fd_read never asks read for more bytes than its buffer has room for, and   *)
(* the terminator fits, however the output is cut into pieces.                *)
BufferHoldsReads ==
  call.f = "shexec" =>
    \A r \in {call.stdouts, call.stderrs} : r.fits /\ r.rd < r.alloc

(* What shexec returns, but for NULL, is all that was written to each output, *)
(* in order: by the command or, when it could not be executed, by the copy of *)
(* the monitor.  An output is NULL only if a signal came before its end.      *)
OutputsComplete ==
  call.f = "shexec" /\ call.parent = "done" =>
    LET out == call.stdouts  err == call.stderrs
    IN  /\ ~out.null => out.buffer = Printed("out") \o [i \in 1..call.stray |-> 0]
        /\ ~err.null => err.buffer = Printed("err")
        /\ out.rd = Len(out.buffer) /\ err.rd = Len(err.buffer)

(* Neither process can take a step until a signal comes. *)
ParentWaits ==
  \/ call.parent = "write" /\ call.stdins > 0 /\ ChildHolds /\ call.infd = PIPE
  \/ call.parent = "readout" /\ call.outfd = <<>> /\ ChildWrites
  \/ call.parent = "readerr" /\ call.errfd = <<>> /\ ChildWrites
ChildWaits ==
  /\ call.child = "running" /\ call.step <= Len(call.prog)
  /\ \/ Step \in {"read", "drain"} /\ call.infd = 0 /\ ~call.closed
     \/ Step = "out" /\ Len(call.outfd) = PIPE
     \/ Step = "err" /\ Len(call.errfd) = PIPE

(* The monitor and the command wait for each other for ever only if the       *)
(* command wants more input than it was given, or its errors, or the input    *)
(* given to it, do not fit a pipe: shexec closes the input only after it has  *)
(* read both outputs, one after the other.  After a signal has ended the      *)
(* reading of its output, this too must fit.                                  *)
HangsOnlyForPipes ==
  call.f = "shexec" /\ result = <<>> /\ ParentWaits /\ ChildWaits =>
    \/ Count("drain") > 0 \/ Count("read") > call.given
    \/ Count("err") > PIPE \/ call.given > PIPE
    \/ call.stdouts.null /\ Count("out") > PIPE
===============================================================================
