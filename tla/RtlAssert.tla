------------------------------- MODULE RtlAssert ------------------------------
(* How an instrumented program reports a failure and stops: assertions and    *)
(* aborts (e_acsl_assert.h), the backtrace that a debug build prints first    *)
(* (e_acsl_trace.h) and floating-point exceptions (e_acsl_floating_point.h).  *)
(* state.f tells which of the three a behaviour is about.                     *)
EXTENDS Integers, Sequences

CONSTANTS
  MaxReports,   \* bound on the messages of a run
  TRACE_SIZE,   \* length of the array of return addresses
  MaxFrames     \* bound on the depth of the stack

VARIABLES
  state,        \* the program's run
  last          \* << >> or the last call with its arguments

Running(st) == st.run = "running"

-------------------------------------------------------------------------------
(* The program may block or ignore SIGABRT, or have a handler that returns.   *)
Deliver(st) ==
  [st EXCEPT !.pending = FALSE,
             !.run = IF st.sigabrt = "default" THEN "aborted" ELSE @]

raise(st) == IF st.blocked THEN [st EXCEPT !.pending = TRUE] ELSE Deliver(st)

unblock(st) ==
  LET open == [st EXCEPT !.blocked = FALSE]
  IN  IF st.pending THEN Deliver(open) ELSE open

(* A message goes out one character at a time; a SIGABRT from elsewhere may   *)
(* come in between and cut it.                                                *)
STDERR(st, message, meanwhile) ==
  LET st2 == IF meanwhile THEN raise(st) ELSE st
  IN  [st2 EXCEPT !.log = Append(@, IF Running(st2) THEN message ELSE "cut")]

exec_abort(st) ==
  IF ~Running(st) THEN st
  ELSE raise(IF st.debug THEN [st EXCEPT !.log = Append(@, "backtrace")] ELSE st)

(* Wrong: SIGABRT is unblocked before the message is printed. *)
UnblockFirst(st, meanwhile) ==
  exec_abort(STDERR(unblock([st EXCEPT !.blocked = TRUE]), "abort", meanwhile))

vabort(st, meanwhile) ==
  exec_abort(unblock(STDERR([st EXCEPT !.blocked = TRUE], "abort", meanwhile)))

vassert_fail(st, expr, meanwhile) ==
  IF expr THEN st ELSE exec_abort(STDERR(st, "vassert", meanwhile))

(* st.fail is how the build stops: with a signal, with an exit code, or not   *)
(* at all (E_ACSL_NO_ASSERT_FAIL).                                            *)
runtime_assert(st, predicate, meanwhile) ==
  IF ~st.sound
  THEN STDERR(st, IF predicate THEN "guess: ok" ELSE "guess: FAIL", meanwhile)
  ELSE IF predicate THEN st
  ELSE LET reported == STDERR(st, "failed", meanwhile)
       IN  CASE ~Running(reported) \/ st.fail = "pass through" -> reported
             [] st.fail = "exit" -> [reported EXCEPT !.run = "exited"]
             [] OTHER -> exec_abort(reported)

AssertInit ==
  /\ \E fail \in {"abort", "exit", "pass through"}, debug, blocked \in BOOLEAN,
        sigabrt \in {"default", "ignored", "returns"} :
       state = [f |-> "assert", fail |-> fail, debug |-> debug, sigabrt |-> sigabrt,
                blocked |-> blocked, pending |-> FALSE, sound |-> TRUE,
                run |-> "running", log |-> <<>>]
  /\ last = <<>>

Calls(name, ok, st) == state' = st /\ last' = <<name, ok>>

Assert ==
  /\ state.f = "assert" /\ Running(state) /\ Len(state.log) < MaxReports
  /\ \E ok, meanwhile \in BOOLEAN :
       \/ Calls("assert", ok, runtime_assert(state, ok, meanwhile))
       \/ Calls("vassert", ok, vassert_fail(state, ok, meanwhile))
       \/ Calls("vabort", FALSE, vabort(state, meanwhile))

(* The instrumentation sets runtime_sound_verdict to 0. *)
LoseVerdict ==
  /\ state.f = "assert" /\ Running(state) /\ state.sound
  /\ Calls("verdict", TRUE, [state EXCEPT !.sound = FALSE])

-------------------------------------------------------------------------------
(* bb is the array, at 1..TRACE_SIZE, and the words that follow it.  Memory   *)
(* from private_malloc holds zeros or what was there.  The first k frames are *)
(* on the stack; the address of the one after them is out of range.           *)
Words == 1..(TRACE_SIZE + 1)

native_backtrace(bb, k, size) ==
  [i \in DOMAIN bb |-> IF i <= k /\ i <= size THEN "frame" ELSE bb[i]]

(* What addr2line says of an address: shexec returns NULL, or no output but   *)
(* perhaps errors, or a place, or an empty one or one that ends in "??:0" or  *)
(* "??:?".  (The last character of the output is cut off even if it is empty.) *)
Answers == {"NULL", "errors", "place", "unknown"}

(* The addresses before the first zero, wherever that is, are looked up, and  *)
(* the places and errors are printed.                                         *)
trace(bb, answer) ==
  LET looked == {i \in DOMAIN bb : \A j \in 1..i : bb[j] # "zero"}
  IN  [looked |-> looked, printed |-> {i \in looked : answer[i] \in {"place", "errors"}}]

TraceInit ==
  /\ \E words \in [Words -> {"zero", "junk"}], answer \in [Words -> Answers],
        k \in 0..MaxFrames :
       state = [f |-> "trace", words |-> words, answer |-> answer, frames |-> k,
                run |-> "running"]
  /\ last = <<>>

Trace ==
  /\ state.f = "trace" /\ Running(state)
  /\ LET bb == native_backtrace(state.words, state.frames, TRACE_SIZE)
     IN  last' = <<bb, trace(bb, state.answer)>>
  /\ state' = [state EXCEPT !.run = "aborted"]

-------------------------------------------------------------------------------
(* The flags an operation may raise (IEEE 754): an overflow or an underflow   *)
(* is also inexact.                                                           *)
Operations ==
  {{}, {"FE_DIVBYZERO"}, {"FE_INEXACT"}, {"FE_INVALID"},
   {"FE_OVERFLOW", "FE_INEXACT"}, {"FE_UNDERFLOW", "FE_INEXACT"}}

(* The order in which the flags are tested. *)
Tested == <<"FE_DIVBYZERO", "FE_INEXACT", "FE_INVALID", "FE_OVERFLOW", "FE_UNDERFLOW">>

Reported(flags) ==
  IF flags = {} THEN "none"
  ELSE LET first == CHOOSE i \in 1..Len(Tested) :
                      /\ Tested[i] \in flags
                      /\ \A j \in 1..(i - 1) : Tested[j] \notin flags
       IN  Tested[first]

floating_point_exception(st) ==
  [st EXCEPT !.report = Reported(st.flags), !.flags = {}, !.since = {}]

(* Flags may be set before main; init_infinity_values clears them. *)
init_infinity_values(flags) == flags \ {Tested[i] : i \in 1..Len(Tested)}

FloatInit ==
  /\ \E before \in Operations :
       state = [f |-> "float", flags |-> init_infinity_values(before), since |-> {},
                report |-> "none"]
  /\ last = <<>>

Float ==
  /\ state.f = "float"
  /\ \/ \E raised \in Operations :
          /\ state' = [state EXCEPT !.flags = @ \cup raised, !.since = @ \cup raised]
          /\ last' = <<"operation", raised>>
     \/ state' = floating_point_exception(state) /\ last' = <<"report", state.since>>

-------------------------------------------------------------------------------
Init == AssertInit \/ TraceInit \/ FloatInit

Next == Assert \/ LoseVerdict \/ Trace \/ Float

Spec == Init /\ [][Next]_<<state, last>>

-------------------------------------------------------------------------------
(* After a failed annotation with a sound verdict, and after a failed check   *)
(* of the runtime, the program is stopped, unless the build passes through    *)
(* failures or the program itself blocks, ignores or handles SIGABRT: raise,  *)
(* unlike abort, then returns.  vabort stops it even when it is blocked.      *)
FailuresStop ==
  state.f = "assert" /\ last # <<>> /\ Running(state) =>
    /\ last[1] = "assert" /\ ~last[2] /\ state.sound =>
         \/ state.fail = "pass through"
         \/ state.fail = "abort" /\ (state.sigabrt # "default" \/ state.blocked)
    /\ last[1] = "vassert" /\ ~last[2] => state.sigabrt # "default" \/ state.blocked
    /\ last[1] = "vabort" => state.sigabrt # "default"

(* Each failure leaves a message that tells the truth, and the one of vabort  *)
(* is whole even if SIGABRT arrives while it is printed.  A program whose     *)
(* verdict is not sound is never stopped by an annotation.                    *)
ReportsTrue ==
  state.f = "assert" /\ last # <<>> =>
    LET n == Len(state.log)
        told == IF n > 1 /\ state.log[n] = "backtrace" THEN state.log[n - 1]
                ELSE IF n > 0 THEN state.log[n] ELSE "nothing"
    IN  /\ last[1] = "vabort" => told = "abort"
        /\ last[1] = "assert" /\ ~state.sound =>
             \/ told = "cut" /\ ~Running(state)
             \/ told = (IF last[2] THEN "guess: ok" ELSE "guess: FAIL") /\ state.run # "exited"
        /\ last[1] = "assert" /\ ~last[2] /\ state.sound => told \in {"failed", "cut"}

(* The array keeps the innermost frames, in its bounds; all of them are       *)
(* looked up, and the line of one that addr2line can place is printed.  The   *)
(* loop leaves the array only if no word after the frames in it is zero: a    *)
(* stack of TRACE_SIZE frames or memory that was used before, since nothing   *)
(* ends the list.                                                             *)
TraceInBounds ==
  state.f = "trace" /\ last # <<>> =>
    LET bb == last[1]
        looked == last[2].looked
        frames == {i \in Words : bb[i] = "frame"}
    IN  /\ frames = {i \in 1..TRACE_SIZE : i <= state.frames}
        /\ frames \subseteq looked
        /\ {i \in frames : state.answer[i] = "place"} \subseteq last[2].printed
        /\ looked \subseteq 1..TRACE_SIZE \/
             \A i \in 1..TRACE_SIZE : i \in frames \/ state.words[i] = "junk"

(* floating_point_exception reports an exception that some operation since    *)
(* the last report raised, and none when none did: no statement is blamed for *)
(* an exception of an earlier one.  Overflows and underflows are reported as  *)
(* inexact results, which they are too.                                       *)
FloatsBlamed ==
  state.f = "float" /\ last # <<>> /\ last[1] = "report" =>
    IF last[2] = {} THEN state.report = "none"
    ELSE state.report \in last[2] \ {"FE_OVERFLOW", "FE_UNDERFLOW"}
===============================================================================
