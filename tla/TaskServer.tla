----------------------------- MODULE TaskServer -----------------------------
(***************************************************************************)
(* The task server of src/src/libraries/utils/task.ml (threads, spawn,     *)
(* launch, run_server), as WP uses it from the GUI.                        *)
(*                                                                         *)
(* There is one OCaml thread.  launch registers run_server as a timeout of *)
(* the GUI's main loop; the main loop calls it until it returns false.     *)
(* The GUI handles events, timeouts included, whenever OCaml code calls    *)
(* Db.progress: run_server does, and so may the task that it makes         *)
(* progress.  So calls of run_server nest: `frames' is the stack of those  *)
(* in progress.  (Without the GUI, launch polls run_server in a loop and   *)
(* Db.progress does nothing: these are the behaviours that never nest.)    *)
(*                                                                         *)
(* A task is an automaton that still waits or is done; what it computes is *)
(* left out.                                                               *)
(***************************************************************************)
EXTENDS Integers, FiniteSets, Sequences, Functions

CONSTANTS
  Threads,     \* bound: the threads, numbered as they are spawned
  Stages,      \* number of queues
  MaxProcs,    \* bound: procs
  Source,      \* the timeouts of the main loop (bounds the calls of launch)
  MaxDepth,    \* bound: nested calls of run_server
  MayRaise     \* whether a task may raise an exception out of progress

ASSUME TaskServerAssumption ==
  /\ {Threads, Stages, MaxProcs, MaxDepth} \subseteq Nat \ {0}
  /\ MayRaise \in BOOLEAN

VARIABLES
  task,        \* for each thread "new" (not spawned), "waiting" or "done"
  lock,        \* the threads whose lock is set
  queue,       \* for each stage, a queue of threads
  running,     \* server.running
  scheduled,   \* server.scheduled
  terminated,  \* server.terminated
  procs,       \* server.procs
  waiting,     \* server.waiting
  sources,     \* the timeouts that call run_server
  frames,      \* the calls of run_server in progress, innermost last
  miscounted   \* history: one of the three events that break the counters

vars == <<task, lock, queue, running, scheduled, terminated, procs, waiting,
          sources, frames, miscounted>>

Thread == 1..Threads

None == 0

Stage == 1..Stages

\* Where a call of run_server is: in List.filter over `todo' (those to be kept so
\* far are `kept'), in the loop of `schedule' over the queue of a stage, in the
\* code of the task of a thread (called by the former if stage is 0, by the
\* latter otherwise), or in Db.progress.
Frame == [source : Source,
          pc : {"filter", "schedule", "task", "progress"},
          stage : 0..(Stages + 1),
          todo : Seq(Thread),
          kept : Seq(Thread),
          thread : Thread \cup {None}]

Entry(src) == [source |-> src, pc |-> "filter", stage |-> 0,
               todo |-> running, kept |-> <<>>, thread |-> None]

Top == frames[Len(frames)]

\* The calls in which the innermost one nests.
Outer == SubSeq(frames, 1, Len(frames) - 1)

At(pc) == frames # <<>> /\ Top.pc = pc

Goto(f) == frames' = Append(Outer, f)

\* Foreign code runs: the main loop, Db.progress, or a task, which may call it.
MainLoop == frames = <<>> \/ At("progress") \/ At("task")

IsEmpty == \A i \in Stage : queue[i] = <<>>

Init ==
  /\ task = [t \in Thread |-> "new"]
  /\ lock = {}
  /\ queue = [i \in Stage |-> <<>>]
  /\ running = <<>>
  /\ scheduled = 0
  /\ terminated = 0
  /\ procs = MaxProcs
  /\ waiting = FALSE
  /\ sources = {}
  /\ frames = <<>>
  /\ miscounted = FALSE

-----------------------------------------------------------------------------
(* Operations on the server.                                               *)

Enqueue(t, i) ==
  /\ \A u \in Thread : task[u] = "new" <=> u >= t
  /\ task' = [task EXCEPT ![t] = "waiting"]
  /\ queue' = [queue EXCEPT ![i] = Append(@, t)]
  /\ scheduled' = scheduled + 1
  /\ waiting' = FALSE

\* The code of a task spawns a thread.
Spawn(t, i) ==
  /\ At("task")
  /\ Enqueue(t, i)
  /\ UNCHANGED <<lock, running, terminated, procs, sources, frames, miscounted>>

\* Mutant: the test is done before the new thread is counted.
PendingUncounted(n) == n - 1 > terminated

Pending(n) == n > terminated

\* launch, for n scheduled threads: a timeout is added, even if there is one.
Launch(n) ==
  IF Pending(n) THEN \E src \in Source \ sources : sources' = sources \cup {src}
                ELSE UNCHANGED sources

\* An event of the GUI spawns a thread and launches the server.
Click(t, i) ==
  /\ MainLoop
  /\ Enqueue(t, i)
  /\ Launch(scheduled')
  /\ UNCHANGED <<lock, running, terminated, procs, frames, miscounted>>

\* The automata of some of the threads of S end on a Kill.
CancelThreads(S) ==
  \E D \in SUBSET {t \in S : task[t] = "waiting"} :
    task' = [t \in Thread |-> IF t \in D THEN "done" ELSE task[t]]

Cancel(t) ==
  /\ MainLoop
  /\ task[t] = "waiting"
  /\ CancelThreads({t})
  /\ UNCHANGED <<lock, queue, running, scheduled, terminated, procs, waiting,
                 sources, frames, miscounted>>

Served == Range(running) \cup UNION {Range(queue[i]) : i \in Stage}

CancelAll ==
  /\ MainLoop
  /\ CancelThreads(Served)
  /\ UNCHANGED <<lock, queue, running, scheduled, terminated, procs, waiting,
                 sources, frames, miscounted>>

SetProcs(n) ==
  /\ MainLoop
  /\ procs # n
  /\ procs' = n
  /\ UNCHANGED <<task, lock, queue, running, scheduled, terminated, waiting,
                 sources, frames, miscounted>>

-----------------------------------------------------------------------------
(* run_server.                                                             *)

\* The main loop fires a timeout; never one that is already being served.  A
\* call of run_server from the code of a task works on a list of running threads
\* that the outer call is about to overwrite.
Poll(src) ==
  /\ MainLoop
  /\ Len(frames) < MaxDepth
  /\ src \in sources
  /\ \A i \in DOMAIN frames : frames[i].source # src
  /\ frames' = Append(frames, Entry(src))
  /\ miscounted' = (miscounted \/ At("task"))
  /\ UNCHANGED <<task, lock, queue, running, scheduled, terminated, procs,
                 waiting, sources>>

\* Mutant: a thread that ends in the filter is not counted.
ProgressedUncounted(f, t, b) ==
  /\ Goto([f EXCEPT !.pc = IF f.stage = 0 THEN "filter" ELSE "schedule",
                    !.kept = IF f.stage = 0 /\ b THEN Append(@, t) ELSE @,
                    !.thread = None])
  /\ running' = IF f.stage > 0 /\ b THEN <<t>> \o running ELSE running
  /\ terminated' = IF b \/ f.stage = 0 THEN terminated ELSE terminated + 1

\* The frame f, once the call of `progress' that it made for thread t returned b:
\* in the filter t is kept or not, in `schedule' it becomes running or not.
Progressed(f, t, b) ==
  /\ Goto([f EXCEPT !.pc = IF f.stage = 0 THEN "filter" ELSE "schedule",
                    !.kept = IF f.stage = 0 /\ b THEN Append(@, t) ELSE @,
                    !.thread = None])
  /\ running' = IF f.stage > 0 /\ b THEN <<t>> \o running ELSE running
  /\ terminated' = IF b THEN terminated ELSE terminated + 1

\* Mutant: `progress' does not test the lock.
StartUnlocked(f, t) ==
  IF task[t] = "done"
  THEN Progressed(f, t, FALSE) /\ UNCHANGED lock
  ELSE /\ Goto([f EXCEPT !.pc = "task", !.thread = t])
       /\ lock' = lock \cup {t}
       /\ UNCHANGED <<running, terminated>>

\* `progress' t, up to the code of the task.  It returns at once if the thread
\* is locked, or if its task is done.
Start(f, t) ==
  IF t \in lock \/ task[t] = "done"
  THEN Progressed(f, t, t \in lock) /\ UNCHANGED lock
  ELSE /\ Goto([f EXCEPT !.pc = "task", !.thread = t])
       /\ lock' = lock \cup {t}
       /\ UNCHANGED <<running, terminated>>

FilterNext ==
  /\ At("filter")
  /\ Top.todo # <<>>
  /\ Start([Top EXCEPT !.todo = Tail(@)], Head(Top.todo))
  /\ UNCHANGED <<task, queue, scheduled, procs, waiting, sources, miscounted>>

FilterDone ==
  /\ At("filter")
  /\ Top.todo = <<>>
  /\ running' = Top.kept
  /\ Goto([Top EXCEPT !.pc = "schedule", !.stage = 1, !.kept = <<>>])
  /\ UNCHANGED <<task, lock, queue, scheduled, terminated, procs, waiting,
                 sources, miscounted>>

\* The loop of `schedule' goes on with the queue of stage i.
CanTake(i) == Len(running) < procs /\ queue[i] # <<>>

ScheduleTake ==
  /\ At("schedule")
  /\ Top.stage \in Stage
  /\ CanTake(Top.stage)
  /\ queue' = [queue EXCEPT ![Top.stage] = Tail(@)]
  /\ Start(Top, Head(queue[Top.stage]))
  /\ UNCHANGED <<task, scheduled, procs, waiting, sources, miscounted>>

\* `schedule' is over for a stage: Array.iter goes on with the next one, or
\* run_server calls Db.progress.
ScheduleDone ==
  /\ At("schedule")
  /\ Top.stage \in Stage => ~CanTake(Top.stage)
  /\ Goto(IF Top.stage \in Stage THEN [Top EXCEPT !.stage = @ + 1]
                                 ELSE [Top EXCEPT !.pc = "progress"])
  /\ UNCHANGED <<task, lock, queue, running, scheduled, terminated, procs,
                 waiting, sources, miscounted>>

\* The code of the task returns an automaton that waits or not: `progress' stores
\* it, whatever `cancel' has stored meanwhile, and unlocks the thread.
TaskReturns(t, b) ==
  /\ At("task")
  /\ Top.thread = t
  /\ task' = [task EXCEPT ![t] = IF b THEN "waiting" ELSE "done"]
  /\ lock' = lock \ {t}
  /\ Progressed(Top, t, b)
  /\ UNCHANGED <<queue, scheduled, procs, waiting, sources, miscounted>>

\* The code of the task raises an exception: `progress' unlocks the thread, the
\* automaton is unchanged and run_server does not catch the exception.  The main
\* loop drops a timeout that raises.
TaskRaises ==
  /\ MayRaise
  /\ At("task")
  /\ lock' = lock \ {Top.thread}
  /\ frames' = Outer
  /\ sources' = sources \ {Top.source}
  /\ miscounted' = TRUE
  /\ UNCHANGED <<task, queue, running, scheduled, terminated, procs, waiting>>

\* Db.progress and the callbacks of `activity' return.  While there are running
\* threads the timeout is kept (and the callbacks of `wait' fire once);
\* otherwise the callbacks of `stop' fire, the counters are reset and the timeout
\* is dropped, whatever the queues hold.
EndRun ==
  /\ At("progress")
  /\ frames' = Outer
  /\ IF running # <<>>
     THEN /\ waiting' = (waiting \/ IsEmpty)
          /\ UNCHANGED <<scheduled, terminated, sources, miscounted>>
     ELSE /\ scheduled' = 0
          /\ terminated' = 0
          /\ sources' = sources \ {Top.source}
          /\ miscounted' = (miscounted \/ ~IsEmpty)
          /\ UNCHANGED waiting
  /\ UNCHANGED <<task, lock, queue, running, procs>>

\* Db.progress, or a callback, raises an exception (Db.Cancel): everything is
\* cancelled and run_server starts again.
RunRaises ==
  /\ At("progress")
  /\ CancelThreads(Served)
  /\ Goto(Entry(Top.source))
  /\ UNCHANGED <<lock, queue, running, scheduled, terminated, procs, waiting,
                 sources, miscounted>>

Next ==
  \/ \E t \in Thread : Cancel(t) \/ \E i \in Stage : Spawn(t, i) \/ Click(t, i)
  \/ CancelAll
  \/ \E n \in 1..MaxProcs : SetProcs(n)
  \/ \E src \in Source : Poll(src)
  \/ FilterNext \/ FilterDone \/ ScheduleTake \/ ScheduleDone
  \/ \E t \in Thread, b \in BOOLEAN : TaskReturns(t, b)
  \/ TaskRaises
  \/ EndRun
  \/ RunRaises

Spec == Init /\ [][Next]_vars

-----------------------------------------------------------------------------
TypeOK ==
  /\ task \in [Thread -> {"new", "waiting", "done"}]
  /\ lock \subseteq Thread
  /\ queue \in [Stage -> Seq(Thread)]
  /\ running \in Seq(Thread)
  /\ scheduled \in Nat
  /\ terminated \in Nat
  /\ procs \in 1..MaxProcs
  /\ waiting \in BOOLEAN
  /\ sources \subseteq Source
  /\ frames \in Seq(Frame)
  /\ miscounted \in BOOLEAN

\* The code of a task is never entered while it is already running, however
\* calls of run_server nest, and a thread is locked exactly while its code runs:
\* an exception or a cancellation leaves no lock behind.
ProgressIsExclusive ==
  /\ \A i, j \in DOMAIN frames :
       frames[i].thread # None /\ frames[i].thread = frames[j].thread => i = j
  /\ lock = {frames[i].thread : i \in DOMAIN frames} \ {None}

\* The places in the queues, and how many they are.
Places == UNION {{i} \X DOMAIN queue[i] : i \in Stage}

SumQueues == Cardinality(Places)

\* The threads that the innermost call of run_server has in hand.
InHand ==
  IF frames = <<>> THEN Len(running)
  ELSE (IF Top.thread = None THEN 0 ELSE 1)
       + (IF Top.stage = 0 THEN Len(Top.todo) + Len(Top.kept) ELSE Len(running))

\* The counters of the server agree with its queues and its running threads,
\* at every step (task.ml: "Invariant: terminated + (length running) + Sum (
\* length queue.(i) ) == scheduled"), until a task raises an exception, a call of
\* run_server interrupts the code of a task, or the server stops while a queue is
\* not empty.  Nothing else disturbs them: neither spawns from tasks and from
\* events, nor cancellation, nor calls that nest in Db.progress.
CountersAgree == ~miscounted => terminated + InHand + SumQueues = scheduled

\* The same between calls of run_server, with no proviso.  Violated.
Invariant ==
  frames = <<>> => terminated + Len(running) + SumQueues = scheduled

-----------------------------------------------------------------------------
(* Liveness.  The steps of OCaml code, which always goes on.               *)

RunStep == \/ FilterNext \/ FilterDone \/ ScheduleTake \/ ScheduleDone
           \/ EndRun
           \/ \E t \in Thread, b \in BOOLEAN : TaskReturns(t, b)

\* A task that makes progress again and again ends.
TasksEnd == \A t \in Thread : SF_vars(TaskReturns(t, FALSE))

\* A spawned thread terminates if tasks end and nothing spoils the counters: the
\* server is launched, keeps its timeout while it has work, and every queue gets
\* its turn, however many threads are spawned by tasks and by events.
EventuallyTerminates ==
  TasksEnd /\ []~miscounted =>
    \A t \in Thread : task[t] = "waiting" ~> task[t] = "done"

=============================================================================
