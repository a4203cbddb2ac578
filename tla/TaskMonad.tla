----------------------------- MODULE TaskMonad ------------------------------
(***************************************************************************)
(* Tasks of src/src/libraries/utils/task.ml that run system commands       *)
(* (src/src/libraries/utils/command.ml), under a mutex and shared, as WP   *)
(* does for CoqIDE and for the headers that Coq compiles.                  *)
(*                                                                         *)
(* A task is an automaton that gets a coin each time it is polled, Coin to *)
(* make progress or Kill to be cancelled.  The threads of SyncThread run   *)
(* `sync m (fun () -> command ...)'; those of Client run `share sh', where *)
(* the builder of sh is a command.  One call of Task.progress or of        *)
(* Task.cancel is one step; processes are concurrent with them.            *)
(***************************************************************************)
EXTENDS Naturals, FiniteSets

CONSTANTS
  SyncThread, \* the threads that synchronise on the mutex
  Client,     \* the threads that share the shared task
  Instance,   \* the shared task, as the owner of a command
  Timed,      \* whether the commands have a timeout
  Retry       \* sh.retry

\* A thread runs one task, and the shared task is none of the threads.
ASSUME TasksDiffer ==
  /\ SyncThread \cap Client = {}
  /\ Instance \notin SyncThread
  /\ IsFiniteSet(Client)
  /\ Timed \in BOOLEAN /\ Retry \in BOOLEAN

VARIABLES
  at,       \* for each thread or client, where its automaton is
  status,   \* for each thread or client, its status once it is done
  mutex,    \* the mutex
  cmd,      \* for each thread and for the instance, its command
  shared,   \* sh.shared: where the automaton of the instance is
  clients,  \* sh.clients
  exited,   \* whether Frama-C exited
  killed,   \* history: the threads and clients that were cancelled
  misused,  \* history: a thread that waited for the mutex was cancelled, or the
            \* function that it protects raised an exception
  raised,   \* history: unlock raised Invalid_argument
  stopped,  \* history: the owners whose process was seen stopped
  crowded,  \* history: a client came while another one, that was cancelled, was
            \* still waiting for the instance and not counted any more
  crashed   \* history: the owners whose process died of a signal that was not
            \* sent by its kill function

monad == <<at, status, mutex, cmd, shared, clients, exited, killed, misused,
           raised, stopped, crowded, crashed>>

Task == SyncThread \cup Client

Owner == SyncThread \cup {Instance}

Status == {"none", "Timeout", "Canceled", "Result", "Failed"}

-----------------------------------------------------------------------------
(* Commands.                                                               *)

\* A command: the state of its process ("reaped" once waitpid returned its end,
\* "left" once it returned that it is stopped), whether SIGKILL was sent, whether
\* the time is over, time_killed, and whether the job that kills the process at
\* exit is still there.
Command ==
  [proc : {"none", "running", "exited", "signaled", "stopped", "reaped", "left"},
   sigkill : BOOLEAN, late : BOOLEAN, time_killed : BOOLEAN, at_exit : BOOLEAN]

NoCommand == [proc |-> "none", sigkill |-> FALSE, late |-> FALSE,
              time_killed |-> FALSE, at_exit |-> FALSE]

\* command_generic and start_command.
start_command == [NoCommand EXCEPT !.proc = "running", !.at_exit = TRUE]

NotReady(c) == c.proc \in {"running", "left"}

\* Wrong: the end of the process is looked at before time_killed.
EndedFirst(c) ==
  IF c.proc = "exited" THEN "Result"
  ELSE IF c.time_killed THEN "Timeout"
  ELSE "Canceled"

\* The status that ping_command makes of the result of waitpid.
Ended(c) ==
  IF c.time_killed THEN "Timeout"
  ELSE IF c.proc = "exited" THEN "Result"
  ELSE "Canceled"

\* Wrong: a process whose time is over is not killed.
PingUntimed(c, coin) ==
  [c EXCEPT !.time_killed = @ \/ (coin = "Coin" /\ c.late),
            !.sigkill = @ \/ coin = "Kill"]

\* ping_command when waitpid does not return the process: it is killed on a Kill,
\* or if the time is over.  The process may still end by itself before SIGKILL is
\* delivered.
PingNotReady(c, coin) ==
  [c EXCEPT !.time_killed = @ \/ (coin = "Coin" /\ c.late),
            !.sigkill = @ \/ coin = "Kill" \/ c.late]

\* ping_command: the command afterwards, and the status that it returns, or
\* "none" for Wait.  last_result is never set: once the process was reaped waitpid
\* raises an exception.
ping_command(c, coin) ==
  IF NotReady(c) THEN <<PingNotReady(c, coin), "none">>
  ELSE IF c.proc = "reaped" THEN <<c, "Failed">>
  ELSE <<[c EXCEPT !.proc = IF @ = "stopped" THEN "left" ELSE "reaped",
                   !.at_exit = FALSE], Ended(c)>>

\* The task `command' of owner o gets a coin in `state' ("start" before it is
\* created): it goes to `next', or ends with the status s.  create_process may
\* fail.
command(o, state, coin, next, s) ==
  \/ /\ state = "start" /\ coin = "Kill" /\ next = "start" /\ s = "Canceled"
     /\ UNCHANGED <<cmd, stopped>>
  \/ /\ state = "start" /\ coin = "Coin" /\ next = "poll" /\ s = "none"
     /\ cmd' = [cmd EXCEPT ![o] = start_command]
     /\ UNCHANGED stopped
  \/ /\ state = "start" /\ coin = "Coin" /\ next = "start" /\ s = "Failed"
     /\ UNCHANGED <<cmd, stopped>>
  \/ /\ state = "poll" /\ next = "poll" /\ s = ping_command(cmd[o], coin)[2]
     /\ cmd' = [cmd EXCEPT ![o] = ping_command(cmd[o], coin)[1]]
     /\ stopped' = IF cmd[o].proc = "stopped" THEN stopped \cup {o} ELSE stopped

\* The process of a command: it ends by itself, is stopped, goes on, dies of
\* SIGKILL or of any other signal, a crash or a kill from elsewhere; and time
\* passes.
ProcessExits(o) ==
  /\ cmd[o].proc \in {"running", "left"}
  /\ cmd' = [cmd EXCEPT ![o].proc = "exited"]
  /\ UNCHANGED crashed

ProcessStops(o) ==
  /\ cmd[o].proc = "running"
  /\ cmd' = [cmd EXCEPT ![o].proc = "stopped"]
  /\ UNCHANGED crashed

ProcessContinues(o) ==
  /\ cmd[o].proc = "stopped"
  /\ cmd' = [cmd EXCEPT ![o].proc = "running"]
  /\ UNCHANGED crashed

Alive(c) == c.proc \in {"running", "stopped", "left"}

ProcessDies(o) ==
  /\ cmd[o].sigkill
  /\ Alive(cmd[o])
  /\ cmd' = [cmd EXCEPT ![o].proc = "signaled"]
  /\ UNCHANGED crashed

ProcessCrashes(o) ==
  /\ Alive(cmd[o])
  /\ cmd' = [cmd EXCEPT ![o].proc = "signaled"]
  /\ crashed' = crashed \cup {o}

TimeIsOver(o) ==
  /\ Timed
  /\ cmd[o].proc # "none"
  /\ ~cmd[o].late
  /\ cmd' = [cmd EXCEPT ![o].late = TRUE]
  /\ UNCHANGED crashed

\* Only processes change.
Outside ==
  /\ ~exited
  /\ UNCHANGED <<at, status, mutex, shared, clients, exited, killed, misused,
                 raised, stopped, crowded>>

\* The time of a command passes, and SIGKILL is delivered.
KilledInTime(o) == (TimeIsOver(o) \/ ProcessDies(o)) /\ Outside

ProcessStep(o) ==
  /\ \/ ProcessExits(o) \/ ProcessStops(o) \/ ProcessContinues(o)
     \/ ProcessDies(o) \/ ProcessCrashes(o) \/ TimeIsOver(o)
  /\ Outside

-----------------------------------------------------------------------------
(* The mutex.                                                              *)

MonadInit ==
  /\ at = [t \in Task |-> "new"]
  /\ status = [t \in Task |-> "none"]
  /\ mutex = FALSE
  /\ cmd = [o \in Owner |-> NoCommand]
  /\ shared = [at |-> "todo", status |-> "none"]
  /\ clients = 0
  /\ exited = FALSE
  /\ killed = {}
  /\ misused = FALSE
  /\ raised = FALSE
  /\ stopped = {}
  /\ crowded = FALSE
  /\ crashed = {}

\* lock, then the task that it protects; or `later lock'.
Lock(t) ==
  IF mutex THEN at' = [at EXCEPT ![t] = "lock"] /\ UNCHANGED mutex
           ELSE at' = [at EXCEPT ![t] = "start"] /\ mutex' = TRUE

\* Wrong: the mutex is released when the task returns a result only.
UnlockOnResult(t, s) ==
  /\ mutex' = (mutex /\ s # "Result")
  /\ at' = [at EXCEPT ![t] = "done"]
  /\ status' = [status EXCEPT ![t] = s]
  /\ UNCHANGED raised

\* The end of sync: unlock, whatever the status.  If it raises, the exception
\* escapes and the automaton is not replaced.
Unlock(t, s) ==
  IF mutex
  THEN /\ mutex' = FALSE
       /\ at' = [at EXCEPT ![t] = "done"]
       /\ status' = [status EXCEPT ![t] = s]
       /\ UNCHANGED raised
  ELSE raised' = TRUE /\ UNCHANGED <<mutex, at, status>>

\* The automaton of a thread, in the part that the mutex protects, goes to `state',
\* or ends.
Inside(t, state, s) ==
  IF s = "none"
  THEN at' = [at EXCEPT ![t] = state] /\ UNCHANGED <<mutex, status, raised>>
  ELSE Unlock(t, s)

\* The command that the mutex protects gets a coin.
InCommand(t, coin) ==
  \E next \in {"start", "poll"}, s \in Status :
    command(t, at[t], coin, next, s) /\ Inside(t, next, s)

\* sync is called: the mutex is taken at once if it is free.
Sync(t) ==
  /\ ~exited
  /\ at[t] = "new"
  /\ Lock(t)
  /\ UNCHANGED <<status, cmd, shared, clients, exited, killed, misused, raised,
                 stopped, crowded, crashed>>

\* The function of sync raises an exception once the mutex is taken: it escapes
\* from the automaton, which is not replaced.
SyncRaises(t) ==
  /\ ~exited
  /\ at[t] \in {"new", "lock"}
  /\ ~mutex
  /\ mutex' = TRUE
  /\ misused' = TRUE
  /\ UNCHANGED <<at, status, cmd, shared, clients, exited, killed, raised,
                 stopped, crowded, crashed>>

Progress(t) ==
  /\ ~exited
  /\ \/ /\ at[t] = "lock"
        /\ Lock(t)
        /\ UNCHANGED <<status, cmd, raised, stopped>>
     \/ InCommand(t, "Coin")
  /\ UNCHANGED <<shared, clients, exited, killed, misused, crowded, crashed>>

\* A thread that waits for the mutex ends, and unlocks it all the same.
CancelSync(t) ==
  /\ ~exited
  /\ \/ /\ at[t] = "lock"
        /\ Unlock(t, "Canceled")
        /\ misused' = TRUE
        /\ UNCHANGED <<cmd, stopped>>
     \/ /\ InCommand(t, "Kill")
        /\ UNCHANGED misused
  /\ killed' = killed \cup {t}
  /\ UNCHANGED <<shared, clients, exited, crowded, crashed>>

-----------------------------------------------------------------------------
(* The shared task.                                                        *)

Finished == shared.at = "done"

\* retry_shared.
retry_shared(s) == IF s = "Failed" THEN Retry ELSE s # "Result"

\* The automaton of the instance gets a coin.  `todo' builds it.
InstanceStep(coin) ==
  \/ /\ shared.at = "todo"
     /\ shared' = IF coin = "Coin" THEN [shared EXCEPT !.at = "start"]
                  ELSE [at |-> "done", status |-> "Canceled"]
     /\ UNCHANGED <<cmd, stopped>>
  \/ \E next \in {"start", "poll"}, s \in Status :
       /\ command(Instance, shared.at, coin, next, s)
       /\ shared' = [at |-> IF s = "none" THEN next ELSE "done", status |-> s]
  \/ Finished /\ UNCHANGED <<shared, cmd, stopped>>

ClientEnds(c, s) ==
  /\ at' = [at EXCEPT ![c] = "done"]
  /\ status' = [status EXCEPT ![c] = s]

\* A client polls: a finished instance gives its status, and is renewed if that
\* is to be tried again.
PingCoin(c) ==
  IF Finished
  THEN /\ ClientEnds(c, shared.status)
       /\ shared' = IF retry_shared(shared.status)
                    THEN [at |-> "todo", status |-> "none"] ELSE shared
       /\ UNCHANGED <<clients, cmd, stopped>>
  ELSE InstanceStep("Coin") /\ UNCHANGED <<at, status, clients>>

\* Wrong: the instance is cancelled whoever else waits for it.
KillInstance(c) ==
  /\ clients' = 0
  /\ InstanceStep("Kill")
  /\ UNCHANGED <<at, status>>

\* A client is cancelled: it leaves, unless it is the only one that is counted;
\* then the instance is cancelled and the client polls on.
PingKill(c) ==
  IF clients > 1
  THEN /\ clients' = clients - 1
       /\ ClientEnds(c, "Canceled")
       /\ UNCHANGED <<shared, cmd, stopped>>
  ELSE /\ clients' = 0
       /\ IF clients = 1 THEN InstanceStep("Kill")
                         ELSE UNCHANGED <<shared, cmd, stopped>>
       /\ UNCHANGED <<at, status>>

\* A client that was cancelled waits for the end of the instance, or a new one.
Cancelling == \E c \in Client \cap killed : at[c] = "ping"

\* share, then the first coin of its `todo'.
Share(c) ==
  /\ ~exited
  /\ at[c] = "new"
  /\ at' = [at EXCEPT ![c] = "ping"]
  /\ clients' = clients + 1
  /\ crowded' = (crowded \/ Cancelling)
  /\ UNCHANGED <<status, mutex, cmd, shared, exited, killed, misused, raised,
                 stopped, crashed>>

ClientPolls(c) ==
  /\ ~exited
  /\ at[c] = "ping"
  /\ PingCoin(c)
  /\ UNCHANGED <<mutex, exited, killed, misused, raised, crowded, crashed>>

\* Before its first coin, a client just ends.
ClientCancelled(c) ==
  /\ ~exited
  /\ \/ /\ at[c] = "new"
        /\ ClientEnds(c, "Canceled")
        /\ UNCHANGED <<clients, shared, cmd, stopped>>
     \/ /\ at[c] = "ping"
        /\ PingKill(c)
  /\ killed' = killed \cup {c}
  /\ UNCHANGED <<mutex, exited, misused, raised, crowded, crashed>>

-----------------------------------------------------------------------------
\* Frama-C exits: the jobs at exit kill the processes and wait for them.
Exit ==
  /\ ~exited
  /\ exited' = TRUE
  /\ cmd' = [o \in Owner |-> IF cmd[o].at_exit
                             THEN [cmd[o] EXCEPT !.proc = "reaped"]
                             ELSE cmd[o]]
  /\ UNCHANGED <<at, status, mutex, shared, clients, killed, misused, raised,
                 stopped, crowded, crashed>>

SyncStep(t) == Sync(t) \/ SyncRaises(t) \/ Progress(t) \/ CancelSync(t)

ShareStep(c) == Share(c) \/ ClientPolls(c) \/ ClientCancelled(c)

MonadNext ==
  \/ \E t \in SyncThread : SyncStep(t)
  \/ \E c \in Client : ShareStep(c)
  \/ \E o \in Owner : ProcessStep(o)
  \/ Exit

MonadSpec == MonadInit /\ [][MonadNext]_monad

-----------------------------------------------------------------------------
MonadTypeOK ==
  /\ at \in [Task -> {"new", "lock", "start", "poll", "ping", "done"}]
  /\ status \in [Task -> Status]
  /\ mutex \in BOOLEAN
  /\ cmd \in [Owner -> Command]
  /\ shared \in [at : {"todo", "start", "poll", "done"}, status : Status]
  /\ clients \in Nat
  /\ exited \in BOOLEAN /\ misused \in BOOLEAN
  /\ raised \in BOOLEAN /\ crowded \in BOOLEAN
  /\ killed \subseteq Task
  /\ stopped \subseteq Owner /\ crashed \subseteq Owner

Holds(t) == at[t] \in {"start", "poll"}

\* Only one of the tasks scheduled on a mutex runs at a time (task.mli, on sync:
\* "Schedules a task such that only one can run simultaneously for a given
\* mutex").  Violated: a thread that waits for the mutex and is cancelled runs
\* unlock, and another one enters while the first is still inside.
OneAtATime == \A t, u \in SyncThread : Holds(t) /\ Holds(u) => t = u

\* The mutex is taken exactly while one thread is in the part that it protects,
\* whatever the statuses and the cancellations of those inside, and unlock never
\* raises (sync); until a thread that waits for the mutex is cancelled, which
\* releases the mutex of another one, or the function raises, which keeps it.
CriticalSection ==
  ~misused =>
    /\ mutex <=> \E t \in SyncThread : Holds(t)
    /\ \A t, u \in SyncThread : Holds(t) /\ Holds(u) => t = u
    /\ ~raised

\* The status of a command is true (ping_command): a process that was killed for
\* its time, or that a signal ended, is never reported with a result, even if it
\* had ended by itself before SIGKILL came; Canceled is a cancellation, or a signal
\* from elsewhere that ended or stopped the process; and the process is not polled
\* again once it was reaped, unless an exception brought its automaton back.
StatusTrue ==
  \A t \in SyncThread :
    /\ status[t] = "Result" => ~cmd[t].time_killed /\ t \notin crashed
    /\ status[t] = "Timeout" => cmd[t].late
    /\ status[t] = "Canceled" => t \in killed \cup stopped \cup crashed
    /\ status[t] = "Failed" /\ ~misused => cmd[t].proc = "none"

\* Cancelling a client of a shared task cancels no other client, and no client
\* loses its instance to one that ended: a client that was not cancelled gets
\* Canceled only if a signal from elsewhere stopped or ended a process of the
\* task, or if some client came while one that was cancelled was still waiting
\* (ping_shared).
OthersNotCancelled ==
  \A c \in Client :
    status[c] = "Canceled" => \/ c \in killed
                              \/ Instance \in stopped \cup crashed
                              \/ crowded

\* An instance that nobody polls any more is one that a cancelled client left
\* because ended clients are still counted (ping_shared, Kill): nothing else
\* leaves a shared process to itself.
OrphansCounted ==
  shared.at \in {"start", "poll"} /\ (\A c \in Client : at[c] # "ping") =>
    \/ clients > 0
    \/ exited

\* While the shared task has no process of its own, before `todo' built it and
\* after it ended, no earlier one is left but one that was seen stopped: however
\* clients cancel and retry, its processes follow one another.
InstancesSucceed ==
  shared.at # "poll" =>
    cmd[Instance].proc \in {"none", "reaped"} \/ Instance \in stopped

\* When Frama-C exits it leaves no process, but those that were seen stopped
\* (command_generic).
NoProcessLeft ==
  exited => \A o \in Owner \ stopped : cmd[o].proc \in {"none", "reaped"}

\* A command that ended is reported as it ended, and none survives Frama-C.
CommandsTrue == StatusTrue /\ NoProcessLeft

\* The clients of a shared task are served apart from one another, by one process
\* at a time.
SharedSound == OthersNotCancelled /\ OrphansCounted /\ InstancesSucceed

=============================================================================
