-------------------------- MODULE TaskMonadProofs ---------------------------
(***************************************************************************)
(* Proofs about TaskMonad, for any threads, clients and commands.          *)
(***************************************************************************)
EXTENDS TaskMonad, FiniteSetTheorems, TLAPS

-----------------------------------------------------------------------------
(* Commands.                                                               *)

LEMMA NoCommandType == NoCommand \in Command
BY DEF NoCommand, Command

LEMMA StartFields ==
  /\ start_command \in Command
  /\ start_command.proc = "running"
  /\ start_command.at_exit
  /\ ~start_command.sigkill /\ ~start_command.late /\ ~start_command.time_killed
<1>1. /\ NoCommand.proc = "none"
      /\ ~NoCommand.sigkill /\ ~NoCommand.late /\ ~NoCommand.time_killed
  BY DEF NoCommand
<1> QED
  BY <1>1, NoCommandType, Zenon DEF start_command, Command

\* A command stays a command when ping_command looks at it.
LEMMA PingType ==
  ASSUME NEW c \in Command, NEW coin \in {"Coin", "Kill"}
  PROVE  /\ ping_command(c, coin)[1] \in Command
         /\ ping_command(c, coin)[2] \in Status
BY Zenon DEF ping_command, PingNotReady, NotReady, Ended, Command, Status

\* The operations of threads and of clients, with the command they make a step of.
LEMMA ProgressCases ==
  ASSUME NEW t, Progress(t)
  PROVE  /\ ~exited
         /\ UNCHANGED <<shared, clients, exited, killed, misused, crowded, crashed>>
         /\ \/ at[t] = "lock" /\ Lock(t) /\ UNCHANGED <<status, cmd, raised, stopped>>
            \/ \E next, s : command(t, at[t], "Coin", next, s) /\ Inside(t, next, s)
BY DEF Progress, InCommand

LEMMA CancelCases ==
  ASSUME NEW t, CancelSync(t)
  PROVE  /\ ~exited
         /\ UNCHANGED <<shared, clients, exited, crowded, crashed>>
         /\ killed' = killed \cup {t}
         /\ \/ at[t] = "lock" /\ Unlock(t, "Canceled") /\ misused' = TRUE
               /\ UNCHANGED <<cmd, stopped>>
            \/ /\ UNCHANGED misused
               /\ \E next, s : command(t, at[t], "Kill", next, s) /\ Inside(t, next, s)
BY DEF CancelSync, InCommand

LEMMA InstanceCases ==
  ASSUME NEW coin, InstanceStep(coin)
  PROVE  \/ /\ shared.at = "todo" /\ UNCHANGED <<cmd, stopped>>
            /\ shared' = IF coin = "Coin" THEN [shared EXCEPT !.at = "start"]
                         ELSE [at |-> "done", status |-> "Canceled"]
         \/ \E next, s :
              /\ command(Instance, shared.at, coin, next, s)
              /\ shared' = [at |-> IF s = "none" THEN next ELSE "done", status |-> s]
         \/ Finished /\ UNCHANGED <<shared, cmd, stopped>>
BY DEF InstanceStep

LEMMA CommandStepType ==
  ASSUME MonadTypeOK, NEW o \in Owner, NEW coin \in {"Coin", "Kill"},
         NEW state, NEW next, NEW s, command(o, state, coin, next, s)
  PROVE  /\ cmd' \in [Owner -> Command]
         /\ stopped' \subseteq Owner
         /\ state \in {"start", "poll"} /\ next \in {"start", "poll"} /\ s \in Status
<1> cmd[o] \in Command
  BY DEF MonadTypeOK
<1> QED
  BY PingType, StartFields DEF command, MonadTypeOK, Status

-----------------------------------------------------------------------------
(* Types.                                                                  *)

LEMMA MonadTypeInit == MonadInit => MonadTypeOK
<1> SUFFICES ASSUME MonadInit PROVE MonadTypeOK
  OBVIOUS
<1>1. cmd \in [Owner -> Command]
  BY NoCommandType DEF MonadInit
<1> QED
  BY <1>1, Zenon DEF MonadInit, MonadTypeOK, Status

LEMMA InsideType ==
  ASSUME MonadTypeOK, NEW t \in SyncThread, NEW s \in Status,
         NEW state \in {"start", "poll"}, Inside(t, state, s)
  PROVE  /\ at' \in [Task -> {"new", "lock", "start", "poll", "ping", "done"}]
         /\ status' \in [Task -> Status]
         /\ mutex' \in BOOLEAN
         /\ raised' \in BOOLEAN
BY Zenon DEF MonadTypeOK, Inside, Unlock, Task

LEMMA SyncType ==
  ASSUME MonadTypeOK, NEW t \in SyncThread, SyncStep(t)
  PROVE  MonadTypeOK'
<1>1. CASE Sync(t)
  BY <1>1, Zenon DEF Sync, Lock, MonadTypeOK, Task
<1>2. CASE SyncRaises(t)
  BY <1>2 DEF SyncRaises, MonadTypeOK
<1>3. ASSUME NEW coin \in {"Coin", "Kill"}, NEW next, NEW s,
             command(t, at[t], coin, next, s), Inside(t, next, s),
             UNCHANGED <<shared, clients, exited, crowded, crashed>>,
             misused' \in BOOLEAN, killed' \subseteq Task
      PROVE  MonadTypeOK'
  <2>1. /\ cmd' \in [Owner -> Command]
        /\ stopped' \subseteq Owner
        /\ next \in {"start", "poll"} /\ s \in Status
    BY <1>3, CommandStepType DEF Owner
  <2> QED
    BY <1>3, <2>1, InsideType DEF MonadTypeOK
<1>4. CASE Progress(t)
  <2>1. CASE at[t] = "lock" /\ Lock(t) /\ UNCHANGED <<status, cmd, raised, stopped>>
    BY <1>4, <2>1, ProgressCases, Zenon DEF MonadTypeOK, Lock, Task
  <2>2. misused' \in BOOLEAN /\ killed' \subseteq Task
    BY <1>4, ProgressCases DEF MonadTypeOK
  <2> QED
    BY <1>3, <1>4, <2>1, <2>2, ProgressCases
<1>5. CASE CancelSync(t)
  <2>1. killed' \subseteq Task
    <3>1. killed' = killed \cup {t}
      BY <1>5, CancelCases, Zenon
    <3> QED
      BY <3>1 DEF MonadTypeOK, Task
  <2>2. CASE at[t] = "lock" /\ Unlock(t, "Canceled") /\ misused' = TRUE
             /\ UNCHANGED <<cmd, stopped>>
    <3>1. /\ at' \in [Task -> {"new", "lock", "start", "poll", "ping", "done"}]
          /\ status' \in [Task -> Status]
          /\ mutex' \in BOOLEAN
          /\ raised' \in BOOLEAN
      BY <2>2, Zenon DEF MonadTypeOK, Unlock, Task, Status
    <3> QED
      BY <1>5, <2>2, <2>1, <3>1, CancelCases, Zenon DEF MonadTypeOK
  <2>3. misused' \in BOOLEAN
    BY <1>5, CancelCases, Zenon DEF MonadTypeOK
  <2> QED
    BY <1>3, <1>5, <2>2, <2>3, <2>1, CancelCases, Zenon
<1> QED
  BY <1>1, <1>2, <1>4, <1>5 DEF SyncStep

LEMMA InstanceType ==
  ASSUME MonadTypeOK, NEW coin \in {"Coin", "Kill"}, InstanceStep(coin)
  PROVE  /\ cmd' \in [Owner -> Command]
         /\ stopped' \subseteq Owner
         /\ shared' \in [at : {"todo", "start", "poll", "done"}, status : Status]
<1>1. CASE shared.at = "todo" /\ UNCHANGED <<cmd, stopped>>
           /\ shared' = IF coin = "Coin" THEN [shared EXCEPT !.at = "start"]
                        ELSE [at |-> "done", status |-> "Canceled"]
  BY <1>1 DEF MonadTypeOK, Status
<1>2. ASSUME NEW next, NEW s,
             command(Instance, shared.at, coin, next, s),
             shared' = [at |-> IF s = "none" THEN next ELSE "done", status |-> s]
      PROVE  /\ cmd' \in [Owner -> Command]
             /\ stopped' \subseteq Owner
             /\ shared' \in [at : {"todo", "start", "poll", "done"}, status : Status]
  BY <1>2, CommandStepType DEF Owner
<1>3. CASE Finished /\ UNCHANGED <<shared, cmd, stopped>>
  BY <1>3 DEF MonadTypeOK
<1> QED
  BY <1>1, <1>2, <1>3, InstanceCases

LEMMA ShareType ==
  ASSUME MonadTypeOK, NEW c \in Client, ShareStep(c)
  PROVE  MonadTypeOK'
<1> c \in Task
  BY DEF Task
<1>1. CASE Share(c)
  BY <1>1 DEF Share, MonadTypeOK, Cancelling
<1>2. CASE ClientPolls(c)
  <2>1. CASE Finished
    BY <1>2, <2>1 DEF ClientPolls, PingCoin, ClientEnds, MonadTypeOK, Status
  <2>2. CASE ~Finished
    BY <1>2, <2>2, InstanceType DEF ClientPolls, PingCoin, MonadTypeOK
  <2> QED
    BY <2>1, <2>2
<1>3. CASE ClientCancelled(c)
  <2>1. CASE at[c] = "new" /\ ClientEnds(c, "Canceled")
             /\ UNCHANGED <<clients, shared, cmd, stopped>>
    BY <1>3, <2>1 DEF ClientCancelled, ClientEnds, MonadTypeOK, Status
  <2>2. CASE at[c] = "ping" /\ PingKill(c)
    <3>1. clients' \in Nat
      BY <2>2 DEF PingKill, MonadTypeOK
    <3>2. CASE clients > 1
      BY <1>3, <2>2, <3>1, <3>2
      DEF ClientCancelled, PingKill, ClientEnds, MonadTypeOK, Status
    <3>3. CASE ~(clients > 1) /\ clients = 1
      BY <1>3, <2>2, <3>1, <3>3, InstanceType DEF ClientCancelled, PingKill, MonadTypeOK
    <3>4. CASE ~(clients > 1) /\ clients # 1
      BY <1>3, <2>2, <3>1, <3>4 DEF ClientCancelled, PingKill, MonadTypeOK
    <3> QED
      BY <3>2, <3>3, <3>4
  <2> QED
    BY <1>3, <2>1, <2>2 DEF ClientCancelled
<1> QED
  BY <1>1, <1>2, <1>3 DEF ShareStep

LEMMA ProcessType ==
  ASSUME MonadTypeOK, NEW o \in Owner, ProcessStep(o)
  PROVE  MonadTypeOK'
<1>1. cmd[o] \in Command
  BY DEF MonadTypeOK
<1>2. cmd' \in [Owner -> Command]
  <2>1. cmd \in [Owner -> Command]
    BY DEF MonadTypeOK
  <2>2. CASE \/ ProcessExits(o) \/ ProcessStops(o) \/ ProcessContinues(o)
             \/ ProcessDies(o) \/ ProcessCrashes(o)
    <3>1. PICK p \in {"running", "exited", "signaled", "stopped"} :
            cmd' = [cmd EXCEPT ![o].proc = p]
      BY <2>2 DEF ProcessExits, ProcessStops, ProcessContinues, ProcessDies, ProcessCrashes
    <3>2. [cmd[o] EXCEPT !.proc = p] \in Command
      BY <1>1 DEF Command
    <3> QED
      BY <2>1, <3>1, <3>2
  <2>3. CASE TimeIsOver(o)
    <3>1. [cmd[o] EXCEPT !.late = TRUE] \in Command
      BY <1>1, Zenon DEF Command
    <3> QED
      BY <2>1, <2>3, <3>1 DEF TimeIsOver
  <2> QED
    BY <2>2, <2>3 DEF ProcessStep
<1>3. crashed' \subseteq Owner
  BY DEF ProcessStep, ProcessExits, ProcessStops, ProcessContinues, ProcessDies,
         ProcessCrashes, TimeIsOver, MonadTypeOK
<1> QED
  BY <1>2, <1>3 DEF ProcessStep, Outside, MonadTypeOK

LEMMA ExitType == MonadTypeOK /\ Exit => MonadTypeOK'
<1> SUFFICES ASSUME MonadTypeOK, Exit PROVE MonadTypeOK'
  OBVIOUS
<1>1. \A o \in Owner : cmd[o] \in Command /\ [cmd[o] EXCEPT !.proc = "reaped"] \in Command
  BY DEF MonadTypeOK, Command
<1>2. cmd' \in [Owner -> Command]
  BY <1>1 DEF Exit
<1> QED
  BY <1>2 DEF Exit, MonadTypeOK

LEMMA MonadTypeNext == MonadTypeOK /\ [MonadNext]_monad => MonadTypeOK'
<1> SUFFICES ASSUME MonadTypeOK, [MonadNext]_monad PROVE MonadTypeOK'
  OBVIOUS
<1>1. CASE UNCHANGED monad
  BY <1>1 DEF monad, MonadTypeOK
<1>2. CASE MonadNext
  BY <1>2, SyncType, ShareType, ProcessType, ExitType DEF MonadNext
<1> QED
  BY <1>1, <1>2

\* The automata, the commands and the counter of clients stay in their domains:
\* `clients' is never negative (ping_shared).
THEOREM MonadTypeCorrect == MonadSpec => []MonadTypeOK
BY MonadTypeInit, MonadTypeNext, PTL DEF MonadSpec

-----------------------------------------------------------------------------
(* What a step leaves alone.                                               *)

\* A client does not touch the threads, their mutex and their commands.
LEMMA ShareLeaves ==
  ASSUME MonadTypeOK, NEW c \in Client, ShareStep(c), NEW t \in SyncThread
  PROVE  /\ UNCHANGED <<mutex, misused, raised, exited, crashed>>
         /\ at'[t] = at[t] /\ status'[t] = status[t] /\ cmd'[t] = cmd[t]
         /\ (t \in stopped') = (t \in stopped) /\ (t \in killed') = (t \in killed)
<1> t # c /\ t # Instance /\ t \in Task /\ c \in Task /\ t \in Owner /\ Instance \in Owner
  BY TasksDiffer DEF Task, Owner
<1>1. ASSUME NEW coin, InstanceStep(coin)
      PROVE  cmd'[t] = cmd[t] /\ (t \in stopped') = (t \in stopped)
  BY <1>1, InstanceCases DEF command, MonadTypeOK
<1>2. CASE Share(c)
  BY <1>2 DEF Share, MonadTypeOK
<1>3. CASE ClientPolls(c)
  BY <1>1, <1>3 DEF ClientPolls, PingCoin, ClientEnds, MonadTypeOK
<1>4. CASE ClientCancelled(c)
  BY <1>1, <1>4 DEF ClientCancelled, PingKill, ClientEnds, MonadTypeOK
<1> QED
  BY <1>2, <1>3, <1>4 DEF ShareStep

\* A thread does not touch the other threads, nor the clients and their instance.
LEMMA SyncLeaves ==
  ASSUME MonadTypeOK, NEW t \in SyncThread, SyncStep(t)
  PROVE  /\ UNCHANGED <<shared, clients, exited, crowded, crashed>>
         /\ \A u \in Task \ {t} : at'[u] = at[u] /\ status'[u] = status[u]
         /\ \A o \in Owner \ {t} : cmd'[o] = cmd[o]
         /\ \A o \in Owner \ {t} : (o \in stopped') = (o \in stopped)
         /\ \A u \in Task \ {t} : (u \in killed') = (u \in killed)
<1> t \in Task /\ t \in Owner
  BY DEF Task, Owner
<1>1. ASSUME NEW coin, NEW next, NEW s,
             command(t, at[t], coin, next, s), Inside(t, next, s)
      PROVE  /\ \A u \in Task \ {t} : at'[u] = at[u] /\ status'[u] = status[u]
             /\ \A o \in Owner \ {t} : cmd'[o] = cmd[o]
             /\ \A o \in Owner \ {t} : (o \in stopped') = (o \in stopped)
  <2>1. \A u \in Task \ {t} : at'[u] = at[u] /\ status'[u] = status[u]
    BY <1>1 DEF Inside, Unlock, MonadTypeOK
  <2>2. \A o \in Owner \ {t} : cmd'[o] = cmd[o] /\ (o \in stopped') = (o \in stopped)
    BY <1>1 DEF command, MonadTypeOK
  <2> QED
    BY <2>1, <2>2
<1>2. CASE Sync(t) \/ SyncRaises(t)
  BY <1>2 DEF Sync, SyncRaises, Lock, MonadTypeOK
<1>3. CASE Progress(t)
  BY <1>1, <1>3, ProgressCases, Zenon DEF Lock, MonadTypeOK
<1>4. CASE CancelSync(t)
  <2>1. /\ UNCHANGED <<shared, clients, exited, crowded, crashed>>
        /\ \A u \in Task \ {t} : (u \in killed') = (u \in killed)
    <3>1. UNCHANGED <<shared, clients, exited, crowded, crashed>> /\ killed' = killed \cup {t}
      BY <1>4, CancelCases, Zenon
    <3> QED
      BY <3>1
  <2>2. CASE at[t] = "lock" /\ Unlock(t, "Canceled") /\ misused' = TRUE
             /\ UNCHANGED <<cmd, stopped>>
    BY <2>1, <2>2 DEF Unlock, MonadTypeOK
  <2>3. CASE \E next, s : command(t, at[t], "Kill", next, s) /\ Inside(t, next, s)
    BY <1>1, <2>1, <2>3
  <2> QED
    BY <1>4, <2>2, <2>3, CancelCases, Zenon
<1> QED
  BY <1>2, <1>3, <1>4 DEF SyncStep

-----------------------------------------------------------------------------
(* The mutex.                                                              *)

LEMMA CriticalSync ==
  ASSUME MonadTypeOK, CriticalSection, NEW t \in SyncThread, SyncStep(t)
  PROVE  CriticalSection'
<1> SUFFICES ASSUME ~misused' PROVE CriticalSection'
  BY DEF CriticalSection
<1> t \in Task /\ SyncThread \subseteq Task
  BY DEF Task
<1>0. \A u \in SyncThread \ {t} : at'[u] = at[u]
  BY SyncLeaves
<1>1. ASSUME NEW next \in {"start", "poll"}, NEW s, Holds(t), ~misused, Inside(t, next, s)
      PROVE  CriticalSection'
  BY <1>0, <1>1 DEF CriticalSection, Inside, Unlock, Holds, MonadTypeOK
<1>2. CASE Sync(t)
  <2>1. CASE mutex
    BY <1>0, <1>2, <2>1 DEF CriticalSection, Sync, Lock, Holds, MonadTypeOK
  <2>2. CASE ~mutex
    BY <1>0, <1>2, <2>2 DEF CriticalSection, Sync, Lock, Holds, MonadTypeOK
  <2> QED
    BY <2>1, <2>2
<1>3. CASE SyncRaises(t)
  BY <1>3 DEF SyncRaises
<1>4. ASSUME NEW coin \in {"Coin", "Kill"}, NEW next, NEW s,
             command(t, at[t], coin, next, s), Inside(t, next, s), ~misused
      PROVE  CriticalSection'
  BY <1>1, <1>4, CommandStepType DEF Holds, Owner
<1>5. CASE Progress(t)
  <2>1. CASE at[t] = "lock" /\ Lock(t) /\ UNCHANGED <<status, cmd, raised, stopped>>
    BY <1>0, <1>5, <2>1, ProgressCases, Zenon DEF CriticalSection, Lock, Holds, MonadTypeOK
  <2> QED
    BY <1>4, <1>5, <2>1, ProgressCases
<1>6. CASE CancelSync(t)
  <2>1. ~misused /\ \E next, s : command(t, at[t], "Kill", next, s) /\ Inside(t, next, s)
    BY <1>6, CancelCases, Zenon
  <2> QED
    BY <1>4, <2>1
<1> QED
  BY <1>2, <1>3, <1>5, <1>6 DEF SyncStep

LEMMA CriticalNext ==
  MonadTypeOK /\ CriticalSection /\ [MonadNext]_monad => CriticalSection'
<1> SUFFICES ASSUME MonadTypeOK, CriticalSection, [MonadNext]_monad
             PROVE  CriticalSection'
  OBVIOUS
<1>1. ASSUME UNCHANGED <<mutex, misused, raised>>,
             \A t \in SyncThread : at'[t] = at[t]
      PROVE  CriticalSection'
  BY <1>1 DEF CriticalSection, Holds
<1>2. ASSUME NEW c \in Client, ShareStep(c) PROVE CriticalSection'
  <2>1. CASE SyncThread = {}
    BY <1>2, <2>1 DEF CriticalSection, ShareStep, Share, ClientPolls, ClientCancelled
  <2>2. CASE SyncThread # {}
    BY <1>1, <1>2, <2>2, ShareLeaves
  <2> QED
    BY <2>1, <2>2
<1>3. CASE Exit \/ UNCHANGED monad \/ \E o \in Owner : ProcessStep(o)
  BY <1>1, <1>3 DEF Exit, monad, ProcessStep, Outside
<1> QED
  BY <1>2, <1>3, CriticalSync DEF MonadNext

\* The mutex of `sync' protects one thread at a time, is taken exactly while it is
\* needed, and unlock never raises, whatever ends and is cancelled inside, until a
\* waiting thread is cancelled or the function raises.
THEOREM MutexIsExclusive == MonadSpec => []CriticalSection
<1>1. MonadInit => CriticalSection
  BY DEF MonadInit, CriticalSection, Holds, Task
<1> QED
  BY <1>1, MonadTypeCorrect, CriticalNext, PTL DEF MonadSpec

-----------------------------------------------------------------------------
(* Commands.                                                               *)

\* What holds of the command of an owner at any time: a process that may still run
\* has its job at exit, unless it was seen stopped.
ProcessInv(o) ==
  /\ cmd[o].time_killed => cmd[o].late
  /\ cmd[o].at_exit => cmd[o].proc # "none"
  /\ cmd[o].proc = "signaled" => cmd[o].sigkill \/ o \in crashed
  /\ cmd[o].proc = "left" => o \in stopped
  /\ o \notin stopped /\ cmd[o].proc \notin {"none", "reaped"} =>
       cmd[o].at_exit /\ ~exited

\* The command of a thread follows its automaton, SIGKILL is sent by a cancellation
\* or for its time only, and a process that crashed does not run again.
ThreadInv(t) ==
  /\ status[t] # "none" => at[t] = "done"
  /\ at[t] \in {"new", "lock", "start"} => cmd[t].proc = "none"
  /\ at[t] = "poll" => cmd[t].proc # "none"
  /\ at[t] = "poll" /\ cmd[t].proc \in {"reaped", "left"} => misused \/ exited
  /\ cmd[t].sigkill => cmd[t].time_killed \/ t \in killed
  /\ t \in crashed => cmd[t].proc \in {"signaled", "reaped"}
  /\ status[t] = "Result" => cmd[t].proc = "reaped"

CommandInv ==
  /\ \A o \in Owner : ProcessInv(o)
  /\ \A t \in SyncThread : ThreadInv(t)
  /\ StatusTrue

\* ping_command while waitpid does not return the process, once the process was
\* reaped, and when it returns how the process ended.
LEMMA PingWaits ==
  ASSUME NEW c \in Command, NEW coin \in {"Coin", "Kill"}, c.proc \in {"running", "left"}
  PROVE  LET d == ping_command(c, coin)[1] IN
         /\ ping_command(c, coin)[2] = "none"
         /\ d.proc = c.proc /\ d.at_exit = c.at_exit /\ d.late = c.late
         /\ d.time_killed = (c.time_killed \/ (coin = "Coin" /\ c.late))
         /\ d.sigkill = (c.sigkill \/ coin = "Kill" \/ c.late)
BY Zenon DEF ping_command, NotReady, PingNotReady, Command

LEMMA PingReaped ==
  ASSUME NEW c \in Command, NEW coin \in {"Coin", "Kill"}, c.proc = "reaped"
  PROVE  ping_command(c, coin)[1] = c /\ ping_command(c, coin)[2] = "Failed"
BY DEF ping_command, NotReady

LEMMA PingEnds ==
  ASSUME NEW c \in Command, NEW coin \in {"Coin", "Kill"},
         c.proc \notin {"running", "left", "reaped"}
  PROVE  LET d == ping_command(c, coin)[1] IN
         /\ ping_command(c, coin)[2] = Ended(c) /\ Ended(c) # "none"
         /\ d.proc = (IF c.proc = "stopped" THEN "left" ELSE "reaped")
         /\ ~d.at_exit /\ d.late = c.late
         /\ d.time_killed = c.time_killed /\ d.sigkill = c.sigkill
BY DEF ping_command, NotReady, Ended, Command

LEMMA PingStatus ==
  ASSUME NEW c \in Command, NEW coin \in {"Coin", "Kill"}
  PROVE  ping_command(c, coin)[2] = "none" <=> c.proc \in {"running", "left"}
BY PingWaits, PingReaped, PingEnds

\* A step of the command of o keeps what holds of its process.
LEMMA CommandStepInv ==
  ASSUME MonadTypeOK, NEW o \in Owner, ProcessInv(o), ~exited,
         UNCHANGED <<exited, crashed>>,
         NEW coin \in {"Coin", "Kill"}, NEW state, NEW next, NEW s,
         command(o, state, coin, next, s)
  PROVE  ProcessInv(o)'
<1> cmd[o] \in Command
  BY DEF MonadTypeOK
<1>1. CASE UNCHANGED <<cmd, stopped>>
  BY <1>1 DEF ProcessInv
<1>2. CASE cmd' = [cmd EXCEPT ![o] = start_command] /\ UNCHANGED stopped
  <2>1. cmd'[o] = start_command
    BY <1>2 DEF MonadTypeOK
  <2> QED
    BY <1>2, <2>1, StartFields DEF ProcessInv
<1>3. CASE /\ cmd' = [cmd EXCEPT ![o] = ping_command(cmd[o], coin)[1]]
           /\ stopped' = IF cmd[o].proc = "stopped" THEN stopped \cup {o} ELSE stopped
  <2> DEFINE d == ping_command(cmd[o], coin)[1]
  <2>1. cmd'[o] = d
    BY <1>3 DEF MonadTypeOK
  <2>2. CASE cmd[o].proc \in {"running", "left"}
    <3>1. /\ d.proc = cmd[o].proc /\ d.at_exit = cmd[o].at_exit /\ d.late = cmd[o].late
          /\ d.time_killed = (cmd[o].time_killed \/ (coin = "Coin" /\ cmd[o].late))
          /\ d.sigkill = (cmd[o].sigkill \/ coin = "Kill" \/ cmd[o].late)
      BY <2>2, PingWaits
    <3>2. stopped' = stopped
      BY <1>3, <2>2
    <3> QED
      BY <2>1, <3>1, <3>2, Zenon DEF ProcessInv
  <2>3. CASE cmd[o].proc = "reaped"
    BY <1>3, <2>1, <2>3, PingReaped DEF ProcessInv
  <2>4. CASE cmd[o].proc \notin {"running", "left", "reaped"}
    <3>1. /\ d.proc = (IF cmd[o].proc = "stopped" THEN "left" ELSE "reaped")
          /\ ~d.at_exit /\ d.late = cmd[o].late /\ d.time_killed = cmd[o].time_killed
      BY <2>4, PingEnds
    <3> QED
      BY <1>3, <2>1, <3>1 DEF ProcessInv
  <2> QED
    BY <2>2, <2>3, <2>4
<1> QED
  BY <1>1, <1>2, <1>3 DEF command

\* So do the process itself and the time.
LEMMA ProcessStepInv ==
  ASSUME MonadTypeOK, NEW o \in Owner, ProcessInv(o), ProcessStep(o)
  PROVE  /\ ProcessInv(o)'
         /\ \A p \in Owner \ {o} : cmd'[p] = cmd[p] /\ (p \in crashed') = (p \in crashed)
         /\ o \in crashed => o \in crashed'
         /\ \/ (o \in crashed') = (o \in crashed)
            \/ cmd[o].proc \in {"running", "stopped", "left"} /\ cmd'[o].proc = "signaled"
         /\ cmd[o].proc = "signaled" => cmd'[o].proc = "signaled"
         /\ cmd'[o].sigkill = cmd[o].sigkill
         /\ cmd'[o].time_killed = cmd[o].time_killed
         /\ cmd[o].late => cmd'[o].late
         /\ cmd[o].proc \in {"none", "reaped"} => cmd'[o].proc = cmd[o].proc
         /\ cmd'[o].proc \in {"none", "reaped", "left"} => cmd'[o].proc = cmd[o].proc
<1> cmd[o] \in Command /\ o \in DOMAIN cmd
  BY DEF MonadTypeOK
<1>1. UNCHANGED <<exited, stopped>> /\ ~exited
  BY DEF ProcessStep, Outside
<1>2. ASSUME NEW p, cmd' = [cmd EXCEPT ![o].proc = p]
      PROVE  /\ cmd'[o] = [cmd[o] EXCEPT !.proc = p]
             /\ \A q \in Owner \ {o} : cmd'[q] = cmd[q]
  BY <1>2 DEF MonadTypeOK
<1>3. CASE ProcessExits(o) \/ ProcessStops(o) \/ ProcessContinues(o)
  BY <1>1, <1>2, <1>3 DEF ProcessExits, ProcessStops, ProcessContinues, ProcessInv, Command
<1>4. CASE ProcessDies(o)
  BY <1>1, <1>2, <1>4, Zenon DEF ProcessDies, Alive, ProcessInv, Command
<1>6. CASE ProcessCrashes(o)
  <2>1. /\ cmd'[o] = [cmd[o] EXCEPT !.proc = "signaled"]
        /\ \A p \in Owner \ {o} : cmd'[p] = cmd[p]
        /\ cmd[o].proc \in {"running", "stopped", "left"}
    BY <1>2, <1>6 DEF ProcessCrashes, Alive
  <2>2. /\ cmd'[o].proc = "signaled" /\ cmd'[o].sigkill = cmd[o].sigkill
        /\ cmd'[o].time_killed = cmd[o].time_killed /\ cmd'[o].late = cmd[o].late
        /\ cmd'[o].at_exit = cmd[o].at_exit
    BY <2>1 DEF Command
  <2>3. o \in crashed' /\ \A p \in Owner \ {o} : (p \in crashed') = (p \in crashed)
    BY <1>6 DEF ProcessCrashes
  <2> QED
    BY <1>1, <2>1, <2>2, <2>3, Zenon DEF ProcessInv
<1>5. CASE TimeIsOver(o)
  BY <1>1, <1>5 DEF TimeIsOver, ProcessInv, Command, MonadTypeOK
<1> QED
  BY <1>3, <1>4, <1>5, <1>6 DEF ProcessStep

\* What StatusTrue says of thread t.
StatusOf(t) ==
  /\ status[t] = "Result" => ~cmd[t].time_killed /\ t \notin crashed
  /\ status[t] = "Timeout" => cmd[t].late
  /\ status[t] = "Canceled" => t \in killed \cup stopped \cup crashed
  /\ status[t] = "Failed" /\ ~misused => cmd[t].proc = "none"

\* A thread that makes a step of its command.  Unlock raises only if the mutex was
\* misused, which is why the automaton may then poll a process that was reaped.
LEMMA ThreadCommandInv ==
  ASSUME MonadTypeOK, CriticalSection, NEW t \in SyncThread,
         ThreadInv(t), ProcessInv(t), StatusOf(t),
         ~exited, UNCHANGED <<exited, misused, crashed>>,
         NEW coin \in {"Coin", "Kill"}, NEW next, NEW s,
         command(t, at[t], coin, next, s), Inside(t, next, s),
         killed \subseteq killed', coin = "Kill" => t \in killed'
  PROVE  ThreadInv(t)' /\ StatusOf(t)'
<1> /\ t \in Task /\ t \in Owner /\ t \in DOMAIN at /\ t \in DOMAIN status
    /\ t \in DOMAIN cmd /\ cmd[t] \in Command
  BY DEF MonadTypeOK, Task, Owner
<1>1. at[t] \in {"start", "poll"} /\ next \in {"start", "poll"} /\ status[t] = "none"
  BY CommandStepType DEF ThreadInv
<1>2. CASE s = "none"
  <2>1. at'[t] = next /\ status'[t] = "none"
    BY <1>1, <1>2 DEF Inside
  <2>2. CASE at[t] = "start"
    <3>1. cmd'[t] = start_command /\ next = "poll"
      BY <1>2, <2>2 DEF command
    <3>2. t \notin crashed'
      BY <2>2 DEF ThreadInv
    <3> QED
      BY <2>1, <3>1, <3>2, StartFields DEF ThreadInv, StatusOf
  <2>3. CASE at[t] = "poll"
    <3>1. cmd'[t] = ping_command(cmd[t], coin)[1] /\ next = "poll"
          /\ ping_command(cmd[t], coin)[2] = "none"
      BY <1>2, <2>3 DEF command
    <3>2. cmd[t].proc \in {"running", "left"}
      BY <3>1, PingStatus
    <3>3. /\ cmd'[t].proc = cmd[t].proc
          /\ cmd'[t].time_killed = (cmd[t].time_killed \/ (coin = "Coin" /\ cmd[t].late))
          /\ cmd'[t].sigkill = (cmd[t].sigkill \/ coin = "Kill" \/ cmd[t].late)
      BY <3>1, <3>2, PingWaits
    <3> QED
      BY <2>1, <2>3, <3>1, <3>2, <3>3 DEF ThreadInv, StatusOf, Command
  <2> QED
    BY <1>1, <2>2, <2>3
<1>3. CASE s # "none" /\ ~mutex
  <2>1. misused /\ at'[t] = at[t] /\ status'[t] = status[t]
    BY <1>1, <1>3 DEF CriticalSection, Holds, Inside, Unlock
  <2>2. CASE at[t] = "start"
    BY <1>1, <1>3, <2>1, <2>2 DEF command, ThreadInv, StatusOf
  <2>3. CASE at[t] = "poll"
    <3>1. cmd'[t] = ping_command(cmd[t], coin)[1]
          /\ ping_command(cmd[t], coin)[2] # "none"
      BY <1>3, <2>3 DEF command
    <3>2. cmd[t].proc \notin {"running", "left"}
      BY <3>1, PingStatus
    <3>3. /\ cmd'[t].proc \in {"left", "reaped"}
          /\ cmd[t].proc # "stopped" => cmd'[t].proc = "reaped"
          /\ cmd'[t].time_killed = cmd[t].time_killed /\ cmd'[t].sigkill = cmd[t].sigkill
      <4>1. CASE cmd[t].proc = "reaped"
        BY <3>1, <4>1, PingReaped
      <4>2. CASE cmd[t].proc # "reaped"
        <5> DEFINE d == ping_command(cmd[t], coin)[1]
        <5>1. /\ d.proc = (IF cmd[t].proc = "stopped" THEN "left" ELSE "reaped")
              /\ d.time_killed = cmd[t].time_killed /\ d.sigkill = cmd[t].sigkill
          BY <3>2, <4>2, PingEnds
        <5> QED
          BY <3>1, <5>1
      <4> QED
        BY <4>1, <4>2
    <3> QED
      BY <1>1, <2>1, <2>3, <3>3 DEF ThreadInv, StatusOf
  <2> QED
    BY <1>1, <2>2, <2>3
<1>4. CASE s # "none" /\ mutex
  <2>1. at'[t] = "done" /\ status'[t] = s
    BY <1>4 DEF Inside, Unlock
  <2>2. CASE at[t] = "start"
    BY <1>1, <1>4, <2>1, <2>2 DEF command, ThreadInv, StatusOf
  <2>3. CASE at[t] = "poll"
    <3>1. /\ cmd'[t] = ping_command(cmd[t], coin)[1]
          /\ ping_command(cmd[t], coin)[2] = s
          /\ stopped' = IF cmd[t].proc = "stopped" THEN stopped \cup {t} ELSE stopped
      BY <1>4, <2>3 DEF command
    <3>2. CASE cmd[t].proc = "reaped"
      <4>1. cmd'[t] = cmd[t] /\ s = "Failed"
        BY <3>1, <3>2, PingReaped
      <4> QED
        BY <2>1, <2>3, <3>1, <3>2, <4>1 DEF ThreadInv, StatusOf
    <3>3. CASE cmd[t].proc # "reaped"
      <4>1. cmd[t].proc \in {"exited", "signaled", "stopped"} /\ s = Ended(cmd[t])
        <5>1. cmd[t].proc \notin {"running", "left", "reaped"}
          BY <1>4, <3>1, <3>3, PingStatus
        <5>2. cmd[t].proc # "none"
          BY <2>3 DEF ThreadInv
        <5> QED
          BY <3>1, <5>1, <5>2, PingEnds DEF Command
      <4>2. /\ cmd'[t].time_killed = cmd[t].time_killed /\ cmd'[t].late = cmd[t].late
            /\ cmd'[t].sigkill = cmd[t].sigkill
            /\ cmd'[t].proc = (IF cmd[t].proc = "stopped" THEN "left" ELSE "reaped")
        <5> DEFINE d == ping_command(cmd[t], coin)[1]
        <5>1. cmd[t].proc \notin {"running", "left", "reaped"}
          BY <4>1
        <5>2. /\ d.time_killed = cmd[t].time_killed /\ d.late = cmd[t].late
              /\ d.sigkill = cmd[t].sigkill
              /\ d.proc = (IF cmd[t].proc = "stopped" THEN "left" ELSE "reaped")
          BY <5>1, PingEnds
        <5> QED
          BY <3>1, <5>2
      <4>3. s = "Canceled" => t \in killed' \cup stopped' \cup crashed'
        BY <3>1, <4>1 DEF Ended, ProcessInv, ThreadInv
      <4>4. /\ t \in crashed' => cmd[t].proc = "signaled" /\ cmd'[t].proc = "reaped"
            /\ s = "Result" => cmd[t].proc = "exited" /\ cmd'[t].proc = "reaped"
        BY <4>1, <4>2 DEF ThreadInv, Ended
      <4>5. StatusOf(t)'
        BY <2>1, <4>1, <4>2, <4>3, <4>4 DEF Ended, StatusOf, ProcessInv
      <4> QED
        BY <2>1, <2>3, <4>1, <4>2, <4>4, <4>5 DEF ThreadInv
    <3> QED
      BY <3>2, <3>3
  <2> QED
    BY <1>1, <2>2, <2>3
<1> QED
  BY <1>2, <1>3, <1>4 DEF MonadTypeOK

LEMMA StatusSplit == StatusTrue <=> \A t \in SyncThread : StatusOf(t)
BY DEF StatusTrue, StatusOf

\* What the step of another actor leaves of a thread.
LEMMA ThreadKept ==
  ASSUME NEW t \in SyncThread, ThreadInv(t), StatusOf(t),
         at'[t] = at[t], status'[t] = status[t], cmd'[t] = cmd[t],
         UNCHANGED exited, misused => misused', (t \in crashed') = (t \in crashed),
         t \in killed => t \in killed', t \in stopped => t \in stopped'
  PROVE  ThreadInv(t)' /\ StatusOf(t)'
BY DEF ThreadInv, StatusOf

LEMMA ProcessKept ==
  ASSUME NEW o \in Owner, ProcessInv(o), cmd'[o] = cmd[o], UNCHANGED exited,
         (o \in stopped') = (o \in stopped), (o \in crashed') = (o \in crashed)
  PROVE  ProcessInv(o)'
BY DEF ProcessInv

LEMMA CommandSync ==
  ASSUME MonadTypeOK, CriticalSection, CommandInv, NEW t \in SyncThread, SyncStep(t)
  PROVE  CommandInv'
<1> /\ t \in Task /\ t \in Owner /\ SyncThread \subseteq Task /\ SyncThread \subseteq Owner
    /\ t \in DOMAIN at /\ t \in DOMAIN status
  BY DEF MonadTypeOK, Task, Owner
<1>0. ThreadInv(t) /\ ProcessInv(t) /\ StatusOf(t)
  BY StatusSplit DEF CommandInv
<1>1. ASSUME misused => misused', ThreadInv(t)', StatusOf(t)', ProcessInv(t)'
      PROVE  CommandInv'
  <2>1. \A o \in Owner : ProcessInv(o)'
    <3> SUFFICES ASSUME NEW o \in Owner, o # t PROVE ProcessInv(o)'
      BY <1>1
    <3> QED
      BY SyncLeaves, ProcessKept DEF CommandInv
  <2>2. \A u \in SyncThread : ThreadInv(u)' /\ StatusOf(u)'
    <3> SUFFICES ASSUME NEW u \in SyncThread, u # t PROVE ThreadInv(u)' /\ StatusOf(u)'
      BY <1>1
    <3>1. ThreadInv(u) /\ StatusOf(u)
      BY StatusSplit DEF CommandInv
    <3>2. /\ at'[u] = at[u] /\ status'[u] = status[u] /\ cmd'[u] = cmd[u]
          /\ (u \in killed') = (u \in killed) /\ (u \in stopped') = (u \in stopped)
          /\ UNCHANGED <<exited, crashed>>
      BY SyncLeaves
    <3> QED
      BY <1>1, <3>1, <3>2, ThreadKept
  <2>3. StatusTrue'
    BY <2>2 DEF StatusTrue, StatusOf
  <2> QED
    BY <2>1, <2>2, <2>3 DEF CommandInv
<1>2. CASE Sync(t)
  BY <1>0, <1>1, <1>2 DEF Sync, Lock, ThreadInv, StatusOf, ProcessInv
<1>3. CASE SyncRaises(t)
  BY <1>0, <1>1, <1>3 DEF SyncRaises, ThreadInv, StatusOf, ProcessInv
<1>4. ASSUME NEW coin \in {"Coin", "Kill"}, NEW next, NEW s,
             command(t, at[t], coin, next, s), Inside(t, next, s),
             ~exited, UNCHANGED <<exited, misused, crashed>>,
             killed \subseteq killed', coin = "Kill" => t \in killed'
      PROVE  CommandInv'
  <2>1. ProcessInv(t)'
    BY <1>0, <1>4, CommandStepInv
  <2>2. ThreadInv(t)' /\ StatusOf(t)'
    BY <1>0, <1>4, ThreadCommandInv
  <2> QED
    BY <1>1, <1>4, <2>1, <2>2
<1>5. CASE Progress(t)
  <2>1. ~exited /\ UNCHANGED <<exited, misused, killed, crashed>>
    BY <1>5, ProgressCases
  <2>2. CASE at[t] = "lock" /\ Lock(t) /\ UNCHANGED <<status, cmd, raised, stopped>>
    BY <1>0, <1>1, <2>1, <2>2 DEF Lock, ThreadInv, StatusOf, ProcessInv
  <2>3. CASE \E next, s : command(t, at[t], "Coin", next, s) /\ Inside(t, next, s)
    BY <1>4, <2>1, <2>3
  <2> QED
    BY <1>5, <2>2, <2>3, ProgressCases
<1>6. CASE CancelSync(t)
  <2>1. ~exited /\ UNCHANGED <<exited, crashed>> /\ killed' = killed \cup {t}
    BY <1>6, CancelCases, Zenon
  <2>2. CASE at[t] = "lock" /\ Unlock(t, "Canceled") /\ misused' = TRUE
             /\ UNCHANGED <<cmd, stopped>>
    <3>1. ProcessInv(t)'
      BY <1>0, <2>1, <2>2 DEF ProcessInv
    <3>2. \/ at'[t] = "done" /\ status'[t] = "Canceled"
          \/ at'[t] = at[t] /\ status'[t] = status[t]
      BY <2>2 DEF Unlock
    <3>3. t \in killed'
      BY <2>1
    <3>4. ThreadInv(t)' /\ StatusOf(t)'
      BY <1>0, <2>1, <2>2, <3>2, <3>3 DEF ThreadInv, StatusOf
    <3> QED
      BY <1>1, <2>2, <3>1, <3>4
  <2>3. CASE UNCHANGED misused
             /\ \E next, s : command(t, at[t], "Kill", next, s) /\ Inside(t, next, s)
    <3>1. killed \subseteq killed' /\ t \in killed'
      BY <2>1
    <3> QED
      BY <1>4, <2>1, <2>3, <3>1
  <2> QED
    BY <1>6, <2>2, <2>3, CancelCases, Zenon
<1> QED
  BY <1>2, <1>3, <1>5, <1>6 DEF SyncStep

\* The clients make steps of the command of the instance only.
LEMMA CommandShare ==
  ASSUME MonadTypeOK, CommandInv, NEW c \in Client, ShareStep(c)
  PROVE  CommandInv'
<1> Instance \in Owner /\ SyncThread \subseteq Owner
  BY DEF Owner
<1>1. ~exited /\ UNCHANGED <<exited, misused, crashed>>
  BY DEF ShareStep, Share, ClientPolls, ClientCancelled
<1>2. ASSUME NEW coin \in {"Coin", "Kill"}, InstanceStep(coin) PROVE ProcessInv(Instance)'
  <2>1. CASE UNCHANGED <<cmd, stopped>>
    BY <1>1, <2>1 DEF CommandInv, ProcessInv
  <2>2. ASSUME NEW next, NEW s, command(Instance, shared.at, coin, next, s)
        PROVE  ProcessInv(Instance)'
    BY <1>1, <1>2, <2>2, CommandStepInv DEF CommandInv
  <2> QED
    BY <1>2, <2>1, <2>2, InstanceCases
<1>3. ProcessInv(Instance)'
  <2>1. ASSUME UNCHANGED <<cmd, stopped>> PROVE ProcessInv(Instance)'
    BY <1>1, <2>1 DEF CommandInv, ProcessInv
  <2> QED
    BY <1>2, <2>1
    DEF ShareStep, Share, ClientPolls, PingCoin, ClientCancelled, PingKill
<1>4. \A t \in SyncThread : ThreadInv(t)' /\ StatusOf(t)' /\ ProcessInv(t)'
  <2> SUFFICES ASSUME NEW t \in SyncThread
               PROVE  ThreadInv(t)' /\ StatusOf(t)' /\ ProcessInv(t)'
    OBVIOUS
  <2>1. ThreadInv(t) /\ StatusOf(t) /\ ProcessInv(t)
    BY StatusSplit DEF CommandInv
  <2>2. /\ UNCHANGED <<misused, exited, crashed>>
        /\ at'[t] = at[t] /\ status'[t] = status[t] /\ cmd'[t] = cmd[t]
        /\ (t \in stopped') = (t \in stopped) /\ (t \in killed') = (t \in killed)
    BY ShareLeaves
  <2>3. ThreadInv(t)' /\ StatusOf(t)'
    BY <2>1, <2>2, ThreadKept
  <2>4. ProcessInv(t)'
    BY <2>1, <2>2, ProcessKept
  <2> QED
    BY <2>3, <2>4
<1> QED
  BY <1>3, <1>4 DEF CommandInv, StatusTrue, StatusOf, Owner

LEMMA CommandProcess ==
  ASSUME MonadTypeOK, CommandInv, NEW o \in Owner, ProcessStep(o)
  PROVE  CommandInv'
<1>1. UNCHANGED <<at, status, exited, killed, misused, stopped>>
  BY DEF ProcessStep, Outside
<1>2. \A p \in Owner : ProcessInv(p)'
  <2> SUFFICES ASSUME NEW p \in Owner, p # o PROVE ProcessInv(p)'
    BY ProcessStepInv DEF CommandInv
  <2>1. cmd'[p] = cmd[p] /\ (p \in crashed') = (p \in crashed)
    BY ProcessStepInv DEF CommandInv
  <2> QED
    BY <1>1, <2>1, ProcessKept DEF CommandInv
<1>3. \A t \in SyncThread : ThreadInv(t)' /\ StatusOf(t)'
  <2> SUFFICES ASSUME NEW t \in SyncThread PROVE ThreadInv(t)' /\ StatusOf(t)'
    OBVIOUS
  <2>1. ThreadInv(t) /\ StatusOf(t) /\ t \in Owner
    BY StatusSplit DEF CommandInv, Owner
  <2>2. CASE t # o
    <3>1. cmd'[t] = cmd[t] /\ (t \in crashed') = (t \in crashed)
      BY <2>1, <2>2, ProcessStepInv DEF CommandInv
    <3> QED
      BY <1>1, <2>1, <3>1, ThreadKept
  <2>3. CASE t = o
    <3>1. /\ t \in crashed => t \in crashed'
          /\ \/ (t \in crashed') = (t \in crashed)
             \/ cmd[t].proc \in {"running", "stopped", "left"} /\ cmd'[t].proc = "signaled"
          /\ cmd[t].proc = "signaled" => cmd'[t].proc = "signaled"
          /\ cmd'[t].sigkill = cmd[t].sigkill
          /\ cmd'[t].time_killed = cmd[t].time_killed
          /\ cmd[t].late => cmd'[t].late
          /\ cmd[t].proc \in {"none", "reaped"} => cmd'[t].proc = cmd[t].proc
          /\ cmd'[t].proc \in {"none", "reaped", "left"} => cmd'[t].proc = cmd[t].proc
      BY <2>1, <2>3, ProcessStepInv DEF CommandInv
    <3> QED
      BY <1>1, <2>1, <3>1 DEF ThreadInv, StatusOf
  <2> QED
    BY <2>2, <2>3
<1> QED
  BY <1>2, <1>3 DEF CommandInv, StatusTrue, StatusOf

LEMMA CommandExit == MonadTypeOK /\ CommandInv /\ Exit => CommandInv'
<1> SUFFICES ASSUME MonadTypeOK, CommandInv, Exit PROVE CommandInv'
  OBVIOUS
<1>1. exited' /\ UNCHANGED <<at, status, killed, misused, stopped, crashed>>
  BY DEF Exit
<1>2. \A o \in Owner :
        cmd'[o] = IF cmd[o].at_exit THEN [cmd[o] EXCEPT !.proc = "reaped"] ELSE cmd[o]
  BY DEF Exit
<1>3. \A o \in Owner : cmd[o] \in Command
  BY DEF MonadTypeOK
<1>4. ASSUME NEW o \in Owner PROVE ProcessInv(o)'
  <2>1. CASE cmd[o].at_exit
    <3>1. /\ cmd'[o].proc = "reaped" /\ cmd'[o].late = cmd[o].late
          /\ cmd'[o].time_killed = cmd[o].time_killed
      BY <1>2, <1>3, <2>1, Zenon DEF Command
    <3> QED
      BY <1>1, <3>1 DEF CommandInv, ProcessInv
  <2>2. CASE ~cmd[o].at_exit
    BY <1>1, <1>2, <2>2, Zenon DEF CommandInv, ProcessInv
  <2> QED
    BY <2>1, <2>2
<1>5. \A t \in SyncThread : ThreadInv(t)' /\ StatusOf(t)'
  <2> SUFFICES ASSUME NEW t \in SyncThread PROVE ThreadInv(t)' /\ StatusOf(t)'
    OBVIOUS
  <2>1. ThreadInv(t) /\ StatusOf(t) /\ ProcessInv(t) /\ t \in Owner
    BY StatusSplit DEF CommandInv, Owner
  <2> QED
    BY <1>1, <1>2, <1>3, <2>1, Zenon DEF ThreadInv, StatusOf, ProcessInv, Command
<1> QED
  BY <1>4, <1>5 DEF CommandInv, StatusTrue, StatusOf

LEMMA CommandNext ==
  MonadTypeOK /\ CriticalSection /\ CommandInv /\ [MonadNext]_monad => CommandInv'
<1> SUFFICES ASSUME MonadTypeOK, CriticalSection, CommandInv, [MonadNext]_monad
             PROVE  CommandInv'
  OBVIOUS
<1>1. CASE UNCHANGED monad
  BY <1>1 DEF monad, CommandInv, ProcessInv, ThreadInv, StatusTrue
<1>2. CASE MonadNext
  BY <1>2, CommandSync, CommandShare, CommandProcess, CommandExit DEF MonadNext
<1> QED
  BY <1>1, <1>2

LEMMA CommandInit == MonadInit => CommandInv
<1> SUFFICES ASSUME MonadInit PROVE CommandInv
  OBVIOUS
<1>1. \A o \in Owner : /\ cmd[o].proc = "none" /\ ~cmd[o].time_killed
                       /\ ~cmd[o].at_exit /\ ~cmd[o].sigkill
  BY DEF MonadInit, NoCommand
<1>2. \A t \in SyncThread : /\ at[t] = "new" /\ status[t] = "none" /\ t \in Owner
                            /\ t \notin crashed
  BY DEF MonadInit, Task, Owner
<1> QED
  BY <1>1, <1>2 DEF CommandInv, ProcessInv, ThreadInv, StatusTrue

\* The status of a command tells how its process ended, and the jobs at exit leave
\* no process but those that were seen stopped (ping_command, command_generic).
THEOREM CommandsAreTrue == MonadSpec => []CommandsTrue
<1>1. MonadTypeOK /\ CommandInv => CommandsTrue
  BY DEF CommandInv, ProcessInv, CommandsTrue, NoProcessLeft
<1> QED
  BY <1>1, CommandInit, MonadTypeCorrect, MutexIsExclusive, CommandNext, PTL DEF MonadSpec

-----------------------------------------------------------------------------
(* The shared task.                                                        *)

\* The clients that wait and were not cancelled.
Waiting == {c \in Client : at[c] = "ping" /\ c \notin killed}

\* The process of the instance was killed by a cancellation, and it is not retried
\* yet.
KillPending ==
  \/ shared.at = "poll" /\ cmd[Instance].sigkill /\ ~cmd[Instance].time_killed
  \/ shared.at = "done" /\ shared.status = "Canceled"

\* Until a client comes while one that was cancelled still waits, the clients that
\* wait are counted, a cancelled client waits only when none is counted, and the
\* instance is killed only while it waits.
ClientsInv ==
  /\ \A c \in Client : at[c] = "new" => c \notin killed
  /\ ~crowded => Cardinality(Waiting) <= clients
  /\ ~crowded /\ Cancelling => clients = 0
  /\ ~crowded /\ Instance \notin stopped \cup crashed /\ KillPending => Cancelling
  /\ shared.at = "poll" => cmd[Instance].proc # "none"

LEMMA WaitingFinite == /\ IsFiniteSet(Waiting) /\ Cardinality(Waiting) \in Nat
                       /\ IsFiniteSet(Waiting') /\ Cardinality(Waiting') \in Nat
<1>1. Waiting \subseteq Client /\ Waiting' \subseteq Client
  BY DEF Waiting
<1> QED
  BY <1>1, TasksDiffer, FS_Subset, FS_CardinalityType

\* Once a cancelled client waits, all that wait were cancelled.
LEMMA CancellingAll ==
  ASSUME MonadTypeOK, ClientsInv, ~crowded, Cancelling
  PROVE  clients = 0 /\ \A c \in Client : at[c] = "ping" => c \in killed
<1>1. clients = 0 /\ Cardinality(Waiting) <= 0
  BY DEF ClientsInv
<1>2. Waiting = {}
  BY <1>1, WaitingFinite, FS_EmptySet
<1> QED
  BY <1>1, <1>2 DEF Waiting

\* Only a cancellation makes the process of the instance end with Canceled, unless
\* it is seen stopped or dies of a signal from elsewhere.
LEMMA PendingInstance ==
  ASSUME MonadTypeOK, CommandInv, ClientsInv,
         NEW coin \in {"Coin", "Kill"}, InstanceStep(coin), UNCHANGED crashed
  PROVE  /\ KillPending' => KillPending \/ coin = "Kill" \/ Instance \in stopped' \cup crashed
         /\ Instance \in stopped => Instance \in stopped'
         /\ shared'.at = "poll" => cmd'[Instance].proc # "none"
         /\ InstancesSucceed => InstancesSucceed'
<1> Instance \in Owner /\ cmd[Instance] \in Command /\ Instance \in DOMAIN cmd
  BY DEF Owner, MonadTypeOK
<1>0. ProcessInv(Instance)
  BY DEF CommandInv
<1>1. CASE shared.at = "todo" /\ UNCHANGED <<cmd, stopped>>
           /\ shared' = IF coin = "Coin" THEN [shared EXCEPT !.at = "start"]
                        ELSE [at |-> "done", status |-> "Canceled"]
  <2>1. coin = "Coin" => shared'.at = "start"
    BY <1>1 DEF MonadTypeOK
  <2>2. coin = "Kill" => shared'.at = "done"
    BY <1>1
  <2> QED
    BY <1>1, <2>1, <2>2 DEF KillPending, InstancesSucceed
<1>2. ASSUME NEW next, NEW s,
             command(Instance, shared.at, coin, next, s),
             shared' = [at |-> IF s = "none" THEN next ELSE "done", status |-> s]
      PROVE  /\ KillPending' => KillPending \/ coin = "Kill" \/ Instance \in stopped' \cup crashed
             /\ Instance \in stopped => Instance \in stopped'
             /\ shared'.at = "poll" => cmd'[Instance].proc # "none"
             /\ InstancesSucceed => InstancesSucceed'
  <2>0. shared'.at = (IF s = "none" THEN next ELSE "done") /\ shared'.status = s
    BY <1>2
  <2>1. CASE shared.at = "start" /\ UNCHANGED <<cmd, stopped>> /\ s \in {"Canceled", "Failed"}
             /\ (s = "Canceled" => coin = "Kill")
    BY <2>0, <2>1 DEF KillPending, InstancesSucceed
  <2>2. CASE shared.at = "start" /\ next = "poll" /\ s = "none"
             /\ cmd' = [cmd EXCEPT ![Instance] = start_command] /\ UNCHANGED stopped
    <3>1. cmd'[Instance] = start_command
      BY <2>2
    <3> QED
      BY <2>0, <2>2, <3>1, StartFields DEF KillPending, InstancesSucceed
  <2>3. CASE /\ shared.at = "poll" /\ next = "poll"
             /\ s = ping_command(cmd[Instance], coin)[2]
             /\ cmd' = [cmd EXCEPT ![Instance] = ping_command(cmd[Instance], coin)[1]]
             /\ stopped' = IF cmd[Instance].proc = "stopped" THEN stopped \cup {Instance}
                           ELSE stopped
    <3>1. cmd'[Instance] = ping_command(cmd[Instance], coin)[1]
      BY <2>3
    <3>2. cmd[Instance].proc # "none"
      BY <2>3 DEF ClientsInv
    <3>3. CASE s = "none"
      <4>1. cmd[Instance].proc \in {"running", "left"}
        BY <2>3, <3>3, PingStatus, Zenon
      <4>2. /\ cmd'[Instance].proc = cmd[Instance].proc
            /\ cmd'[Instance].time_killed =
                 (cmd[Instance].time_killed \/ (coin = "Coin" /\ cmd[Instance].late))
            /\ cmd'[Instance].sigkill =
                 (cmd[Instance].sigkill \/ coin = "Kill" \/ cmd[Instance].late)
        <5> DEFINE d == ping_command(cmd[Instance], coin)[1]
        <5>1. /\ d.proc = cmd[Instance].proc
              /\ d.time_killed =
                   (cmd[Instance].time_killed \/ (coin = "Coin" /\ cmd[Instance].late))
              /\ d.sigkill =
                   (cmd[Instance].sigkill \/ coin = "Kill" \/ cmd[Instance].late)
          BY <4>1, PingWaits
        <5> QED
          BY <3>1, <5>1
      <4> QED
        BY <2>0, <2>3, <3>3, <4>1, <4>2 DEF KillPending, InstancesSucceed, Command
    <3>4. CASE cmd[Instance].proc = "reaped"
      <4>1. cmd'[Instance] = cmd[Instance] /\ s = "Failed"
        BY <2>3, <3>1, <3>4, PingReaped
      <4> QED
        BY <2>0, <2>3, <3>4, <4>1 DEF KillPending, InstancesSucceed
    <3>5. CASE s # "none" /\ cmd[Instance].proc # "reaped"
      <4>1. /\ cmd[Instance].proc \in {"exited", "signaled", "stopped"}
            /\ s = Ended(cmd[Instance])
            /\ cmd'[Instance].proc =
                 (IF cmd[Instance].proc = "stopped" THEN "left" ELSE "reaped")
        <5>1. cmd[Instance].proc \notin {"running", "left", "reaped"}
          BY <2>3, <3>5, PingStatus
        <5> QED
          BY <2>3, <3>1, <3>2, <5>1, PingEnds DEF Command
      <4>2. s = "Canceled" /\ Instance \notin stopped' \cup crashed => KillPending
        BY <1>0, <2>3, <4>1 DEF Ended, KillPending, ProcessInv
      <4> QED
        BY <2>0, <2>3, <3>5, <4>1, <4>2 DEF KillPending, InstancesSucceed
    <3> QED
      BY <3>3, <3>4, <3>5
  <2> QED
    BY <1>2, <2>1, <2>2, <2>3 DEF command
<1>3. CASE Finished /\ UNCHANGED <<shared, cmd, stopped>>
  BY <1>3 DEF KillPending, InstancesSucceed, ClientsInv
<1> QED
  BY <1>1, <1>2, <1>3, InstanceCases

\* A step that leaves the clients and the instance alone, but for its process.
LEMMA ClientsKept ==
  ASSUME ClientsInv, SharedSound,
         UNCHANGED <<shared, clients, crowded>>, exited => exited',
         \A c \in Client : /\ at'[c] = at[c] /\ status'[c] = status[c]
                           /\ (c \in killed') = (c \in killed),
         (Instance \in stopped') = (Instance \in stopped),
         Instance \in crashed => Instance \in crashed',
         cmd'[Instance].sigkill = cmd[Instance].sigkill,
         cmd'[Instance].time_killed = cmd[Instance].time_killed,
         cmd[Instance].proc \in {"none", "reaped"} =>
           cmd'[Instance].proc \in {"none", "reaped"},
         cmd'[Instance].proc = "none" => cmd[Instance].proc = "none"
  PROVE  ClientsInv' /\ SharedSound'
<1>1. Waiting' = Waiting
  BY DEF Waiting
<1>2. KillPending' = KillPending
  BY DEF KillPending
<1>3. Cancelling' = Cancelling
  BY DEF Cancelling
<1>4. ClientsInv'
  BY <1>1, <1>2, <1>3 DEF ClientsInv
<1>5. SharedSound'
  BY DEF SharedSound, OthersNotCancelled, OrphansCounted, InstancesSucceed
<1> QED
  BY <1>4, <1>5

LEMMA SharedSync ==
  ASSUME MonadTypeOK, ClientsInv, SharedSound, NEW t \in SyncThread, SyncStep(t)
  PROVE  ClientsInv' /\ SharedSound'
<1>1. Instance \in Owner \ {t} /\ Client \subseteq Task \ {t}
  BY TasksDiffer DEF Owner, Task
<1> QED
  BY <1>1, SyncLeaves, ClientsKept

LEMMA SharedProcess ==
  ASSUME MonadTypeOK, CommandInv, ClientsInv, SharedSound, NEW o \in Owner, ProcessStep(o)
  PROVE  ClientsInv' /\ SharedSound'
<1>1. UNCHANGED <<at, status, shared, clients, exited, killed, stopped, crowded>>
  BY DEF ProcessStep, Outside
<1>2. Instance \in Owner /\ ProcessInv(o)
  BY DEF Owner, CommandInv
<1>3. /\ cmd'[Instance].sigkill = cmd[Instance].sigkill
      /\ cmd'[Instance].time_killed = cmd[Instance].time_killed
      /\ cmd[Instance].proc \in {"none", "reaped"} =>
           cmd'[Instance].proc \in {"none", "reaped"}
      /\ cmd'[Instance].proc = "none" => cmd[Instance].proc = "none"
      /\ Instance \in crashed => Instance \in crashed'
  BY <1>2, ProcessStepInv
<1> QED
  BY <1>1, <1>3, ClientsKept

LEMMA SharedExit ==
  ASSUME MonadTypeOK, CommandInv, ClientsInv, SharedSound, Exit
  PROVE  ClientsInv' /\ SharedSound'
<1> Instance \in Owner /\ cmd[Instance] \in Command
  BY DEF Owner, MonadTypeOK
<1>1. UNCHANGED <<at, status, shared, clients, killed, stopped, crowded, crashed>> /\ exited'
  BY DEF Exit
<1>2. cmd'[Instance] = IF cmd[Instance].at_exit THEN [cmd[Instance] EXCEPT !.proc = "reaped"]
                       ELSE cmd[Instance]
  BY DEF Exit
<1>3. /\ cmd'[Instance].sigkill = cmd[Instance].sigkill
      /\ cmd'[Instance].time_killed = cmd[Instance].time_killed
      /\ cmd[Instance].proc \in {"none", "reaped"} =>
           cmd'[Instance].proc \in {"none", "reaped"}
      /\ cmd'[Instance].proc = "none" => cmd[Instance].proc = "none"
  BY <1>2 DEF Command
<1> QED
  BY <1>1, <1>3, ClientsKept

\* A client comes.
LEMMA SharedShare ==
  ASSUME MonadTypeOK, ClientsInv, SharedSound, NEW c \in Client, Share(c)
  PROVE  ClientsInv' /\ SharedSound'
<1> c \in Task /\ c \in DOMAIN at /\ Client \subseteq Task
  BY DEF Task, MonadTypeOK
<1>1. /\ UNCHANGED <<status, cmd, shared, exited, killed, stopped, crashed>>
      /\ clients' = clients + 1 /\ crowded' = (crowded \/ Cancelling)
      /\ at[c] = "new" /\ at'[c] = "ping" /\ \A d \in Client \ {c} : at'[d] = at[d]
  BY DEF Share, MonadTypeOK
<1>2. c \notin killed
  BY <1>1 DEF ClientsInv
<1>3. ~crowded' => Cardinality(Waiting') <= clients'
  <2>1. Waiting' = Waiting \cup {c} /\ c \notin Waiting
    BY <1>1, <1>2 DEF Waiting
  <2>2. Cardinality(Waiting') = Cardinality(Waiting) + 1
    BY <2>1, WaitingFinite, FS_AddElement
  <2> QED
    BY <1>1, <2>2, WaitingFinite DEF ClientsInv, MonadTypeOK
<1>4. ~crowded' => ~Cancelling'
  BY <1>1, <1>2, Zenon DEF Cancelling
<1>5. KillPending' = KillPending
  BY <1>1 DEF KillPending
<1>6. ClientsInv'
  BY <1>1, <1>3, <1>4, <1>5, Zenon DEF ClientsInv, MonadTypeOK
<1>7. SharedSound'
  BY <1>1 DEF SharedSound, OthersNotCancelled, OrphansCounted, InstancesSucceed, MonadTypeOK
<1> QED
  BY <1>6, <1>7

\* A client that polls a finished instance ends with its status, and a status that
\* a cancellation gave is not left for another client.
LEMMA SharedEnds ==
  ASSUME MonadTypeOK, ClientsInv, SharedSound, NEW c \in Client, ClientPolls(c), Finished
  PROVE  ClientsInv' /\ SharedSound'
<1> c \in Task /\ Client \subseteq Task
  BY DEF Task
<1>1. /\ UNCHANGED <<clients, cmd, stopped, exited, killed, crowded, crashed>>
      /\ at[c] = "ping" /\ at'[c] = "done" /\ \A d \in Client \ {c} : at'[d] = at[d]
      /\ status'[c] = shared.status
      /\ \A d \in Client \ {c} : status'[d] = status[d]
      /\ shared' = IF retry_shared(shared.status)
                   THEN [at |-> "todo", status |-> "none"] ELSE shared
  BY DEF ClientPolls, PingCoin, ClientEnds, MonadTypeOK
<1>2. shared'.at \in {"todo", "done"} /\ ~KillPending'
  BY <1>1 DEF KillPending, Finished, retry_shared
<1>3. Cancelling' => Cancelling
  BY <1>1 DEF Cancelling
<1>4. Cardinality(Waiting') <= Cardinality(Waiting)
  <2>1. Waiting' \subseteq Waiting
    BY <1>1 DEF Waiting
  <2> QED
    BY <2>1, WaitingFinite, FS_Subset
<1>5. ~crowded' => Cardinality(Waiting') <= clients'
  <2>1. ~crowded => Cardinality(Waiting) <= clients
    BY DEF ClientsInv
  <2>2. clients \in Nat /\ clients' = clients /\ crowded' = crowded
    BY <1>1 DEF MonadTypeOK
  <2> QED
    BY <1>4, <2>1, <2>2, WaitingFinite
<1>6. ClientsInv'
  BY <1>1, <1>2, <1>3, <1>5 DEF ClientsInv
<1>7. shared.status = "Canceled" =>
        c \in killed \/ Instance \in stopped \cup crashed \/ crowded
  <2> SUFFICES ASSUME shared.status = "Canceled", Instance \notin stopped \cup crashed, ~crowded
               PROVE  c \in killed
    OBVIOUS
  <2>1. Cancelling
    BY DEF ClientsInv, KillPending, Finished
  <2> QED
    BY <1>1, <2>1, CancellingAll
<1>8. OthersNotCancelled'
  BY <1>1, <1>7 DEF SharedSound, OthersNotCancelled
<1>9. OrphansCounted' /\ InstancesSucceed'
  BY <1>1, <1>2 DEF SharedSound, OrphansCounted, InstancesSucceed, Finished
<1> QED
  BY <1>6, <1>8, <1>9 DEF SharedSound

\* A client gives its coin to the instance, and goes on polling.
LEMMA SharedPolls ==
  ASSUME MonadTypeOK, CommandInv, ClientsInv, SharedSound, NEW c \in Client,
         ClientPolls(c), ~Finished
  PROVE  ClientsInv' /\ SharedSound'
<1>1. /\ UNCHANGED <<at, status, clients, exited, killed, crowded, crashed>>
      /\ at[c] = "ping"
      /\ InstanceStep("Coin")
  BY DEF ClientPolls, PingCoin
<1>2. /\ KillPending' => KillPending \/ Instance \in stopped' \cup crashed
      /\ Instance \in stopped => Instance \in stopped'
      /\ shared'.at = "poll" => cmd'[Instance].proc # "none"
      /\ InstancesSucceed'
  BY <1>1, PendingInstance DEF SharedSound
<1>3. Waiting' = Waiting /\ Cancelling' = Cancelling
  BY <1>1 DEF Waiting, Cancelling
<1>4. ClientsInv'
  BY <1>1, <1>2, <1>3 DEF ClientsInv
<1>5. OthersNotCancelled' /\ OrphansCounted'
  BY <1>1, <1>2 DEF SharedSound, OthersNotCancelled, OrphansCounted
<1> QED
  BY <1>2, <1>4, <1>5 DEF SharedSound

\* A client is cancelled while others are counted, or before its first coin: it
\* ends.
LEMMA SharedLeft ==
  ASSUME MonadTypeOK, ClientsInv, SharedSound, NEW c \in Client, ClientCancelled(c),
         at[c] = "new" \/ clients > 1
  PROVE  ClientsInv' /\ SharedSound'
<1> c \in Task /\ Client \subseteq Task
  BY DEF Task
<1>1. /\ UNCHANGED <<shared, cmd, stopped, exited, crowded, crashed>>
      /\ killed' = killed \cup {c}
      /\ at'[c] = "done" /\ \A d \in Client \ {c} : at'[d] = at[d]
      /\ status'[c] = "Canceled" /\ \A d \in Client \ {c} : status'[d] = status[d]
      /\ \/ at[c] = "new" /\ clients' = clients
         \/ at[c] = "ping" /\ clients > 1 /\ clients' = clients - 1
  BY DEF ClientCancelled, PingKill, ClientEnds, MonadTypeOK
<1>2. c \in killed' /\ \A d \in Client \ {c} : (d \in killed') = (d \in killed)
  <2>1. killed' = killed \cup {c}
    BY <1>1
  <2> QED
    BY <2>1
<1>3. KillPending' = KillPending
  BY <1>1 DEF KillPending
<1>4. Cancelling' => Cancelling
  BY <1>1, <1>2 DEF Cancelling
<1>5. ~crowded /\ at[c] = "ping" => ~Cancelling
  <2>1. at[c] = "ping" => clients # 0
    BY <1>1
  <2> QED
    BY <2>1, CancellingAll
<1>6. ~crowded /\ Cancelling => Cancelling'
  BY <1>1, <1>2, <1>5 DEF Cancelling
<1>7. ~crowded' => Cardinality(Waiting') <= clients'
  <2>1. CASE at[c] = "new"
    <3>1. Waiting' = Waiting
      BY <1>1, <1>2, <2>1 DEF Waiting
    <3> QED
      BY <1>1, <2>1, <3>1 DEF ClientsInv
  <2>2. CASE at[c] = "ping" /\ ~crowded
    <3>1. c \in Waiting /\ Waiting' = Waiting \ {c}
      BY <1>1, <1>2, <1>5, <2>2 DEF Waiting, Cancelling
    <3>2. Cardinality(Waiting') = Cardinality(Waiting) - 1
      BY <3>1, WaitingFinite, FS_RemoveElement
    <3> QED
      <4>1. Cardinality(Waiting) <= clients
        BY <2>2 DEF ClientsInv
      <4>2. clients \in Nat /\ clients' = clients - 1
        BY <1>1, <2>2 DEF MonadTypeOK
      <4> QED
        BY <3>2, <4>1, <4>2, WaitingFinite
  <2> QED
    BY <1>1, <2>1, <2>2
<1>8. ~crowded' /\ Cancelling' => clients' = 0
  BY <1>1, <1>4, <1>5 DEF ClientsInv
<1>9. \A d \in Client : at'[d] = "new" => d \notin killed'
  BY <1>1, <1>2 DEF ClientsInv
<1>10. ClientsInv'
  BY <1>1, <1>3, <1>6, <1>7, <1>8, <1>9, Zenon DEF ClientsInv
<1>11. OthersNotCancelled'
  BY <1>1, <1>2 DEF SharedSound, OthersNotCancelled
<1>12. InstancesSucceed'
  BY <1>1 DEF SharedSound, InstancesSucceed
<1>13. OrphansCounted'
  <2>1. CASE at[c] = "new" /\ clients' = clients
    BY <1>1, <2>1 DEF SharedSound, OrphansCounted
  <2>2. CASE clients > 1 /\ clients' = clients - 1
    BY <2>2 DEF OrphansCounted, MonadTypeOK
  <2> QED
    BY <1>1, <2>1, <2>2
<1> QED
  BY <1>10, <1>11, <1>12, <1>13 DEF SharedSound

\* The only client that is counted is cancelled, and with it the instance; or one
\* that is not counted any more.
LEMMA SharedKilled ==
  ASSUME MonadTypeOK, CommandInv, ClientsInv, SharedSound, NEW c \in Client,
         ClientCancelled(c), at[c] # "new", ~(clients > 1)
  PROVE  ClientsInv' /\ SharedSound'
<1> c \in Task /\ Client \subseteq Task
  BY DEF Task
<1>1. /\ UNCHANGED <<at, status, exited, crowded, crashed>> /\ at[c] = "ping"
      /\ killed' = killed \cup {c} /\ clients' = 0
      /\ \/ clients = 1 /\ InstanceStep("Kill")
         \/ clients # 1 /\ UNCHANGED <<shared, cmd, stopped>>
  BY DEF ClientCancelled, PingKill
<1>2. c \in killed' /\ \A d \in Client \ {c} : (d \in killed') = (d \in killed)
  <2>1. killed' = killed \cup {c}
    BY <1>1
  <2> QED
    BY <2>1
<1>3. /\ Instance \in stopped => Instance \in stopped'
      /\ shared'.at = "poll" => cmd'[Instance].proc # "none"
      /\ InstancesSucceed'
  <2>1. CASE InstanceStep("Kill")
    BY <1>1, <2>1, PendingInstance DEF SharedSound
  <2>2. CASE UNCHANGED <<shared, cmd, stopped>>
    BY <2>2 DEF SharedSound, InstancesSucceed, ClientsInv
  <2> QED
    BY <1>1, <2>1, <2>2
<1>4. Cancelling'
  BY <1>1, <1>2 DEF Cancelling
<1>5. ~crowded => Cardinality(Waiting') = 0
  <2> SUFFICES ASSUME ~crowded
               PROVE  Cardinality(Waiting') = 0
    OBVIOUS
  <2>1. Waiting' = Waiting \ {c}
    BY <1>1, <1>2 DEF Waiting
  <2>2. CASE c \in Waiting
    <3>1. Cardinality(Waiting') = Cardinality(Waiting) - 1
      BY <2>1, <2>2, WaitingFinite, FS_RemoveElement
    <3> QED
      BY <3>1, WaitingFinite DEF ClientsInv, MonadTypeOK
  <2>3. CASE c \notin Waiting
    <3>1. Cancelling
      BY <1>1, <2>3 DEF Waiting, Cancelling
    <3>2. Waiting' = {}
      BY <2>1, <3>1, CancellingAll DEF Waiting
    <3> QED
      BY <3>2, FS_EmptySet
  <2> QED
    BY <2>2, <2>3
<1>6. \A d \in Client : at'[d] = "new" => d \notin killed'
  BY <1>1, <1>2 DEF ClientsInv
<1>7. ClientsInv'
  <2>1. ~crowded' => Cardinality(Waiting') <= clients'
    <3>1. crowded' = crowded /\ clients' = 0
      BY <1>1
    <3> QED
      BY <1>5, <3>1
  <2>2. clients' = 0
    BY <1>1
  <2> QED
    BY <1>3, <1>4, <1>6, <2>1, <2>2 DEF ClientsInv
<1>8. OthersNotCancelled' /\ OrphansCounted'
  BY <1>1, <1>2, <1>3 DEF SharedSound, OthersNotCancelled, OrphansCounted
<1> QED
  BY <1>3, <1>7, <1>8 DEF SharedSound

LEMMA SharedInit == MonadInit => ClientsInv /\ SharedSound
<1> SUFFICES ASSUME MonadInit PROVE ClientsInv /\ SharedSound
  OBVIOUS
<1>1. /\ \A c \in Client : at[c] = "new" /\ status[c] = "none"
      /\ shared.at = "todo" /\ clients = 0 /\ killed = {}
      /\ cmd[Instance] = NoCommand
  BY DEF MonadInit, Task, Owner
<1>2. Waiting = {} /\ ~Cancelling /\ ~KillPending
  BY <1>1 DEF Waiting, Cancelling, KillPending
<1>3. Cardinality(Waiting) <= clients
  BY <1>1, <1>2, FS_EmptySet
<1>4. ClientsInv
  BY <1>1, <1>2, <1>3 DEF ClientsInv
<1>5. SharedSound
  BY <1>1 DEF SharedSound, OthersNotCancelled, OrphansCounted, InstancesSucceed, NoCommand
<1> QED
  BY <1>4, <1>5

LEMMA SharedNext ==
  MonadTypeOK /\ CommandInv /\ ClientsInv /\ SharedSound /\ [MonadNext]_monad =>
    ClientsInv' /\ SharedSound'
<1> SUFFICES ASSUME MonadTypeOK, CommandInv, ClientsInv, SharedSound, [MonadNext]_monad
             PROVE  ClientsInv' /\ SharedSound'
  OBVIOUS
<1>1. ASSUME NEW t \in SyncThread, SyncStep(t) PROVE ClientsInv' /\ SharedSound'
  BY <1>1, SharedSync
<1>2. ASSUME NEW c \in Client, Share(c) PROVE ClientsInv' /\ SharedSound'
  BY <1>2, SharedShare
<1>3. ASSUME NEW c \in Client, ClientPolls(c) PROVE ClientsInv' /\ SharedSound'
  BY <1>3, SharedEnds, SharedPolls
<1>4. ASSUME NEW c \in Client, ClientCancelled(c) PROVE ClientsInv' /\ SharedSound'
  BY <1>4, SharedLeft, SharedKilled
<1>5. ASSUME NEW o \in Owner, ProcessStep(o) PROVE ClientsInv' /\ SharedSound'
  BY <1>5, SharedProcess
<1>6. CASE Exit
  BY <1>6, SharedExit
<1>7. CASE UNCHANGED monad
  BY <1>7, ClientsKept DEF monad
<1> QED
  BY <1>1, <1>2, <1>3, <1>4, <1>5, <1>6, <1>7 DEF MonadNext, ShareStep

\* The clients of a shared task are served apart from one another, by one process
\* at a time (share and ping_shared of task.ml): cancelling one cancels no other,
\* an instance that nobody polls has clients that ended and are still counted, and
\* the processes follow one another, for any number of clients.
THEOREM SharedTasksSound == MonadSpec => []SharedSound
<1>1. MonadInit => ClientsInv /\ SharedSound
  BY SharedInit
<1>2. MonadTypeOK /\ CommandInv /\ ClientsInv /\ SharedSound /\ [MonadNext]_monad =>
        ClientsInv' /\ SharedSound'
  BY SharedNext
<1> QED
  BY <1>1, <1>2, MonadTypeCorrect, MutexIsExclusive, CommandInit, CommandNext, PTL DEF MonadSpec
=============================================================================
