------------------------------ MODULE MCTasks -------------------------------
(***************************************************************************)
(* The two parts of task.ml in one state space; `model' tells which of     *)
(* them moves: the task server ("server"), the threads under a mutex       *)
(* ("mutex") or the clients of a shared task ("shared").                   *)
(***************************************************************************)
EXTENDS TaskServer, TaskMonad

VARIABLE model

server == vars

UnionInit ==
  /\ model \in {"server", "mutex", "shared"}
  /\ Init
  /\ MonadInit

UnionNext ==
  /\ \/ /\ model = "server"
        /\ Next
        /\ UNCHANGED monad
     \/ /\ model = "mutex"
        /\ \/ \E t \in SyncThread : SyncStep(t) \/ ProcessStep(t)
           \/ Exit
        /\ UNCHANGED server
     \/ /\ model = "shared"
        /\ \/ \E c \in Client : ShareStep(c)
           \/ ProcessStep(Instance)
           \/ Exit
        /\ UNCHANGED server
  /\ UNCHANGED model

\* The fairness of each part, in its own behaviours.  The OCaml code of
\* run_server goes on, and timeouts fire, events do not starve them; the server
\* polls the threads, time passes and the system delivers SIGKILL.  A process
\* need not end by itself.
UnionFairness ==
  /\ WF_server(model = "server" /\ RunStep)
  /\ \A src \in Source : SF_server(model = "server" /\ Poll(src) /\ frames = <<>>)
  /\ \A t \in SyncThread : WF_monad(model = "mutex" /\ Progress(t))
  /\ \A c \in Client : WF_monad(model = "shared" /\ ClientPolls(c))
  /\ \A t \in SyncThread : WF_monad(model = "mutex" /\ KilledInTime(t))
  /\ WF_monad(model = "shared" /\ KilledInTime(Instance))

UnionSpec ==
  UnionInit /\ [][UnionNext]_<<server, monad, model>> /\ UnionFairness

-----------------------------------------------------------------------------
\* Under a timeout every task that was started ends, whatever the locks,
\* cancellations and retries, for ping_command kills a process whose time is over:
\* as a task is started once, there comes a time when none is in progress.
CommandsEnd ==
  <>[](\/ exited
       \/ model = "server"
       \/ model = "mutex" /\ misused
       \/ \A t \in Task : at[t] \in {"new", "done"})

=============================================================================
