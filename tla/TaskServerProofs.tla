-------------------------- MODULE TaskServerProofs --------------------------
(***************************************************************************)
(* Proofs about the task server, for any number of threads, stages,        *)
(* timeouts and nested calls of run_server.                                *)
(***************************************************************************)
EXTENDS TaskServer, SeqLemmas, FiniteSetTheorems

(* A call of run_server is in the code of a task exactly when it holds a    *)
(* thread.  With it ProgressIsExclusive is inductive.                       *)
TaskHoldsThread ==
  \A i \in DOMAIN frames : frames[i].thread # None <=> frames[i].pc = "task"

(* The innermost call.                                                      *)
LEMMA TopType ==
  ASSUME frames \in Seq(Frame), frames # <<>>
  PROVE  /\ Top \in Frame
         /\ Top = frames[Len(frames)]
         /\ Len(frames) \in Nat \ {0}
         /\ DOMAIN frames = 1..Len(frames)
<1>1. Len(frames) \in Nat \ {0} /\ DOMAIN frames = 1..Len(frames)
  BY EmptySeq, LenProperties
<1>2. Top = frames[Len(frames)]
  BY DEF Top
<1> QED
  BY <1>1, <1>2, ElementOfSeq

(* The return of the innermost call.                                        *)
LEMMA PopFrame ==
  ASSUME frames \in Seq(Frame), frames # <<>>, frames' = Outer
  PROVE  /\ frames' \in Seq(Frame)
         /\ Len(frames') = Len(frames) - 1
         /\ DOMAIN frames' = 1..(Len(frames) - 1)
         /\ \A i \in 1..(Len(frames) - 1) : frames'[i] = frames[i]
<1>1. Len(frames) - 1 \in 0..Len(frames)
  BY TopType
<1>2. /\ frames' \in Seq(Frame)
      /\ Len(frames') = Len(frames) - 1
      /\ \A i \in 1..(Len(frames) - 1) : frames'[i] = frames[i]
  BY <1>1, PrefixProperties, Zenon DEF Outer
<1> QED
  BY <1>2, LenProperties

(* A step of the innermost call.                                            *)
LEMMA GotoFrame ==
  ASSUME frames \in Seq(Frame), frames # <<>>, NEW f \in Frame, Goto(f)
  PROVE  /\ frames' \in Seq(Frame)
         /\ DOMAIN frames' = 1..Len(frames)
         /\ frames'[Len(frames)] = f
         /\ \A i \in 1..(Len(frames) - 1) : frames'[i] = frames[i]
<1>1. Len(frames) - 1 \in 0..Len(frames) /\ Len(frames) \in Nat \ {0}
  BY TopType
<1>2. /\ Outer \in Seq(Frame)
      /\ Len(Outer) = Len(frames) - 1
      /\ \A i \in 1..(Len(frames) - 1) : Outer[i] = frames[i]
  BY <1>1, PrefixProperties, Zenon DEF Outer
<1>3. frames' = Append(Outer, f)
  BY DEF Goto
<1>4. /\ frames' \in Seq(Frame)
      /\ Len(frames') = Len(frames)
      /\ frames'[Len(frames)] = f
      /\ \A i \in 1..(Len(frames) - 1) : frames'[i] = Outer[i]
  BY <1>1, <1>2, <1>3, AppendProperties
<1> QED
  BY <1>2, <1>4, LenProperties

(* The first and the other elements of a list that is not empty.            *)
LEMMA HeadTailType ==
  ASSUME NEW s \in Seq(Thread), s # <<>>
  PROVE  Head(s) \in Thread /\ Tail(s) \in Seq(Thread)
  BY HeadTailProperties

LEMMA EntryType ==
  ASSUME TypeOK, NEW src \in Source
  PROVE  Entry(src) \in Frame
<1>1. <<>> \in Seq(Thread)
  BY EmptySeq
<1>2. 0 \in 0..(Stages + 1)
  BY TaskServerAssumption DEF TaskServerAssumption
<1> QED
  BY <1>1, <1>2 DEF Entry, Frame, TypeOK

LEMMA TypeInit == Init => TypeOK
<1> SUFFICES ASSUME Init PROVE TypeOK
  OBVIOUS
<1>1. <<>> \in Seq(Thread) /\ <<>> \in Seq(Frame)
  BY EmptySeq
<1>2. MaxProcs \in 1..MaxProcs
  BY TaskServerAssumption DEF TaskServerAssumption
<1> QED
  BY <1>1, <1>2, Zenon DEF Init, TypeOK

(* What a call of progress that returned changes keeps its type.            *)
LEMMA ProgressedType ==
  ASSUME TypeOK, frames # <<>>, NEW f \in Frame, NEW t \in Thread,
         NEW b \in BOOLEAN, Progressed(f, t, b)
  PROVE  /\ frames' \in Seq(Frame)
         /\ running' \in Seq(Thread)
         /\ terminated' \in Nat
<1> DEFINE g == [f EXCEPT !.pc = IF f.stage = 0 THEN "filter" ELSE "schedule",
                          !.kept = IF f.stage = 0 /\ b THEN Append(@, t) ELSE @,
                          !.thread = None]
<1>1. f.kept \in Seq(Thread) /\ Append(f.kept, t) \in Seq(Thread)
  BY AppendProperties DEF Frame
<1>2. g \in Frame
  BY <1>1, Zenon DEF Frame
<1>3. Goto(g)
  BY DEF Progressed
<1>4. frames' \in Seq(Frame)
  BY <1>2, <1>3, GotoFrame DEF TypeOK
<1>5. <<t>> \o running \in Seq(Thread)
  BY ConcatProperties, SeqDef DEF TypeOK
<1>6. running' \in Seq(Thread)
  BY <1>5 DEF Progressed, TypeOK
<1>7. terminated' \in Nat
  BY DEF Progressed, TypeOK
<1> QED
  BY <1>4, <1>6, <1>7

LEMMA StartType ==
  ASSUME TypeOK, frames # <<>>, NEW f \in Frame, NEW t \in Thread, Start(f, t)
  PROVE  /\ frames' \in Seq(Frame)
         /\ running' \in Seq(Thread)
         /\ terminated' \in Nat
         /\ lock' \subseteq Thread
<1>1. CASE t \in lock \/ task[t] = "done"
  <2>1. Progressed(f, t, t \in lock) /\ lock' = lock
    BY <1>1 DEF Start
  <2>2. (t \in lock) \in BOOLEAN
    OBVIOUS
  <2> QED
    BY <2>1, <2>2, ProgressedType, Zenon DEF TypeOK
<1>2. CASE ~(t \in lock \/ task[t] = "done")
  <2>1. [f EXCEPT !.pc = "task", !.thread = t] \in Frame
    BY Zenon DEF Frame
  <2>2. /\ Goto([f EXCEPT !.pc = "task", !.thread = t])
        /\ lock' = lock \cup {t}
        /\ running' = running
        /\ terminated' = terminated
    BY <1>2 DEF Start
  <2> QED
    BY <2>1, <2>2, GotoFrame DEF TypeOK
<1> QED
  BY <1>1, <1>2

(* cancel and cancel_all leave automata that wait or are done.              *)
LEMMA CancelType ==
  ASSUME TypeOK, NEW S, CancelThreads(S)
  PROVE  task' \in [Thread -> {"new", "waiting", "done"}]
  BY DEF CancelThreads, TypeOK

LEMMA EnqueueType ==
  ASSUME TypeOK, NEW t \in Thread, NEW i \in Stage, Enqueue(t, i)
  PROVE  /\ task' \in [Thread -> {"new", "waiting", "done"}]
         /\ queue' \in [Stage -> Seq(Thread)]
         /\ scheduled' \in Nat
         /\ waiting' \in BOOLEAN
<1>1. Append(queue[i], t) \in Seq(Thread)
  BY AppendProperties DEF TypeOK
<1>2. queue' \in [Stage -> Seq(Thread)]
  BY <1>1 DEF Enqueue, TypeOK
<1>3. task' \in [Thread -> {"new", "waiting", "done"}]
  BY DEF Enqueue, TypeOK
<1>4. scheduled' \in Nat
  BY DEF Enqueue, TypeOK
<1>5. waiting' \in BOOLEAN
  BY Zenon DEF Enqueue
<1> QED
  BY <1>2, <1>3, <1>4, <1>5

(* Every operation on the server and every step of run_server keeps the     *)
(* state well typed.                                                        *)
LEMMA TypeNext == TypeOK /\ [Next]_vars => TypeOK'
<1> SUFFICES ASSUME TypeOK, [Next]_vars PROVE TypeOK'
  OBVIOUS
<1>0. frames \in Seq(Frame)
  BY DEF TypeOK
<1>1. ASSUME NEW t \in Thread, Cancel(t) PROVE TypeOK'
  BY <1>1, CancelType DEF Cancel, TypeOK
<1>2. ASSUME NEW t \in Thread, NEW i \in Stage, Spawn(t, i) PROVE TypeOK'
  BY <1>2, EnqueueType DEF Spawn, TypeOK
<1>3. ASSUME NEW t \in Thread, NEW i \in Stage, Click(t, i) PROVE TypeOK'
  <2>1. sources' \subseteq Source
    BY <1>3 DEF Click, Launch, TypeOK
  <2> QED
    BY <1>3, <2>1, EnqueueType DEF Click, TypeOK
<1>4. CASE CancelAll
  BY <1>4, CancelType DEF CancelAll, TypeOK
<1>5. ASSUME NEW n \in 1..MaxProcs, SetProcs(n) PROVE TypeOK'
  BY <1>5 DEF SetProcs, TypeOK
<1>6. ASSUME NEW src \in Source, Poll(src) PROVE TypeOK'
  <2>1. frames' \in Seq(Frame)
    BY <1>0, <1>6, EntryType, AppendProperties DEF Poll
  <2>2. miscounted' \in BOOLEAN
    BY <1>6 DEF Poll
  <2> QED
    BY <1>6, <2>1, <2>2 DEF Poll, TypeOK
<1>7. CASE FilterNext
  <2>1. frames # <<>> /\ Top \in Frame
    BY <1>0, <1>7, TopType DEF FilterNext, At
  <2>2. Head(Top.todo) \in Thread /\ Tail(Top.todo) \in Seq(Thread)
    BY <1>7, <2>1, HeadTailType DEF FilterNext, Frame
  <2>3. [Top EXCEPT !.todo = Tail(@)] \in Frame
    BY <2>1, <2>2, Zenon DEF Frame
  <2>4. Start([Top EXCEPT !.todo = Tail(@)], Head(Top.todo))
    BY <1>7 DEF FilterNext
  <2>5. /\ frames' \in Seq(Frame) /\ running' \in Seq(Thread)
        /\ terminated' \in Nat /\ lock' \subseteq Thread
    BY <2>1, <2>2, <2>3, <2>4, StartType
  <2> QED
    BY <1>7, <2>5 DEF FilterNext, TypeOK
<1>8. CASE FilterDone
  <2>1. frames # <<>> /\ Top \in Frame
    BY <1>0, <1>8, TopType DEF FilterDone, At
  <2>2. <<>> \in Seq(Thread) /\ 1 \in 0..(Stages + 1)
    BY EmptySeq, TaskServerAssumption DEF TaskServerAssumption
  <2>3. [Top EXCEPT !.pc = "schedule", !.stage = 1, !.kept = <<>>] \in Frame
    BY <2>1, <2>2, Zenon DEF Frame
  <2>4. frames' \in Seq(Frame)
    BY <1>0, <1>8, <2>1, <2>3, GotoFrame DEF FilterDone
  <2>5. running' \in Seq(Thread)
    BY <1>8, <2>1 DEF FilterDone, Frame
  <2> QED
    BY <1>8, <2>4, <2>5 DEF FilterDone, TypeOK
<1>9. CASE ScheduleTake
  <2>1. frames # <<>> /\ Top \in Frame /\ Top.stage \in Stage
    BY <1>0, <1>9, TopType DEF ScheduleTake, At
  <2>2. /\ Head(queue[Top.stage]) \in Thread
        /\ Tail(queue[Top.stage]) \in Seq(Thread)
    BY <1>9, <2>1, HeadTailType DEF ScheduleTake, CanTake, TypeOK
  <2>3. Start(Top, Head(queue[Top.stage]))
    BY <1>9 DEF ScheduleTake
  <2>4. /\ frames' \in Seq(Frame) /\ running' \in Seq(Thread)
        /\ terminated' \in Nat /\ lock' \subseteq Thread
    BY <2>1, <2>2, <2>3, StartType
  <2>5. queue' \in [Stage -> Seq(Thread)]
    BY <1>9, <2>1, <2>2 DEF ScheduleTake, TypeOK
  <2> QED
    BY <1>9, <2>4, <2>5 DEF ScheduleTake, TypeOK
<1>10. CASE ScheduleDone
  <2>1. frames # <<>> /\ Top \in Frame
    BY <1>0, <1>10, TopType DEF ScheduleDone, At
  <2>2. Top.stage \in Stage => Top.stage + 1 \in 0..(Stages + 1)
    BY TaskServerAssumption DEF TaskServerAssumption, Stage
  <2>3. /\ Top.stage \in Stage => [Top EXCEPT !.stage = @ + 1] \in Frame
        /\ [Top EXCEPT !.pc = "progress"] \in Frame
    BY <2>1, <2>2, Zenon DEF Frame
  <2>4. frames' \in Seq(Frame)
    BY <1>0, <1>10, <2>1, <2>3, GotoFrame DEF ScheduleDone
  <2> QED
    BY <1>10, <2>4 DEF ScheduleDone, TypeOK
<1>11. ASSUME NEW t \in Thread, NEW b \in BOOLEAN, TaskReturns(t, b)
       PROVE  TypeOK'
  <2>1. frames # <<>> /\ Top \in Frame
    BY <1>0, <1>11, TopType DEF TaskReturns, At
  <2>2. /\ frames' \in Seq(Frame) /\ running' \in Seq(Thread)
        /\ terminated' \in Nat
    BY <1>11, <2>1, ProgressedType DEF TaskReturns
  <2>3. task' \in [Thread -> {"new", "waiting", "done"}]
    BY <1>11 DEF TaskReturns, TypeOK
  <2> QED
    BY <1>11, <2>2, <2>3 DEF TaskReturns, TypeOK
<1>12. CASE TaskRaises
  BY <1>0, <1>12, PopFrame DEF TaskRaises, At, TypeOK
<1>13. CASE EndRun
  <2>1. frames' \in Seq(Frame)
    BY <1>0, <1>13, PopFrame DEF EndRun, At
  <2>2. waiting' \in BOOLEAN /\ miscounted' \in BOOLEAN
    BY <1>13, Zenon DEF EndRun, TypeOK
  <2>3. scheduled' \in Nat /\ terminated' \in Nat /\ sources' \subseteq Source
    BY <1>13 DEF EndRun, TypeOK
  <2> QED
    BY <1>13, <2>1, <2>2, <2>3 DEF EndRun, TypeOK
<1>14. CASE RunRaises
  <2>1. frames # <<>> /\ Top.source \in Source
    BY <1>0, <1>14, TopType DEF RunRaises, At, Frame
  <2>2. frames' \in Seq(Frame)
    BY <1>0, <1>14, <2>1, EntryType, GotoFrame DEF RunRaises
  <2> QED
    BY <1>14, <2>2, CancelType DEF RunRaises, TypeOK
<1>15. CASE UNCHANGED vars
  BY <1>15 DEF vars, TypeOK
<1> QED
  BY <1>1, <1>2, <1>3, <1>4, <1>5, <1>6, <1>7, <1>8, <1>9, <1>10, <1>11,
     <1>12, <1>13, <1>14, <1>15 DEF Next

(* The state of the task server of task.ml is always well typed, however    *)
(* calls of run_server, events, exceptions and cancellations mix.           *)
THEOREM TaskTypeCorrect == Spec => []TypeOK
<1> QED
  BY TypeInit, TypeNext, PTL DEF Spec

-----------------------------------------------------------------------------
(* The inductive invariant.                                                 *)
Exclusive == TaskHoldsThread /\ ProgressIsExclusive

(* The innermost call goes on, out of the code of the thread that it held,  *)
(* if any, whose lock is released.                                          *)
LEMMA GotoLeaves ==
  ASSUME frames \in Seq(Frame), frames # <<>>, Exclusive,
         NEW f \in Frame, Goto(f), f.thread = None, f.pc # "task",
         lock' = lock \ {Top.thread}
  PROVE  Exclusive'
<1> DEFINE n == Len(frames)
<1>1. /\ n \in Nat \ {0} /\ DOMAIN frames = 1..n /\ Top = frames[n]
      /\ DOMAIN frames' = 1..n /\ frames'[n] = f
      /\ \A i \in 1..(n - 1) : frames'[i] = frames[i]
  BY TopType, GotoFrame
<1> HIDE DEF n
<1>2. \A i \in 1..n : i = n \/ (i \in 1..(n - 1) /\ frames'[i] = frames[i])
  BY <1>1
<1>3. TaskHoldsThread'
  BY <1>1, <1>2 DEF Exclusive, TaskHoldsThread
<1>4. \A i, j \in DOMAIN frames' :
        frames'[i].thread # None /\ frames'[i].thread = frames'[j].thread => i = j
  BY <1>1, <1>2 DEF Exclusive, ProgressIsExclusive
<1>5. lock' = {frames'[i].thread : i \in DOMAIN frames'} \ {None}
  <2>1. lock = {frames[i].thread : i \in 1..n} \ {None}
    BY <1>1 DEF Exclusive, ProgressIsExclusive
  <2>2. \A i \in 1..(n - 1) : frames[i].thread # None
                               => frames[i].thread # Top.thread
    BY <1>1 DEF Exclusive, ProgressIsExclusive
  <2>3. \A x : x \in lock' <=> \E i \in 1..n : x = frames'[i].thread /\ x # None
    BY <1>1, <1>2, <2>1, <2>2
  <2>4. lock' = {frames'[i].thread : i \in 1..n} \ {None}
    BY ONLY <2>3, Zenon
  <2> QED
    BY <1>1, <2>4
<1> QED
  BY <1>3, <1>4, <1>5, Zenon DEF Exclusive, ProgressIsExclusive

(* The innermost call enters the code of a thread that was not locked.      *)
LEMMA GotoEnters ==
  ASSUME frames \in Seq(Frame), frames # <<>>, Exclusive, Top.thread = None,
         NEW t \in Thread \ lock,
         NEW f \in Frame, Goto(f), f.thread = t, f.pc = "task",
         lock' = lock \cup {t}
  PROVE  Exclusive'
<1> DEFINE n == Len(frames)
<1>1. /\ n \in Nat \ {0} /\ DOMAIN frames = 1..n /\ Top = frames[n]
      /\ DOMAIN frames' = 1..n /\ frames'[n] = f
      /\ \A i \in 1..(n - 1) : frames'[i] = frames[i]
  BY TopType, GotoFrame
<1> HIDE DEF n
<1>2. \A i \in 1..n : i = n \/ (i \in 1..(n - 1) /\ frames'[i] = frames[i])
  BY <1>1
<1>3. t # None
  BY TaskServerAssumption DEF TaskServerAssumption, Thread, None
<1>4. lock = {frames[i].thread : i \in 1..n} \ {None}
  BY <1>1 DEF Exclusive, ProgressIsExclusive
<1>5. \A i \in 1..n : frames[i].thread # t
  BY <1>3, <1>4
<1>6. TaskHoldsThread'
  BY <1>1, <1>2, <1>3 DEF Exclusive, TaskHoldsThread
<1>7. \A i, j \in DOMAIN frames' :
        frames'[i].thread # None /\ frames'[i].thread = frames'[j].thread => i = j
  BY <1>1, <1>2, <1>5 DEF Exclusive, ProgressIsExclusive
<1>8. lock' = {frames'[i].thread : i \in DOMAIN frames'} \ {None}
  <2>1. \A x : x \in lock' <=> \E i \in 1..n : x = frames'[i].thread /\ x # None
    BY <1>1, <1>2, <1>3, <1>4
  <2>2. lock' = {frames'[i].thread : i \in 1..n} \ {None}
    BY <2>1
  <2> QED
    BY <1>1, <2>2
<1> QED
  BY <1>6, <1>7, <1>8, Zenon DEF Exclusive, ProgressIsExclusive

(* The innermost call returns, or is left by an exception.                  *)
LEMMA PopLeaves ==
  ASSUME frames \in Seq(Frame), frames # <<>>, Exclusive,
         frames' = Outer, lock' = lock \ {Top.thread}
  PROVE  Exclusive'
<1> DEFINE n == Len(frames)
<1>1. /\ n \in Nat \ {0} /\ DOMAIN frames = 1..n /\ Top = frames[n]
      /\ DOMAIN frames' = 1..(n - 1)
      /\ \A i \in 1..(n - 1) : frames'[i] = frames[i]
  BY TopType, PopFrame
<1> HIDE DEF n
<1>2. TaskHoldsThread'
  BY <1>1 DEF Exclusive, TaskHoldsThread
<1>3. \A i, j \in DOMAIN frames' :
        frames'[i].thread # None /\ frames'[i].thread = frames'[j].thread => i = j
  BY <1>1 DEF Exclusive, ProgressIsExclusive
<1>4. lock' = {frames'[i].thread : i \in DOMAIN frames'} \ {None}
  <2>1. lock = {frames[i].thread : i \in 1..n} \ {None}
    BY <1>1 DEF Exclusive, ProgressIsExclusive
  <2>2. \A i \in 1..(n - 1) : frames[i].thread # None
                               => frames[i].thread # Top.thread
    BY <1>1 DEF Exclusive, ProgressIsExclusive
  <2>3. \A i \in 1..n : i = n \/ i \in 1..(n - 1)
    BY <1>1
  <2>4. \A x : x \in lock' <=> \E i \in 1..(n - 1) : /\ x = frames'[i].thread
                                                     /\ x # None
    BY <1>1, <2>1, <2>2, <2>3
  <2>5. lock' = {frames'[i].thread : i \in 1..(n - 1)} \ {None}
    BY ONLY <2>4
  <2> QED
    BY <1>1, <2>5
<1> QED
  BY <1>2, <1>3, <1>4, Zenon DEF Exclusive, ProgressIsExclusive

(* A call of progress that returned leaves the code of the thread.          *)
LEMMA ProgressedLeaves ==
  ASSUME TypeOK, frames # <<>>, Exclusive, NEW f \in Frame, NEW t \in Thread,
         NEW b \in BOOLEAN, Progressed(f, t, b), lock' = lock \ {Top.thread}
  PROVE  Exclusive'
<1> DEFINE g == [f EXCEPT !.pc = IF f.stage = 0 THEN "filter" ELSE "schedule",
                          !.kept = IF f.stage = 0 /\ b THEN Append(@, t) ELSE @,
                          !.thread = None]
<1>1. f.kept \in Seq(Thread) /\ Append(f.kept, t) \in Seq(Thread)
  BY AppendProperties DEF Frame
<1>2. g \in Frame
  BY <1>1, Zenon DEF Frame
<1>3. Goto(g)
  BY DEF Progressed
<1>4. g.thread = None /\ g.pc # "task"
  BY DEF Frame
<1> HIDE DEF g
<1> QED
  BY <1>2, <1>3, <1>4, GotoLeaves DEF TypeOK

(* A call of progress enters the code of the thread unless it is locked.    *)
LEMMA StartEnters ==
  ASSUME TypeOK, frames # <<>>, Exclusive, Top.thread = None,
         NEW f \in Frame, NEW t \in Thread, Start(f, t)
  PROVE  Exclusive'
<1>1. None \notin lock
  BY DEF Exclusive, ProgressIsExclusive
<1>2. CASE t \in lock \/ task[t] = "done"
  <2>1. Progressed(f, t, t \in lock) /\ lock' = lock \ {Top.thread}
    BY <1>1, <1>2 DEF Start
  <2>2. (t \in lock) \in BOOLEAN
    OBVIOUS
  <2> QED
    BY <2>1, <2>2, ProgressedLeaves, Zenon
<1>3. CASE ~(t \in lock \/ task[t] = "done")
  <2>1. [f EXCEPT !.pc = "task", !.thread = t] \in Frame
    BY Zenon DEF Frame
  <2>2. /\ Goto([f EXCEPT !.pc = "task", !.thread = t])
        /\ lock' = lock \cup {t}
        /\ t \in Thread \ lock
    BY <1>3 DEF Start
  <2>3. /\ [f EXCEPT !.pc = "task", !.thread = t].thread = t
        /\ [f EXCEPT !.pc = "task", !.thread = t].pc = "task"
    BY DEF Frame
  <2> QED
    BY <2>1, <2>2, <2>3, GotoEnters, Zenon DEF TypeOK
<1> QED
  BY <1>2, <1>3

LEMMA ExclusiveInit == Init => Exclusive
<1> SUFFICES ASSUME Init PROVE Exclusive
  OBVIOUS
<1>1. DOMAIN frames = {}
  BY EmptySeq, LenProperties DEF Init
<1>2. lock = {}
  BY DEF Init
<1> QED
  BY <1>1, <1>2 DEF Exclusive, TaskHoldsThread, ProgressIsExclusive

(* No step lets two calls into the code of one thread, or loses a lock.     *)
LEMMA ExclusiveNext == TypeOK /\ Exclusive /\ [Next]_vars => Exclusive'
<1> SUFFICES ASSUME TypeOK, Exclusive, [Next]_vars PROVE Exclusive'
  OBVIOUS
<1> USE DEF At
<1>0. frames \in Seq(Frame)
  BY DEF TypeOK
<1>a. ASSUME frames # <<>>, Top.pc # "task" PROVE Top.thread = None
  <2>1. Len(frames) \in DOMAIN frames /\ Top = frames[Len(frames)]
    BY <1>0, <1>a, TopType
  <2> QED
    BY <1>a, <2>1 DEF Exclusive, TaskHoldsThread
<1>b. lock = lock \ {None}
  BY DEF Exclusive, ProgressIsExclusive
<1>1. CASE UNCHANGED <<frames, lock>>
  BY <1>1 DEF Exclusive, TaskHoldsThread, ProgressIsExclusive
<1>2. ASSUME NEW src \in Source, Poll(src) PROVE Exclusive'
  <2> DEFINE n == Len(frames)
  <2>1. /\ n \in Nat /\ DOMAIN frames = 1..n
        /\ DOMAIN frames' = 1..(n + 1) /\ frames'[n + 1] = Entry(src)
        /\ \A i \in 1..n : frames'[i] = frames[i]
    <3>1. frames' = Append(frames, Entry(src)) /\ Entry(src) \in Frame
      BY <1>2, EntryType DEF Poll
    <3> QED
      BY <1>0, <3>1, AppendProperties, LenProperties
  <2> HIDE DEF n
  <2>2. Entry(src).thread = None /\ Entry(src).pc = "filter"
    BY DEF Entry
  <2>3. lock' = lock
    BY <1>2 DEF Poll
  <2>4. \A i \in 1..(n + 1) : i = n + 1 \/ (i \in 1..n /\ frames'[i] = frames[i])
    BY <2>1
  <2>5. TaskHoldsThread'
    BY <2>1, <2>2, <2>4 DEF Exclusive, TaskHoldsThread
  <2>6. \A i, j \in DOMAIN frames' :
          frames'[i].thread # None /\ frames'[i].thread = frames'[j].thread
            => i = j
    BY <2>1, <2>2, <2>4 DEF Exclusive, ProgressIsExclusive
  <2>7. lock' = {frames'[i].thread : i \in DOMAIN frames'} \ {None}
    <3>1. lock = {frames[i].thread : i \in 1..n} \ {None}
      BY <2>1 DEF Exclusive, ProgressIsExclusive
    <3>2. \A x : x \in lock' <=> \E i \in 1..(n + 1) : /\ x = frames'[i].thread
                                                        /\ x # None
      BY <2>1, <2>2, <2>3, <2>4, <3>1
    <3>3. lock' = {frames'[i].thread : i \in 1..(n + 1)} \ {None}
      BY ONLY <3>2, Zenon
    <3> QED
      BY <2>1, <3>3
  <2> QED
    BY <2>5, <2>6, <2>7 DEF Exclusive, ProgressIsExclusive
<1>3. CASE FilterNext
  <2>1. frames # <<>> /\ Top \in Frame /\ Top.thread = None
    BY <1>0, <1>3, <1>a, TopType DEF FilterNext
  <2>2. Head(Top.todo) \in Thread /\ Tail(Top.todo) \in Seq(Thread)
    BY <1>3, <2>1, HeadTailType DEF FilterNext, Frame
  <2>3. [Top EXCEPT !.todo = Tail(@)] \in Frame
    BY <2>1, <2>2, Zenon DEF Frame
  <2>4. Start([Top EXCEPT !.todo = Tail(@)], Head(Top.todo))
    BY <1>3 DEF FilterNext
  <2> QED
    BY <2>1, <2>2, <2>3, <2>4, StartEnters
<1>4. CASE FilterDone
  <2>1. frames # <<>> /\ Top \in Frame /\ Top.thread = None
    BY <1>0, <1>4, <1>a, TopType DEF FilterDone
  <2>2. <<>> \in Seq(Thread) /\ 1 \in 0..(Stages + 1)
    BY EmptySeq, TaskServerAssumption DEF TaskServerAssumption
  <2> DEFINE f == [Top EXCEPT !.pc = "schedule", !.stage = 1, !.kept = <<>>]
  <2>3. f \in Frame /\ f.thread = None /\ f.pc # "task"
    BY <2>1, <2>2, Zenon DEF Frame
  <2>4. Goto(f) /\ lock' = lock \ {Top.thread}
    BY <1>4, <1>b, <2>1 DEF FilterDone
  <2> QED
    BY <1>0, <2>1, <2>3, <2>4, GotoLeaves, Zenon
<1>5. CASE ScheduleTake
  <2>1. /\ frames # <<>> /\ Top \in Frame /\ Top.thread = None
        /\ Top.stage \in Stage
    BY <1>0, <1>5, <1>a, TopType DEF ScheduleTake
  <2>2. Head(queue[Top.stage]) \in Thread
    BY <1>5, <2>1, HeadTailType DEF ScheduleTake, CanTake, TypeOK
  <2>3. Start(Top, Head(queue[Top.stage]))
    BY <1>5 DEF ScheduleTake
  <2> QED
    BY <2>1, <2>2, <2>3, StartEnters
<1>6. CASE ScheduleDone
  <2>1. frames # <<>> /\ Top \in Frame /\ Top.thread = None /\ Top.pc # "task"
    BY <1>0, <1>6, <1>a, TopType DEF ScheduleDone
  <2>2. Top.stage \in Stage => Top.stage + 1 \in 0..(Stages + 1)
    BY TaskServerAssumption DEF TaskServerAssumption, Stage
  <2> DEFINE f == IF Top.stage \in Stage THEN [Top EXCEPT !.stage = @ + 1]
                                         ELSE [Top EXCEPT !.pc = "progress"]
  <2>3. f \in Frame /\ f.thread = None /\ f.pc # "task"
    BY <2>1, <2>2 DEF Frame
  <2>4. Goto(f) /\ lock' = lock \ {Top.thread}
    BY <1>6, <1>b, <2>1 DEF ScheduleDone
  <2> QED
    BY <1>0, <2>1, <2>3, <2>4, GotoLeaves, Zenon
<1>7. ASSUME NEW t \in Thread, NEW b \in BOOLEAN, TaskReturns(t, b)
      PROVE  Exclusive'
  <2>1. frames # <<>> /\ Top \in Frame /\ lock' = lock \ {Top.thread}
    BY <1>0, <1>7, TopType DEF TaskReturns
  <2>2. Progressed(Top, t, b)
    BY <1>7 DEF TaskReturns
  <2> QED
    BY <2>1, <2>2, ProgressedLeaves
<1>8. CASE TaskRaises
  BY <1>0, <1>8, PopLeaves DEF TaskRaises
<1>9. CASE EndRun
  <2>1. /\ frames # <<>> /\ frames' = Outer
        /\ lock' = lock \ {Top.thread}
    BY <1>9, <1>a, <1>b DEF EndRun
  <2> QED
    BY <1>0, <2>1, PopLeaves
<1>10. CASE RunRaises
  <2>1. frames # <<>> /\ Top.source \in Source /\ Top.thread = None
    BY <1>0, <1>10, <1>a, TopType DEF RunRaises, Frame
  <2>2. /\ Entry(Top.source) \in Frame /\ Entry(Top.source).thread = None
        /\ Entry(Top.source).pc # "task"
    BY <2>1, EntryType DEF Entry
  <2>3. Goto(Entry(Top.source)) /\ lock' = lock \ {Top.thread}
    BY <1>10, <1>b, <2>1 DEF RunRaises
  <2> QED
    BY <1>0, <2>1, <2>2, <2>3, GotoLeaves
<1>11. ASSUME NEW t \in Thread, \/ Cancel(t)
                                \/ \E i \in Stage : Spawn(t, i) \/ Click(t, i)
       PROVE  UNCHANGED <<frames, lock>>
  BY <1>11 DEF Cancel, Spawn, Click
<1>12. ASSUME CancelAll \/ \E n \in 1..MaxProcs : SetProcs(n)
       PROVE  UNCHANGED <<frames, lock>>
  BY <1>12 DEF CancelAll, SetProcs
<1>13. ASSUME UNCHANGED vars PROVE UNCHANGED <<frames, lock>>
  BY <1>13 DEF vars
<1> QED
  BY <1>1, <1>2, <1>3, <1>4, <1>5, <1>6, <1>7, <1>8, <1>9, <1>10, <1>11,
     <1>12, <1>13 DEF Next

(* The lock of a thread does what progress wants of it (task.ml): however   *)
(* deep calls of run_server nest in the code of tasks, no task is entered   *)
(* while it runs, and no exception or cancellation leaves a lock set.       *)
THEOREM LockIsExclusive == Spec => []ProgressIsExclusive
<1>1. Exclusive => ProgressIsExclusive
  BY DEF Exclusive
<1> QED
  BY <1>1, TypeInit, TypeNext, ExclusiveInit, ExclusiveNext, PTL DEF Spec

-----------------------------------------------------------------------------
(* The stage of a call tells whether it still filters the running threads.  *)
StageInv ==
  \A i \in DOMAIN frames :
    /\ frames[i].pc = "filter" => frames[i].stage = 0
    /\ frames[i].pc \in {"schedule", "progress"} => frames[i].stage # 0

(* As long as the counters are right, calls nest in Db.progress only, where *)
(* a call has nothing in hand.                                              *)
NestInv ==
  ~miscounted => \A i \in 1..(Len(frames) - 1) : frames[i].pc = "progress"

(* The inductive invariant.                                                 *)
CountInv == StageInv /\ NestInv /\ CountersAgree /\ IsFiniteSet(Places)

(* The threads that a call f has in hand, but the one whose code it runs.   *)
Held(f, s) == IF f.stage = 0 THEN Len(f.todo) + Len(f.kept) ELSE Len(s)

(* The places of some queues.                                               *)
PlacesOf(q) == UNION {{i} \X DOMAIN q[i] : i \in Stage}

LEMMA PlacesElements ==
  ASSUME NEW q \in [Stage -> Seq(Thread)], NEW x
  PROVE  x \in PlacesOf(q)
           <=> \E j \in Stage : \E k \in 1..Len(q[j]) : x = <<j, k>>
<1>1. \A j \in Stage : DOMAIN q[j] = 1..Len(q[j])
  BY LenProperties
<1>2. x \in PlacesOf(q) <=> \E j \in Stage : x \in {j} \X DOMAIN q[j]
  BY Zenon DEF PlacesOf
<1>3. \A j \in Stage : x \in {j} \X DOMAIN q[j]
                         <=> \E k \in 1..Len(q[j]) : x = <<j, k>>
  BY <1>1
<1> QED
  BY <1>2, <1>3, Zenon

(* A queue with one more thread has one more place.                         *)
LEMMA OneMorePlace ==
  ASSUME NEW q \in [Stage -> Seq(Thread)], NEW r \in [Stage -> Seq(Thread)],
         NEW i \in Stage, Len(r[i]) = Len(q[i]) + 1,
         \A j \in Stage \ {i} : r[j] = q[j],
         IsFiniteSet(PlacesOf(q)) \/ IsFiniteSet(PlacesOf(r))
  PROVE  /\ IsFiniteSet(PlacesOf(q)) /\ IsFiniteSet(PlacesOf(r))
         /\ Cardinality(PlacesOf(q)) \in Nat
         /\ Cardinality(PlacesOf(r)) = Cardinality(PlacesOf(q)) + 1
<1> DEFINE p == <<i, Len(r[i])>>
<1>1. \A j \in Stage : Len(q[j]) \in Nat /\ Len(r[j]) \in Nat
  BY LenProperties
<1>2. p \notin PlacesOf(q)
  <2>1. ASSUME NEW j \in Stage, NEW k \in 1..Len(q[j]), p = <<j, k>> PROVE FALSE
    BY <1>1, <2>1
  <2> QED
    BY <2>1, PlacesElements, Zenon
<1>3. ASSUME NEW x PROVE x \in PlacesOf(r) <=> x \in PlacesOf(q) \cup {p}
  <2>1. ASSUME NEW j \in Stage, NEW k \in 1..Len(r[j]), x = <<j, k>>
        PROVE  x \in PlacesOf(q) \cup {p}
    <3>1. k \in 1..Len(q[j]) \/ (j = i /\ k = Len(r[i]))
      <4>1. CASE j = i
        BY <1>1, <4>1
      <4>2. CASE j # i
        BY <4>2
      <4> QED
        BY <4>1, <4>2
    <3> QED
      BY <2>1, <3>1, PlacesElements, Zenon
  <2>2. ASSUME NEW j \in Stage, NEW k \in 1..Len(q[j]), x = <<j, k>>
        PROVE  x \in PlacesOf(r)
    <3>1. k \in 1..Len(r[j])
      <4>1. CASE j = i
        BY <1>1, <4>1
      <4>2. CASE j # i
        BY <4>2
      <4> QED
        BY <4>1, <4>2
    <3> QED
      BY <2>2, <3>1, PlacesElements, Zenon
  <2>3. p \in PlacesOf(r)
    <3>1. Len(r[i]) \in 1..Len(r[i])
      BY <1>1
    <3> QED
      BY <3>1, PlacesElements, Zenon
  <2>4. ASSUME x \in PlacesOf(r) PROVE x \in PlacesOf(q) \cup {p}
    <3>1. \E j \in Stage : \E k \in 1..Len(r[j]) : x = <<j, k>>
      BY <2>4, PlacesElements
    <3>2. PICK j \in Stage : \E k \in 1..Len(r[j]) : x = <<j, k>>
      BY <3>1, Zenon
    <3>3. PICK k \in 1..Len(r[j]) : x = <<j, k>>
      BY <3>2, Zenon
    <3> QED
      BY <2>1, <3>3, Zenon
  <2>5. ASSUME x \in PlacesOf(q) PROVE x \in PlacesOf(r)
    <3>1. \E j \in Stage : \E k \in 1..Len(q[j]) : x = <<j, k>>
      BY <2>5, PlacesElements
    <3>2. PICK j \in Stage : \E k \in 1..Len(q[j]) : x = <<j, k>>
      BY <3>1, Zenon
    <3>3. PICK k \in 1..Len(q[j]) : x = <<j, k>>
      BY <3>2, Zenon
    <3> QED
      BY <2>2, <3>3, Zenon
  <2> HIDE DEF p
  <2> QED
    BY <2>3, <2>4, <2>5
<1>4. PlacesOf(r) = PlacesOf(q) \cup {p}
  BY <1>3
<1> HIDE DEF p
<1>5. IsFiniteSet(PlacesOf(q))
  BY <1>4, FS_Subset
<1>6. /\ IsFiniteSet(PlacesOf(q) \cup {p})
      /\ Cardinality(PlacesOf(q) \cup {p}) = Cardinality(PlacesOf(q)) + 1
  BY <1>2, <1>5, FS_AddElement
<1>7. Cardinality(PlacesOf(q)) \in Nat
  BY <1>5, FS_CardinalityType
<1> QED
  BY <1>4, <1>5, <1>6, <1>7, Zenon

(* Empty queues have no place.                                              *)
LEMMA NoPlace ==
  ASSUME NEW q \in [Stage -> Seq(Thread)], \A j \in Stage : q[j] = <<>>
  PROVE  IsFiniteSet(PlacesOf(q)) /\ Cardinality(PlacesOf(q)) = 0
<1>1. \A j \in Stage : Len(q[j]) = 0
  BY EmptySeq
<1>2. \A j \in Stage : 1..Len(q[j]) = {}
  BY <1>1
<1>3. PlacesOf(q) = {}
  BY <1>2, PlacesElements, Zenon
<1> QED
  BY <1>3, FS_EmptySet

(* The threads in hand are counted by a natural number.                     *)
LEMMA HeldType ==
  ASSUME NEW f \in Frame, NEW s \in Seq(Thread)
  PROVE  Held(f, s) \in Nat
<1>1. f.todo \in Seq(Thread) /\ f.kept \in Seq(Thread)
  BY DEF Frame
<1>2. Len(f.todo) \in Nat /\ Len(f.kept) \in Nat /\ Len(s) \in Nat
  BY <1>1, LenProperties
<1>3. PICK m \in Nat, n \in Nat : m = Len(f.todo) /\ n = Len(f.kept)
  BY <1>2, Zenon
<1>4. m + n \in Nat
  OBVIOUS
<1> QED
  BY <1>2, <1>3, <1>4, Zenon DEF Held

(* What the innermost call has in hand once it has moved on.                *)
LEMMA GotoInHand ==
  ASSUME frames \in Seq(Frame), frames # <<>>, NEW f \in Frame, Goto(f)
  PROVE  /\ Top' = f
         /\ frames' # <<>>
         /\ InHand' = (IF f.thread = None THEN 0 ELSE 1) + Held(f, running')
<1>1. /\ frames' \in Seq(Frame) /\ DOMAIN frames' = 1..Len(frames)
      /\ frames'[Len(frames)] = f /\ Len(frames) \in Nat \ {0}
  BY GotoFrame, TopType
<1>2. Len(frames') = Len(frames)
  BY <1>1, LenProperties
<1>3. frames' # <<>>
  BY <1>1, <1>2, EmptySeq
<1>4. Top' = f
  BY <1>1, <1>2 DEF Top
<1> QED
  BY <1>3, <1>4 DEF InHand, Held

(* A thread for which progress returned is counted as terminated, or is     *)
(* still in hand.                                                           *)
LEMMA ProgressedCounts ==
  ASSUME TypeOK, frames # <<>>, NEW f \in Frame, NEW t \in Thread,
         NEW b \in BOOLEAN, Progressed(f, t, b)
  PROVE  terminated' + InHand' = terminated + Held(f, running) + 1
<1> DEFINE g == [f EXCEPT !.pc = IF f.stage = 0 THEN "filter" ELSE "schedule",
                          !.kept = IF f.stage = 0 /\ b THEN Append(@, t) ELSE @,
                          !.thread = None]
<1>1. f.kept \in Seq(Thread) /\ f.todo \in Seq(Thread) /\ f.stage \in Nat
  BY TaskServerAssumption DEF Frame, TaskServerAssumption
<1>2. /\ Append(f.kept, t) \in Seq(Thread)
      /\ Len(Append(f.kept, t)) = Len(f.kept) + 1
  BY <1>1, AppendProperties
<1>3. g \in Frame
  BY <1>1, <1>2, Zenon DEF Frame
<1>4. /\ g.thread = None /\ g.stage = f.stage /\ g.todo = f.todo
      /\ g.kept = IF f.stage = 0 /\ b THEN Append(f.kept, t) ELSE f.kept
  BY DEF Frame
<1>5. Goto(g)
  BY DEF Progressed
<1> HIDE DEF g
<1>6. InHand' = Held(g, running')
  <2>1. InHand' = (IF g.thread = None THEN 0 ELSE 1) + Held(g, running')
    BY <1>3, <1>5, GotoInHand DEF TypeOK
  <2>2. Held(g, running') \in Nat
    BY <1>3, ProgressedType, HeldType
  <2> QED
    BY <1>4, <2>1, <2>2
<1>7. /\ running \in Seq(Thread) /\ terminated \in Nat
      /\ Len(f.kept) \in Nat /\ Len(f.todo) \in Nat /\ Len(running) \in Nat
  BY <1>1, LenProperties DEF TypeOK
<1>8. Len(<<t>> \o running) = Len(running) + 1
  <2>1. <<t>> \in Seq(Thread) /\ Len(<<t>>) = 1
    BY SeqDef
  <2>2. Len(<<t>> \o running) = Len(<<t>>) + Len(running)
    BY <1>7, <2>1, ConcatProperties
  <2> QED
    BY <1>7, <2>1, <2>2
<1>9. /\ running' = IF f.stage > 0 /\ b THEN <<t>> \o running ELSE running
      /\ terminated' = IF b THEN terminated ELSE terminated + 1
  BY DEF Progressed
<1>10. CASE f.stage = 0
  <2>0. PICK m \in Nat, n \in Nat : m = Len(f.todo) /\ n = Len(f.kept)
    BY <1>7, Zenon
  <2>1. Held(f, running) = m + n
    BY <1>10, <2>0, Zenon DEF Held
  <2>2. CASE b
    <3>1. InHand' = m + (n + 1) /\ terminated' = terminated
      BY <1>2, <1>4, <1>6, <1>9, <1>10, <2>0, <2>2, Zenon DEF Held
    <3> QED
      BY <1>7, <2>1, <3>1
  <2>3. CASE ~b
    <3>1. InHand' = m + n /\ terminated' = terminated + 1
      BY <1>4, <1>6, <1>9, <1>10, <2>0, <2>3, Zenon DEF Held
    <3> QED
      BY <1>7, <2>1, <3>1
  <2> QED
    BY <2>2, <2>3
<1>11. CASE f.stage # 0
  <2>1. Held(g, running') = IF b THEN Len(running) + 1 ELSE Len(running)
    BY <1>1, <1>4, <1>8, <1>9, <1>11 DEF Held
  <2>2. Held(f, running) = Len(running)
    BY <1>11 DEF Held
  <2> QED
    BY <1>6, <1>7, <1>9, <2>1, <2>2
<1> QED
  BY <1>10, <1>11

(* So it is when progress has entered the code of the thread.               *)
LEMMA StartCounts ==
  ASSUME TypeOK, frames # <<>>, NEW f \in Frame, NEW t \in Thread, Start(f, t)
  PROVE  terminated' + InHand' = terminated + Held(f, running) + 1
<1>1. CASE t \in lock \/ task[t] = "done"
  <2>1. Progressed(f, t, t \in lock)
    BY <1>1 DEF Start
  <2>2. (t \in lock) \in BOOLEAN
    OBVIOUS
  <2> QED
    BY <2>1, <2>2, ProgressedCounts, Zenon
<1>2. CASE ~(t \in lock \/ task[t] = "done")
  <2> DEFINE g == [f EXCEPT !.pc = "task", !.thread = t]
  <2>1. g \in Frame
    BY Zenon DEF Frame
  <2>2. g.thread = t /\ t # None
    BY TaskServerAssumption DEF Frame, TaskServerAssumption, Thread, None
  <2>3. Held(g, running) = Held(f, running) /\ Held(f, running) \in Nat
    BY HeldType DEF Held, Frame, TypeOK
  <2>4. Goto(g) /\ running' = running /\ terminated' = terminated
    BY <1>2 DEF Start
  <2> HIDE DEF g
  <2>5. InHand' = 1 + Held(g, running)
    BY <2>1, <2>2, <2>4, GotoInHand DEF TypeOK
  <2> QED
    BY <2>3, <2>4, <2>5 DEF TypeOK
<1> QED
  BY <1>1, <1>2

(* Spawning a thread adds a place.                                          *)
LEMMA EnqueueCounts ==
  ASSUME TypeOK, IsFiniteSet(Places), NEW t \in Thread, NEW i \in Stage,
         Enqueue(t, i)
  PROVE  /\ IsFiniteSet(Places')
         /\ SumQueues \in Nat
         /\ SumQueues' = SumQueues + 1
<1>1. /\ queue \in [Stage -> Seq(Thread)] /\ queue' \in [Stage -> Seq(Thread)]
      /\ queue'[i] = Append(queue[i], t)
      /\ \A j \in Stage \ {i} : queue'[j] = queue[j]
  BY EnqueueType DEF TypeOK, Enqueue
<1>2. Len(queue'[i]) = Len(queue[i]) + 1
  BY <1>1, AppendProperties
<1>3. Places = PlacesOf(queue) /\ Places' = PlacesOf(queue')
  BY DEF Places, PlacesOf
<1>4. PICK q \in [Stage -> Seq(Thread)], r \in [Stage -> Seq(Thread)] :
        q = queue /\ r = queue'
  BY <1>1
<1>5. /\ Len(r[i]) = Len(q[i]) + 1 /\ \A j \in Stage \ {i} : r[j] = q[j]
      /\ IsFiniteSet(PlacesOf(q))
  BY <1>1, <1>2, <1>3, <1>4, Zenon
<1>6. /\ IsFiniteSet(PlacesOf(r)) /\ Cardinality(PlacesOf(q)) \in Nat
      /\ Cardinality(PlacesOf(r)) = Cardinality(PlacesOf(q)) + 1
  BY <1>5, OneMorePlace, Zenon
<1> QED
  BY <1>3, <1>4, <1>6, Zenon DEF SumQueues

(* Taking a thread from a queue removes a place.                            *)
LEMMA TakeCounts ==
  ASSUME TypeOK, IsFiniteSet(Places), NEW i \in Stage, queue[i] # <<>>,
         queue' = [queue EXCEPT ![i] = Tail(@)]
  PROVE  /\ IsFiniteSet(Places')
         /\ SumQueues' \in Nat
         /\ SumQueues = SumQueues' + 1
<1>1. queue[i] \in Seq(Thread)
  BY DEF TypeOK
<1>2. Tail(queue[i]) \in Seq(Thread) /\ Len(queue[i]) = Len(Tail(queue[i])) + 1
  <2>1. Len(queue[i]) \in Nat \ {0}
    BY <1>1, EmptySeq, LenProperties
  <2>2. Tail(queue[i]) \in Seq(Thread) /\ Len(Tail(queue[i])) = Len(queue[i]) - 1
    BY <1>1, HeadTailProperties
  <2> QED
    BY <2>1, <2>2
<1>3. /\ queue \in [Stage -> Seq(Thread)] /\ queue' \in [Stage -> Seq(Thread)]
      /\ queue'[i] = Tail(queue[i])
      /\ \A j \in Stage \ {i} : queue[j] = queue'[j]
  BY <1>2 DEF TypeOK
<1>4. Places = PlacesOf(queue) /\ Places' = PlacesOf(queue')
  BY DEF Places, PlacesOf
<1>5. PICK q \in [Stage -> Seq(Thread)], r \in [Stage -> Seq(Thread)] :
        q = queue' /\ r = queue
  BY <1>3, Zenon
<1>6. /\ Len(r[i]) = Len(q[i]) + 1 /\ \A j \in Stage \ {i} : r[j] = q[j]
      /\ IsFiniteSet(PlacesOf(r))
  BY <1>2, <1>3, <1>4, <1>5, Zenon
<1>7. /\ IsFiniteSet(PlacesOf(q)) /\ Cardinality(PlacesOf(q)) \in Nat
      /\ Cardinality(PlacesOf(r)) = Cardinality(PlacesOf(q)) + 1
  BY <1>6, OneMorePlace, Zenon
<1> QED
  BY <1>4, <1>5, <1>7, Zenon DEF SumQueues

(* A step of the innermost call keeps what is known of the calls.           *)
LEMMA GotoNests ==
  ASSUME frames \in Seq(Frame), frames # <<>>, StageInv, NestInv,
         miscounted' = miscounted, NEW f \in Frame, Goto(f),
         f.pc = "filter" => f.stage = 0,
         f.pc \in {"schedule", "progress"} => f.stage # 0
  PROVE  StageInv' /\ NestInv'
<1> DEFINE n == Len(frames)
<1>1. /\ n \in Nat \ {0} /\ DOMAIN frames = 1..n /\ frames' \in Seq(Frame)
      /\ DOMAIN frames' = 1..n /\ frames'[n] = f
      /\ \A i \in 1..(n - 1) : frames'[i] = frames[i]
  BY TopType, GotoFrame
<1>2. Len(frames') = n
  BY <1>1, LenProperties
<1> HIDE DEF n
<1>3. \A i \in 1..n : i = n \/ (i \in 1..(n - 1) /\ frames'[i] = frames[i])
  BY <1>1
<1>4. StageInv'
  BY <1>1, <1>3 DEF StageInv
<1>5. NestInv'
  BY <1>1, <1>2 DEF NestInv, n
<1> QED
  BY <1>4, <1>5

(* So does its return.                                                      *)
LEMMA PopNests ==
  ASSUME frames \in Seq(Frame), frames # <<>>, StageInv, NestInv,
         frames' = Outer
  PROVE  /\ StageInv'
         /\ ~miscounted => \A i \in 1..(Len(frames') - 1) : frames'[i].pc = "progress"
         /\ ~miscounted /\ frames' # <<>> => Top'.pc = "progress"
         /\ frames' # <<>> => Top' \in Frame /\ Top' = frames'[Len(frames')]
                              /\ Len(frames') \in DOMAIN frames'
<1> DEFINE n == Len(frames)
<1>1. /\ n \in Nat \ {0} /\ DOMAIN frames = 1..n /\ frames' \in Seq(Frame)
      /\ DOMAIN frames' = 1..(n - 1)
      /\ \A i \in 1..(n - 1) : frames'[i] = frames[i]
  BY TopType, PopFrame
<1>2. Len(frames') = n - 1
  BY PopFrame
<1> HIDE DEF n
<1>3. StageInv'
  BY <1>1 DEF StageInv
<1>4. ~miscounted => \A i \in 1..(n - 1) : frames'[i].pc = "progress"
  BY <1>1 DEF NestInv, n
<1>5. \A i \in 1..(n - 1 - 1) : i \in 1..(n - 1)
  BY <1>1
<1>6. ASSUME frames' # <<>> PROVE n - 1 \in 1..(n - 1)
  BY <1>1, <1>2, <1>6, EmptySeq
<1>7. Top' = frames'[n - 1]
  BY <1>2 DEF Top
<1>8. frames' # <<>> => frames'[n - 1] \in Frame
  BY <1>1, <1>2, <1>6, ElementOfSeq
<1> QED
  BY <1>1, <1>2, <1>3, <1>4, <1>5, <1>6, <1>7, <1>8

LEMMA ProgressedNests ==
  ASSUME TypeOK, frames # <<>>, StageInv, NestInv, miscounted' = miscounted,
         NEW f \in Frame, NEW t \in Thread, NEW b \in BOOLEAN,
         Progressed(f, t, b)
  PROVE  StageInv' /\ NestInv'
<1> DEFINE g == [f EXCEPT !.pc = IF f.stage = 0 THEN "filter" ELSE "schedule",
                          !.kept = IF f.stage = 0 /\ b THEN Append(@, t) ELSE @,
                          !.thread = None]
<1>1. f.kept \in Seq(Thread) /\ Append(f.kept, t) \in Seq(Thread)
  BY AppendProperties DEF Frame
<1>2. g \in Frame
  BY <1>1, Zenon DEF Frame
<1>3. /\ g.pc = "filter" => g.stage = 0
      /\ g.pc \in {"schedule", "progress"} => g.stage # 0
  BY DEF Frame
<1>4. Goto(g)
  BY DEF Progressed
<1> HIDE DEF g
<1> QED
  BY <1>2, <1>3, <1>4, GotoNests DEF TypeOK

LEMMA StartNests ==
  ASSUME TypeOK, frames # <<>>, StageInv, NestInv, miscounted' = miscounted,
         NEW f \in Frame, NEW t \in Thread, Start(f, t)
  PROVE  StageInv' /\ NestInv'
<1>1. CASE t \in lock \/ task[t] = "done"
  <2>1. Progressed(f, t, t \in lock)
    BY <1>1 DEF Start
  <2>2. (t \in lock) \in BOOLEAN
    OBVIOUS
  <2> QED
    BY <2>1, <2>2, ProgressedNests, Zenon
<1>2. CASE ~(t \in lock \/ task[t] = "done")
  <2> DEFINE g == [f EXCEPT !.pc = "task", !.thread = t]
  <2>1. g \in Frame /\ g.pc = "task"
    BY Zenon DEF Frame
  <2>2. Goto(g)
    BY <1>2 DEF Start
  <2> HIDE DEF g
  <2> QED
    BY <2>1, <2>2, GotoNests DEF TypeOK
<1> QED
  BY <1>1, <1>2

LEMMA CountInit == Init => CountInv
<1> SUFFICES ASSUME Init PROVE CountInv
  OBVIOUS
<1>1. TypeOK
  BY TypeInit
<1>2. frames = <<>> /\ running = <<>> /\ scheduled = 0 /\ terminated = 0
  BY DEF Init
<1>3. DOMAIN frames = {} /\ Len(frames) = 0 /\ Len(running) = 0
  BY <1>2, EmptySeq, LenProperties
<1>4. \A j \in Stage : queue[j] = <<>>
  BY DEF Init
<1>5. Places = PlacesOf(queue)
  BY DEF Places, PlacesOf
<1>6. IsFiniteSet(Places) /\ SumQueues = 0
  BY <1>1, <1>4, <1>5, NoPlace DEF TypeOK, SumQueues
<1>7. InHand = 0
  BY <1>2, <1>3 DEF InHand
<1>8. CountersAgree
  BY <1>2, <1>6, <1>7 DEF CountersAgree
<1> QED
  BY <1>3, <1>6, <1>8 DEF CountInv, StageInv, NestInv

(* Every operation on the server and every step of run_server keeps the     *)
(* counters in agreement with the queues and the threads in hand.           *)
LEMMA CountNext == TypeOK /\ Exclusive /\ CountInv /\ [Next]_vars => CountInv'
<1> SUFFICES ASSUME TypeOK, Exclusive, CountInv, [Next]_vars PROVE CountInv'
  OBVIOUS
<1> USE DEF At
<1>0. /\ frames \in Seq(Frame) /\ running \in Seq(Thread)
      /\ scheduled \in Nat /\ terminated \in Nat
      /\ Len(running) \in Nat
  BY LenProperties DEF TypeOK
<1>a. StageInv /\ NestInv /\ CountersAgree /\ IsFiniteSet(Places)
  BY DEF CountInv
<1>b. SumQueues \in Nat
  BY <1>a, FS_CardinalityType DEF SumQueues
<1>c. ASSUME frames # <<>>
      PROVE  /\ Top \in Frame
             /\ Top.thread # None <=> Top.pc = "task"
             /\ Top.pc = "filter" => Top.stage = 0
             /\ Top.pc \in {"schedule", "progress"} => Top.stage # 0
             /\ InHand = (IF Top.thread = None THEN 0 ELSE 1) + Held(Top, running)
             /\ Held(Top, running) \in Nat
  <2>1. Top \in Frame /\ Len(frames) \in DOMAIN frames /\ Top = frames[Len(frames)]
    BY <1>0, <1>c, TopType
  <2>2. Top.thread # None <=> Top.pc = "task"
    BY <2>1, Zenon DEF Exclusive, TaskHoldsThread
  <2>3. /\ Top.pc = "filter" => Top.stage = 0
        /\ Top.pc \in {"schedule", "progress"} => Top.stage # 0
    BY <1>a, <2>1, Zenon DEF StageInv
  <2>4. InHand = (IF Top.thread = None THEN 0 ELSE 1) + Held(Top, running)
    BY <1>c, Zenon DEF InHand, Held
  <2> QED
    BY <1>0, <2>1, <2>2, <2>3, <2>4, HeldType
<1>d. ASSUME queue' = queue
      PROVE  IsFiniteSet(Places') /\ SumQueues' = SumQueues
  BY <1>a, <1>d DEF Places, SumQueues
<1>1. CASE UNCHANGED <<queue, running, scheduled, terminated, frames, miscounted>>
  <2>1. InHand' = InHand
    BY <1>1 DEF InHand, Top
  <2> QED
    BY <1>1, <1>a, <1>d, <2>1
    DEF CountInv, StageInv, NestInv, CountersAgree
<1>2. ASSUME NEW t \in Thread, NEW i \in Stage, Spawn(t, i) \/ Click(t, i)
      PROVE  CountInv'
  <2>1. /\ Enqueue(t, i)
        /\ UNCHANGED <<running, terminated, frames, miscounted>>
    BY <1>2 DEF Spawn, Click
  <2>2. InHand' = InHand
    BY <2>1 DEF InHand, Top
  <2>3. IsFiniteSet(Places') /\ SumQueues' = SumQueues + 1
    BY <1>a, <2>1, EnqueueCounts
  <2>4. InHand \in Nat
    <3>1. CASE frames = <<>>
      BY <1>0, <3>1 DEF InHand
    <3>2. CASE frames # <<>>
      BY <1>c, <3>2
    <3> QED
      BY <3>1, <3>2
  <2>5. scheduled' = scheduled + 1
    BY <2>1 DEF Enqueue
  <2>6. CountersAgree'
    BY <1>0, <1>a, <1>b, <2>1, <2>2, <2>3, <2>4, <2>5 DEF CountersAgree
  <2> QED
    BY <1>a, <2>1, <2>3, <2>6 DEF CountInv, StageInv, NestInv
<1>3. ASSUME NEW src \in Source, Poll(src) PROVE CountInv'
  <2> DEFINE n == Len(frames)
  <2>1. /\ frames' = Append(frames, Entry(src)) /\ Entry(src) \in Frame
        /\ UNCHANGED <<queue, running, scheduled, terminated>>
        /\ miscounted' = (miscounted \/ (frames # <<>> /\ Top.pc = "task"))
    BY <1>3, EntryType DEF Poll
  <2>2. /\ n \in Nat /\ DOMAIN frames = 1..n
        /\ frames' \in Seq(Frame) /\ Len(frames') = n + 1
        /\ DOMAIN frames' = 1..(n + 1) /\ frames'[n + 1] = Entry(src)
        /\ \A i \in 1..n : frames'[i] = frames[i]
    BY <1>0, <2>1, AppendProperties, LenProperties
  <2>3. /\ Entry(src).thread = None /\ Entry(src).pc = "filter"
        /\ Entry(src).stage = 0
        /\ Entry(src).todo = running /\ Entry(src).kept = <<>>
    BY DEF Entry
  <2>4. StageInv'
    <3> HIDE DEF n
    <3>1. \A i \in 1..(n + 1) :
            i = n + 1 \/ (i \in 1..n /\ frames'[i] = frames[i])
      BY <2>2
    <3> QED
      BY <1>a, <2>2, <2>3, <3>1 DEF StageInv
  <2>5. NestInv'
    <3> SUFFICES ASSUME ~miscounted', NEW i \in 1..n
                 PROVE  frames'[i].pc = "progress"
      BY <2>2 DEF NestInv
    <3>1. frames # <<>>
      BY <2>2, EmptySeq
    <3>2. Top = frames[n] /\ Top.pc = "progress"
      <4>1. MainLoop /\ Top.pc # "task" /\ ~miscounted
        BY <1>3, <2>1, <3>1, Zenon DEF Poll
      <4> QED
        BY <3>1, <4>1 DEF MainLoop, Top
    <3>3. ~miscounted /\ \A j \in 1..(n - 1) : frames[j].pc = "progress"
      BY <1>a, <2>1, Zenon DEF NestInv
    <3> HIDE DEF n
    <3>4. i = n \/ i \in 1..(n - 1)
      BY <2>2
    <3> QED
      BY <2>2, <3>2, <3>3, <3>4, Zenon
  <2>6. ASSUME ~miscounted' PROVE InHand' = Len(running) /\ InHand = Len(running)
    <3>1. Top' = Entry(src) /\ frames' # <<>>
      BY <2>2, EmptySeq DEF Top
    <3>2. InHand' = 0 + (Len(running) + Len(Entry(src).kept))
      BY <2>3, <3>1, Zenon DEF InHand
    <3>3. Len(Entry(src).kept) = 0 /\ 0 + (Len(running) + 0) = Len(running)
      BY <1>0, <2>3, EmptySeq
    <3>4. CASE frames = <<>>
      BY <3>2, <3>3, <3>4, Zenon DEF InHand
    <3>5. CASE frames # <<>>
      <4>1. Top.pc = "progress"
        BY <1>3, <2>1, <2>6, <3>5, Zenon DEF Poll, MainLoop
      <4>2. Top.thread = None /\ Top.stage # 0
        BY <1>c, <3>5, <4>1
      <4>3. InHand = 0 + Len(running)
        BY <3>5, <4>2 DEF InHand
      <4> QED
        BY <1>0, <3>2, <3>3, <4>3
    <3> QED
      BY <3>4, <3>5
  <2>7. CountersAgree'
    BY <1>a, <1>d, <2>1, <2>6, Zenon DEF CountersAgree
  <2> QED
    BY <1>d, <2>1, <2>4, <2>5, <2>7 DEF CountInv
<1>4. CASE FilterNext
  <2> DEFINE f == [Top EXCEPT !.todo = Tail(@)]
  <2>1. /\ frames # <<>> /\ Top \in Frame /\ Top.pc = "filter"
        /\ Top.stage = 0 /\ Top.thread = None
        /\ Top.todo \in Seq(Thread) /\ Top.todo # <<>>
        /\ Top.kept \in Seq(Thread)
    BY <1>4, <1>c DEF FilterNext, Frame
  <2>2. Head(Top.todo) \in Thread /\ Tail(Top.todo) \in Seq(Thread)
    BY <2>1, HeadTailType
  <2>3. f \in Frame /\ f.stage = 0 /\ f.todo = Tail(Top.todo) /\ f.kept = Top.kept
    BY <2>1, <2>2, Zenon DEF Frame
  <2>4. /\ Start(f, Head(Top.todo))
        /\ UNCHANGED <<queue, scheduled, miscounted>>
    BY <1>4 DEF FilterNext
  <2> HIDE DEF f
  <2>5. InHand = Held(f, running) + 1 /\ Held(f, running) \in Nat
    <3>1. Held(f, running) \in Nat
      BY <1>0, <2>3, HeldType
    <3>2. PICK m \in Nat, k \in Nat : /\ m = Len(Tail(Top.todo))
                                      /\ k = Len(Top.kept)
                                      /\ Len(Top.todo) = m + 1
      <4>1. Len(Tail(Top.todo)) \in Nat /\ Len(Top.kept) \in Nat
        BY <2>1, <2>2, LenProperties
      <4>2. Len(Top.todo) \in Nat \ {0}
        BY <2>1, EmptySeq, LenProperties
      <4>3. Len(Tail(Top.todo)) = Len(Top.todo) - 1
        BY <2>1, HeadTailProperties
      <4>4. Len(Top.todo) = Len(Tail(Top.todo)) + 1
        BY <4>2, <4>3
      <4> QED
        BY <4>1, <4>4, Zenon
    <3>3. InHand = 0 + ((m + 1) + k) /\ Held(f, running) = m + k
      BY <2>1, <2>3, <3>2, Zenon DEF InHand, Held
    <3> QED
      BY <3>1, <3>3
  <2>6. terminated' + InHand' = terminated + Held(f, running) + 1
    BY <2>1, <2>2, <2>3, <2>4, StartCounts, Zenon
  <2>7. CountersAgree'
    BY <1>0, <1>a, <1>b, <1>d, <2>4, <2>5, <2>6 DEF CountersAgree
  <2>8. StageInv' /\ NestInv'
    BY <1>a, <2>1, <2>2, <2>3, <2>4, StartNests
  <2> QED
    BY <1>d, <2>4, <2>7, <2>8 DEF CountInv
<1>5. CASE FilterDone
  <2> DEFINE f == [Top EXCEPT !.pc = "schedule", !.stage = 1, !.kept = <<>>]
  <2>1. /\ frames # <<>> /\ Top \in Frame /\ Top.pc = "filter"
        /\ Top.stage = 0 /\ Top.thread = None /\ Top.todo = <<>>
        /\ Top.kept \in Seq(Thread)
    BY <1>5, <1>c DEF FilterDone, Frame
  <2>2. <<>> \in Seq(Thread) /\ 1 \in 0..(Stages + 1)
    BY EmptySeq, TaskServerAssumption DEF TaskServerAssumption
  <2>3. f \in Frame /\ f.pc = "schedule" /\ f.stage = 1 /\ f.thread = Top.thread
    BY <2>1, <2>2, Zenon DEF Frame
  <2>4. /\ Goto(f) /\ running' = Top.kept
        /\ UNCHANGED <<queue, scheduled, terminated, miscounted>>
    BY <1>5 DEF FilterDone
  <2> HIDE DEF f
  <2>5. InHand' = InHand
    <3>1. InHand' = 0 + Len(Top.kept)
      <4>1. InHand' = (IF f.thread = None THEN 0 ELSE 1) + Held(f, running')
        BY <1>0, <2>1, <2>3, <2>4, GotoInHand
      <4>2. Held(f, running') = Len(Top.kept)
        BY <2>3, <2>4 DEF Held
      <4> QED
        BY <2>1, <2>3, <4>1, <4>2, Zenon
    <3>2. InHand = 0 + (Len(<<>>) + Len(Top.kept))
      BY <2>1, Zenon DEF InHand
    <3>3. PICK k \in Nat : k = Len(Top.kept)
      BY <2>1, LenProperties
    <3>4. Len(<<>>) = 0
      BY EmptySeq
    <3>5. 0 + k = 0 + (0 + k)
      OBVIOUS
    <3> QED
      BY <3>1, <3>2, <3>3, <3>4, <3>5, Zenon
  <2>6. CountersAgree'
    BY <1>a, <1>d, <2>4, <2>5 DEF CountersAgree
  <2>7. StageInv' /\ NestInv'
    BY <1>0, <1>a, <2>1, <2>3, <2>4, GotoNests
  <2> QED
    BY <1>d, <2>4, <2>6, <2>7 DEF CountInv
<1>6. CASE ScheduleTake
  <2>1. /\ frames # <<>> /\ Top \in Frame /\ Top.thread = None
        /\ Top.stage \in Stage /\ queue[Top.stage] # <<>>
        /\ InHand = 0 + Held(Top, running) /\ Held(Top, running) \in Nat
    BY <1>6, <1>c DEF ScheduleTake, CanTake
  <2>2. Head(queue[Top.stage]) \in Thread
    BY <2>1, HeadTailType DEF TypeOK
  <2>3. /\ queue' = [queue EXCEPT ![Top.stage] = Tail(@)]
        /\ Start(Top, Head(queue[Top.stage]))
        /\ UNCHANGED <<scheduled, miscounted>>
    BY <1>6 DEF ScheduleTake
  <2>4. /\ IsFiniteSet(Places') /\ SumQueues' \in Nat
        /\ SumQueues = SumQueues' + 1
    BY <1>a, <2>1, <2>3, TakeCounts, Zenon
  <2>5. terminated' + InHand' = terminated + Held(Top, running) + 1
    BY <2>1, <2>2, <2>3, StartCounts, Zenon
  <2>6. CountersAgree'
    BY <1>0, <1>a, <2>1, <2>3, <2>4, <2>5 DEF CountersAgree
  <2>7. StageInv' /\ NestInv'
    BY <1>a, <2>1, <2>2, <2>3, StartNests
  <2> QED
    BY <2>4, <2>6, <2>7 DEF CountInv
<1>7. CASE ScheduleDone
  <2> DEFINE f == IF Top.stage \in Stage THEN [Top EXCEPT !.stage = @ + 1]
                                         ELSE [Top EXCEPT !.pc = "progress"]
  <2>1. /\ frames # <<>> /\ Top \in Frame /\ Top.pc = "schedule"
        /\ Top.stage \in Nat \ {0} /\ Top.thread = None
    BY <1>7, <1>c, TaskServerAssumption
    DEF ScheduleDone, Frame, TaskServerAssumption
  <2>2. Top.stage \in Stage => Top.stage + 1 \in 0..(Stages + 1)
    BY TaskServerAssumption DEF TaskServerAssumption, Stage
  <2>3. /\ f \in Frame /\ f.pc \in {"schedule", "progress"} /\ f.stage # 0
        /\ f.thread = Top.thread
    BY <2>1, <2>2 DEF Frame
  <2>4. Goto(f) /\ UNCHANGED <<queue, running, scheduled, terminated, miscounted>>
    BY <1>7 DEF ScheduleDone
  <2> HIDE DEF f
  <2>5. InHand' = InHand
    <3>1. InHand' = (IF f.thread = None THEN 0 ELSE 1) + Held(f, running')
      BY <1>0, <2>1, <2>3, <2>4, GotoInHand
    <3>2. Held(f, running') = Held(Top, running)
      BY <2>1, <2>3, <2>4 DEF Held, Zenon
    <3> QED
      BY <1>c, <2>1, <2>3, <3>1, <3>2, Zenon
  <2>6. CountersAgree'
    BY <1>a, <1>d, <2>4, <2>5 DEF CountersAgree
  <2>7. StageInv' /\ NestInv'
    BY <1>0, <1>a, <2>1, <2>3, <2>4, GotoNests
  <2> QED
    BY <1>d, <2>4, <2>6, <2>7 DEF CountInv
<1>8. ASSUME NEW t \in Thread, NEW b \in BOOLEAN, TaskReturns(t, b)
      PROVE  CountInv'
  <2>1. /\ frames # <<>> /\ Top \in Frame
        /\ InHand = 1 + Held(Top, running) /\ Held(Top, running) \in Nat
    BY <1>8, <1>c DEF TaskReturns
  <2>2. Progressed(Top, t, b) /\ UNCHANGED <<queue, scheduled, miscounted>>
    BY <1>8 DEF TaskReturns
  <2>3. terminated' + InHand' = terminated + Held(Top, running) + 1
    BY <2>1, <2>2, ProgressedCounts
  <2>4. CountersAgree'
    BY <1>0, <1>a, <1>b, <1>d, <2>1, <2>2, <2>3 DEF CountersAgree
  <2>5. StageInv' /\ NestInv'
    BY <1>a, <2>1, <2>2, ProgressedNests
  <2> QED
    BY <1>d, <2>2, <2>4, <2>5 DEF CountInv
<1>9. CASE TaskRaises
  <2>1. frames # <<>> /\ frames' = Outer /\ miscounted' /\ queue' = queue
    BY <1>9 DEF TaskRaises
  <2>2. StageInv'
    BY <1>0, <1>a, <2>1, PopNests
  <2> QED
    BY <1>d, <2>1, <2>2 DEF CountInv, NestInv, CountersAgree
<1>10. CASE EndRun
  <2>1. /\ frames # <<>> /\ Top.pc = "progress" /\ frames' = Outer
        /\ UNCHANGED <<queue, running>>
    BY <1>10 DEF EndRun
  <2>2. ~miscounted' => ~miscounted
    BY <1>10, Zenon DEF EndRun
  <2>3. /\ StageInv'
        /\ ~miscounted => \A i \in 1..(Len(frames') - 1) : frames'[i].pc = "progress"
        /\ ~miscounted /\ frames' # <<>> => Top'.pc = "progress"
        /\ frames' # <<>> => /\ Top' = frames'[Len(frames')]
                             /\ Len(frames') \in DOMAIN frames'
    BY <1>0, <1>a, <2>1, PopNests
  <2>4. NestInv'
    BY <2>2, <2>3 DEF NestInv
  <2>5. InHand = Len(running)
    <3>1. Top.thread = None /\ Top.stage # 0
      BY <1>c, <2>1
    <3>2. InHand = 0 + Len(running)
      BY <2>1, <3>1 DEF InHand
    <3> QED
      BY <1>0, <3>2
  <2>6. ASSUME ~miscounted' PROVE InHand' = Len(running)
    <3>1. CASE frames' = <<>>
      BY <2>1, <3>1 DEF InHand
    <3>2. CASE frames' # <<>>
      <4>1. Top'.pc = "progress"
        BY <2>2, <2>3, <2>6, <3>2
      <4>2. Top'.thread = None
        BY <1>10, <2>3, <3>2, <4>1, ExclusiveNext
        DEF Exclusive, TaskHoldsThread, Next
      <4>3. Top'.stage # 0
        BY <2>3, <3>2, <4>1 DEF StageInv
      <4>4. InHand' = 0 + Len(running)
        BY <2>1, <3>2, <4>2, <4>3 DEF InHand
      <4> QED
        BY <1>0, <4>4
    <3> QED
      BY <3>1, <3>2
  <2>7. CountersAgree'
    <3> SUFFICES ASSUME ~miscounted'
                 PROVE  terminated' + InHand' + SumQueues' = scheduled'
      BY DEF CountersAgree
    <3>1. CASE running # <<>>
      <4>1. UNCHANGED <<scheduled, terminated>>
        BY <1>10, <3>1 DEF EndRun
      <4> QED
        BY <1>a, <1>d, <2>1, <2>2, <2>5, <2>6, <4>1 DEF CountersAgree
    <3>2. CASE running = <<>>
      <4>1. scheduled' = 0 /\ terminated' = 0 /\ IsEmpty
        BY <1>10, <3>2, Zenon DEF EndRun
      <4>2. Places = PlacesOf(queue)
        BY DEF Places, PlacesOf
      <4>3. SumQueues' = 0
        BY <1>d, <2>1, <4>1, <4>2, NoPlace DEF IsEmpty, SumQueues, TypeOK
      <4>4. InHand' = 0
        BY <2>6, <3>2, EmptySeq
      <4> QED
        BY <4>1, <4>3, <4>4
    <3> QED
      BY <3>1, <3>2
  <2> QED
    BY <1>d, <2>1, <2>3, <2>4, <2>7 DEF CountInv
<1>11. CASE RunRaises
  <2> DEFINE f == Entry(Top.source)
  <2>1. /\ frames # <<>> /\ Top.pc = "progress" /\ Top.source \in Source
        /\ Goto(f)
        /\ UNCHANGED <<queue, running, scheduled, terminated, miscounted>>
    BY <1>11, <1>c DEF RunRaises, Frame
  <2>2. f \in Frame
    BY <2>1, EntryType
  <2>3. /\ f.thread = None /\ f.pc = "filter" /\ f.stage = 0
        /\ f.todo = running /\ f.kept = <<>>
    BY DEF Entry
  <2> HIDE DEF f
  <2>4. InHand' = Len(running)
    <3>1. InHand' = 0 + Held(f, running')
      BY <1>0, <2>1, <2>2, <2>3, GotoInHand
    <3>2. Held(f, running') = Len(running) + Len(<<>>)
      BY <2>3 DEF Held
    <3>3. Len(<<>>) = 0
      BY EmptySeq
    <3> QED
      BY <1>0, <3>1, <3>2, <3>3
  <2>5. InHand = Len(running)
    <3>1. Top.thread = None /\ Top.stage # 0
      BY <1>c, <2>1
    <3>2. InHand = 0 + Len(running)
      BY <2>1, <3>1 DEF InHand
    <3> QED
      BY <1>0, <3>2
  <2>6. CountersAgree'
    BY <1>a, <1>d, <2>1, <2>4, <2>5 DEF CountersAgree
  <2>7. StageInv' /\ NestInv'
    BY <1>0, <1>a, <2>1, <2>2, <2>3, GotoNests
  <2> QED
    BY <1>d, <2>1, <2>6, <2>7 DEF CountInv
<1>12. ASSUME \/ \E t \in Thread : Cancel(t)
              \/ CancelAll
              \/ \E n \in 1..MaxProcs : SetProcs(n)
              \/ UNCHANGED vars
       PROVE  UNCHANGED <<queue, running, scheduled, terminated, frames,
                          miscounted>>
  BY <1>12 DEF Cancel, CancelAll, SetProcs, vars
<1> QED
  BY <1>1, <1>2, <1>3, <1>4, <1>5, <1>6, <1>7, <1>8, <1>9, <1>10, <1>11,
     <1>12 DEF Next

(* terminated, the threads in hand and the queues add up to scheduled (the  *)
(* comment on the server in task.ml), at every step of run_server, however  *)
(* calls nest in Db.progress, tasks spawn threads and threads are           *)
(* cancelled, until one of the three events that break it: see              *)
(* CountersAgree.                                                           *)
THEOREM CountersAlwaysAgree == Spec => []CountersAgree
<1>1. CountInv => CountersAgree
  BY DEF CountInv
<1> QED
  BY <1>1, TypeInit, TypeNext, ExclusiveInit, ExclusiveNext, CountInit,
     CountNext, PTL DEF Spec

=============================================================================
