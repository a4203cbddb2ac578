---------------------------- MODULE ProjectHooks ----------------------------
(***************************************************************************)
(* The hooks on the current project, src/src/libraries/project/project.ml: *)
(* plug-ins and the GUI are told when another project becomes current, by  *)
(* set_current and by the removal of the current one.  A hook may call     *)
(* set_current itself, or raise an exception, which nothing catches here.  *)
(***************************************************************************)
EXTENDS Naturals, Sequences, FiniteSetsExt, Functions

CONSTANTS
  Project,
  UserHooks,   \* the hooks of Set_Current_Hook_User, in their order
  OtherHooks,  \* the hooks of Set_Current_Hook, in their order
  NoHook,
  MaxDepth     \* a bound on the applications of hooks inside one another

VARIABLES
  listed,      \* the projects, the current one first
  apply_hook,  \* apply_hook of set_current
  frames,      \* the applications of hooks in progress, innermost last
  seen,        \* for each hook, the project that was current when it was called
  raised,      \* history: a hook raised an exception
  nested,      \* history: a hook called set_current or `remove'
  on,          \* history: set_current was called by `on'
  removed      \* history: the current project was removed

hooks == <<listed, apply_hook, frames, seen, raised, nested, on, removed>>

Hook == Range(UserHooks) \cup Range(OtherHooks)

ASSUME HooksAssumption == UserHooks \in Seq(Hook) /\ OtherHooks \in Seq(Hook)

Current == listed[1]

\* The projects once p is taken out (Qstack, where p is once).
OtherThan(p) ==
  LET k == Min({i \in DOMAIN listed : listed[i] = p})
  IN  SubSeq(listed, 1, k - 1) \o SubSeq(listed, k + 1, Len(listed))

\* Hook.apply: the function that made the call, the hook that runs and those
\* still to be called.
Frame == [by : {"set_current", "remove"}, hook : Hook \cup {NoHook}, rest : Seq(Hook)]

Apply(by, queue) == [by |-> by, hook |-> NoHook, rest |-> queue]

Top == frames[Len(frames)]

\* The applications that called the innermost one.
Outer == SubSeq(frames, 1, Len(frames) - 1)

\* The program runs, or a hook does.
Running == frames # <<>> => Top.hook # NoHook

HooksInit ==
  /\ \E p \in Project : listed = <<p>> /\ seen = [h \in Hook |-> p]
  /\ apply_hook = FALSE
  /\ frames = <<>>
  /\ raised = FALSE
  /\ nested = FALSE
  /\ on = FALSE
  /\ removed = FALSE

Create(p) ==
  /\ Running
  /\ p \notin Range(listed)
  /\ listed' = Append(listed, p)
  /\ UNCHANGED <<apply_hook, frames, seen, raised, nested, on, removed>>

\* Wrong: the flag is not looked at.
HooksAlways(from_on) ==
  /\ apply_hook' = TRUE
  /\ frames' = Append(frames, Apply("set_current",
                 (IF from_on THEN <<>> ELSE UserHooks) \o OtherHooks))

\* The end of set_current: the hooks, unless one of them made the call.
Hooks(from_on) ==
  IF apply_hook THEN UNCHANGED <<apply_hook, frames>>
  ELSE /\ apply_hook' = TRUE
       /\ frames' = Append(frames, Apply("set_current",
                      (IF from_on THEN <<>> ELSE UserHooks) \o OtherHooks))

\* set_current, called by the program or by a hook.
SetCurrent(p, from_on) ==
  /\ Running
  /\ Len(frames) < MaxDepth
  /\ p \in Range(listed)
  /\ p # Current
  /\ listed' = <<p>> \o OtherThan(p)
  /\ Hooks(from_on)
  /\ nested' = (nested \/ frames # <<>>)
  /\ on' = (on \/ from_on)
  /\ UNCHANGED <<seen, raised, removed>>

\* `remove': if the project was current the user's hooks are called, outside of
\* apply_hook.
RemoveProject(p) ==
  /\ Running
  /\ Len(frames) < MaxDepth
  /\ Len(listed) > 1
  /\ p \in Range(listed)
  /\ listed' = OtherThan(p)
  /\ IF p = Current
     THEN frames' = Append(frames, Apply("remove", UserHooks)) /\ removed' = TRUE
     ELSE UNCHANGED <<frames, removed>>
  /\ nested' = (nested \/ frames # <<>>)
  /\ UNCHANGED <<apply_hook, seen, raised, on>>

\* Queue.iter calls the next hook; it looks at the current project.
CallHook ==
  /\ frames # <<>>
  /\ Top.hook = NoHook
  /\ Top.rest # <<>>
  /\ frames' = [frames EXCEPT ![Len(frames)].hook = Head(Top.rest),
                              ![Len(frames)].rest = Tail(Top.rest)]
  /\ seen' = [seen EXCEPT ![Head(Top.rest)] = Current]
  /\ UNCHANGED <<listed, apply_hook, raised, nested, on, removed>>

HookReturns ==
  /\ frames # <<>>
  /\ Top.hook # NoHook
  /\ frames' = [frames EXCEPT ![Len(frames)].hook = NoHook]
  /\ UNCHANGED <<listed, apply_hook, seen, raised, nested, on, removed>>

\* The exception goes up through the operation that called the hook, which does
\* not reset the flag, to the hook that called the operation, if any.
HookRaises ==
  /\ frames # <<>>
  /\ Top.hook # NoHook
  /\ frames' = Outer
  /\ raised' = TRUE
  /\ UNCHANGED <<listed, apply_hook, seen, nested, on, removed>>

\* All the hooks were called: set_current resets the flag.
HooksDone ==
  /\ frames # <<>>
  /\ Top.hook = NoHook
  /\ Top.rest = <<>>
  /\ frames' = Outer
  /\ apply_hook' = (apply_hook /\ Top.by # "set_current")
  /\ UNCHANGED <<listed, seen, raised, nested, on, removed>>

HooksNext ==
  \/ \E p \in Project : Create(p) \/ RemoveProject(p)
  \/ \E p \in Project, b \in BOOLEAN : SetCurrent(p, b)
  \/ CallHook
  \/ HookReturns
  \/ HookRaises
  \/ HooksDone

HooksSpec == HooksInit /\ [][HooksNext]_hooks

-----------------------------------------------------------------------------
HooksTypeOK ==
  /\ listed \in Seq(Project)
  /\ frames \in Seq(Frame)
  /\ seen \in [Hook -> Project]
  /\ {apply_hook, raised, nested, on, removed} \subseteq BOOLEAN

\* Between two operations every hook has been told of the project that is current
\* (unjournalized_set_current), unless a hook raised an exception, after which
\* apply_hook stays set and set_current calls no hook any more, or a hook called
\* set_current or `remove'; but the user's hooks miss the calls of `on', and the others the
\* removal of the current project.
HooksKnowCurrent ==
  frames = <<>> /\ ~raised /\ ~nested =>
    /\ ~apply_hook
    /\ ~on => \A h \in Range(UserHooks) : seen[h] = Current
    /\ ~removed => \A h \in Range(OtherHooks) : seen[h] = Current

\* While the hooks of a call of set_current run, whatever the hooks do, no other
\* call of set_current calls hooks (project.ml: "do not apply hook if an hook
\* calls [set_current]"); the removal of the current project does.
HooksNotReentered ==
  \A i, j \in DOMAIN frames :
    frames[i].by = "set_current" /\ frames[j].by = "set_current" => i = j

\* What holds of the hooks of set_current and `remove' at any time.
HooksSound == HooksKnowCurrent /\ HooksNotReentered

=============================================================================
