------------------------------ MODULE Projects ------------------------------
(***************************************************************************)
(* The projects of src/src/libraries/project/project.ml, on top of the     *)
(* internal states of StateRegister.                                       *)
(*                                                                         *)
(* `projects' is the stack of projects, the current one first (Qstack is   *)
(* its implementation).  The operations are sequential; each action is a   *)
(* whole call, made of the same passes over the states, in the same order. *)
(* Project.on is split in two, for the function it calls may do anything.  *)
(* A call that raises an exception before it changes anything is not an    *)
(* action.                                                                 *)
(***************************************************************************)
EXTENDS StateRegister, SequencesExt

CONSTANTS
  State,       \* the internal states
  Selections,  \* the selections of the operations on one project
  Switches,    \* the selections of set_current and `on'
  None,        \* no project, no file
  Debug,       \* whether -debug is at least 1
  MayPoint,    \* whether a state may hold a pointer to a project
  MaySave,     \* whether files are saved
  MayFail,     \* whether a file may be unreadable
  MaxOn,       \* bound: nested calls of Project.on
  MaxCalls     \* bound: calls of the operations

ASSUME ProjectsAssumption ==
  /\ Selections \cup Switches \subseteq SUBSET State
  /\ Transient \cup Replaced \subseteq State
  /\ None \notin Project \cup Data
  /\ {Debug, MayPoint, MaySave, MayFail} \subseteq BOOLEAN
  /\ MaxOn \in Nat /\ MaxCalls \in Nat

VARIABLES
  projects,      \* the stack of projects
  states,        \* for each internal state, its record
  last_created,  \* last_created_by_copy_ref
  keep_current,  \* keep_current
  ons,           \* the calls of Project.on in progress, innermost last
  disk,          \* the content of a saved file, or None
  tables,        \* rehash_cache and existing_projects: "empty", "filled", or
                 \* "failed" once the assertion of Descr.init failed
  created,       \* history: the projects ever created
  calls          \* number of calls

vars == <<projects, states, last_created, keep_current, ons, disk, tables,
          created, calls>>

Current == projects[1]

Listed == Range(projects)

-----------------------------------------------------------------------------
(* Passes over a selection of the states (States_operations).               *)

Commits(st, sel, cur, p) ==
  [s \in State |-> IF s \in sel THEN Commit(st[s], cur, p) ELSE st[s]]

Updates(st, sel, p) ==
  [s \in State |-> IF s \in sel THEN Update(st[s], p, p) ELSE st[s]]

Creates(st, cur, P) == [s \in State |-> Create(st[s], cur, P)]

Removes(st, p) == [s \in State |-> RemoveEntry(st[s], p)]

Cleans(st) == [s \in State |-> Clean(st[s])]

Clears(st, sel, cur, P) ==
  [s \in State |-> IF s \in sel THEN Clear(st[s], cur, P) ELSE st[s]]

CopiesTo(st, sel, cur, src, dst) ==
  [s \in State |-> IF s \in sel THEN Copy(st[s], cur, src, dst) ELSE st[s]]

ClearsSomeProjects(st, sel, D, P) ==
  [s \in State |-> IF s \in sel THEN ClearSomeProjects(s, st[s], D, P)
                              ELSE st[s]]

\* An object can be allocated for project p in every state.
Room(p) == \A s \in State : FreeFor(states[s], p) # {}

Become(st) == states' = [s \in State |-> Collect(st[s])]

\* The passes of unjournalized_set_current, from project old to project p.
Switch(st, sel, old, p) == Updates(Commits(st, sel, old, old), sel, p)

\* The stack without p, which is in it once (StatesIsolated).
OtherThan(p) ==
  LET k == CHOOSE k \in DOMAIN projects : projects[k] = p
  IN  SubSeq(projects, 1, k - 1) \o SubSeq(projects, k + 1, Len(projects))

MovedAtTop(p) == <<p>> \o OtherThan(p)

Call == calls < MaxCalls /\ calls' = calls + 1

-----------------------------------------------------------------------------
\* One project, whose states are the initial local states (`create' for the
\* first project).
Init ==
  \E p \in Project : LET c == <<p, 1>> IN
    /\ projects = <<p>>
    /\ created = {p}
    /\ states = [s \in State |->
         [local |-> c,
          tbl |-> [q \in Project |-> IF q = p
                                     THEN [cell |-> c, computed |-> FALSE]
                                     ELSE Absent],
          heap |-> [d \in Cell |-> Default]]]
    /\ last_created = None
    /\ keep_current = FALSE
    /\ ons = <<>>
    /\ disk = None
    /\ tables = "empty"
    /\ calls = 0

\* A plug-in changes a state of the current project.
WriteState(s, v) ==
  /\ Call
  /\ projects # <<>>
  /\ v \in Project => MayPoint
  /\ Become([states EXCEPT ![s] = Write(@, v)])
  /\ UNCHANGED <<projects, last_created, keep_current, ons, disk, tables,
                 created>>

\* A plug-in gives a new length to an array of the current project.
ReplaceState(s) ==
  /\ Call
  /\ projects # <<>>
  /\ Room(Current)
  /\ Become([states EXCEPT ![s] = Replace(@, Current)])
  /\ UNCHANGED <<projects, last_created, keep_current, ons, disk, tables,
                 created>>

MarkState(s) ==
  /\ Call
  /\ projects # <<>>
  /\ states' = [states EXCEPT ![s] = MarkAsComputed(@, Current)]
  /\ UNCHANGED <<projects, last_created, keep_current, ons, disk, tables,
                 created>>

\* force_create, at the end of the stack.
CreateProject(p) ==
  /\ Call
  /\ p \notin created
  /\ projects' = Append(projects, p)
  /\ Become(Creates(states, projects'[1], {p}))
  /\ created' = created \cup {p}
  /\ UNCHANGED <<last_created, keep_current, ons, disk, tables>>

\* set_current: nothing happens if p is current; Invalid_argument is raised if
\* p is not in the stack.
SetCurrent(p, sel) ==
  /\ Call
  /\ p \in Listed
  /\ p # Current
  /\ projects' = MovedAtTop(p)
  /\ Become(Switch(states, sel, Current, p))
  /\ UNCHANGED <<last_created, keep_current, ons, disk, tables, created>>

\* set_current_as_last_created.
SetCurrentAsLastCreated == last_created # None /\ SetCurrent(last_created, State)

SetKeepCurrent(b) ==
  /\ Call
  /\ keep_current # b
  /\ keep_current' = b
  /\ UNCHANGED <<projects, states, last_created, ons, disk, tables, created>>

\* `on' p, up to the call of the function.
EnterOn(p, sel) ==
  /\ Call
  /\ Len(ons) < MaxOn
  /\ p \in Listed
  /\ p # Current
  /\ ons' = Append(ons, [old |-> Current, sel |-> sel])
  /\ projects' = MovedAtTop(p)
  /\ Become(Switch(states, sel, Current, p))
  /\ UNCHANGED <<last_created, keep_current, disk, tables, created>>

\* The project that set_to_old restores: the old one, the one below the
\* current one if it was removed, none if there is no other.
RestoredBy(old) ==
  IF keep_current THEN Current
  ELSE IF old \in Listed THEN old
  ELSE IF Len(projects) < 2 THEN Current
  ELSE projects[2]

Innermost == ons[Len(ons)]

\* `on', from the return of the function, or from the exception it raises; in
\* debug mode an exception leaves the current project as it is.  Without any
\* project, set_current raises NoProject.
ExitOn(raises) ==
  /\ Call
  /\ ons # <<>>
  /\ ons' = SubSeq(ons, 1, Len(ons) - 1)
  /\ IF \/ projects = <<>>
        \/ raises /\ Debug
        \/ RestoredBy(Innermost.old) = Current
     THEN UNCHANGED <<projects, states>>
     ELSE LET p == RestoredBy(Innermost.old)
          IN  /\ projects' = MovedAtTop(p)
              /\ Become(Switch(states, Innermost.sel, Current, p))
  /\ UNCHANGED <<last_created, keep_current, disk, tables, created>>

\* `remove': Cannot_remove is raised for the last project.
RemoveProject(p) ==
  /\ Call
  /\ p \in Listed
  /\ Len(projects) > 1
  /\ LET rest == OtherThan(p)
         st == IF p = Current
               THEN Updates(Removes(states, p), State, rest[1])
               ELSE Removes(states, p)
     IN  /\ projects' = rest
         /\ Become(ClearsSomeProjects(st, State, {p}, Range(rest)))
  /\ last_created' = IF last_created = p THEN None ELSE last_created
  /\ UNCHANGED <<keep_current, ons, disk, tables, created>>

CopyProject(src, dst, sel) ==
  /\ Call
  /\ {src, dst} \subseteq Listed
  /\ Room(dst)
  /\ Become(CopiesTo(Commits(states, sel, Current, src), sel, Current, src, dst))
  /\ UNCHANGED <<projects, last_created, keep_current, ons, disk, tables,
                 created>>

ClearProject(p, sel) ==
  /\ Call
  /\ p \in Listed
  /\ Become(Clears(states, sel, Current, {p}))
  /\ UNCHANGED <<projects, last_created, keep_current, ons, disk, tables,
                 created>>

\* clear_all: one pass for each project.
ClearAll ==
  /\ Call
  /\ projects # <<>>
  /\ Become(Clears(states, State, Current, Listed))
  /\ UNCHANGED <<projects, last_created, keep_current, ons, disk, tables,
                 created>>

-----------------------------------------------------------------------------
(* Save and load.                                                          *)

\* What save_projects writes: for each project of ps the values of the selected
\* states and their flags, and the last project created by copy.
Serialized(st, sel, ps) ==
  [projs |-> [i \in DOMAIN ps |->
     [owner |-> ps[i],
      saved |-> [s \in sel |->
        [value |-> IF s \in Transient THEN Default
                   ELSE st[s].heap[st[s].tbl[ps[i]].cell],
         computed |-> st[s].tbl[ps[i]].computed]]]],
   last |-> last_created]

Owners(file) == {file.projs[i].owner : i \in DOMAIN file.projs}

\* The projects that a file mentions and does not hold.
Mentioned(file) ==
  ({file.last} \cup
   UNION {{file.projs[i].saved[s].value : s \in DOMAIN file.projs[i].saved} :
          i \in DOMAIN file.projs}) \cap (Project \ Owners(file))

\* rehash: every project of the file, or that it mentions, becomes a project
\* that `create' makes for it.  The table rehash_cache starts empty, so this
\* happens to the projects that exist, too.
Renamings(file) == Injection(Owners(file) \cup Mentioned(file), Project \ created)

\* Mutant: a project that was read keeps its pointers to the projects of the file.
NotRenamed(ren, v) == v

Rehash(ren, v) == IF v \in DOMAIN ren THEN ren[v] ELSE v

Names(file, ren) == [i \in DOMAIN file.projs |-> ren[file.projs[i].owner]]

\* Descr.global_state reads the projects of the file in turn: each is created,
\* if it was not mentioned before, becomes current, and its states are read.
ReadOne(st, file, sel, ren, cur, i) ==
  LET names == Names(file, ren)
      saved == file.projs[i].saved
      x == Switch(st, sel, IF i = 1 THEN cur ELSE names[i - 1], names[i])
  IN  [s \in State |->
         IF s \in sel \cap DOMAIN saved
         THEN Unserialize(s, x[s], names[i], Rehash(ren, saved[s].value),
                          saved[s].computed)
         ELSE x[s]]

Reading(st, file, sel, ren, cur) ==
  LET after[i \in 0..Len(file.projs)] ==
        IF i = 0 THEN Creates(st, cur, Range(ren))
                 ELSE ReadOne(after[i - 1], file, sel, ren, cur, i)
  IN  after

ReadAll(st, file, sel, ren, cur) ==
  Reading(st, file, sel, ren, cur)[Len(file.projs)]

\* Mutant: the local states of the last loaded project are kept.
LoadedNoRestore(st, stack, file, sel, ren, copying) ==
  ReadAll(st, file, sel, ren,
          IF stack = <<>> THEN Names(file, ren)[1] ELSE stack[1])

\* The states after load_projects, when the projects of `stack' exist: the
\* projects of the file are read; unless for a copy, the pointers to projects
\* that do not exist are cleared; the current project is restored.
Loaded(st, stack, file, sel, ren, copying) ==
  LET names == Names(file, ren)
      cur == IF stack = <<>> THEN names[1] ELSE stack[1]
      read == ReadAll(st, file, sel, ren, cur)
      dangling == Project \ (Range(stack) \cup Range(names))
      kept == IF copying THEN read
              ELSE ClearsSomeProjects(read, sel, dangling, Range(names))
  IN  Switch(kept, sel, names[Len(names)], cur)

\* The states once the projects of ps are committed, before they are written.
Saved(sel, ps) ==
  IF Current \in Range(ps) THEN Commits(states, sel, Current, Current) ELSE states

SaveProjects(sel, ps) ==
  /\ Call
  /\ MaySave
  /\ disk' = Serialized(Saved(sel, ps), sel, ps)
  /\ Become(Saved(sel, ps))
  /\ UNCHANGED <<projects, last_created, keep_current, ons, tables, created>>

SaveProject(p, sel) == p \in Listed /\ SaveProjects(sel, <<p>>)

SaveAll(sel) == projects # <<>> /\ SaveProjects(sel, projects)

\* The stack is rebuilt: the projects of `stack', then the loaded ones.
LoadProjects(st, stack, file, sel, copying) ==
  \E ren \in Renamings(file) :
    /\ created' = created \cup Range(ren)
    /\ projects' = stack \o Names(file, ren)
    /\ Become(Loaded(st, stack, file, sel, ren, copying))
    /\ last_created' = Rehash(ren, file.last)

\* `load' (of a file with several projects: they are loaded, then the assertion
\* of unjournalized_load fails).
LoadProject(sel) ==
  /\ Call
  /\ disk # None
  /\ tables = "empty"
  /\ LoadProjects(states, projects, disk, sel, FALSE)
  /\ UNCHANGED <<keep_current, ons, disk, tables>>

\* load_all, after remove_all.
LoadAll(sel) ==
  /\ Call
  /\ disk # None
  /\ tables = "empty"
  /\ LoadProjects(Cleans(states), <<>>, disk, sel, FALSE)
  /\ UNCHANGED <<keep_current, ons, disk, tables>>

\* What is read of a file when reading stops in the states of its i-th project,
\* or after its last project (i is then one more than their number): the states
\* of a project are unserialized once all of them are read.
Truncated(file, i) ==
  [projs |-> [j \in {j \in DOMAIN file.projs : j <= i} |->
                IF j = i THEN [file.projs[j] EXCEPT !.saved = [s \in {} |-> None]]
                         ELSE file.projs[j]],
   last |-> None]

\* The projects that the i-th project of a file mentions, which rehash may have
\* created when reading stops there.
MentionedBy(file, i) ==
  IF i \notin DOMAIN file.projs THEN {}
  ELSE {file.projs[i].saved[s].value : s \in DOMAIN file.projs[i].saved}
         \cap Project

\* What load_projects leaves when it fails after Descr.init and the projects of
\* `stack' exist: the projects that were read, and the one that was not read to
\* its end, were each moved at the top of the stack, those that were only
\* mentioned are at its end, and Descr.finalize did not run.  With i = 0 no
\* project was reached.
StoppedAt(i, st, stack, file, sel) ==
  LET cut == Truncated(file, i)
      known == Owners(cut) \cup Mentioned(cut)
      Left(ren, rest) ==
        LET names == Names(cut, ren)
        IN  [projects |-> Reverse(names) \o stack \o rest,
             states |-> IF i = 0 THEN st
                        ELSE ReadAll(st, cut, sel, ren,
                                     IF stack = <<>> THEN names[1] ELSE stack[1]),
             made |-> Range(ren)]
  IN  UNION {UNION {{Left(ren, rest) :
                       rest \in SetToSeqs(Range(ren) \ Range(Names(cut, ren)))} :
                    ren \in Injection(known \cup seen, Project \ created)} :
             seen \in SUBSET (MentionedBy(file, i) \ known)}

Stopped(st, stack, file, sel) ==
  UNION {StoppedAt(i, st, stack, file, sel) : i \in 0..(Len(file.projs) + 1)}

\* `load' fails.  The tables that Descr.init and rehash filled are left as they
\* are.
LoadFails(sel) ==
  /\ Call
  /\ MayFail
  /\ disk # None
  /\ tables = "empty"
  /\ \E left \in Stopped(states, projects, disk, sel) :
       /\ projects' = left.projects
       /\ Become(left.states)
       /\ created' = created \cup left.made
  /\ tables' = IF projects' = <<>> THEN "empty" ELSE "filled"
  /\ UNCHANGED <<last_created, keep_current, ons, disk>>

\* load_all fails at the same places, or on the header of the file (as if no
\* project was reached).  IOError makes a new project, d, and sets it current;
\* an unexpected end of file does not.
LoadAllFails(sel, eof) ==
  /\ Call
  /\ MayFail
  /\ disk # None
  /\ tables = "empty"
  /\ \E left \in Stopped(Cleans(states), <<>>, disk, sel) :
       /\ IF eof
          THEN /\ projects' = left.projects
               /\ Become(left.states)
               /\ created' = created \cup left.made
          ELSE \E d \in Project \ (created \cup left.made) :
                 LET cur == IF left.projects = <<>> THEN d ELSE left.projects[1]
                 IN  /\ projects' = <<d>> \o left.projects
                     /\ Become(Switch(Creates(left.states, cur, {d}), sel, cur, d))
                     /\ created' = created \cup left.made \cup {d}
       /\ tables' = IF left.projects = <<>> THEN "empty" ELSE "filled"
  /\ last_created' = None
  /\ UNCHANGED <<keep_current, ons, disk>>

\* The assertion of Descr.init, on a load after one that failed (load_all has
\* already removed the projects).
LoadAsserts(all) ==
  /\ Call
  /\ disk # None
  /\ tables = "filled"
  /\ tables' = "failed"
  /\ IF all
     THEN /\ projects' = <<>>
          /\ Become(Cleans(states))
          /\ last_created' = None
     ELSE UNCHANGED <<projects, states, last_created>>
  /\ UNCHANGED <<keep_current, ons, disk, created>>

\* create_by_copy: src is saved, then loaded while project_under_copy is src; the
\* new project is remembered if `last'.
CreateByCopy(src, last, sel) ==
  /\ Call
  /\ src \in Listed
  /\ tables = "empty"
  /\ LET file == Serialized(Saved(sel, <<src>>), sel, <<src>>)
     IN  \E ren \in Renamings(file) :
           /\ created' = created \cup Range(ren)
           /\ projects' = projects \o Names(file, ren)
           /\ Become(Loaded(Saved(sel, <<src>>), projects, file, sel, ren, TRUE))
           /\ last_created' = IF last THEN ren[src] ELSE Rehash(ren, file.last)
  /\ UNCHANGED <<keep_current, ons, disk, tables>>

\* create_by_copy fails when it reads its file, or on the assertion of Descr.init
\* after a load that failed; the project was saved by then.
CreateByCopyFails(src, sel) ==
  LET st == Saved(sel, <<src>>)
  IN  /\ Call
      /\ src \in Listed
      /\ \/ /\ MayFail
            /\ tables = "empty"
            /\ \E left \in Stopped(st, projects, Serialized(st, sel, <<src>>), sel) :
                 /\ projects' = left.projects
                 /\ Become(left.states)
                 /\ created' = created \cup left.made
            /\ tables' = "filled"
         \/ /\ tables = "filled"
            /\ tables' = "failed"
            /\ Become(st)
            /\ UNCHANGED <<projects, created>>
      /\ UNCHANGED <<last_created, keep_current, ons, disk>>

-----------------------------------------------------------------------------
OnStates ==
  \/ \E s \in State :
       \/ MarkState(s)
       \/ \E v \in Data \cup Listed : WriteState(s, v)
  \/ \E s \in Replaced : ReplaceState(s)

OnStack ==
  \E p \in Project :
    \/ CreateProject(p)
    \/ RemoveProject(p)
    \/ \E sel \in Switches : SetCurrent(p, sel) \/ EnterOn(p, sel)

OnProjects ==
  \E p \in Project, sel \in Selections :
    \/ ClearProject(p, sel)
    \/ \E q \in Project : CopyProject(p, q, sel)
    \/ \E b \in BOOLEAN : CreateByCopy(p, b, sel)
    \/ CreateByCopyFails(p, sel)

OnFiles ==
  \E sel \in Selections :
    \/ \E p \in Project : SaveProject(p, sel)
    \/ SaveAll(sel)
    \/ LoadProject(sel)
    \/ LoadAll(sel)
    \/ LoadFails(sel)
    \/ \E eof \in BOOLEAN : LoadAllFails(sel, eof)

Next ==
  \/ OnStates \/ OnStack \/ OnProjects \/ OnFiles
  \/ ClearAll
  \/ SetCurrentAsLastCreated
  \/ \E b \in BOOLEAN : SetKeepCurrent(b) \/ ExitOn(b) \/ LoadAsserts(b)

Spec == Init /\ [][Next]_vars

-----------------------------------------------------------------------------
SavedState == [value : Value, computed : BOOLEAN]

File == [projs : Seq([owner : Project,
                      saved : UNION {[sel -> SavedState] : sel \in Selections}]),
         last : Project \cup {None}]

TypeOK ==
  /\ projects \in Seq(Project)
  /\ states \in [State -> StateRecord]
  /\ last_created \in Project \cup {None}
  /\ keep_current \in BOOLEAN
  /\ ons \in Seq([old : Project, sel : Switches])
  /\ disk \in File \cup {None}
  /\ tables \in {"empty", "filled", "failed"}
  /\ created \subseteq Project
  /\ calls \in 0..MaxCalls

\* Whatever is written is well typed; the stack has no repetition; the table of
\* every internal state has an entry for each project of the stack; no two
\* projects share an object; the local state is not the object of a project that
\* is not current, and it is the object of the current one if plug-ins change it
\* in place.  So what a plug-in does in one project is not seen in another,
\* whatever mix of set_current, on, remove, copy, save, load and create_by_copy
\* went before.
StatesIsolated ==
  /\ TypeOK
  /\ \A i, j \in DOMAIN projects : projects[i] = projects[j] => i = j
  /\ \A s \in State :
       /\ \A p \in Listed : Has(states[s], p)
       /\ \A p, q \in Project :
            /\ Has(states[s], p)
            /\ Has(states[s], q)
            /\ states[s].tbl[p].cell = states[s].tbl[q].cell
            => p = q
       /\ projects # <<>> =>
            /\ s \in Replaced \/ states[s].local = states[s].tbl[Current].cell
            /\ \A p \in Project \ {Current} :
                 Has(states[s], p) => states[s].tbl[p].cell # states[s].local

\* The projects as values: what each project of the stack would show in each
\* state if it were current.
Content ==
  [p \in Listed |-> [s \in State |->
     [value |-> ValueOf(states[s], Current, p),
      computed |-> states[s].tbl[p].computed]]]

Abstract == INSTANCE ProjectSpec WITH
  stack <- projects,
  content <- Content,
  file <- IF disk = None THEN None ELSE disk.projs

\* The commits and updates of the internal states implement projects as values:
\* set_current and `on' change no content, every other operation changes the
\* project it names only, what load and create_by_copy make is what was saved,
\* and one that fails, in any project of the file, leaves the projects that
\* existed as they were, those it has read as they were saved, and the others it
\* has made empty.
ImplementsProjects == Abstract!Spec

\* A state of project p points to project q.
Points(p, q, s) == states[s].heap[states[s].tbl[p].cell] = q

\* After a project is removed no state of a remaining one points to it: `remove'
\* clears such states in every project.  The exception is Array, whose
\* clear_some_projects empties the array of the current project whatever array
\* it is asked to empty.
RemovedIsForgotten ==
  [][\A q \in Listed \ Listed', p \in Listed', s \in State \ Replaced :
       ~Points(p, q, s)']_vars

\* The states of the projects, and last_created_by_copy_ref, only point to
\* projects that exist (project.ml, on project_under_copy_ref: "there is no
\* possible dangling project pointers (projects at saving time and at loading
\* time are the same)").  Violated: create_by_copy replaces a pointer to a third
\* project by a pointer to a project that it creates and drops.
PointersExist ==
  /\ \A p \in Listed, q \in Project, s \in State : Points(p, q, s) => q \in Listed
  /\ last_created # None => last_created \in Listed

\* Descr.init asserts that the tables of the last load were emptied.  Violated:
\* a load that fails leaves them as they are, and no project can be loaded or
\* created by copy any more.
TablesAreEmpty == tables # "failed"

-----------------------------------------------------------------------------
(* Model checking of Projects.  Projects are interchangeable.              *)

FullOnly == {State}

\* The names of objects are immaterial: what counts is who shares an object.
Shape(x) ==
  [local |-> x.heap[x.local],
   tbl |-> [p \in Project |->
     IF ~Has(x, p) THEN Absent
     ELSE [computed |-> x.tbl[p].computed,
           value |-> x.heap[x.tbl[p].cell],
           is_local |-> x.tbl[p].cell = x.local,
           shared |-> {q \in Project : /\ Has(x, q)
                                       /\ x.tbl[q].cell = x.tbl[p].cell}]]]

\* The view without the number of calls: MaxCalls is then out of reach.
View == <<projects, last_created, keep_current, ons, disk, tables, created,
          [s \in State |-> Shape(states[s])]>>

CallsView == <<View, calls>>

Symmetry == Permutations(Project)

=============================================================================
