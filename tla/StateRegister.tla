--------------------------- MODULE StateRegister ----------------------------
(***************************************************************************)
(* One internal state, as the functor Register of                          *)
(* src/src/libraries/project/state_builder.ml makes it out of a mutable    *)
(* local state.                                                            *)
(*                                                                         *)
(* The program reads and writes the object `local' (Local_state.get).  The *)
(* table tbl has, for each project, the object that holds the state of     *)
(* that project and a flag.  Objects are cells of a heap: a project that   *)
(* shares a cell with another one sees its changes.  A state is a record   *)
(*   [local |-> cell, tbl |-> project -> entry, heap |-> cell -> value]    *)
(* and an operation of Register is a function from records to records; p   *)
(* is its project and cur the current one.                                 *)
(***************************************************************************)
EXTENDS Naturals

CONSTANTS
  Project,   \* project identities, pid
  Data,      \* values of a state that mention no project
  Default,   \* the value of a state that was just created
  Absent,    \* no entry in the table
  Transient, \* the states whose values are not saved (must_save is false)
  Replaced,  \* the states built by Array, which set_length replaces
  Copies     \* bound: live objects allocated for one project

\* Objects are named after the project they were allocated for.
Cell == Project \X (1..Copies)

Entry == [cell : Cell, computed : BOOLEAN]

ASSUME RegisterAssumption ==
  /\ Default \in Data
  /\ Data \cap Project = {}
  /\ Absent \notin Entry
  /\ Copies \in Nat /\ Copies >= 2   \* `create' and unserialize allocate

\* The content of a state is a plain value or a pointer to a project.
Value == Data \cup Project

StateRecord == [local : Cell,
                tbl : [Project -> Entry \cup {Absent}],
                heap : [Cell -> Value]]

Has(x, p) == x.tbl[p] # Absent

Used(x) == {x.local} \cup {x.tbl[p].cell : p \in {p \in Project : Has(x, p)}}

\* Allocation of a new object for project p, if the heap has room for it.
FreeFor(x, p) == {i \in 1..Copies : <<p, i>> \notin Used(x)}

NewCell(x, p) == <<p, CHOOSE i \in 1..Copies : i \in FreeFor(x, p)>>

\* Unreachable objects are forgotten.
Collect(x) == [x EXCEPT !.heap = [c \in Cell |-> IF c \in Used(x)
                                                 THEN x.heap[c] ELSE Default]]

\* What the state is for project p.
ValueOf(x, cur, p) == x.heap[IF p = cur THEN x.local ELSE x.tbl[p].cell]

-----------------------------------------------------------------------------
(* The operations of Register.                                             *)

\* Local_state.set, when p is current.
UpdateWith(x, cur, p, c) == IF p = cur THEN [x EXCEPT !.local = c] ELSE x

\* Mutant: the table is taken to know the object of the local state.
NotCommitted(x, cur, p) == x

\* `commit' and `update'.
Commit(x, cur, p) ==
  IF p = cur THEN [x EXCEPT !.tbl[p].cell = x.local] ELSE x

Update(x, cur, p) == UpdateWith(x, cur, p, x.tbl[p].cell)

\* `create', for each project of P (the first project excepted): the new object
\* is the local state if the project is current.
Create(x, cur, P) ==
  LET new == {NewCell(x, p) : p \in P}
      y == [x EXCEPT
              !.tbl = [p \in Project |->
                         IF p \in P
                         THEN [cell |-> NewCell(x, p), computed |-> FALSE]
                         ELSE x.tbl[p]],
              !.heap = [c \in Cell |->
                          IF c \in new THEN Default ELSE x.heap[c]]]
  IN  IF cur \in P THEN Update(y, cur, cur) ELSE y

\* `clean': the local state is a new object, the table is empty.
Clean(x) == [x EXCEPT !.tbl = [p \in Project |-> Absent],
                      !.heap[x.local] = Default]

\* `remove'.
RemoveEntry(x, p) == [x EXCEPT !.tbl[p] = Absent]

\* `clear', for each project of P, works on the object of the table and makes it
\* the local state if the project is current.
Clear(x, cur, P) ==
  LET cells == {x.tbl[p].cell : p \in P}
      y == [x EXCEPT
              !.tbl = [p \in Project |->
                         IF p \in P
                         THEN [cell |-> x.tbl[p].cell, computed |-> FALSE]
                         ELSE x.tbl[p]],
              !.heap = [c \in Cell |->
                          IF c \in cells THEN Default ELSE x.heap[c]]]
  IN  IF cur \in P THEN Update(y, cur, cur) ELSE y

\* The objects that Local_state.clear_some_projects empties, given those that
\* mention a project to clear: Ref empties these.  Array empties the local state
\* instead, whatever array it is given.  (Arrays have one length here; in a
\* shorter local state the assignment is out of bounds.)
Emptied(s, x, found) ==
  IF s \notin Replaced THEN found
  ELSE IF found = {} THEN {} ELSE {x.local}

\* Mutant: only the object of the local state is cleared.
ClearLocalPointers(s, x, D, P) ==
  IF x.heap[x.local] \in D THEN [x EXCEPT !.heap[x.local] = Default] ELSE x

\* clear_some_projects, for all the projects of P: the states that mention a
\* project of D are emptied.
ClearSomeProjects(s, x, D, P) ==
  LET found == {x.tbl[p].cell : p \in {p \in P : x.heap[x.tbl[p].cell] \in D}}
  IN  [x EXCEPT !.heap = [c \in Cell |-> IF c \in Emptied(s, x, found)
                                         THEN Default ELSE x.heap[c]]]

\* Mutant: `copy' shares the object instead of copying it.
CopyShared(x, cur, src, dst) ==
  UpdateWith([x EXCEPT !.tbl[dst] = x.tbl[src]], cur, dst, x.tbl[src].cell)

\* `copy' of src to dst, a new object with the same content.
Copy(x, cur, src, dst) ==
  LET c == NewCell(x, dst)
  IN  UpdateWith([x EXCEPT !.tbl[dst] = [x.tbl[src] EXCEPT !.cell = c],
                           !.heap[c] = x.heap[x.tbl[src].cell]], cur, dst, c)

\* `unserialize' of value v for project p, that is new: a state that was saved
\* gets a new object, and the object of p becomes the local state (the update is
\* forced).  The digests agree, since the program that reads wrote the file.
Unserialize(s, x, p, v, computed) ==
  LET c == IF s \in Transient THEN x.tbl[p].cell ELSE NewCell(x, p)
  IN  [x EXCEPT !.tbl[p] = [cell |-> c, computed |-> computed /\ s \notin Transient],
                !.heap[c] = IF s \in Transient THEN x.heap[c] ELSE v,
                !.local = c]

\* `set' of a State_builder.Ref, or of an Array: the local object is modified in
\* place.
Write(x, v) == [x EXCEPT !.heap[x.local] = v]

\* set_length of an Array: a new object becomes the local state, and the table
\* does not know it before `commit'.  (The object it replaces can be used again
\* if it is in no table.)
Replace(x, p) ==
  LET c == IF \E q \in Project : Has(x, q) /\ x.tbl[q].cell = x.local
           THEN NewCell(x, p) ELSE x.local
  IN  [x EXCEPT !.local = c, !.heap[c] = Default]

\* mark_as_computed.
MarkAsComputed(x, p) == [x EXCEPT !.tbl[p].computed = TRUE]

=============================================================================
