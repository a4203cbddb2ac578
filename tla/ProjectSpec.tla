---------------------------- MODULE ProjectSpec -----------------------------
(***************************************************************************)
(* What the library of projects promises (the documentation of             *)
(* src/src/libraries/project/project.mli, with the full selection for      *)
(* set_current and `on'): a project is a value, one content for each       *)
(* internal state, and an operation changes the content of the project it  *)
(* names, and of no other.  There are no local states, no commits and no   *)
(* updates here: to change the current project changes no content.         *)
(***************************************************************************)
EXTENDS Naturals, SequencesExt

CONSTANTS Project, State, Data, Default, Transient, Replaced, Selections, None

VARIABLES
  stack,    \* the projects, the current one first
  content,  \* for each project of the stack, its states
  file      \* the saved projects, or None

vars == <<stack, content, file>>

Empty == [value |-> Default, computed |-> FALSE]

Blank == [s \in State |-> Empty]

Listed == Range(stack)

\* The stack without p, which is in it once.
OtherThan(p) ==
  LET k == CHOOSE k \in DOMAIN stack : stack[k] = p
  IN  SubSeq(stack, 1, k - 1) \o SubSeq(stack, k + 1, Len(stack))

Init ==
  /\ \E p \in Project : stack = <<p>>
  /\ content = [p \in Listed |-> Blank]
  /\ file = None

\* Project p is emptied in the states of sel; the others are as they were.
Cleared(p, sel) == [s \in State |-> IF s \in sel THEN Empty ELSE content[p][s]]

\* A state that points to a project of gone loses its content, not its flag.  In
\* its place the array of the current project may do so.
Purged(c, gone, is_current, arrays) ==
  [s \in State |->
     IF \/ s \notin Replaced /\ c[s].value \in gone
        \/ s \in arrays /\ is_current
     THEN [c[s] EXCEPT !.value = Default]
     ELSE c[s]]

-----------------------------------------------------------------------------
Write ==
  /\ UNCHANGED <<stack, file>>
  /\ stack # <<>>
  /\ \E s \in State, v \in Data \cup Project :
       content' = [content EXCEPT ![stack[1]][s].value = v]

MarkAsComputed ==
  /\ UNCHANGED <<stack, file>>
  /\ stack # <<>>
  /\ \E s \in State : content' = [content EXCEPT ![stack[1]][s].computed = TRUE]

Create ==
  /\ UNCHANGED file
  /\ \E p \in Project \ Listed :
       /\ stack' = Append(stack, p)
       /\ content' = [q \in Listed \cup {p} |->
                        IF q = p THEN Blank ELSE content[q]]

\* set_current, and both ends of `on'.
SetCurrent ==
  /\ \E p \in Listed : stack' = <<p>> \o OtherThan(p)
  /\ UNCHANGED <<content, file>>

\* The current project that is removed gives way to the one that was current
\* before it.
RemoveProject ==
  /\ UNCHANGED file
  /\ Len(stack) > 1
  /\ \E p \in Listed :
       /\ stack' = OtherThan(p)
       /\ \E arrays \in SUBSET Replaced :
            content' = [q \in Listed \ {p} |->
                          Purged(content[q], {p}, q = stack'[1], arrays)]

Copy ==
  /\ UNCHANGED <<stack, file>>
  /\ \E src, dst \in Listed, sel \in Selections :
       content' = [content EXCEPT ![dst] =
                     [s \in State |-> IF s \in sel THEN content[src][s] ELSE @[s]]]

Clear ==
  /\ UNCHANGED <<stack, file>>
  /\ \E p \in Listed, sel \in Selections :
       content' = [content EXCEPT ![p] = Cleared(p, sel)]

ClearAll ==
  /\ UNCHANGED <<stack, file>>
  /\ content' = [p \in Listed |-> Blank]

-----------------------------------------------------------------------------
(* Files.                                                                  *)

\* The content of the states of sel, with what is never saved left out.
Selected(p, sel) ==
  [s \in sel |-> IF s \in Transient THEN [content[p][s] EXCEPT !.value = Default]
                                    ELSE content[p][s]]

FileOf(ps, sel) ==
  [i \in DOMAIN ps |-> [owner |-> ps[i], saved |-> Selected(ps[i], sel)]]

\* The content of a project that is read back.  Pointers are renamed.
ReadBack(saved, sel, ren) ==
  [s \in State |->
     IF s \in (sel \cap DOMAIN saved) \ Transient
     THEN [saved[s] EXCEPT !.value = IF @ \in DOMAIN ren THEN ren[@] ELSE @]
     ELSE Empty]

NamesOf(f, ren) == [i \in DOMAIN f |-> ren[f[i].owner]]

\* The projects of old keep their content, those of f have what was saved, and
\* any other is empty.
ContentWith(old, f, sel, ren) ==
  [p \in Range(old) \cup Range(ren) |->
     IF p \in Range(old) THEN content[p]
     ELSE IF \E i \in DOMAIN f : NamesOf(f, ren)[i] = p
     THEN LET i == CHOOSE i \in DOMAIN f : NamesOf(f, ren)[i] = p
          IN  ReadBack(f[i].saved, sel, ren)
     ELSE Blank]

Owners(f) == {f[i].owner : i \in DOMAIN f}

Pointed(f) ==
  UNION {{f[i].saved[s].value : s \in DOMAIN f[i].saved} : i \in DOMAIN f}
    \cap Project

\* The projects of f are loaded below the projects of old.
Load(old, f, sel, copying) ==
  /\ Len(stack') = Len(old) + Len(f)
  /\ \E ren \in Injection(Owners(f) \cup Pointed(f), Project \ Listed) :
       LET names == NamesOf(f, ren)
           exist == Range(old) \cup Range(names)
           loaded == ContentWith(old, f, sel, ren)
       IN  /\ stack' = old \o names
           /\ \E arrays \in SUBSET (Replaced \cap sel) :
                content' = [p \in exist |->
                  IF p \in Range(old) \/ copying THEN loaded[p]
                  ELSE Purged(loaded[p], Project \ exist,
                              p = names[Len(names)], arrays)]

SaveSome ==
  /\ \E sel \in Selections :
       \/ \E p \in Listed : file' = FileOf(<<p>>, sel)
       \/ file' = FileOf(stack, sel)
  /\ UNCHANGED <<stack, content>>

LoadSome ==
  /\ file # None
  /\ \E sel \in Selections : Load(stack, file, sel, FALSE)
  /\ UNCHANGED file

LoadAll ==
  /\ file # None
  /\ \E sel \in Selections : Load(<<>>, file, sel, FALSE)
  /\ UNCHANGED file

\* A load of f stops: the projects of f that were read have what was saved, each
\* on top of the one before; the one that was being read, and those they point
\* to, which are below the projects of old, are empty.
Stops(old, f, top) ==
  \E sel \in Selections, i \in 0..(Len(f) + 1) :
    LET g == [j \in {j \in DOMAIN f : j <= i} |->
                IF j = i THEN [f[j] EXCEPT !.saved = [s \in {} |-> Empty]] ELSE f[j]]
    IN  \E S \in SUBSET Pointed(f) :
          \E ren \in Injection(Owners(g) \cup S, Project \ Listed) :
            /\ Len(stack') = Len(top) + Len(old) + Cardinality(Range(ren))
            /\ \E rest \in SetToSeqs(Range(ren) \ Range(NamesOf(g, ren))) :
                 stack' = top \o Reverse(NamesOf(g, ren)) \o old \o rest
            /\ content' = [p \in Range(stack') |->
                             IF p \in Range(top) THEN Blank
                             ELSE ContentWith(old, g, sel, ren)[p]]

LoadFails == file # None /\ Stops(stack, file, <<>>) /\ UNCHANGED file

\* A load_all that fails may also leave a new, empty, project.
LoadAllFails ==
  /\ file # None
  /\ \E top \in {<<>>} \cup {<<d>> : d \in Project \ Listed} :
       Stops(<<>>, file, top)
  /\ UNCHANGED file

CreateByCopy ==
  /\ UNCHANGED file
  /\ \E src \in Listed, sel \in Selections :
       Load(stack, FileOf(<<src>>, sel), sel, TRUE)

CreateByCopyFails ==
  /\ UNCHANGED file
  /\ \E src \in Listed, sel \in Selections :
       Stops(stack, FileOf(<<src>>, sel), <<>>)

Next ==
  \/ SetCurrent \/ Create \/ RemoveProject
  \/ Copy \/ Clear \/ ClearAll \/ MarkAsComputed \/ Write
  \/ SaveSome \/ LoadSome \/ LoadAll \/ LoadFails \/ LoadAllFails \/ CreateByCopy
  \/ CreateByCopyFails

Spec == Init /\ [][Next]_vars

=============================================================================
