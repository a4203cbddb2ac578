--------------------------- MODULE MCProjectModels --------------------------
(***************************************************************************)
(* Four models of the library of projects in one state space; `model'     *)
(* tells which:                                                            *)
(*   "nested"      one state and nested calls of `on', without a bound on  *)
(*                 the number of calls;                                    *)
(*   "selections"  two states, one of them never saved, and operations on  *)
(*                 any selection of them, files included;                  *)
(*   "stack"       the two lists of the stack of projects (Qstack);        *)
(*   "hooks"       two hooks of the user and one of a plug-in on the       *)
(*                 current project, which change it and raise exceptions.  *)
(***************************************************************************)
EXTENDS Qstack, ProjectHooks, TLC

CONSTANTS Data, Default, Absent, None, s1, s2, h1, h2, h3

VARIABLES projects, states, last_created, keep_current, ons, disk, tables,
          created, calls, model

library == <<projects, states, last_created, keep_current, ons, disk, tables,
             created, calls>>

One == {s1}
Both == {s1, s2}

OnlyOne == {One}
OnlyBoth == {Both}
AnyOfBoth == SUBSET Both

TwoHooks == <<h1, h2>>
OneHook == <<h3>>

N == INSTANCE Projects WITH
  Copies <- 3, Transient <- {}, Replaced <- One, State <- One,
  Selections <- OnlyOne, Switches <- OnlyOne, Debug <- FALSE, MayPoint <- FALSE,
  MaySave <- FALSE, MayFail <- FALSE, MaxOn <- 2, MaxCalls <- 1000

S == INSTANCE Projects WITH
  Copies <- 3, Transient <- {s2}, Replaced <- One, State <- Both,
  Selections <- AnyOfBoth, Switches <- OnlyBoth, Debug <- FALSE,
  MayPoint <- TRUE, MaySave <- TRUE, MayFail <- FALSE, MaxOn <- 0,
  MaxCalls <- 4

UnionInit ==
  /\ model \in {"nested", "selections", "stack", "hooks"}
  /\ IF model = "selections" THEN S!Init ELSE N!Init
  /\ Init
  /\ HooksInit
  /\ listed = projects

UnionNext ==
  /\ \/ /\ model = "nested"
        /\ N!Next
        /\ UNCHANGED <<first, last, hooks>>
     \/ /\ model = "selections"
        /\ S!Next
        /\ UNCHANGED <<first, last, hooks>>
     \/ /\ model = "stack"
        /\ Next
        /\ UNCHANGED <<library, hooks>>
     \/ /\ model = "hooks"
        /\ HooksNext
        /\ UNCHANGED <<library, first, last>>
  /\ UNCHANGED model

UnionSpec == UnionInit /\ [][UnionNext]_<<library, first, last, hooks, model>>

\* Of the models only "selections" has a bound on the calls within reach.
View == <<model, first, last,
          CASE model = "hooks" -> hooks
            [] model = "selections" -> S!CallsView
            [] OTHER -> N!View>>

Symmetry == Permutations(Project)

-----------------------------------------------------------------------------
\* No two projects share an object, and the local states are those of the
\* current project (StatesIsolated of Projects), with nested calls of `on' and
\* with any selections.
StatesIsolated ==
  IF model = "selections" THEN S!StatesIsolated ELSE N!StatesIsolated

\* The commits and updates of set_current, `on', copy, clear, remove, save, load
\* and create_by_copy implement projects as values (ImplementsProjects of
\* Projects), with nested calls of `on' and with any selections.
ImplementsProjects ==
  /\ IF model = "selections" THEN S!Abstract!Init ELSE N!Abstract!Init
  /\ [][model = "nested" => N!Abstract!Next]_(N!Abstract!vars)
  /\ [][model = "selections" => S!Abstract!Next]_(S!Abstract!vars)

=============================================================================
