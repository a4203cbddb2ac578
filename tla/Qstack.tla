------------------------------- MODULE Qstack -------------------------------
(***************************************************************************)
(* src/src/libraries/utils/qstack.ml: a stack with additions at both ends, *)
(* kept as two lists.  `first' holds the top part, top first; `last' holds *)
(* the bottom part, bottom first.                                          *)
(***************************************************************************)
EXTENDS Naturals, Sequences, FiniteSetsExt, Functions

CONSTANTS
  Elem,     \* the data, D.t, with D.equal as equality
  MaxSize   \* bound: elements in the stack

ASSUME QstackAssumption == MaxSize \in Nat

VARIABLES first, last

vars == <<first, last>>

\* `length'.
Length == Len(first) + Len(last)

\* `mem'.
Mem(x) == x \in Range(first) \cup Range(last)

\* The list s upside down.
Reversed(s) == [i \in DOMAIN s |-> s[Len(s) - i + 1]]

\* The place of the first x in s, and s without it.
FirstAt(s, x) == Min({i \in DOMAIN s : s[i] = x})

Without(s, x) ==
  IF x \notin Range(s) THEN s
  ELSE SubSeq(s, 1, FirstAt(s, x) - 1) \o SubSeq(s, FirstAt(s, x) + 1, Len(s))

-----------------------------------------------------------------------------
Init == first = <<>> /\ last = <<>>

Clear == first' = <<>> /\ last' = <<>>

Add(x) ==
  /\ Length < MaxSize
  /\ first' = <<x>> \o first
  /\ UNCHANGED last

\* Mutant: the new element goes to the wrong end of the second list.
AppendToLast(x) ==
  /\ Length < MaxSize
  /\ last' = Append(last, x)
  /\ UNCHANGED first

AddAtEnd(x) ==
  /\ Length < MaxSize
  /\ last' = <<x>> \o last
  /\ UNCHANGED first

\* `top' on a stack whose first list is empty: `transfer' pushes the elements
\* of the second list one by one on the first.
TopTransfer ==
  /\ first = <<>>
  /\ last # <<>>
  /\ first' = Reversed(last)
  /\ last' = <<>>

\* `remove_with_flag': the first occurrence in `first' or, failing that, in
\* `last'.
FirstWithout(x) == Without(first, x)

LastWithout(x) == IF x \in Range(first) THEN last ELSE Without(last, x)

\* `remove' of an element that is not there does nothing.
RemoveOne(x) ==
  /\ Mem(x)
  /\ first' = FirstWithout(x)
  /\ last' = LastWithout(x)

\* move_at_top and move_at_end raise Invalid_argument if x is not there.
MoveAtTop(x) ==
  /\ Mem(x)
  /\ first' = <<x>> \o FirstWithout(x)
  /\ last' = LastWithout(x)

MoveAtEnd(x) ==
  /\ Mem(x)
  /\ first' = FirstWithout(x)
  /\ last' = <<x>> \o LastWithout(x)

Image(f, s) == [i \in DOMAIN s |-> f[s[i]]]

\* `map' uses List.rev_map on the second list.
MapElements(f) ==
  /\ first' = Image(f, first)
  /\ last' = Reversed(Image(f, last))

Next ==
  \/ Clear
  \/ TopTransfer
  \/ \E x \in Elem : \/ Add(x)
                     \/ AddAtEnd(x)
                     \/ RemoveOne(x)
                     \/ MoveAtTop(x)
                     \/ MoveAtEnd(x)
  \/ \E f \in [Elem -> Elem] : MapElements(f)

Spec == Init /\ [][Next]_vars

-----------------------------------------------------------------------------
(* What is kept, and the queries.                                          *)

\* The stack the two lists stand for: what `iter' and `fold' enumerate.
Contents == first \o Reversed(last)

\* Mutant: the second list is not reversed.
NthUnreversed(n) ==
  IF n < Len(first) THEN first[n + 1] ELSE last[n - Len(first) + 1]

\* `nth' n, for n < length.
Nth(n) ==
  IF n < Len(first) THEN first[n + 1] ELSE Reversed(last)[n - Len(first) + 1]

\* `idx' x, for an x that is there.
Idx(x) == FirstAt(Contents, x) - 1

TypeOK ==
  /\ first \in Seq(Elem)
  /\ last \in Seq(Elem)
  /\ Length <= MaxSize

\* The two lists behave as the one stack of qstack.mli, whatever the order of
\* additions at both ends, transfers, moves and removals.
Abstract == INSTANCE QstackSpec WITH stack <- Contents

ImplementsStack == Abstract!Spec

\* `nth' counts from the top across the two lists, and `idx' is the index that
\* `nth' takes (Project.on uses `nth 1' to find the project to restore).
NthCountsFromTop ==
  /\ \A n \in 0..(Length - 1) : Nth(n) = Contents[n + 1]
  /\ \A x \in Elem : Mem(x) => Nth(Idx(x)) = x

=============================================================================
