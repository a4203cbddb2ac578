----------------------------- MODULE QstackSpec -----------------------------
(***************************************************************************)
(* What src/src/libraries/utils/qstack.mli promises: a mutable stack, top  *)
(* first, with additions at both ends and access to any element.           *)
(***************************************************************************)
EXTENDS Naturals, Sequences

CONSTANTS
  Elem,     \* the data, D.t
  MaxSize   \* bound: elements in the stack

VARIABLE stack

\* The sequence s without its i-th element.
Without(s, i) == SubSeq(s, 1, i - 1) \o SubSeq(s, i + 1, Len(s))

\* The sequence s upside down.
Flip(s) == [i \in DOMAIN s |-> s[Len(s) - i + 1]]

Init == stack = <<>>

Clear == stack' = <<>>

Add(x) == Len(stack) < MaxSize /\ stack' = <<x>> \o stack

AddAtEnd(x) == Len(stack) < MaxSize /\ stack' = Append(stack, x)

\* An occurrence of x is removed; which one is not said.
RemoveOne(x) == \E i \in DOMAIN stack : /\ stack[i] = x
                                       /\ stack' = Without(stack, i)

MoveAtTop(x) == \E i \in DOMAIN stack : /\ stack[i] = x
                                       /\ stack' = <<x>> \o Without(stack, i)

MoveAtEnd(x) == \E i \in DOMAIN stack :
                  /\ stack[i] = x
                  /\ stack' = Append(Without(stack, i), x)

Image(f, s) == [i \in DOMAIN s |-> f[s[i]]]

\* Every element is replaced by its image, but those below some point come out
\* upside down: this is what the implementation guarantees (see Qstack).
MapElements(f) ==
  \E k \in 0..Len(stack) :
    stack' = Image(f, SubSeq(stack, 1, k))
               \o Flip(Image(f, SubSeq(stack, k + 1, Len(stack))))

Next ==
  \/ Clear
  \/ \E x \in Elem : \/ Add(x)
                     \/ AddAtEnd(x)
                     \/ RemoveOne(x)
                     \/ MoveAtTop(x)
                     \/ MoveAtEnd(x)
  \/ \E f \in [Elem -> Elem] : MapElements(f)

Spec == Init /\ [][Next]_stack

=============================================================================
