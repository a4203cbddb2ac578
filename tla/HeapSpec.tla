------------------------------ MODULE HeapSpec ------------------------------
(***************************************************************************)
(* What the malloc family promises its caller, whatever the allocator: a   *)
(* call either fails and changes nothing the caller can see, or hands out  *)
(* blocks that are aligned and overlap no block the caller still owns.     *)
(* live maps the address of each block the caller owns to its size and to  *)
(* the alignment it was asked for with.                                    *)
(***************************************************************************)
EXTENDS Integers

VARIABLE live

(* A block of no words still has an address of its own.                     *)
Extent(m, b) == m .. (m + (IF b.size = 0 THEN 0 ELSE b.size - 1))

Blocks(l) == DOMAIN l

IsBlock(b) == b.size \in Nat /\ b.align \in Nat \ {0}

-----------------------------------------------------------------------------
Init == live = [a \in {} |-> 0]

(* Blocks not in gone keep their address and size. *)
Keeps(gone) == \A a \in Blocks(live) \ gone : a \in Blocks(live') /\ live'[a] = live[a]

(* The blocks handed out by this call: aligned, and clear of all the blocks *)
(* the caller has afterwards.                                               *)
HandsOut(new) ==
  \A a \in new : /\ a \in Nat \ {0} /\ IsBlock(live'[a])
                 /\ a % live'[a].align = 0
                 /\ \A b \in Blocks(live') : b # a =>
                      Extent(a, live'[a]) \cap Extent(b, live'[b]) = {}

(* malloc, calloc, memalign and the independent_ calls: any number of new   *)
(* blocks (none when the call fails).                                       *)
Allocate ==
  /\ Keeps({})
  /\ HandsOut(Blocks(live') \ Blocks(live))

(* free and bulk_free. *)
Release ==
  \E gone \in SUBSET Blocks(live) :
    live' = [a \in Blocks(live) \ gone |-> live[a]]

(* realloc of one block: resized where it is, or moved.                     *)
Resize ==
  \E a \in Blocks(live) :
    /\ Keeps({a})
    /\ \E b \in Blocks(live') :
         /\ Blocks(live') = (Blocks(live) \ {a}) \cup {b}
         /\ b = a \/ b \notin Blocks(live)
         /\ HandsOut({b})

Next == Allocate \/ Release \/ Resize

Spec == Init /\ [][Next]_live

=============================================================================
