----------------------------- MODULE MemorySpec -----------------------------
(***************************************************************************)
(* What a memory model of the E-ACSL runtime promises the monitored        *)
(* program, whichever of the two is linked in: it records the blocks the   *)
(* program has, and its queries answer for every address as if that record *)
(* were a set of disjoint intervals.                                       *)
(*                                                                         *)
(* blocks maps the base address of each block to its size and flags;       *)
(* written is the set of addresses the program has initialised.            *)
(***************************************************************************)
EXTENDS MemoryOps

VARIABLES blocks, written

-----------------------------------------------------------------------------
(* memory_init has recorded the arguments of the program and the safe       *)
(* locations; the heap is empty.                                            *)
IsRecord(b) ==
  /\ DOMAIN b \subseteq Nat
  /\ b \in [DOMAIN b -> [size : Nat, freeable : BOOLEAN, readonly : BOOLEAN]]

Init ==
  /\ IsRecord(blocks)
  /\ \A p \in DOMAIN blocks : /\ ~ blocks[p].freeable
                              /\ Clear(Without(blocks, p), p, blocks[p].size)
  /\ written \subseteq UNION {Cells(p, blocks[p].size) : p \in DOMAIN blocks}

(* A fresh place for n bytes among the blocks of b. *)
Fresh(b, p, n) == p \in Nat /\ n \in Nat /\ Clear(b, p, n)

(* A variable is declared; met again, its old block gives way. *)
store_block(p, n) ==
  /\ Fresh(blocks, p, n)
  /\ blocks' = Including(blocks, p, Block(n, FALSE))
  /\ written' = written \ Cells(p, n)

store_block_duplicate(p, n) ==
  /\ Fresh(Without(blocks, p), p, n)
  /\ blocks' = Including(Without(blocks, p), p, Block(n, FALSE))
  /\ written' = written \ (Cells(p, blocks[p].size) \cup Cells(p, n))

delete_block(p) ==
  /\ ~ blocks[p].freeable
  /\ blocks' = Without(blocks, p)
  /\ written' = written \ Cells(p, blocks[p].size)

(* Bytes of one block are initialised. *)
initialize(p) ==
  /\ written \subseteq written'
  /\ written' \ written \subseteq Cells(p, blocks[p].size)
  /\ UNCHANGED blocks

mark_readonly(p) ==
  /\ blocks' = [blocks EXCEPT ![p].readonly = TRUE]
  /\ UNCHANGED written

memory_clean == blocks' = <<>> /\ written' = {}

-----------------------------------------------------------------------------
(* The allocation functions, as their contracts in stdlib.h have them: the  *)
(* block is fresh, that of calloc is initialised, free needs a block of the *)
(* heap, and realloc frees it for a fresh one.  When they return NULL       *)
(* nothing changes.                                                         *)
malloc(p, n) ==
  /\ Fresh(blocks, p, n)
  /\ blocks' = Including(blocks, p, Block(n, TRUE))
  /\ written' = written \ Cells(p, n)

calloc(p, n) ==
  /\ Fresh(blocks, p, n)
  /\ blocks' = Including(blocks, p, Block(n, TRUE))
  /\ written' = written \cup Cells(p, n)

free(p) ==
  /\ blocks[p].freeable
  /\ blocks' = Without(blocks, p)
  /\ written' = written \ Cells(p, blocks[p].size)

(* The initialised bytes both sizes have in common move with the block.     *)
Moved(p, q, n) ==
  {a \in Cells(q, n) : a - q + p \in written /\ a - q < blocks[p].size}

realloc(p, q, n) ==
  /\ blocks[p].freeable
  /\ Fresh(Without(blocks, p), q, n)
  /\ blocks' = Including(Without(blocks, p), q, Block(n, TRUE))
  /\ written' = ((written \ Cells(p, blocks[p].size)) \ Cells(q, n))
                \cup Moved(p, q, n)

-----------------------------------------------------------------------------
Next ==
  \/ \E p \in DOMAIN blocks' \ DOMAIN blocks :
       \/ store_block(p, blocks'[p].size)
       \/ malloc(p, blocks'[p].size)
       \/ calloc(p, blocks'[p].size)
  \/ \E p \in DOMAIN blocks :
       initialize(p) \/ delete_block(p) \/ free(p) \/ mark_readonly(p)
  \/ \E p \in DOMAIN blocks \cap DOMAIN blocks' :
       store_block_duplicate(p, blocks'[p].size)
  \/ \E p \in DOMAIN blocks, q \in DOMAIN blocks' : realloc(p, q, blocks'[q].size)
  \/ memory_clean

Spec == Init /\ [][Next]_<<blocks, written>>

=============================================================================
