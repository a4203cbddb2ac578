---------------------------- MODULE MemoryClient ----------------------------
(***************************************************************************)
(* The program a memory model monitors.  It is legal: its variables do not *)
(* overlap, it initialises only memory it has and it deletes a block by    *)
(* its base.  free and realloc get any address.                            *)
(*                                                                         *)
(* heap_allocation_size and heap_allocated_blocks are the leak counters,   *)
(* status tells whether the program still runs, written is what it has     *)
(* initialised and budget the calls of each kind it has left (a bound).    *)
(* model names the memory model the program is linked with; the module of  *)
(* a model acts when it is its own.                                        *)
(***************************************************************************)
EXTENDS MemoryOps, FiniteSetsExt

CONSTANTS
  Model,          \* the memory model that is described
  SIZE_MAX,       \* the largest size_t
  PTR_SZ,         \* sizeof(void*)
  StaticBlocks,   \* <<address, size>> of the variables the program may declare
  GlobalAddrs,    \* the addresses of globals, the only ones made read-only
  HeapBases,      \* where the allocator may put a block
  MALLOC_ALIGNMENT,
  HeapSizes,      \* sizes asked of malloc and realloc
  ArrayShapes,    \* <<count, element size>> asked of calloc
  AlignedShapes,  \* <<alignment, size>> asked of the aligned allocations
  Ranges,         \* <<offset, length>> of the initialisations
  BadFrees,       \* addresses that are no heap block
  Profiles        \* initial budgets

VARIABLES model, heap_allocation_size, heap_allocated_blocks, status, written,
          budget

clientVars ==
  <<model, heap_allocation_size, heap_allocated_blocks, status, written, budget>>

Running == model = Model /\ status = "running"

(* No call is made when the program has stopped. *)
WhileRunning(S) == IF Running THEN S ELSE {}

(* The calls of one kind are counted. *)
Spend(kind) ==
  /\ Running /\ budget[kind] > 0
  /\ UNCHANGED model
  /\ budget' = [budget EXCEPT ![kind] = @ - 1]

-----------------------------------------------------------------------------
(* The allocator behind public_malloc and the rest: it fails, or finds room *)
(* for n bytes at an aligned place.                                         *)
public_malloc(b, n, alignment) ==
  {0} \cup {q \in HeapBases : q % alignment = 0 /\ Clear(b, q, n)}

public_realloc(b, p, n) == public_malloc(Without(b, p), n, MALLOC_ALIGNMENT)

(* A declaration that is met again is that of the same variable. *)
SameVariable(b, p, n) == p \in DOMAIN b => b[p].size = n

-----------------------------------------------------------------------------
(* powof2: halve while even. *)
powof2(x) == \E k \in 0 .. 16 : x = 2^k

AlignedAllocArgs(alignment, size) ==
  size # 0 /\ alignment # 0 /\ powof2(alignment) /\ size % alignment = 0

PosixMemalignArgs(alignment, size) ==
  size # 0 /\ alignment # 0 /\ powof2(alignment) /\ alignment % PTR_SZ = 0

(* The counters after update_heap_allocation with the given changes: the    *)
(* sizes add up, and the sign of each decides about the number of blocks.   *)
Sign(n) == IF n > 0 THEN 1 ELSE IF n < 0 THEN -1 ELSE 0

update_heap_allocation(first, second) ==
  /\ heap_allocation_size' = heap_allocation_size + first + second
  /\ heap_allocated_blocks' = heap_allocated_blocks + Sign(first) + Sign(second)

Uncounted == UNCHANGED <<heap_allocation_size, heap_allocated_blocks>>

-----------------------------------------------------------------------------
HeapSize(b) == MapThenSumSet(LAMBDA p : b[p].size, HeapBlocks(b))

(* What calls do to the bytes the program has initialised. *)
Forgotten(b, p) == written \ Cells(p, b[p].size)

Carried(b, p, q, n) ==
  (Forgotten(b, p) \ Cells(q, n))
  \cup {a \in Cells(q, n) : a - q + p \in written /\ a - q < b[p].size}

(* The ranges that lie within the block at p. *)
Within(b, p) == {r \in Ranges : r[1] + r[2] <= b[p].size}
=============================================================================
