---------------------------- MODULE SegmentModel ----------------------------
(***************************************************************************)
(* The segment (shadow memory) model.  heap_shadow maps each heap segment  *)
(* of a tracked block, by its first address, to the base of the block and, *)
(* in the first one, its length; init_shadow is the set of heap addresses  *)
(* whose bit of the initialisation shadow is set; static is the shadow of  *)
(* everything else.                                                        *)
(*                                                                         *)
(* tainted is an observer: a realloc has moved a block, or has grown one   *)
(* over bits that calloc had set beyond its end.                           *)
(***************************************************************************)
EXTENDS Sequences, Bits, MemoryClient

(***************************************************************************)
(* The shadow of the stack, of globals and of thread-local storage in the  *)
(* segment model.  Every application byte has a byte of primary shadow: a  *)
(* code that tells the offset and, for short blocks, the length, and two   *)
(* bits for initialised and read-only.  Long blocks keep length and offset *)
(* in the secondary shadow, 8 bytes for every 8 of the block.              *)
(*                                                                         *)
(* A shadow S is [prim, sec]: prim maps the addresses whose byte is not 0  *)
(* to [code, init, ro], sec the 4-byte slots, named by the address they    *)
(* shadow, to the number stored there.                                     *)
(***************************************************************************)

LONG_BLOCK == 8
LONG_BLOCK_INDEX_START == 48

IS_LONG_BLOCK(size) == size > LONG_BLOCK
LONG_BLOCK_BOUNDARY(size) == size - (size % LONG_BLOCK)

(* Numbers 1 to 36: every length up to 8 with every offset in it. *)
short_offsets_base == <<0, 1, 2, 4, 7, 11, 16, 22, 29>>
ShortCode(size, i) == short_offsets_base[size + 1] + i

short_lengths ==
  <<0, 1, 2,2, 3,3,3, 4,4,4,4, 5,5,5,5,5, 6,6,6,6,6,6, 7,7,7,7,7,7,7,
    8,8,8,8,8,8,8,8>>
short_offsets ==
  <<0, 0, 0,1, 0,1,2, 0,1,2,3, 0,1,2,3,4, 0,1,2,3,4,5, 0,1,2,3,4,5,6,
    0,1,2,3,4,5,6,7>>

NoShadow == [prim |-> <<>>, sec |-> <<>>]
ZeroByte == [code |-> 0, init |-> FALSE, ro |-> FALSE]
Code(c) == [ZeroByte EXCEPT !.code = c]

Byte(S, a) == IF a \in DOMAIN S.prim THEN S.prim[a] ELSE ZeroByte
Slot(S, a) == IF a \in DOMAIN S.sec THEN S.sec[a] ELSE 0

static_allocated_one(S, a) == Byte(S, a) # ZeroByte

-----------------------------------------------------------------------------
(* The codes of a block of n bytes at p.  In a long block the bytes of a    *)
(* whole segment count from 48, the remainder from 56: it refers back to    *)
(* the last whole segment.                                                  *)
LongCode(n, i) ==
  LONG_BLOCK_INDEX_START + (i % LONG_BLOCK)
  + (IF i < LONG_BLOCK_BOUNDARY(n) THEN 0 ELSE LONG_BLOCK)

LongSlots(p, n) ==
  [a \in {p + 4 * j : j \in 0 .. LONG_BLOCK_BOUNDARY(n) \div 4 - 1} |->
     IF (a - p) % LONG_BLOCK = 0 THEN n ELSE a - p - 4]

shadow_alloca(S, p, n) ==
  CASE n = 0 -> [S EXCEPT !.prim = (p :> [Byte(S, p) EXCEPT !.ro = TRUE]) @@ @]
    [] n > 0 /\ IS_LONG_BLOCK(n) ->
         [prim |-> [a \in p .. p + n - 1 |-> Code(LongCode(n, a - p))] @@ S.prim,
          sec  |-> LongSlots(p, n) @@ S.sec]
    [] OTHER ->
         [S EXCEPT !.prim = [a \in p .. p + n - 1 |-> Code(ShortCode(n, a - p))] @@ @]

Zeroed(f, A) == [a \in DOMAIN f \ A |-> f[a]]

(* Length and offset of address a. *)
InfoOf(S, a, code) ==
  IF code >= LONG_BLOCK_INDEX_START
  THEN LET offset == code - LONG_BLOCK_INDEX_START
       IN [length |-> Slot(S, a - offset), offset |-> Slot(S, a - offset + 4) + offset]
  ELSE [length |-> short_lengths[code + 1], offset |-> short_offsets[code + 1]]

static_info(S, a) ==
  IF static_allocated_one(S, a) THEN InfoOf(S, a, Byte(S, a).code)
  ELSE [length |-> 0, offset |-> 0]

shadow_freea(S, p, size) ==
  [prim |-> Zeroed(S.prim, p .. p + size - 1),
   sec  |-> Zeroed(S.sec, p .. p + size - 1)]

(* The region of size bytes at addr lies in the block that holds base_ptr.  *)
RegionOf(info, addr, size, base_ptr) ==
  /\ addr # base_ptr => base_ptr \in addr - info.offset .. addr - info.offset + info.length - 1
  /\ info.offset + size <= info.length

static_allocated(S, addr, size, base_ptr) ==
  /\ static_allocated_one(S, addr)
  /\ RegionOf(static_info(S, addr), addr, size, base_ptr)

-----------------------------------------------------------------------------
(* Initialisation and read-only marks, eight bytes at a time in the code.   *)
initialize_static_region(S, a, n) ==
  [S EXCEPT !.prim = [b \in a .. a + n - 1 |-> [Byte(S, b) EXCEPT !.init = TRUE]] @@ @]

mark_readonly_region(S, a, n) ==
  [S EXCEPT !.prim = [b \in a .. a + n - 1 |-> [Byte(S, b) EXCEPT !.ro = TRUE]] @@ @]

static_initialized(S, a, n) ==
  /\ static_allocated(S, a, n, a)
  /\ \A b \in a .. a + n - 1 : Byte(S, b).init

global_readonly(S, a) == Byte(S, a).ro

-----------------------------------------------------------------------------
CONSTANTS
  HEAP_SEGMENT,            \* 32
  HEAP_START, HEAP_END,    \* the tracked heap; a multiple of HEAP_SEGMENT each
  StaticAddrs,             \* stack, globals and thread-local storage
  InitialBlocks,           \* <<address, size, initialised>> of memory_init
  Probes                   \* addresses the queries are asked about

VARIABLES heap_shadow, init_shadow, static, tainted

vars == <<heap_shadow, init_shadow, static, tainted, clientVars>>

ALIGN_LEFT(n, m) == n - (n % m)
ALIGN_RIGHT(n, m) == n + (IF n % m # 0 THEN m - (n % m) ELSE 0)
max_allocated == ALIGN_LEFT(SIZE_MAX, HEAP_SEGMENT)
ALLOC_SIZE(s) == IF s < max_allocated THEN ALIGN_RIGHT(s, HEAP_SEGMENT) ELSE 0

(* The bounds of a segment are both inclusive. *)
IS_ON_HEAP(a) == a \in HEAP_START .. HEAP_END
IS_ON_STATIC(a) == a \in StaticAddrs
IS_ON_GLOBAL(a) == a \in GlobalAddrs

NoSegment == [base |-> 0, length |-> 0]
Segment(a) ==
  IF ALIGN_LEFT(a, HEAP_SEGMENT) \in DOMAIN heap_shadow
  THEN heap_shadow[ALIGN_LEFT(a, HEAP_SEGMENT)] ELSE NoSegment
LengthAt(base) == Segment(base).length

-----------------------------------------------------------------------------
(* The record of (nonempty) blocks the shadows stand for. *)
StaticBases ==
  {a \in DOMAIN static.prim : static_info(static, a).offset = 0
                              /\ static_info(static, a).length > 0}
HeapBasesInUse == {a \in DOMAIN heap_shadow : heap_shadow[a].base = a}

Recorded ==
  [p \in StaticBases \cup HeapBasesInUse |->
     IF IS_ON_HEAP(p)
     THEN [size |-> heap_shadow[p].length, freeable |-> TRUE, readonly |-> FALSE]
     ELSE [size |-> static_info(static, p).length, freeable |-> FALSE,
           readonly |-> IS_ON_GLOBAL(p) /\ global_readonly(static, p)]]

(* memory_init: the program's arguments, and locations known to be safe.    *)
RECURSIVE RecordAll(_, _)
RecordAll(S, s) ==
  IF s = <<>> THEN S
  ELSE RecordAll(IF s[1][3]
                 THEN initialize_static_region(shadow_alloca(S, s[1][1], s[1][2]),
                                               s[1][1], s[1][2])
                 ELSE shadow_alloca(S, s[1][1], s[1][2]), Tail(s))

Init ==
  /\ static = RecordAll(NoShadow, InitialBlocks)
  /\ heap_shadow = <<>> /\ init_shadow = {}
  /\ tainted = FALSE
  /\ written = UNION {Cells(e[1], e[2]) :
                        e \in {InitialBlocks[i] : i \in
                                 {j \in DOMAIN InitialBlocks : InitialBlocks[j][3]}}}
  /\ heap_allocation_size = 0 /\ heap_allocated_blocks = 0
  /\ model = Model /\ status = "running"
  /\ budget \in Profiles

-----------------------------------------------------------------------------
heapVars == <<heap_shadow, init_shadow, tainted>>

(* What heap_info and static_info tell of address a. *)
heap_info(a) ==
  [base |-> Segment(a).base, length |-> LengthAt(Segment(a).base),
   offset |-> a - Segment(a).base]

predicate_length(a) ==
  IF IS_ON_HEAP(a) THEN heap_info(a).length ELSE static_info(static, a).length

allocated(a, n, base) ==
  IF IS_ON_HEAP(a)
  THEN /\ Segment(a).base # 0
       /\ Segment(base).base = Segment(a).base
       /\ a - Segment(a).base + n <= LengthAt(Segment(a).base)
  ELSE IS_ON_STATIC(a) /\ static_allocated(static, a, n, base)

readonly(a) == IS_ON_GLOBAL(a) /\ global_readonly(static, a)

freeable(a) == IS_ON_HEAP(a) /\ Segment(a).base # 0 /\ Segment(a).base = a

store_block(p, n) ==
  /\ Spend("store")
  /\ Clear(Recorded, p, n)
  /\ static' = shadow_alloca(static, p, n)
  /\ written' = written \ Cells(p, n)
  /\ UNCHANGED <<heapVars, status>> /\ Uncounted

delete_block(p) ==
  /\ Spend("delete")
  /\ ~ IS_ON_HEAP(p)
  /\ static' = shadow_freea(static, p, predicate_length(p))
  /\ written' = Forgotten(Recorded, p)
  /\ UNCHANGED <<heapVars, status>> /\ Uncounted

store_block_duplicate(p, n) ==
  /\ Spend("duplicate")
  /\ Clear(Without(Recorded, p), p, n) /\ SameVariable(Recorded, p, n)
  /\ static' = shadow_alloca(IF allocated(p, n, p)
                             THEN shadow_freea(static, p, predicate_length(p))
                             ELSE static, p, n)
  /\ written' = written \ Cells(p, n)
  /\ UNCHANGED <<heapVars, status>> /\ Uncounted

-----------------------------------------------------------------------------
(* The bit of an address in the initialisation shadow: bytes of the shadow  *)
(* are 8 addresses.  A region that does not start at such a byte has its    *)
(* first bits set apart.                                                    *)
Skip(a) == (a - HEAP_START) % 8
(* Wrong: the first byte of the shadow is always filled up.                 *)
ToByteEnd(a, n) == 8 - Skip(a)

InSkip(a, n) == IF n > 8 - Skip(a) THEN 8 - Skip(a) ELSE n

SetRest(a, n, w) == IF n > 0 THEN setbits(n, a, w) ELSE w

initialize_heap_region(a, n) ==
  init_shadow' =
    IF Skip(a) = 0 THEN SetRest(a, n, init_shadow)
    ELSE SetRest(a - Skip(a) + 8, n - InSkip(a, n),
                 setbits64_skip(a - Skip(a), InSkip(a, n), init_shadow, Skip(a)))

initialize(a, n) ==
  /\ Spend("initialize")
  /\ CASE IS_ON_HEAP(a) -> initialize_heap_region(a, n) /\ UNCHANGED static
       [] IS_ON_STATIC(a) -> /\ static' = initialize_static_region(static, a, n)
                             /\ UNCHANGED init_shadow
  /\ written' = written \cup Cells(a, n)
  /\ UNCHANGED <<heap_shadow, tainted, status>> /\ Uncounted

full_init(p) ==
  /\ Spend("full_init")
  /\ IF IS_ON_HEAP(p)
     THEN initialize_heap_region(p, predicate_length(p)) /\ UNCHANGED static
     ELSE /\ static' = initialize_static_region(static, p, predicate_length(p))
          /\ UNCHANGED init_shadow
  /\ written' = written \cup Cells(p, predicate_length(p))
  /\ UNCHANGED <<heap_shadow, tainted, status>> /\ Uncounted

mark_readonly(p) ==
  /\ Spend("readonly")
  /\ static' = mark_readonly_region(static, p, predicate_length(p))
  /\ UNCHANGED <<heapVars, written, status>> /\ Uncounted

-----------------------------------------------------------------------------
Fails == UNCHANGED <<heapVars, static, written, status>> /\ Uncounted

Stops(how) == /\ status' = how
              /\ UNCHANGED <<heapVars, static, written>> /\ Uncounted

(* Every segment of the block gets its base, the first also the length.     *)
Segments(q, n, alloc_size) ==
  [a \in {q + HEAP_SEGMENT * i : i \in 0 .. alloc_size \div HEAP_SEGMENT - 1} |->
     [base |-> q, length |-> IF a = q THEN n ELSE 0]]

Unset(hs, p, alloc_size) ==
  [a \in DOMAIN hs \ (p .. p + alloc_size - 1) |-> hs[a]]

(* The heap must not have grown beyond the space that is shadowed, and the  *)
(* allocator must not have taken memory below it: it may do so (moved) for  *)
(* any request, and the program is then stopped.                            *)
BeyondHeap(q, alloc_size) == HEAP_END <= q + alloc_size

set_heap_segment(q, n, alloc_size, init, moved) ==
  IF moved \/ BeyondHeap(q, alloc_size) THEN Stops("aborted")
  ELSE /\ heap_shadow' = Segments(q, n, alloc_size) @@ heap_shadow
       /\ update_heap_allocation(n, 0)
       /\ init_shadow' = IF init THEN init_shadow \cup Cells(q, alloc_size)
                         ELSE init_shadow
       /\ written' = IF init THEN written \cup Cells(q, n) ELSE written \ Cells(q, n)
       /\ UNCHANGED <<static, tainted, status>>

AllocateAt(places, n, init) ==
  \E q \in places, moved \in BOOLEAN :
    IF q = 0 THEN Fails ELSE set_heap_segment(q, n, ALLOC_SIZE(n), init, moved)

MallocOf(n) ==
  IF ALLOC_SIZE(n) = 0 THEN Fails
  ELSE AllocateAt(public_malloc(Recorded, ALLOC_SIZE(n), MALLOC_ALIGNMENT), n, FALSE)

malloc(n) == Spend("malloc") /\ MallocOf(n)

(* An overflow makes the size 0.  A size that cannot be aligned asks the    *)
(* allocator for 0 bytes and then clears size bytes of what it got.         *)
Product(nmemb, size) ==
  IF size # 0 /\ nmemb > SIZE_MAX \div size THEN 0 ELSE nmemb * size

CallocOf(n) ==
  CASE n = 0 -> Fails
    [] n # 0 /\ ALLOC_SIZE(n) = 0 -> Fails \/ Stops("crashed")
    [] OTHER -> AllocateAt(public_malloc(Recorded, ALLOC_SIZE(n), MALLOC_ALIGNMENT),
                           n, TRUE)

calloc(nmemb, size) == Spend("calloc") /\ CallocOf(Product(nmemb, size))

aligned_alloc(alignment, n) ==
  /\ Spend("aligned")
  /\ IF ~ AlignedAllocArgs(alignment, n) THEN Fails
     ELSE AllocateAt(public_malloc(Recorded, n, alignment), n, FALSE)

posix_memalign(alignment, n) ==
  /\ Spend("aligned")
  /\ IF ~ PosixMemalignArgs(alignment, n) THEN Fails
     ELSE AllocateAt(public_malloc(Recorded, n, alignment), n, FALSE)

(* The block count is not brought down here. *)
unset_heap_segment(p) ==
  /\ heap_shadow' = Unset(heap_shadow, p, ALLOC_SIZE(LengthAt(p)))
  /\ heap_allocation_size' = heap_allocation_size - LengthAt(p)
  /\ UNCHANGED heap_allocated_blocks

Release(p) ==
  IF ~ freeable(p) THEN Stops("aborted")
  ELSE /\ unset_heap_segment(p)
       /\ init_shadow' = init_shadow \ Cells(p, ALLOC_SIZE(LengthAt(p)))
       /\ written' = written \ Cells(p, LengthAt(p))
       /\ UNCHANGED <<static, tainted, status>>

free(p) ==
  /\ Spend("free")
  /\ IF p = 0 THEN Fails ELSE Release(p)

-----------------------------------------------------------------------------
(* The initialisation shadow after a realloc from old to n bytes: bits past *)
(* the new end are cleared; if the block moved, copy_size bytes of shadow   *)
(* (the bits of 8 times as many addresses) are copied and cleared.          *)
Truncate(p, old, n) ==
  IF old > n
  THEN clearbits_right(ALLOC_SIZE(old) - n, p + ALLOC_SIZE(old), init_shadow)
  ELSE init_shadow

CopySize(old, n) == IF old > n THEN ALLOC_SIZE(n) ELSE ALLOC_SIZE(old)

Move(w, p, q, bits) ==
  ((w \ Cells(q, bits)) \cup {b - p + q : b \in w \cap Cells(p, bits)})
  \ Cells(p, bits)

MoveInit(p, q, old, n) ==
  IF q = p THEN Truncate(p, old, n)
  ELSE Move(Truncate(p, old, n), p, q, 8 * CopySize(old, n)) \cap (HEAP_START .. HEAP_END)

Reallocate(p, q, old, n, moved) ==
  IF moved \/ BeyondHeap(q, ALLOC_SIZE(n)) THEN Stops("aborted")
  ELSE /\ heap_shadow' = Segments(q, n, ALLOC_SIZE(n))
                         @@ Unset(heap_shadow, p, ALLOC_SIZE(old))
       /\ heap_allocation_size' = heap_allocation_size - old + n
       /\ heap_allocated_blocks' = heap_allocated_blocks + 1
       /\ init_shadow' = MoveInit(p, q, old, n)
       /\ written' = Carried(Recorded, p, q, n)
       /\ tainted' = (tainted \/ p # q \/ Cells(p + old, n - old) \cap init_shadow # {})
       /\ UNCHANGED <<static, status>>

realloc(p, n) ==
  /\ Spend("realloc")
  /\ CASE p = 0 -> MallocOf(n)
       [] p # 0 /\ n = 0 -> Release(p)
       [] p # 0 /\ n # 0 /\ ~ freeable(p) -> Stops("aborted")
       [] OTHER -> \E q \in public_realloc(Recorded, p, ALLOC_SIZE(n)), moved \in BOOLEAN :
                     IF q = 0 THEN Fails ELSE Reallocate(p, q, LengthAt(p), n, moved)

(* clean_shadow_layout unmaps the shadows. *)
memory_clean ==
  /\ Running
  /\ status' = "exited"
  /\ heap_shadow' = <<>> /\ init_shadow' = {} /\ static' = NoShadow
  /\ written' = {}
  /\ UNCHANGED <<tainted, budget, model>> /\ Uncounted

-----------------------------------------------------------------------------
Next ==
  \/ \E s \in StaticBlocks : store_block(s[1], s[2]) \/ store_block_duplicate(s[1], s[2])
  \/ \E p \in WhileRunning(DOMAIN Recorded) : delete_block(p) \/ full_init(p)
  \/ \E p \in WhileRunning(DOMAIN Recorded \cap GlobalAddrs) : mark_readonly(p)
  \/ \E p \in WhileRunning(DOMAIN Recorded) : \E r \in Within(Recorded, p) : initialize(p + r[1], r[2])
  \/ \E n \in HeapSizes \cup {0} : malloc(n)
  \/ \E s \in ArrayShapes : calloc(s[1], s[2])
  \/ \E s \in AlignedShapes : aligned_alloc(s[1], s[2]) \/ posix_memalign(s[1], s[2])
  \/ \E p \in WhileRunning(HeapBasesInUse \cup BadFrees \cup {0}) : free(p)
  \/ \E p \in WhileRunning(HeapBasesInUse \cup BadFrees \cup {0}), n \in HeapSizes \cup {0} : realloc(p, n)
  \/ memory_clean

Spec == Init /\ [][Next]_vars

-----------------------------------------------------------------------------
(* \initialized.  The bits before the first whole byte are compared with    *)
(* the whole of their byte, and the rest is then looked for in that same    *)
(* byte.                                                                    *)
HeapInitializedFrom(a, skip, set, n) ==
  /\ init_shadow \cap Cells(a - skip, 8) = Cells(a, set)
  /\ n - set > 0 => checkbits(n - set, a - skip, init_shadow)

heap_initialized(a, n) ==
  IF Skip(a) = 0 THEN n > 0 => checkbits(n, a, init_shadow)
  ELSE HeapInitializedFrom(a, Skip(a), InSkip(a, n), n)

initialized(a, n) ==
  CASE IS_ON_HEAP(a) -> heap_initialized(a, n)
    [] IS_ON_STATIC(a) -> static_initialized(static, a, n)
    [] OTHER -> FALSE

valid(a, n, base) == allocated(a, n, base) /\ ~ readonly(a)
valid_read(a, n, base) == allocated(a, n, base)

base_addr(a) ==
  IF IS_ON_HEAP(a) THEN heap_info(a).base ELSE a - static_info(static, a).offset

block_length(a) == predicate_length(a)

offset(a) ==
  IF IS_ON_HEAP(a) THEN heap_info(a).offset ELSE static_info(static, a).offset

-----------------------------------------------------------------------------
(* Each tracked segment belongs to a block that covers it, and the bytes of *)
(* the static shadow hold codes that exist.                                 *)
TypeOK ==
  /\ status \in {"running", "aborted", "crashed", "exited"}
  /\ init_shadow \subseteq HEAP_START .. HEAP_END
  /\ \A a \in DOMAIN heap_shadow :
       /\ a % HEAP_SEGMENT = 0
       /\ heap_shadow[a].base \in DOMAIN heap_shadow
  /\ \A a \in DOMAIN static.prim : static.prim[a].code \in 0 .. 36 \cup 48 .. 63

(* The shadows answer for every address as the contracts of e_acsl.h say   *)
(* of the record of blocks: \valid, \valid_read, \base_addr, \block_length, *)
(* \offset and \freeable are those of the block that holds the address,     *)
(* with the codes of short and long blocks, of remainders and of blocks     *)
(* that end inside a segment.  Not covered is a base on the other side of   *)
(* the heap's bounds than the address: whichever side the address is on     *)
(* decides which shadow is read for both.                                   *)
AgreeAt(rec, o, a) ==
  /\ freeable(a) = Freeable(rec, a)
  /\ o # 0 => /\ Obeyed(base_addr_contract(o), base_addr(a))
              /\ Obeyed(block_length_contract(rec, o), block_length(a))
              /\ Obeyed(offset_contract(o, a), offset(a))
  /\ \A n \in {1, 3}, base \in {a, a - 1} :
       IS_ON_HEAP(base) = IS_ON_HEAP(a) =>
         /\ Obeyed(valid_contract(rec, o, a, n, base), valid(a, n, base))
         /\ Obeyed(valid_read_contract(rec, o, a, n, base), valid_read(a, n, base))

QueriesAgree ==
  Running =>
    LET rec == Recorded IN \A a \in Probes : AgreeAt(rec, Owner(rec, a), a)

(* \initialized never claims a byte the program has not initialised, and on *)
(* static memory and from a byte of the shadow on it misses none, through   *)
(* frees, reuse of the memory and realloc in place.  The observer marks the *)
(* two uses of realloc after which this is lost.                            *)
InitializedSound ==
  Running /\ ~ tainted =>
    LET rec == Recorded IN
    \A p \in DOMAIN rec : \A r \in Within(rec, p) :
      /\ initialized(p + r[1], r[2]) => Initialized(written, p + r[1], r[2])
      /\ ~ IS_ON_HEAP(p) \/ Skip(p + r[1]) = 0 =>
           Obeyed(initialized_contract(written, p + r[1], r[2]),
                  initialized(p + r[1], r[2]))

(* Memory that is not in a block has no bit of the shadows left, so that a  *)
(* new block does not inherit what an old one at its place had.             *)
ShadowClean ==
  Running /\ ~ tainted =>
    \A a \in init_shadow : Segment(a).base # 0

(* The validations a debug build makes when it enters shadow_alloca,        *)
(* shadow_freea, set_heap_segment, unset_heap_segment and the two functions *)
(* that initialise a region.                                                *)
DVALIDATE_ALIGNMENT(a) == a % HEAP_SEGMENT = 0
DVALIDATE_IS_ON_HEAP(a, n) == IS_ON_HEAP(a) /\ IS_ON_HEAP(a + n)
DVALIDATE_IS_ON_STATIC(a, n) == IS_ON_STATIC(a) /\ IS_ON_STATIC(a + n)
DVALIDATE_FREEABLE(a) == IS_ON_HEAP(a) /\ base_addr(a) = a
DVALIDATE_HEAP_ACCESS(a, n) == IS_ON_HEAP(a) /\ allocated(a, n, a)
DVALIDATE_STATIC_ACCESS(a, n) == IS_ON_STATIC(a) /\ static_allocated(static, a, n, a)
DVALIDATE_STATIC_LOCATION(a) == IS_ON_STATIC(a) /\ static_allocated_one(static, a)
HeapNullified(q, n) == Cells(q, n) \cap DOMAIN heap_shadow = {}
StaticNullified(p, n) ==
  \A a \in Cells(p, n) : Byte(static, a) = ZeroByte /\ Slot(static, a) = 0
InsideBlock(a, n) == a - base_addr(a) + n <= block_length(a)

(* An empty block leaves its mark behind: there is no byte to clear when it *)
(* is deleted.                                                              *)
EmptyBlockAt(a) == Byte(static, a) = [ZeroByte EXCEPT !.ro = TRUE]

(* None of them stops a legal program, whatever it has allocated, moved and *)
(* released before: the shadow of memory that is free is clear, that of     *)
(* blocks is complete.  The exception is a variable that comes to lie where *)
(* an empty block was.                                                      *)
ValidationsHold ==
  Running =>
    LET rec == Recorded IN
    /\ \A s \in StaticBlocks :
         Clear(rec, s[1], s[2]) /\ (\A a \in Cells(s[1], s[2]) : ~ EmptyBlockAt(a)) =>
           DVALIDATE_IS_ON_STATIC(s[1], s[2]) /\ StaticNullified(s[1], s[2])
    /\ \A q \in HeapBases, n \in HeapSizes :
         Clear(rec, q, ALLOC_SIZE(n)) /\ ~ BeyondHeap(q, ALLOC_SIZE(n)) =>
           /\ DVALIDATE_IS_ON_HEAP(q - HEAP_SEGMENT, n)
           /\ DVALIDATE_ALIGNMENT(q) /\ HeapNullified(q, ALLOC_SIZE(n))
    /\ \A p \in DOMAIN rec :
         IF IS_ON_HEAP(p) THEN DVALIDATE_FREEABLE(p)
         ELSE DVALIDATE_STATIC_LOCATION(p) /\ base_addr(p) = p
    /\ \A p \in DOMAIN rec : \A r \in Within(rec, p) :
         /\ InsideBlock(p + r[1], r[2])
         /\ IF IS_ON_HEAP(p) THEN DVALIDATE_HEAP_ACCESS(p + r[1], r[2])
            ELSE DVALIDATE_STATIC_ACCESS(p + r[1], r[2])

(* The leak counter holds the bytes of the heap blocks. *)
HeapCounted ==
  Running => heap_allocation_size = HeapSize(Recorded)

(* Through its calls the program sees the memory MemorySpec describes.      *)
Memory == INSTANCE MemorySpec WITH blocks <- Recorded
ImplementsMemory == Memory!Spec

=============================================================================
