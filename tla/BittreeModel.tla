---------------------------- MODULE BittreeModel ----------------------------
(***************************************************************************)
(* The bittree memory model: bt_root is the trie, blk the bt_block records *)
(* its leaves point to, by base address.  init_ptr is the set of bits set  *)
(* in the array of that name ({} for NULL).                                *)
(*                                                                         *)
(* bt_blocks is the number of such records in the private memory of the    *)
(* runtime: free takes a block out of the trie and keeps its record.       *)
(*                                                                         *)
(* truncated is an observer: a realloc has kept initialisation bits beyond *)
(* the new end of a block.                                                 *)
(***************************************************************************)
EXTENDS Sequences, Bitwise, MemoryClient

(***************************************************************************)
(* The Patricia trie of the bittree model.  A tree is empty, a leaf or an  *)
(* inner node with two children; a mask is the number of leading bits it   *)
(* keeps, so that Tmasks[i] is i.  The parent pointers only lead back up   *)
(* the path a call came down, and are the recursion here.                  *)
(***************************************************************************)

CONSTANT WORDBITS   \* 16, 32 or 64

NULL == 0

(* bt_root before the first block. *)
EmptyTree == [is_leaf |-> TRUE, addr |-> NULL, mask |-> 0]

Teq(w) ==
  CASE w = 16 -> <<0,-1,3,-3,6,-5,7,-7,12,-9,11,-11,14,-13,15,16,-16>>
    [] w = 32 -> <<0,-1,3,-3,6,-5,7,-7,12,-9,11,-11,14,-13,15,-15,24,-17,19,
                   -19,22,-21,23,-23,28,-25,27,-27,30,-29,31,32,-32>>
    [] w = 64 -> <<0,-1,3,-3,6,-5,7,-7,12,-9,11,-11,14,-13,15,-15,24,-17,19,
                   -19,22,-21,23,-23,28,-25,27,-27,30,-29,31,-31,48,-33,35,
                   -35,38,-37,39,-39,44,-41,43,-43,46,-45,47,-47,56,-49,51,
                   -51,54,-53,55,-55,60,-57,59,-59,62,-61,63,64,-64>>

Tneq(w) ==
  CASE w = 16 -> <<0,0,1,-2,2,-4,5,-6,4,-8,9,-10,10,-12,13,-14,-15>>
    [] w = 32 -> <<0,0,1,-2,2,-4,5,-6,4,-8,9,-10,10,-12,13,-14,8,-16,17,-18,
                   18,-20,21,-22,20,-24,25,-26,26,-28,29,-30,-31>>
    [] w = 64 -> <<0,0,1,-2,2,-4,5,-6,4,-8,9,-10,10,-12,13,-14,8,-16,17,-18,
                   18,-20,21,-22,20,-24,25,-26,26,-28,29,-30,16,-32,33,-34,
                   34,-36,37,-38,36,-40,41,-42,42,-44,45,-46,40,-48,49,-50,
                   50,-52,53,-54,52,-56,57,-58,58,-60,61,-62,-63>>

(* The dichotomic search: with k leading bits in common, nxor >= Tmasks[i]  *)
(* means k >= i.  The tables hold what to try next, negated when it is the  *)
(* answer.                                                                  *)
RECURSIVE SearchMask(_, _, _)
SearchMask(w, k, i) ==
  IF i <= 0 THEN -i
  ELSE SearchMask(w, k, IF k >= i THEN Teq(w)[i + 1] ELSE Tneq(w)[i + 1])

(* The number of leading bits in which a and b agree. *)
CommonPrefix(a, b) ==
  CHOOSE k \in 0 .. WORDBITS :
    /\ a \div 2^(WORDBITS - k) = b \div 2^(WORDBITS - k)
    /\ k = WORDBITS \/ a \div 2^(WORDBITS - k - 1) # b \div 2^(WORDBITS - k - 1)

mask(a, b) == SearchMask(WORDBITS, CommonPrefix(a, b), WORDBITS \div 2)

Prefix(a, m) == (a \div 2^(WORDBITS - m)) * 2^(WORDBITS - m)

-----------------------------------------------------------------------------
Leaf(p) == [is_leaf |-> TRUE, addr |-> p, mask |-> WORDBITS]

Node(addr, m, l, r) ==
  [is_leaf |-> FALSE, addr |-> addr, mask |-> m, left |-> l, right |-> r]

PrefixOf(t) == Prefix(t.addr, t.mask)

Shares(t, p) == PrefixOf(t) = Prefix(p, t.mask)

MaskOf(l, r) == mask(PrefixOf(l), PrefixOf(r))

(* The mask of an inner node, recomputed from its children. *)
Remask(t) == IF t.is_leaf THEN t ELSE [t EXCEPT !.mask = MaskOf(t.left, t.right)]

(* The new parent of a leaf for p and of the node that becomes its sibling; *)
(* at the root the mask comes from the sibling and p, which are the         *)
(* children.                                                                *)
Join(sibling, p) ==
  IF p <= sibling.addr
  THEN Node(sibling.addr & p, MaskOf(Leaf(p), sibling), Leaf(p), Remask(sibling))
  ELSE Node(sibling.addr & p, MaskOf(sibling, Leaf(p)), Remask(sibling), Leaf(p))

(* bt_most_similar_node: follow the child that has the longer prefix in     *)
(* common with p, and stop where neither has.                               *)
RECURSIVE InsertBelow(_, _)
InsertBelow(t, p) ==
  IF t.is_leaf THEN Join(t, p)
  ELSE LET left_prefix  == mask(PrefixOf(t.left), p)
           right_prefix == mask(PrefixOf(t.right), p)
       IN CASE left_prefix > right_prefix -> [t EXCEPT !.left = InsertBelow(@, p)]
            [] right_prefix > left_prefix -> [t EXCEPT !.right = InsertBelow(@, p)]
            [] OTHER -> Join(t, p)

bt_insert(t, p) == IF t = EmptyTree THEN Leaf(p) ELSE InsertBelow(t, p)

(* The leaf a removal of block p reaches; NULL stands for the assertion     *)
(* "Unreachable".                                                           *)
RECURSIVE bt_get_leaf_from_block(_, _)
bt_get_leaf_from_block(t, p) ==
  CASE t.is_leaf -> t.addr
    [] ~ t.is_leaf /\ Shares(t.right, p) -> bt_get_leaf_from_block(t.right, p)
    [] ~ t.is_leaf /\ ~ Shares(t.right, p) /\ Shares(t.left, p) ->
         bt_get_leaf_from_block(t.left, p)
    [] OTHER -> NULL

(* The sibling of the leaf takes its parent's place, and the mask of the    *)
(* grandparent is recomputed; its addr stays as it was.                     *)
OnPath(t, p) == IF Shares(t.right, p) THEN t.right ELSE t.left

(* Wrong: the leaf stays and its sibling goes. *)
RECURSIVE RemoveSibling(_, _)
RemoveSibling(t, p) ==
  IF OnPath(t, p).is_leaf THEN OnPath(t, p)
  ELSE IF Shares(t.right, p) THEN [t EXCEPT !.right = RemoveSibling(@, p)]
  ELSE [t EXCEPT !.left = RemoveSibling(@, p)]

RECURSIVE RemoveBelow(_, _)
RemoveBelow(t, p) ==
  LET right == Shares(t.right, p)
      child == OnPath(t, p)
  IN CASE child.is_leaf -> IF right THEN t.left ELSE t.right
       [] ~ child.is_leaf /\ ~ OnPath(child, p).is_leaf ->
            IF right THEN [t EXCEPT !.right = RemoveBelow(@, p)]
            ELSE [t EXCEPT !.left = RemoveBelow(@, p)]
       [] OTHER ->
            Remask(IF right THEN [t EXCEPT !.right = RemoveBelow(@, p)]
                   ELSE [t EXCEPT !.left = RemoveBelow(@, p)])

bt_remove(t, p) == IF t.is_leaf THEN EmptyTree ELSE RemoveBelow(t, p)

(* The block that starts at p, NULL when there is none. *)
RECURSIVE bt_lookup(_, _)
bt_lookup(t, p) ==
  CASE t.is_leaf -> IF t.addr = p THEN p ELSE NULL
    [] ~ t.is_leaf /\ ~ Shares(t, p) -> NULL
    [] OTHER -> IF Shares(t.right, p) THEN bt_lookup(t.right, p)
                ELSE IF Shares(t.left, p) THEN bt_lookup(t.left, p)
                ELSE NULL

(* The block that contains p: the highest one that starts at or below p is  *)
(* looked for on the right first, and the last left turn not taken is kept  *)
(* as the other choice.  size gives the length of the block at a base.      *)
AtMost(t, p) == PrefixOf(t) <= Prefix(p, t.mask)

InLeaf(t, p, size) ==
  /\ t.addr <= p
  /\ p < size[t.addr] + t.addr \/ (size[t.addr] = 0 /\ p = t.addr)

RECURSIVE FindFrom(_, _, _, _)
FindFrom(t, other_choice, p, size) ==
  CASE t.is_leaf -> IF InLeaf(t, p, size) THEN t.addr ELSE NULL
    [] ~ t.is_leaf /\ AtMost(t.right, p) -> FindFrom(t.right, t.left, p, size)
    [] ~ t.is_leaf /\ ~ AtMost(t.right, p) /\ AtMost(t.left, p) ->
         FindFrom(t.left, other_choice, p, size)
    [] OTHER -> IF other_choice = EmptyTree THEN NULL
                ELSE FindFrom(other_choice, EmptyTree, p, size)

bt_find(t, p, size) ==
  IF t = EmptyTree \/ p = NULL THEN NULL ELSE FindFrom(t, EmptyTree, p, size)

-----------------------------------------------------------------------------
CONSTANTS InitialBlocks,   \* <<address, size, initialised>> of memory_init
          Probes           \* addresses the queries are asked about

VARIABLES bt_root, blk, bt_blocks, truncated

vars == <<bt_root, blk, bt_blocks, truncated, clientVars>>

NewBlock(n, freeable, init_bytes) ==
  [size |-> n, init_ptr |-> {}, init_bytes |-> init_bytes,
   is_readonly |-> FALSE, is_freeable |-> freeable]

Sizes(b) == [p \in DOMAIN b |-> b[p].size]

(* The record of blocks the model stands for. *)
Recorded ==
  [p \in DOMAIN blk |-> [size |-> blk[p].size, freeable |-> blk[p].is_freeable,
                         readonly |-> blk[p].is_readonly]]

(* The bytes needed for n bits. *)
needed_bytes(n) == IF n % 8 = 0 THEN n \div 8 ELSE n \div 8 + 1

-----------------------------------------------------------------------------
(* The bits offs of a block are set: an array is allocated for the first    *)
(* and given back when the block is complete.                               *)
Complete(b) == IF b.init_bytes = b.size THEN [b EXCEPT !.init_ptr = {}] ELSE b

SetBits(b, offs) ==
  IF b.init_bytes = b.size THEN b
  ELSE Complete([b EXCEPT !.init_ptr = @ \cup offs,
                          !.init_bytes = @ + Cardinality(offs \ b.init_ptr)])

FullyInitialised(b) == [b EXCEPT !.init_ptr = {}, !.init_bytes = b.size]

(* memory_init records the arguments and the safe locations in turn; the    *)
(* arguments are initialised.                                               *)
RECURSIVE InsertAll(_, _)
InsertAll(t, s) ==
  IF s = <<>> THEN t ELSE InsertAll(bt_insert(t, s[1][1]), Tail(s))

Index(p) == CHOOSE i \in DOMAIN InitialBlocks : InitialBlocks[i][1] = p

memory_init ==
  [p \in {InitialBlocks[i][1] : i \in DOMAIN InitialBlocks} |->
     LET e == InitialBlocks[Index(p)]
     IN IF e[3] THEN SetBits(NewBlock(e[2], FALSE, 0), 0 .. e[2] - 1)
        ELSE NewBlock(e[2], FALSE, 0)]

Init ==
  /\ bt_root = InsertAll(EmptyTree, InitialBlocks)
  /\ blk = memory_init /\ bt_blocks = Len(InitialBlocks)
  /\ truncated = FALSE
  /\ written = UNION {Cells(e[1], e[2]) :
                        e \in {InitialBlocks[i] : i \in
                                 {j \in DOMAIN InitialBlocks : InitialBlocks[j][3]}}}
  /\ heap_allocation_size = 0 /\ heap_allocated_blocks = 0
  /\ model = Model /\ status = "running"
  /\ budget \in Profiles

-----------------------------------------------------------------------------
Find(a) == bt_find(bt_root, a, Sizes(blk))

(* Blocks of the program's variables. *)
Record(p, b) ==
  /\ bt_root' = bt_insert(bt_root, p)
  /\ blk' = blk @@ (p :> b)
  /\ bt_blocks' = bt_blocks + 1

store_block(p, n) ==
  /\ Spend("store")
  /\ Clear(Recorded, p, n)
  /\ Record(p, NewBlock(n, FALSE, 0))
  /\ written' = written \ Cells(p, n)
  /\ UNCHANGED <<truncated, status>> /\ Uncounted

delete_block(p) ==
  /\ Spend("delete")
  /\ ~ blk[p].is_freeable
  /\ IF bt_lookup(bt_root, p) = NULL THEN UNCHANGED <<bt_root, blk, bt_blocks, written>>
     ELSE /\ bt_root' = bt_remove(bt_root, p)
          /\ blk' = Without(blk, p)
          /\ bt_blocks' = bt_blocks - 1
          /\ written' = Forgotten(blk, p)
  /\ UNCHANGED <<truncated, status>> /\ Uncounted

(* A declaration reached again by a jump: the block it finds is deleted.    *)
store_block_duplicate(p, n) ==
  /\ Spend("duplicate")
  /\ p \in DOMAIN blk => ~ blk[p].is_freeable
  /\ Clear(Without(Recorded, p), p, n) /\ SameVariable(Recorded, p, n)
  /\ IF bt_lookup(bt_root, p) = NULL
     THEN /\ Record(p, NewBlock(n, FALSE, 0))
          /\ written' = written \ Cells(p, n)
     ELSE /\ bt_root' = bt_insert(bt_remove(bt_root, p), p)
          /\ blk' = Without(blk, p) @@ (p :> NewBlock(n, FALSE, 0))
          /\ UNCHANGED bt_blocks
          /\ written' = Forgotten(blk, p) \ Cells(p, n)
  /\ UNCHANGED <<truncated, status>> /\ Uncounted

-----------------------------------------------------------------------------
initialize(a, n) ==
  /\ Spend("initialize")
  /\ blk' = IF Find(a) = NULL THEN blk
            ELSE [blk EXCEPT ![Find(a)] =
                    SetBits(@, {a - Find(a) + i : i \in 0 .. n - 1})]
  /\ written' = written \cup Cells(a, n)
  /\ UNCHANGED <<bt_root, bt_blocks, truncated, status>> /\ Uncounted

full_init(p) ==
  /\ Spend("full_init")
  /\ blk' = IF bt_lookup(bt_root, p) = NULL THEN blk
            ELSE [blk EXCEPT ![p] = FullyInitialised(@)]
  /\ written' = written \cup Cells(p, blk[p].size)
  /\ UNCHANGED <<bt_root, bt_blocks, truncated, status>> /\ Uncounted

mark_readonly(p) ==
  /\ Spend("readonly")
  /\ blk' = IF bt_lookup(bt_root, p) = NULL THEN blk
            ELSE [blk EXCEPT ![p].is_readonly = TRUE]
  /\ UNCHANGED <<bt_root, bt_blocks, truncated, status, written>> /\ Uncounted

-----------------------------------------------------------------------------
(* A call that returns NULL or an error changes nothing. *)
Fails == UNCHANGED <<bt_root, blk, bt_blocks, truncated, status, written>> /\ Uncounted

store_freeable_block(q, n, init) ==
  /\ Record(q, NewBlock(n, TRUE, IF init THEN n ELSE 0))
  /\ update_heap_allocation(n, 0)
  /\ written' = IF init THEN written \cup Cells(q, n) ELSE written \ Cells(q, n)
  /\ UNCHANGED <<truncated, status>>

AllocateAt(places, n, init) ==
  \E q \in places : IF q = 0 THEN Fails ELSE store_freeable_block(q, n, init)

malloc(n) ==
  /\ Spend("malloc")
  /\ IF n = 0 THEN Fails
     ELSE AllocateAt(public_malloc(Recorded, n, MALLOC_ALIGNMENT), n, FALSE)

(* The product is taken modulo the size of size_t; public_calloc refuses    *)
(* the products that overflow.                                              *)
calloc(nbr_block, size_block) ==
  LET size == (nbr_block * size_block) % (SIZE_MAX + 1)
  IN /\ Spend("calloc")
     /\ IF size = 0 \/ nbr_block * size_block > SIZE_MAX THEN Fails
        ELSE AllocateAt(public_malloc(Recorded, size, MALLOC_ALIGNMENT), size, TRUE)

aligned_alloc(alignment, n) ==
  /\ Spend("aligned")
  /\ IF ~ AlignedAllocArgs(alignment, n) THEN Fails
     ELSE AllocateAt(public_malloc(Recorded, n, alignment), n, FALSE)

posix_memalign(alignment, n) ==
  /\ Spend("aligned")
  /\ IF ~ PosixMemalignArgs(alignment, n) THEN Fails
     ELSE AllocateAt(public_malloc(Recorded, n, alignment), n, FALSE)

(* free looks the address up; what is no base aborts the program.  That the *)
(* block is of the heap is not tested: the base of a variable is counted as *)
(* released and handed to the allocator, which aborts on an address below   *)
(* its memory and takes one above for a chunk of its own ("crashed": the    *)
(* behaviour is undefined from there on).                                   *)
Stops(how) == /\ status' = how
              /\ UNCHANGED <<bt_root, blk, bt_blocks, truncated, written>>

Foreign(p) == p \in DOMAIN blk /\ ~ blk[p].is_freeable

ForeignChunk(p) == Stops("aborted") \/ (p \notin GlobalAddrs /\ Stops("crashed"))

Release(p) ==
  CASE bt_lookup(bt_root, p) = NULL -> Stops("aborted") /\ Uncounted
    [] Foreign(p) -> update_heap_allocation(-blk[p].size, 0) /\ ForeignChunk(p)
    [] OTHER -> /\ update_heap_allocation(-blk[p].size, 0)
                /\ bt_root' = bt_remove(bt_root, p)
                /\ blk' = Without(blk, p)
                /\ written' = Forgotten(blk, p)
                /\ UNCHANGED <<bt_blocks, truncated, status>>

free(p) ==
  /\ Spend("free")
  /\ IF p = 0 THEN Fails ELSE Release(p)

(* The initialisation record of b after a realloc to n bytes: a block that  *)
(* was complete stays complete or gets an array; a partial array is resized *)
(* in bytes and its bits counted again.                                     *)
Recount(b, n, bits) ==
  [b EXCEPT !.size = n, !.init_bytes = Cardinality(bits),
            !.init_ptr = IF Cardinality(bits) \in {n, 0} THEN {} ELSE bits]

KeptBits(b, n) ==
  {o \in b.init_ptr : o < 8 * needed_bytes(n) /\ o < 8 * needed_bytes(b.size)}

Resized(b, n) ==
  CASE b.init_bytes = 0 -> [b EXCEPT !.size = n]
    [] b.init_bytes # 0 /\ b.init_bytes = b.size ->
         IF n <= b.size THEN [b EXCEPT !.size = n, !.init_bytes = n]
         ELSE [b EXCEPT !.size = n, !.init_ptr = 0 .. b.size - 1]
    [] OTHER -> Recount(b, n, KeptBits(b, n))

Reallocate(p, q, n) ==
  /\ update_heap_allocation(n, -blk[p].size)
  /\ bt_root' = IF p = q THEN bt_root ELSE bt_insert(bt_remove(bt_root, p), q)
  /\ blk' = Without(blk, p) @@ (q :> [Resized(blk[p], n) EXCEPT !.is_freeable = TRUE])
  /\ written' = Carried(blk, p, q, n)
  /\ truncated' = (truncated \/ \E o \in KeptBits(blk[p], n) : o >= n)
  /\ UNCHANGED <<bt_blocks, status>>

(* realloc reads the block it has looked up without testing that there is   *)
(* one, nor that it is of the heap.                                         *)
realloc(p, n) ==
  /\ Spend("realloc")
  /\ CASE p = 0 /\ n = 0 -> Fails
       [] p = 0 /\ n # 0 ->
            AllocateAt(public_malloc(Recorded, n, MALLOC_ALIGNMENT), n, FALSE)
       [] p # 0 /\ n = 0 -> Release(p)
       [] p # 0 /\ n # 0 /\ Foreign(p) -> ForeignChunk(p) /\ Uncounted
       [] p # 0 /\ n # 0 /\ bt_lookup(bt_root, p) = NULL -> Stops("crashed") /\ Uncounted
       [] OTHER -> \E q \in public_realloc(Recorded, p, n) :
                     IF q = 0 THEN Fails ELSE Reallocate(p, q, n)

(* Wrong: bt_clean is forgotten. *)
ExitWithoutClean ==
  /\ Running
  /\ status' = "exited" /\ written' = {}
  /\ UNCHANGED <<bt_root, blk, bt_blocks, truncated, budget, model>> /\ Uncounted

(* At exit: bt_clean. *)
memory_clean ==
  /\ Running
  /\ status' = "exited"
  /\ bt_root' = EmptyTree /\ blk' = <<>> /\ written' = {}
  /\ bt_blocks' = bt_blocks - Cardinality(DOMAIN blk)
  /\ UNCHANGED <<truncated, budget, model>> /\ Uncounted

-----------------------------------------------------------------------------
Next ==
  \/ \E s \in StaticBlocks : store_block(s[1], s[2]) \/ store_block_duplicate(s[1], s[2])
  \/ \E p \in WhileRunning(DOMAIN blk) : delete_block(p) \/ full_init(p)
  \/ \E p \in WhileRunning(DOMAIN blk \cap GlobalAddrs) : mark_readonly(p)
  \/ \E p \in WhileRunning(DOMAIN blk) : \E r \in Within(blk, p) : initialize(p + r[1], r[2])
  \/ \E n \in HeapSizes \cup {0} : malloc(n)
  \/ \E s \in ArrayShapes : calloc(s[1], s[2])
  \/ \E s \in AlignedShapes : aligned_alloc(s[1], s[2]) \/ posix_memalign(s[1], s[2])
  \/ \E p \in WhileRunning(HeapBlocks(Recorded) \cup BadFrees \cup {0}) : free(p)
  \/ \E p \in WhileRunning(HeapBlocks(Recorded) \cup BadFrees \cup {0}), n \in HeapSizes \cup {0} : realloc(p, n)
  \/ memory_clean

Spec == Init /\ [][Next]_vars

-----------------------------------------------------------------------------
(* The queries; o is the block bt_find gives for a. *)
allocated(o, a, n, base) ==
  o # NULL /\ Find(base) = o /\ blk[o].size - (a - o) >= n

valid(o, a, n, base) == allocated(o, a, n, base) /\ ~ blk[o].is_readonly
valid_read(o, a, n, base) == allocated(o, a, n, base)

base_addr(a) == Find(a)
block_length(a) == blk[Find(a)].size
offset(a) == a - Find(a)

freeable(p) == bt_lookup(bt_root, p) # NULL /\ blk[p].is_freeable

InitialisedIn(b, offs) ==
  /\ b.init_bytes # 0
  /\ b.init_bytes = b.size \/ offs \subseteq b.init_ptr

initialized(a, n) ==
  /\ Find(a) # NULL
  /\ InitialisedIn(blk[Find(a)], {a - Find(a) + i : i \in 0 .. n - 1})

RECURSIVE Leaves(_)
Leaves(t) == IF t.is_leaf THEN {t.addr} ELSE Leaves(t.left) \cup Leaves(t.right)

RECURSIVE WellFormed(_)
WellFormed(t) ==
  \/ t.is_leaf
  \/ /\ WellFormed(t.left) /\ WellFormed(t.right)
     /\ PrefixOf(t.left) < PrefixOf(t.right)
     /\ \A p \in Leaves(t) : Shares(t, p)
     /\ t.mask = mask(PrefixOf(t.left), PrefixOf(t.right))

-----------------------------------------------------------------------------
(* Types of the trie's leaves and of the block records. *)
TypeOK ==
  /\ status \in {"running", "aborted", "crashed", "exited"}
  /\ truncated \in BOOLEAN
  /\ \A p \in DOMAIN blk :
       /\ blk[p].init_bytes \in 0 .. 8 * needed_bytes(blk[p].size)
       /\ blk[p].init_bytes > blk[p].size => truncated
       /\ blk[p].init_ptr \subseteq 0 .. 8 * needed_bytes(blk[p].size) - 1

(* The assertions of e_acsl_bittree.h after any sequence of insertions,     *)
(* removals and moves: each inner node has the longest prefix its leaves    *)
(* share, the lower half on the left, a removal reaches the leaf of the     *)
(* block it is given, and no leaf points to a record that was given back.   *)
TreeSound ==
  /\ bt_root # EmptyTree => WellFormed(bt_root) /\ Leaves(bt_root) = DOMAIN blk
  /\ bt_root = EmptyTree => blk = <<>>
  /\ \A p \in DOMAIN blk : bt_get_leaf_from_block(bt_root, p) = p
  /\ Cardinality(DOMAIN blk) <= bt_blocks

(* bt_find, with its single other choice, finds the block of every address  *)
(* and of no other, so that \valid, \valid_read, \base_addr, \block_length, *)
(* \offset and \freeable answer as the contracts of e_acsl.h say of the     *)
(* record of disjoint blocks.                                               *)
AgreeAt(rec, o, a) ==
  /\ o = Find(a)
  /\ freeable(a) = Freeable(rec, a)
  /\ o # 0 => /\ Obeyed(base_addr_contract(o), base_addr(a))
              /\ Obeyed(block_length_contract(rec, o), block_length(a))
              /\ Obeyed(offset_contract(o, a), offset(a))
  /\ \A n \in {1, 3}, base \in {a, a - 1} :
       /\ Obeyed(valid_contract(rec, o, a, n, base), valid(o, a, n, base))
       /\ Obeyed(valid_read_contract(rec, o, a, n, base), valid_read(o, a, n, base))

QueriesAgree ==
  Running =>
    LET rec == Recorded IN \A a \in Probes : AgreeAt(rec, Owner(rec, a), a)

(* \initialized tells exactly what the program has initialised, through     *)
(* moves, growth and the change between the compact and the bitwise record, *)
(* as long as no realloc has cut a partly initialised block.                *)
InitializedExact ==
  Running /\ ~ truncated =>
    \A p \in DOMAIN blk : \A r \in Within(blk, p) :
      Obeyed(initialized_contract(written, p + r[1], r[2]), initialized(p + r[1], r[2]))

(* The leak counters are the bytes and the number of the heap blocks.       *)
HeapCounted ==
  Running =>
    /\ heap_allocation_size = HeapSize(Recorded)
    /\ heap_allocated_blocks = Cardinality(HeapBlocks(Recorded))

(* Through its calls the program sees the memory MemorySpec describes.      *)
Memory == INSTANCE MemorySpec WITH blocks <- Recorded
ImplementsMemory == Memory!Spec

=============================================================================
