------------------------------ MODULE DlChunks ------------------------------
(***************************************************************************)
(* Chunks of the dlmalloc heap the E-ACSL runtime links against            *)
(* (contrib/libdlmalloc/dlmalloc.c): alignment arithmetic, request         *)
(* padding, bin indexing, and the boundary tags kept at both ends of a     *)
(* chunk.  The build is the one of the E-ACSL Makefile: mspaces only, no   *)
(* MORECORE, no footers, no locks, errors abort.                           *)
(*                                                                         *)
(* Addresses and sizes count words of SIZE_T_SIZE bytes; 0 is NULL.        *)
(* An operator takes the allocator's state S (a record, see Dlmalloc) and  *)
(* returns the next one; those that also compute a value return            *)
(* [st |-> S, r |-> value].                                                *)
(***************************************************************************)
EXTENDS Integers, Sequences, FiniteSets, SequencesExt

CONSTANTS
  MALLOC_ALIGNMENT,  \* in words (4 in the E-ACSL build)
  NSMALLBINS,        \* a power of two; in words also MIN_LARGE_SIZE
  TREEBIN_SHIFT,     \* NSMALLBINS = 2^TREEBIN_SHIFT
  NTREEBINS,         \* even
  MAX_SIZE_T         \* the largest size_t, in words

ASSUME ChunkConstants ==
  /\ MALLOC_ALIGNMENT \in Nat \ {0, 1}
  /\ TREEBIN_SHIFT \in Nat \ {0, 1} /\ NSMALLBINS = 2^TREEBIN_SHIFT
  /\ NTREEBINS \in Nat /\ NTREEBINS % 2 = 0
  /\ MAX_SIZE_T \in Nat

(* Unsigned subtraction on size_t. *)
Sub(a, b) == (a - b) % (MAX_SIZE_T + 1)

AlignUp(n, unit) == ((n + unit - 1) \div unit) * unit

-----------------------------------------------------------------------------
(* Sizes and alignment. *)

CHUNK_OVERHEAD == 1
TWO_SIZE_T_SIZES == 2
FOUR_SIZE_T_SIZES == 4
SIX_SIZE_T_SIZES == 6
MCHUNK_SIZE == 4
SEGMENT_SIZE == 4      \* sizeof(struct malloc_segment)

is_aligned(A) == A % MALLOC_ALIGNMENT = 0
align_offset(A) == (-A) % MALLOC_ALIGNMENT

MIN_CHUNK_SIZE == AlignUp(MCHUNK_SIZE, MALLOC_ALIGNMENT)
chunk2mem(p) == p + TWO_SIZE_T_SIZES
mem2chunk(mem) == mem - TWO_SIZE_T_SIZES
align_as_chunk(A) == A + align_offset(chunk2mem(A))

MAX_REQUEST == MAX_SIZE_T + 1 - 4 * MIN_CHUNK_SIZE
MIN_REQUEST == MIN_CHUNK_SIZE - CHUNK_OVERHEAD

pad_request(req) == AlignUp(req + CHUNK_OVERHEAD, MALLOC_ALIGNMENT)
RequestWithoutOverhead(req) == IF req < MIN_REQUEST THEN MIN_CHUNK_SIZE
                               ELSE AlignUp(req, MALLOC_ALIGNMENT)
request2size(req) == IF req < MIN_REQUEST THEN MIN_CHUNK_SIZE
                                          ELSE pad_request(req)

(* What init_top keeps at the end of a segment: room for a segment record   *)
(* and the fenceposts add_segment may have to write there.                  *)
TOP_FOOT_SIZE ==
  align_offset(chunk2mem(0)) + pad_request(SEGMENT_SIZE) + MIN_CHUNK_SIZE
SYS_ALLOC_PADDING == TOP_FOOT_SIZE + MALLOC_ALIGNMENT

-----------------------------------------------------------------------------
(* Bin indexing. *)

MIN_LARGE_SIZE == NSMALLBINS
MAX_SMALL_REQUEST == MIN_LARGE_SIZE - MALLOC_ALIGNMENT - CHUNK_OVERHEAD
is_small(s) == s < NSMALLBINS
small_index(s) == s

FloorLog2(x) == CHOOSE k \in 0..x : 2^k <= x /\ x < 2^(k + 1)

compute_tree_index(s) ==
  LET X == s \div 2^TREEBIN_SHIFT
      K == FloorLog2(X)
  IN  IF X = 0 THEN 0
      ELSE IF X > 2^(NTREEBINS \div 2) - 1 THEN NTREEBINS - 1
      ELSE 2 * K + ((s \div 2^(K + TREEBIN_SHIFT - 1)) % 2)

(* The bit of a size that selects the child of the root of tree bin i; the   *)
(* code shifts the size left so that this bit comes first.                   *)
SizeBits == FloorLog2(MAX_SIZE_T + 1)
bit_for_tree_index(i) ==
  IF i = NTREEBINS - 1 THEN SizeBits - 1 ELSE (i \div 2) + TREEBIN_SHIFT - 2
SizeBit(s, b) == IF b < 0 THEN 0 ELSE (s \div 2^b) % 2

minsize_for_tree_index(i) ==
  2^((i \div 2) + TREEBIN_SHIFT)
    + ((i % 2) * 2^((i \div 2) + TREEBIN_SHIFT - 1))

(* Bin headers, as addresses no chunk can have. *)
smallbin_at(i) == -1 - i
treebin_at(i) == -1 - NSMALLBINS - i

-----------------------------------------------------------------------------
(* Boundary tags.  S.head maps a chunk address to its size and in-use bits, *)
(* S.foot to the prev_foot word.  A word that no map mentions holds data of *)
(* the application or a leftover: reading it yields an unusable value.      *)

Junk == [size |-> 0, c |-> FALSE, p |-> TRUE]
Put(f, a, v) == [x \in DOMAIN f \cup {a} |-> IF x = a THEN v ELSE f[x]]

HeadOf(S, p) == IF p \in DOMAIN S.head THEN S.head[p] ELSE Junk
prev_foot(S, p) == IF p \in DOMAIN S.foot THEN S.foot[p] ELSE 0
chunksize(S, p) == HeadOf(S, p).size
cinuse(S, p) == HeadOf(S, p).c
pinuse(S, p) == HeadOf(S, p).p
is_inuse(S, p) == cinuse(S, p) \/ ~pinuse(S, p)
is_mmapped(S, p) == ~cinuse(S, p) /\ ~pinuse(S, p)
next_chunk(S, p) == p + chunksize(S, p)
overhead_for(S, p) == IF is_mmapped(S, p) THEN TWO_SIZE_T_SIZES
                                          ELSE CHUNK_OVERHEAD

SetHead(S, p, s, c, pin) ==
  [S EXCEPT !.head = Put(@, p, [size |-> s, c |-> c, p |-> pin])]
SetPinuse(S, p, pin) ==
  [S EXCEPT !.head = Put(@, p, [HeadOf(S, p) EXCEPT !.p = pin])]
set_foot(S, p, s) == [S EXCEPT !.foot = Put(@, p + s, s)]

set_inuse(S, p, s) ==
  SetPinuse(SetHead(S, p, s, TRUE, pinuse(S, p)), p + s, TRUE)
set_inuse_and_pinuse(S, p, s) ==
  SetPinuse(SetHead(S, p, s, TRUE, TRUE), p + s, TRUE)
set_size_and_pinuse_of_inuse_chunk(S, p, s) == SetHead(S, p, s, TRUE, TRUE)
set_size_and_pinuse_of_free_chunk(S, p, s) ==
  set_foot(SetHead(S, p, s, FALSE, TRUE), p, s)
set_free_with_pinuse(S, p, s, n) ==
  set_size_and_pinuse_of_free_chunk(SetPinuse(S, n, FALSE), p, s)

-----------------------------------------------------------------------------
(***************************************************************************)
(* The bins of a malloc_state: doubly linked circular lists of free small  *)
(* chunks (S.fd, S.bk, marked in S.smallmap) and bitwise digital trees of  *)
(* free large chunks (S.child, S.parent, S.treebins, marked in S.treemap;  *)
(* chunks of one size hang off their tree node on an fd/bk ring), plus the *)
(* designated victim (S.dv, S.dvsize) and the top chunk.                   *)
(* S.err records CORRUPTION_ERROR_ACTION, which aborts in this build.      *)
(***************************************************************************)

Link(f, a) == IF a \in DOMAIN f THEN f[a] ELSE 0
SetFd(S, a, b) == [S EXCEPT !.fd = Put(@, a, b)]
SetBk(S, a, b) == [S EXCEPT !.bk = Put(@, a, b)]
SetParent(S, a, b) == [S EXCEPT !.parent = Put(@, a, b)]
ChildField(a, k) == a + 4 + k    \* where child[k] of the chunk at a is stored
Child(S, a, k) == IF a \in DOMAIN S.child THEN S.child[a][k] ELSE 0
SetChild(S, a, k, b) ==
  [S EXCEPT !.child = Put(@, a, [j \in {0, 1} |-> IF j = k THEN b
                                                  ELSE Child(S, a, j)])]

(* The bin maps, as sets of the indices whose bit is set.                    *)
mark_smallmap(S, i) == [S EXCEPT !.smallmap = @ \cup {i}]
clear_smallmap(S, i) == [S EXCEPT !.smallmap = @ \ {i}]
mark_treemap(S, i) == [S EXCEPT !.treemap = @ \cup {i}]
clear_treemap(S, i) == [S EXCEPT !.treemap = @ \ {i}]

CORRUPTION_ERROR_ACTION(S) == [S EXCEPT !.err = "corruption"]

ok_address(S, a) == a >= S.least_addr
ok_next(p, n) == p < n

-----------------------------------------------------------------------------
(* Small bins. *)

(* A header whose bit is clear may hold stale links: only fd and bk of a    *)
(* marked bin are followed.                                                 *)
insert_small_chunk(S, P, s) ==
  LET I == small_index(s)
      B == smallbin_at(I)
      F == IF I \in S.smallmap THEN Link(S.fd, B) ELSE B
      S1 == mark_smallmap(S, I)
  IN  IF I \in S.smallmap /\ ~ok_address(S, F) THEN CORRUPTION_ERROR_ACTION(S)
      ELSE SetBk(SetFd(SetBk(SetFd(S1, B, P), F, P), P, F), P, B)

unlink_small_chunk(S, P, s) ==
  LET F == Link(S.fd, P)
      B == Link(S.bk, P)
      I == small_index(s)
      Linked(a, back) == a = smallbin_at(I) \/ (ok_address(S, a) /\ back = P)
  IN  IF ~Linked(F, Link(S.bk, F)) THEN CORRUPTION_ERROR_ACTION(S)
      ELSE IF B = F THEN clear_smallmap(S, I)
      ELSE IF ~Linked(B, Link(S.fd, B)) THEN CORRUPTION_ERROR_ACTION(S)
      ELSE SetFd(SetBk(S, F, B), B, F)

unlink_first_small_chunk(S, B, P, I) ==
  LET F == Link(S.fd, P)
  IN  IF B = F THEN clear_smallmap(S, I)
      ELSE IF ~(ok_address(S, F) /\ Link(S.bk, F) = P)
           THEN CORRUPTION_ERROR_ACTION(S)
      ELSE SetFd(SetBk(S, F, B), B, F)

replace_dv(S, P, s) ==
  LET S1 == IF S.dvsize # 0 THEN insert_small_chunk(S, S.dv, S.dvsize) ELSE S
  IN  [S1 EXCEPT !.dvsize = s, !.dv = P]

-----------------------------------------------------------------------------
(* Tree bins. *)

(* Descend from T on the size bits below b, to an empty child or a node of  *)
(* the same size.                                                           *)
RECURSIVE InsertBelow(_, _, _, _, _)
InsertBelow(S, X, s, T, b) ==
  LET k == SizeBit(s, b)
      C == Child(S, T, k)
      F == Link(S.fd, T)
  IN  IF chunksize(S, T) # s
      THEN IF C # 0 THEN InsertBelow(S, X, s, C, b - 1)
           ELSE IF ~ok_address(S, ChildField(T, k)) THEN CORRUPTION_ERROR_ACTION(S)
           ELSE SetFd(SetBk(SetParent(SetChild(S, T, k, X), X, T), X, X), X, X)
      ELSE IF ~(ok_address(S, T) /\ ok_address(S, F))
           THEN CORRUPTION_ERROR_ACTION(S)
      ELSE SetParent(SetBk(SetFd(SetFd(SetBk(S, F, X), T, X), X, F), X, T), X, 0)

insert_large_chunk(S, X, s) ==
  LET I == compute_tree_index(s)
      S1 == [S EXCEPT !.index = Put(@, X, I),
                      !.child = Put(@, X, [k \in {0, 1} |-> 0])]
      S2 == [mark_treemap(S1, I) EXCEPT !.treebins = Put(@, I, X)]
  IN  IF I \notin S.treemap
      THEN SetFd(SetBk(SetParent(S2, X, treebin_at(I)), X, X), X, X)
      ELSE InsertBelow(S1, X, s, S.treebins[I], bit_for_tree_index(I))

(* The link (a node and a side) to the rightmost leaf below the link n, k.  *)
RECURSIVE RightmostLeaf(_, _, _)
RightmostLeaf(S, n, k) ==
  LET R == Child(S, n, k)
  IN  IF Child(S, R, 1) # 0 THEN RightmostLeaf(S, R, 1)
      ELSE IF Child(S, R, 0) # 0 THEN RightmostLeaf(S, R, 0)
      ELSE <<n, k>>

(* Steps 1 and 2 of unlink_large_chunk: detach a replacement R for X, its   *)
(* bk neighbour on the ring or the rightmost leaf below it, or none (0).    *)
DetachReplacement(S, X) ==
  LET F == Link(S.fd, X)
      B == Link(S.bk, X)
      k == IF Child(S, X, 1) # 0 THEN 1 ELSE 0
      RP == RightmostLeaf(S, X, k)
  IN  IF B # X
      THEN [r  |-> B,
            st |-> IF ok_address(S, F) /\ Link(S.bk, F) = X /\ Link(S.fd, B) = X
                   THEN SetFd(SetBk(S, F, B), B, F)
                   ELSE CORRUPTION_ERROR_ACTION(S)]
      ELSE IF Child(S, X, k) = 0 THEN [r |-> 0, st |-> S]
      ELSE [r  |-> Child(S, RP[1], RP[2]),
            st |-> IF ok_address(S, ChildField(RP[1], RP[2]))
                   THEN SetChild(S, RP[1], RP[2], 0)
                   ELSE CORRUPTION_ERROR_ACTION(S)]

AdoptWithoutParent(S, X, R, k) == SetChild(S, R, k, Child(S, X, k))

(* Hand child k of X over to R. *)
AdoptChild(S, X, R, k) ==
  LET C == Child(S, X, k)
  IN  IF C = 0 THEN S
      ELSE IF ~ok_address(S, C) THEN CORRUPTION_ERROR_ACTION(S)
      ELSE SetParent(SetChild(S, R, k, C), C, R)

(* Steps 3 and 4, in the state S after them: R takes the place of X below    *)
(* XP, or at the root of tree bin I, and the children of X.                  *)
ReplaceNode(S, X, R, XP, I) ==
  IF X = Link(S.treebins, I)
  THEN [IF R = 0 THEN clear_treemap(S, I) ELSE S EXCEPT !.treebins = Put(@, I, R)]
  ELSE IF ~ok_address(S, XP) THEN CORRUPTION_ERROR_ACTION(S)
  ELSE SetChild(S, XP, IF Child(S, XP, 0) = X THEN 0 ELSE 1, R)

AdoptChildren(S, X, R, XP) ==
  IF R = 0 THEN S
  ELSE IF ~ok_address(S, R) THEN CORRUPTION_ERROR_ACTION(S)
  ELSE AdoptChild(AdoptChild(SetParent(S, R, XP), X, R, 0), X, R, 1)

Relink(S, D, X) ==
  IF Link(S.parent, X) = 0 THEN D.st
  ELSE AdoptChildren(ReplaceNode(D.st, X, D.r, Link(S.parent, X), Link(S.index, X)),
                     X, D.r, Link(S.parent, X))

unlink_large_chunk(S, X) == Relink(S, DetachReplacement(S, X), X)

insert_chunk(S, P, s) ==
  IF is_small(s) THEN insert_small_chunk(S, P, s) ELSE insert_large_chunk(S, P, s)
unlink_chunk(S, P, s) ==
  IF is_small(s) THEN unlink_small_chunk(S, P, s) ELSE unlink_large_chunk(S, P)

=============================================================================
