------------------------------- MODULE DlCheck ------------------------------
(***************************************************************************)
(* The consistency checks dlmalloc runs on itself when compiled with       *)
(* DEBUG, as predicates: do_check_malloc_state and what it calls.          *)
(***************************************************************************)
EXTENDS DlAlloc

IsFencepost(S, p) == HeadOf(S, p) = FENCEPOST_HEAD

do_check_any_chunk(S, p) ==
  (is_aligned(chunk2mem(p)) \/ IsFencepost(S, p)) /\ ok_address(S, p)

do_check_top_chunk(S, p) ==
  LET i  == segment_holding(S, p)
      sz == chunksize(S, p)
  IN  /\ i # 0
      /\ is_aligned(chunk2mem(p)) /\ ok_address(S, p)
      /\ sz = S.topsize /\ sz > 0
      /\ sz = S.segs[i].base + S.segs[i].size - p - TOP_FOOT_SIZE
      /\ pinuse(S, p) /\ ~pinuse(S, p + sz)

do_check_mmapped_chunk(S, p) ==
  LET sz == chunksize(S, p)
  IN  /\ is_mmapped(S, p) /\ S.use_mmap
      /\ is_aligned(chunk2mem(p)) /\ ok_address(S, p)
      /\ ~is_small(sz)
      /\ (sz + prev_foot(S, p) + MMAP_FOOT_PAD) % PageSize = 0
      /\ IsFencepost(S, p + sz)
      /\ HeadOf(S, p + sz + 1) = [size |-> 0, c |-> FALSE, p |-> FALSE]

do_check_inuse_chunk(S, p) ==
  /\ do_check_any_chunk(S, p)
  /\ is_inuse(S, p)
  /\ pinuse(S, next_chunk(S, p))
  /\ \/ is_mmapped(S, p) \/ pinuse(S, p)
     \/ next_chunk(S, p - prev_foot(S, p)) = p
  /\ is_mmapped(S, p) => do_check_mmapped_chunk(S, p)

do_check_free_chunk(S, p) ==
  LET sz == chunksize(S, p)
      next == p + sz
  IN  /\ do_check_any_chunk(S, p)
      /\ ~is_inuse(S, p) /\ ~pinuse(S, next) /\ ~is_mmapped(S, p)
      /\ p # S.dv /\ p # S.top =>
           IF sz < MIN_CHUNK_SIZE THEN sz = 1
           ELSE /\ sz % MALLOC_ALIGNMENT = 0 /\ is_aligned(chunk2mem(p))
                /\ prev_foot(S, next) = sz
                /\ pinuse(S, p)
                /\ next = S.top \/ is_inuse(S, next)
                /\ Link(S.bk, Link(S.fd, p)) = p
                /\ Link(S.fd, Link(S.bk, p)) = p

do_check_malloced_chunk(S, mem, s) ==
  LET p == mem2chunk(mem)
      sz == chunksize(S, p)
  IN  mem # 0 => /\ do_check_inuse_chunk(S, p)
                 /\ sz % MALLOC_ALIGNMENT = 0 /\ sz >= MIN_CHUNK_SIZE /\ sz >= s
                 /\ is_mmapped(S, p) \/ sz < s + MIN_CHUNK_SIZE

(* The chunks met from u along a link, until one comes back.                *)
RECURSIVE Chain(_, _, _)
Chain(link, u, seen) ==
  IF u \in seen THEN seen ELSE Chain(link, Link(link, u), seen \cup {u})

(* fuel bounds the depth: a sound tree is no deeper than a size has bits.   *)
RECURSIVE do_check_tree(_, _, _)
do_check_tree(S, t, fuel) ==
  LET tsize == chunksize(S, t)
      idx == compute_tree_index(tsize)
      ring == Chain(S.fd, t, {})
      Above(u) == Link(S.parent, u)
      Down(u, k) == Child(S, u, k)
  IN  /\ fuel > 0
      /\ Link(S.index, t) = idx
      /\ tsize >= MIN_LARGE_SIZE /\ tsize >= minsize_for_tree_index(idx)
      /\ idx = NTREEBINS - 1 \/ tsize < minsize_for_tree_index(idx + 1)
      /\ Cardinality({u \in ring : Above(u) # 0}) = 1
      /\ \A u \in ring :
           /\ do_check_any_chunk(S, u)
           /\ Link(S.index, u) = idx /\ chunksize(S, u) = tsize
           /\ ~is_inuse(S, u) /\ ~pinuse(S, next_chunk(S, u))
           /\ Link(S.bk, Link(S.fd, u)) = u /\ Link(S.fd, Link(S.bk, u)) = u
           /\ IF Above(u) = 0 THEN Down(u, 0) = 0 /\ Down(u, 1) = 0
              ELSE /\ \/ Down(Above(u), 0) = u \/ Down(Above(u), 1) = u
                      \/ Above(u) = treebin_at(idx) /\ S.treebins[idx] = u
                   /\ \A k \in {0, 1} :
                        Down(u, k) # 0 => /\ Above(Down(u, k)) = u
                                          /\ do_check_tree(S, Down(u, k), fuel - 1)
                   /\ Down(u, 0) # 0 /\ Down(u, 1) # 0 =>
                        chunksize(S, Down(u, 0)) < chunksize(S, Down(u, 1))

do_check_treebin(S, i) ==
  i \in S.treemap => S.treebins[i] # 0 /\ do_check_tree(S, S.treebins[i], SizeBits)

do_check_smallbin(S, i) ==
  LET b == smallbin_at(i)
      members == Chain(S.bk, b, {}) \ {b}
  IN  i \in S.smallmap =>
        /\ members # {}
        /\ \A p \in members :
             /\ do_check_free_chunk(S, p)
             /\ small_index(chunksize(S, p)) = i
             /\ ~IsFencepost(S, next_chunk(S, p)) =>
                  do_check_inuse_chunk(S, next_chunk(S, p))

(* Follow the bits of size from t to a node of that size, or 0.             *)
RECURSIVE FindNode(_, _, _, _)
FindNode(S, t, size, b) ==
  IF t = 0 \/ chunksize(S, t) = size THEN t
  ELSE FindNode(S, Child(S, t, SizeBit(size, b)), size, b - 1)

bin_find(S, x) ==
  LET size == chunksize(S, x)
      sb == smallbin_at(small_index(size))
      i == compute_tree_index(size)
      t == FindNode(S, S.treebins[i], size, bit_for_tree_index(i))
  IN  IF is_small(size)
      THEN small_index(size) \in S.smallmap /\ x \in Chain(S.fd, sb, {})
      ELSE i \in S.treemap /\ t # 0 /\ x \in Chain(S.fd, t, {})

(* The chunks of a segment from q up to the top chunk or a fencepost; a     *)
(* chunk of size 0 ends the walk.                                           *)
RECURSIVE ChunksFrom(_, _, _)
ChunksFrom(S, s, q) ==
  IF ~segment_holds(s, q) \/ q = S.top \/ IsFencepost(S, q) THEN <<>>
  ELSE IF chunksize(S, q) = 0 THEN <<q>>
  ELSE <<q>> \o ChunksFrom(S, s, next_chunk(S, q))
SegmentChunks(S, i) == ChunksFrom(S, S.segs[i], align_as_chunk(S.segs[i].base))

traverse_and_check(S) ==
  \A i \in DOMAIN S.segs :
    LET qs == SegmentChunks(S, i)
    IN  /\ pinuse(S, align_as_chunk(S.segs[i].base))
        /\ \A k \in DOMAIN qs :
             IF is_inuse(S, qs[k])
             THEN ~bin_find(S, qs[k]) /\ do_check_inuse_chunk(S, qs[k])
             ELSE /\ qs[k] = S.dv \/ bin_find(S, qs[k])
                  /\ k = 1 \/ is_inuse(S, qs[k - 1])
                  /\ do_check_free_chunk(S, qs[k])

(* The sum traverse_and_check returns. *)
TraversedSize(S) ==
  S.topsize + TOP_FOOT_SIZE
    + FoldLeft(LAMBDA t, q : t + chunksize(S, q), 0,
               FlattenSeq([i \in DOMAIN S.segs |-> SegmentChunks(S, i)]))

do_check_malloc_state(S) ==
  /\ \A i \in 0 .. NSMALLBINS - 1 : do_check_smallbin(S, i)
  /\ \A i \in 0 .. NTREEBINS - 1 : do_check_treebin(S, i)
  /\ S.dvsize # 0 => /\ do_check_any_chunk(S, S.dv)
                     /\ S.dvsize = chunksize(S, S.dv)
                     /\ S.dvsize >= MIN_CHUNK_SIZE
                     /\ ~bin_find(S, S.dv)
  /\ S.top # 0 => /\ do_check_top_chunk(S, S.top) /\ ~bin_find(S, S.top)
  /\ traverse_and_check(S)
  /\ TraversedSize(S) <= S.footprint
  /\ S.footprint <= S.max_footprint

-----------------------------------------------------------------------------
(***************************************************************************)
(* What dlmalloc tells about its heap: mallinfo, malloc_stats, inspect_all *)
(* and the accessors, as functions of the state.  Each one walks over the  *)
(* segments by itself.  The accessors are those of the E-ACSL build; its   *)
(* Makefile compiles mallinfo, malloc_stats and inspect_all out, and they  *)
(* are modelled as the library's own build has them.                       *)
(***************************************************************************)

mspace_least_addr(S) == S.least_addr
mspace_footprint(S) == S.footprint
mspace_max_footprint(S) == S.max_footprint
mspace_footprint_limit(S) == IF S.footprint_limit = 0 THEN MAX_SIZE_T ELSE S.footprint_limit

(* The chunks that a walk over all the segments meets. *)
Walk(S) == FlattenSeq([i \in DOMAIN S.segs |-> SegmentChunks(S, i)])

SizeOf(S, qs) == FoldLeft(LAMBDA t, q : t + chunksize(S, q), 0, qs)

Mallinfo(S, qs, free) ==
  LET mfree == S.topsize + TOP_FOOT_SIZE + SizeOf(S, free)
      sum   == S.topsize + TOP_FOOT_SIZE + SizeOf(S, qs)
  IN  [arena |-> sum, ordblks |-> 1 + Len(free), hblkhd |-> Sub(S.footprint, sum),
       usmblks |-> S.max_footprint, uordblks |-> Sub(S.footprint, mfree),
       fordblks |-> mfree, keepcost |-> S.topsize]

(* Wrong: only one segment is walked over. *)
OneSegment(S) ==
  LET qs == SegmentChunks(S, 1)
  IN  Mallinfo(S, qs, SelectSeq(qs, LAMBDA q : ~is_inuse(S, q)))

internal_mallinfo(S) ==
  LET qs == Walk(S)
  IN  Mallinfo(S, qs, SelectSeq(qs, LAMBDA q : ~is_inuse(S, q)))

internal_malloc_stats(S) ==
  [maxfp |-> mspace_max_footprint(S), fp |-> mspace_footprint(S),
   used  |-> FoldLeft(LAMBDA t, q : IF is_inuse(S, q) THEN t ELSE Sub(t, chunksize(S, q)),
                      Sub(S.footprint, S.topsize + TOP_FOOT_SIZE), Walk(S))]

(* The calls of the handler; the walk of inspect_all goes on to the top     *)
(* chunk and ends there.                                                    *)
MTREE_CHUNK_SIZE == 8

Region(S, q) ==
  [start |-> IF is_inuse(S, q) THEN chunk2mem(q)
             ELSE q + (IF is_small(chunksize(S, q)) THEN MCHUNK_SIZE ELSE MTREE_CHUNK_SIZE),
   end   |-> next_chunk(S, q),
   used  |-> IF is_inuse(S, q) THEN chunksize(S, q) - CHUNK_OVERHEAD ELSE 0]

Inspected(S, qs) ==
  {r \in {Region(S, q) : q \in qs \cup {S.top}} : r.start < r.end}

internal_inspect_all(S) == Inspected(S, ToSet(Walk(S)))

=============================================================================
