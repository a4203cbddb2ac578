------------------------------- MODULE DlAlloc ------------------------------
(***************************************************************************)
(* The allocation algorithms of dlmalloc: best fit from the tree bins,     *)
(* malloc and free of an mspace, in-place reallocation, aligned and        *)
(* independent allocation, bulk free.                                      *)
(***************************************************************************)
EXTENDS DlSystem

USAGE_ERROR_ACTION(S) == [S EXCEPT !.err = "usage"]

Result(S, r) == [st |-> S, r |-> r]

-----------------------------------------------------------------------------
(* Best fit. *)

RightmostChild(S, t) == IF Child(S, t, 1) # 0 THEN Child(S, t, 1)
                                              ELSE Child(S, t, 0)
leftmost_child(S, t) == IF Child(S, t, 0) # 0 THEN Child(S, t, 0)
                                              ELSE Child(S, t, 1)

(* The first loop of tmalloc_large: follow the bits of nb from node t,      *)
(* keeping the best node v and the deepest untaken right subtree rst.  On   *)
(* an exact fit t stays where it is; otherwise the search goes on in rst.   *)
RECURSIVE FollowBits(_, _, _, _, _, _, _)
FollowBits(S, nb, t, b, v, rsize, rst) ==
  LET trem == Sub(chunksize(S, t), nb)
      v1   == IF trem < rsize THEN t ELSE v
      r1   == IF trem < rsize THEN trem ELSE rsize
      rt   == Child(S, t, 1)
      t1   == Child(S, t, SizeBit(nb, b))
      rst1 == IF rt # 0 /\ rt # t1 THEN rt ELSE rst
  IN  IF trem < rsize /\ trem = 0 THEN [t |-> t, v |-> t, rsize |-> 0]
      ELSE IF t1 = 0 THEN [t |-> rst1, v |-> v1, rsize |-> r1]
      ELSE FollowBits(S, nb, t1, b - 1, v1, r1, rst1)

(* The smallest node of a subtree lies on its leftmost path.                *)
RECURSIVE LeftmostBest(_, _, _, _, _)
LeftmostBest(S, nb, t, v, rsize) ==
  LET trem == Sub(chunksize(S, t), nb)
  IN  IF t = 0 THEN [v |-> v, rsize |-> rsize]
      ELSE IF trem < rsize
      THEN LeftmostBest(S, nb, leftmost_child(S, t), t, trem)
      ELSE LeftmostBest(S, nb, leftmost_child(S, t), v, rsize)

(* Use nb words of the unlinked chunk p of nb + rsize words; the remainder  *)
(* becomes dv, or goes to a bin.                                            *)
UseChunk(S, p, nb, rsize, dv) ==
  LET S1 == set_size_and_pinuse_of_free_chunk(
              set_size_and_pinuse_of_inuse_chunk(S, p, nb), p + nb, rsize)
  IN  IF rsize < MIN_CHUNK_SIZE THEN set_inuse_and_pinuse(S, p, rsize + nb)
      ELSE IF dv THEN replace_dv(S1, p + nb, rsize)
      ELSE insert_chunk(S1, p + nb, rsize)

TakeFromTree(S, v, nb, rsize, dv) ==
  IF ~(ok_address(S, v) /\ ok_next(v, v + nb))
  THEN Result(CORRUPTION_ERROR_ACTION(S), 0)
  ELSE Result(UseChunk(unlink_large_chunk(S, v), v, nb, rsize, dv), chunk2mem(v))

(* The second loop, from where the first one (A) ended or the next tree.    *)
SearchLeft(S, nb, A, later) ==
  LeftmostBest(S, nb,
               IF A.t = 0 /\ A.v = 0 /\ later # {} THEN S.treebins[Min(later)]
                                                   ELSE A.t,
               A.v, A.rsize)

TakeBest(S, nb, B) ==
  IF B.v # 0 /\ B.rsize < Sub(S.dvsize, nb)
  THEN TakeFromTree(S, B.v, nb, B.rsize, FALSE)
  ELSE Result(S, 0)

tmalloc_large(S, nb) ==
  LET idx  == compute_tree_index(nb)
  IN  TakeBest(S, nb,
        SearchLeft(S, nb,
          IF idx \in S.treemap
          THEN FollowBits(S, nb, S.treebins[idx], bit_for_tree_index(idx),
                          0, Sub(0, nb), 0)
          ELSE [t |-> 0, v |-> 0, rsize |-> Sub(0, nb)],
          {i \in S.treemap : i > idx}))

tmalloc_small(S, nb) ==
  LET root == S.treebins[Min(S.treemap)]
      Take(B) == TakeFromTree(S, B.v, nb, B.rsize, TRUE)
  IN  Take(LeftmostBest(S, nb, leftmost_child(S, root), root,
                        Sub(chunksize(S, root), nb)))

-----------------------------------------------------------------------------
(* malloc *)

(* Take the first chunk of small bin i for nb words; the bins at nb and     *)
(* nb + 1 leave no remainder.                                               *)
TakeFromSmallbin(S, i, nb) ==
  LET b == smallbin_at(i)
      p == Link(S.fd, b)
  IN  Result(UseChunk(unlink_first_small_chunk(S, b, p, i), p, nb, i - nb, TRUE),
             chunk2mem(p))

TakeFromDv(S, nb) ==
  LET p == S.dv
      rsize == S.dvsize - nb
      S1 == [S EXCEPT !.dv = p + nb, !.dvsize = rsize]
      S2 == set_size_and_pinuse_of_inuse_chunk(
              set_size_and_pinuse_of_free_chunk(S1, p + nb, rsize), p, nb)
  IN  Result(IF rsize >= MIN_CHUNK_SIZE THEN S2
             ELSE set_inuse_and_pinuse([S EXCEPT !.dv = 0, !.dvsize = 0],
                                       p, S.dvsize),
             chunk2mem(p))

(* After the bins, with tree the result of the tree search, which has       *)
(* aborted or left S as it was when it has found nothing.                   *)
TakeElsewhere(S, nb, tree, os) ==
  IF tree.r # 0 \/ tree.st.err # "none" THEN tree
  ELSE IF nb <= S.dvsize THEN TakeFromDv(S, nb)
  ELSE IF nb < S.topsize THEN SplitTop(S, nb)
  ELSE sys_alloc(S, nb, os)

(* A small request looks at the exact bins, then, if dv does not fit, at    *)
(* the next small bin and at the trees; a large one at the trees.           *)
mspace_malloc(S, bytes, os) ==
  LET small == bytes <= MAX_SMALL_REQUEST
      nb == IF bytes >= MAX_REQUEST THEN MAX_SIZE_T ELSE request2size(bytes)
      idx == small_index(nb)
      exact == {i \in {idx, idx + 1} : i \in S.smallmap}
      later == {i \in S.smallmap : i > idx}
      tries_tree == /\ S.treemap # {}
                    /\ IF small THEN nb > S.dvsize ELSE bytes < MAX_REQUEST
      bins == exact \cup (IF nb > S.dvsize THEN later ELSE {})
  IN  IF small /\ bins # {} THEN TakeFromSmallbin(S, Min(bins), nb)
      ELSE TakeElsewhere(S, nb,
                         IF ~tries_tree THEN Result(S, 0)
                         ELSE IF small THEN tmalloc_small(S, nb)
                         ELSE tmalloc_large(S, nb), os)

-----------------------------------------------------------------------------
(* free *)

(* mspace_free, not dispose_chunk, trims a top that grew too large.         *)
TopGrown(S, os, free) ==
  IF free /\ should_trim(S, S.topsize) THEN sys_trim(S, 0, os).st ELSE S

(* mspace_free, not dispose_chunk, counts the large chunks that it bins and *)
(* releases unused segments from time to time.                              *)
InsertFreed(S, p, size, os, free) ==
  LET S1 == insert_chunk(S, p, size)
  IN  IF ~free \/ is_small(size) THEN S1
      ELSE IF S1.release_checks = 1 THEN release_unused_segments(S1, os)
      ELSE [S1 EXCEPT !.release_checks = @ - 1]

(* Bin the free chunk p of size words, unless it is dv itself.              *)
PutAway(S, p, size, os, free) ==
  IF p = S.dv THEN [S EXCEPT !.dvsize = size]
  ELSE InsertFreed(S, p, size, os, free)

(* Merge p, of psize words, forward with the chunk that follows it, and     *)
(* bin the result unless it became (part of) dv or top.                     *)
ConsolidateForward(S, p, psize, next, os, free) ==
  LET nsize == chunksize(S, next)
  IN  IF cinuse(S, next)
      THEN InsertFreed(set_free_with_pinuse(S, p, psize, next), p, psize, os, free)
      ELSE IF next = S.top
      THEN TopGrown([SetHead(S, p, S.topsize + psize, FALSE, TRUE) EXCEPT
                       !.top = p, !.topsize = @ + psize,
                       !.dv = IF p = S.dv THEN 0 ELSE @,
                       !.dvsize = IF p = S.dv THEN 0 ELSE @], os, free)
      ELSE IF next = S.dv
      THEN [set_size_and_pinuse_of_free_chunk(S, p, S.dvsize + psize) EXCEPT
              !.dv = p, !.dvsize = @ + psize]
      ELSE PutAway(set_size_and_pinuse_of_free_chunk(unlink_chunk(S, next, nsize),
                                                     p, psize + nsize),
                   p, psize + nsize, os, free)

(* Merge p backward, unmap it if it is mmapped, then forward.               *)
FreeChunk(S, p, psize, os, free) ==
  LET next == p + psize
      prevsize == IF pinuse(S, p) THEN 0 ELSE prev_foot(S, p)
      prev == p - prevsize
      mmsize == psize + prevsize + MMAP_FOOT_PAD
      total == psize + prevsize
  IN  IF ~pinuse(S, p) /\ is_mmapped(S, p)
      THEN IF os.munmap
           THEN [Munmap(S, p - prevsize, mmsize) EXCEPT !.footprint = @ - mmsize]
           ELSE S
      ELSE IF prev # p /\ ~ok_address(S, prev) THEN CORRUPTION_ERROR_ACTION(S)
      ELSE IF prev # p /\ prev = S.dv /\ cinuse(S, next) /\ pinuse(S, next)
      THEN [set_free_with_pinuse(S, prev, total, next) EXCEPT !.dvsize = total]
      ELSE ConsolidateForward(IF prev \in {p, S.dv} THEN S
                              ELSE unlink_chunk(S, prev, prevsize),
                              prev, total, next, os, free)

dispose_chunk(S, p, psize, os) ==
  IF ~ok_address(S, p + psize) /\ ~is_mmapped(S, p) THEN CORRUPTION_ERROR_ACTION(S)
  ELSE FreeChunk(S, p, psize, os, FALSE)

mspace_free(S, mem, os) ==
  LET p == mem2chunk(mem)
      psize == chunksize(S, p)
      next == p + psize
  IN  IF mem = 0 THEN S
      ELSE IF ~(ok_address(S, p) /\ is_inuse(S, p)) THEN USAGE_ERROR_ACTION(S)
      ELSE IF ~is_mmapped(S, p) /\ ~(ok_next(p, next) /\ pinuse(S, next))
      THEN USAGE_ERROR_ACTION(S)
      ELSE FreeChunk(S, p, psize, os, TRUE)

-----------------------------------------------------------------------------
(* realloc, memalign, independent_calloc and bulk_free *)

(* Keep nb words of the in-use chunk p and dispose of the rest, if that is  *)
(* enough for a chunk.                                                      *)
SplitInuse(S, p, size, nb, os) ==
  IF size - nb >= MIN_CHUNK_SIZE
  THEN dispose_chunk(set_inuse(set_inuse(S, p, nb), p + nb, size - nb),
                     p + nb, size - nb, os)
  ELSE set_inuse(S, p, size)

(* The chunk after resizing in place (or by mremap if can_move), else 0.    *)
try_realloc_chunk(S, p, nb, can_move, os) ==
  LET oldsize == chunksize(S, p)
      next == p + oldsize
      withtop == oldsize + S.topsize
      withdv == oldsize + S.dvsize
      nextsize == chunksize(S, next)
      dsize == withdv - nb
      SplitDv == [SetPinuse(set_size_and_pinuse_of_free_chunk(
                              set_inuse(S, p, nb), p + nb, dsize),
                            next + S.dvsize, FALSE)
                    EXCEPT !.dv = p + nb, !.dvsize = dsize]
      UseUpDv == [set_inuse(S, p, withdv) EXCEPT !.dv = 0, !.dvsize = 0]
  IN  IF ~(ok_address(S, p) /\ is_inuse(S, p) /\ ok_next(p, next) /\ pinuse(S, next))
      THEN Result(USAGE_ERROR_ACTION(S), 0)
      ELSE IF is_mmapped(S, p) THEN mmap_resize(S, p, nb, can_move, os)
      ELSE IF oldsize >= nb THEN Result(SplitInuse(S, p, oldsize, nb, os), p)
      ELSE IF next = S.top
      THEN IF withtop > nb
           THEN Result([SetHead(set_inuse(S, p, nb), p + nb, withtop - nb,
                                FALSE, TRUE)
                          EXCEPT !.top = p + nb, !.topsize = withtop - nb], p)
           ELSE Result(S, 0)
      ELSE IF next = S.dv
      THEN IF withdv < nb THEN Result(S, 0)
           ELSE Result(IF dsize >= MIN_CHUNK_SIZE THEN SplitDv ELSE UseUpDv, p)
      ELSE IF ~cinuse(S, next) /\ oldsize + nextsize >= nb
      THEN Result(SplitInuse(unlink_chunk(S, next, nextsize), p,
                             oldsize + nextsize, nb, os), p)
      ELSE Result(S, 0)

(* After the attempt T in place: allocate, copy and free.                   *)
FreeOld(new, oldmem, os) ==
  IF new.r = 0 THEN new ELSE Result(mspace_free(new.st, oldmem, os), new.r)
MoveBlock(T, oldmem, bytes, os) ==
  IF T.r # 0 THEN Result(T.st, chunk2mem(T.r))
  ELSE FreeOld(mspace_malloc(T.st, bytes, os), oldmem, os)

mspace_realloc(S, oldmem, bytes, os) ==
  IF oldmem = 0 THEN mspace_malloc(S, bytes, os)
  ELSE IF bytes >= MAX_REQUEST THEN Result(S, 0)
  ELSE MoveBlock(try_realloc_chunk(S, mem2chunk(oldmem), request2size(bytes),
                                   TRUE, os), oldmem, bytes, os)

InPlace(T, oldmem) == Result(T.st, IF T.r = mem2chunk(oldmem) THEN oldmem ELSE 0)
mspace_realloc_in_place(S, oldmem, bytes, os) ==
  IF oldmem = 0 \/ bytes >= MAX_REQUEST THEN Result(S, 0)
  ELSE InPlace(try_realloc_chunk(S, mem2chunk(oldmem), request2size(bytes),
                                 FALSE, os), oldmem)

IsPowerOf2(n) == \E k \in 0..n : n = 2^k
NextAlignment(n) == Min({MALLOC_ALIGNMENT * 2^k : k \in 1..n} \ 0..(n - 1))

(* Give back what lies before the aligned address newp in the chunk p.      *)
FreeLead(S, p, newp, os) ==
  LET leadsize == newp - p
      newsize == chunksize(S, p) - leadsize
  IN  IF newp = p THEN S
      ELSE IF is_mmapped(S, p)
      THEN [SetHead(S, newp, newsize, FALSE, FALSE) EXCEPT
              !.foot = Put(@, newp, prev_foot(S, p) + leadsize)]
      ELSE dispose_chunk(set_inuse(set_inuse(S, newp, newsize), p, leadsize),
                         p, leadsize, os)

(* Give back what lies behind the nb words of the chunk p.                  *)
FreeTail(S, p, nb, os) ==
  IF ~is_mmapped(S, p) /\ chunksize(S, p) > nb + MIN_CHUNK_SIZE
  THEN SplitInuse(S, p, chunksize(S, p), nb, os) ELSE S

(* Wrong: takes a block for aligned that has the alignment of all blocks.   *)
AlignedAnyway(mem, alignment) ==
  IF mem % MALLOC_ALIGNMENT = 0 THEN mem2chunk(mem)
  ELSE mem2chunk(AlignUp(mem, alignment))

(* The first aligned chunk in M's block that leaves room for a chunk before *)
(* it, or starts the block.                                                 *)
AlignedChunk(mem, alignment) ==
  LET br == mem2chunk(AlignUp(mem, alignment))
      p  == mem2chunk(mem)
  IN  IF mem % alignment = 0 THEN p
      ELSE IF br - p >= MIN_CHUNK_SIZE THEN br ELSE br + alignment

AlignBlock(M, newp, nb, os) ==
  IF M.r = 0 THEN M
  ELSE Result(FreeTail(FreeLead(M.st, mem2chunk(M.r), newp, os), newp, nb, os),
              chunk2mem(newp))

AlignIn(M, alignment, nb, os) ==
  AlignBlock(M, AlignedChunk(M.r, alignment), nb, os)

internal_memalign(S, alignment0, bytes, os) ==
  LET a1 == IF alignment0 < MIN_CHUNK_SIZE THEN MIN_CHUNK_SIZE ELSE alignment0
      alignment == IF IsPowerOf2(a1) THEN a1 ELSE NextAlignment(a1)
      nb  == request2size(bytes)
  IN  IF bytes >= MAX_REQUEST - alignment THEN Result(S, 0)
      ELSE AlignIn(mspace_malloc(S, nb + alignment + MIN_CHUNK_SIZE - CHUNK_OVERHEAD,
                                 os), alignment, nb, os)

mspace_memalign(S, alignment, bytes, os) ==
  IF alignment <= MALLOC_ALIGNMENT THEN mspace_malloc(S, bytes, os)
  ELSE internal_memalign(S, alignment, bytes, os)

mspace_aligned_alloc(S, alignment, bytes, os) ==
  IF bytes % alignment # 0 THEN Result(S, 0)
  ELSE mspace_memalign(S, alignment, bytes, os)

mspace_posix_memalign(S, alignment, bytes, os) ==
  IF bytes = 0 THEN Result(S, 0) ELSE mspace_memalign(S, alignment, bytes, os)

(* Cut the chunk at p into in-use chunks of the given sizes, the last one   *)
(* taking all of the remaining rest words.                                  *)
RECURSIVE CutChunk(_, _, _, _)
CutChunk(S, p, sizes, rest) ==
  IF Len(sizes) = 1 THEN set_size_and_pinuse_of_inuse_chunk(S, p, rest)
  ELSE CutChunk(set_size_and_pinuse_of_inuse_chunk(S, p, sizes[1]),
                p + sizes[1], Tail(sizes), rest - sizes[1])

(* The elements, of the given chunk sizes, of the block at mem; the array   *)
(* of their addresses is the caller's, or follows them.                     *)
Elements(mem, elems) ==
  [i \in DOMAIN elems |-> mem + FoldLeft(LAMBDA x, y : x + y, 0, SubSeq(elems, 1, i - 1))]

CutElements(S, mem, elems, contents, given) ==
  LET p == mem2chunk(mem)
      total == chunksize(S, p)
  IN  IF given THEN CutChunk(S, p, elems, total)
      ELSE CutChunk(set_size_and_pinuse_of_inuse_chunk(S, p + contents,
                                                       total - contents),
                    p, elems, contents)

Cut(S, M, elems, contents, given) ==
  LET S1 == [M.st EXCEPT !.use_mmap = S.use_mmap]
  IN  IF M.r = 0 THEN [st |-> S1, r |-> <<>>, marray |-> 0]
      ELSE [st |-> CutElements(S1, M.r, elems, contents, given),
            r  |-> Elements(M.r, elems),
            marray |-> IF given THEN 0 ELSE M.r + contents]

EmptyArray(M) == [st |-> M.st, r |-> <<>>, marray |-> M.r]

(* marray is the array of the addresses, if the call allocated it, else 0.  *)
ialloc(S, sizes, given, os) ==
  LET n == Len(sizes)
      elems == [i \in 1..n |-> request2size(sizes[i])]
      contents == FoldLeft(LAMBDA x, y : x + y, 0, elems)
      array == IF given THEN 0 ELSE request2size(n)
  IN  IF n = 0 THEN EmptyArray(IF given THEN Result(S, 0)
                               ELSE mspace_malloc(S, 0, os))
      ELSE Cut(S, mspace_malloc([S EXCEPT !.use_mmap = FALSE],
                                contents + array - CHUNK_OVERHEAD, os),
               elems, contents, given)

mspace_usable_size(S, mem) ==
  LET p == mem2chunk(mem)
  IN  IF mem # 0 /\ is_inuse(S, p) THEN chunksize(S, p) - overhead_for(S, p) ELSE 0

RECURSIVE BulkFreeFrom(_, _, _, _)
BulkFreeFrom(S, a, i, os) ==
  LET p == mem2chunk(a[i])
      psize == chunksize(S, p)
      next == p + psize
  IN  IF i > Len(a) THEN S
      ELSE IF a[i] = 0 THEN BulkFreeFrom(S, a, i + 1, os)
      ELSE IF ~(ok_address(S, p) /\ is_inuse(S, p)) THEN CORRUPTION_ERROR_ACTION(S)
      ELSE IF i < Len(a) /\ a[i + 1] = chunk2mem(next)
      THEN BulkFreeFrom(set_inuse(S, p, psize + chunksize(S, next)),
                        [a EXCEPT ![i + 1] = a[i]], i + 1, os)
      ELSE BulkFreeFrom(dispose_chunk(S, p, psize, os), a, i + 1, os)

internal_bulk_free(S, array, os) ==
  LET S1 == BulkFreeFrom(S, array, 1, os)
  IN  IF should_trim(S1, S1.topsize) THEN sys_trim(S1, 0, os).st ELSE S1
=============================================================================
