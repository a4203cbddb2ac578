------------------------------ MODULE DlSystem ------------------------------
(***************************************************************************)
(* How the allocator gets memory from the system and gives it back:        *)
(* directly mmapped chunks, segments (S.segs, the list from m->seg on; rec *)
(* is the address of a segment's record), and trimming.                    *)
(*                                                                         *)
(* The system is external.  os gives the outcome of the calls one          *)
(* operation may make: the address mmap returns (direct for CALL_DIRECT_   *)
(* MMAP, mmap for CALL_MMAP), whether munmap succeeds, and where mremap    *)
(* puts the region; 0 stands for MFAIL.  S.mapped is the set of pages the  *)
(* kernel has given to the process: mmap only hands out others.            *)
(***************************************************************************)
EXTENDS DlChunks

CONSTANTS
  PageSize,                 \* malloc_getpagesize, in words
  MAX_RELEASE_CHECK_RATE,
  MstateSize                \* sizeof(struct malloc_state), in words

ASSUME SystemConstants ==
  /\ PageSize \in Nat /\ PageSize % MALLOC_ALIGNMENT = 0
  /\ MAX_RELEASE_CHECK_RATE \in Nat \ {0} /\ MstateSize \in Nat

MMAP_FOOT_PAD == FOUR_SIZE_T_SIZES
FENCEPOST_HEAD == [size |-> 1, c |-> TRUE, p |-> TRUE]

mmap_align(n) == AlignUp(n, PageSize)
granularity_align(S, n) == AlignUp(n, S.mparams.granularity)

Pages(base, size) == (base \div PageSize) .. ((base + size - 1) \div PageSize)

(* mmap(0, n): the pages at a, unless some of them are taken.               *)
CALL_MMAP(S, a, n) ==
  IF a # 0 /\ Pages(a, n) \cap S.mapped = {}
  THEN [st |-> [S EXCEPT !.mapped = @ \cup Pages(a, n)], r |-> a]
  ELSE [st |-> S, r |-> 0]

Munmap(S, base, n) == [S EXCEPT !.mapped = @ \ Pages(base, n)]

(* mremap(base, old, new, flags): a region that does not move can shrink,   *)
(* or grow into free pages; one that may move can also go to a free place.  *)
CALL_MREMAP(S, base, old, new, can_move, to) ==
  LET S1 == Munmap(S, base, old)
      OK == /\ to # 0 /\ Pages(to, new) \cap S1.mapped = {}
            /\ to = base \/ can_move
  IN  IF OK THEN [st |-> [S1 EXCEPT !.mapped = @ \cup Pages(to, new)], r |-> to]
            ELSE [st |-> S, r |-> 0]

ChangeFootprint(S, d) ==
  [S EXCEPT !.footprint = @ + d,
            !.max_footprint = IF S.footprint + d > @ THEN S.footprint + d ELSE @]

LowerLeast(S, a) == [S EXCEPT !.least_addr = IF a < @ THEN a ELSE @]

(* The footprint_limit test of mmap_alloc and sys_alloc. *)
OverLimit(S, n) == S.footprint_limit # 0 /\ S.footprint + n > S.footprint_limit

-----------------------------------------------------------------------------
(* Directly mmapped chunks: neither in-use bit is set, prev_foot is the     *)
(* offset of the chunk in its region, and two fake heads follow it.         *)

MmappedChunk(S, p, offset, psize) ==
  LET S1 == [SetHead(S, p, psize, FALSE, FALSE)
               EXCEPT !.foot = Put(@, p, offset)]
  IN  SetHead([S1 EXCEPT !.head = Put(@, p + psize, FENCEPOST_HEAD)],
              p + psize + 1, 0, FALSE, FALSE)

mmap_alloc(S, nb, os) ==
  LET mmsize == mmap_align(nb + SIX_SIZE_T_SIZES + MALLOC_ALIGNMENT)
      Chunk(mm, offset) ==
        [st |-> ChangeFootprint(
                  LowerLeast(MmappedChunk(mm.st, mm.r + offset, offset,
                                          mmsize - offset - MMAP_FOOT_PAD), mm.r),
                  mmsize),
         r  |-> chunk2mem(mm.r + offset)]
      Mapped(mm) == IF mm.r = 0 THEN [st |-> S, r |-> 0]
                    ELSE Chunk(mm, align_offset(chunk2mem(mm.r)))
  IN  IF OverLimit(S, mmsize) \/ mmsize > MAX_SIZE_T THEN [st |-> S, r |-> 0]
      ELSE Mapped(CALL_MMAP(S, os.direct, mmsize))

(* The chunk after resizing, 0 if it has to be copied instead.              *)
mmap_resize(S, oldp, nb, can_move, os) ==
  LET oldsize == chunksize(S, oldp)
      offset  == prev_foot(S, oldp)
      oldmmsize == oldsize + offset + MMAP_FOOT_PAD
      newmmsize == mmap_align(nb + SIX_SIZE_T_SIZES + MALLOC_ALIGNMENT)
      cp   == CALL_MREMAP(S, oldp - offset, oldmmsize, newmmsize, can_move,
                          os.mremap)
      S1   == MmappedChunk(cp.st, cp.r + offset, offset,
                           newmmsize - offset - MMAP_FOOT_PAD)
  IN  IF is_small(nb) THEN [st |-> S, r |-> 0]
      ELSE IF oldsize >= nb + 1 /\ oldsize - nb <= 2 * S.mparams.granularity
      THEN [st |-> S, r |-> oldp]
      ELSE IF cp.r = 0 THEN [st |-> S, r |-> 0]
      ELSE [st |-> ChangeFootprint(LowerLeast(S1, cp.r), newmmsize - oldmmsize),
            r  |-> cp.r + offset]

-----------------------------------------------------------------------------
(* Segments. *)

segment_holds(sp, a) == a >= sp.base /\ a < sp.base + sp.size
segment_holding(S, a) == SelectInSeq(S.segs, LAMBDA sp : segment_holds(sp, a))
has_segment_link(S, sp) == \E i \in DOMAIN S.segs : segment_holds(sp, S.segs[i].rec)

init_top(S, p, psize) ==
  LET offset == align_offset(chunk2mem(p))
      q == p + offset
      n == psize - offset
  IN  [SetHead(SetHead(S, q, n, FALSE, TRUE), q + n, TOP_FOOT_SIZE, FALSE, FALSE)
         EXCEPT !.top = q, !.topsize = n,
                !.trim_check = S.mparams.trim_threshold]

(* Allocate nb words from the top chunk, which is larger.                   *)
SplitTop(S, nb) ==
  LET p == S.top
      rsize == S.topsize - nb
  IN  [st |-> [set_size_and_pinuse_of_inuse_chunk(
                 SetHead(S, p + nb, rsize, FALSE, TRUE), p, nb)
                 EXCEPT !.top = p + nb, !.topsize = rsize],
       r  |-> chunk2mem(p)]

prepend_alloc(S, newbase, oldbase, nb) ==
  LET p == align_as_chunk(newbase)
      oldfirst == align_as_chunk(oldbase)
      q == p + nb
      qsize == oldfirst - p - nb
      nsize == chunksize(S, oldfirst)
      S1 == set_size_and_pinuse_of_inuse_chunk(S, p, nb)
      S2 == IF is_inuse(S, oldfirst) THEN S1 ELSE unlink_chunk(S1, oldfirst, nsize)
      total == IF is_inuse(S, oldfirst) THEN qsize ELSE qsize + nsize
  IN  [r  |-> chunk2mem(p),
       st |-> IF oldfirst = S.top
              THEN [SetHead(S1, q, S.topsize + qsize, FALSE, TRUE)
                      EXCEPT !.top = q, !.topsize = @ + qsize]
              ELSE IF oldfirst = S.dv
              THEN [set_size_and_pinuse_of_free_chunk(S1, q, S.dvsize + qsize)
                      EXCEPT !.dv = q, !.dvsize = @ + qsize]
              ELSE insert_chunk(set_free_with_pinuse(S2, q, total, q + total),
                                q, total)]

(* Close the segment of the old top with its record and fenceposts, bin     *)
(* what is left of the old top, and make the new space the top.             *)
add_segment(S, tbase, tsize) ==
  LET old_top == S.top
      oldsp   == S.segs[segment_holding(S, old_top)]
      old_end == oldsp.base + oldsp.size
      ssize   == pad_request(SEGMENT_SIZE)
      asp     == align_as_chunk(old_end - (ssize + FOUR_SIZE_T_SIZES
                                           + MALLOC_ALIGNMENT - 1))
      csp     == IF asp < old_top + MIN_CHUNK_SIZE THEN old_top ELSE asp
      fences  == (csp + ssize) .. (old_end - 2)
      S1 == set_size_and_pinuse_of_inuse_chunk(
              init_top(S, tbase, tsize - TOP_FOOT_SIZE), csp, ssize)
      S2 == [S1 EXCEPT
               !.segs = <<[base |-> tbase, size |-> tsize, mm |-> TRUE,
                           ext |-> FALSE, rec |-> S.m],
                          [S.segs[1] EXCEPT !.rec = chunk2mem(csp)]>> \o Tail(@),
               !.head = [a \in DOMAIN @ \cup fences |->
                           IF a \in fences THEN FENCEPOST_HEAD ELSE @[a]]]
  IN  IF csp = old_top THEN S2
      ELSE insert_chunk(set_free_with_pinuse(S2, old_top, csp - old_top, csp),
                        old_top, csp - old_top)

(* Take the asize words mapped at tbase into the segments of S: above the   *)
(* top chunk, below another segment, or as a segment of its own.            *)
TakeSpace(S, tbase, asize, nb) ==
  LET after == SelectInSeq(S.segs, LAMBDA sp : tbase = sp.base + sp.size)
      below == SelectInSeq(S.segs, LAMBDA sp : sp.base = tbase + asize)
      Merges(i) == i # 0 /\ ~S.segs[i].ext /\ S.segs[i].mm
      Split(S1) == IF nb < S1.topsize THEN SplitTop(S1, nb)
                   ELSE [st |-> S1, r |-> 0]
  IN  IF Merges(after) /\ segment_holds(S.segs[after], S.top)
      THEN Split(init_top([S EXCEPT !.segs[after].size = @ + asize],
                          S.top, S.topsize + asize))
      ELSE IF Merges(below)
      THEN prepend_alloc([LowerLeast(S, tbase) EXCEPT
                            !.segs[below].base = tbase,
                            !.segs[below].size = @ + asize],
                         tbase, S.segs[below].base, nb)
      ELSE Split(add_segment(LowerLeast(S, tbase), tbase, asize))

(* After a direct mmap with result dm: map asize words for a segment.       *)
AllocSegment(dm, mp, asize, nb) ==
  IF dm.r # 0 THEN dm
  ELSE IF asize > MAX_SIZE_T \/ OverLimit(dm.st, asize) \/ mp.r = 0
  THEN [st |-> dm.st, r |-> 0]
  ELSE TakeSpace(ChangeFootprint(mp.st, asize), mp.r, asize, nb)

sys_alloc(S, nb, os) ==
  LET big   == S.use_mmap /\ nb >= S.mparams.mmap_threshold /\ S.topsize # 0
      asize == granularity_align(S, nb + SYS_ALLOC_PADDING)
  IN  AllocSegment(IF big THEN mmap_alloc(S, nb, os) ELSE [st |-> S, r |-> 0],
                   CALL_MMAP(S, os.mmap, asize), asize, nb)

-----------------------------------------------------------------------------
(* Giving memory back. *)

(* Unmap segment i of S, whose chunk p is no longer linked; if that fails,  *)
(* the chunk goes back to the trees.                                        *)
UnmapSegment(S, i, p, os) ==
  IF os.munmap
  THEN [Munmap(S, S.segs[i].base, S.segs[i].size) EXCEPT
          !.footprint = @ - S.segs[i].size, !.segs = RemoveAt(@, i)]
  ELSE insert_large_chunk(S, p, chunksize(S, p))

(* Segment i is unmapped if its first chunk is free and holds all of it     *)
(* (the record and fenceposts in its foot go with it).                      *)
ReleaseSegment(S, i, os) ==
  LET sp == S.segs[i]
      p  == align_as_chunk(sp.base)
  IN  IF /\ sp.mm /\ ~sp.ext /\ ~is_inuse(S, p)
         /\ next_chunk(S, p) >= sp.base + sp.size - TOP_FOOT_SIZE
      THEN UnmapSegment(IF p = S.dv THEN [S EXCEPT !.dv = 0, !.dvsize = 0]
                        ELSE unlink_large_chunk(S, p), i, p, os)
      ELSE S

(* n is the number of segments before the last one was looked at.           *)
RECURSIVE ReleaseFrom(_, _, _, _)
ReleaseFrom(S, i, n, os) ==
  LET next == IF Len(S.segs) = n THEN i + 1 ELSE i
  IN  IF next > Len(S.segs) THEN S
      ELSE ReleaseFrom(ReleaseSegment(S, next, os), next, Len(S.segs), os)

release_unused_segments(S, os) ==
  LET n == Len(S.segs) - 1
  IN  [ReleaseFrom(S, 1, n + 1, os) EXCEPT
         !.release_checks = IF n > MAX_RELEASE_CHECK_RATE THEN n
                            ELSE MAX_RELEASE_CHECK_RATE]

should_trim(S, s) == s > S.trim_check

(* Unmap the end of the segment that holds the top chunk.                   *)
TrimTop(S, pad, os) ==
  LET unit  == S.mparams.granularity
      extra == (((S.topsize - pad + unit - 1) \div unit) - 1) * unit
      i     == segment_holding(S, S.top)
      sp    == S.segs[i]
  IN  IF /\ S.topsize > pad /\ extra > 0 /\ ~sp.ext /\ sp.mm
         /\ sp.size >= extra /\ ~has_segment_link(S, sp)
         /\ os.mremap = sp.base \/ os.munmap
      THEN init_top([Munmap(S, sp.base + sp.size - extra, extra) EXCEPT
                       !.segs[i].size = @ - extra, !.footprint = @ - extra],
                    S.top, S.topsize - extra)
      ELSE S

(* Nothing was released: no automatic trim until the top chunk is rebuilt.  *)
GiveUpTrimming(S, released) ==
  [r  |-> IF released # 0 THEN 1 ELSE 0,
   st |-> IF released = 0 /\ S.topsize > S.trim_check
          THEN [S EXCEPT !.trim_check = MAX_SIZE_T] ELSE S]

Trimmed(S, S1) == GiveUpTrimming(S1, S.footprint - S1.footprint)

sys_trim(S, pad, os) ==
  IF pad >= MAX_REQUEST THEN [st |-> S, r |-> 0]
  ELSE Trimmed(S, release_unused_segments(TrimTop(S, pad + TOP_FOOT_SIZE, os), os))
=============================================================================
