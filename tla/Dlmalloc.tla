------------------------------ MODULE Dlmalloc ------------------------------
(***************************************************************************)
(* One mspace of dlmalloc, as the E-ACSL runtime uses it, under a legal    *)
(* client: it frees and reallocates only blocks it owns.  st is the        *)
(* malloc_state with the heap words the allocator writes, live the blocks  *)
(* the client owns with the sizes and alignments it asked for, budget the  *)
(* calls of each kind left (a bound of the model).                         *)
(*                                                                         *)
(* Every call is one action: the build has no locks, and PREACTION and     *)
(* POSTACTION are empty.  The client may overwrite all of a block it owns, *)
(* so a call ends by forgetting (Forget) every word that is not a boundary *)
(* tag or a link of a free chunk.                                          *)
(***************************************************************************)
EXTENDS DlCheck

CONSTANTS
  Requests,     \* sizes asked for, in words
  Layouts,      \* sequences of sizes asked of the independent_ calls
  Capacities,   \* capacities asked of create_mspace
  Base,         \* where the kernel puts the first mapping of an mspace
  Alignments,   \* alignments asked for, powers of two
  Limits,       \* arguments of set_footprint_limit
  Options,      \* <<parameter, value>> arguments of mallopt
  Outcomes,     \* what the system may answer (see DlSystem)
  Profiles,     \* initial budgets
  DEFAULT_GRANULARITY, DEFAULT_MMAP_THRESHOLD, DEFAULT_TRIM_THRESHOLD

VARIABLES st, live, budget

vars == <<st, live, budget>>

NoChunks == [a \in {} |-> 0]

(* The first call of all sets mparams once; its sanity checks are           *)
(* ChunkConstants and SystemConstants.                                      *)
init_mparams ==
  [granularity |-> IF DEFAULT_GRANULARITY # 0 THEN DEFAULT_GRANULARITY
                   ELSE PageSize,
   mmap_threshold |-> DEFAULT_MMAP_THRESHOLD,
   trim_threshold |-> DEFAULT_TRIM_THRESHOLD]

(* Before create_mspace: nothing is mapped. *)
Nothing ==
  [m |-> 0, head |-> NoChunks, foot |-> NoChunks, fd |-> NoChunks,
   bk |-> NoChunks, child |-> NoChunks, parent |-> NoChunks,
   index |-> NoChunks, smallmap |-> {}, treemap |-> {},
   treebins |-> [i \in 0 .. NTREEBINS - 1 |-> 0],
   dv |-> 0, dvsize |-> 0, top |-> 0, topsize |-> 0, trim_check |-> 0,
   release_checks |-> 0, footprint |-> 0, max_footprint |-> 0,
   footprint_limit |-> 0, least_addr |-> 0, use_mmap |-> TRUE, segs |-> <<>>,
   mparams |-> init_mparams, mapped |-> {}, leaked |-> 0,
   err |-> "none"]

Init == st = Nothing /\ live = NoChunks /\ budget \in Profiles

-----------------------------------------------------------------------------
(* Restrict the maps of S to what the allocator may still read: heads of    *)
(* the chunks of its segments, of the top chunk and its foot and of mmapped *)
(* blocks; prev_foot where it is meaningful; links of binned chunks.        *)
Only(f, A) == [a \in DOMAIN f \cap A |-> f[a]]

ForgetBut(S, chunks, mmapped) ==
  LET ends == {next_chunk(S, p) : p \in chunks}
      mmheads == mmapped \cup {next_chunk(S, p) : p \in mmapped}
                         \cup {next_chunk(S, p) + 1 : p \in mmapped}
      tags == chunks \cup ends \cup {S.top, S.top + S.topsize}
      free == {p \in chunks : ~is_inuse(S, p)} \ {S.dv, S.top}
      headers == {smallbin_at(i) : i \in S.smallmap}
      large == {p \in free : ~is_small(chunksize(S, p))}
  IN  [S EXCEPT !.head = Only(@, tags \cup mmheads),
                !.foot = Only(@, {p \in tags : ~pinuse(S, p)} \cup mmapped),
                !.fd = Only(@, free \cup headers),
                !.bk = Only(@, free \cup headers),
                !.child = Only(@, large), !.parent = Only(@, large),
                !.index = Only(@, large)]

Forget(S, owned) ==
  ForgetBut(S, UNION {ToSet(SegmentChunks(S, i)) : i \in DOMAIN S.segs},
            {p \in {mem2chunk(a) : a \in owned} : is_mmapped(S, p)})

(* A call of kind k that leaves the allocator in S and the client with l.   *)
Call(k, S, l) ==
  /\ budget[k] > 0
  /\ budget' = [budget EXCEPT ![k] = @ - 1]
  /\ st' = Forget(S, DOMAIN l)
  /\ live' = l

Running == st.m # 0 /\ st.err = "none"

Drop(l, mems) == Only(l, DOMAIN l \ mems)

Block(n) == [size |-> n, align |-> MALLOC_ALIGNMENT]
AlignedBlock(a, n) == [size |-> n, align |-> Max({a, MALLOC_ALIGNMENT})]

(* Calls that returned R: the client now owns the block b at R.r, unless    *)
(* that is 0.                                                               *)
Allocated(k, R, b) == Call(k, R.st, IF R.r = 0 THEN live ELSE Put(live, R.r, b))
Resized(R, mem, n) ==
  Call("realloc", R.st, IF R.r = 0 THEN live ELSE Put(Drop(live, {mem}), R.r, Block(n)))

AllocatedElements(I, sizes) ==
  LET elems == ToSet(I.r)
      l1 == [a \in DOMAIN live \cup elems |->
               IF a \in elems THEN Block(sizes[CHOOSE i \in DOMAIN I.r : I.r[i] = a])
               ELSE live[a]]
  IN  Call("independent", I.st,
           IF I.marray = 0 THEN l1 ELSE Put(l1, I.marray, Block(Len(sizes))))

-----------------------------------------------------------------------------
(* Creating and destroying the mspace. *)

init_user_mstate(tbase, tsize, mm, ext) ==
  LET msize == pad_request(MstateSize)
      msp   == align_as_chunk(tbase)
      mn    == msp + msize
      S == [Nothing EXCEPT
              !.m = chunk2mem(msp), !.least_addr = tbase,
              !.footprint = tsize, !.max_footprint = tsize,
              !.release_checks = MAX_RELEASE_CHECK_RATE,
              !.mapped = st.mapped, !.leaked = st.leaked, !.mparams = st.mparams,
              !.segs = <<[base |-> tbase, size |-> tsize, mm |-> mm, ext |-> ext,
                          rec |-> chunk2mem(msp)]>>]
  IN  init_top(SetHead(S, msp, msize, TRUE, TRUE), mn,
               tbase + tsize - mn - TOP_FOOT_SIZE)

create_mspace(capacity) ==
  /\ st.m = 0
  /\ LET rs == IF capacity = 0 THEN st.mparams.granularity
               ELSE capacity + TOP_FOOT_SIZE + pad_request(MstateSize)
         tsize == granularity_align(st, rs)
         tbase == CALL_MMAP(st, Base, tsize)
         S == init_user_mstate(tbase.r, tsize, TRUE, FALSE)
     IN  /\ tbase.r # 0
         /\ Call("create", [S EXCEPT !.mapped = tbase.st.mapped], live)

create_mspace_with_base(base, capacity) ==
  /\ st.m = 0
  /\ capacity > pad_request(MstateSize) + TOP_FOOT_SIZE
  /\ Call("create_with_base",
          [init_user_mstate(base, capacity, FALSE, TRUE)
             EXCEPT !.mapped = @ \cup Pages(base, capacity)], live)

(* Mmapped chunks are not on the segment list: their pages stay mapped.     *)
destroy_mspace(os) ==
  /\ Running
  /\ LET ours == UNION {Pages(st.segs[i].base, st.segs[i].size) :
                          i \in {j \in DOMAIN st.segs :
                                   st.segs[j].mm /\ ~st.segs[j].ext}}
         left == IF os.munmap THEN st.mapped \ ours ELSE st.mapped
     IN  Call("destroy",
              [Nothing EXCEPT !.mapped = left, !.mparams = st.mparams,
                              !.leaked = PageSize * Cardinality(left)],
              NoChunks)

-----------------------------------------------------------------------------
(* The client's calls. *)

Malloc(n, os) ==
  /\ Running
  /\ Allocated("malloc", mspace_malloc(st, n, os), Block(n))

(* calloc's multiplication overflows to a request that always fails.        *)
mspace_calloc(n, size, os) ==
  /\ Running
  /\ LET req == IF n * size > MAX_SIZE_T THEN MAX_SIZE_T ELSE n * size
     IN  Allocated("calloc", mspace_malloc(st, req, os), Block(req))

Free(mem, os) ==
  /\ Running
  /\ Call("free", mspace_free(st, mem, os), Drop(live, {mem}))

Realloc(mem, n, os) ==
  /\ Running
  /\ Resized(mspace_realloc(st, mem, n, os), mem, n)

ReallocInPlace(mem, n, os) ==
  /\ Running
  /\ Allocated("realloc_in_place", mspace_realloc_in_place(st, mem, n, os),
               [live[mem] EXCEPT !.size = n])

Memalign(a, n, os) ==
  /\ Running
  /\ Allocated("memalign", mspace_memalign(st, a, n, os),
               AlignedBlock(a, n))

AlignedAlloc(a, n, os) ==
  /\ Running
  /\ Allocated("aligned_alloc", mspace_aligned_alloc(st, a, n, os),
               AlignedBlock(a, n))

PosixMemalign(a, n, os) ==
  /\ Running
  /\ Allocated("posix_memalign", mspace_posix_memalign(st, a, n, os),
               AlignedBlock(a, n))

(* independent_calloc and independent_comalloc. *)
IndependentAlloc(sizes, given, os) ==
  /\ Running
  /\ AllocatedElements(ialloc(st, sizes, given, os), sizes)

(* What bulk_free may be given; none if it is not to be called any more.    *)
Arrays == IF budget["bulk_free"] = 0 THEN {} ELSE [1..3 -> DOMAIN live \cup {0}]

BulkFree(array, os) ==
  /\ Running
  /\ \A i, j \in DOMAIN array : i # j /\ array[i] # 0 => array[i] # array[j]
  /\ Call("bulk_free", internal_bulk_free(st, array, os),
          Drop(live, ToSet(array)))

mspace_trim(pad, os) ==
  /\ Running
  /\ Call("trim", sys_trim(st, pad, os).st, live)

mspace_track_large_chunks(enable) ==
  /\ Running
  /\ Call("track", [st EXCEPT !.use_mmap = ~enable], live)

(* The argument 0 is first given the minimal size, then rounded after all.  *)
mspace_set_footprint_limit(bytes) ==
  /\ Running
  /\ Call("limit", [st EXCEPT !.footprint_limit =
                      IF bytes = MAX_SIZE_T THEN 0
                      ELSE granularity_align(st, bytes)], live)

change_mparam(S, param, val) ==
  CASE param = "M_TRIM_THRESHOLD" -> [S EXCEPT !.mparams.trim_threshold = val]
    [] param = "M_GRANULARITY"    -> IF val >= PageSize /\ IsPowerOf2(val)
                                     THEN [S EXCEPT !.mparams.granularity = val]
                                     ELSE S
    [] param = "M_MMAP_THRESHOLD" -> [S EXCEPT !.mparams.mmap_threshold = val]
    [] OTHER -> S

mspace_mallopt(param, val) ==
  Call("mallopt", change_mparam(st, param, val), live)

Next ==
  \/ \E os \in Outcomes :
       \/ destroy_mspace(os)
       \/ \E n \in Requests : Malloc(n, os)
       \/ \E n \in Requests : mspace_calloc(2, n, os)
       \/ \E mem \in DOMAIN live : Free(mem, os)
       \/ \E mem \in DOMAIN live \cup {0}, n \in Requests : Realloc(mem, n, os)
       \/ \E mem \in DOMAIN live, n \in Requests : ReallocInPlace(mem, n, os)
       \/ \E a \in Alignments, n \in Requests :
            Memalign(a, n, os) \/ AlignedAlloc(a, n, os) \/ PosixMemalign(a, n, os)
       \/ \E sizes \in Layouts, given \in BOOLEAN :
            IndependentAlloc(sizes, given, os)
       \/ \E array \in Arrays : BulkFree(array, os)
       \/ \E pad \in Requests : mspace_trim(pad, os)
  \/ \E n \in Capacities : create_mspace(n) \/ create_mspace_with_base(PageSize, n)
  \/ \E enable \in BOOLEAN : mspace_track_large_chunks(enable)
  \/ \E n \in Limits : mspace_set_footprint_limit(n)
  \/ \E o \in Options : mspace_mallopt(o[1], o[2])

Spec == Init /\ [][Next]_vars

-----------------------------------------------------------------------------
(* Properties. *)

(* The maps have chunk addresses (or bin headers) as keys, and every call   *)
(* of a legal client has ended without an error action.                     *)
TypeOK ==
  /\ DOMAIN st.head \cup DOMAIN st.foot \cup DOMAIN live \subseteq Nat
  /\ \A a \in DOMAIN live : live[a] \in [size : Nat, align : Nat]
  /\ st.smallmap \subseteq 0 .. NSMALLBINS - 1
  /\ st.treemap \subseteq 0 .. NTREEBINS - 1
  /\ st.footprint \in Nat /\ st.err \in {"none", "corruption", "usage"}

(* After any sequence of calls the state passes dlmalloc's own debug check: *)
(* boundary tags agree, no two free chunks are adjacent, every free chunk   *)
(* is dv, top or in the bin of its size, and the trees are well formed; and *)
(* no run-time check (which would abort the monitored program) ever fired.  *)
StateConsistent ==
  /\ TypeOK
  /\ st.err = "none"
  /\ st.m # 0 => do_check_malloc_state(st)

(* The chunk of a block the client owns is in use, holds the requested size *)
(* (by mspace_usable_size), and lies in pages that are mapped and *)
(* clear of the malloc_state, of the segment records and of other blocks.   *)
LiveBlocksUsable ==
  \A a \in DOMAIN live :
    LET p == mem2chunk(a)
        usable == mspace_usable_size(st, a)
        words == a .. (a + usable - 1)
    IN  /\ is_inuse(st, p) /\ is_aligned(a)
        /\ usable >= live[a].size
        /\ Pages(a, usable) \subseteq st.mapped
        /\ words \cap (st.m .. (st.m + MstateSize - 1)) = {}
        /\ \A i \in DOMAIN st.segs :
             words \cap (st.segs[i].rec .. (st.segs[i].rec + SEGMENT_SIZE - 1)) = {}
        /\ \A b \in DOMAIN live \ {a} : b \notin words

(* The footprint is what the allocator holds of the system's memory, even   *)
(* after failed munmap calls, trims and moved mmapped chunks.               *)
FootprintIsMapped ==
  st.m # 0 => st.footprint + st.leaked = PageSize * Cardinality(st.mapped)

(* The free chunks of S that a request may be served from, other than top.  *)
FreeChunks(S) ==
  {p \in UNION {ToSet(SegmentChunks(S, i)) : i \in DOMAIN S.segs} :
     ~is_inuse(S, p)}

(* tmalloc_large: a large request is served from the best fitting free      *)
(* chunk, dv included; it only takes new space when no free chunk fits.     *)
BestFit ==
  \A a \in DOMAIN live' \ DOMAIN live :
    budget'["malloc"] < budget["malloc"] /\ live'[a].size > MAX_SMALL_REQUEST =>
      LET fits == {p \in FreeChunks(st) :
                     chunksize(st, p) >= request2size(live'[a].size)}
          best == Min({chunksize(st, p) : p \in fits})
      IN  fits # {} => \E p \in fits : /\ a \in p .. next_chunk(st, p)
                                       /\ chunksize(st, p) = best

(* A block that malloc has just returned passes do_check_malloced_chunk:     *)
(* its chunk is in use and less than a minimal chunk larger than the padded  *)
(* request, wherever it was taken from (bins, dv, trees, top, the system).   *)
(* A chunk that has pages of its own is in use and large enough; that its    *)
(* size is a multiple of the alignment, which the check asserts too, is not  *)
(* so with the 32 byte alignment that E-ACSL compiles dlmalloc with.         *)
MallocedFits ==
  \A a \in DOMAIN live' \ DOMAIN live :
    budget'["malloc"] < budget["malloc"] =>
      IF is_mmapped(st', mem2chunk(a))
      THEN /\ do_check_inuse_chunk(st', mem2chunk(a))
           /\ chunksize(st', mem2chunk(a)) >= request2size(live'[a].size)
      ELSE do_check_malloced_chunk(st', a, request2size(live'[a].size))

(* Once a footprint limit is set, no call takes the footprint beyond it      *)
(* ("causing failure returns from malloc and related functions upon attempts *)
(* to exceed this value"), but for a realloc by mremap, which does not look  *)
(* at the limit.                                                             *)
FootprintLimited ==
  st'.footprint > st.footprint /\ st.m # 0 =>
    \/ mspace_footprint(st') <= mspace_footprint_limit(st)
    \/ /\ budget'["realloc"] < budget["realloc"]
       /\ \E a \in DOMAIN live : is_mmapped(st, mem2chunk(a))

(* What any call does with the free space and with the system's memory.      *)
PlacementSound == [][BestFit /\ MallocedFits /\ FootprintLimited]_vars

(* The figures of mallinfo and malloc_stats are true of the heap: what is in *)
(* use covers the client's blocks, what is held in mmapped regions covers    *)
(* those there are, top, dv and the members of the bins are counted as free, *)
(* and both functions, each with a walk of its own, agree; no difference     *)
(* wraps.                                                                    *)
InUseWords(l) == MapThenSumSet(LAMBDA a : mspace_usable_size(st, a), l)
Mmapped == {a \in DOMAIN live : is_mmapped(st, mem2chunk(a))}
Binned == UNION {Chain(st.fd, smallbin_at(i), {}) \ {smallbin_at(i)} : i \in st.smallmap}
Statistics(info, stats) ==
  /\ info.arena <= st.footprint /\ info.fordblks <= info.arena
  /\ stats.used = info.uordblks
  /\ InUseWords(DOMAIN live) <= info.uordblks
  /\ InUseWords(Mmapped) <= info.hblkhd
  /\ info.keepcost < info.fordblks
  /\ info.ordblks >= 1 + (IF st.dvsize # 0 THEN 1 ELSE 0) + Cardinality(Binned)
                       + Cardinality(st.treemap)
StatisticsTrue ==
  st.m # 0 => Statistics(internal_mallinfo(st), internal_malloc_stats(st))

(* mspace_inspect_all "calls the given handler for each managed region,      *)
(* skipping all bytes that are (or may be) used for bookkeeping purposes":   *)
(* each block of the client is one region, and the regions reported free     *)
(* hold no block, no tag and no link of a free chunk.                        *)
Bookkeeping(p) ==
  p .. (p + (IF is_inuse(st, p) THEN 1
             ELSE IF is_small(chunksize(st, p)) THEN MCHUNK_SIZE - 1
             ELSE MTREE_CHUNK_SIZE - 1))
Inspection(regions, chunks) ==
  /\ \A a \in DOMAIN live \ Mmapped :
       \E r \in regions : r.start = a /\ r.used >= live[a].size
  /\ \A r \in {q \in regions : q.used = 0} :
       LET words == r.start .. (r.end - 1)
       IN  /\ \A p \in chunks : words \cap Bookkeeping(p) = {}
           /\ \A a \in DOMAIN live : words \cap (a .. (a + live[a].size - 1)) = {}
InspectionTrue ==
  st.m # 0 => Inspection(internal_inspect_all(st), ToSet(Walk(st)) \cup {st.top})

(* What the allocator reports of its space is so, to the system, in figures  *)
(* and region by region.  The E-ACSL build has the footprint; the figures   *)
(* and the regions are those of mallinfo, malloc_stats and inspect_all,     *)
(* which it compiles out.                                                   *)
SpaceAccounted == FootprintIsMapped /\ StatisticsTrue /\ InspectionTrue

(* The promise to the client. *)
Promise == INSTANCE HeapSpec

(* Whatever bins, segments and the system do, the client sees a heap: blocks *)
(* it owns never move or shrink by themselves, new ones never overlap them   *)
(* and have the alignment that memalign or posix_memalign was asked for.     *)
ImplementsHeap == Promise!Spec
=============================================================================
