----------------------------- MODULE MCDlmalloc -----------------------------
(***************************************************************************)
(* A scaled-down heap: words of one cell, chunks of 4 words and more,      *)
(* small bins below 16 words, pages of 32, granularity 128.                *)
(***************************************************************************)
EXTENDS Dlmalloc

MCRequests == {1, 17, 41, 117}
MCLayouts == {<<>>, <<15, 1, 17, 1, 15, 1>>, <<31, 1, 39, 1, 35, 1, 43, 1>>}
MCAlignments == {4, 16}
MCLimits == {0, 256, MAX_SIZE_T}
MCOptions == {<<"M_MMAP_THRESHOLD", 40>>, <<"M_GRANULARITY", 64>>}

(* The first segment is at 512: new space lands above it, below it or apart. *)
Outcome(a, d, r, u) == [mmap |-> a, direct |-> d, mremap |-> r, munmap |-> u]
MCOutcomes == {Outcome(640, 1024, 1280, TRUE), Outcome(384, 0, 0, FALSE),
               Outcome(768, 0, 0, TRUE)}
MCCapacities == {0, 192}

Kinds == {"create", "create_with_base", "destroy", "malloc", "calloc", "free",
          "realloc", "realloc_in_place", "memalign", "aligned_alloc",
          "posix_memalign", "independent", "bulk_free", "trim", "track",
          "limit", "mallopt"}
Budget(b) == [k \in Kinds |-> IF k \in DOMAIN b THEN b[k] ELSE 0]
MCProfiles ==
  {Budget([create |-> 1, malloc |-> 3, free |-> 2]),
   Budget([create |-> 1, independent |-> 1, free |-> 3, malloc |-> 1]),
   Budget([create |-> 1, independent |-> 1, free |-> 1, malloc |-> 2]),
   Budget([create |-> 1, malloc |-> 2, realloc |-> 2, free |-> 1]),
   Budget([create |-> 1, malloc |-> 1, memalign |-> 1, free |-> 2,
           realloc_in_place |-> 1]),
   Budget([create |-> 1, independent |-> 1, bulk_free |-> 1]),
   Budget([create |-> 1, malloc |-> 2, free |-> 2, trim |-> 1, limit |-> 1]),
   Budget([create |-> 1, mallopt |-> 1, malloc |-> 2, realloc |-> 1, free |-> 1]),
   Budget([create_with_base |-> 1, malloc |-> 2, free |-> 2, destroy |-> 1,
           create |-> 1]),
   Budget([create |-> 1, aligned_alloc |-> 1, posix_memalign |-> 1,
           calloc |-> 1, track |-> 1, free |-> 1]),
   Budget([create |-> 1, limit |-> 1, malloc |-> 1, realloc |-> 2])}
=============================================================================
