------------------------------ MODULE MCMemory ------------------------------
(***************************************************************************)
(* One program, linked with one of the memory models of the runtime: the   *)
(* bittree, the segments, or one of them with temporal stamps.  The models *)
(* have no variable in common but the first two, so the others are shared  *)
(* by position; model tells which of them is running.                      *)
(***************************************************************************)
EXTENDS Integers, Sequences

VARIABLES model, budget, v1, v2, v3, v4, v5, v6, v7, v8

(* Globals at the bottom, the stack at the top of a 16-bit address space.   *)
InitialBlocks == << <<65528, 4, FALSE>>, <<65520, 8, TRUE>>, <<12, 4, FALSE>> >>
StaticBlocks == {<<16, 3>>, <<19, 9>>, <<28, 0>>, <<28, 2>>, <<65533, 1>>, <<65504, 11>>}
GlobalAddrs == 1 .. 31
StaticAddrs == 1 .. 31 \cup 65400 .. 65535
(* heap_start is the block of the first malloc, one byte that is never      *)
(* released; the blocks of the program lie above it.                        *)
HeapBases == {64, 96, 160}
HeapSizes == {5, 9, 34}
ArrayShapes == {<<3, 3>>, <<256, 256>>, <<1, 65530>>, <<0, 4>>}
AlignedShapes == {<<64, 64>>, <<32, 8>>, <<8, 9>>, <<24, 24>>}
Ranges == {<<0, 1>>, <<0, 8>>, <<1, 6>>, <<8, 1>>, <<4, 5>>, <<9, 25>>}
BadFrees == {12, 65, 128, 65520}
Probes == {1, 12, 15, 16, 18, 19, 27, 28, 29, 31, 32, 63, 64, 65, 68, 69, 95, 96, 98,
           100, 128, 160, 164, 65503, 65504, 65514, 65515, 65520, 65528, 65531, 65532,
           65533, 65535}

(* What the program does in one run: so many calls of each kind, and so     *)
(* many arguments of its calls together.                                    *)
Calls == {"store", "delete", "duplicate", "initialize", "full_init", "readonly",
          "malloc", "calloc", "aligned", "free", "realloc"}
Statements == {"declare", "malloc", "free", "realloc", "address", "assign", "copy",
               "call", "return"}
Budget(kinds, b) == [k \in kinds |-> IF k \in DOMAIN b THEN b[k] ELSE 0]

CallProfiles ==
  {Budget(Calls, b) : b \in
     {[store |-> 3, delete |-> 1],
      [store |-> 2, delete |-> 2],
      [malloc |-> 1, initialize |-> 1, realloc |-> 2],
      [malloc |-> 2, initialize |-> 1, realloc |-> 1],
      [malloc |-> 1, initialize |-> 2],
      [calloc |-> 1, realloc |-> 1, free |-> 1],
      [store |-> 1, duplicate |-> 1, readonly |-> 1, initialize |-> 1, full_init |-> 1],
      [malloc |-> 2, free |-> 2],
      [aligned |-> 1, malloc |-> 1, free |-> 1]}}

StatementProfiles ==
  {Budget(Statements, b) : b \in
     {[malloc |-> 2, free |-> 1, assign |-> 1],
      [malloc |-> 1, declare |-> 1, realloc |-> 2, copy |-> 1],
      [address |-> 1, call |-> 1, return |-> 1, assign |-> 1],
      [declare |-> 1, address |-> 1, call |-> 1, return |-> 1],
      [address |-> 1, call |-> 2, return |-> 1],
      [call |-> 3, return |-> 1],
      [malloc |-> 2, realloc |-> 1, address |-> 1],
      [malloc |-> 4, free |-> 3]}}

-----------------------------------------------------------------------------
B == INSTANCE BittreeModel WITH
       WORDBITS <- 16, SIZE_MAX <- 65535, PTR_SZ <- 8, MALLOC_ALIGNMENT <- 32,
       Model <- "bittree", Profiles <- CallProfiles,
       heap_allocation_size <- v1, heap_allocated_blocks <- v2, status <- v3,
       written <- v4, bt_root <- v5, blk <- v6, bt_blocks <- v7, truncated <- v8

S == INSTANCE SegmentModel WITH
       WORD <- 64, HEAP_SEGMENT <- 32, HEAP_START <- 32, HEAP_END <- 192,
       SIZE_MAX <- 65535, PTR_SZ <- 8, MALLOC_ALIGNMENT <- 32,
       Model <- "segment", Profiles <- CallProfiles,
       heap_allocation_size <- v1, heap_allocated_blocks <- v2, status <- v3,
       written <- v4, heap_shadow <- v5, init_shadow <- v6, static <- v7, tainted <- v8

T == INSTANCE Temporal WITH
       SegmentStamps <- "segment stamps", BittreeStamps <- "bittree stamps",
       GlobalList <- <<"g1", "g2">>, LocalList <- <<"l1", "l2", "l3">>,
       Heap <- {"h1", "h2"}, TIMESTAMPS <- 7, MAX_PARAMETERS <- 2, MaxDepth <- 3,
       Profiles <- StatementProfiles,
       origin <- v1, referent <- v2, temporal_timestamp <- v3,
       parameter_referents <- v4, return_referent <- v5, call <- v6, live <- v7,
       pointer <- v8

Init == B!Init \/ S!Init \/ T!Init
Next == B!Next \/ S!Next \/ T!Next
Spec == Init /\ [][Next]_<<model, budget, v1, v2, v3, v4, v5, v6, v7, v8>>

-----------------------------------------------------------------------------
(* The record a model keeps of the blocks is well formed: the trie of the   *)
(* bittree model is ordered, compact and complete (TreeSound), no bit of the *)
(* initialisation shadow of the segment model outlives its block             *)
(* (ShadowClean), and the validations of a debug build stop no legal program *)
(* (ValidationsHold).                                                        *)
RecordSound ==
  CASE model = "bittree" -> B!TypeOK /\ B!TreeSound
    [] model = "segment" -> S!TypeOK /\ S!ShadowClean /\ S!ValidationsHold
    [] OTHER -> T!TypeOK

(* \valid, \valid_read, \freeable, \base_addr, \block_length and \offset     *)
(* answer, in both models, as the contracts of e_acsl.h say of the record of *)
(* disjoint blocks (QueriesAgree); \initialized claims no byte the program   *)
(* has not initialised (InitializedSound); the leak counters count the heap  *)
(* blocks (HeapCounted).                                                     *)
AnswersTrue ==
  /\ model = "bittree" => B!QueriesAgree /\ B!InitializedExact /\ B!HeapCounted
  /\ model = "segment" => S!QueriesAgree /\ S!InitializedSound /\ S!HeapCounted

(* A pointer that passes temporal_valid refers to the block at its address   *)
(* (TemporalSound), and a pointer to the block at its address passes         *)
(* (TemporalComplete).                                                       *)
TemporalExact == T!Running => T!TemporalSound /\ T!TemporalComplete

(* The program sees the memory of MemorySpec, whichever model it is linked  *)
(* with.  The stamps do not concern MemorySpec.                             *)
Recorded ==
  CASE model = "bittree" -> B!Recorded
    [] model = "segment" -> S!Recorded
    [] OTHER -> <<>>
Written == IF T!Running THEN {} ELSE v4
Memory == INSTANCE MemorySpec WITH blocks <- Recorded, written <- Written
ImplementsMemory == Memory!Spec
=============================================================================
