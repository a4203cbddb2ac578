------------------------------ MODULE Temporal ------------------------------
(***************************************************************************)
(* Temporal memory safety: each block gets a time stamp when it appears,   *)
(* each pointer carries the stamp of the block it refers to, and \valid    *)
(* compares the two.  A place is where a block may be; every block holds   *)
(* one pointer, at its base.                                               *)
(*                                                                         *)
(* origin is the stamp of the block at a place and referent the stamp in   *)
(* the shadow of the pointer there; temporal_timestamp counts the stamps   *)
(* given, of which the code keeps 32 bits.  parameter_referents and        *)
(* return_referent carry stamps into and out of calls, and call holds the  *)
(* variables of each active function.                                      *)
(*                                                                         *)
(* live and pointer are observers: the block now at a place (0 for none),  *)
(* and the place and the block a pointer refers to.  lost marks a pointer  *)
(* whose referent a realloc has dropped.                                   *)
(***************************************************************************)
EXTENDS Integers, Sequences, SequencesExt

CONSTANTS
  SegmentStamps, BittreeStamps,  \* the memory model below, one of the two
  GlobalList, LocalList,     \* places; the stack is used in this order
  Heap,
  TIMESTAMPS,                \* 2^32
  MAX_PARAMETERS,            \* 127
  MaxDepth, Profiles         \* bounds: nested calls, statements of each kind

VARIABLES model, origin, referent, temporal_timestamp, parameter_referents,
          return_referent, call, live, pointer, budget

blockVars == <<origin, temporal_timestamp, live>>
parameterVars == <<parameter_referents, return_referent>>
vars == <<model, blockVars, referent, parameterVars, call, pointer, budget>>

Running == model \in {SegmentStamps, BittreeStamps}

Globals == ToSet(GlobalList)
Locals == ToSet(LocalList)
Places == Globals \cup Locals \cup Heap
INVALID_TEMPORAL_TIMESTAMP == 0
GLOBAL_TEMPORAL_TIMESTAMP == 1
UNMAPPED == - 1    \* no stamp: what was read is not a shadow
NEW_TEMPORAL_TIMESTAMP == (temporal_timestamp + 1) % TIMESTAMPS
NewBlock == temporal_timestamp + 1

Nowhere == [at |-> "nowhere", of |-> 0, lost |-> FALSE]
Parameter(ptr, flow) == [ptr |-> ptr, temporal_flow |-> flow]
NoParameters == [i \in 0 .. MAX_PARAMETERS - 1 |-> Parameter("nowhere", "none")]
Living == {p \in Places : Running /\ live[p] # 0}
NextLocal(l) ==
  \E i \in DOMAIN LocalList : /\ l = LocalList[i] /\ live[l] = 0
                              /\ \A j \in 1 .. i - 1 : live[LocalList[j]] # 0
Number(g) == CHOOSE i \in DOMAIN GlobalList : GlobalList[i] = g

(* The segment model stamps no global; the bittree model stamps them as it  *)
(* records them, before main.                                               *)
Init ==
  /\ model \in {SegmentStamps, BittreeStamps}
  /\ live = [p \in Places |-> IF p \in Globals THEN - Number(p) ELSE 0]
  /\ origin = [p \in Places |-> IF p \in Globals /\ model = BittreeStamps
                                THEN 2 + Number(p) ELSE 0]
  /\ temporal_timestamp = IF model = BittreeStamps THEN 2 + Len(GlobalList) ELSE 2
  /\ referent = [p \in Places |-> 0]
  /\ pointer = [p \in Places |-> Nowhere]
  /\ parameter_referents = NoParameters /\ return_referent = 0
  /\ call = [phase |-> "body", frames |-> << {} >>, pulled |-> {}, returned |-> Nowhere]
  /\ budget \in Profiles

(* A statement of the function that runs, and what it takes of the budget. *)
Spend(kind, n) ==
  /\ Running /\ call.phase = "body"
  /\ budget[kind] >= n /\ budget' = [budget EXCEPT ![kind] = @ - n]
  /\ UNCHANGED model

Statement(kind) == Spend(kind, 1)

SameBlocks == UNCHANGED blockVars

(* Before every call the parameters and the return value are forgotten;     *)
(* then the pointer arguments are saved.                                    *)
Arguments(params) ==
  /\ parameter_referents' = [i \in 0 .. MAX_PARAMETERS - 1 |->
                               IF i \in DOMAIN params THEN params[i]
                               ELSE Parameter("nowhere", "none")]
  /\ return_referent' = 0

-----------------------------------------------------------------------------
(* The segment model reads the shadow of the address: an origin is looked   *)
(* for at the base of its block, and globals have none of their own.  The   *)
(* bittree model finds both in the record of the block.                     *)
static_temporal_info(p, is_origin) ==
  CASE ~ is_origin -> referent[p]
    [] is_origin /\ live[p] = 0 -> INVALID_TEMPORAL_TIMESTAMP
    [] is_origin /\ live[p] # 0 /\ p \in Globals -> GLOBAL_TEMPORAL_TIMESTAMP
    [] OTHER -> origin[p]

(* The origin of a heap address that is in no block is read through the     *)
(* shadow of address 0, which lies outside of what is mapped.               *)
heap_temporal_info(p, is_origin) ==
  CASE ~ is_origin -> referent[p]
    [] is_origin /\ live[p] = 0 -> UNMAPPED
    [] OTHER -> origin[p]

SegmentInfo(p, is_origin) ==
  IF p \in Heap THEN heap_temporal_info(p, is_origin)
  ELSE static_temporal_info(p, is_origin)

origin_timestamp(p) == IF model = SegmentStamps THEN SegmentInfo(p, TRUE) ELSE origin[p]

referent_timestamp(p) ==
  IF model = SegmentStamps THEN SegmentInfo(p, FALSE) ELSE referent[p]

temporal_valid(p, addr_of_ptr) ==
  p # addr_of_ptr => referent_timestamp(addr_of_ptr) = origin_timestamp(p)

store_temporal_referent(l, stamp) == referent' = [referent EXCEPT ![l] = stamp]
PointsTo(l, target) == pointer' = [pointer EXCEPT ![l] = target]
Target(p) == [at |-> p, of |-> live[p], lost |-> FALSE]
NewTarget(p) == [at |-> p, of |-> NewBlock, lost |-> FALSE]

(* A block appears at p with a new stamp. *)
Appear(p) ==
  /\ live[p] = 0
  /\ origin' = [origin EXCEPT ![p] = NEW_TEMPORAL_TIMESTAMP]
  /\ temporal_timestamp' = temporal_timestamp + 1
  /\ live' = [live EXCEPT ![p] = NewBlock]

(* The stamp its pointer starts with: the segment model has cleared the     *)
(* shadow, the one the bittree model allocates is not cleared.              *)
FreshReferents ==
  IF model = SegmentStamps THEN {INVALID_TEMPORAL_TIMESTAMP}
  ELSE {INVALID_TEMPORAL_TIMESTAMP, temporal_timestamp % TIMESTAMPS}

(* The blocks at the places gone disappear, their shadows with them.        *)
Disappear(gone) ==
  /\ origin' = [p \in Places |-> IF p \in gone THEN 0 ELSE origin[p]]
  /\ referent' = [p \in Places |-> IF p \in gone THEN 0 ELSE referent[p]]
  /\ live' = [p \in Places |-> IF p \in gone THEN 0 ELSE live[p]]
  /\ pointer' = [p \in Places |-> IF p \in gone THEN Nowhere ELSE pointer[p]]
  /\ UNCHANGED temporal_timestamp

-----------------------------------------------------------------------------
(* A local variable is declared: store_block. *)
store_block(l) ==
  /\ Statement("declare")
  /\ NextLocal(l) /\ Appear(l)
  /\ \E s \in FreshReferents : store_temporal_referent(l, s)
  /\ PointsTo(l, Nowhere)
  /\ call' = [call EXCEPT !.frames[Len(call.frames)] = @ \cup {l}]
  /\ UNCHANGED parameterVars

(* l = malloc(n): the block, then the stamp of what was returned. *)
malloc(l, p) ==
  /\ Statement("malloc")
  /\ Appear(p)
  /\ Arguments(<<>>)
  /\ \E s \in FreshReferents :
       referent' = [referent EXCEPT ![p] = s, ![l] = NEW_TEMPORAL_TIMESTAMP]
  /\ pointer' = [pointer EXCEPT ![p] = Nowhere, ![l] = NewTarget(p)]
  /\ UNCHANGED call

(* The program frees what it may: the block its pointer refers to.          *)
Owned(l) == pointer[l].at \in Heap /\ live[pointer[l].at] = pointer[l].of

free(l) ==
  /\ Statement("free")
  /\ Owned(l)
  /\ Arguments([i \in {0} |-> Parameter(l, "TReferentN")])
  /\ Disappear({pointer[l].at})
  /\ UNCHANGED call

(* l = realloc(l, n).  The segment model makes a new block and drops the    *)
(* stamps of the pointers in the old one; the bittree model moves the block *)
(* with its stamp and shadow.                                               *)
NewBlockAt(l, p, q) ==
  /\ origin' = [origin EXCEPT ![p] = 0, ![q] = NEW_TEMPORAL_TIMESTAMP]
  /\ temporal_timestamp' = temporal_timestamp + 1
  /\ live' = [live EXCEPT ![p] = 0, ![q] = NewBlock]
  /\ referent' = [referent EXCEPT ![p] = 0, ![q] = 0, ![l] = NEW_TEMPORAL_TIMESTAMP]
  /\ pointer' = [pointer EXCEPT ![p] = Nowhere,
                                ![q] = [pointer[p] EXCEPT !.lost = TRUE],
                                ![l] = NewTarget(q)]

MovedBlock(l, p, q) ==
  /\ origin' = [origin EXCEPT ![p] = 0, ![q] = origin[p]]
  /\ live' = [live EXCEPT ![p] = 0, ![q] = live[p]]
  /\ referent' = [referent EXCEPT ![p] = 0, ![q] = referent[p], ![l] = origin[p]]
  /\ pointer' = [pointer EXCEPT ![p] = Nowhere, ![q] = pointer[p],
                                ![l] = [at |-> q, of |-> live[p], lost |-> FALSE]]
  /\ UNCHANGED temporal_timestamp

realloc(l, q) ==
  /\ Statement("realloc")
  /\ Owned(l) /\ pointer[l].at # l
  /\ q = pointer[l].at \/ live[q] = 0
  /\ Arguments([i \in {0} |-> Parameter(l, "TReferentN")])
  /\ IF model = SegmentStamps THEN NewBlockAt(l, pointer[l].at, q)
     ELSE MovedBlock(l, pointer[l].at, q)
  /\ UNCHANGED call

-----------------------------------------------------------------------------
(* l = &p *)
temporal_store_nblock(l, p) ==
  /\ Statement("address")
  /\ store_temporal_referent(l, origin_timestamp(p))
  /\ PointsTo(l, Target(p))
  /\ UNCHANGED <<parameterVars, call>> /\ SameBlocks

(* Wrong: a copied pointer takes the stamp of the block at its address.     *)
StoreOriginOfTarget(l, r, p) ==
  /\ Statement("assign")
  /\ pointer[r] # Nowhere
  /\ store_temporal_referent(l, origin_timestamp(p))
  /\ PointsTo(l, [pointer[r] EXCEPT !.at = p])
  /\ UNCHANGED <<parameterVars, call>> /\ SameBlocks

(* l = r, and l = r + i, which may leave the block for the one at p.        *)
temporal_store_nreferent(l, r, p) ==
  /\ Statement("assign")
  /\ pointer[r] # Nowhere
  /\ store_temporal_referent(l, referent_timestamp(r))
  /\ PointsTo(l, [pointer[r] EXCEPT !.at = p])
  /\ UNCHANGED <<parameterVars, call>> /\ SameBlocks

(* memcpy(&l, &r, n), with at least a pointer to copy, and memset(&l, 0, n). *)
temporal_memcpy(l, r) ==
  /\ Statement("copy")
  /\ Arguments([i \in 0 .. 1 |-> Parameter(IF i = 0 THEN l ELSE r, "TBlockN")])
  /\ store_temporal_referent(l, referent_timestamp(r))
  /\ PointsTo(l, pointer[r])
  /\ SameBlocks /\ UNCHANGED call

temporal_memset(l) ==
  /\ Statement("copy")
  /\ Arguments([i \in {0} |-> Parameter(l, "TBlockN")])
  /\ store_temporal_referent(l, 0)
  /\ PointsTo(l, Nowhere)
  /\ SameBlocks /\ UNCHANGED call

-----------------------------------------------------------------------------
(* A call of an instrumented function; its arguments in the positions of    *)
(* params are pointers (TBlockN for the address of a variable, TReferentN   *)
(* for the pointer in it) or structures (TCopy).                            *)
Saved(places) ==
  UNION {[at -> {Parameter(r, flow) : r \in places,
                                      flow \in {"TBlockN", "TReferentN", "TCopy"}}] :
         at \in SUBSET (0 .. MAX_PARAMETERS - 1) \ {{}}}

temporal_save_parameter(params) ==
  /\ Spend("call", Cardinality(DOMAIN params))
  /\ Len(call.frames) < MaxDepth
  /\ Arguments(params)
  /\ call' = [call EXCEPT !.phase = "calling", !.frames = Append(@, {}), !.pulled = {}]
  /\ UNCHANGED <<referent, pointer>> /\ SameBlocks

(* The callee records its formals in their order and pulls their stamps.    *)
Awaited == {i \in DOMAIN parameter_referents :
              parameter_referents[i].temporal_flow # "none"} \ call.pulled
Passed(t) == IF t.temporal_flow = "TBlockN" THEN Target(t.ptr) ELSE pointer[t.ptr]
PulledStamp(t) ==
  IF t.temporal_flow = "TBlockN" THEN origin_timestamp(t.ptr)
  ELSE referent_timestamp(t.ptr)

temporal_pull_parameter(f, i) ==
  /\ Running /\ call.phase = "calling"
  /\ i \in Awaited /\ \A j \in Awaited : i <= j
  /\ NextLocal(f) /\ Appear(f)
  /\ store_temporal_referent(f, PulledStamp(parameter_referents[i]))
  /\ PointsTo(f, Passed(parameter_referents[i]))
  /\ call' = [call EXCEPT !.phase = IF Awaited = {i} THEN "body" ELSE "calling",
                          !.frames[Len(call.frames)] = @ \cup {f}, !.pulled = @ \cup {i}]
  /\ UNCHANGED <<model, parameterVars, budget>>

(* return r: the stamp is saved before the variables of the function are    *)
(* deleted.                                                                 *)
temporal_save_return(r) ==
  /\ Statement("return")
  /\ Len(call.frames) > 1
  /\ return_referent' = referent_timestamp(r)
  /\ call' = [phase |-> "returning", frames |-> Front(call.frames), pulled |-> {},
              returned |-> pointer[r]]
  /\ Disappear(Last(call.frames))
  /\ UNCHANGED parameter_referents

(* The caller stores the result in l, or has no use for it. *)
temporal_pull_return(l) ==
  /\ Running /\ call.phase = "returning"
  /\ store_temporal_referent(l, return_referent)
  /\ PointsTo(l, call.returned)
  /\ call' = [call EXCEPT !.phase = "body", !.returned = Nowhere]
  /\ UNCHANGED <<model, parameterVars, budget>> /\ SameBlocks

IgnoreReturn ==
  /\ Running /\ call.phase = "returning"
  /\ call' = [call EXCEPT !.phase = "body", !.returned = Nowhere]
  /\ UNCHANGED <<model, parameterVars, budget, referent, pointer>>
  /\ SameBlocks

-----------------------------------------------------------------------------
Next ==
  \/ \E l \in Locals : store_block(l)
  \/ \E l \in Living, p \in Heap : malloc(l, p) \/ realloc(l, p)
  \/ \E l \in Living : free(l) \/ temporal_memset(l)
  \/ \E l, p \in Living : temporal_store_nblock(l, p)
  \/ \E l, r, p \in Living : temporal_store_nreferent(l, r, p)
  \/ \E l, r \in Living : temporal_memcpy(l, r)
  \/ \E params \in Saved(Living) : temporal_save_parameter(params)
  \/ \E f \in Locals, i \in 0 .. MAX_PARAMETERS - 1 : temporal_pull_parameter(f, i)
  \/ \E r \in Living : temporal_save_return(r)
  \/ \E l \in Living : temporal_pull_return(l)
  \/ IgnoreReturn

Spec == Init /\ [][Next]_vars

-----------------------------------------------------------------------------
(* Stamps are distinct until the counter comes round. *)
CounterWrapped == temporal_timestamp >= TIMESTAMPS

TypeOK ==
  /\ temporal_timestamp \in Nat
  /\ \A p \in Places : origin[p] \in 0 .. TIMESTAMPS - 1
                       /\ referent[p] \in 0 .. TIMESTAMPS - 1
  /\ call.phase \in {"body", "calling", "returning"}
  /\ UNION ToSet(call.frames) \subseteq Living

(* Globals share one stamp in the segment model: leaving one global for     *)
(* another is not noticed.                                                  *)
BetweenGlobals(l) ==
  /\ model = SegmentStamps /\ pointer[l].at \in Globals
  /\ \E g \in Globals : pointer[l].of = live[g]

(* A pointer that passes temporal_valid refers to the very block that is    *)
(* now at its address, not to one that was freed or went out of scope       *)
(* there: through assignments, copies, arguments, results and reuse of the  *)
(* memory, as long as the counter has not wrapped.  A pointer at its own    *)
(* address is taken to be valid (the FIXME of temporal_valid).              *)
TemporalSound ==
  ~ CounterWrapped =>
    \A l \in Living :
      /\ pointer[l].at \in Living \ {l}
      /\ temporal_valid(pointer[l].at, l)
      => pointer[l].of = live[pointer[l].at] \/ BetweenGlobals(l)

(* No alarm for a pointer to a block that is still there, except for the    *)
(* pointers a realloc of the segment model has moved.                       *)
TemporalComplete ==
  \A l \in Living :
    /\ pointer[l].at \in Living
    /\ pointer[l].of = live[pointer[l].at]
    /\ ~ pointer[l].lost
    => temporal_valid(pointer[l].at, l)
=============================================================================
