----------------------------- MODULE ShadowLayout ------------------------------
(* How the segment model of E-ACSL lays out its shadow memory when a program  *)
(* starts: e_acsl_shadow_layout.h, the memory spaces of e_acsl_malloc.h and   *)
(* validate_shadow_layout.  Sizes are in units of a few megabytes.            *)
EXTENDS Integers, FiniteSets, FiniteSetsExt

CONSTANTS
  PGM_HEAP_SIZE, RTL_SIZE,
  StackSizes,              \* E_ACSL_STACK_SIZE, an option of e-acsl-gcc.sh
  TlsSizes,                \* PGM_TLS_SIZE, to be increased for some programs
  SHADOW_SEGMENT_PADDING,
  MSPACE_HEADER,           \* what an mspace adds to its capacity
  GLOBAL_START, GLOBAL_SIZE,
  MMAP_MIN, MMAP_MAX,      \* where the kernel maps memory
  LIBS_SIZE,               \* the libraries and their thread-local variables
  STACK_END,               \* after the last string of the environment
  Limits                   \* soft and hard limits of the stack

VARIABLES state, last

(* state.areas is the set of the mapped areas.  From the stack downwards the  *)
(* kernel maps the libraries first and each new area below the others; with   *)
(* the old layout (topdown FALSE) it starts at the bottom and goes up.        *)
Area(start, size) == [start |-> start, size |-> size]
libs(topdown) ==
  Area(IF topdown THEN MMAP_MAX - LIBS_SIZE ELSE MMAP_MIN, LIBS_SIZE)
id_tdata(topdown) == libs(topdown).start + LIBS_SIZE \div 2

mmap(st, size) ==
  Area(IF st.topdown THEN Min({a.start : a \in st.areas}) - size
       ELSE Max({a.start + a.size : a \in st.areas}), size)

(* create_mspace: the first block follows the header. *)
create_mspace(st, capacity) == mmap(st, capacity + MSPACE_HEADER)
Map(st, area) == [st EXCEPT !.areas = @ \cup {area}]
first_block(area) == area.start + MSPACE_HEADER

-------------------------------------------------------------------------------
(* setrlimit fails, or raises the soft limit up to the hard one. *)
increase_stack_limit(st, size) ==
  IF st.limit.cur >= size THEN [st |-> st, r |-> size]
  ELSE LET stacksz == IF size > st.limit.max THEN st.limit.max ELSE size
       IN  [st |-> IF st.setrlimit THEN [st EXCEPT !.limit.cur = stacksz]
                   ELSE [st EXCEPT !.aborted = TRUE],
            r |-> stacksz]

get_stack_size(st) == increase_stack_limit(st, st.stack_size)

get_stack_start(st) == STACK_END - get_stack_size(st).r

-------------------------------------------------------------------------------
Partitions == {"heap", "stack", "global", "tls"}
Shadows(st) == {"primary", "secondary"} \cup
               (IF st.temporal THEN {"temporal_primary", "temporal_secondary"} ELSE {})

(* Static storage is zero before it is set. *)
memory_segment == [start |-> 0, size |-> 0, end |-> 0, mspace |-> Area(0, 0),
                   shadow_ratio |-> 0, shadow_offset |-> 0]
mem_layout ==
  [p \in Partitions |->
     [s \in {"application", "primary", "secondary", "temporal_primary", "temporal_secondary"} |->
        memory_segment]]

set_application_segment(st, p, start, size) ==
  [st EXCEPT !.layout[p].application =
     [memory_segment EXCEPT !.start = start, !.size = size, !.end = start + size]]

set_shadow_segment(st, p, s, ratio) ==
  LET parent == st.layout[p].application
      size == parent.size \div ratio
      space == create_mspace(st, size + SHADOW_SEGMENT_PADDING)
      start == first_block(space)
  IN  [Map(st, space) EXCEPT !.layout[p][s] =
         [start |-> start, size |-> size, end |-> start + size, mspace |-> space,
          shadow_ratio |-> ratio, shadow_offset |-> parent.start - start]]

(* The shadows of a partition, one after the other. *)
set_shadows(st, p, secondary_ratio) ==
  LET plain == set_shadow_segment(set_shadow_segment(st, p, "primary", 1),
                                  p, "secondary", secondary_ratio)
  IN  IF ~st.temporal THEN plain
      ELSE set_shadow_segment(set_shadow_segment(plain, p, "temporal_primary", 1),
                              p, "temporal_secondary", 1)

init_shadow_layout_stack(st) ==
  LET start == get_stack_start(st)
      size == get_stack_size(st)
  IN  [set_shadows(set_application_segment(size.st, "stack", start, size.r), "stack", 1)
         EXCEPT !.is_initialized = TRUE]

(* Wrong: the shadows there are already are ignored. *)
HalfBelow(st) == id_tdata(st.topdown) - st.tls_size \div 2

get_tls_start(st) ==
  LET half == id_tdata(st.topdown) - st.tls_size \div 2
      max_shadow == Max({st.layout[p][s].end : p \in {"heap", "global"},
                                               s \in {"primary", "secondary"}}
                        \cup {st.layout["heap"].application.end})
  IN  Max({half, max_shadow + 2 * get_stack_size(st).r + 1})

init_shadow_layout_heap_global_tls(st) ==
  LET heap == set_shadows(set_application_segment(st, "heap", st.heap_start, PGM_HEAP_SIZE),
                          "heap", 8)
      global == set_shadows(set_application_segment(heap, "global", GLOBAL_START, GLOBAL_SIZE),
                            "global", 1)
      limited == get_stack_size(global).st
      tls == set_shadows(set_application_segment(limited, "tls", get_tls_start(limited),
                                                 limited.tls_size), "tls", 1)
  IN  [tls EXCEPT !.is_initialized = TRUE]

make_memory_spaces(st) ==
  LET rtl  == create_mspace(st, RTL_SIZE)
      st1  == Map(st, rtl)
      heap == create_mspace(st1, PGM_HEAP_SIZE)
  IN  [Map(st1, heap) EXCEPT !.heap_start = first_block(heap),
                             !.heap_end = first_block(heap) + PGM_HEAP_SIZE]

mspaces_init(st) ==
  IF st.mspaces_run THEN st
  ELSE [init_shadow_layout_heap_global_tls(make_memory_spaces(st))
          EXCEPT !.mspaces_run = TRUE]

(* setrlimit aborts the program: nothing comes after. *)
memory_init(st) ==
  IF st.memory_run THEN st
  ELSE LET spaces == mspaces_init(st)
           size == get_stack_size(spaces)
           limited == increase_stack_limit(size.st, 2 * size.r).st
       IN  [init_shadow_layout_stack(limited) EXCEPT !.memory_run = TRUE]

(* Areas of shadows, without the temporal ones. *)
clean_shadow_layout(st) ==
  IF ~st.is_initialized THEN st
  ELSE [st EXCEPT !.areas = @ \ {st.layout[p][s].mspace : p \in Partitions,
                                                          s \in {"primary", "secondary"}},
                  !.cleaned = TRUE]

-------------------------------------------------------------------------------
SHADOW_ACCESS(addr, offset) == addr - offset
SCALED_SHADOW_ACCESS(addr, start, offset, scale) ==
  (start - offset) + ((addr - start) \div scale)

(* The shadow s of an address of partition p. *)
Shadow(st, p, s, addr) ==
  LET seg == st.layout[p][s]
  IN  IF p = "heap" /\ s = "secondary"
      THEN SCALED_SHADOW_ACCESS(addr, st.layout[p].application.start,
                                seg.shadow_offset, seg.shadow_ratio)
      ELSE SHADOW_ACCESS(addr, seg.shadow_offset)

IS_ON(addr, seg) == addr >= seg.start /\ addr <= seg.end

Segments(st) ==
  {<<p, s>> : p \in Partitions, s \in {"application"} \cup Shadows(st)}

validate_shadow_layout(st) ==
  /\ st.is_initialized
  /\ \A i \in Segments(st) :
       LET src == st.layout[i[1]][i[2]]
       IN  /\ src.start < src.end
           /\ \A j \in Segments(st) \ {i} :
                LET dest == st.layout[j[1]][j[2]]
                IN  src.end < dest.start \/ src.start > dest.end

-------------------------------------------------------------------------------
(* Constructors may call malloc before main; main may call itself. *)
Init == /\ \E topdown, temporal, setrlimit \in BOOLEAN, stack \in StackSizes,
                tls \in TlsSizes, limit \in Limits :
             state = [f |-> "layout", topdown |-> topdown, temporal |-> temporal,
                      setrlimit |-> setrlimit, stack_size |-> stack, tls_size |-> tls,
                      limit |-> limit,
                      areas |-> {libs(topdown)}, layout |-> mem_layout,
                      heap_start |-> 0, heap_end |-> 0, blocks |-> {},
                      is_initialized |-> FALSE,
                      mspaces_run |-> FALSE, memory_run |-> FALSE,
                      aborted |-> FALSE, cleaned |-> FALSE]
        /\ last = <<>>

Step(name, next) == /\ state.f = "layout"
                    /\ ~state.aborted /\ ~state.cleaned
                    /\ state' = next /\ last' = <<name>>

(* A block of the heap; the first one stands for all. *)
ConstructorMalloc ==
  /\ state.f = "layout"
  /\ LET st == mspaces_init(state)
     IN  Step("malloc", [st EXCEPT !.blocks = @ \cup {st.heap_start}])
MainStarts == state.f = "layout" /\ Step("main", memory_init(state))
MainEnds == /\ state.f = "layout" /\ state.memory_run
            /\ Step("end", clean_shadow_layout(state))

Next == ConstructorMalloc \/ MainStarts \/ MainEnds

-------------------------------------------------------------------------------
Ready == state.f = "layout" /\ state.memory_run /\ ~state.aborted /\ ~state.cleaned

(* "the program and the shadow segments used do not overlap"                  *)
(* (validate_shadow_layout), for all sizes of the stack and with temporal     *)
(* shadows, if the kernel maps from the stack downwards.                      *)
LayoutValid == Ready /\ state.topdown => validate_shadow_layout(state)

(* The TLS segment, which get_tls_start moves away from the shadows, still    *)
(* holds the thread-local variables and the libraries' data (errno and the    *)
(* standard streams are tracked there), if the kernel maps downwards and two  *)
(* stacks are not larger than the runtime's own space.                        *)
TlsTracked ==
  Ready /\ state.topdown /\ 2 * state.stack_size <= RTL_SIZE =>
    LET tls == state.layout["tls"].application  l == libs(TRUE)
    IN  \A a \in {l.start, l.start + l.size - 1, id_tdata(TRUE)} : IS_ON(a, tls)

(* The shadow of every address that IS_ON a tracked segment, its inclusive    *)
(* end too, lies in the memory space that was made for this shadow.  A block  *)
(* that a constructor got before main stays on the heap segment: neither a    *)
(* second malloc nor main makes the spaces again.                             *)
ShadowsMapped ==
  state.f = "layout" /\ state.is_initialized /\ ~state.cleaned =>
    /\ \A b \in state.blocks : IS_ON(b, state.layout["heap"].application)
    /\ \A p \in {q \in Partitions : state.layout[q].application.size # 0}, s \in Shadows(state) :
         LET app == state.layout[p].application
             space == state.layout[p][s].mspace
         IN  /\ space \in state.areas
             /\ \A a \in {app.start, app.start + 1, app.end - 1, app.end} :
                  /\ Shadow(state, p, s, a) >= first_block(space)
                  /\ Shadow(state, p, s, a) < space.start + space.size

(* The tracked stack ends where the environment does and is no larger than    *)
(* what the limits of the system let it become.                               *)
StackFits ==
  Ready => LET stack == state.layout["stack"].application
           IN  /\ stack.end = STACK_END
               /\ stack.size <= state.limit.cur /\ state.limit.cur <= state.limit.max
===============================================================================
