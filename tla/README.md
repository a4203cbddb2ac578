# A TLA+ verification of parts of Frama-C

Frama-C is a platform for the analysis of C programs: an OCaml kernel with its
libraries, about thirty plug-ins, a C library of its own with ACSL contracts, and the
C runtime that E-ACSL links into the programs it monitors. Most of the OCaml code is
sequential symbolic computation (parsers, abstract domains, simplifiers) with no small
instance. This development models what is a matter of *state and order* - who owns
which state, what is pending, what happens when a step is interrupted, cancelled or
repeated - and the C code, whose memory, words and strings have small instances.

All paths below are relative to `src/`; `.ml` files are under `src/src/`, the libc is
`src/share/libc`, the E-ACSL runtime `src/src/plugins/e-acsl`.

## The system, and which module models which part

| Part | Source | Modules |
|---|---|---|
| Request loop of the Server plug-in | `plugins/server/main.ml` | `ServerMain`; proofs in `ServerMainProofs`, `ServerOrderProofs` |
| Stack of projects | `libraries/utils/qstack.ml` | `Qstack`, which implements `QstackSpec`; proofs in `ProjectProofs` |
| Internal states | `libraries/project/state_builder.ml` | `StateRegister` |
| Projects | `libraries/project/project.ml` | `Projects`, which implements `ProjectSpec` |
| Hooks on the current project | `project.ml`, `libraries/utils/hook.ml` | `ProjectHooks`; proofs in `ProjectProofs` |
| Threads and the task server | `libraries/utils/task.ml` | `TaskServer`; proofs in `TaskServerProofs` |
| Task monad, mutexes, commands, shared tasks | `task.ml`, `libraries/utils/command.ml` | `TaskMonad`; proofs in `TaskMonadProofs` |
| dlmalloc, as E-ACSL builds it | `contrib/libdlmalloc/dlmalloc.c` | `DlChunks`, `DlSystem`, `DlAlloc`, `DlCheck`, `Dlmalloc`, which implements `HeapSpec` |
| Memory models of E-ACSL | `share/e-acsl/bittree_model`, `segment_model` | `MemoryClient` (the program), `BittreeModel`, `SegmentModel` with `Bits`; both implement `MemorySpec`, whose queries are in `MemoryOps` |
| Temporal analysis of E-ACSL | `e_acsl_temporal*.h` | `Temporal` |
| Shadow layout, reports, commands, printf, formats, checked string functions of E-ACSL | `e_acsl_shadow_layout.h`, `e_acsl_assert.h`, `e_acsl_shexec.h`, `e_acsl_printf.h`, `e_acsl_format.h`, `e_acsl_libc_replacements.h` | `ShadowLayout`, `RtlAssert`, `Shexec`, `RtlPrintf`, `RtlFormat`, `RtlLibc` |
| Frama-C's libc and its contracts | `share/libc/*.c`, `*.h` | `LibcString` and `LibcCalls`, `LibcChars`, `LibcNumbers`, `LibcState`; `Contracts` says what a contract is |
| Words, bins, byte swaps, order of floats | `dlmalloc.c`, `e_acsl_bits.h`, `byteswap.h`, `c_bindings.c` | `Words` |

The parts interact as follows. The Server plug-in runs requests whose handlers may be
analyses; these call `Db.progress`, which is how the server gets control back in the
middle of a request. The results of analyses are internal states of the current
project. WP runs provers as tasks of a task server, a prover being a command that polls
a process; in the GUI the task server runs whenever `Db.progress` handles events. An
instrumented program calls the E-ACSL runtime, which keeps its records with a memory
model, its private memory with dlmalloc, and writes its messages with a printf of its
own. Compositions are `Projects` on `StateRegister`; `Dlmalloc` on its layers; the
memory models and `Temporal` under one client; `RtlLibc` on `LibcString` and the queries
of the memory models. The `MC` modules put several models side by side in one state
space, a variable telling which of them moves.

### How states and actions correspond to the code

**ServerMain.** `process` runs one request of `q_in` at a time; a handler may call
`Db.progress`, and `do_yield` then processes a message inside the handler. `comms` is the
stack of the messages in progress. An action is one request of a message (`ProcessPoll`,
`ProcessKill`, `ProcessShutdown`, `ProcessNewRequest`), the return or the exception of a
handler, a yield (`DoYield`, `YieldKilled`) or the end of a message. The client may send
any message of fresh requests, polls, kills and shutdowns at any fetch. `issued`,
`precedes`, `killed` and `delivered` are history variables.

**Qstack.** One action for each operation that changes the two lists, operators for
`mem`, `nth`, `idx`, `iter`. The pair stands for `first \o Reversed(last)`. The abstract
`map` may turn the part below some point upside down, because `map` does.

**StateRegister and Projects.** OCaml values are objects of a heap; the local reference
of a state and its table of projects point to them, so sharing is visible. Plug-ins write
to the local object (`Write`) or replace it (`Replace`, as `Array.set_length` does). A file
may turn out to be unreadable in any of its projects, in `load` and in `create_by_copy`. Each
call of `Project` is one action made of the same passes over the states, in the same
order; `Project.on` is two actions, since the function it runs may call anything. Objects
that nothing points to are collected, so that names can be used again.

**ProjectHooks.** `frames` is the stack of the applications of hooks in progress; each
hook may call `set_current`, `remove` or `create`, return, or raise.

**TaskServer.** There is one OCaml thread. `launch` adds a timeout to the GUI's main loop,
which runs whenever OCaml code calls `Db.progress`; `run_server` does, and so do tasks, so
calls of `run_server` nest; `frames` is the stack of those calls. `Click` is `spawn` then
`launch` from a button of WP, `Spawn` a `spawn` by a task. `miscounted` is a history
variable: it records the three events after which the counters are wrong.

**TaskMonad.** Threads that run a command under a mutex, and clients of a shared command.
One call of `Task.progress` or `Task.cancel` is one step; processes run, stop, crash and end
beside them; Frama-C may exit at any time. (`Task.cancel` of a thread of the server does not
test the lock that `progress` takes, so the exclusion proved of `TaskServer` is between calls
of `progress`.)

**Dlmalloc.** Each mspace call is one action (the build has no locks). The state is the
`malloc_state` and the words of the heap the allocator writes; the system's answers to
mmap, mremap and munmap are inputs; the client owns blocks and may overwrite all of them.

**Memory models.** `MemoryClient` makes the calls of an instrumented program. The bittree
is a Patricia trie with its masks; the segment model its shadow words and their
encodings. `free` and `realloc` may get any address, those of variables included; in the
segment model every allocation may find that the allocator has taken memory below its space,
which stops the program. `Temporal` has the stamps of blocks and pointers under the
statements that the code generator inserts, calls with several arguments among them.

**Libc and runtime functions.** A function is an operator on its arguments and memory.
The call is chosen in the initial state and made by one step, so that a property compares
the result with the contract; `Shexec`, `LibcState`, `ShadowLayout` and `RtlAssert` have
behaviours of several steps.

## What TLC checks

| Run | Instance | Shows |
|---|---|---|
| `server` | 3 requests, messages of 2, rate 1 | a request is in one place, answered once, and lost only if killed in the queue (`NoRequestLost`); SET and EXEC are answered in the order in which they were sent (`ResponsesInOrder`); until a Shutdown answers are neither dropped, overtaken nor repeated, and all are sent when the outermost message ends, by an exception too (`AnswersKept`); a Shutdown stops the server (`ShutdownStops`); every request is answered (`EventuallyAnswered`) |
| `projects` | 3 projects; 2 nested `on` and any number of calls, or 2 states with any selections and 4 calls; a stack of 4 elements; 3 hooks, applications nested twice | no two projects share an object (`StatesIsolated`); projects are values (`ImplementsProjects`); the two lists are one stack (`ImplementsStack`, `NthCountsFromTop`); hooks know the current project and are not re-entered (`HooksSound`) |
| `projects_files` | 5 projects, 2 copies of an object, pointers to projects, save, load and failing loads, debug mode, 5 calls | the same across files; a removed project is pointed to by no other (`RemovedIsForgotten`) |
| `tasks` | 3 threads, 2 stages, 2 timeouts, 2 nested calls; 2 threads on a mutex; 2 clients of a shared task | a task is never entered twice (`ProgressIsExclusive`); the counters agree until one of three events (`CountersAgree`); without these every thread terminates (`EventuallyTerminates`); mutual exclusion (`CriticalSection`), true statuses and no process left (`CommandsTrue`), shared tasks (`SharedSound`); commands with a timeout end (`CommandsEnd`) |
| `dlmalloc` | 11 mixes of calls, chunks from 4 words, pages of 32 words | the state passes dlmalloc's own debug checks (`StateConsistent`), blocks stay usable (`LiveBlocksUsable`), statistics are true (`SpaceAccounted`), placement is by best fit within the limits (`PlacementSound`), the client sees a heap (`ImplementsHeap`) |
| `memory_models` | 9 mixes of calls for each model, 8 of statements for the stamps | the records are well formed (`RecordSound`), queries are answered as the contracts of `e_acsl.h` say (`AnswersTrue`), stamps are exact (`TemporalExact`), both models implement one memory (`ImplementsMemory`) |
| `runtime_functions` | all inputs in the bounds of `MCRuntime` | the libc and the runtime functions meet their contracts, their comments or a definition of what they compute (ten properties, one for each family) |

Where the code differs from the contract in a way that is listed below, the property
names the case and excludes exactly it. Five runs are expected to find a violation of what
the repository says of its own code:

| Run | Says | Does |
|---|---|---|
| `projects_pointers_doc` | `project.ml:576`, "there is no possible dangling project pointers" | `create_by_copy` makes pointers to projects outside the stack, the reference to the last copy included |
| `projects_tables_assert` | `project.ml:614`, `assert (Rehash.length rehash_cache = 0 ...)` | a load that fails leaves the tables filled, and the next one fails on the assertion |
| `task_mutex_doc` | `task.mli:126`, on `sync`: "Schedules a task such that only one can run simultaneously for a given mutex" | a thread that waits for the mutex and is cancelled runs `unlock`, and another one enters while the first is inside |
| `task_invariant_comment` | `task.ml:399`, "Invariant: terminated + (length running) + Sum ( length queue.(i) ) == scheduled" | a click handled by `Db.progress` when no thread runs: the counters are reset although a queue holds the new thread |
| `format_arguments_doc` | `e_acsl_format.h:50`, "the types of variadic arguments ... match the types expected by the respective format directives" | a directive that starts with the flag 0 is compared with the first argument |

### Bounds

*Requests.* Reordering needs two requests and one that interrupts them: three ids, and
messages of two so that a message has a rest when its GET yields. `Numbered` makes the
client take ids in one order: the server only compares them, and liveness rules out a
symmetry set. With rate 1 both a yield that communicates and one that does not happen.
*Projects.* Three are the current one, the one to restore and one that is removed or
pointed to; files need two more for a load that fails half way and the project it leaves.
Five calls are write, save, change, load and switch; four where selections multiply them. Nested `on` has no such
bound: `calls` is not in its view. The view forgets the names of objects and keeps who
shares what.
*Threads.* One that runs, one in a queue, one spawned meanwhile; two timeouts are the
least that nest.
*Heap.* The requests 1, 17, 41 and 117 are a small chunk, one of a tree bin, one above the
lowered mmap threshold and one above the default threshold of 60 words; the layouts split
and coalesce neighbours; new space lands above, below or apart from the first segment.
*Memory.* Heap bases 64, 96 and 160 above the block that marks the start of the heap, so that
blocks are adjacent segments or apart; sizes below, above and across a segment; blocks of no bytes; a product and an alignment that
overflow 16 bits; probes at both ends of every block.
*Functions.* Blocks of five characters with a zero, a letter and a byte that is negative;
words of few bits so that every word is tried, with the real bounds of bins up to 2^26.

### Fairness

`ServerMain`: OCaml code goes on, so the loop and the processing of messages are weakly
fair, as is a handler, which returns or yields; an analysis that only yields is allowed.
`EventuallyAnswered` adds in its statement that handlers return and the client polls
(strong fairness, because messages may interrupt both again and again). `TaskServer`: the
steps of `run_server` are weakly fair; the main loop fires each of its timeouts again and
again (strong fairness, at its outermost level). That tasks end is a hypothesis of
`EventuallyTerminates`. `TaskMonad`: the server polls its threads, time passes and the
system delivers SIGKILL (weak fairness); a process need not end by itself.

## What is proved

TLAPS proves the following for every value of the constants: any number of requests,
threads, clients, projects or hooks, any length of messages, queues and stacks. Each
theorem that names a property states the very definition that a run checks.

| Theorem | States |
|---|---|
| `ServerMainProofs!TypeCorrect` | `TypeOK` |
| `ServerMainProofs!RequestsAreKept` | `NoRequestLost` |
| `ServerMainProofs!AnswersAreKept` | `AnswersKept`, an action property |
| `ServerOrderProofs!AnswersAreInOrder` | `ResponsesInOrder` |
| `ProjectProofs!StackTypeCorrect` | the two lists keep their types and the bound |
| `ProjectProofs!StackIsImplemented` | `ImplementsStack`: `Qstack` implements `QstackSpec` |
| `ProjectProofs!NthIsRight` | `NthCountsFromTop` |
| `ProjectProofs!HooksAlwaysSound` | `HooksSound` |
| `TaskServerProofs!TaskTypeCorrect` | `TaskTypeOK` |
| `TaskServerProofs!LockIsExclusive` | `ProgressIsExclusive` |
| `TaskServerProofs!CountersAlwaysAgree` | `CountersAgree` |
| `TaskMonadProofs!MonadTypeCorrect` | `MonadTypeOK` |
| `TaskMonadProofs!MutexIsExclusive` | `CriticalSection` |
| `TaskMonadProofs!CommandsAreTrue` | `CommandsTrue` |
| `TaskMonadProofs!SharedTasksSound` | `SharedSound` |

### Assumptions

They are named in the module that declares the constants, and TLC evaluates them:
`ServerAssumption` (the value for "no request" is no id, the rate is in 1..200 as `run`
clamps it), `NoneIsNoExec`, `QstackAssumption` (the bound is a natural number),
`HooksAssumption` (hooks are registered in sequences), `TaskServerAssumption` (at least one
thread, stage, process and call), `TasksDiffer` (a thread runs one task, the shared task is
none of them, the clients are finitely many).

### The arguments

*Server, no request lost.* The property speaks of where a request is, and a step moves
requests between places, so the invariant has to say of *all* places that no request is in
two of them. `PlaceInv` has three parts: `MessagesInv` (no id is twice in the messages in
progress, nor in the GET handlers that they interrupt), `PlacesInv` (suspended messages,
GET handlers, the queue, the running request, the responses and what was delivered are
pairwise disjoint and without repetition) and `IssuedInv` (the places hold requests that
were sent, and until a shutdown or an interruption all of them but those killed in the
queue). With it, moving a request is removing it from one set and adding it to another.

*Server, order.* `SeqInv` puts the places in one line: what was delivered, then `q_out`,
the running request, `q_in`, and the messages in progress. `LineInv` says that nothing
further down the line is to be answered before what is further up, `MessageOrder` that two
ordered requests that are both still in messages are in the *same* message: this is what a
yield inside a GET handler could break, and does not, because the message that it processes
was sent later. `KindsInv` is needed because GET requests overtake and are exempt.

*Server, answers.* `AnswersStep` shows of each action that `delivered` followed by `q_out`
only grows at its end, and of the steps that end a message that they empty `q_out`; the ends
by an exception are among them, because `communicate` answers before it raises again.

*Stack.* `StandFor` says what the two lists stand for, element by element. Every operation
is shown to be a step of `QstackSpec` on that sequence; the interesting ones are those at
the bottom (`add_at_end`, `move_at_end`), which add at the head of a list that is kept
upside down, `remove`, whose element may be in either list (`RemovedProperties`), and the
`transfer` of `top`, which turns a list over and maps to a stutter. `nth` then follows from the contents.

*Hooks.* `HooksInv` adds to `HooksSound` what is true while hooks are being called:
`FlagInv` (at most one application by `set_current` is in progress, and `apply_hook` is set
meanwhile) and `ToldInv` (a hook has looked at the current project or is still in the rest
of an application in progress), each until one of the events that break it: a hook raised,
a hook removed a project, the change was made by `on`.

*Task server.* `Exclusive` strengthens `ProgressIsExclusive` with `TaskHoldsThread`: the
lock is held by exactly the threads whose code is on the stack of calls. For the counters,
`CountInv` adds `StageInv` (a call that filters is at stage 0, one that schedules or is in
`Db.progress` is past it, which says where the threads are that it has in hand) and `NestInv`
(until a miscounting event all calls but the innermost are in `Db.progress` and have nothing
in hand). The threads
in the queues are counted as the places of the queues, a finite set that `Enqueue` enlarges
by one and `ScheduleTake` reduces by one (`OneMorePlace`), so that every step keeps
terminated + in hand + queued = scheduled, or is one of the three events: a `run_server`
inside a task, an exception of a task, and a reset while a queue holds a thread.

*Task monad.* `CriticalSection` needs where each automaton is when the mutex is taken.
`CommandInv` ties for every command its process, its signals and its job at exit
(`ProcessInv`) to the automaton of its thread (`ThreadInv`). `ClientsInv` says that the
clients that wait are counted, and that the instance is killed only while a cancelled client
waits, until a client comes while another is being cancelled (`crowded`).

`SeqLemmas` has the facts about sequences that these proofs share.

### What is only model-checked, and why

- Liveness (`ShutdownStops`, `EventuallyAnswered`, `EventuallyTerminates`, `CommandsEnd`):
  fairness is out of the prover's reach.
- `StatesIsolated`, `ImplementsProjects` and `RemovedIsForgotten`: the actions of `Projects`
  fold passes over the states and collect objects by a closure of the heap; what such folds
  compute needs induction over data, which the installed provers cannot do.
- `dlmalloc`, the memory models and their refinements, for the same reason: bins, tries and
  shadow words are walked by recursive operators, and the words use bitwise operations.
- `runtime_functions`: pure functions compared with their definitions on bounded inputs.

## What the models show of the code

Besides the five violations above, these are the places where code and documentation part,
or where a property holds only with an exception that it names.

*Server, stack and projects.* `Qstack.map` reverses the second list, against `qstack.mli:94`;
`filter` and `find` read it from the bottom, against `qstack.mli:67` and `:71`;
`Project.find_all` uses `filter`. `State_builder.Array` empties the array of the current
project whatever array it is asked to clear (`RemovedIsForgotten` excepts it). A hook that
raises leaves `apply_hook` set; user hooks miss `on`; the removal of the current project
calls only the user's hooks, with the new current project and outside `apply_hook`.

*Tasks.* A function under `sync` that raises leaves the mutex taken. A process that a signal
from elsewhere ends is reported as `Canceled`. A stopped process (WUNTRACED) is reported as ended and its exit job disarmed. A
process that ends just before the kill is reported as a timeout. Ended clients of a shared
task stay counted; a client that joins while the only counted client is being cancelled gets
`Canceled` (`task.mli:147`). An exception of `finally`'s callback leaves the old automaton,
which polls a reaped process; `last_result` is never set.

*dlmalloc.* `set_footprint_limit(0)` rounds to 0, which means no limit; `mmap_resize` ignores
the limit (3939, comment 1060). `do_check_mmapped_chunk` is contradicted by
`track_large_chunks` and by memalign, and the alignment assertion of
`do_check_malloced_chunk` by mmapped chunks when MALLOC_ALIGNMENT is 32. The first segment of
an mspace is never trimmed. `inspect_all` reports one word too many for chunks in use, and
`mallinfo` counts fenceposts in `hblkhd`; both are modelled as the library has them, for the
E-ACSL build compiles them and `malloc_stats` out.

*Memory models.* Bittree: `free` and `realloc` of the base of a variable are not refused:
the address is handed to dlmalloc, which aborts or takes it for a chunk; `realloc` of what is
no base reads through NULL. A realloc that shrinks a partly initialised block keeps bits beyond
the new size; `free` leaks the block's record; `initialized` of a fully initialised block
ignores the end of the range. Segment: a moving realloc copies as many *bytes* of the
initialisation shadow as the block has; calloc marks the padding initialised;
`unset_heap_segment` does not count the block down; a base on the other side of the heap's
bounds than the address is looked up in the shadow of the address's side, and `AnswersTrue`
does not ask about such pairs; the READONLY bit of a block of size 0 is
never cleared. The contracts of `valid` and `valid_read` have `disjoint behaviors` that
overlap, and with size 0 on unallocated memory they say 1 where the code says 0. Temporal: the origin of a freed heap address is read through the shadow of
address 0, which `valid` never comes to; a realloc of the bittree never resizes the temporal shadow, and one of the segment model loses
the referents; callbacks of libraries pull parameters that nobody saved.

*Layout and reports.* `clean_shadow_layout` leaves the temporal mspaces; `IS_ON` includes the
end of a segment; the TLS segment holds the thread-local variables only if two stacks are no
larger than the runtime's; before `memory_init`, NULL is on the stack; `add_safe_location`
ignores its last argument. `raise` returns when SIGABRT is blocked, ignored or handled;
`trace` indexes an empty output of addr2line at -1; FE_INEXACT is tested before overflow and underflow.

*E-ACSL's string functions, printf and formats.* `memcmp` refuses areas that overlap,
`strncat` demands room for n, `strcat` misses overlaps with the room that dest grows into. A
size so large that an address or the sum of two sizes wraps passes the checks
(`ReplacementsSafe` names these calls).
`a2i` takes an 'a' after a width for a digit; `%f` prints 1.05 as 1.50; zero padding comes
before the minus sign; a format that ends in a directive is read past its end; `directive`
is one character too short for the longest directive; `*` consumes no argument; arguments are fetched as pointers, so the memory that is queried for
one after a floating-point argument is another's (`FormatsChecked` claims of such an argument
only its type); `%v` and `%V` convert, with their padding, into an array of 256;
`builtin_sprintf` formats before it validates. `shexec`: `error` is not initialised, a read
that a signal interrupts makes its result NULL, a command that has gone kills the writer by
SIGPIPE, a failed exec returns in the child, a failed fork is treated as the parent, the saved descriptors leak.

*Libc.* The sign of `strcasecmp` is reversed; the contract of `strrchr` lacks the cast to
char, those of `memchr` and `memset` compare a signed char with an int; `strdup` and `strndup`
promise `\fresh(\result, strlen(s))`, one less than they allocate; the axioms of
`memcmp_strlen` with n = 0 contradict `strlen_neg`. `isblank` accepts all white space;
`getline` takes character 255 for the end of the file and does not test its first malloc;
`glob` with GLOB_APPEND sets `gl_pathc` to the new count only; `putenv` may return 0 where
its comment says non-zero (`stdlib.c:128`). `getaddrinfo` leaks when its second malloc fails;
the test `*cp < '0' && *cp > '9'` of `gethostbyname` is never true. `__finite` masks 8 bits
of the exponent of a double; `exp` promises a positive result though it underflows;
`imaxabs` refuses 0 and `imaxdiv` 0 / -1; `pipe` and `socketpair` promise valid descriptors
on failure as well; float and double intervals return only their bounds.

## What is not modelled

- Parts with no order of events and no small instance: the C and ACSL front end, the AST and
  its visitors, the analysis services, Eva, WP, the source transformations (E-ACSL's code
  generator, RTE, Aorai, Variadic) and the other analyses.
- Input, output and formatting: the server's front ends and JSON encoders, the journal, logs,
  the GUI's widgets.
- Parts that have state but are not done: the state dependency graph (selections are taken as
  given sets), property statuses and their consolidation, the stages of the command line.
- Inside modelled parts: names of projects and the hooks of their other operations, weak
  tables and hash-consing, pools of threads, rounding modes, contracts without code that only
  say what is assigned. `PROJECT.json` gives the reason for each.
