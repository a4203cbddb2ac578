------------------------------ MODULE LibcState -------------------------------
(* The libc functions of Frama-C that keep a state between calls: getline    *)
(* with its buffer and stream (stdio.c), glob and globfree with the vector   *)
(* of paths (glob.c), the environment (stdlib.c) and the name lookups        *)
(* (netdb.c).  A behaviour is a program that uses one of the four.           *)
EXTENDS Integers, Sequences, Contracts

CONSTANTS
  Texts,      \* contents of the files that are read
  SSIZE_MAX,  \* largest size of a line buffer
  MaxFound,   \* a pattern matches at most so many paths
  MaxPaths,   \* bound on the length of a path vector
  ARG_MAX,    \* number of entries of the environment
  __FC_INITENV_LEN,    \* size of the buffer of its strings
  Names,               \* names, sequences of characters without the last zero
  Addresses,           \* what inet_addr may return besides INADDR_NONE
  Families,            \* values of sa_family
  __FC_HOSTBUF_SIZE,
  __FC_QUERYBUF_SIZE,
  MaxBlocks            \* bound on the allocations of a program

VARIABLES
  state,      \* what the functions keep, state.f tells for which of them
  last        \* << >> or the value the last call returned

(* One of the outcomes a call may have. *)
Becomes(outcomes) == \E st \in outcomes : state' = st /\ last' = <<st.returned>>

EOF == -1
char(b) == IF b > 127 THEN b - 256 ELSE b
NEWLINE == 10

-------------------------------------------------------------------------------
(* A line buffer is NULL (null) or a block of n characters of which line are  *)
(* set.  grants is the number of allocations that succeed before one fails,   *)
(* reads that of the characters that are read before a read fails.  error is  *)
(* ENOMEM, EOVERFLOW or "fault", a write through a NULL buffer: the result of *)
(* malloc(2) is not tested, since the test is of lineptr.  A char is signed,  *)
(* so that 255 is taken for EOF.  lost is what a call that returned -1 read.  *)
Line(st, rest, line, n) ==
  [st EXCEPT !.rest = rest, !.line = line, !.n = n, !.null = FALSE,
             !.got = @ \o line, !.returned = Len(line)]

Failed(st, rest, n, null, error, read) ==
  [st EXCEPT !.rest = rest, !.n = n, !.null = null, !.error = error,
             !.lost = read, !.returned = -1]

(* Wrong: the last character of the buffer is filled too. *)
NoRoomForZero(l, n) == Len(l) < n

Room(l, n) == Len(l) < n - 1

(* fgetc: the end of the file or an error sets the indicator of the stream. *)
fgetc(st, rest, reads) ==
  IF reads = 0 THEN <<EOF, rest, [st EXCEPT !.ferror = TRUE]>>
  ELSE IF rest = <<>> THEN <<EOF, rest, [st EXCEPT !.eof = TRUE]>>
  ELSE <<char(Head(rest)), Tail(rest), st>>

(* The loops of getline: fill the buffer, then reallocate it one larger.  An  *)
(* end of file or an error ends the inner loop, so the outer one goes on.     *)
ReadLine(st, size, null, grants, reads) ==
  LET RECURSIVE read(_, _, _, _, _)
      read(rest, l, n, g, r) ==
        LET got == fgetc(st, rest, r)
            c == got[1]
            next == got[2]
        IN  IF Room(l, n)
            THEN IF c = EOF /\ l = <<>> THEN Failed(got[3], next, n, null, "none", <<>>)
                 ELSE IF null THEN Failed(got[3], next, n, TRUE, "fault", Append(l, c))
                 ELSE IF c = EOF THEN Line(got[3], next, l, n)
                 ELSE IF c = NEWLINE THEN Line(st, next, Append(l, c), n)
                 ELSE read(next, Append(l, c), n, g, r - 1)
            ELSE IF n = SSIZE_MAX THEN Failed(st, rest, n, FALSE, "EOVERFLOW", l)
            ELSE IF g = 0 THEN Failed(st, rest, n, TRUE, "ENOMEM", l)
            ELSE read(rest, l, n + 1, g - 1, r)
  IN  read(st.rest, <<>>, size, grants, reads)

getline(st, grants, reads) ==
  IF st.ferror \/ st.eof THEN [st EXCEPT !.returned = -1]
  ELSE IF st.null \/ st.n = 0
  THEN ReadLine(st, 2, grants = 0, IF grants = 0 THEN 0 ELSE grants - 1, reads)
  ELSE ReadLine(st, st.n, FALSE, grants, reads)

Stream(text, n, null) ==
  [f |-> "getline", rest |-> text, text |-> text, eof |-> FALSE, ferror |-> FALSE,
   line |-> <<>>, n |-> n, null |-> null, got |-> <<>>, lost |-> <<>>,
   error |-> "none", returned |-> 0]

GetlineInit ==
  \E text \in Texts, n \in 0..3, null \in BOOLEAN : state = Stream(text, n, null)

(* The program reads on until getline returns -1. *)
Getline ==
  /\ state.f = "getline" /\ state.returned # -1
  /\ \E grants \in 0..SSIZE_MAX, reads \in 0..(Len(state.text) + 1) :
       Becomes({getline(state, grants, reads)})

-------------------------------------------------------------------------------
(* gl_pathv is << >> for NULL or the slots of its block.  paths is what the   *)
(* calls that succeeded have found since the vector was last started.         *)
prev_len(v, offs) ==
  LET RECURSIVE count(_)
      count(k) == IF v[offs + k + 1] = "NULL" THEN k ELSE count(k + 1)
  IN  count(0)

(* The vector after realloc, the reserved slots, the paths found and the      *)
(* terminator have been stored.                                               *)
Vector(path, found, offs) ==
  LET from == offs + (IF path = <<>> THEN 0 ELSE prev_len(path, offs))
  IN  [i \in 1..(from + Len(found) + 1) |->
         IF i <= offs THEN "NULL"
         ELSE IF i <= from THEN path[i]
         ELSE IF i <= from + Len(found) THEN found[i - from]
         ELSE "NULL"]

Results(k) == [i \in 1..k |-> "glob result"]

(* found is what the vector gets: the results, or the pattern itself. *)
glob(st, append, nocheck, err, results, space, errfunc, quiet) ==
  LET path == IF append THEN st.pathv ELSE <<>>
      found == IF results > 0 THEN Results(results) ELSE <<"pattern">>
      counted == [st EXCEPT !.pathc = results]
      stored == [counted EXCEPT
                   !.pathv = Vector(path, found, st.offs),
                   !.paths = (IF append THEN @ ELSE <<>>) \o found]
  IN  IF results = 0 /\ ~nocheck THEN [counted EXCEPT !.returned = "GLOB_NOMATCH"]
      ELSE IF ~space THEN [counted EXCEPT !.pathv = <<>>, !.paths = <<>>,
                                          !.returned = "GLOB_NOSPACE"]
      ELSE IF results = 0 \/ quiet \/ errfunc = "none" THEN [stored EXCEPT !.returned = "0"]
      ELSE IF errfunc = "stop" \/ err THEN [stored EXCEPT !.returned = "GLOB_ABORTED"]
      ELSE [stored EXCEPT !.returned = "0"]

(* The block is freed only if gl_pathc > 0; either way the program uses it no *)
(* more.                                                                      *)
globfree(st) ==
  [st EXCEPT !.pathv = <<>>, !.paths = <<>>, !.returned = "void"]

GlobInit ==
  \E offs \in 0..2 :
    state = [f |-> "glob", pathc |-> 0, pathv |-> <<>>, offs |-> offs,
             paths |-> <<>>, returned |-> "void"]

(* A program appends only to a vector that a successful call has left, with   *)
(* the same number of reserved slots.                                         *)
Glob ==
  /\ state.f = "glob"
  /\ \E append, nocheck, err, space, quiet \in BOOLEAN, results \in 0..MaxFound,
        errfunc \in {"none", "go on", "stop"} :
       /\ append <=> state.pathv # <<>>
       /\ Len(state.paths) + results < MaxPaths
       /\ Becomes({glob(state, append, nocheck, err, results, space, errfunc, quiet)})

Globfree == state.f = "glob" /\ Becomes({globfree(state)})

-------------------------------------------------------------------------------
(* An entry of the environment is NO_STRING for NULL, an offset into          *)
(* __fc_env_strings or USER for a string given to putenv.  zeros is the set   *)
(* of the bytes of __fc_env_strings that are known to be zero.                *)
NO_STRING == -1
USER == -2

Offsets == 0..(__FC_INITENV_LEN - 1)

Frama_C_make_unknown(st, n) == [st EXCEPT !.zeros = @ \ (0..(n - 1))]

__fc_initenv(st) ==
  IF st.init THEN {st}
  ELSE {[Frama_C_make_unknown(st, __FC_INITENV_LEN - 1) EXCEPT !.init = TRUE, !.env = e] :
          e \in [1..ARG_MAX -> Offsets]}

EnvReturns(outcomes, r) == {[st EXCEPT !.returned = r] : st \in outcomes}

getenv(st) ==
  UNION {{[e EXCEPT !.string = r, !.returned = "string"] :
            r \in {e.env[i] : i \in 1..ARG_MAX} \cup {NO_STRING}} : e \in __fc_initenv(st)}

(* string holds a '=' that is not its first character. *)
putenv(st) ==
  EnvReturns(__fc_initenv(st), "0") \cup EnvReturns(__fc_initenv(st), "nonzero") \cup
  UNION {{[e EXCEPT !.env[i] = USER, !.returned = "0"] : i \in 1..ARG_MAX} :
         e \in __fc_initenv(st)}

(* bad: the name is empty or holds a '='. *)
setenv(st, bad) ==
  LET inited == __fc_initenv(st)
      unknown == {Frama_C_make_unknown(e, __FC_INITENV_LEN - 1) : e \in inited}
  IN  IF bad THEN EnvReturns({st}, "-1")
      ELSE EnvReturns(inited, "-1") \cup
           {[e EXCEPT !.env[i] = o, !.returned = "0"] :
              e \in inited \cup unknown, i \in 1..ARG_MAX, o \in Offsets}

unsetenv(st, bad) ==
  LET inited == __fc_initenv(st)
  IN  IF bad THEN EnvReturns({st}, "-1")
      ELSE EnvReturns(inited, "0") \cup
           {[e EXCEPT !.env[i] = NO_STRING, !.returned = "0"] :
              e \in inited, i \in 1..ARG_MAX}

EnvInit ==
  state = [f |-> "env", init |-> FALSE, env |-> [i \in 1..ARG_MAX |-> NO_STRING],
           zeros |-> Offsets, string |-> NO_STRING, returned |-> "void"]

Environment ==
  /\ state.f = "env"
  /\ \/ Becomes(getenv(state))
     \/ Becomes(putenv(state))
     \/ \E bad \in BOOLEAN : Becomes(setenv(state, bad) \cup unsetenv(state, bad))

-------------------------------------------------------------------------------
(* The name lookups of netdb.c.  getaddrinfo allocates its answer, and        *)
(* gethostbyname answers with a pointer to one static host.  state.res is     *)
(* what the program's variable res points to and state.host is __fc_ghbn.     *)

NULL == "NULL"
INADDR_NONE == -1
DIGIT_0 == 48
DIGIT_9 == 57
DOT == 46

NoAddress == [block |-> 0, family |-> -1, sa_family |-> -1, addr |-> NULL, next |-> "unset"]

AddrInfo(block, family) ==
  [block |-> block, family |-> family, sa_family |-> family, addr |-> "sa", next |-> NULL]

(* What net_state, which is volatile, is read as decides the error. *)
Errors ==
  [n \in {0, 1, 2, 3, 5, 6, 7} |->
     CASE n = 0 -> "EAI_BADFLAGS" [] n = 1 -> "EAI_AGAIN"    [] n = 2 -> "EAI_FAIL"
       [] n = 3 -> "EAI_FAMILY"   [] n = 5 -> "EAI_SERVICE"  [] n = 6 -> "EAI_SOCKTYPE"
       [] n = 7 -> "EAI_SYSTEM"]

Returns(st, code) == [st EXCEPT !.returned = code]

(* ai and sa tell whether the two allocations succeed; when only the second   *)
(* fails, the block of the first is lost.                                     *)
getaddrinfo(st, nodename, servname, net_state, ai, sa, family) ==
  IF nodename = NULL /\ servname = NULL THEN Returns(st, "EAI_NONAME")
  ELSE IF net_state \in DOMAIN Errors
       THEN [Returns(st, Errors[net_state]) EXCEPT
               !.errno = IF net_state = 7 THEN "EIO" ELSE @]
  ELSE IF ~ai THEN Returns(st, "EAI_MEMORY")
  ELSE IF ~sa THEN [Returns(st, "EAI_MEMORY") EXCEPT !.blocks = @ + 1]
  ELSE [Returns(st, "0") EXCEPT !.blocks = @ + 2, !.res = AddrInfo(st.blocks + 1, family)]

(* An outcome is the code returned and whether *res is a fresh block that is  *)
(* initialised; a code other than 0 leaves that open.                         *)
getaddrinfo_contract(nodename, servname) ==
  LET codes == {"EAI_AGAIN", "EAI_BADFLAGS", "EAI_FAIL", "EAI_FAMILY", "EAI_MEMORY",
                "EAI_SERVICE", "EAI_SOCKTYPE", "EAI_SYSTEM"}
  IN  Partition(TRUE, (codes \cup {"0", "EAI_NONAME"}) \X BOOLEAN,
        [empty_request  |-> Behavior(nodename = NULL /\ servname = NULL,
                                     {"EAI_NONAME"} \X BOOLEAN),
         normal_request |-> Behavior(nodename # NULL \/ servname # NULL,
                                     (codes \X BOOLEAN) \cup {<<"0", TRUE>>})])

-------------------------------------------------------------------------------
NoHost ==
  [name |-> NULL, addrtype |-> 0, host_addr |-> 0,
   hostbuf |-> [i \in 0..(__FC_HOSTBUF_SIZE - 1) |-> 0],
   aliases |-> <<NULL, NULL>>, addr_ptrs |-> <<NULL, NULL, NULL>>]

(* The answer has a length of at most anslen and is not used. *)
res_search(anslen) == -1..anslen

(* strncpy of all but the last character, which is set to zero. *)
HostBuffer(name) ==
  [i \in 0..(__FC_HOSTBUF_SIZE - 1) |->
     IF i < Len(name) /\ i < __FC_HOSTBUF_SIZE - 1 THEN name[i + 1] ELSE 0]

Host(host, name, addr) ==
  [host EXCEPT !.name = "hostbuf", !.host_addr = addr, !.hostbuf = HostBuffer(name),
               !.aliases[1] = NULL, !.addr_ptrs[1] = "host_addr", !.addr_ptrs[2] = NULL]

(* No character is below '0' and above '9', so the scan of a name that starts *)
(* with a digit ends at its zero, whatever it holds.                          *)
Numeric(name) ==
  /\ name # <<>> /\ name[1] \in DIGIT_0..DIGIT_9
  /\ \A i \in 1..Len(name) : ~(name[i] < DIGIT_0 /\ name[i] > DIGIT_9 /\ name[i] # DOT)
  /\ name[Len(name)] # DOT

Found(st, name, addr) ==
  [st EXCEPT !.host = Host(st.host, name, addr), !.returned = "host",
             !.found = [name |-> name, addr |-> addr]]

(* addr is what inet_addr returns, n what res_search does, fails the outcome  *)
(* of Frama_C_nondet.                                                         *)
gethostbyname(st, name, addr, n, fails) ==
  LET set == [st EXCEPT !.host.addrtype = "AF_INET"]
  IN  IF Numeric(name)
      THEN IF addr = INADDR_NONE THEN Returns(set, NULL) ELSE Found(set, name, addr)
      ELSE IF n < 0 \/ fails THEN Returns(set, NULL) ELSE Found(set, name, addr)

-------------------------------------------------------------------------------
(* found is the last host returned, for the property only. *)
NetInit ==
  state = [f |-> "netdb", res |-> NoAddress, errno |-> "0", blocks |-> 0,
           host |-> NoHost, found |-> [name |-> <<>>, addr |-> 0], returned |-> "none"]

Answers(st, call) == state' = st /\ last' = <<call>>

Getaddrinfo ==
  /\ state.f = "netdb" /\ state.blocks + 2 <= MaxBlocks
  /\ \E nodename, servname \in {NULL, "name"}, net_state \in 0..8, ai, sa \in BOOLEAN,
        family \in Families :
       Answers(getaddrinfo(state, nodename, servname, net_state, ai, sa, family),
               [f |-> "getaddrinfo", nodename |-> nodename, servname |-> servname,
                res |-> state.res, blocks |-> state.blocks])

Gethostbyname ==
  /\ state.f = "netdb"
  /\ \E name \in Names, addr \in Addresses \cup {INADDR_NONE},
        n \in res_search(__FC_QUERYBUF_SIZE), fails \in BOOLEAN :
       Answers(gethostbyname(state, name, addr, n, fails), [f |-> "gethostbyname"])

-------------------------------------------------------------------------------
Init == (GetlineInit \/ GlobInit \/ EnvInit \/ NetInit) /\ last = <<>>

Next == Getline \/ Glob \/ Globfree \/ Environment \/ Getaddrinfo \/ Gethostbyname

Spec == Init /\ [][Next]_<<state, last>>

-------------------------------------------------------------------------------
(* Whatever the sizes of the buffer the program starts with, a line that      *)
(* getline returns is the next line of the file with its newline, or what     *)
(* there is of it before the end of the file or before a read that fails, in  *)
(* a buffer that has room for the terminating zero.  No character is lost or  *)
(* read twice between two calls, until one returns -1 because the buffer      *)
(* cannot grow, or was not allocated: that one loses the part of one line     *)
(* that it has read, and no call loses anything at the end of the file or     *)
(* when a read fails.  Excepted are files with a character 255.               *)
LinesExact ==
  /\ state.f = "getline"
  /\ \A i \in 1..Len(state.text) : state.text[i] # 255
  =>
    /\ state.text = state.got \o state.lost \o state.rest
    /\ \A i \in 1..(Len(state.lost) - 1) : state.lost[i] # NEWLINE
    /\ state.error = "none" => state.lost = <<>>
    /\ state.returned > 0 =>
         /\ state.returned + 1 <= state.n
         /\ \A i \in 1..(state.returned - 1) : state.line[i] # NEWLINE
         /\ \/ state.line[state.returned] = NEWLINE
            \/ state.rest = <<>>
            \/ state.ferror

(* The vector holds the reserved slots, then every path found since it was    *)
(* started, in order, and the NULL that ends it at the end of its block.      *)
VectorHoldsPaths ==
  state.f = "glob" /\ state.pathv # <<>> =>
    state.pathv = [i \in 1..state.offs |-> "NULL"] \o state.paths \o <<"NULL">>

(* What getenv returns is NULL, a string of the program or a string that      *)
(* ends: at or after the offset that it points to there is a byte of          *)
(* __fc_env_strings that every call leaves zero, whatever was made unknown    *)
(* since the entry was set.                                                   *)
EnvironmentTerminated ==
  state.f = "env" /\ state.string \in Offsets =>
    \E i \in state.zeros : i >= state.string

(* getaddrinfo meets its contract, whose behaviors are complete and disjoint. *)
(* On success *res is a list of one block allocated by this call, with an     *)
(* address of the family it names; on an error, the failure of either         *)
(* allocation included, *res is what it was, so that a program may go on      *)
(* using an earlier answer.  errno is set only for EAI_SYSTEM.                *)
AddressesUsable ==
  state.f = "netdb" /\ last # <<>> /\ last[1].f = "getaddrinfo" =>
    LET c == getaddrinfo_contract(last[1].nodename, last[1].servname)
        fresh == /\ state.res.block > last[1].blocks
                 /\ state.res.block <= state.blocks
                 /\ state.res.addr # NULL /\ state.res.next = NULL
                 /\ state.res.family = state.res.sa_family
    IN  /\ ClaimsTrue(c)
        /\ Obeyed(c, <<state.returned, fresh>>)
        /\ state.returned # "0" => state.res = last[1].res

(* The host that gethostbyname returned last holds the name it was asked for, *)
(* cut to the buffer and ended by a zero, and its address; lookups that fail  *)
(* later leave it alone.  The address of a name that counts as numeric is     *)
(* never INADDR_NONE; that of any other name may be.                          *)
HostIntact ==
  state.f = "netdb" /\ state.host.name # NULL =>
    LET name == state.found.name
        n == IF Len(name) < __FC_HOSTBUF_SIZE THEN Len(name) ELSE __FC_HOSTBUF_SIZE - 1
    IN  /\ \A i \in 1..n : state.host.hostbuf[i - 1] = name[i]
        /\ state.host.hostbuf[n] = 0
        /\ state.host.host_addr = state.found.addr
        /\ Numeric(name) => state.found.addr # INADDR_NONE
        /\ state.host.addr_ptrs[2] = NULL /\ state.host.aliases[1] = NULL
===============================================================================
