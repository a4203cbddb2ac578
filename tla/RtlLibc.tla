------------------------------- MODULE RtlLibc --------------------------------
(* The checked replacements of the string functions in the E-ACSL runtime     *)
(* (e_acsl_libc_replacements.h) and its string helpers (e_acsl_string.h).     *)
(* A replacement asks the memory model, here the record of blocks that        *)
(* MemorySpec keeps, whether the call is legal, aborts if not and otherwise   *)
(* calls the libc function.  Sizes and addresses are words: sums wrap, and a  *)
(* size_t above the largest long is a negative long.                          *)
EXTENDS LibcString

CONSTANTS
  Layouts,      \* sets of blocks <<base, length, readonly>>, pairwise apart
  Letters,      \* characters in the blocks
  MaxAddr,      \* pointers are 1..MaxAddr, in a block or not
  SIZE_MAX,     \* the largest size_t and uintptr_t, well above MaxAddr
  WCHAR,        \* size of a wide character
  ZERO_BLOCK_SIZE

VARIABLES call, result

Cells(blocks) == UNION {b[1]..(b[1] + b[2] - 1) : b \in blocks}
Holds(b, a) == a \in b[1]..(b[1] + b[2] - 1)

-------------------------------------------------------------------------------
size_t(k) == k % (SIZE_MAX + 1)
long(n) == IF n > SIZE_MAX \div 2 THEN n - (SIZE_MAX + 1) ELSE n

(* The queries of the memory model.  These are those of the segment model,    *)
(* which adds the offset to the size, both unsigned; the bittree model        *)
(* compares the size with what is left of the block, where nothing wraps.     *)
allocated(B, addr, size) ==
  \E b \in B : Holds(b, addr) /\ size_t(addr - b[1] + size) <= b[2]
readonly(B, addr) == \E b \in B : Holds(b, addr) /\ b[3]
writeable(B, addr, size) == allocated(B, addr, size) /\ ~readonly(B, addr)
left_in_block(B, s) ==
  LET b == CHOOSE x \in B : Holds(x, s) IN b[1] + b[2] - s

valid_nstring(B, M, s, n, wrtbl) ==
  IF n = 0 THEN 0
  ELSE IF ~allocated(B, s, 1) THEN -1
  ELSE IF wrtbl /\ readonly(B, s) THEN -2
  ELSE LET size == left_in_block(B, s)
           i == Until(LAMBDA j : j >= size \/ M[s + j] = 0 \/ j = n, 0)
       IN  IF i < size THEN i
           ELSE IF n = size THEN n
           ELSE IF n > size THEN -3
           ELSE -4

(* s[j] of a wide string is the WCHAR cells from s + j * WCHAR on. *)
valid_nwstring(B, M, s, n, wrtbl) ==
  LET Zero(j) == \A k \in 0..(WCHAR - 1) : M[s + j * WCHAR + k] = 0
  IN  IF n = 0 THEN 0
      ELSE IF ~allocated(B, s, 1) THEN -1
      ELSE IF wrtbl /\ readonly(B, s) THEN -2
      ELSE LET size == left_in_block(B, s) \div WCHAR
               i == Until(LAMBDA j : j >= size \/ Zero(j) \/ j = n, 0)
           IN  IF i < size THEN i
               ELSE IF n = size THEN n
               ELSE IF n > size THEN -3
               ELSE -4

valid_string_len(B, M, s) == valid_nstring(B, M, s, -1, FALSE)

(* The validate_ functions abort when these do not hold. *)
validate_string(size) == size >= 0
disjoint_spaces(s1, n1, s2, n2) == size_t(s1 + n1) <= s2 \/ size_t(s2 + n2) <= s1

-------------------------------------------------------------------------------
(* accepts_f: the checks of builtin_f before it calls f. *)
accepts_strlen(B, M, s) == validate_string(valid_string_len(B, M, s))

accepts_strcpy(B, M, dest, src) ==
  LET size == valid_string_len(B, M, src)
  IN  /\ validate_string(size)
      /\ writeable(B, dest, size + 1)
      /\ disjoint_spaces(dest, size + 1, src, size + 1)

accepts_strncpy(B, M, dest, src, n) ==
  /\ validate_string(valid_nstring(B, M, src, long(n), FALSE))
  /\ writeable(B, dest, n)
  /\ disjoint_spaces(dest, n, src, n)

accepts_strcmp(B, M, s1, s2) ==
  /\ validate_string(valid_string_len(B, M, s1))
  /\ validate_string(valid_string_len(B, M, s2))

accepts_strncmp(B, M, s1, s2, n) ==
  /\ validate_string(valid_nstring(B, M, s1, long(n), FALSE))
  /\ validate_string(valid_nstring(B, M, s2, long(n), FALSE))

accepts_strcat(B, M, dest, src) ==
  LET src_sz == valid_string_len(B, M, src)
      dest_sz == valid_nstring(B, M, dest, -1, TRUE)
  IN  /\ validate_string(src_sz) /\ validate_string(dest_sz)
      /\ left_in_block(B, dest) >= src_sz + dest_sz + 1
      /\ disjoint_spaces(src, src_sz + 1, dest, dest_sz + 1)

accepts_strncat(B, M, dest, src, n) ==
  LET dest_sz == valid_nstring(B, M, dest, -1, TRUE)
  IN  /\ validate_string(valid_nstring(B, M, src, long(n), FALSE))
      /\ validate_string(dest_sz)
      /\ left_in_block(B, dest) >= size_t(n + dest_sz + 1)
      /\ disjoint_spaces(src, n, dest, dest_sz)

accepts_memcpy(B, dest, src, n) ==
  allocated(B, src, n) /\ writeable(B, dest, n) /\ disjoint_spaces(src, n, dest, n)

accepts_memset(B, s, n) == writeable(B, s, n)

accepts_memcmp(B, s1, s2, n) ==
  allocated(B, s1, n) /\ allocated(B, s2, n) /\ disjoint_spaces(s1, n, s2, n)

(* Wrong: memmove is checked like memcpy. *)
MoveLikeCopy(B, dest, src, n) ==
  allocated(B, src, n) /\ writeable(B, dest, n) /\ disjoint_spaces(src, n, dest, n)

accepts_memmove(B, dest, src, n) == allocated(B, src, n) /\ writeable(B, dest, n)

accepts(c) ==
  LET B == c.blocks  M == c.mem  p == c.p  q == c.q  n == c.n
  IN  CASE c.f = "builtin_strlen" -> accepts_strlen(B, M, p)
        [] c.f = "builtin_strcpy" -> accepts_strcpy(B, M, p, q)
        [] c.f = "builtin_strncpy" -> accepts_strncpy(B, M, p, q, n)
        [] c.f = "builtin_strcmp" -> accepts_strcmp(B, M, p, q)
        [] c.f = "builtin_strncmp" -> accepts_strncmp(B, M, p, q, n)
        [] c.f = "builtin_strcat" -> accepts_strcat(B, M, p, q)
        [] c.f = "builtin_strncat" -> accepts_strncat(B, M, p, q, n)
        [] c.f = "builtin_memcpy" -> accepts_memcpy(B, p, q, n)
        [] c.f = "builtin_memset" -> accepts_memset(B, p, n)
        [] c.f = "builtin_memcmp" -> accepts_memcmp(B, p, q, n)
        [] c.f = "builtin_memmove" -> accepts_memmove(B, p, q, n)

(* The contract of string.h of the function that is replaced.  For strncpy    *)
(* the source is what the C standard asks for, n characters or a string.      *)
requires(c) ==
  LET M == c.mem  p == c.p  q == c.q  n == c.n
  IN  CASE c.f = "builtin_strlen" -> valid_string(M, p)
        [] c.f = "builtin_strcpy" -> requires_strcpy(M, p, q)
        [] c.f = "builtin_strncpy" -> /\ valid_read_nstring(M, q, n)
                                      /\ valid(M, p, n) /\ separated(p, n, q, n)
        [] c.f = "builtin_strcmp" -> valid_string(M, p) /\ valid_string(M, q)
        [] c.f = "builtin_strncmp" -> requires_strncmp(M, p, q, n)
        [] c.f = "builtin_strcat" -> requires_strcat(M, p, q)
        [] c.f = "builtin_strncat" -> requires_strncat(M, p, q, n)
        [] c.f = "builtin_memcpy" -> requires_memcpy(M, p, q, n)
        [] c.f = "builtin_memset" -> requires_memset(M, p, n)
        [] c.f = "builtin_memcmp" -> requires_memcmp(M, p, q, n)
        [] c.f = "builtin_memmove" -> requires_memmove(M, p, q, n)

-------------------------------------------------------------------------------
(* e_acsl_string.h.  A string is a sequence of characters, <<>> in a tuple    *)
(* of none or one for a pointer that may be NULL.                             *)
nstrcat(dest, src) == dest \o src

(* room: the allocation succeeds. *)
nstrdup(s, room) == IF room THEN s ELSE <<>>

(* len is the size of the block that holds the result; the result of          *)
(* realloc is not tested, and nstrcat faults on NULL.                         *)
sappend(dest, src, delim, room) ==
  IF src = <<>>
  THEN [str |-> dest, len |-> IF dest = <<>> THEN 0 ELSE Len(dest[1]) + 1, faults |-> FALSE]
  ELSE IF dest = <<>>
  THEN [str |-> nstrdup(src, room), len |-> Len(src[1]) + 1, faults |-> FALSE]
  ELSE IF ~room THEN [str |-> <<>>, len |-> 0, faults |-> TRUE]
  ELSE LET ldelim == IF delim = <<>> THEN 0 ELSE Len(delim[1])
           len == Len(src[1]) + Len(dest[1]) + 1 + ldelim
           joined == IF ldelim = 0 THEN dest[1] ELSE nstrcat(dest[1], delim[1])
       IN  [str |-> <<nstrcat(joined, src[1])>>, len |-> len, faults |-> FALSE]

endswith(M, str, pat) ==
  LET slen == strlen(M, str)
      plen == strlen(M, pat)
  IN  IF slen >= plen THEN strncmp(M, str + slen - plen, pat, plen) ELSE 1

(* memcmp with the block of zeros, which has ZERO_BLOCK_SIZE bytes. *)
same_as_zeroblock(M, p, n) == \A i \in 0..(n - 1) : M[p + i] = 0

zeroed_out(M, p, size) ==
  LET lim == size \div ZERO_BLOCK_SIZE
      rem == size % ZERO_BLOCK_SIZE
  IN  /\ \A i \in 0..(lim - 1) :
           same_as_zeroblock(M, p + i * ZERO_BLOCK_SIZE, ZERO_BLOCK_SIZE)
      /\ same_as_zeroblock(M, p + lim * ZERO_BLOCK_SIZE, rem)

charcount(M, s, c) ==
  LET RECURSIVE count(_, _)
      count(a, k) == LET at == strchr(M, a, c)
                     IN  IF at = NULL THEN k ELSE count(at + 1, k + 1)
  IN  count(s, 0)

-------------------------------------------------------------------------------
(* Every call on every layout and memory in the bounds.                       *)
Addr == 1..MaxAddr
Bound == 0..MaxAddr

(* The sizes that are positive, or negative, as a long, and wrap or do not    *)
(* when an offset is added.                                                   *)
Large == {SIZE_MAX \div 2, SIZE_MAX \div 2 + 1, SIZE_MAX - MaxAddr, SIZE_MAX}

(* A layout with the contents of its blocks. *)
Memories == UNION {{<<B, M>> : M \in [Cells(B) -> Letters]} : B \in Layouts}

Texts == UNION {[1..k -> Letters \ {0}] : k \in 0..2}
Optional == {<<>>} \cup {<<t>> : t \in Texts}

Calling(F, Q, N, W) ==
  \E f \in F, m \in Memories, p \in Addr, q \in Q, n \in N, w \in W :
    call = [f |-> f, blocks |-> m[1], mem |-> m[2], p |-> p, q |-> q, n |-> n, wrtbl |-> w]

Init ==
  /\ result = <<>>
  /\ \/ Calling({"valid_nstring", "valid_nwstring"}, {0},
                Bound \cup {long(n) : n \in Large}, BOOLEAN)
     \/ Calling({"builtin_strlen"}, {0}, {0}, {FALSE})
     \/ Calling({"builtin_memset"}, {0}, Bound \cup Large, {FALSE})
     \/ Calling({"builtin_strcpy", "builtin_strcmp", "builtin_strcat"},
                Addr, {0}, {FALSE})
     \/ Calling({"builtin_strncpy", "builtin_strncmp", "builtin_strncat",
                 "builtin_memcpy", "builtin_memcmp", "builtin_memmove"},
                Addr, Bound \cup Large, {FALSE})
     \/ /\ Calling({"endswith"}, Addr, {0}, {FALSE})
        /\ valid_string(call.mem, call.p) /\ valid_string(call.mem, call.q)
     \/ /\ Calling({"zeroed_out"}, {0}, Bound, {FALSE})
        /\ valid(call.mem, call.p, call.n)
     \/ /\ Calling({"charcount"}, Letters \ {0}, {0}, {FALSE})
        /\ valid_string(call.mem, call.p)
     \/ call \in [f : {"sappend"}, dest : Optional, src : Optional, delim : Optional,
                  room : BOOLEAN]

Called(f) == call.f = f /\ result = <<>> /\ UNCHANGED call
Returned(r) == result' = <<r>>

(* What C defines: the contract holds, and strcat and strncat, which have no  *)
(* clause for it, do not write what they read.                                *)
defined(c) ==
  /\ requires(c)
  /\ c.f = "builtin_strcat" => restricted(c.mem, c.p, c.q, MaxAddr)
  /\ c.f = "builtin_strncat" => restricted(c.mem, c.p, c.q, c.n)

(* The replacement aborts, or the libc function is called; the memory after a *)
(* call that is not defined is left as it was, and nothing is said of it.     *)
Replaced(after) ==
  Returned([aborts |-> ~accepts(call),
            mem |-> IF accepts(call) /\ defined(call) THEN after ELSE call.mem])

Validate ==
  \/ /\ Called("valid_nstring")
     /\ Returned(valid_nstring(call.blocks, call.mem, call.p, call.n, call.wrtbl))
  \/ /\ Called("valid_nwstring")
     /\ Returned(valid_nwstring(call.blocks, call.mem, call.p, call.n, call.wrtbl))

Replacement ==
  LET M == call.mem  p == call.p  q == call.q  n == call.n
  IN  \/ \E f \in {"builtin_strlen", "builtin_strcmp", "builtin_strncmp",
                   "builtin_memcmp"} : Called(f) /\ Replaced(M)
      \/ Called("builtin_strcpy") /\ Replaced(strcpy(M, p, q))
      \/ Called("builtin_strncpy") /\ Replaced(strncpy(M, p, q, n))
      \/ Called("builtin_strcat") /\ Replaced(strcat(M, p, q))
      \/ Called("builtin_strncat") /\ Replaced(strncat(M, p, q, n))
      \/ Called("builtin_memcpy") /\ Replaced(memcpy(M, p, q, n))
      \/ Called("builtin_memset") /\ Replaced(memset(M, p, 0, n))
      \/ Called("builtin_memmove") /\ Replaced(memmove(M, p, q, n))

Helper ==
  \/ Called("endswith") /\ Returned(endswith(call.mem, call.p, call.q))
  \/ Called("zeroed_out") /\ Returned(zeroed_out(call.mem, call.p, call.n))
  \/ Called("charcount") /\ Returned(charcount(call.mem, call.p, call.q))
  \/ Called("sappend") /\ Returned(sappend(call.dest, call.src, call.delim, call.room))

Next == Validate \/ Replacement \/ Helper

Spec == Init /\ [][Next]_<<call, result>>

Done(F) == call.f \in F /\ result # <<>>

-------------------------------------------------------------------------------
(* valid_nstring and valid_nwstring return the code their comment gives for   *)
(* each way in which a pointer is, or is not, a string of at most n           *)
(* characters, for n negative, positive, at and beyond the end of the block.  *)
(* For n = 0, of which the comment says nothing, every pointer is an empty    *)
(* string, those that the comment gives -1 or -2 included.                    *)
NstringMeetsDoc ==
  Done({"valid_nstring", "valid_nwstring"}) =>
    LET B == call.blocks  M == call.mem  s == call.p  n == call.n  r == result[1]
        w == IF call.f = "valid_nstring" THEN 1 ELSE WCHAR
        owner == {b \in B : Holds(b, s)}
        len == (CHOOSE k \in 0..MaxAddr : \E b \in owner : k = b[1] + b[2] - s) \div w
        zeros == {i \in 0..(len - 1) : \A k \in 0..(w - 1) : M[s + i * w + k] = 0}
        ends == {i \in zeros : n < 0 \/ i < n}
    IN  IF n = 0 THEN r = 0
        ELSE IF owner = {} THEN r = -1
        ELSE IF call.wrtbl /\ \E b \in owner : b[3] THEN r = -2
        ELSE IF ends # {} THEN r \in ends /\ \A i \in ends : r <= i
        ELSE IF n < 0 THEN r = -4
        ELSE IF n <= len THEN r = n
        ELSE r = -3

Replacements == {"builtin_strlen", "builtin_strcpy", "builtin_strncpy",
  "builtin_strcmp", "builtin_strncmp", "builtin_strcat", "builtin_strncat",
  "builtin_memcpy", "builtin_memset", "builtin_memcmp", "builtin_memmove"}
Writers == Replacements \ {"builtin_strlen", "builtin_strcmp", "builtin_strncmp",
                           "builtin_memcmp"}

(* The clause \valid(dest) of the functions that write: dest is not in a      *)
(* read-only block.                                                           *)
permitted(c) == c.f \in Writers => ~readonly(c.blocks, c.p)

(* A size so large that the check of the destination wraps: n with the length *)
(* of dest and the zero in strncat, with the offset of dest in the others.    *)
wraps(c) ==
  IF c.f = "builtin_strncat"
  THEN c.n + logic_strlen(c.mem, c.p) + 1 > SIZE_MAX
  ELSE \E b \in c.blocks : Holds(b, c.p) /\ c.p - b[1] + c.n > SIZE_MAX

(* A replacement lets a call through only if the contract of string.h allows  *)
(* it, and the call then leaves every read-only block as it was, unless the   *)
(* size wraps: then a call may be let through that does not fit.  That a      *)
(* strcat overwrites a source that follows dest in its block, which only the  *)
(* prototype excludes, is not checked either.                                 *)
ReplacementsSafe ==
  Done(Replacements) /\ ~result[1].aborts /\ ~wraps(call) =>
    /\ requires(call) /\ permitted(call)
    /\ \A a \in DOMAIN call.mem :
         readonly(call.blocks, a) => result[1].mem[a] = call.mem[a]

(* A call that a replacement aborts breaks the contract of string.h, but for  *)
(* the calls the checks refuse out of caution: memcmp of overlapping areas,   *)
(* strcat of overlapping strings, and strncpy and strncat of nothing or of a  *)
(* source shorter than n.                                                     *)
ReplacementsPrecise ==
  Done(Replacements) /\ result[1].aborts =>
    \/ ~requires(call) \/ ~permitted(call)
    \/ call.f = "builtin_memcmp" /\ ~separated(call.p, call.n, call.q, call.n)
    \/ /\ call.f \in {"builtin_strncpy", "builtin_strncat"}
       /\ call.n = 0 \/ logic_strlen(call.mem, call.q) \in 0..(call.n - 1)
    \/ /\ call.f \in {"builtin_strcat", "builtin_strncat"}
       /\ LET read == IF call.f = "builtin_strcat" THEN logic_strlen(call.mem, call.q) + 1
                      ELSE call.n
          IN  ~separated(call.q, read, call.p, logic_strlen(call.mem, call.p) + 1)

(* endswith, zeroed_out, charcount and sappend compute what their comments    *)
(* say, and what sappend builds fits the block it reallocates, terminator     *)
(* included.  Without memory a copy is NULL, and a string that exists already *)
(* is not extended: sappend faults.                                           *)
HelpersExact ==
  LET r == result[1]
      Text(M, s) == [i \in 1..strlen(M, s) |-> M[s + i - 1]]
      Value(t) == IF t = <<>> THEN <<>> ELSE t[1]
  IN  /\ Done({"endswith"}) =>
           LET s == Text(call.mem, call.p)  pat == Text(call.mem, call.q)
           IN  (r = 0) <=> \E k \in 0..Len(s) : s = SubSeq(s, 1, k) \o pat
      /\ Done({"zeroed_out"}) =>
           (r <=> \A i \in 0..(call.n - 1) : call.mem[call.p + i] = 0)
      /\ Done({"charcount"}) =>
           LET s == Text(call.mem, call.p)
           IN  r = Cardinality({i \in DOMAIN s : s[i] = call.q})
      /\ Done({"sappend"}) =>
           /\ r.faults <=> ~call.room /\ call.dest # <<>> /\ call.src # <<>>
           /\ call.room => (r.str = <<>> <=> call.dest = <<>> /\ call.src = <<>>)
           /\ r.str # <<>> =>
                /\ r.str[1] = Value(call.dest)
                     \o (IF call.dest # <<>> /\ call.src # <<>> THEN Value(call.delim) ELSE <<>>)
                     \o Value(call.src)
                /\ Len(r.str[1]) + 1 <= r.len
===============================================================================
