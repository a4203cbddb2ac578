------------------------------ MODULE LibcCalls -------------------------------
(* Every call of string.c and wchar.c, on every block and with every argument *)
(* in the bounds, that meets the requires clauses of string.h and wchar.h.    *)
(* The call is chosen in the initial state and made by one step; the         *)
(* properties compare what the function did with the ensures and assigns      *)
(* clauses and with what a string function is for.                            *)
EXTENDS LibcString

CONSTANTS
  Letters,  \* characters of the blocks that are compared and searched
  Contents, \* those of the others, where only the zero counts
  Cases,    \* characters of the blocks compared without regard to case
  Chars,    \* int arguments that stand for a character
  Size      \* the addresses of a block are 1..Size

VARIABLES
  call,     \* the function called with its arguments and the memory
  result    \* << >>, or the value returned and the memory left by the call

vars == <<call, result>>

Addr == 1..Size
Block == [Addr -> Letters]
Written == [Addr -> Contents]

requires(c) ==
  CASE c.f = "memcpy" -> requires_memcpy(c.mem, c.p, c.q, c.n)
    [] c.f = "wmemcpy" -> requires_wmemcpy(c.mem, c.p, c.q, c.n)
    [] c.f = "memmove" -> requires_memmove(c.mem, c.p, c.q, c.n)
    [] c.f = "strncpy" -> requires_strncpy(c.mem, c.p, c.q, c.n)
    [] c.f = "wcsncpy" -> requires_wcsncpy(c.mem, c.p, c.q, c.n)
    [] c.f = "strncat" -> /\ requires_strncat(c.mem, c.p, c.q, c.n)
                          /\ restricted(c.mem, c.p, c.q, c.n)
    [] c.f = "wcsncat" -> requires_wcsncat(c.mem, c.p, c.q, c.n)
    [] c.f = "strcpy" -> requires_strcpy(c.mem, c.p, c.q)
    [] c.f = "wcscpy" -> requires_wcscpy(c.mem, c.p, c.q)
    [] c.f = "strcat" -> /\ requires_strcat(c.mem, c.p, c.q)
                         /\ restricted(c.mem, c.p, c.q, Size)
    [] c.f = "wcscat" -> requires_wcscat(c.mem, c.p, c.q)
    [] c.f = "memcmp" -> requires_memcmp(c.mem, c.p, c.q, c.n)
    [] c.f = "strncmp" -> requires_strncmp(c.mem, c.p, c.q, c.n)
    [] c.f \in {"strcmp", "strcasecmp", "strstr"} ->
         valid_string(c.mem, c.p) /\ valid_string(c.mem, c.q)
    [] c.f = "memset" -> requires_memset(c.mem, c.p, c.n)
    [] c.f = "wmemset" -> requires_wmemset(c.mem, c.p, c.n)
    [] c.f = "memchr" -> requires_memchr(c.mem, c.p, c.c, c.n)
    [] c.f = "memrchr" -> requires_memrchr(c.mem, c.p, c.n)
    [] c.f \in {"strlen", "strchr", "strrchr", "strdup"} -> valid_string(c.mem, c.p)
    [] c.f = "wcslen" -> valid_wstring(c.mem, c.p)
    [] c.f \in {"strnlen", "strndup"} -> valid_read_nstring(c.mem, c.p, c.n)

(* Functions by the arguments they take. *)
Copying == {"memcpy", "memmove", "strncpy", "strncat", "wmemcpy", "wcsncpy", "wcsncat"}
Bounded == {"memcmp", "strncmp"}
Joining == {"strcpy", "strcat", "wcscpy", "wcscat"}
Paired == {"strcmp", "strstr"}
Filling == {"memset", "wmemset"}
OfChar == {"memchr", "memrchr"}
Scanned == {"strchr", "strrchr"}
Single == {"strlen", "wcslen", "strdup"}
Limited == {"strnlen", "strndup"}
Allocations(f) == IF f \in {"strdup", "strndup"} THEN BOOLEAN ELSE {TRUE}

(* A call of f on the block M that meets the contract. *)
Calling(f, M, p, q, c, n, allocable) ==
  /\ call = [f |-> f, mem |-> M, p |-> p, q |-> q, c |-> c, n |-> n,
             allocable |-> allocable]
  /\ requires(call)

Init ==
  /\ result = <<>>
  /\ \E p \in Addr :
       \/ \E M \in Block :
            \/ \E f \in Bounded, q \in Addr, n \in 0..Size : Calling(f, M, p, q, 0, n, TRUE)
            \/ \E f \in Paired, q \in Addr : Calling(f, M, p, q, 0, 0, TRUE)
            \/ \E f \in OfChar, c \in Chars, n \in 0..Size : Calling(f, M, p, 0, c, n, TRUE)
            \/ \E f \in Scanned, c \in Chars : Calling(f, M, p, 0, c, 0, TRUE)
       \/ \E M \in Written :
            \/ \E f \in Copying, q \in Addr, n \in 0..Size : Calling(f, M, p, q, 0, n, TRUE)
            \/ \E f \in Joining, q \in Addr : Calling(f, M, p, q, 0, 0, TRUE)
            \/ \E f \in Filling, c \in Chars, n \in 0..Size : Calling(f, M, p, 0, c, n, TRUE)
            \/ \E f \in Single : \E a \in Allocations(f) : Calling(f, M, p, 0, 0, 0, a)
            \/ \E f \in Limited, n \in 0..Size : \E a \in Allocations(f) :
                 Calling(f, M, p, 0, 0, n, a)
       \/ \E M \in [Addr -> Cases], q \in Addr :
            Calling("strcasecmp", M, p, q, 0, 0, TRUE)

Wrote(mem) == result' = <<[mem |-> mem, res |-> call.p]>>
Returned(res) == result' = <<[mem |-> call.mem, res |-> res]>>
Called(f) == call.f = f /\ result = <<>> /\ UNCHANGED call

Copy ==
  LET M == call.mem  p == call.p  q == call.q  n == call.n
  IN  \/ Called("memcpy") /\ Wrote(memcpy(M, p, q, n))
      \/ Called("memmove") /\ Wrote(memmove(M, p, q, n))
      \/ Called("strcpy") /\ Wrote(strcpy(M, p, q))
      \/ Called("strncpy") /\ Wrote(strncpy(M, p, q, n))
      \/ Called("strcat") /\ Wrote(strcat(M, p, q))
      \/ Called("strncat") /\ Wrote(strncat(M, p, q, n))
      \/ Called("memset") /\ Wrote(memset(M, p, call.c, n))

Compare ==
  LET M == call.mem  p == call.p  q == call.q  n == call.n
  IN  \/ Called("memcmp") /\ Returned(memcmp(M, p, q, n))
      \/ Called("strcmp") /\ Returned(strcmp(M, p, q))
      \/ Called("strncmp") /\ Returned(strncmp(M, p, q, n))
      \/ Called("strcasecmp") /\ Returned(strcasecmp(M, p, q))

Search ==
  LET M == call.mem  p == call.p  c == call.c  n == call.n
  IN  \/ Called("strlen") /\ Returned(strlen(M, p))
      \/ Called("strnlen") /\ Returned(strnlen(M, p, n))
      \/ Called("strchr") /\ Returned(strchr(M, p, c))
      \/ Called("strrchr") /\ Returned(strrchr(M, p, c))
      \/ Called("memchr") /\ Returned(memchr(M, p, c, n))
      \/ Called("memrchr") /\ Returned(memrchr(M, p, c, n))
      \/ Called("strstr") /\ Returned(strstr(M, p, call.q))

(* malloc leaves any of the letters in the new block. *)
Duplicate ==
  \E junk \in Letters :
    \/ Called("strdup")
       /\ result' = <<strdup(call.mem, call.p, call.allocable, junk)>>
    \/ Called("strndup")
       /\ result' = <<strndup(call.mem, call.p, call.n, call.allocable, junk)>>

Wide ==
  LET M == call.mem  p == call.p  q == call.q  n == call.n
  IN  \/ Called("wmemcpy") /\ Wrote(wmemcpy(M, p, q, n))
      \/ Called("wmemset") /\ Wrote(wmemset(M, p, call.c, n))
      \/ Called("wcscpy") /\ Wrote(wcscpy(M, p, q))
      \/ Called("wcslen") /\ Returned(wcslen(M, p))
      \/ Called("wcsncpy") /\ Wrote(wcsncpy(M, p, q, n))
      \/ Called("wcscat") /\ Wrote(wcscat(M, p, q))
      \/ Called("wcsncat") /\ Wrote(wcsncat(M, p, q, n))

Next == Copy \/ Compare \/ Search \/ Duplicate \/ Wide

Spec == Init /\ [][Next]_vars

Done(F) == call.f \in F /\ result # <<>>
After == result[1]

-------------------------------------------------------------------------------
(* The functions of string.c that write leave behind what the ensures        *)
(* clauses of string.h say and touch nothing outside their assigns clauses,  *)
(* for overlapping moves, strings that just fit and n = 0 alike.             *)
CopiesMeetContracts ==
  LET M == call.mem  N == After.mem  p == call.p  q == call.q  n == call.n
  IN  /\ Done({"memcpy", "memmove"}) => ensures_memcpy(M, N, p, q, n)
      /\ Done({"strcpy"}) => ensures_strcpy(M, N, p, q)
      /\ Done({"strncpy"}) => ensures_strncpy(M, N, p, q, n)
      /\ Done({"strcat"}) => ensures_strcat(M, N, p, q)
      /\ Done({"strncat"}) => ensures_strncat(M, N, p, q, n)
      /\ Done({"memset"}) /\ call.c \in 0..127 => ensures_memset(M, N, p, call.c, n)

(* strncpy and wcsncpy leave nothing of the old contents of dest after the   *)
(* end of the string they copy: the rest of the n cells is zero.             *)
CopiesPadded ==
  LET N == After.mem  p == call.p  n == call.n
  IN  Done({"strncpy", "wcsncpy"}) =>
        \A i, j \in 0..(n - 1) : i <= j /\ N[p + i] = 0 => N[p + j] = 0

(* A comparison returns 0 exactly for equal arguments and its sign changes   *)
(* when the arguments are exchanged.                                         *)
ComparisonsMeetContracts ==
  LET M == call.mem  p == call.p  q == call.q  n == call.n  res == After.res
  IN  /\ Done({"memcmp"}) => /\ ensures_memcmp(M, p, q, n, res)
                             /\ memcmp(M, q, p, n) = -res
      /\ Done({"strcmp"}) => /\ ensures_strcmp(M, p, q, res)
                             /\ strcmp(M, q, p) = -res
      /\ Done({"strncmp"}) => /\ ensures_strncmp(M, p, q, n, res)
                              /\ strncmp(M, q, p, n) = -res
      /\ Done({"strcasecmp"}) => strcasecmp(M, q, p) = -res

(* strlen and the searches return what string.h says: the first, or for      *)
(* strrchr some, occurrence, NULL if there is none, and the terminating zero *)
(* counts.  The contracts of memchr and strrchr compare a char with an int,  *)
(* so they are read for characters below 128.                                *)
SearchesMeetContracts ==
  LET M == call.mem  p == call.p  c == call.c  n == call.n  res == After.res
  IN  /\ Done({"strlen"}) => ensures_strlen(M, p, res)
      /\ Done({"strnlen"}) => ensures_strnlen(M, p, n, res)
      /\ Done({"strchr"}) => ensures_strchr(M, p, c, res)
      /\ Done({"strrchr"}) /\ c \in 0..127 => ensures_strrchr(M, p, c, res)
      /\ Done({"memchr"}) /\ c \in 0..127 => ensures_memchr(M, p, c, n, res)
      /\ Done({"strstr"}) => ensures_strstr(M, p, call.q, res)

(* A search that finds nothing was for something that is not there, and what *)
(* it finds is the first occurrence, or the last one for strrchr and memrchr. *)
SearchesExact ==
  LET M == call.mem  p == call.p  n == call.n  res == After.res
      cells == p..(p + n - 1)
      string == p..(p + logic_strlen(M, p))
      OnlyOne(found) ==
        IF found = {} THEN {NULL}
        ELSE {IF call.f \in {"strrchr", "memrchr"}
              THEN CHOOSE a \in found : \A b \in found : b <= a
              ELSE CHOOSE a \in found : \A b \in found : a <= b}
      same == {a \in DOMAIN M : M[a] = call.c % UCHAR}
      needles == {a \in string :
                    LET k == logic_strlen(M, call.q)
                    IN  a + k \in string /\ memcmp_zero(M, M, a, call.q, k)}
  IN  /\ Done({"memchr", "memrchr"}) => res \in OnlyOne(cells \cap same)
      /\ Done({"strchr", "strrchr"}) => res \in OnlyOne(string \cap same)
      /\ Done({"strstr"}) => res \in OnlyOne(needles)

(* strdup and strndup return a fresh, terminated copy that fits the block    *)
(* they allocate whatever malloc left there, and NULL when there is none.    *)
DuplicatesMeetContracts ==
  LET M == call.mem  N == After.mem  p == call.p  res == After.res
  IN  /\ Done({"strdup"}) => ensures_strdup(M, N, p, call.allocable, res)
      /\ Done({"strndup"}) => ensures_strndup(M, N, p, call.n, call.allocable, res)

(* The k characters at d after the call are those at s before it. *)
Copied(d, s, k) == \A i \in 0..(k - 1) : After.mem[d + i] = call.mem[s + i]

(* The wide functions assign no cell outside the assigns clauses of wchar.h,  *)
(* and copy the wide characters they are asked to, with the zero that ends    *)
(* them; wcsncpy and wcsncat those before n, and wcsncat a zero after them.   *)
WideMeetContracts ==
  LET M == call.mem  N == After.mem  p == call.p  q == call.q  n == call.n
      len == logic_wcslen(M, q)
      end == p + logic_wcslen(M, p)
  IN  /\ Done({"wmemcpy"}) => ensures_wmemcpy(M, N, p, n) /\ Copied(p, q, n)
      /\ Done({"wmemset"}) => ensures_wmemset(M, N, p, call.c, n)
      /\ Done({"wcscpy"}) => ensures_wcscpy(M, N, p, q) /\ Copied(p, q, len + 1)
      /\ Done({"wcsncpy"}) => /\ ensures_wcsncpy(M, N, p, q, n)
                              /\ Copied(p, q, IF n <= len THEN n ELSE len + 1)
      /\ Done({"wcscat"}) => ensures_wcscat(M, N, p) /\ Copied(end, q, len + 1)
      /\ Done({"wcsncat"}) => /\ ensures_wcscat(M, N, p)
                              /\ IF n <= len
                                 THEN Copied(end, q, n) /\ N[end + n] = 0
                                 ELSE Copied(end, q, len + 1)
      /\ Done({"wcslen"}) => ensures_wcslen(M, p, After.res)

(* The axioms by which proofs about strings are made are true of what strlen *)
(* and memcmp compute on strings that end inside their block.                *)
AxiomsHold ==
  LET M == call.mem
      len == [a \in {b \in DOMAIN M : valid_string(M, b)} |-> strlen(M, a)]
  IN  /\ Done({"strlen"}) => StrLen_axioms(M, call.p, len)
      /\ Done({"wcslen"}) => WcsLen_axioms(M, call.p, len)
      /\ Done({"memcmp"}) /\ After.res = 0 /\ {call.p, call.q} \subseteq DOMAIN len =>
           memcmp_strlen(call.p, call.q, call.n, len)
===============================================================================
