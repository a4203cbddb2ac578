------------------------------ MODULE LibcString ------------------------------
(* The implementations that Frama-C ships for string.h and wchar.h           *)
(* (share/libc/string.c, share/libc/wchar.c), as functions of a memory M.    *)
(* A memory maps the addresses of one block to its characters, bytes read as *)
(* unsigned char or wide characters; a pointer is an address.  Reading or    *)
(* writing an address outside the block is an error of the evaluation, so a  *)
(* call that is evaluated at all stays inside the block.  A function that    *)
(* writes returns the new memory; the pointer it returns is its argument     *)
(* dest or s.                                                                *)
EXTENDS Integers, Sequences, FiniteSets

NULL == -1
UCHAR == 256

(* The first j >= i at which the loop condition fails. *)
Until(Exit(_), i) ==
  LET RECURSIVE go(_)
      go(j) == IF Exit(j) THEN j ELSE go(j + 1)
  IN  go(i)

(* for (; i < n; i++) dest[i] = src[i]; *)
RECURSIVE CopyUp(_, _, _, _, _)
CopyUp(M, dest, src, i, n) ==
  IF i >= n THEN M
  ELSE CopyUp([M EXCEPT ![dest + i] = M[src + i]], dest, src, i + 1, n)

(* for (; i > 0; i--) dest[i] = src[i]; dest[0] = src[0]; *)
RECURSIVE CopyDown(_, _, _, _)
CopyDown(M, dest, src, i) ==
  LET moved == [M EXCEPT ![dest + i] = M[src + i]]
  IN  IF i = 0 THEN moved ELSE CopyDown(moved, dest, src, i - 1)

(* for (; i < n && src[i] != 0; i++) dest[i] = src[i]; dest[i] = 0; *)
RECURSIVE CopyString(_, _, _, _, _)
CopyString(M, dest, src, i, n) ==
  IF i >= n \/ M[src + i] = 0 THEN [M EXCEPT ![dest + i] = 0]
  ELSE CopyString([M EXCEPT ![dest + i] = M[src + i]], dest, src, i + 1, n)

(* for (; i < n; i++) dest[i] = c; *)
Fill(M, dest, i, n, c) ==
  [a \in DOMAIN M |-> IF a \in (dest + i)..(dest + n - 1) THEN c ELSE M[a]]

Unbounded(M) == Cardinality(DOMAIN M)

memcpy(M, dest, src, n) == CopyUp(M, dest, src, 0, n)

memoverlap(p, q, n) ==
  IF p <= q /\ p + n > q THEN -1
  ELSE IF q <= p /\ q + n > p THEN 1
  ELSE 0

(* Wrong: the overlapping move is copied upwards too. *)
AlwaysUp(M, dest, src, n) == CopyUp(M, dest, src, 0, n)

memmove(M, dest, src, n) ==
  IF n = 0 THEN M
  ELSE IF memoverlap(dest, src, n) <= 0 THEN CopyUp(M, dest, src, 0, n)
  ELSE CopyDown(M, dest, src, n - 1)

strlen(M, s) == Until(LAMBDA i : M[s + i] = 0, 0)

strnlen(M, s, maxlen) == Until(LAMBDA i : i >= maxlen \/ M[s + i] = 0, 0)

memset(M, s, c, n) == Fill(M, s, 0, n, c % UCHAR)

strcmp(M, s1, s2) ==
  LET i == Until(LAMBDA j : M[s1 + j] # M[s2 + j] \/ M[s1 + j] = 0, 0)
  IN  M[s1 + i] - M[s2 + i]

strncmp(M, s1, s2, n) ==
  LET i == Until(LAMBDA j : \/ j >= n
                            \/ M[s1 + j] # M[s2 + j]
                            \/ M[s1 + j] = 0, 0)
  IN  IF i >= n THEN 0 ELSE M[s1 + i] - M[s2 + i]

memcmp(M, s1, s2, n) ==
  LET i == Until(LAMBDA j : j >= n \/ M[s1 + j] # M[s2 + j], 0)
  IN  IF i >= n THEN 0 ELSE M[s1 + i] - M[s2 + i]

Lower(c) == IF c \in 65..90 THEN c + 32 ELSE c

char_equal_ignore_case(c1, c2) == Lower(c2) - Lower(c1)

strcasecmp(M, s1, s2) ==
  LET i == Until(LAMBDA j : \/ M[s1 + j] = 0
                            \/ M[s2 + j] = 0
                            \/ char_equal_ignore_case(M[s1 + j], M[s2 + j]) # 0, 0)
  IN  IF M[s1 + i] = 0 /\ M[s2 + i] = 0 THEN 0
      ELSE IF M[s1 + i] = 0 THEN -1
      ELSE IF M[s2 + i] = 0 THEN 1
      ELSE char_equal_ignore_case(M[s1 + i], M[s2 + i])

strcat(M, dest, src) ==
  CopyString(M, dest + strlen(M, dest), src, 0, Unbounded(M))

strncat(M, dest, src, n) == CopyString(M, dest + strlen(M, dest), src, 0, n)

strcpy(M, dest, src) == CopyString(M, dest, src, 0, Unbounded(M))

strncpy(M, dest, src, n) ==
  LET i == strnlen(M, src, n)
  IN  Fill(CopyUp(M, dest, src, 0, i), dest, i, n, 0)

strchr(M, s, c) ==
  LET i == Until(LAMBDA j : M[s + j] = c % UCHAR \/ M[s + j] = 0, 0)
  IN  IF M[s + i] = c % UCHAR THEN s + i ELSE NULL

(* The last of the n characters at s that is ch, searched from the end. *)
LastOf(M, s, ch, n) ==
  LET i == Until(LAMBDA j : j >= n \/ M[s + n - 1 - j] = ch, 0)
  IN  IF i >= n THEN NULL ELSE s + n - 1 - i

strrchr(M, s, c) == LastOf(M, s, c % UCHAR, strlen(M, s) + 1)

memchr(M, s, c, n) ==
  LET i == Until(LAMBDA j : j >= n \/ M[s + j] = c % UCHAR, 0)
  IN  IF i >= n THEN NULL ELSE s + i

memrchr(M, s, c, n) == LastOf(M, s, c % UCHAR, n)

strstr(M, haystack, needle) ==
  LET Differ(i) == Until(LAMBDA j : \/ M[haystack + i + j] = 0
                                    \/ M[haystack + i + j] # M[needle + j], 0)
      at == Until(LAMBDA i : M[haystack + i] = 0 \/ M[needle + Differ(i)] = 0, 0)
  IN  IF M[needle] = 0 THEN haystack
      ELSE IF M[haystack + at] = 0 THEN NULL
      ELSE haystack + at

(* The block that malloc gives to strdup and strndup: the addresses after    *)
(* those of M, with arbitrary contents; NULL leaves the memory as it is.     *)
Fresh(M, size, junk) ==
  LET base == 1 + CHOOSE a \in DOMAIN M : \A b \in DOMAIN M : b <= a
  IN  [base |-> base,
       mem |-> [a \in DOMAIN M \cup base..(base + size - 1) |->
                  IF a \in DOMAIN M THEN M[a] ELSE junk]]

strdup(M, s, allocable, junk) ==
  LET l == strlen(M, s) + 1
      p == Fresh(M, l, junk)
  IN  IF ~allocable THEN [mem |-> M, res |-> NULL]
      ELSE [mem |-> memcpy(p.mem, p.base, s, l), res |-> p.base]

strndup(M, s, n, allocable, junk) ==
  LET l == strnlen(M, s, n)
      p == Fresh(M, l + 1, junk)
  IN  IF ~allocable THEN [mem |-> M, res |-> NULL]
      ELSE [mem |-> [memcpy(p.mem, p.base, s, l) EXCEPT ![p.base + l] = 0],
            res |-> p.base]

wmemcpy(M, dest, src, n) == CopyUp(M, dest, src, 0, n)

wmemset(M, dest, val, len) == Fill(M, dest, 0, len, val)

wcscpy(M, dest, src) == CopyString(M, dest, src, 0, Unbounded(M))

wcslen(M, str) == Until(LAMBDA i : M[str + i] = 0, 0)

wcsncpy(M, dest, src, n) ==
  LET i == Until(LAMBDA j : j >= n \/ M[src + j] = 0, 0)
  IN  Fill(CopyUp(M, dest, src, 0, i), dest, i, n, 0)

wcscat(M, dest, src) ==
  CopyString(M, dest + wcslen(M, dest), src, 0, Unbounded(M))

wcsncat(M, dest, src, n) == CopyString(M, dest + wcslen(M, dest), src, 0, n)

-------------------------------------------------------------------------------
(* The ACSL contracts of string.h and wchar.h and the logic functions of     *)
(* __fc_string_axiomatic.h they are written with.  M is the memory before    *)
(* the call and N the memory after it.  requires_f is the precondition of f  *)
(* and ensures_f its postconditions together with its assigns clause.  The   *)
(* memory holds unsigned bytes; the logic functions read them as char, which *)
(* is signed in the default machdep.  Every cell of a block is initialised   *)
(* and none dangles, so the clauses on \initialized and \dangling hold.      *)

LOCAL null == -1

char(b) == IF b > 127 THEN b - 256 ELSE b

(* (char)c of an int c *)
to_char(c) == char(c % 256)

valid(M, s, len) == s..(s + len - 1) \subseteq DOMAIN M

(* p[0..m-1] and q[0..n-1] *)
separated(p, m, q, n) == (p..(p + m - 1)) \cap (q..(q + n - 1)) = {}

(* No block is empty here, so the first disjunct of the source is false. *)
valid_or_empty(M, s, n) == valid(M, s, 1) /\ valid(M, s, n)

valid_read_or_empty(M, s, n) == valid(M, s, 1) /\ valid(M, s + 1, n - 1)

assigns(M, N, cells) == \A a \in DOMAIN M \ cells : N[a] = M[a]

(* memcmp{L1,L2}(s1,s2,n) == 0 *)
memcmp_zero(L1, L2, s1, s2, n) == \A i \in 0..(n - 1) : L1[s1 + i] = L2[s2 + i]

(* The offsets below n of the bytes of the block that are c. *)
Offsets(M, s, c, n) == {i \in 0..(n - 1) : s + i \in DOMAIN M /\ char(M[s + i]) = c}

memchr_def(M, s, c, n) == Offsets(M, s, c, n) # {}

(* No axiom says which offset this is, if c appears twice, or if it does not. *)
memchr_off(M, s, c, n) ==
  IF memchr_def(M, s, c, n)
  THEN CHOOSE i \in Offsets(M, s, c, n) : \A j \in Offsets(M, s, c, n) : i <= j
  ELSE n

memset_def(M, s, c, n) == \A i \in 0..(n - 1) : char(M[s + i]) = c

(* The logic strlen.  It is some negative number when no zero follows s in   *)
(* its block: here one that no other address has, since the axioms make two  *)
(* unterminated strings of the same negative length equal.                   *)
logic_strlen(M, s) ==
  LET zeros == {a \in DOMAIN M : a >= s /\ M[a] = 0 /\ s..a \subseteq DOMAIN M}
  IN  IF zeros = {} THEN -s
      ELSE (CHOOSE a \in zeros : \A b \in zeros : a <= b) - s

strcmp_zero(L1, L2, s1, s2) ==
  LET n == logic_strlen(L1, s1)
  IN  n = logic_strlen(L2, s2) /\ memcmp_zero(L1, L2, s1, s2, n + 1)

strncmp_zero(L1, L2, s1, s2, n) ==
  \/ logic_strlen(L1, s1) < n /\ strcmp_zero(L1, L2, s1, s2)
  \/ /\ valid(L1, s1, n) /\ valid(L2, s2, n)
     /\ memcmp_zero(L1, L2, s1, s2, n)

strchr_def(M, s, c) ==
  \E i \in 0..logic_strlen(M, s) : char(M[s + i]) = to_char(c)

valid_string(M, s) ==
  LET n == logic_strlen(M, s) IN n >= 0 /\ valid(M, s, n + 1)

valid_read_nstring(M, s, n) == valid(M, s, n) \/ valid_string(M, s)

requires_memcmp(M, s1, s2, n) ==
  valid_read_or_empty(M, s1, n) /\ valid_read_or_empty(M, s2, n)

ensures_memcmp(M, s1, s2, n, res) == (res = 0) <=> memcmp_zero(M, M, s1, s2, n)

requires_memchr(M, s, c, n) ==
  \/ valid_read_or_empty(M, s, n)
  \/ s..(s + memchr_off(M, s, c, n)) \subseteq DOMAIN M

requires_memrchr(M, s, n) == valid_read_or_empty(M, s, n)

ensures_memchr(M, s, c, n, res) ==
  IF memchr_def(M, s, c, n)
  THEN /\ res \in DOMAIN M
       /\ char(M[res]) = c
       /\ \A i \in Offsets(M, s, c, n) : res <= s + i
  ELSE res = null

requires_memcpy(M, dest, src, n) ==
  /\ valid_or_empty(M, dest, n)
  /\ valid_read_or_empty(M, src, n)
  /\ separated(dest, n, src, n)

requires_memmove(M, dest, src, n) ==
  valid_or_empty(M, dest, n) /\ valid_read_or_empty(M, src, n)

ensures_memcpy(M, N, dest, src, n) ==
  /\ memcmp_zero(N, M, dest, src, n)
  /\ assigns(M, N, dest..(dest + n - 1))

requires_memset(M, s, n) == valid_or_empty(M, s, n)

ensures_memset(M, N, s, c, n) ==
  memset_def(N, s, c, n) /\ assigns(M, N, s..(s + n - 1))

ensures_strlen(M, s, res) == res = logic_strlen(M, s)

ensures_strnlen(M, s, n, res) == res = logic_strlen(M, s) \/ res = n

ensures_strcmp(M, s1, s2, res) == (res = 0) <=> strcmp_zero(M, M, s1, s2)

requires_strncmp(M, s1, s2, n) ==
  valid_read_nstring(M, s1, n) /\ valid_read_nstring(M, s2, n)

ensures_strncmp(M, s1, s2, n, res) ==
  (res = 0) <=> strncmp_zero(M, M, s1, s2, n)

ensures_strchr(M, s, c, res) ==
  IF strchr_def(M, s, c)
  THEN /\ res \in s..(s + logic_strlen(M, s))
       /\ char(M[res]) = to_char(c)
       /\ valid_string(M, res)
       /\ \A p \in s..(res - 1) : char(M[p]) # to_char(c)
  ELSE res = null

ensures_strrchr(M, s, c, res) ==
  IF strchr_def(M, s, c)
  THEN /\ res \in DOMAIN M
       /\ char(M[res]) = c
       /\ valid_string(M, res)
  ELSE res = null

ensures_strstr(M, haystack, needle, res) ==
  \/ res = null
  \/ /\ res \in DOMAIN M /\ res >= haystack
     /\ memcmp_zero(M, M, res, needle, logic_strlen(M, needle))

requires_strcpy(M, dest, src) ==
  LET n == logic_strlen(M, src) + 1
  IN  /\ valid_string(M, src)
      /\ valid(M, dest, n)
      /\ separated(dest, n, src, n)

ensures_strcpy(M, N, dest, src) ==
  /\ strcmp_zero(N, N, dest, src)
  /\ assigns(M, N, dest..(dest + logic_strlen(M, src)))

requires_strncpy(M, dest, src, n) ==
  valid_string(M, src) /\ valid(M, dest, n) /\ separated(dest, n, src, n)

ensures_strncpy(M, N, dest, src, n) ==
  /\ assigns(M, N, dest..(dest + n - 1))
  /\ IF logic_strlen(M, src) < n THEN strcmp_zero(N, N, dest, src)
     ELSE memcmp_zero(N, N, dest, src, n)

requires_strcat(M, dest, src) ==
  /\ valid_string(M, src)
  /\ valid_string(M, dest)
  /\ valid(M, dest, logic_strlen(M, dest) + logic_strlen(M, src) + 1)

ensures_strcat(M, N, dest, src) ==
  LET end == dest + logic_strlen(M, dest)
      n == logic_strlen(M, src)
  IN  /\ assigns(M, N, end..(end + n))
      /\ logic_strlen(N, dest) = end - dest + n
      /\ N[end + n] = 0

(* behaviour complete of strncat *)
fits(M, src, n) == valid_string(M, src) /\ logic_strlen(M, src) <= n

appended(M, src, n) == IF fits(M, src, n) THEN logic_strlen(M, src) ELSE n

requires_strncat(M, dest, src, n) ==
  /\ valid_read_nstring(M, src, n)
  /\ valid_string(M, dest)
  /\ valid(M, dest + logic_strlen(M, dest), appended(M, src, n) + 1)

(* restrict: what is read through src is not written through dest. *)
restricted(M, dest, src, n) ==
  LET k == appended(M, src, n)
  IN  separated(dest, logic_strlen(M, dest) + k + 1, src, k + 1)

ensures_strncat(M, N, dest, src, n) ==
  LET len == logic_strlen(M, dest)
      added == appended(M, src, n)
  IN  /\ assigns(M, N, (dest + len)..(dest + len + added))
      /\ logic_strlen(N, dest) = len + added

ensures_strdup(M, N, s, allocable, res) ==
  IF allocable
  THEN /\ res \notin DOMAIN M
       /\ valid_string(N, res)
       /\ strcmp_zero(N, N, res, s)
       /\ assigns(M, N, {})
  ELSE res = null

ensures_strndup(M, N, s, n, allocable, res) ==
  IF allocable
  THEN /\ res \notin DOMAIN M
       /\ valid_string(N, res)
       /\ logic_strlen(N, res) <= n
       /\ strncmp_zero(N, N, res, s, n)
       /\ assigns(M, N, {})
  ELSE res = null

(* Wide strings.  The axioms of WcsLen are those of StrLen with L'\0' for     *)
(* '\0', and a cell of the memory is a wide character here.  wchar.h gives    *)
(* only the assigns clause and the pointer returned, except for wmemset,      *)
(* whose cells are the character it was given, and wcslen.                    *)
logic_wcslen(M, s) == logic_strlen(M, s)

valid_wstring(M, s) ==
  LET n == logic_wcslen(M, s) IN n >= 0 /\ valid(M, s, n + 1)

valid_read_nwstring(M, s, n) == valid(M, s, n) \/ valid_wstring(M, s)

requires_wmemcpy(M, dest, src, n) ==
  /\ valid_or_empty(M, dest, n)
  /\ valid_read_or_empty(M, src, n)
  /\ separated(dest, n, src, n)

ensures_wmemcpy(M, N, dest, n) == assigns(M, N, dest..(dest + n - 1))

requires_wmemset(M, wcs, n) == valid(M, wcs, n)

ensures_wmemset(M, N, wcs, wc, n) ==
  /\ \A i \in 0..(n - 1) : N[wcs + i] = wc
  /\ assigns(M, N, wcs..(wcs + n - 1))

requires_wcscat(M, dest, src) ==
  LET m == logic_wcslen(M, dest)
      n == logic_wcslen(M, src)
  IN  /\ valid_wstring(M, src) /\ valid_wstring(M, dest)
      /\ valid(M, dest + m, n + 1)
      /\ separated(dest, m + n + 1, src, n + 1)

requires_wcsncat(M, dest, src, n) ==
  LET m == logic_wcslen(M, dest)
      k == logic_wcslen(M, src)
  IN  /\ valid_read_nwstring(M, src, n) /\ valid_wstring(M, dest)
      /\ valid(M, dest + m, (IF k < n THEN k ELSE n) + 1)
      /\ separated(dest, m + k + 1, src, k + 1)

requires_wcscpy(M, dest, src) ==
  LET n == logic_wcslen(M, src) + 1
  IN  valid_wstring(M, src) /\ valid(M, dest, n) /\ separated(dest, n, src, n)

ensures_wcscpy(M, N, dest, src) ==
  assigns(M, N, dest..(dest + logic_wcslen(M, src)))

requires_wcsncpy(M, dest, src, n) ==
  valid_wstring(M, src) /\ valid(M, dest, n) /\ separated(dest, n, src, n)

ensures_wcsncpy(M, N, dest, src, n) == assigns(M, N, dest..(dest + n - 1))

ensures_wcscat(M, N, dest) == assigns(M, N, {a \in DOMAIN M : a >= dest})

ensures_wcslen(M, s, res) == res = logic_wcslen(M, s)

(* The axioms of StrLen at s.  len gives the length of every string that     *)
(* ends inside the block.                                                    *)
StrLen_axioms(M, s, len) ==
  LET n == len[s]
  IN  /\ \A i \in 0..(n - 1) : M[s + i] # 0
      /\ M[s + n] = 0
      /\ \A i \in 0..n : (M[s + i] # 0) <=> (i < n)
      /\ \A i \in 0..n : len[s + i] = n - i
      /\ \A a \in DOMAIN M : a >= s /\ M[a] = 0 =>
           \A k \in 0..(a - s) : len[s + k] \in 0..(a - s - k)

(* The axioms of WcsLen. *)
WcsLen_axioms(M, s, len) == StrLen_axioms(M, s, len)

(* memcmp_strlen_left, _right, _shift_left and _shift_right, for two equal   *)
(* areas s1[0..n-1] and s2[0..n-1], both inside terminated strings.          *)
memcmp_strlen(s1, s2, n, len) ==
  /\ len[s1] < n \/ len[s2] < n => len[s1] = len[s2]
  /\ \A s \in DOMAIN len :
       /\ s <= s2 /\ len[s1] < n => len[s] <= (s2 - s) + len[s1]
       /\ s <= s1 /\ len[s2] < n => len[s] <= (s1 - s) + len[s2]

===============================================================================
