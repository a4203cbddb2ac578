------------------------------- MODULE LibcChars -------------------------------
(* The character tests of ctype.c with their contracts in ctype.h, and atoi   *)
(* and calloc of stdlib.c.  A test is the set of the values it may return:    *)
(* Frama_C_nondet(0, 1) makes it both.                                        *)
EXTENDS Integers, Sequences, LibcString

CONSTANTS
  Digits,    \* characters of the strings given to atoi
  Size,      \* length of these strings with the terminating zero
  SIZE_MAX   \* largest size_t, one less than a power of 2

VARIABLES call, result

EOF == -1
CharOrEOF == 0..255 \cup {EOF}

Truth(b) == {IF b THEN 1 ELSE 0}
Frama_C_nondet == {0, 1}

ISDIGIT(c) == c \in 48..57
ISXDIGIT(c) == ISDIGIT(c) \/ c \in 97..102 \/ c \in 65..70
ISLOWER(c) == c \in 97..122
ISUPPER(c) == c \in 65..90
ISALPHA(c) == ISUPPER(c) \/ ISLOWER(c)
ISALNUM(c) == ISALPHA(c) \/ ISDIGIT(c)
ISSPACE(c) == c \in {32, 12, 10, 13, 9, 11}
ISBLANK(c) == c \in {32, 9}

isalnum(c) == Truth(ISALNUM(c))
isalpha(c) == Truth(ISALPHA(c))
isblank(c) == Truth(ISBLANK(c) \/ ISSPACE(c))
iscntrl(c) == Frama_C_nondet
isdigit(c) == Truth(ISDIGIT(c))
isgraph(c) == Frama_C_nondet
islower(c) == Truth(ISLOWER(c))
isprint(c) == Frama_C_nondet
ispunct(c) == Frama_C_nondet
isspace(c) == Truth(ISSPACE(c))
isupper(c) == Truth(ISUPPER(c))

isxdigit(c) == Truth(ISXDIGIT(c))
tolower(c) == {IF c \in 65..90 THEN c + 32 ELSE c}
toupper(c) == {IF c \in 97..122 THEN c - 32 ELSE c}

Tests == {"isalnum", "isalpha", "isblank", "iscntrl", "isdigit", "isgraph",
          "islower", "isprint", "ispunct", "isspace", "isupper", "isxdigit"}

Answers(f, c) ==
  CASE f = "isalnum" -> isalnum(c)   [] f = "isalpha" -> isalpha(c)
    [] f = "isblank" -> isblank(c)   [] f = "iscntrl" -> iscntrl(c)
    [] f = "isdigit" -> isdigit(c)   [] f = "isgraph" -> isgraph(c)
    [] f = "islower" -> islower(c)   [] f = "isprint" -> isprint(c)
    [] f = "ispunct" -> ispunct(c)   [] f = "isspace" -> isspace(c)
    [] f = "isupper" -> isupper(c)   [] f = "isxdigit" -> isxdigit(c)
    [] f = "tolower" -> tolower(c)   [] f = "toupper" -> toupper(c)

(* n gathers the digits negatively, so that INT_MIN does not overflow. *)
atoi(M, p) ==
  LET first == M[p]
      start == IF ISDIGIT(first) THEN p
               ELSE Until(LAMBDA a : ~ISSPACE(M[a]), p)
      signed == ~ISDIGIT(first) /\ M[start] \in {45, 43}
      neg == signed /\ M[start] = 45
      from == IF signed THEN start + 1 ELSE start
      RECURSIVE gather(_, _)
      gather(n, a) == IF ISDIGIT(M[a]) THEN gather(n * 10 + (48 - M[a]), a + 1) ELSE n
      n == gather(48 - M[from], from + 1)
  IN  IF ~ISDIGIT(M[from]) THEN 0 ELSE IF neg THEN n ELSE -n

(* allocable is the set of sizes for which malloc succeeds. *)
calloc(nmemb, size, allocable) ==
  LET l == (nmemb * size) % (SIZE_MAX + 1)
  IN  IF size # 0 /\ l \div size # nmemb THEN [res |-> "NULL", size |-> 0]
      ELSE IF l \notin allocable THEN [res |-> "NULL", size |-> 0]
      ELSE [res |-> "block", size |-> l]

-------------------------------------------------------------------------------
(* ctype.h: where a test must match, where it must not match; elsewhere the   *)
(* locale decides.                                                            *)
matches(f) ==
  CASE f = "isalnum" -> 65..90 \cup 97..122 \cup 48..57
    [] f = "isalpha" -> 65..90 \cup 97..122
    [] f = "isblank" -> {32, 9}
    [] f = "iscntrl" -> 0..31 \cup {127}
    [] f = "isdigit" -> 48..57
    [] f = "isgraph" -> 33..126
    [] f = "islower" -> 97..122
    [] f = "isprint" -> 32..126
    [] f = "ispunct" -> 33..47 \cup 58..64 \cup 91..96 \cup 123..126
    [] f = "isspace" -> 9..13 \cup {32}
    [] f = "isupper" -> 65..90
    [] f = "isxdigit" -> 48..57 \cup 65..70 \cup 97..102

matches_not(f) ==
  CASE f \in {"isblank", "isdigit", "isxdigit"} -> CharOrEOF \ matches(f)
    [] f = "islower" -> (EOF..126) \ matches(f)
    [] f = "isalnum" -> {EOF} \cup 0..47 \cup 58..64 \cup 91..96 \cup 123..127
    [] f = "isalpha" -> {EOF} \cup 0..64 \cup 91..96 \cup 123..127
    [] f = "iscntrl" -> {EOF} \cup 32..126
    [] f = "isgraph" -> {EOF} \cup 0..32 \cup {127}
    [] f = "isprint" -> {EOF} \cup 0..31 \cup {127}
    [] f = "ispunct" -> {EOF} \cup 0..32 \cup 48..57 \cup 65..90 \cup 97..122 \cup {127}
    [] f = "isspace" -> {EOF} \cup 0..8 \cup 14..31 \cup 33..127
    [] f = "isupper" -> {EOF} \cup 0..64 \cup 91..127

ensures_tolower(c, res) ==
  /\ res \in CharOrEOF
  /\ c \in 65..90 => res = c + 32
  /\ c \in (EOF..127) \ (65..90) => res = c

ensures_toupper(c, res) ==
  /\ res \in CharOrEOF
  /\ c \in 97..122 => res = c - 32
  /\ c \in (EOF..127) \ (97..122) => res = c

-------------------------------------------------------------------------------
Strings == {s \in [1..Size -> Digits \cup {0}] : s[Size] = 0}
Sizes == 0..SIZE_MAX

Init ==
  /\ \/ call \in [f : Tests \cup {"tolower", "toupper"}, c : CharOrEOF]
     \/ call \in [f : {"atoi"}, mem : Strings]
     \/ call \in [f : {"calloc"}, nmemb : Sizes, size : Sizes,
                  allocable : {0..m : m \in {0, SIZE_MAX \div 2, SIZE_MAX}}]
  /\ result = <<>>

Classify ==
  /\ result = <<>> /\ call.f \in Tests \cup {"tolower", "toupper"}
  /\ \E r \in Answers(call.f, call.c) : result' = <<r>>
  /\ UNCHANGED call

Compute ==
  /\ result = <<>> /\ UNCHANGED call
  /\ \/ call.f = "atoi" /\ result' = <<atoi(call.mem, 1)>>
     \/ /\ call.f = "calloc"
        /\ result' = <<calloc(call.nmemb, call.size, call.allocable)>>

Next == Classify \/ Compute

Spec == Init /\ [][Next]_<<call, result>>

Done(F) == call.f \in F /\ result # <<>>

-------------------------------------------------------------------------------
(* A character test never loses an answer its contract in ctype.h forces:     *)
(* either it returns that answer, or it returns both and an analysis sees     *)
(* both.  tolower and toupper are exact.  isblank is left out: it accepts     *)
(* every character that isspace accepts, its contract two of them.            *)
TestsMeetContracts ==
  /\ Done(Tests \ {"isblank"}) =>
       /\ call.c \in matches(call.f) => 1 \in Answers(call.f, call.c)
       /\ call.c \in matches_not(call.f) => 0 \in Answers(call.f, call.c)
       /\ Answers(call.f, call.c) # Frama_C_nondet =>
            /\ call.c \in matches(call.f) => result[1] # 0
            /\ call.c \in matches_not(call.f) => result[1] = 0
  /\ Done({"tolower"}) => ensures_tolower(call.c, result[1])
  /\ Done({"toupper"}) => ensures_toupper(call.c, result[1])

(* The value of the decimal number M[a..b]. *)
Decimal(M, a, b) ==
  LET RECURSIVE value(_)
      value(i) == IF i < a THEN 0 ELSE value(i - 1) * 10 + (M[i] - 48)
  IN  value(b)

(* atoi returns the number that the longest decimal prefix, after blanks and  *)
(* at most one sign, denotes, and 0 without digits.                           *)
AtoiExact ==
  LET M == call.mem
      Number(a, b, sign) == /\ \A i \in a..b : ISDIGIT(M[i])
                            /\ a > 1 /\ sign # {} => M[a - 1] \in sign
                            /\ ~ISDIGIT(M[b + 1])
      start(a, sign) == LET k == IF sign = {} THEN a - 1 ELSE a - 2
                        IN  \A i \in 1..k : ISSPACE(M[i])
      Prefix(sign) == {ab \in (1..Size - 1) \X (1..Size - 1) :
                         /\ ab[1] <= ab[2]
                         /\ sign # {} => ab[1] > 1
                         /\ start(ab[1], sign)
                         /\ Number(ab[1], ab[2], sign)}
      plus == Prefix({}) \cup Prefix({43})
      minus == Prefix({45})
  IN  Done({"atoi"}) =>
        /\ \A ab \in plus : result[1] = Decimal(M, ab[1], ab[2])
        /\ \A ab \in minus : result[1] = -Decimal(M, ab[1], ab[2])
        /\ plus \cup minus = {} => result[1] = 0

(* calloc returns a block exactly when the mathematical product of its        *)
(* arguments is a size malloc can give, and the block has that size: the      *)
(* wrapped product is never taken for it.                                     *)
CallocMeetsContract ==
  LET product == call.nmemb * call.size
  IN  Done({"calloc"}) =>
        result[1] = IF product \in call.allocable
                    THEN [res |-> "block", size |-> product]
                    ELSE [res |-> "NULL", size |-> 0]
===============================================================================
