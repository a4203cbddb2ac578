----------------------------- MODULE LibcNumbers ------------------------------
(* The functions of the libc on numbers, next to their contracts: math.h,     *)
(* stdlib.h with inttypes.h, and the builtins for unknown values.  A          *)
(* behaviour is one call.                                                     *)
EXTENDS Integers, Sequences, Contracts

CONSTANTS
  Finite,      \* the finite numbers that are tried
  ExpMax,      \* largest argument of exp that does not overflow
  ExpMin,      \* smallest argument whose exp is not rounded to zero
  BITS,        \* width of the integers
  Lengths,     \* lengths of the texts given to strtol
  SizeofPtr,   \* sizeof(void *)
  MaxAlign,    \* alignments tried
  INT_BITS,    \* width of int
  CHAR_BITS    \* width of char, smaller

VARIABLES call, result

None == [done |-> FALSE]

-------------------------------------------------------------------------------
(* The contracts of math.h, what a C library computes (external), and the     *)
(* functions of math.c.  A floating-point number is an integer that keeps its *)
(* place among the constants the contracts compare with: 1.0 is 1000, the     *)
(* least normal number is 2 and 1 is a subnormal one; the infinities and NaN  *)
(* are integers of their own.  float, double and long double have the same    *)
(* contracts.                                                                 *)

PlusInf == 10^7
MinusInf == -10^7
NaN == 10^8
Infinities == {MinusInf, PlusInf}
Floats == Finite \cup Infinities \cup {NaN}

One == 1000
MIN == 2
HalfPi == 1571
EDOM == 1
ERANGE == 2

is_finite(x) == x \in Finite
Abs(x) == IF x < 0 THEN -x ELSE x
in_unit(x) == is_finite(x) /\ Abs(x) <= One

(* Outcomes: a result and errno, which was 0. *)
Out(results, errnos) == [value : results, errno : errnos]
Results(S) == Out(S, {0})
Between(a, b) == Results({x \in Finite : a <= x /\ x <= b})
Any == Out(Floats, {0, EDOM, ERANGE})

FP_NAN == 0
FP_INFINITE == 1
FP_ZERO == 2
FP_SUBNORMAL == 3
FP_NORMAL == 4

__fc_fpclassify(x) ==
  LET only(c) == Results({c})
  IN  Partition(TRUE, Results(0..4),
        [nan       |-> Behavior(x = NaN, only(FP_NAN)),
         inf       |-> Behavior(x # NaN /\ ~is_finite(x), only(FP_INFINITE)),
         zero      |-> Behavior(x = 0, only(FP_ZERO)),
         subnormal |-> Behavior(is_finite(x) /\ ((0 < x /\ x < MIN) \/ (x < 0 /\ -MIN < x)),
                                only(FP_SUBNORMAL)),
         normal    |-> Behavior(is_finite(x) /\ (x <= -MIN \/ MIN <= x), only(FP_NORMAL))])

(* acos and asin: a value for arguments from -1 to 1, EDOM for the others. *)
ArcContract(x, values) ==
  LET behaviors ==
        [normal       |-> Behavior(in_unit(x), values),
         domain_error |-> Behavior(x \in Infinities \/ (is_finite(x) /\ Abs(x) > One),
                                   Out(Floats, {EDOM}))]
  IN  With(TRUE, Any, behaviors, FALSE, {DOMAIN behaviors})

acos(x) == ArcContract(x, Results({y \in Finite : y >= 0}))
asin(x) == ArcContract(x, Results(Finite))

acosh(x) ==
  LET behaviors ==
        [normal       |-> Behavior(is_finite(x) /\ x >= One, Results({y \in Finite : y >= 0})),
         infinite     |-> Behavior(x = PlusInf, Results({PlusInf})),
         domain_error |-> Behavior(x = MinusInf \/ (is_finite(x) /\ x < One),
                                   Out(Floats, {EDOM}))]
  IN  With(TRUE, Any, behaviors, FALSE, {DOMAIN behaviors})

atan(x) == Plain(is_finite(x), Between(-HalfPi, HalfPi))
cos(x) == Plain(is_finite(x), Between(-One, One))
sin(x) == Plain(is_finite(x), Between(-One, One))
exp(x) == Plain(is_finite(x) /\ x <= ExpMax, Results({y \in Finite : y > 0}))
log(x) == Plain(is_finite(x) /\ x > 0, Results(Finite))
log10(x) == Plain(is_finite(x) /\ x > 0, Results(Finite))
log2(x) == Plain(is_finite(x) /\ x > 0, Results(Finite))
fabs_contract(x) == Plain(is_finite(x), Results({y \in Finite : y >= 0 /\ y \in {x, -x}}))
sqrt(x) == Plain(is_finite(x) /\ x >= 0, Results({y \in Finite : y >= 0}))
ceil(x) == Plain(is_finite(x), Results(Finite))
floor(x) == Plain(is_finite(x), Results(Finite))
round(x) == Plain(is_finite(x), Results(Finite))
trunc(x) == Plain(is_finite(x), Results(Finite))
nan(x) == Plain(TRUE, Results({NaN}))
__fc_infinity(x) == Plain(TRUE, Results({PlusInf}))

Contract(f, x) ==
  CASE f = "fpclassify" -> __fc_fpclassify(x)
    [] f = "acos" -> acos(x)      [] f = "asin" -> asin(x)
    [] f = "acosh" -> acosh(x)    [] f = "atan" -> atan(x)
    [] f = "cos" -> cos(x)        [] f = "sin" -> sin(x)
    [] f = "exp" -> exp(x)        [] f = "log" -> log(x)
    [] f = "log10" -> log10(x)    [] f = "log2" -> log2(x)
    [] f = "fabs" -> fabs_contract(x)
    [] f = "sqrt" -> sqrt(x)      [] f = "ceil" -> ceil(x)
    [] f = "floor" -> floor(x)    [] f = "round" -> round(x)
    [] f = "trunc" -> trunc(x)    [] f = "nan" -> nan(x)
    [] f = "infinity" -> __fc_infinity(x)

-------------------------------------------------------------------------------
(* math.c *)
fabs(x) == IF x = 0 THEN 0 ELSE IF x > 0 THEN x ELSE -x

(* __finitef and __finite look at the highest word of the number: bit 15 is   *)
(* the sign, and 8 bits of what follows are taken for the exponent.           *)
usExp(w) == (w % 2^15) \div 2^7

__finitef(w) == usExp(w) # 255
__finite(w) == usExp(w) # 255

(* The exponent of a number of that word: 8 bits of a float, 11 of a double. *)
Exponent(w, bits) == (w % 2^15) \div 2^(15 - bits)
Word(s, e, m, bits) == s * 2^15 + e * 2^(15 - bits) + m

-------------------------------------------------------------------------------
(* The C library (external): the real function, rounded.  A finite value may  *)
(* be any one in the range of the function.                                   *)
Largest == CHOOSE y \in Finite : \A z \in Finite : z <= y
domain_error == Out({NaN}, {EDOM})

libm(f, x) ==
  CASE f = "fpclassify" ->
         Results({IF x = NaN THEN FP_NAN ELSE IF x \in Infinities THEN FP_INFINITE
                  ELSE IF x = 0 THEN FP_ZERO
                  ELSE IF Abs(x) < MIN THEN FP_SUBNORMAL ELSE FP_NORMAL})
    [] f = "nan" \/ (x = NaN /\ f # "infinity") -> Results({NaN})
    [] f = "infinity" -> Results({PlusInf})
    [] f = "fabs" -> Results({IF x \in Infinities THEN PlusInf ELSE fabs(x)})
    [] f \in {"ceil", "floor", "round", "trunc"} ->
         IF is_finite(x) THEN Between(-Largest, Largest) ELSE Results({x})
    [] f = "acos" -> IF in_unit(x) THEN Between(0, 2 * HalfPi) ELSE domain_error
    [] f = "asin" -> IF in_unit(x) THEN Between(-HalfPi, HalfPi) ELSE domain_error
    [] f = "acosh" -> IF x = PlusInf THEN Results({PlusInf})
                      ELSE IF x >= One THEN Between(0, Largest) ELSE domain_error
    [] f = "atan" -> Between(-HalfPi, HalfPi)
    [] f \in {"cos", "sin"} ->
         IF is_finite(x) THEN Between(-One, One) ELSE domain_error
    [] f = "exp" -> IF x < ExpMin THEN Results({0})
                    ELSE IF x <= 0 THEN Between(1, One)
                    ELSE IF x <= ExpMax THEN Between(One, Largest)
                    ELSE Out({PlusInf}, {0, ERANGE})
    [] f \in {"log", "log10", "log2"} ->
         IF x < 0 THEN domain_error
         ELSE IF x = 0 THEN Out({MinusInf}, {ERANGE})
         ELSE IF x = PlusInf THEN Results({PlusInf}) ELSE Between(-Largest, Largest)
    [] f = "sqrt" -> IF x < 0 THEN domain_error
                     ELSE IF x = PlusInf THEN Results({PlusInf})
                     ELSE Between(0, Largest)

Functions == {"fpclassify", "acos", "asin", "acosh", "atan", "cos", "sin", "exp", "log",
              "log10", "log2", "fabs", "sqrt", "ceil", "floor", "round", "trunc", "nan",
              "infinity"}

MathInit ==
  /\ \/ \E f \in Functions, x \in Floats : call = [f |-> "math", fn |-> f, x |-> x]
     \/ \E s \in {0, 1}, bits \in {8, 11} :
          \E e \in 0..(2^bits - 1), m \in {0, 1, 2^(15 - bits) - 1} :
            call = [f |-> "finite", bits |-> bits, w |-> Word(s, e, m, bits)]
  /\ result = None

Libm == /\ call.f = "math" /\ result = None
        /\ \E o \in libm(call.fn, call.x) : result' = o
        /\ UNCHANGED call

Fabs == /\ call.f = "math" /\ call.fn = "fabs" /\ is_finite(call.x) /\ result = None
        /\ result' = [value |-> fabs(call.x), errno |-> 0]
        /\ UNCHANGED call

Finiteness == /\ call.f = "finite" /\ result = None
              /\ result' = [finite |-> IF call.bits = 8 THEN __finitef(call.w) ELSE __finite(call.w)]
              /\ UNCHANGED call

-------------------------------------------------------------------------------
(* The contracts of math.h are consistent, and their behaviors complete and   *)
(* disjoint where they say so, for every number, NaN included.                *)
MathClaimsTrue ==
  call.f = "math" => LET c == Contract(call.fn, call.x) IN Consistent(c) /\ ClaimsTrue(c)

(* Every call that a contract of math.h allows has a result, and an errno,    *)
(* that the contract allows, in the C library and in math.c; the one          *)
(* exception is exp, which the contract takes to be positive where it is      *)
(* rounded to zero.                                                           *)
MathSound ==
  call.f = "math" /\ result # None =>
    LET c == Contract(call.fn, call.x)
    IN  c.requires /\ ~(call.fn = "exp" /\ call.x < ExpMin) => result \in Allowed(c)

(* isfinite never accepts an infinity or a NaN, and errs only for doubles     *)
(* whose exponent starts with eight ones: __finite masks the exponent of a    *)
(* float.                                                                     *)
FinitenessKnown ==
  call.f = "finite" /\ result # None =>
    LET e == Exponent(call.w, call.bits)
    IN  IF e = 2^call.bits - 1 THEN ~result.finite
        ELSE result.finite \/ (call.bits = 11 /\ e \div 8 = 255)

-------------------------------------------------------------------------------
(* Numbers and conversions of stdlib.h and inttypes.h: abs, imaxabs and       *)
(* imaxdiv of stdlib.c and inttypes.c with integers of their width, the       *)
(* strto* functions (external), posix_memalign over the contract of malloc.   *)

MIN_INT == -(2^(BITS - 1))
MAX_INT == 2^(BITS - 1) - 1
Ints == MIN_INT..MAX_INT
Wrap(i) == ((i - MIN_INT) % 2^BITS) + MIN_INT

(* C division truncates towards zero. *)
Sign(i) == IF i < 0 THEN -1 ELSE 1
Quot(a, b) == Sign(a) * Sign(b) * ((Sign(a) * a) \div (Sign(b) * b))

(* stdlib.c and inttypes.c *)
abs(i) == IF i < 0 THEN Wrap(-i) ELSE i

imaxabs(c) == IF c > 0 THEN c ELSE Wrap(-c)

imaxdiv(numer, denom) ==
  [quot |-> Wrap(Quot(numer, denom)), rem |-> numer - denom * Quot(numer, denom)]

(* malloc returns 0, for NULL, or a block. *)
malloc == {0, 1}
ENOMEM == 12

posix_memalign(p) == [memptr |-> p, result |-> IF p = 0 THEN ENOMEM ELSE 0]

-------------------------------------------------------------------------------
abs_contract(j) ==
  Partition(j > MIN_INT, Ints,
            [negative |-> Behavior(j < 0, {-j}), nonnegative |-> Behavior(j >= 0, {j})])

imaxabs_contract(c) == Plain(Wrap(-c) # c, Ints)

imaxdiv_contract(numer, denom) ==
  Plain(/\ denom # 0
        /\ denom # -1 \/ Wrap(-numer) # numer,
        IF denom = 0 THEN {}
        ELSE {[quot |-> Quot(numer, denom), rem |-> numer - denom * Quot(numer, denom)]})

(* memptr in the outcome is what was allocated, 0 for nothing. *)
posix_memalign_contract(alignment, can_allocate) ==
  Partition(alignment >= SizeofPtr /\ \E k \in 0..10 : alignment = 2^k,
            [memptr : {0, 1}, result : {0, ENOMEM, 22}],
            [allocation    |-> Behavior(can_allocate, [memptr : {1}, result : {0}]),
             no_allocation |-> Behavior(~can_allocate, [memptr : {0}, result : {ENOMEM, 22}])])

(* strtod and its kin: nptr points to n characters (n = 0: invalid); endptr   *)
(* is null, valid, invalid or a part of the text.  end is what is stored, -1  *)
(* for nothing.                                                               *)
strtod_contract(n, endptr) ==
  Partition(/\ n > 0 /\ endptr # "within"
            /\ endptr # "null" => endptr = "valid",
            -1..n,
            [no_storage     |-> Behavior(endptr = "null", {-1}),
             store_position |-> Behavior(endptr # "null", 0..n)])

strtol_contract(n, endptr, base) ==
  LET c == strtod_contract(n, endptr)
  IN  [c EXCEPT !.requires = @ /\ (base = 0 \/ (2 <= base /\ base <= 36))]

(* The C library: the number ends before some character of the text. *)
strtol(n, endptr) == IF endptr = "null" THEN {-1} ELSE 0..(n - 1)

-------------------------------------------------------------------------------
StdlibContract(c) ==
  CASE c.fn = "abs" -> abs_contract(c.a)
    [] c.fn = "imaxabs" -> imaxabs_contract(c.a)
    [] c.fn = "imaxdiv" -> imaxdiv_contract(c.a, c.b)
    [] c.fn = "posix_memalign" -> posix_memalign_contract(c.a, c.can_allocate)
    [] c.fn = "strtod" -> strtod_contract(c.a, c.endptr)
    [] c.fn = "strtol" -> strtol_contract(c.a, c.endptr, c.b)

StdlibReturns(c) ==
  CASE c.fn = "abs" -> {abs(c.a)}
    [] c.fn = "imaxabs" -> {imaxabs(c.a)}
    [] c.fn = "imaxdiv" -> {imaxdiv(c.a, c.b)}
    [] c.fn = "posix_memalign" -> {posix_memalign(p) : p \in {q \in malloc : q = 1 <=> c.can_allocate}}
    [] c.fn \in {"strtod", "strtol"} -> strtol(c.a, c.endptr)

StdlibInit ==
  /\ \/ \E fn \in {"abs", "imaxabs"}, a \in Ints :
          call = [f |-> "stdlib", fn |-> fn, a |-> a]
     \/ \E a, b \in Ints : call = [f |-> "stdlib", fn |-> "imaxdiv", a |-> a, b |-> b]
     \/ \E a \in 0..MaxAlign, can \in BOOLEAN :
          call = [f |-> "stdlib", fn |-> "posix_memalign", a |-> a, can_allocate |-> can]
     \/ \E fn \in {"strtod", "strtol"}, n \in Lengths, b \in -1..37,
           e \in {"null", "valid", "invalid", "within"} :
          call = [f |-> "stdlib", fn |-> fn, a |-> n, endptr |-> e, b |-> b]
  /\ result = None

Stdlib ==
  /\ call.f = "stdlib" /\ result = None
  /\ StdlibContract(call).requires
  /\ \E r \in StdlibReturns(call) : result' = [value |-> r]
  /\ UNCHANGED call

-------------------------------------------------------------------------------
(* The behaviors in stdlib.h are complete and disjoint as they say, every     *)
(* allowed call has an allowed outcome, and the code or the C library returns *)
(* one: for the smallest integer, zero, negative divisors and a failed malloc *)
(* too.                                                                       *)
NumbersMeetContracts ==
  call.f = "stdlib" =>
    LET c == StdlibContract(call)
    IN  /\ Consistent(c) /\ ClaimsTrue(c)
        /\ result # None => result.value \in Allowed(c)

(* What abs, imaxabs and imaxdiv demand is what they need: the contracts      *)
(* refuse every call whose result would wrap and, apart from imaxabs(0) and   *)
(* 0 / -1, refuse no other one.                                               *)
NumbersDemandEnough ==
  call.f = "stdlib" /\ call.fn \in {"abs", "imaxabs", "imaxdiv"} =>
    LET wraps == CASE call.fn = "imaxdiv" -> call.b = 0 \/ Quot(call.a, call.b) \notin Ints
                   [] OTHER -> -call.a \notin Ints
    IN  StdlibContract(call).requires
          <=> ~wraps /\ ~(call.fn = "imaxabs" /\ call.a = 0)
                     /\ ~(call.fn = "imaxdiv" /\ call.a = 0 /\ call.b = -1)

-------------------------------------------------------------------------------
(* The builtins of __fc_builtin.c that stand for unknown values, and their    *)
(* contracts.  Frama_C_entropy_source is volatile: every read gives any int,  *)
(* so a builtin is a function of what it reads and has a set of results.      *)

IntsOf == -(2^(INT_BITS - 1)) .. (2^(INT_BITS - 1) - 1)
CharsOf == -(2^(CHAR_BITS - 1)) .. (2^(CHAR_BITS - 1) - 1)

(* Conversion of an int to a char. *)
ToChar(i) == ((i + 2^(CHAR_BITS - 1)) % 2^CHAR_BITS) - 2^(CHAR_BITS - 1)

Frama_C_entropy_source == IntsOf

(* Wrong: the upper bound is never drawn. *)
OpenInterval(min, max) ==
  {IF aux >= min /\ aux < max THEN aux ELSE min : aux \in Frama_C_entropy_source}

Frama_C_interval(min, max) ==
  {IF aux >= min /\ aux <= max THEN aux ELSE min : aux \in Frama_C_entropy_source}

Frama_C_char_interval(min, max) ==
  {IF aux >= min /\ aux <= max THEN aux ELSE min :
     aux \in {ToChar(e) : e \in Frama_C_entropy_source}}

Frama_C_nondet(a, b) == {IF e # 0 THEN a ELSE b : e \in Frama_C_entropy_source}

(* Floating-point bounds: one of them, nothing in between. *)
Frama_C_float_interval(min, max) == Frama_C_nondet(min, max)

Frama_C_make_unknown(p, l) ==
  {[i \in DOMAIN p |-> IF i <= l THEN ToChar(e[i]) ELSE p[i]] :
     e \in [1..l -> Frama_C_entropy_source]}

(* The contracts: the same one for all the integer types. *)
interval_contract(min, max, type) ==
  Plain(min <= max, {r \in type : min <= r /\ r <= max})
nondet_contract(a, b) == Plain(TRUE, {a, b})
make_unknown_contract(p, l) ==
  Plain(l <= Len(p), {q \in [DOMAIN p -> CharsOf \cup {p[i] : i \in DOMAIN p}] :
                        \A i \in DOMAIN p : IF i <= l THEN q[i] \in CharsOf ELSE q[i] = p[i]})

-------------------------------------------------------------------------------
(* What a call may return, and its contract. *)
BuiltinReturns(c) ==
  CASE c.fn = "interval" -> Frama_C_interval(c.a, c.b)
    [] c.fn = "char_interval" -> Frama_C_char_interval(c.a, c.b)
    [] c.fn = "nondet" -> Frama_C_nondet(c.a, c.b)
    [] c.fn = "float_interval" -> Frama_C_float_interval(c.a, c.b)
    [] c.fn = "make_unknown" -> Frama_C_make_unknown(c.p, c.l)

BuiltinContract(c) ==
  CASE c.fn \in {"interval", "float_interval"} -> interval_contract(c.a, c.b, IntsOf)
    [] c.fn = "char_interval" -> interval_contract(c.a, c.b, CharsOf)
    [] c.fn = "nondet" -> nondet_contract(c.a, c.b)
    [] c.fn = "make_unknown" -> make_unknown_contract(c.p, c.l)

(* 100 stands for a byte that was never written. *)
BuiltinInit ==
  /\ \/ \E fn \in {"interval", "nondet", "float_interval"}, a, b \in IntsOf :
          call = [f |-> "builtin", fn |-> fn, a |-> a, b |-> b]
     \/ \E a, b \in CharsOf :
          call = [f |-> "builtin", fn |-> "char_interval", a |-> a, b |-> b]
     \/ \E p \in [1..2 -> {100}], l \in 0..2 :
          call = [f |-> "builtin", fn |-> "make_unknown", p |-> p, l |-> l]
  /\ result = None

Builtin ==
  /\ call.f = "builtin" /\ result = None
  /\ BuiltinContract(call).requires
  /\ result' = [returns |-> BuiltinReturns(call)]
  /\ UNCHANGED call

-------------------------------------------------------------------------------
(* A builtin on integers may return each value its contract in __fc_builtin.h *)
(* allows, at the ends of the types too, and no other: an analysis of the     *)
(* code is as sound and as precise as one of the contract.  The builtins on   *)
(* floats return no other.                                                    *)
UnknownsExact ==
  call.f = "builtin" /\ result # None =>
    IF call.fn = "float_interval" THEN result.returns \subseteq Allowed(BuiltinContract(call))
    ELSE result.returns = Allowed(BuiltinContract(call))

-------------------------------------------------------------------------------
Init == MathInit \/ StdlibInit \/ BuiltinInit
Next == Libm \/ Fabs \/ Finiteness \/ Stdlib \/ Builtin
===============================================================================
