------------------------------ MODULE MCRuntime -------------------------------
(* The functions of the libc and of the E-ACSL runtime, each on all the       *)
(* inputs in the bounds.  Every module has two variables, the call with its   *)
(* inputs or the state it works on, and the result; call.f tells the function *)
(* and so the module at work.                                                 *)
EXTENDS Integers, Sequences

VARIABLES call, result

(* A zero, an ASCII letter and a byte that is negative as a char; two cases   *)
(* of one letter and another letter; an int that is the letter modulo 256.    *)
S == INSTANCE LibcCalls WITH
       Letters <- {0, 97, 200}, Contents <- {0, 97}, Cases <- {0, 65, 97, 98},
       Chars <- {0, 97, 200, 353}, Size <- 5

C == INSTANCE LibcChars WITH
       Digits <- {32, 43, 45, 48, 57, 120}, Size <- 5, SIZE_MAX <- 15

(* Names that start with a digit or not, end in a dot or not, fill the buffer. *)
L == INSTANCE LibcState WITH
       Texts <- {<<>>, <<10>>, <<97, 10>>, <<97, 98, 99>>, <<97, 98, 10, 99, 10>>,
                 <<10, 10, 97>>, <<97, 255, 10>>, <<97, 98, 99, 97, 98, 10>>},
       SSIZE_MAX <- 6, MaxFound <- 2, MaxPaths <- 5, ARG_MAX <- 2, __FC_INITENV_LEN <- 3,
       Names <- {<<>>, <<48>>, <<48, 46>>, <<49, 97>>, <<97, 98, 99, 97>>,
                 <<48, 49, 50, 51, 52>>},
       Addresses <- {1}, Families <- {2}, __FC_HOSTBUF_SIZE <- 4,
       __FC_QUERYBUF_SIZE <- 1, MaxBlocks <- 3, state <- call, last <- result

(* A layout is a set of blocks <<base, length, readonly>>. *)
R == INSTANCE RtlLibc WITH
       Layouts <- {{<<1, 2, FALSE>>, <<4, 2, TRUE>>}, {<<1, 4, FALSE>>}},
       Letters <- {0, 97}, MaxAddr <- 5, SIZE_MAX <- 31, WCHAR <- 2, ZERO_BLOCK_SIZE <- 2

P == INSTANCE RtlPrintf WITH
       IntBits <- 11, LongBits <- 13,
       Numbers <- (-70..150) \cup {-4096, -4095, -2048, -1025, -1024, -1023, -1000,
                    -999, 255, 256, 257, 999, 1000, 1001, 1023, 1024, 2047, 2048,
                    4095, 4096, 8191},
       Widths <- {<<>>, <<"3">>, <<"1", "2">>},
       Doubles <- {-1500, -20, 0, 5, 50, 999, 1000, 2050, -2001}

(* Format directives, field by field. *)
Dir(no, fl, wi, pr, le, sp) ==
  [no : no, flags : fl, width : wi, precision : pr, length : le, specifier : sp]
None == {<<>>}
Numbers == {<<>>, <<"1", "$">>, <<"2", "$">>}
Specs == {"d", "i", "o", "u", "x", "X", "e", "E", "f", "F", "g", "G", "a", "A",
          "c", "s", "p", "n"}
Lengths == {<<>>, <<"h">>, <<"h", "h">>, <<"l">>, <<"l", "l">>, <<"j">>, <<"z">>,
            <<"t">>, <<"L">>}

F == INSTANCE RtlFormat WITH
       DIRECTIVE <- 10,
       Plain <- Dir(None, {<<>>, <<"+">>, <<"#">>, <<"0">>, <<"'">>, <<"-", "0">>,
                           <<"-", "-">>},
                    {<<>>, <<"1", "2">>}, {<<>>, <<".">>, <<".", "3">>},
                    {<<>>, <<"l">>, <<"L">>}, Specs),
       Typed <- Dir(None, None, None, None, Lengths, Specs),
       Numbered <- Dir(Numbers, {<<>>, <<"0">>}, None, None, None, {"d", "s", "e"})
                   \cup Dir(Numbers, None, {<<"*">>}, None, None, {"d", "s", "e"})

W == INSTANCE Words WITH
       TREEBIN_SHIFT <- 8, NTREEBINS <- 32, MapBits <- 8, BYTE <- 1, WORD <- 4,
       ExpBits <- 3, ManBits <- 2,
       Sizes <- (1..5000) \cup
                UNION {{2^k - 1, 2^k, 2^k + 1, 2^k + 2^(k-1) - 1, 2^k + 2^(k-1)} :
                         k \in 8..26}

X == INSTANCE Shexec WITH PIPE <- 2, bufsize <- 2, MaxInput <- 3, MaxProgram <- 3,
       MaxStray <- 3

(* Thousandths around 0, 1, pi/2, pi and the ends of the domain of exp. *)
N == INSTANCE LibcNumbers WITH
       Finite <- {-800000, -709784, -709783, -3142, -1571, -1001, -1000, -500, -2, -1,
                  0, 1, 2, 500, 1000, 1001, 1571, 3142, 709783, 709784, 800000},
       ExpMax <- 709783, ExpMin <- -745000,
       BITS <- 5, Lengths <- 0..3, SizeofPtr <- 4, MaxAlign <- 20,
       INT_BITS <- 4, CHAR_BITS <- 3

(* Stacks from a quarter of the runtime's space to all of it, and limits of   *)
(* the system below and above them.                                           *)
Y == INSTANCE ShadowLayout WITH
       PGM_HEAP_SIZE <- 32, TlsSizes <- {16, 48}, RTL_SIZE <- 16, StackSizes <- {4, 8, 16},
       SHADOW_SEGMENT_PADDING <- 1, MSPACE_HEADER <- 1, GLOBAL_START <- 4, GLOBAL_SIZE <- 2,
       MMAP_MIN <- 20, MMAP_MAX <- 800, LIBS_SIZE <- 4, STACK_END <- 960,
       Limits <- {[cur |-> c, max |-> 100] : c \in {2, 8, 100}}
                 \cup {[cur |-> 2, max |-> 6], [cur |-> 8, max |-> 16]},
       state <- call, last <- result

A == INSTANCE RtlAssert WITH
       MaxReports <- 4, TRACE_SIZE <- 2, MaxFrames <- 4, state <- call, last <- result

vars == <<call, result>>

Init == \/ S!Init \/ C!Init \/ L!Init \/ R!Init \/ P!Init \/ F!Init
        \/ W!Init \/ X!Init \/ N!Init \/ Y!Init \/ A!Init
Next == \/ S!Next \/ C!Next \/ L!Next \/ R!Next \/ P!Next \/ F!Next
        \/ W!Next \/ X!Next \/ N!Next \/ Y!Next \/ A!Next
Spec == Init /\ [][Next]_vars

-------------------------------------------------------------------------------
(* The functions of string.c and wchar.c meet the contracts of string.h: those *)
(* that write do what it says and no more, pad with zeros, and a copy fits its  *)
(* block; comparisons are 0 for equal arguments and antisymmetric; searches     *)
(* find the first, or the last, occurrence there is; and the axioms about       *)
(* strlen and memcmp are true of these functions.                               *)
StringsMeetContracts ==
  /\ S!CopiesMeetContracts /\ S!CopiesPadded /\ S!DuplicatesMeetContracts
  /\ S!ComparisonsMeetContracts
  /\ S!SearchesMeetContracts /\ S!SearchesExact
  /\ S!WideMeetContracts
  /\ S!AxiomsHold

(* The functions on characters and numbers meet their contracts, whose         *)
(* behaviors are complete and disjoint where they say so: the tests of ctype.c, *)
(* atoi, calloc of a product that overflows, math.h and isfinite, abs, imaxabs, *)
(* imaxdiv, strtol, posix_memalign, and the builtins for unknown values, which  *)
(* return each value that is allowed.                                           *)
NumbersMeetContracts ==
  /\ C!TestsMeetContracts /\ C!AtoiExact /\ C!CallocMeetsContract
  /\ N!MathClaimsTrue /\ N!MathSound /\ N!FinitenessKnown
  /\ N!NumbersMeetContracts /\ N!NumbersDemandEnough
  /\ N!UnknownsExact

(* What the libc keeps between two calls is right: getline loses no character   *)
(* before it has no buffer, and leaves room for the zero, the vector of glob    *)
(* holds the paths of all calls and its terminator, the strings of the          *)
(* environment end, and a failed lookup of getaddrinfo or gethostbyname leaves  *)
(* the answer of an earlier one alone.                                          *)
LibcStateKept ==
  /\ L!LinesExact
  /\ L!VectorHoldsPaths
  /\ L!EnvironmentTerminated
  /\ L!AddressesUsable /\ L!HostIntact

(* E-ACSL's replacements of string functions let through only the calls that    *)
(* string.h allows, unless their size makes a sum wrap, and abort only calls    *)
(* that it forbids but for known ones;                                          *)
(* valid_nstring and the helpers of the runtime compute what their comments     *)
(* say.                                                                         *)
ReplacementsExact ==
  /\ R!NstringMeetsDoc /\ R!HelpersExact
  /\ R!ReplacementsSafe /\ R!ReplacementsPrecise

(* What rtl_printf prints for a number, or for bits, reads back as that.        *)
PrintfReadsBack == P!NumbersReadBack /\ P!BitsReadBack

(* E-ACSL parses a format into the directives it was written with, and calls of *)
(* printf that it lets through have arguments that fit, and point to memory     *)
(* that may be used if no floating argument comes before them.                  *)
FormatsChecked == F!ParsedAsWritten /\ F!ArgumentsFit

(* Arithmetic on machine words: the shifts and bit maps of dlmalloc lead to the *)
(* bin of a size, the macros and loops of e_acsl_bits.h change exactly the bits *)
(* they name, byte swaps reverse the bytes, and float_compare_total is a total  *)
(* order that extends that of numbers.                                          *)
WordsExact ==
  W!BinsFound /\ W!BitsExact /\ W!SwapsExact /\ W!FloatOrderTotal

(* An output that shexec returns is all that was written to it, fd_read stays   *)
(* inside its buffer, and shexec hangs only if a pipe is too small for what the *)
(* command reads and writes.                                                    *)
CommandOutputs ==
  X!BufferHoldsReads /\ X!OutputsComplete /\ X!HangsOnlyForPipes

(* The segments of the shadow layout do not overlap, the shadows of tracked     *)
(* addresses lie in the memory made for them, the TLS segment holds the         *)
(* thread-local variables, and the tracked stack is no larger than the limits   *)
(* of the system allow.                                                         *)
LayoutSound ==
  Y!LayoutValid /\ Y!TlsTracked /\ Y!ShadowsMapped /\ Y!StackFits

(* The runtime stops a program whose annotations fail; what it prints then is   *)
(* whole and true, the backtrace has the frames it could place, and a           *)
(* floating-point exception is reported once, at its statement.                 *)
FailuresReported ==
  A!FailuresStop /\ A!ReportsTrue /\ A!TraceInBounds /\ A!FloatsBlamed

(* The calls of printf and its kin alone. *)
FormatSpec == F!Init /\ [][F!Next]_vars

(* "the types of variadic arguments provided via a call match the types       *)
(* expected by the respective format directives", also of those that start    *)
(* with the flag 0.                                                           *)
RespectiveArguments == F!RespectiveArguments
===============================================================================
