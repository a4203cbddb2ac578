------------------------------ MODULE RtlFormat -------------------------------
(* The validation of format strings in the E-ACSL runtime (e_acsl_format.h):  *)
(* a call of printf is replaced by one of __e_acsl_builtin_printf with the    *)
(* abbreviated types of its variadic arguments.  The format, a sequence of    *)
(* one-character strings, is parsed into directives, and each directive is    *)
(* checked by itself and against the argument it refers to.  An argument is   *)
(* its abbreviated type, whether the memory query of its directive succeeds   *)
(* if it is taken for an address, and whether this is clear of the output     *)
(* buffer.  Not modelled: a format that ends inside a directive, which the    *)
(* parser leaves at its zero and goes on behind it.                           *)
EXTENDS Integers, Sequences, SequencesExt

CONSTANTS
  DIRECTIVE,   \* size of the copy of a directive's text, 16 in the code
  Plain,       \* the directives of formats with one directive
  Typed,       \* the directives that are tried with every type of argument
  Numbered     \* the directives of formats with two

VARIABLES call, result

-------------------------------------------------------------------------------
(* Abbreviated types, on a 64-bit Linux machine. *)
Types == {"c", "C", "h", "H", "d", "D", "l", "L", "r", "R", "f", "e", "E", "s",
          "S", "q", "Q", "i", "I", "z", "Z", "w", "W", "p"}

sizeof_int == 4
sizeof_long == 8

size2abbri(size, sign) ==
  IF size <= sizeof_int THEN IF sign THEN "d" ELSE "D"
  ELSE IF sign THEN "l" ELSE "L"

abbr2ptr(c) ==
  [d |-> "i", D |-> "I", l |-> "z", L |-> "Z", r |-> "w", R |-> "W"][c]

length_chars == {"h", "l", "j", "z", "t", "L"}
flag_chars == {"-", "+", " ", "#", "0", "'"}
specifier_chars == {"d", "i", "o", "u", "x", "X", "f", "F", "e", "E", "g", "G",
                    "a", "A", "c", "s", "p", "n"}
DigitValue == [d \in {"0", "1", "2", "3", "4", "5", "6", "7", "8", "9"} |->
                 CHOOSE n \in 0..9 : ToString(n) = d]
isdigit(ch) == ch \in DOMAIN DigitValue

At(fmt, i) == IF i <= Len(fmt) THEN fmt[i] ELSE "\\0"

(* The decimal number at fmt[i] and the place after it. *)
Number(fmt, i) ==
  LET RECURSIVE read(_, _)
      read(j, n) == IF isdigit(At(fmt, j)) THEN read(j + 1, 10 * n + DigitValue[fmt[j]])
                    ELSE [value |-> n, at |-> j]
  IN  read(i, 0)

-------------------------------------------------------------------------------
(* The fetch_ functions: each reads its part of the directive dir from        *)
(* fmt[dir.at] on.  vabort sets dir.aborts and the rest does not matter.      *)
none == -2   \* INT_MIN, no width or precision
star == -1

(* prev is the sequence of the directives before this one. *)
fetch_format_argno(fmt, dir, prev, ind) ==
  IF At(fmt, dir.at) = "0" THEN dir
  ELSE LET argno == Number(fmt, dir.at)
           expl == At(fmt, argno.at) = "$"
       IN  [dir EXCEPT
              !.index = IF expl THEN argno.value - 1 ELSE ind,
              !.expl = expl,
              !.at = IF expl THEN argno.at + 1 ELSE dir.at,
              !.aborts = prev # <<>> /\ Last(prev).expl # expl]

fetch_format_flags(fmt, dir) ==
  LET RECURSIVE read(_)
      read(d) == LET ch == At(fmt, d.at)
                 IN  IF ch \notin flag_chars THEN d
                     ELSE read([d EXCEPT !.flags = @ \cup {ch}, !.at = @ + 1,
                                         !.aborts = @ \/ ch \in d.flags])
  IN  read(dir)

fetch_format_field_width(fmt, dir) ==
  IF At(fmt, dir.at) = "*" THEN [dir EXCEPT !.field_width = star, !.at = @ + 1]
  ELSE IF isdigit(At(fmt, dir.at))
  THEN LET n == Number(fmt, dir.at)
       IN  [dir EXCEPT !.field_width = n.value, !.at = n.at,
                       !.aborts = @ \/ fmt[dir.at] = "0"]
  ELSE dir

fetch_format_precision(fmt, dir) ==
  IF At(fmt, dir.at) # "." THEN dir
  ELSE IF At(fmt, dir.at + 1) = "*" THEN [dir EXCEPT !.precision = star, !.at = @ + 2]
  ELSE LET n == Number(fmt, dir.at + 1)
       IN  [dir EXCEPT !.precision = n.value, !.at = n.at]

fetch_format_length(fmt, dir) ==
  LET ch == At(fmt, dir.at)
      mod == ch \in length_chars
      extended == ch \in {"h", "l"} /\ At(fmt, dir.at + 1) = ch
      at == dir.at + (IF mod THEN 1 ELSE 0) + (IF extended THEN 1 ELSE 0)
  IN  [dir EXCEPT !.mod = IF mod THEN ch ELSE "", !.extended = extended,
                  !.specifier = At(fmt, at), !.at = at + 1,
                  !.aborts = @ \/ At(fmt, at) \notin specifier_chars]

NewDirective(at) ==
  [at |-> at, aborts |-> FALSE, index |-> 0, expl |-> FALSE, flags |-> {},
   field_width |-> none, precision |-> none, mod |-> "", extended |-> FALSE,
   specifier |-> ""]

(* directive[len+1] = 0 is the low byte of arg.index when len is at its limit. *)
SaveText(dir, start) ==
  IF dir.at - start < DIRECTIVE - 1 THEN dir
  ELSE [dir EXCEPT !.index = 256 * (@ \div 256)]

fetch_directive(fmt, i, prev) ==
  LET no == fetch_format_argno(fmt, NewDirective(i + 1), prev, Len(prev))
      flags == fetch_format_flags(fmt, no)
      width == fetch_format_field_width(fmt, flags)
      precision == fetch_format_precision(fmt, width)
  IN  SaveText(fetch_format_length(fmt, precision), i)

(* The directives of a format; the last one aborts if parsing did. *)
get_format_directives(fmt) ==
  LET RECURSIVE from(_, _)
      from(i, dirs) ==
        IF i > Len(fmt) THEN dirs
        ELSE IF fmt[i] # "%" THEN from(i + 1, dirs)
        ELSE IF At(fmt, i + 1) = "%" THEN from(i + 2, dirs)
        ELSE LET dir == fetch_directive(fmt, i, dirs)
             IN  IF dir.aborts THEN Append(dirs, dir)
                 ELSE from(dir.at, Append(dirs, dir))
  IN  from(1, <<>>)

-------------------------------------------------------------------------------
integers == {"d", "i", "o", "u", "x", "X"}
doubles == {"a", "A", "e", "E", "f", "F", "g", "G"}

(* Wrong: ll falls under the rule for l. *)
LongLongLikeLong(dir) ==
  /\ "'" \in dir.flags => dir.specifier \in {"i", "d", "u", "f", "F", "g", "G"}
  /\ "#" \in dir.flags => dir.specifier \in doubles \cup {"o", "x", "X"}
  /\ "0" \in dir.flags => dir.specifier \in integers \cup doubles
  /\ dir.specifier = "n" => dir.flags = {} /\ dir.field_width = none
  /\ dir.precision # none => dir.specifier \in integers \cup doubles \cup {"s"}
  /\ dir.mod = "l" => dir.specifier \in integers \cup doubles \cup {"n", "c", "s"}
  /\ dir.mod \in {"h", "j", "z", "t"} => dir.specifier \in integers \cup {"n"}
  /\ dir.mod = "L" => dir.specifier \in doubles

(* A directive is well formed; the case of ll falls through to that of h. *)
validate_applications(dir) ==
  /\ "'" \in dir.flags => dir.specifier \in {"i", "d", "u", "f", "F", "g", "G"}
  /\ "#" \in dir.flags => dir.specifier \in doubles \cup {"o", "x", "X"}
  /\ "0" \in dir.flags => dir.specifier \in integers \cup doubles
  /\ dir.specifier = "n" => dir.flags = {} /\ dir.field_width = none
  /\ dir.precision # none => dir.specifier \in integers \cup doubles \cup {"s"}
  /\ dir.mod = "l" /\ ~dir.extended =>
       dir.specifier \in integers \cup doubles \cup {"n", "c", "s"}
  /\ dir.mod \in {"h", "j", "z", "t"} \/ dir.extended => dir.specifier \in integers \cup {"n"}
  /\ dir.mod = "L" => dir.specifier \in doubles

(* intmax_t, size_t and ptrdiff_t have the size of long. *)
infer_integral_abbr(dir, sgn) ==
  CASE dir.mod = "l" -> IF dir.extended THEN IF sgn THEN "r" ELSE "R"
                        ELSE IF sgn THEN "l" ELSE "L"
    [] dir.mod = "h" -> "d"
    [] dir.mod \in {"j", "z", "t"} -> size2abbri(sizeof_long, sgn)
    [] dir.mod = "" -> IF sgn THEN "d" ELSE "D"

infer_n_abbr(dir) ==
  CASE dir.mod = "h" -> IF dir.extended THEN "s" ELSE "q"
    [] dir.mod = "l" -> IF dir.extended THEN "w" ELSE "z"
    [] dir.mod \in {"j", "t"} -> abbr2ptr(size2abbri(sizeof_long, TRUE))
    [] dir.mod = "z" -> abbr2ptr(size2abbri(sizeof_long, FALSE))
    [] dir.mod = "" -> "i"

(* The type that validate_format expects; wint_t is unsigned, wchar_t signed. *)
expected_t(dir) ==
  CASE dir.specifier \in {"d", "i"} -> infer_integral_abbr(dir, TRUE)
    [] dir.specifier \in {"o", "u", "x", "X"} -> infer_integral_abbr(dir, FALSE)
    [] dir.specifier \in doubles -> IF dir.mod = "L" THEN "E" ELSE "e"
    [] dir.specifier = "c" -> IF dir.mod = "l" THEN size2abbri(sizeof_int, FALSE) ELSE "d"
    [] dir.specifier = "s" -> IF dir.mod = "l" THEN abbr2ptr(size2abbri(sizeof_int, TRUE))
                              ELSE "s"
    [] dir.specifier = "p" -> "p"
    [] dir.specifier = "n" -> infer_n_abbr(dir)

(* args[index] of the code, which fetches every argument as a pointer.  On    *)
(* x86-64 this takes the next general-purpose register, and an argument of a  *)
(* floating type is not in one: after one, the address is that of a later     *)
(* argument or, where there is none, the rest that a register holds.          *)
floating == {"f", "e", "E"}
va_arg(args, index, rest) ==
  LET slots == SelectSeq(args, LAMBDA a : a.t \notin floating)
  IN  IF index < Len(slots) THEN slots[index + 1] ELSE rest

(* The checks of one directive; buffer says whether there is one to overlap. *)
validate_directive(dir, args, rest, buffer) ==
  /\ validate_applications(dir)
  /\ dir.index < Len(args)
  /\ args[dir.index + 1].t = expected_t(dir)
  /\ LET addr == va_arg(args, dir.index, rest)
     IN  dir.specifier \in {"s", "p", "n"} => addr.valid /\ (buffer => addr.clear)

(* fmt is a valid string here; no check past the first that fails is made. *)
validate_format(c, buffer) ==
  \A dir \in Range(get_format_directives(c.fmt)) :
    ~dir.aborts /\ validate_directive(dir, c.args, c.rest, buffer)

-------------------------------------------------------------------------------
(* The replacements.  ready: the stream is valid and open for fprintf, the    *)
(* descriptor is open for dprintf, and the buffer can take the output for     *)
(* sprintf, the given size for snprintf.                                      *)
builtin_printf(c) == validate_format(c, FALSE)
builtin_syslog(c) == validate_format(c, FALSE)
builtin_fprintf(c) == c.ready /\ validate_format(c, FALSE)
builtin_dprintf(c) == c.ready /\ validate_format(c, FALSE)
builtin_sprintf(c) == c.ready /\ validate_format(c, TRUE)
builtin_snprintf(c) == validate_format(c, TRUE) /\ (c.size > 0 => c.ready)

(* A directive as it is written: its parts in the order of C99. *)
Written(w) == <<"%">> \o w.no \o w.flags \o w.width \o w.precision \o w.length
              \o <<w.specifier>>
Format(items) == FoldLeft(LAMBDA fmt, w : fmt \o Written(w) \o <<",", "%", "%">>, <<>>, items)

Arguments == [t : Types, valid : {TRUE}, clear : {TRUE}]
             \cup [t : {"s", "p", "i"}, valid : BOOLEAN, clear : BOOLEAN]
Good(t) == [t |-> t, valid |-> TRUE, clear |-> TRUE]
Bad == [t |-> "s", valid |-> FALSE, clear |-> TRUE]

Calling(fs, items, args, ready, size) ==
  \E f \in fs, i \in items, a \in args, r \in ready, n \in size, v \in BOOLEAN :
    /\ v \/ \E x \in Range(a) : x.t \in floating
    /\ call = [f |-> f, items |-> i, fmt |-> Format(i), args |-> a, ready |-> r, size |-> n,
               rest |-> [t |-> "p", valid |-> v, clear |-> v]]

Init ==
  /\ result = <<>>
  /\ \/ Calling({"builtin_printf"}, {<<w>> : w \in Plain},
                {<<Good(t)>> : t \in {"d", "D", "e", "s", "i", "p"}}, {TRUE}, {0})
     \/ Calling({"builtin_printf", "builtin_sprintf"}, {<<w>> : w \in Typed},
                {<<a>> : a \in Arguments} \cup {<<>>}, {TRUE}, {0})
     \/ Calling({"builtin_printf"}, Numbered \X Numbered,
                {<<a, b>> : a, b \in {Good("d"), Good("s"), Good("e"), Bad}},
                {TRUE}, {0})
     \/ Calling({"builtin_fprintf", "builtin_dprintf", "builtin_sprintf",
                 "builtin_snprintf", "builtin_syslog"},
                {<<w>> : w \in {x \in Typed : x.specifier = "s"}},
                {<<a>> : a \in [t : {"s"}, valid : BOOLEAN, clear : BOOLEAN]},
                BOOLEAN, {0, 1})

Checked(f, accepted) ==
  /\ call.f = f /\ result = <<>> /\ UNCHANGED call
  /\ result' = <<IF accepted THEN "printed" ELSE "aborted">>

Next ==
  \/ Checked("builtin_printf", builtin_printf(call))
  \/ Checked("builtin_fprintf", builtin_fprintf(call))
  \/ Checked("builtin_dprintf", builtin_dprintf(call))
  \/ Checked("builtin_sprintf", builtin_sprintf(call))
  \/ Checked("builtin_snprintf", builtin_snprintf(call))
  \/ Checked("builtin_syslog", builtin_syslog(call))

Spec == Init /\ [][Next]_<<call, result>>

Printers == {"builtin_printf", "builtin_fprintf", "builtin_dprintf",
             "builtin_sprintf", "builtin_snprintf", "builtin_syslog"}
Done == call.f \in Printers /\ result # <<>>

-------------------------------------------------------------------------------
(* What C99 says of a written directive. *)
Stars(w) == (IF w.width = <<"*">> THEN 1 ELSE 0) + (IF w.precision = <<".", "*">> THEN 1 ELSE 0)
Flags(w) == {w.flags[i] : i \in DOMAIN w.flags}
Explicit(w) == w.no # <<>>

(* Position of the argument of the k-th directive. *)
Argument(items, k) ==
  IF Explicit(items[k]) THEN DigitValue[items[k].no[1]]
  ELSE k + FoldLeft(LAMBDA n, w : n + Stars(w), 0, SubSeq(items, 1, k))

(* No argument of a floating type before the one at `at'. *)
InOrder(args, at) == \A i \in 1..(at - 1) : args[i].t \notin floating

(* Directives whose argument is looked up where C99 says: not those that      *)
(* start with the flag 0, that take their width or precision from an          *)
(* argument, or whose text is cut.                                            *)
Located(w) ==
  /\ w.flags = <<>> \/ w.flags[1] # "0" \/ Explicit(w)
  /\ Len(Written(w)) < DIRECTIVE - 1
AllLocated == \A k \in DOMAIN call.items : Located(call.items[k]) /\ Stars(call.items[k]) = 0

Decimal(text) == FoldLeft(LAMBDA n, ch : 10 * n + DigitValue[ch], 0, text)
WrittenWidth(w) == CASE w.width = <<>> -> none
                     [] w.width = <<"*">> -> star
                     [] OTHER -> Decimal(w.width)
WrittenPrecision(w) == CASE w.precision = <<>> -> none
                         [] w.precision = <<".", "*">> -> star
                         [] OTHER -> Decimal(Tail(w.precision))

(* A format is parsed into the directives it was written with, in their       *)
(* order, none made from the text between them, each with its flags, width,   *)
(* precision and length and referring to the argument that printf reads for   *)
(* it.                                                                        *)
ParsedAsWritten ==
  Done /\ call.f = "builtin_printf" =>
    LET dirs == get_format_directives(call.fmt)
    IN  (\A k \in DOMAIN dirs : ~dirs[k].aborts) =>
          /\ Len(dirs) = Len(call.items)
          /\ \A k \in DOMAIN dirs :
               LET d == dirs[k]  w == call.items[k]
               IN  /\ d.flags = Flags(w) /\ d.specifier = w.specifier
                   /\ d.field_width = WrittenWidth(w) /\ d.precision = WrittenPrecision(w)
                   /\ w.length = IF d.extended THEN <<d.mod, d.mod>>
                                 ELSE IF d.mod = "" THEN <<>> ELSE <<d.mod>>
                   /\ AllLocated => d.index + 1 = Argument(call.items, k)

(* What printf takes for a directive: the kind and size of the argument, and  *)
(* for a pointer the size of what is read or written there (0 for p).         *)
Integer99(length) ==
  IF length \in {<<>>, <<"h">>, <<"h", "h">>} THEN 4 ELSE 8
Stored99(length) ==
  CASE length = <<"h", "h">> -> 1 [] length = <<"h">> -> 2 [] length = <<>> -> 4 [] OTHER -> 8
Takes99(w) ==
  CASE w.specifier \in integers /\ w.length # <<"L">> -> <<"int", Integer99(w.length)>>
    [] w.specifier \in doubles /\ w.length \in {<<>>, <<"l">>} -> <<"float", 8>>
    [] w.specifier \in doubles /\ w.length = <<"L">> -> <<"float", 16>>
    [] w.specifier = "c" /\ w.length \in {<<>>, <<"l">>} -> <<"int", 4>>
    [] w.specifier = "s" /\ w.length = <<>> -> <<"pointer", 1>>
    [] w.specifier = "s" /\ w.length = <<"l">> -> <<"pointer", 4>>
    [] w.specifier = "p" /\ w.length = <<>> -> <<"pointer", 0>>
    [] w.specifier = "n" /\ w.length # <<"L">> -> <<"pointer", Stored99(w.length)>>
    [] OTHER -> <<"undefined", 0>>
OfType(t) ==
  CASE t \in {"c", "C"} -> <<"int", 1>>
    [] t \in {"h", "H"} -> <<"int", 2>>
    [] t \in {"d", "D"} -> <<"int", 4>>
    [] t \in {"l", "L", "r", "R"} -> <<"int", 8>>
    [] t = "f" -> <<"float", 4>>
    [] t = "e" -> <<"float", 8>>
    [] t = "E" -> <<"float", 16>>
    [] t \in {"s", "S"} -> <<"pointer", 1>>
    [] t \in {"q", "Q"} -> <<"pointer", 2>>
    [] t \in {"i", "I"} -> <<"pointer", 4>>
    [] t \in {"z", "Z", "w", "W"} -> <<"pointer", 8>>
    [] t = "p" -> <<"pointer", 0>>

(* A call that is let through gives every directive an argument of the kind   *)
(* and size that printf will take from the list, and what printf reads or     *)
(* writes through it is valid memory, apart from the output buffer, which is  *)
(* large enough.  Of an argument after one of a floating type only the type   *)
(* is known: the memory that was queried is another argument's.               *)
ArgumentsFit ==
  Done /\ result[1] = "printed" /\ AllLocated =>
    /\ \A k \in DOMAIN call.items :
         LET w == call.items[k]
             at == Argument(call.items, k)
         IN  /\ at \in DOMAIN call.args
             /\ OfType(call.args[at].t) = Takes99(w)
             /\ w.specifier \in {"s", "n"} /\ InOrder(call.args, at) =>
                  /\ call.args[at].valid
                  /\ call.f \in {"builtin_sprintf", "builtin_snprintf"} => call.args[at].clear
    /\ call.f \in {"builtin_sprintf", "builtin_fprintf", "builtin_dprintf"} => call.ready
    /\ call.f = "builtin_snprintf" /\ call.size > 0 => call.ready

(* "the types of variadic arguments provided via a call match the types       *)
(* expected by the respective format directives": also for a directive that   *)
(* starts with the flag 0, which validate_format compares with the first      *)
(* argument.                                                                  *)
RespectiveArguments ==
  Done /\ result[1] = "aborted" /\ call.f = "builtin_printf" =>
    \E k \in DOMAIN call.items :
      LET w == call.items[k]
          at == Argument(call.items, k)
          d == fetch_directive(Written(w), 1, <<>>)
      IN  \/ Stars(w) > 0 \/ at \notin DOMAIN call.args
          \/ d.aborts \/ ~validate_applications(d)
          \/ call.args[at].t # expected_t(d) \/ ~call.args[at].valid
          \/ ~InOrder(call.args, at)
          \/ Explicit(w) # Explicit(call.items[1])
===============================================================================
