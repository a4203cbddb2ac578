------------------------------ MODULE RtlPrintf -------------------------------
(* The stdio-free printf of the E-ACSL runtime (e_acsl_printf.h), with which  *)
(* every message of the monitor is written: the conversions of numbers to     *)
(* text and the interpretation of a format.  A text is a sequence of          *)
(* one-character strings; words have IntBits and LongBits bits.  The buffer   *)
(* bf of 256 characters in which _format converts an argument has no bound    *)
(* here: every number fits it, and the bits of %b and %B, at most 64; those   *)
(* of %v and %V do up to a width of 204, and no width is checked.             *)
EXTENDS Integers, Sequences, SequencesExt

CONSTANTS
  IntBits, LongBits,
  Numbers,     \* arguments of the directives
  Widths,      \* field widths, as sequences of digits
  Doubles      \* doubles, in thousandths

VARIABLES call, result

UINT == 2^IntBits
ULONG == 2^LongBits

Digit == <<"0", "1", "2", "3", "4", "5", "6", "7", "8", "9",
           "a", "b", "c", "d", "e", "f">>
Upper == <<"0", "1", "2", "3", "4", "5", "6", "7", "8", "9",
           "A", "B", "C", "D", "E", "F">>

-------------------------------------------------------------------------------
(* while (num/d >= base) d *= base; *)
FirstPower(num, base) ==
  LET RECURSIVE grow(_)
      grow(d) == IF num \div d >= base THEN grow(d * base) ELSE d
  IN  grow(1)

(* uli2a and ui2a: num is the unsigned word of the conversion. *)
ui2a(num, base, uc) ==
  LET RECURSIVE digits(_, _, _)
      digits(rest, d, bf) ==
        IF d = 0 THEN bf
        ELSE LET dgt == rest \div d
                 shown == bf # <<>> \/ dgt > 0 \/ d \div base = 0
             IN  digits(rest % d, d \div base,
                        IF shown THEN Append(bf, IF uc THEN Upper[dgt + 1] ELSE Digit[dgt + 1])
                        ELSE bf)
  IN  digits(num, FirstPower(num, base), <<>>)

(* Wrong: the negated number is kept in a signed word. *)
SignedMinus(num, word) ==
  IF num < 0 THEN <<"-">> \o ui2a((-num) % (word \div 2), 10, FALSE)
  ELSE ui2a(num, 10, FALSE)

(* li2a and i2a, for a signed word of the given range: -num wraps. *)
i2a(num, word) ==
  IF num < 0 THEN <<"-">> \o ui2a((-num) % word, 10, FALSE)
  ELSE ui2a(num, 10, FALSE)

ptr2a(p) == <<"0", "x">> \o ui2a(p, 16, FALSE)

addr2a(addr) ==
  LET RECURSIVE digits(_, _, _, _)
      digits(rest, d, left, bf) ==
        IF d = 0 THEN bf
        ELSE LET next == Append(bf, Digit[rest \div d + 1])
             IN  digits(rest % d, d \div 10, left - 1,
                        IF (left - 1) % 5 = 0 /\ d \div 10 # 0 THEN Append(next, "-")
                        ELSE next)
      number == ui2a(addr, 10, FALSE)
  IN  <<"0", "x">> \o digits(addr, FirstPower(addr, 10), Len(number), <<>>)

Bit(v, i) == IF (v \div 2^i) % 2 = 1 THEN "1" ELSE "0"

(* The order of the bits, and the bits after which a space is put. *)
BitText(v, order, Space(_)) ==
  FoldLeft(LAMBDA bf, i : Append(bf, Bit(v, i)) \o (IF Space(i) THEN <<" ">> ELSE <<>>),
           <<>>, order)
LowFirst(size) == [k \in 1..size |-> k - 1]
HighFirst(size) == [k \in 1..size |-> size - k]

bits2a(v, size, l2r) ==
  IF l2r THEN BitText(v, LowFirst(size),
                      LAMBDA i : i # 0 /\ i + 1 < size /\ (i + 1) % 8 = 0)
  ELSE BitText(v, HighFirst(size), LAMBDA i : i # 0 /\ i + 1 < size /\ i % 4 = 0)

(* v is the little-endian value of the bytes that p points to. *)
pbits2a(v, size, l2r) ==
  IF l2r THEN BitText(v, LowFirst(size),
                      LAMBDA i : i # 0 /\ i + 1 < size /\ (i + 1) % 4 = 0)
  ELSE BitText(v, HighFirst(size), LAMBDA i : i # 0 /\ i + 1 < size /\ i % 4 = 0)

-------------------------------------------------------------------------------
a2d(ch) ==
  LET at(s) == {k \in 1..16 : s[k] = ch}
  IN  IF at(Digit) # {} THEN (CHOOSE k \in at(Digit) : TRUE) - 1
      ELSE IF at(Upper) # {} THEN (CHOOSE k \in at(Upper) : TRUE) - 1
      ELSE -1

At(fmt, i) == IF i <= Len(fmt) THEN fmt[i] ELSE "\\0"

(* From fmt[i] on: the number read and the place of the first character after. *)
a2i(fmt, i, base) ==
  LET RECURSIVE read(_, _)
      read(j, num) ==
        LET digit == a2d(At(fmt, j))
        IN  IF digit < 0 \/ digit > base THEN [num |-> num, at |-> j]
            ELSE read(j + 1, num * base + digit)
  IN  read(i, 0)

putchw(n, z, bf) ==
  [k \in 1..(IF n > Len(bf) THEN n - Len(bf) ELSE 0) |-> IF z THEN "0" ELSE " "] \o bf

(* (int)x of a double in thousandths *)
Truncate(x) == IF x < 0 THEN -((-x) \div 1000) ELSE x \div 1000

(* The number of bits shown by %b and %B, and by %v and %V. *)
AtMost64(w) == IF w > 64 THEN 64 ELSE IF w # 0 THEN w ELSE 8
OrByte(w) == IF w # 0 THEN w ELSE 8

Directive(ch, lng, w, lz, arg) ==
  LET word == IF lng THEN ULONG ELSE UINT
      signed == LET u == arg % word IN IF u >= word \div 2 THEN u - word ELSE u
  IN  CASE ch = "u" -> putchw(w, lz, ui2a(arg % word, 10, FALSE))
        [] ch = "d" -> putchw(w, lz, i2a(signed, word))
        [] ch = "p" -> putchw(w, lz, ptr2a(arg % ULONG))
        [] ch = "a" -> putchw(w, lz, addr2a(arg % ULONG))
        [] ch = "b" -> bits2a(arg, AtMost64(w), TRUE)
        [] ch = "B" -> bits2a(arg, AtMost64(w), FALSE)
        [] ch = "v" -> pbits2a(arg, OrByte(w), TRUE)
        [] ch = "V" -> pbits2a(arg, OrByte(w), FALSE)
        [] ch \in {"x", "X"} -> putchw(w, lz, ui2a(arg % word, 16, ch = "X"))
        [] ch = "f" -> LET ord == Truncate(arg)
                       IN  putchw(w, lz, i2a(ord, UINT)) \o <<".">>
                           \o putchw(w, lz, i2a(arg - ord * 1000, UINT))
        [] ch = "c" -> <<arg>>
        [] ch = "s" -> putchw(w, FALSE, arg)
        [] ch = "%" -> <<"%">>
        [] OTHER -> <<>>

(* The directives that take an argument. *)
Takes(ch) == ch \in {"u", "d", "p", "a", "b", "B", "v", "V", "x", "X", "f", "c", "s"}

RECURSIVE _format(_, _, _, _)
_format(fmt, i, va, out) ==
  IF At(fmt, i) = "\\0" THEN out
  ELSE IF fmt[i] # "%" THEN _format(fmt, i + 1, va, Append(out, fmt[i]))
  ELSE LET lz == At(fmt, i + 1) = "0"
           after0 == IF lz THEN i + 2 ELSE i + 1
           width == IF a2d(At(fmt, after0)) \in 0..9 THEN a2i(fmt, after0, 10)
                    ELSE [num |-> 0, at |-> after0]
           lng == At(fmt, width.at) = "l"
           at == IF lng THEN width.at + 1 ELSE width.at
           ch == At(fmt, at)
           text == Directive(ch, lng, width.num, lz, IF Takes(ch) THEN Head(va) ELSE 0)
       IN  _format(fmt, at + 1, IF Takes(ch) THEN Tail(va) ELSE va, out \o text)

-------------------------------------------------------------------------------
(* rtl_printf("<%...|%u>", arg, 7) for every directive and argument in the    *)
(* bounds.  A width before a is left out: a2i takes the a for a digit.        *)
OfNumber == {"u", "d", "p", "x", "X", "b", "B", "v", "V"}
Letters == {<<>>, <<"e">>, <<"e", "r", "r", "o", "r">>}

Flagged(chs, widths, args) ==
  \E ch \in chs, lz \in BOOLEAN, lng \in BOOLEAN, width \in widths, arg \in args :
    call = [f |-> "rtl_printf", ch |-> ch, lz |-> lz, lng |-> lng,
            width |-> width, arg |-> arg]

Init ==
  /\ result = <<>>
  /\ \/ Flagged(OfNumber, Widths, Numbers)
     \/ Flagged({"a"}, {<<>>}, Numbers \cap Nat)
     \/ Flagged({"f"}, Widths, Doubles)
     \/ Flagged({"s"}, Widths, Letters)
     \/ Flagged({"c"}, Widths, {"e"})
     \/ Flagged({"%"}, Widths, {0})

Format(c) ==
  <<"<", "%">> \o (IF c.lz THEN <<"0">> ELSE <<>>) \o c.width
  \o (IF c.lng THEN <<"l">> ELSE <<>>) \o <<c.ch, "|", "%", "u", ">">>

rtl_printf ==
  /\ call.f = "rtl_printf" /\ result = <<>>
  /\ LET va == IF Takes(call.ch) THEN <<call.arg, 7>> ELSE <<7>>
     IN  result' = <<_format(Format(call), 1, va, <<>>)>>
  /\ UNCHANGED call

Next == rtl_printf

Spec == Init /\ [][Next]_<<call, result>>

Done(F) == call.f = "rtl_printf" /\ call.ch \in F /\ result # <<>>

(* What the directive itself printed: the output without its frame. *)
Printed == SubSeq(result[1], 2, Len(result[1]) - 3)

Width == FoldLeft(LAMBDA n, ch : 10 * n + a2d(ch), 0, call.width)
ValueOf(text, base) == FoldLeft(LAMBDA n, ch : base * n + a2d(ch), 0, text)
Spells(text, num, base) ==
  /\ Len(text) > 0 /\ (Len(text) > 1 => text[1] # "0")
  /\ \A i \in DOMAIN text : a2d(text[i]) \in 0..(base - 1)
  /\ ValueOf(text, base) = num
SpellsSigned(text, num) ==
  IF num < 0 THEN text # <<>> /\ text[1] = "-" /\ Spells(Tail(text), -num, 10)
  ELSE Spells(text, num, 10)
Padded(text, w, z, Right(_)) ==
  /\ Len(text) >= w
  /\ \E k \in 0..Len(text) :
       /\ \A i \in 1..k : text[i] = IF z THEN "0" ELSE " "
       /\ k > 0 => Len(text) = w
       /\ Right(SubSeq(text, k + 1, Len(text)))

(* What a directive prints reads back as its argument, in the base and with   *)
(* the sign of the directive, down to the smallest number of its type, and is *)
(* padded to the width and no further.  It is followed by the rest of the     *)
(* format, printed with the arguments that are left.  Of %f, which prints a   *)
(* fraction of .05 as .50, and of %c only the latter is claimed.              *)
NumbersReadBack ==
  LET n == Len(result[1])
      word == IF call.lng THEN ULONG ELSE UINT
      u == call.arg % word
      base == IF call.ch \in {"x", "X"} THEN 16 ELSE 10
  IN  /\ call.f = "rtl_printf" /\ result # <<>> =>
           result[1][1] = "<" /\ SubSeq(result[1], n - 2, n) = <<"|", "7", ">">>
      /\ Done({"u", "x", "X"}) =>
           Padded(Printed, Width, call.lz, LAMBDA t : Spells(t, u, base))
      /\ Done({"d"}) =>
           Padded(Printed, Width, call.lz,
                  LAMBDA t : SpellsSigned(t, IF 2 * u >= word THEN u - word ELSE u))
      /\ Done({"p"}) =>
           Padded(Printed, Width, call.lz, LAMBDA t :
                  SubSeq(t, 1, 2) = <<"0", "x">>
                  /\ Spells(SubSeq(t, 3, Len(t)), call.arg % ULONG, 16))
      /\ Done({"a"}) =>
           Spells(SelectSeq(SubSeq(Printed, 3, Len(Printed)), LAMBDA ch : ch # "-"),
                  call.arg % ULONG, 10)
      /\ Done({"s"}) => Padded(Printed, Width, FALSE, LAMBDA t : t = call.arg)

(* The bit directives print as many bits as the width says, in the order      *)
(* they promise, whatever spaces they put between them.                       *)
BitsReadBack ==
  Done({"b", "B", "v", "V"}) =>
    LET bits == SelectSeq(Printed, LAMBDA ch : ch # " ")
        size == IF Width = 0 THEN 8 ELSE Width
        low == IF call.ch \in {"b", "v"} THEN bits ELSE Reverse(bits)
    IN  Len(bits) = size /\ \A i \in 1..size : low[i] = Bit(call.arg, i - 1)
===============================================================================
