-------------------------------- MODULE Words ---------------------------------
(* Computations on machine words: the index arithmetic of dlmalloc's bins in  *)
(* its portable form, the bit macros and bit arrays of e_acsl_bits.h, the byte  *)
(* swaps of byteswap.h, and the bindings to floating-point words and modes    *)
(* that Frama-C's abstract domains rest on (c_bindings.c).  Words are         *)
(* naturals below 2^w, so x >> k is x \div 2^k and unsigned arithmetic is      *)
(* taken modulo 2^w.                                                          *)
EXTENDS Integers, Sequences, Bitwise

CONSTANTS
  TREEBIN_SHIFT, NTREEBINS, \* of dlmalloc
  Sizes,                    \* chunk sizes
  MapBits,                  \* width of a bin map
  BYTE,                     \* bits of a byte
  WORD,                     \* bits of a word of a bit array
  ExpBits, ManBits          \* of a floating-point word

VARIABLES call, result

-------------------------------------------------------------------------------
Minus(x, w) == (2^w - x) % 2^w

least_bit(x) == x & Minus(x, MapBits)
left_bits(x) ==
  LET y == (2 * x) % 2^MapBits IN y | Minus(y, MapBits)
same_or_left_bits(x) == x | Minus(x, MapBits)

(* Bit k of x, for x that may have gone below zero: unsigned words wrap. *)
BitAt(x, k) == (x \div 2^k) % 2

(* Wrong: the last bit is dropped. *)
LastBitDropped(X) ==
  LET Y0 == X - 1
      K1 == 16 * BitAt(Y0 \div 2^12, 4)  Y1 == Y0 \div 2^K1
      K2 == 8 * BitAt(Y1 \div 2^5, 3)    Y2 == Y1 \div 2^K2
      K3 == 4 * BitAt(Y2 \div 2^2, 2)    Y3 == Y2 \div 2^K3
      K4 == 2 * BitAt(Y3 \div 2^1, 1)    Y4 == Y3 \div 2^K4
      K5 == BitAt(Y4 \div 2, 0)
  IN  K1 + K2 + K3 + K4 + K5

(* The index of the only bit of X, by halving. *)
compute_bit2idx(X) ==
  LET Y0 == X - 1
      K1 == 16 * BitAt(Y0 \div 2^12, 4)  Y1 == Y0 \div 2^K1
      K2 == 8 * BitAt(Y1 \div 2^5, 3)    Y2 == Y1 \div 2^K2
      K3 == 4 * BitAt(Y2 \div 2^2, 2)    Y3 == Y2 \div 2^K3
      K4 == 2 * BitAt(Y3 \div 2^1, 1)    Y4 == Y3 \div 2^K4
      K5 == BitAt(Y4 \div 2, 0)
  IN  K1 + K2 + K3 + K4 + K5 + (Y4 \div 2^K5)

(* The bin of size S, with the number of leading zeros of X by halving. *)
compute_tree_index(S) ==
  LET X == S \div 2^TREEBIN_SHIFT
      N1 == 8 * BitAt((X - 256) \div 2^16, 3)
      Y1 == X * 2^N1
      K1 == 4 * BitAt((Y1 - 4096) \div 2^16, 2)
      Y2 == Y1 * 2^K1
      K2 == 2 * BitAt((Y2 - 16384) \div 2^16, 1)
      Y3 == Y2 * 2^K2
      K == 14 - (N1 + K1 + K2) + (Y3 \div 2^15)
  IN  IF X = 0 THEN 0
      ELSE IF X > 65535 THEN NTREEBINS - 1
      ELSE 2 * K + BitAt(S, K + TREEBIN_SHIFT - 1)

minsize_for_tree_index(i) ==
  2^((i \div 2) + TREEBIN_SHIFT) | ((i % 2) * 2^((i \div 2) + TREEBIN_SHIFT - 1))

-------------------------------------------------------------------------------
(* One bit of a word of MapBits bits. *)
setbit(bit, x) == x | 2^bit
clearbit(bit, x) == x & (2^MapBits - 1 - 2^bit)
checkbit(bit, x) == (x \div 2^bit) & 1
togglebit(bit, x) == x ^^ (2^bit)
changebit(bit, val, x) == x ^^ ((Minus(val, MapBits) ^^ x) & 2^bit)

(* Arrays of bits. *)
Arrays == INSTANCE Bits

-------------------------------------------------------------------------------
(* Byte k of x, moved to byte j. *)
Moved(x, k, j) == ((x \div 2^(BYTE * k)) % 2^BYTE) * 2^(BYTE * j)

bswap_16(x) == Moved(x, 1, 0) | Moved(x, 0, 1)

bswap_32(x) ==
  Moved(x, 3, 0) | (Moved(x, 2, 1) | (Moved(x, 1, 2) | Moved(x, 0, 3)))

bswap_constant_64(x) ==
  Moved(x, 7, 0) | (Moved(x, 6, 1) | (Moved(x, 5, 2) | (Moved(x, 4, 3)
  | (Moved(x, 3, 4) | (Moved(x, 2, 5) | (Moved(x, 1, 6) | Moved(x, 0, 7)))))))

(* The halves of a word that is not a constant. *)
bswap_64(x) ==
  LET low == x % 2^(4 * BYTE)
      high == x \div 2^(4 * BYTE)
  IN  bswap_32(high) + bswap_32(low) * 2^(4 * BYTE)

-------------------------------------------------------------------------------
(* A floating-point word: sign, exponent and mantissa.                        *)
FloatBits == 1 + ExpBits + ManBits
SignBit == 2^(FloatBits - 1)
AsSigned(x) == IF x >= SignBit THEN x - 2^FloatBits ELSE x

(* ((uint64_t)(x >> 63)) >> 1 *)
FlipMask(x) == IF x >= SignBit THEN SignBit - 1 ELSE 0

float_compare_total(x, y) ==
  IF x = y THEN 0
  ELSE IF AsSigned(x ^^ FlipMask(x)) < AsSigned(y ^^ FlipMask(y)) THEN -1
  ELSE 1

float_is_negative(x) == x \div SignBit

-------------------------------------------------------------------------------
Unary(fs, xs) == \E f \in fs, x \in xs : call = [f |-> f, x |-> x, y |-> 0]

Init ==
  /\ result = <<>>
  /\ \/ Unary({"compute_tree_index"}, Sizes)
     \/ Unary({"compute_bit2idx"}, {2^i : i \in 0..29})
     \/ Unary({"binmap"}, 1..(2^MapBits - 1))
     \/ call \in [f : {"bit"}, x : 0..(2^MapBits - 1), y : 0..(MapBits - 1)]
     \/ call \in [f : {"bits"}, x : 0..(3 * WORD), y : 0..(WORD - 1)]
     \/ Unary({"bswap_16"}, 0..(2^(2 * BYTE) - 1))
     \/ Unary({"bswap_32"}, 0..(2^(4 * BYTE) - 1))
     \/ Unary({"bswap_64"}, 0..(2^(8 * BYTE) - 1))
     \/ call \in [f : {"float_compare_total"},
                  x : 0..(2^FloatBits - 1), y : 0..(2^FloatBits - 1)]

(* An array of bits in the middle of others, and its neighbourhood. *)
ArrayAt == 8 * WORD
Everywhere == 0..(16 * WORD)

Called(f) == call.f = f /\ result = <<>> /\ UNCHANGED call
Returned(r) == result' = <<r>>

Compute ==
  \/ Called("compute_tree_index") /\ Returned(compute_tree_index(call.x))
  \/ Called("compute_bit2idx") /\ Returned(compute_bit2idx(call.x))
  \/ /\ Called("binmap")
     /\ Returned(<<least_bit(call.x), left_bits(call.x), same_or_left_bits(call.x)>>)
  \/ /\ Called("bit")
     /\ Returned(<<setbit(call.y, call.x), clearbit(call.y, call.x),
                   togglebit(call.y, call.x), changebit(call.y, 1, call.x),
                   changebit(call.y, 0, call.x)>>)
  \/ /\ Called("bits")
     /\ Returned(<<Arrays!setbits(call.x, ArrayAt, {}),
                   Everywhere \ Arrays!clearbits(call.x, ArrayAt, Everywhere),
                   Arrays!setbits_right(call.x, ArrayAt, {}),
                   Everywhere \ Arrays!clearbits_right(call.x, ArrayAt, Everywhere),
                   Arrays!setbits64_skip(ArrayAt, call.x % WORD, {}, call.y)
                     \cap Arrays!Word(ArrayAt)>>)
  \/ Called("bswap_16") /\ Returned(bswap_16(call.x))
  \/ Called("bswap_32") /\ Returned(bswap_32(call.x))
  \/ Called("bswap_64") /\ Returned(<<bswap_64(call.x), bswap_constant_64(call.x)>>)
  \/ /\ Called("float_compare_total")
     /\ Returned(float_compare_total(call.x, call.y))

Next == Compute

Spec == Init /\ [][Next]_<<call, result>>

Done(f) == call.f = f /\ result # <<>>

-------------------------------------------------------------------------------
(* dlmalloc finds its bins: the index computed by shifts alone is the bin     *)
(* whose range holds the size, and the operations on bin maps give the index  *)
(* of a bit, the lowest bit of a map, and the bits above it with or without   *)
(* it.                                                                        *)
BinsFound ==
  /\ Done("compute_tree_index") =>
       LET i == result[1]
       IN  /\ i \in 0..(NTREEBINS - 1)
           /\ call.x >= 2^TREEBIN_SHIFT => minsize_for_tree_index(i) <= call.x
           /\ i < NTREEBINS - 1 => call.x < minsize_for_tree_index(i + 1)
  /\ Done("compute_bit2idx") => 2^result[1] = call.x
  /\ Done("binmap") =>
       LET bits == {i \in 0..(MapBits - 1) : BitAt(call.x, i) = 1}
           least == CHOOSE i \in bits : \A j \in bits : i <= j
           OnesFrom(k) == 2^MapBits - 2^k
       IN  result[1] = <<2^least, OnesFrom(least + 1), OnesFrom(least)>>

(* The bit macros change the bit they are given and no other, and the loops   *)
(* over words change exactly size bits upwards or downwards of an address:    *)
(* none of the neighbouring words, also when size is a multiple of the word.  *)
(* An array has all of its bits set only if checkbits says so.                *)
BitsExact ==
  /\ Done("bit") =>
       LET others == call.x - 2^call.y * BitAt(call.x, call.y)
           was == checkbit(call.y, call.x)
       IN  result[1] = <<others + 2^call.y, others, others + (1 - was) * 2^call.y,
                         others + 2^call.y, others>>
  /\ Done("bits") =>
       LET n == call.x
           up == ArrayAt..(ArrayAt + n - 1)
           down == (ArrayAt - n)..(ArrayAt - 1)
           most == WORD - call.y
       IN  /\ result[1] = <<up, up, down, down,
                           {ArrayAt + call.y + b : b \in
                              0..((IF n % WORD < most THEN n % WORD ELSE most) - 1)}>>
           /\ Arrays!checkbits(n, ArrayAt, up)
           /\ \A b \in up : ~ Arrays!checkbits(n, ArrayAt, up \ {b})
           /\ Arrays!checkbits64_skip(ArrayAt, n % WORD, up, 0)

(* A swap moves byte k of n to byte n - 1 - k, and the swap of a 64-bit       *)
(* constant agrees with that of a variable, which is done by halves.          *)
SwapsExact ==
  LET Byte(x, k) == (x \div 2^(BYTE * k)) % 2^BYTE
      Swapped(x, y, n) == \A k \in 0..(n - 1) : Byte(y, k) = Byte(x, n - 1 - k)
  IN  /\ Done("bswap_16") => Swapped(call.x, result[1], 2)
      /\ Done("bswap_32") => Swapped(call.x, result[1], 4)
      /\ Done("bswap_64") => /\ Swapped(call.x, result[1][1], 8)
                             /\ result[1][1] = result[1][2]

Exponent(x) == (x % SignBit) \div 2^ManBits
Mantissa(x) == x % 2^ManBits
IsNaN(x) == Exponent(x) = 2^ExpBits - 1 /\ Mantissa(x) # 0
Magnitude(x) == IF Exponent(x) = 0 THEN Mantissa(x)
                ELSE (2^ManBits + Mantissa(x)) * 2^(Exponent(x) - 1)
FloatValue(x) == IF float_is_negative(x) = 1 THEN -Magnitude(x) ELSE Magnitude(x)

(* float_compare_total orders all numbers, infinities and denormals included, *)
(* by value, puts -0 below +0, and answers with opposite signs when its       *)
(* arguments are exchanged, NaNs included.                                    *)
FloatOrderTotal ==
  Done("float_compare_total") =>
    LET x == call.x  y == call.y  r == result[1]
    IN  /\ r = 0 <=> x = y
        /\ float_compare_total(y, x) = -r
        /\ ~IsNaN(x) /\ ~IsNaN(y) =>
             /\ FloatValue(x) < FloatValue(y) => r = -1
             /\ FloatValue(x) = FloatValue(y) /\ x # y =>
                  r = IF float_is_negative(x) = 1 THEN -1 ELSE 1
===============================================================================
