-------------------------------- MODULE Bits --------------------------------
(***************************************************************************)
(* The bit arrays of e_acsl_bits.h.  A stretch of memory is the set of the *)
(* positions of its one bits; memory is little-endian, so bit b of the     *)
(* word at position p is p + b, and "left to right" means upwards.         *)
(***************************************************************************)
EXTENDS Integers

CONSTANT WORD   \* bits of a word: 64

Bits(p, n) == p .. (p + n - 1)

(* Within the word at p: the macros shift the word of all ones, and drop    *)
(* what leaves it.                                                          *)
ShiftLeft(p, n) == Bits(p + n, WORD - n)
ShiftRight(p, n) == Bits(p, WORD - n)
Word(p) == Bits(p, WORD)

setbits64(p, n, w) == w \cup (Word(p) \ ShiftLeft(p, n))
setbits64_skip(p, n, w, skip) ==
  w \cup {b + skip : b \in Word(p) \ ShiftLeft(p, n)}
checkbits64(p, n, w) == Word(p) \ ShiftLeft(p, n) \subseteq w
checkbits64_skip(p, n, w, skip) ==
  {b + skip : b \in Word(p) \ ShiftLeft(p, n)} \cap Word(p) \subseteq w
clearbits64(p, n, w) == w \ (Word(p) \ ShiftLeft(p, n))
setbits64_right(p, n, w) == w \cup (Word(p) \ ShiftRight(p, n))
clearbits64_right(p, n, w) == w \ (Word(p) \ ShiftRight(p, n))

(* The functions do whole words first and the rest of the last one after.   *)
Whole(size) == 0 .. (size \div WORD - 1)
Last(size) == size \div WORD

setbits(size, p, w) ==
  setbits64(p + WORD * Last(size), size % WORD,
            w \cup UNION {Word(p + WORD * i) : i \in Whole(size)})

clearbits(size, p, w) ==
  clearbits64(p + WORD * Last(size), size % WORD,
              w \ UNION {Word(p + WORD * i) : i \in Whole(size)})

checkbits(size, p, w) ==
  /\ \A i \in Whole(size) : Word(p + WORD * i) \subseteq w
  /\ checkbits64(p + WORD * Last(size), size % WORD, w)

setbits_right(size, p, w) ==
  setbits64_right(p - WORD * (Last(size) + 1), size % WORD,
                  w \cup UNION {Word(p - WORD * (i + 1)) : i \in Whole(size)})

clearbits_right(size, p, w) ==
  clearbits64_right(p - WORD * (Last(size) + 1), size % WORD,
                    w \ UNION {Word(p - WORD * (i + 1)) : i \in Whole(size)})
=============================================================================
