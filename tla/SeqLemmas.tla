----------------------------- MODULE SeqLemmas ------------------------------
(***************************************************************************)
(* Facts about prefixes, suffixes and pointwise images of sequences, in    *)
(* the form in which the proofs about the components use them.             *)
(***************************************************************************)
EXTENDS Naturals, Sequences, SequenceTheorems, TLAPS

(* The first n elements of a sequence.                                      *)
LEMMA PrefixProperties ==
  ASSUME NEW S, NEW s \in Seq(S), NEW n \in 0..Len(s)
  PROVE  /\ SubSeq(s, 1, n) \in Seq(S)
         /\ Len(SubSeq(s, 1, n)) = n
         /\ \A i \in 1..n : SubSeq(s, 1, n)[i] = s[i]
  BY SubSeqProperties, ElementOfSeq, LenProperties

(* What is left of a sequence after its first k elements.                   *)
LEMMA SuffixProperties ==
  ASSUME NEW S, NEW s \in Seq(S), NEW k \in 0..Len(s)
  PROVE  /\ SubSeq(s, k + 1, Len(s)) \in Seq(S)
         /\ Len(SubSeq(s, k + 1, Len(s))) = Len(s) - k
         /\ \A i \in 1..(Len(s) - k) : SubSeq(s, k + 1, Len(s))[i] = s[k + i]
  BY SubSeqProperties, ElementOfSeq, LenProperties

(* A function whose domain is an initial segment of the positive naturals   *)
(* is a sequence.                                                           *)
LEMMA FunctionIsSeq ==
  ASSUME NEW S, NEW n \in Nat, NEW f \in [1..n -> S]
  PROVE  f \in Seq(S) /\ Len(f) = n /\ DOMAIN f = 1..n
<1>1. f \in Seq(S)
  BY SeqDef
<1>2. DOMAIN f = 1..n /\ DOMAIN f = 1..Len(f) /\ Len(f) \in Nat
  BY <1>1, LenProperties
<1> QED
  BY <1>1, <1>2

=============================================================================
