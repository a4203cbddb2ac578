---------------------------- MODULE ProjectProofs ---------------------------
(***************************************************************************)
(* Proofs about the stack of projects (qstack.ml) and about the hooks on   *)
(* the current project (project.ml), for any elements, any size, any hooks *)
(* and any depth of calls.                                                 *)
(***************************************************************************)
EXTENDS Qstack, ProjectHooks, SeqLemmas, WellFoundedInduction

-----------------------------------------------------------------------------
(* Operators on sequences.                                                  *)

(* A nonempty set of naturals has a least element.                          *)
LEMMA LeastElement ==
  ASSUME NEW I \in SUBSET Nat, I # {}
  PROVE  Min(I) \in I
<1> DEFINE Less == {ss \in Nat \X Nat : ss[1] < ss[2]}
<1>1. IsWellFoundedOn(Less, Nat)
  BY NatLessThanWellFounded DEF OpToRel
<1>2. PICK n \in I : \A m \in I : <<m, n>> \notin Less
  <2> HIDE DEF Less
  <2> QED
    BY <1>1, WFMin
<1>3. \A m \in I : ~ (m < n)
  BY <1>2
<1>4. \A m \in I : n <= m
  BY <1>3
<1> QED
  BY <1>4 DEF Min

\* The sequence s without its k-th element.
Cut(s, k) == SubSeq(s, 1, k - 1) \o SubSeq(s, k + 1, Len(s))

(* The first place where x is in a sequence.                                *)
LEMMA FirstPlace ==
  ASSUME NEW S, NEW s \in Seq(S), NEW x \in Range(s)
  PROVE  /\ FirstAt(s, x) \in 1..Len(s)
         /\ s[FirstAt(s, x)] = x
         /\ Without(s, x) = Cut(s, FirstAt(s, x))
<1>1. DOMAIN s = 1..Len(s)
  BY LenProperties
<1>2. PICK I : I = {i \in DOMAIN s : s[i] = x}
  OBVIOUS
<1>3. I # {} /\ I \in SUBSET Nat
  BY <1>1, <1>2 DEF Range
<1>4. FirstAt(s, x) \in I
  BY <1>2, <1>3, LeastElement DEF FirstAt
<1> QED
  BY <1>1, <1>2, <1>4 DEF Without, Cut

(* Removing an element shifts those that follow it.                         *)
LEMMA CutProperties ==
  ASSUME NEW S, NEW s \in Seq(S), NEW k \in 1..Len(s)
  PROVE  /\ Cut(s, k) \in Seq(S)
         /\ Len(Cut(s, k)) = Len(s) - 1
         /\ \A i \in 1..(Len(s) - 1) :
              Cut(s, k)[i] = IF i < k THEN s[i] ELSE s[i + 1]
<1>1. Len(s) \in Nat /\ k - 1 \in 0..Len(s) /\ k \in 0..Len(s)
  BY LenProperties
<1> DEFINE a == SubSeq(s, 1, k - 1)
           b == SubSeq(s, k + 1, Len(s))
<1>2. /\ a \in Seq(S)
      /\ Len(a) = k - 1
      /\ \A i \in 1..(k - 1) : a[i] = s[i]
  BY <1>1, PrefixProperties
<1>3. /\ b \in Seq(S)
      /\ Len(b) = Len(s) - k
      /\ \A i \in 1..(Len(s) - k) : b[i] = s[k + i]
  BY <1>1, SuffixProperties
<1> HIDE DEF a, b
<1>4. /\ a \o b \in Seq(S)
      /\ Len(a \o b) = Len(a) + Len(b)
      /\ \A i \in 1..(Len(a) + Len(b)) :
           (a \o b)[i] = IF i <= Len(a) THEN a[i] ELSE b[i - Len(a)]
  BY <1>2, <1>3, ConcatProperties
<1>5. Len(a \o b) = Len(s) - 1
  BY <1>1, <1>2, <1>3, <1>4
<1>6. ASSUME NEW i \in 1..(Len(s) - 1)
      PROVE  (a \o b)[i] = IF i < k THEN s[i] ELSE s[i + 1]
  <2>1. (a \o b)[i] = IF i <= k - 1 THEN a[i] ELSE b[i - (k - 1)]
    BY <1>1, <1>2, <1>3, <1>4
  <2>2. CASE i < k
    <3>1. i \in 1..(k - 1)
      BY <1>1, <2>2
    <3> QED
      BY <1>1, <1>2, <2>1, <2>2, <3>1
  <2>3. CASE ~ (i < k)
    <3>1. i - (k - 1) \in 1..(Len(s) - k) /\ k + (i - (k - 1)) = i + 1
      BY <1>1, <2>3
    <3>2. b[i - (k - 1)] = s[i + 1]
      BY <1>3, <3>1
    <3> QED
      BY <1>1, <2>1, <2>3, <3>2
  <2> QED
    BY <2>2, <2>3
<1>7. Cut(s, k) = a \o b
  BY DEF Cut, a, b
<1> QED
  BY <1>4, <1>5, <1>6, <1>7

(* Reversing a sequence.                                                    *)
LEMMA ReverseProperties ==
  ASSUME NEW S, NEW s \in Seq(S)
  PROVE  /\ Reversed(s) \in Seq(S)
         /\ Len(Reversed(s)) = Len(s)
         /\ \A i \in 1..Len(s) : Reversed(s)[i] = s[Len(s) - i + 1]
<1>1. PICK n \in Nat : n = Len(s)
  BY LenProperties
<1>2. \A i \in 1..n : n - i + 1 \in 1..n
  BY <1>1
<1>3. \A i \in 1..n : s[n - i + 1] \in S
  BY <1>1, <1>2, ElementOfSeq
<1>4. Reversed(s) = [i \in 1..n |-> s[n - i + 1]]
  BY <1>1 DEF Reversed
<1>5. Reversed(s) \in [1..n -> S]
  BY <1>3, <1>4
<1>6. Reversed(s) \in Seq(S) /\ Len(Reversed(s)) = n
  BY <1>5, FunctionIsSeq
<1> QED
  BY <1>1, <1>4, <1>6

(* Adding an element in front.                                              *)
LEMMA ConsProperties ==
  ASSUME NEW S, NEW s \in Seq(S), NEW x \in S
  PROVE  /\ <<x>> \o s \in Seq(S)
         /\ Len(<<x>> \o s) = Len(s) + 1
         /\ (<<x>> \o s)[1] = x
         /\ \A i \in 2..(Len(s) + 1) : (<<x>> \o s)[i] = s[i - 1]
<1>1. PICK e : e = <<x>>
  OBVIOUS
<1>2. e \in Seq(S) /\ Len(e) = 1 /\ e[1] = x
  BY <1>1
<1>3. Len(s) \in Nat
  BY LenProperties
<1>4. /\ e \o s \in Seq(S)
      /\ Len(e \o s) = Len(e) + Len(s)
      /\ \A i \in 1..(Len(e) + Len(s)) :
           (e \o s)[i] = IF i <= Len(e) THEN e[i] ELSE s[i - Len(e)]
  BY <1>2, ConcatProperties
<1>5. (e \o s)[1] = x
  BY <1>2, <1>3, <1>4
<1>6. ASSUME NEW i \in 2..(Len(s) + 1)
      PROVE  (e \o s)[i] = s[i - 1]
  <2>1. i \in 1..(Len(e) + Len(s)) /\ ~(i <= Len(e)) /\ Len(e) = 1
    BY <1>2, <1>3
  <2> QED
    BY <1>4, <2>1
<1> QED
  BY <1>1, <1>2, <1>4, <1>5, <1>6

-----------------------------------------------------------------------------
(* The stack of projects.                                                   *)

(* A sequence followed by the reverse of another one.                       *)
LEMMA ConcatReverse ==
  ASSUME NEW S, NEW f \in Seq(S), NEW l \in Seq(S)
  PROVE  /\ f \o Reversed(l) \in Seq(S)
         /\ Len(f \o Reversed(l)) = Len(f) + Len(l)
         /\ \A i \in 1..(Len(f) + Len(l)) :
              (f \o Reversed(l))[i] = IF i <= Len(f) THEN f[i]
                                     ELSE l[Len(f) + Len(l) - i + 1]
<1>1. Len(f) \in Nat /\ Len(l) \in Nat
  BY LenProperties
<1>2. PICK r : r = Reversed(l)
  OBVIOUS
<1>3. /\ r \in Seq(S)
      /\ Len(r) = Len(l)
      /\ \A i \in 1..Len(l) : r[i] = l[Len(l) - i + 1]
  BY <1>2, ReverseProperties
<1>4. r \in Seq(S)
  BY <1>3
<1>5. /\ f \o r \in Seq(S)
      /\ Len(f \o r) = Len(f) + Len(r)
      /\ \A i \in 1..(Len(f) + Len(r)) :
           (f \o r)[i] = IF i <= Len(f) THEN f[i] ELSE r[i - Len(f)]
  BY <1>4, ConcatProperties, Zenon
<1>6. ASSUME NEW i \in 1..(Len(f) + Len(l)), ~ (i <= Len(f))
      PROVE  r[i - Len(f)] = l[Len(f) + Len(l) - i + 1]
  <2>1. i - Len(f) \in 1..Len(l)
    BY <1>1, <1>6
  <2>2. Len(l) - (i - Len(f)) + 1 = Len(f) + Len(l) - i + 1
    BY <1>1, <1>6
  <2> QED
    BY <1>3, <2>1, <2>2
<1> QED
  BY <1>2, <1>3, <1>5, <1>6

(* Two lists stand for c if the first has its first elements, and the second *)
(* the others from the end.                                                 *)
LEMMA StandFor ==
  ASSUME NEW S, NEW f \in Seq(S), NEW l \in Seq(S), NEW c \in Seq(S),
         Len(f) + Len(l) = Len(c),
         \A i \in 1..Len(f) : f[i] = c[i],
         \A i \in 1..Len(l) : l[i] = c[Len(c) + 1 - i]
  PROVE  f \o Reversed(l) = c
<1>1. Len(f) \in Nat /\ Len(l) \in Nat /\ Len(c) \in Nat
  BY LenProperties
<1>2. PICK r : r = f \o Reversed(l)
  OBVIOUS
<1>3. /\ r \in Seq(S)
      /\ Len(r) = Len(c)
      /\ \A i \in 1..Len(c) :
           r[i] = IF i <= Len(f) THEN f[i] ELSE l[Len(c) - i + 1]
  BY <1>2, ConcatReverse
<1>4. ASSUME NEW i \in 1..Len(c)
      PROVE  r[i] = c[i]
  <2>1. CASE i <= Len(f)
    <3>1. i \in 1..Len(f)
      BY <1>1, <2>1
    <3> QED
      BY <1>3, <2>1, <3>1
  <2>2. CASE ~ (i <= Len(f))
    <3>1. Len(c) - i + 1 \in 1..Len(l) /\ Len(c) + 1 - (Len(c) - i + 1) = i
      BY <1>1, <2>2
    <3>2. l[Len(c) - i + 1] = c[i]
      BY <3>1
    <3> QED
      BY <1>3, <2>2, <3>2
  <2> QED
    BY <2>1, <2>2
<1> QED
  BY <1>2, <1>3, <1>4, SeqEqual

(* The elements of the stack, from the top, in terms of the two lists.      *)
LEMMA ContentsProperties ==
  ASSUME first \in Seq(Elem), last \in Seq(Elem)
  PROVE  /\ Contents \in Seq(Elem)
         /\ Len(Contents) = Length
         /\ Length \in Nat
         /\ \A i \in 1..Length :
              Contents[i] = IF i <= Len(first) THEN first[i]
                                               ELSE last[Length - i + 1]
<1>1. Len(first) \in Nat /\ Len(last) \in Nat
  BY LenProperties
<1> QED
  BY <1>1, ConcatReverse DEF Contents, Length

(* The lists that remove_with_flag leaves, and the place in the stack of    *)
(* the element that it removes.                                             *)
LEMMA RemovedProperties ==
  ASSUME first \in Seq(Elem), last \in Seq(Elem), NEW x, Mem(x)
  PROVE  /\ FirstWithout(x) \in Seq(Elem)
         /\ LastWithout(x) \in Seq(Elem)
         /\ Len(FirstWithout(x)) + Len(LastWithout(x)) = Length - 1
         /\ \E k \in 1..Length :
              /\ Contents[k] = x
              /\ FirstWithout(x) \o Reversed(LastWithout(x)) = Cut(Contents, k)
<1> DEFINE F == FirstWithout(x)
           L == LastWithout(x)
<1>1. Len(first) \in Nat /\ Len(last) \in Nat /\ Length = Len(first) + Len(last)
  BY LenProperties DEF Length
<1>2. /\ Contents \in Seq(Elem)
      /\ Len(Contents) = Length
      /\ \A i \in 1..Length :
           Contents[i] = IF i <= Len(first) THEN first[i]
                                            ELSE last[Length - i + 1]
  BY ContentsProperties
<1>3. ASSUME NEW k \in 1..Length
      PROVE  /\ Cut(Contents, k) \in Seq(Elem)
             /\ Len(Cut(Contents, k)) = Length - 1
             /\ \A i \in 1..(Length - 1) :
                  Cut(Contents, k)[i] =
                    IF i < k THEN Contents[i] ELSE Contents[i + 1]
  BY <1>2, CutProperties
<1>4. CASE x \in Range(first)
  <2>1. PICK k \in 1..Len(first) : first[k] = x /\ F = Cut(first, k)
    BY <1>4, FirstPlace DEF FirstWithout
  <2>2. L = last
    BY <1>4 DEF LastWithout
  <2>3. /\ F \in Seq(Elem)
        /\ Len(F) = Len(first) - 1
        /\ \A i \in 1..(Len(first) - 1) :
             F[i] = IF i < k THEN first[i] ELSE first[i + 1]
    BY <2>1, CutProperties
  <2>4. k \in 1..Length /\ Contents[k] = x
    BY <1>1, <1>2, <2>1
  <2>5. PICK c : c = Cut(Contents, k)
    OBVIOUS
  <2>6. /\ c \in Seq(Elem)
        /\ Len(c) = Length - 1
        /\ \A i \in 1..(Length - 1) :
             c[i] = IF i < k THEN Contents[i] ELSE Contents[i + 1]
    BY <1>3, <2>4, <2>5
  <2> HIDE DEF F, L
  <2>7. ASSUME NEW i \in 1..Len(F)
        PROVE  F[i] = c[i]
    <3>1. /\ i \in 1..(Len(first) - 1) /\ i \in 1..(Length - 1)
          /\ i \in 1..Length /\ i + 1 \in 1..Length
          /\ i <= Len(first) /\ i + 1 <= Len(first)
      BY <1>1, <2>3
    <3>2. Contents[i] = first[i] /\ Contents[i + 1] = first[i + 1]
      BY <1>2, <3>1
    <3> QED
      BY <2>3, <2>6, <3>1, <3>2
  <2>8. ASSUME NEW i \in 1..Len(last)
        PROVE  last[i] = c[Len(c) + 1 - i]
    <3>1. /\ Len(c) + 1 - i = Length - i
          /\ Length - i \in 1..(Length - 1)
          /\ ~ (Length - i < k)
          /\ Length - i + 1 \in 1..Length
          /\ ~ (Length - i + 1 <= Len(first))
          /\ Length - (Length - i + 1) + 1 = i
      BY <1>1, <2>1, <2>6
    <3>2. Contents[Length - i + 1] = last[i]
      BY <1>2, <3>1
    <3> QED
      BY <2>6, <3>1, <3>2
  <2>9. Len(F) + Len(last) = Len(c)
    BY <1>1, <2>3, <2>6
  <2>10. F \o Reversed(last) = c
    BY <2>3, <2>6, <2>7, <2>8, <2>9, StandFor
  <2> QED
    BY <2>2, <2>3, <2>4, <2>5, <2>6, <2>9, <2>10 DEF F, L
<1>5. CASE ~ x \in Range(first)
  <2>1. F = first
    BY <1>5 DEF FirstWithout, Without
  <2>2. PICK j \in 1..Len(last) : last[j] = x /\ L = Cut(last, j)
    BY <1>5, FirstPlace DEF LastWithout, Mem
  <2>3. /\ L \in Seq(Elem)
        /\ Len(L) = Len(last) - 1
        /\ \A i \in 1..(Len(last) - 1) :
             L[i] = IF i < j THEN last[i] ELSE last[i + 1]
    BY <2>2, CutProperties
  <2>4. Length - j + 1 \in 1..Length
    BY <1>1
  <2>5. PICK k \in 1..Length : k = Length - j + 1
    BY <2>4
  <2>6. Contents[k] = x
    <3>1. ~ (k <= Len(first)) /\ Length - k + 1 = j
      BY <1>1, <2>2, <2>5
    <3> QED
      BY <1>2, <2>2, <3>1
  <2>7. PICK c : c = Cut(Contents, k)
    OBVIOUS
  <2>8. /\ c \in Seq(Elem)
        /\ Len(c) = Length - 1
        /\ \A i \in 1..(Length - 1) :
             c[i] = IF i < k THEN Contents[i] ELSE Contents[i + 1]
    BY <1>3, <2>7
  <2> HIDE DEF F, L
  <2>9. ASSUME NEW i \in 1..Len(first)
        PROVE  first[i] = c[i]
    <3>1. i \in 1..(Length - 1) /\ i \in 1..Length /\ i < k /\ i <= Len(first)
      BY <1>1, <2>5
    <3>2. Contents[i] = first[i]
      BY <1>2, <3>1
    <3> QED
      BY <2>8, <3>1, <3>2
  <2>10. ASSUME NEW i \in 1..Len(L)
         PROVE  L[i] = c[Len(c) + 1 - i]
    <3>1. /\ Len(c) + 1 - i = Length - i
          /\ i \in 1..(Len(last) - 1)
          /\ Length - i \in 1..(Length - 1) /\ Length - i \in 1..Length
          /\ ~ (Length - i <= Len(first))
          /\ Length - i + 1 \in 1..Length
          /\ ~ (Length - i + 1 <= Len(first))
          /\ Length - (Length - i + 1) + 1 = i
          /\ Length - (Length - i) + 1 = i + 1
      BY <1>1, <2>3, <2>8
    <3>2. i < j <=> ~ (Length - i < k)
      BY <1>1, <2>5, <3>1
    <3>3. Contents[Length - i] = last[i + 1] /\ Contents[Length - i + 1] = last[i]
      BY <1>2, <3>1
    <3> QED
      BY <2>3, <2>8, <3>1, <3>2, <3>3
  <2>11. Len(first) + Len(L) = Len(c)
    BY <1>1, <2>3, <2>8
  <2>12. first \o Reversed(L) = c
    BY <2>3, <2>8, <2>9, <2>10, <2>11, StandFor
  <2> QED
    BY <2>1, <2>3, <2>6, <2>7, <2>8, <2>11, <2>12 DEF F, L
<1> QED
  BY <1>4, <1>5

(* The lists are well typed and bounded.                                    *)
LEMMA StackIs ==
  ASSUME TypeOK
  PROVE  /\ first \in Seq(Elem) /\ last \in Seq(Elem)
         /\ Len(first) \in Nat /\ Len(last) \in Nat /\ MaxSize \in Nat
         /\ Length = Len(first) + Len(last) /\ Length <= MaxSize
         /\ Contents \in Seq(Elem) /\ Len(Contents) = Length
         /\ \A i \in 1..Length :
              Contents[i] = IF i <= Len(first) THEN first[i]
                                               ELSE last[Length - i + 1]
<1>1. first \in Seq(Elem) /\ last \in Seq(Elem) /\ Length <= MaxSize
  BY DEF TypeOK
<1>2. Len(first) \in Nat /\ Len(last) \in Nat /\ MaxSize \in Nat
  BY <1>1, LenProperties, QstackAssumption DEF QstackAssumption
<1> QED
  BY <1>1, <1>2, ContentsProperties DEF Length

(* An element added in front of the first list is on top of the stack.      *)
LEMMA TopEnd ==
  ASSUME NEW S, NEW f \in Seq(S), NEW l \in Seq(S), NEW x \in S
  PROVE  (<<x>> \o f) \o Reversed(l) = <<x>> \o (f \o Reversed(l))
<1>1. PICK r : r = Reversed(l)
  OBVIOUS
<1>2. r \in Seq(S) /\ <<x>> \in Seq(S)
  BY <1>1, ReverseProperties
<1>3. (<<x>> \o f) \o r = <<x>> \o (f \o r)
  BY <1>2, ConcatAssociative
<1> QED
  BY <1>1, <1>3

(* An element added in front of the second list is at the bottom.           *)
LEMMA BottomEnd ==
  ASSUME NEW S, NEW f \in Seq(S), NEW l \in Seq(S), NEW x \in S
  PROVE  f \o Reversed(<<x>> \o l) = Append(f \o Reversed(l), x)
<1>1. PICK r : r = Reversed(l)
  OBVIOUS
<1>2. /\ r \in Seq(S)
      /\ Len(r) = Len(l)
      /\ \A i \in 1..Len(l) : r[i] = l[Len(l) - i + 1]
  BY <1>1, ReverseProperties
<1>3. r \in Seq(S) /\ <<x>> \in Seq(S) /\ Len(l) \in Nat
  BY <1>2, LenProperties
<1>5. PICK q : q = <<x>> \o l
  OBVIOUS
<1>6. /\ q \in Seq(S)
      /\ Len(q) = Len(l) + 1
      /\ q[1] = x
      /\ \A i \in 2..(Len(l) + 1) : q[i] = l[i - 1]
  BY <1>5, ConsProperties
<1>7. PICK u : u = Reversed(q)
  OBVIOUS
<1>8. /\ u \in Seq(S)
      /\ Len(u) = Len(l) + 1
      /\ \A i \in 1..(Len(l) + 1) : u[i] = q[Len(l) + 1 - i + 1]
  BY <1>6, <1>7, ReverseProperties
<1>9. PICK a : a = Append(r, x)
  OBVIOUS
<1>10. /\ a \in Seq(S)
       /\ Len(a) = Len(l) + 1
       /\ \A i \in 1..Len(l) : a[i] = r[i]
       /\ a[Len(l) + 1] = x
  BY <1>2, <1>9, AppendProperties
<1>11. ASSUME NEW i \in 1..(Len(l) + 1)
       PROVE  u[i] = a[i]
  <2>1. CASE i = Len(l) + 1
    <3>1. Len(l) + 1 - i + 1 = 1
      BY <1>3, <2>1
    <3> QED
      BY <1>6, <1>8, <1>10, <2>1, <3>1
  <2>2. CASE i # Len(l) + 1
    <3>1. /\ i \in 1..Len(l)
          /\ Len(l) + 1 - i + 1 \in 2..(Len(l) + 1)
          /\ Len(l) + 1 - i + 1 - 1 = Len(l) - i + 1
      BY <1>3, <2>2
    <3>2. PICK j \in 2..(Len(l) + 1) : j = Len(l) + 1 - i + 1
      BY <3>1
    <3>3. u[i] = q[j]
      BY <1>8, <3>1, <3>2
    <3>4. q[j] = l[j - 1]
      BY <1>6
    <3>5. j - 1 = Len(l) - i + 1
      BY <3>1, <3>2
    <3> QED
      BY <1>2, <1>10, <3>1, <3>3, <3>4, <3>5
  <2> QED
    BY <2>1, <2>2
<1>12. u = a
  BY <1>8, <1>10, <1>11, SeqEqual
<1>13. f \o Append(r, x) = Append(f \o r, x)
  <2>1. Append(r, x) = r \o <<x>>
    BY <1>3, AppendIsConcat, Zenon
  <2>2. f \o r \in Seq(S)
    BY <1>3, ConcatProperties, Zenon
  <2>3. Append(f \o r, x) = (f \o r) \o <<x>>
    BY <2>2, AppendIsConcat, Zenon
  <2>4. (f \o r) \o <<x>> = f \o (r \o <<x>>)
    BY <1>3, ConcatAssociative
  <2> QED
    BY <2>1, <2>3, <2>4
<1> QED
  BY <1>1, <1>5, <1>7, <1>9, <1>12, <1>13

(* `add' and `add_at_end'.                                                  *)
LEMMA StepAdd ==
  ASSUME TypeOK, NEW x \in Elem
  PROVE  /\ Add(x) => TypeOK' /\ Abstract!Add(x)
         /\ AddAtEnd(x) => TypeOK' /\ Abstract!AddAtEnd(x)
<1>1. first \in Seq(Elem) /\ last \in Seq(Elem)
  BY StackIs
<1>2. /\ <<x>> \o first \in Seq(Elem) /\ Len(<<x>> \o first) = Len(first) + 1
      /\ <<x>> \o last \in Seq(Elem) /\ Len(<<x>> \o last) = Len(last) + 1
  BY <1>1, ConsProperties
<1>3. (<<x>> \o first) \o Reversed(last) = <<x>> \o Contents
  BY <1>1, TopEnd DEF Contents
<1>4. first \o Reversed(<<x>> \o last) = Append(Contents, x)
  BY <1>1, BottomEnd DEF Contents
<1>5. ASSUME Add(x)
      PROVE  TypeOK' /\ Abstract!Add(x)
  <2>1. first' = <<x>> \o first /\ last' = last /\ Length < MaxSize
    BY <1>5 DEF Add
  <2>2. Length' = Length + 1
    <3>1. Length' = Len(first') + Len(last')
      BY DEF Length
    <3>2. Len(first) \in Nat /\ Len(last) \in Nat /\ Length = Len(first) + Len(last)
      BY StackIs
    <3> QED
      BY <1>2, <2>1, <3>1, <3>2
  <2>3. TypeOK'
    BY <1>1, <1>2, <2>1, <2>2, StackIs DEF TypeOK
  <2>4. Contents' = <<x>> \o Contents
    BY <1>3, <2>1 DEF Contents
  <2> QED
    BY <2>1, <2>3, <2>4, StackIs DEF Abstract!Add
<1>6. ASSUME AddAtEnd(x)
      PROVE  TypeOK' /\ Abstract!AddAtEnd(x)
  <2>1. last' = <<x>> \o last /\ first' = first /\ Length < MaxSize
    BY <1>6 DEF AddAtEnd
  <2>2. Length' = Length + 1
    <3>1. Length' = Len(first') + Len(last')
      BY DEF Length
    <3>2. Len(first) \in Nat /\ Len(last) \in Nat /\ Length = Len(first) + Len(last)
      BY StackIs
    <3> QED
      BY <1>2, <2>1, <3>1, <3>2
  <2>3. TypeOK'
    BY <1>1, <1>2, <2>1, <2>2, StackIs DEF TypeOK
  <2>4. Contents' = Append(Contents, x)
    BY <1>4, <2>1 DEF Contents
  <2> QED
    BY <2>1, <2>3, <2>4, StackIs DEF Abstract!AddAtEnd
<1> QED
  BY <1>5, <1>6

(* `remove', `move_at_top' and `move_at_end' take one occurrence away.      *)
LEMMA StepRemove ==
  ASSUME TypeOK, NEW x \in Elem
  PROVE  /\ RemoveOne(x) => TypeOK' /\ Abstract!RemoveOne(x)
         /\ MoveAtTop(x) => TypeOK' /\ Abstract!MoveAtTop(x)
         /\ MoveAtEnd(x) => TypeOK' /\ Abstract!MoveAtEnd(x)
<1> SUFFICES ASSUME Mem(x)
             PROVE  /\ RemoveOne(x) => TypeOK' /\ Abstract!RemoveOne(x)
                    /\ MoveAtTop(x) => TypeOK' /\ Abstract!MoveAtTop(x)
                    /\ MoveAtEnd(x) => TypeOK' /\ Abstract!MoveAtEnd(x)
  BY DEF RemoveOne, MoveAtTop, MoveAtEnd
<1>1. PICK f, l : f = FirstWithout(x) /\ l = LastWithout(x)
  OBVIOUS
<1>2. first \in Seq(Elem) /\ last \in Seq(Elem)
  BY StackIs
<1>3. f \in Seq(Elem) /\ l \in Seq(Elem) /\ Len(f) + Len(l) = Length - 1
  BY <1>1, <1>2, RemovedProperties
<1>4. PICK k \in 1..Length : /\ Contents[k] = x
                             /\ f \o Reversed(l) = Cut(Contents, k)
  BY <1>1, <1>2, RemovedProperties
<1>5. Len(f) \in Nat /\ Len(l) \in Nat
  BY <1>3, LenProperties
<1>6. /\ <<x>> \o f \in Seq(Elem) /\ Len(<<x>> \o f) = Len(f) + 1
      /\ <<x>> \o l \in Seq(Elem) /\ Len(<<x>> \o l) = Len(l) + 1
  BY <1>3, ConsProperties
<1>7. k \in DOMAIN Contents
  BY StackIs, LenProperties
<1>8. Cut(Contents, k) = Abstract!Without(Contents, k)
  BY DEF Cut, Abstract!Without
<1>9. ASSUME RemoveOne(x)
      PROVE  TypeOK' /\ Abstract!RemoveOne(x)
  <2>1. first' = f /\ last' = l
    BY <1>1, <1>9 DEF RemoveOne
  <2>2. TypeOK'
    BY <1>3, <1>5, <2>1, StackIs DEF TypeOK, Length
  <2>3. Contents' = Abstract!Without(Contents, k)
    BY <1>4, <1>8, <2>1 DEF Contents
  <2> QED
    BY <1>4, <1>7, <2>2, <2>3 DEF Abstract!RemoveOne
<1>10. ASSUME MoveAtTop(x)
       PROVE  TypeOK' /\ Abstract!MoveAtTop(x)
  <2>1. first' = <<x>> \o f /\ last' = l
    BY <1>1, <1>10 DEF MoveAtTop
  <2>2. Length' = Length
    <3>1. Length \in Nat
      BY StackIs
    <3>2. Length' = Len(first') + Len(last')
      BY DEF Length
    <3> QED
      BY <1>3, <1>5, <1>6, <2>1, <3>1, <3>2
  <2>3. TypeOK'
    BY <1>3, <1>6, <2>1, <2>2, StackIs DEF TypeOK
  <2>4. (<<x>> \o f) \o Reversed(l) = <<x>> \o (f \o Reversed(l))
    BY <1>3, TopEnd
  <2>5. Contents' = <<x>> \o Abstract!Without(Contents, k)
    BY <1>4, <1>8, <2>1, <2>4 DEF Contents
  <2> QED
    BY <1>4, <1>7, <2>3, <2>5 DEF Abstract!MoveAtTop
<1>11. ASSUME MoveAtEnd(x)
       PROVE  TypeOK' /\ Abstract!MoveAtEnd(x)
  <2>1. first' = f /\ last' = <<x>> \o l
    BY <1>1, <1>11 DEF MoveAtEnd
  <2>2. Length' = Length
    <3>1. Length \in Nat
      BY StackIs
    <3>2. Length' = Len(first') + Len(last')
      BY DEF Length
    <3> QED
      BY <1>3, <1>5, <1>6, <2>1, <3>1, <3>2
  <2>3. TypeOK'
    BY <1>3, <1>6, <2>1, <2>2, StackIs DEF TypeOK
  <2>4. f \o Reversed(<<x>> \o l) = Append(f \o Reversed(l), x)
    BY <1>3, BottomEnd
  <2>5. Contents' = Append(Abstract!Without(Contents, k), x)
    BY <1>4, <1>8, <2>1, <2>4 DEF Contents
  <2> QED
    BY <1>4, <1>7, <2>3, <2>5 DEF Abstract!MoveAtEnd
<1> QED
  BY <1>9, <1>10, <1>11

(* `top' moves the elements of the second list and changes no element of    *)
(* the stack; `clear' empties it.                                           *)
LEMMA StepTransfer ==
  ASSUME TypeOK
  PROVE  /\ TopTransfer => TypeOK' /\ UNCHANGED Contents
         /\ Clear => TypeOK' /\ Abstract!Clear
<1>1. PICK r : r = Reversed(last)
  OBVIOUS
<1>2. r \in Seq(Elem) /\ Len(r) = Len(last)
  BY <1>1, StackIs, ReverseProperties
<1>3. <<>> \in Seq(Elem) /\ Len(<<>>) = 0
  OBVIOUS
<1>4. Reversed(<<>>) = <<>>
  <2>1. Reversed(<<>>) \in Seq(Elem) /\ Len(Reversed(<<>>)) = 0
    BY <1>3, ReverseProperties
  <2> QED
    BY <2>1, EmptySeq
<1>5. r \o <<>> = r /\ <<>> \o r = r
  BY <1>2, ConcatEmptySeq
<1>6. ASSUME TopTransfer
      PROVE  TypeOK' /\ UNCHANGED Contents
  <2>1. first = <<>> /\ first' = r /\ last' = <<>>
    BY <1>1, <1>6 DEF TopTransfer
  <2>2. Length = Len(last) /\ Len(last) \in Nat /\ Length' = Len(last)
    BY <1>2, <1>3, <2>1, StackIs DEF Length
  <2>3. TypeOK'
    BY <1>2, <1>3, <2>1, <2>2, StackIs DEF TypeOK
  <2>4. Contents = r /\ Contents' = r
    BY <1>1, <1>4, <1>5, <2>1 DEF Contents
  <2> QED
    BY <2>3, <2>4
<1>7. ASSUME Clear
      PROVE  TypeOK' /\ Abstract!Clear
  <2>1. first' = <<>> /\ last' = <<>>
    BY <1>7 DEF Clear
  <2>2. Length' = 0 /\ MaxSize \in Nat
    BY <1>3, <2>1, StackIs DEF Length
  <2>3. TypeOK'
    BY <1>3, <2>1, <2>2 DEF TypeOK
  <2>4. <<>> \o <<>> = <<>>
    BY <1>3, ConcatEmptySeq
  <2>5. Contents' = <<>>
    BY <1>4, <2>1, <2>4 DEF Contents
  <2> QED
    BY <2>3, <2>5 DEF Abstract!Clear
<1> QED
  BY <1>6, <1>7

(* The image of a sequence, and of its reverse.                             *)
LEMMA ImageProperties ==
  ASSUME NEW S, NEW s \in Seq(S), NEW f \in [S -> S]
  PROVE  /\ Image(f, s) \in Seq(S)
         /\ Len(Image(f, s)) = Len(s)
         /\ Image(f, Reversed(s)) = Reversed(Image(f, s))
<1>1. PICK n \in Nat : n = Len(s)
  BY LenProperties
<1>2. DOMAIN s = 1..n /\ \A i \in 1..n : s[i] \in S
  BY <1>1, LenProperties, ElementOfSeq
<1>3. PICK g : g = Image(f, s)
  OBVIOUS
<1>4. g = [i \in 1..n |-> f[s[i]]]
  BY <1>2, <1>3 DEF Image
<1>5. g \in [1..n -> S]
  BY <1>2, <1>4
<1>6. g \in Seq(S) /\ Len(g) = n
  BY <1>5, FunctionIsSeq
<1>7. PICK r : r = Reversed(s)
  OBVIOUS
<1>8. r = [i \in 1..n |-> s[n - i + 1]] /\ DOMAIN r = 1..n
  BY <1>1, <1>7 DEF Reversed
<1>9. Image(f, r) = [i \in 1..n |-> f[s[n - i + 1]]]
  BY <1>8 DEF Image
<1>10. Reversed(g) = [i \in 1..n |-> g[n - i + 1]]
  BY <1>6 DEF Reversed
<1>11. \A i \in 1..n : g[n - i + 1] = f[s[n - i + 1]]
  <2>1. \A i \in 1..n : n - i + 1 \in 1..n
    OBVIOUS
  <2> QED
    BY <1>4, <2>1
<1>12. Image(f, r) = Reversed(g)
  BY <1>9, <1>10, <1>11
<1> QED
  BY <1>1, <1>3, <1>6, <1>7, <1>12

(* A concatenation, cut where it was put together.                          *)
LEMMA CutConcat ==
  ASSUME NEW S, NEW a \in Seq(S), NEW b \in Seq(S)
  PROVE  /\ SubSeq(a \o b, 1, Len(a)) = a
         /\ SubSeq(a \o b, Len(a) + 1, Len(a \o b)) = b
<1>1. Len(a) \in Nat /\ Len(b) \in Nat
  BY LenProperties
<1>2. PICK c : c = a \o b
  OBVIOUS
<1>3. /\ c \in Seq(S)
      /\ Len(c) = Len(a) + Len(b)
      /\ \A i \in 1..(Len(a) + Len(b)) :
           c[i] = IF i <= Len(a) THEN a[i] ELSE b[i - Len(a)]
  BY <1>2, ConcatProperties
<1>4. Len(a) \in 0..Len(c)
  BY <1>1, <1>3
<1>5. PICK p : p = SubSeq(c, 1, Len(a))
  OBVIOUS
<1>6. p \in Seq(S) /\ Len(p) = Len(a) /\ \A i \in 1..Len(a) : p[i] = c[i]
  BY <1>3, <1>4, <1>5, PrefixProperties
<1>7. \A i \in 1..Len(a) : c[i] = a[i]
  BY <1>1, <1>3
<1>8. p = a
  BY <1>6, <1>7, SeqEqual
<1>9. PICK q : q = SubSeq(c, Len(a) + 1, Len(c))
  OBVIOUS
<1>10. /\ q \in Seq(S)
       /\ Len(q) = Len(b)
       /\ \A i \in 1..Len(b) : q[i] = c[Len(a) + i]
  <2>1. Len(c) - Len(a) = Len(b)
    BY <1>1, <1>3
  <2> QED
    BY <1>3, <1>4, <1>9, <2>1, SuffixProperties
<1>11. ASSUME NEW i \in 1..Len(b)
       PROVE  q[i] = b[i]
  <2>1. /\ Len(a) + i \in 1..(Len(a) + Len(b)) /\ ~ (Len(a) + i <= Len(a))
        /\ Len(a) + i - Len(a) = i
    BY <1>1
  <2>2. c[Len(a) + i] = b[i]
    BY <1>3, <2>1
  <2> QED
    BY <1>10, <2>2
<1>12. q = b
  BY <1>10, <1>11, SeqEqual
<1> QED
  BY <1>2, <1>5, <1>8, <1>9, <1>12

(* `map' replaces every element and turns the second list upside down.      *)
LEMMA StepMap ==
  ASSUME TypeOK, NEW f \in [Elem -> Elem], MapElements(f)
  PROVE  TypeOK' /\ Abstract!MapElements(f)
<1>1. first \in Seq(Elem) /\ last \in Seq(Elem)
  BY StackIs
<1>2. PICK g, h : g = Image(f, first) /\ h = Image(f, last)
  OBVIOUS
<1>3. g \in Seq(Elem) /\ Len(g) = Len(first) /\ h \in Seq(Elem) /\ Len(h) = Len(last)
  BY <1>1, <1>2, ImageProperties
<1>4. PICK r : r = Reversed(h)
  OBVIOUS
<1>5. r \in Seq(Elem) /\ Len(r) = Len(h)
  BY <1>3, <1>4, ReverseProperties
<1>6. first' = g /\ last' = r
  BY <1>2, <1>4 DEF MapElements
<1>7. TypeOK'
  <2>1. Length' = Length
    BY <1>3, <1>5, <1>6 DEF Length
  <2> QED
    BY <1>3, <1>5, <1>6, <2>1, StackIs DEF TypeOK
<1>8. PICK b : b = Reversed(last)
  OBVIOUS
<1>9. b \in Seq(Elem)
  BY <1>1, <1>8, ReverseProperties
<1>10. Contents = first \o b
  BY <1>8 DEF Contents
<1>11. /\ SubSeq(Contents, 1, Len(first)) = first
       /\ SubSeq(Contents, Len(first) + 1, Len(Contents)) = b
  BY <1>1, <1>9, <1>10, CutConcat
<1>12. Abstract!Image(f, first) = g
  BY <1>2 DEF Image, Abstract!Image
<1>13. Abstract!Image(f, b) = r
  <2>1. Image(f, Reversed(last)) = Reversed(Image(f, last))
    BY <1>1, ImageProperties
  <2>2. Abstract!Image(f, b) = Image(f, b)
    BY DEF Image, Abstract!Image
  <2> QED
    BY <1>2, <1>4, <1>8, <2>1, <2>2
<1>14. Abstract!Flip(r) = Reversed(r)
  <2>1. DOMAIN r = 1..Len(r)
    BY <1>5, LenProperties
  <2> QED
    BY <2>1 DEF Reversed, Abstract!Flip
<1>15. Contents' = g \o Reversed(r)
  BY <1>6 DEF Contents
<1>16. Contents' = Abstract!Image(f, SubSeq(Contents, 1, Len(first)))
                     \o Abstract!Flip(Abstract!Image(f,
                          SubSeq(Contents, Len(first) + 1, Len(Contents))))
  BY <1>11, <1>12, <1>13, <1>14, <1>15
<1>17. Len(first) \in 0..Len(Contents)
  BY StackIs
<1> QED
  BY <1>7, <1>16, <1>17 DEF Abstract!MapElements

(* Every step keeps the types and is a step, or a stutter, of the stack.    *)
LEMMA StackStep ==
  ASSUME TypeOK, [Next]_vars
  PROVE  TypeOK' /\ [Abstract!Next]_Contents
<1>1. CASE Clear
  BY <1>1, StepTransfer DEF Abstract!Next
<1>2. CASE TopTransfer
  BY <1>2, StepTransfer
<1>3. ASSUME NEW x \in Elem, Add(x) \/ AddAtEnd(x)
      PROVE  TypeOK' /\ Abstract!Next
  BY <1>3, StepAdd DEF Abstract!Next
<1>4. ASSUME NEW x \in Elem, RemoveOne(x) \/ MoveAtTop(x) \/ MoveAtEnd(x)
      PROVE  TypeOK' /\ Abstract!Next
  BY <1>4, StepRemove DEF Abstract!Next
<1>5. ASSUME NEW f \in [Elem -> Elem], MapElements(f)
      PROVE  TypeOK' /\ Abstract!Next
  BY <1>5, StepMap DEF Abstract!Next
<1>6. CASE UNCHANGED vars
  BY <1>6 DEF vars, TypeOK, Length, Contents
<1> QED
  BY <1>1, <1>2, <1>3, <1>4, <1>5, <1>6 DEF Next

LEMMA StackInit ==
  ASSUME Init
  PROVE  TypeOK /\ Abstract!Init
<1>1. <<>> \in Seq(Elem) /\ Len(<<>>) = 0
  OBVIOUS
<1>2. MaxSize \in Nat
  BY QstackAssumption DEF QstackAssumption
<1>3. TypeOK
  BY <1>1, <1>2 DEF Init, TypeOK, Length
<1>4. Len(Contents) = 0 /\ Contents \in Seq(Elem)
  BY <1>1, <1>3, StackIs DEF Init
<1> QED
  BY <1>3, <1>4, EmptySeq DEF Abstract!Init

(* In any well typed state `nth' and `idx' agree with the stack.            *)
LEMMA NthIdx ==
  ASSUME TypeOK
  PROVE  NthCountsFromTop
<1>1. ASSUME NEW n \in 0..(Length - 1)
      PROVE  Nth(n) = Contents[n + 1]
  <2>1. n + 1 \in 1..Length /\ (n < Len(first) <=> n + 1 <= Len(first))
    BY StackIs
  <2>2. CASE n < Len(first)
    <3>1. Contents[n + 1] = first[n + 1]
      BY <2>1, <2>2, StackIs
    <3> QED
      BY <2>2, <3>1 DEF Nth
  <2>3. CASE ~ (n < Len(first))
    <3>1. PICK j \in 1..Len(last) : j = n - Len(first) + 1
      <4>1. n - Len(first) + 1 \in 1..Len(last)
        BY <2>1, <2>3, StackIs
      <4> QED
        BY <4>1
    <3>2. Reversed(last)[j] = last[Len(last) - j + 1]
      BY StackIs, ReverseProperties
    <3>3. Contents[n + 1] = last[Length - (n + 1) + 1]
      BY <2>1, <2>3, StackIs
    <3>4. Length - (n + 1) + 1 = Len(last) - j + 1
      BY <3>1, StackIs
    <3> QED
      BY <2>3, <3>1, <3>2, <3>3, <3>4 DEF Nth
  <2> QED
    BY <2>2, <2>3
<1>2. ASSUME NEW x \in Elem, Mem(x)
      PROVE  Nth(Idx(x)) = x
  <2>1. \E i \in 1..Len(Contents) : Contents[i] = x
    <3>1. CASE x \in Range(first)
      <4>1. PICK i \in 1..Len(first) : first[i] = x
        BY <3>1 DEF Range
      <4>2. i \in 1..Length /\ i <= Len(first)
        BY StackIs
      <4>3. Contents[i] = x
        BY <4>1, <4>2, StackIs
      <4> QED
        BY <4>2, <4>3, StackIs
    <3>2. CASE x \in Range(last)
      <4>1. PICK j \in 1..Len(last) : last[j] = x
        BY <3>2 DEF Range
      <4>2. /\ Length - j + 1 \in 1..Length /\ ~ (Length - j + 1 <= Len(first))
            /\ Length - (Length - j + 1) + 1 = j
        BY StackIs
      <4>3. Contents[Length - j + 1] = x
        BY <4>1, <4>2, StackIs
      <4> QED
        BY <4>2, <4>3, StackIs
    <3> QED
      BY <1>2, <3>1, <3>2 DEF Mem
  <2>2. PICK k : k = FirstAt(Contents, x)
    OBVIOUS
  <2>3. k \in 1..Len(Contents) /\ Contents[k] = x
    <3>1. Contents \in Seq(Elem) /\ DOMAIN Contents = 1..Len(Contents)
      BY StackIs, LenProperties
    <3>2. x \in Range(Contents)
      BY <2>1, <3>1 DEF Range
    <3> QED
      BY <2>2, <3>1, <3>2, FirstPlace
  <2>4. Idx(x) = k - 1
    BY <2>2 DEF Idx
  <2>5. k - 1 \in 0..(Length - 1) /\ (k - 1) + 1 = k
    BY <2>3, StackIs
  <2> QED
    BY <1>1, <2>3, <2>4, <2>5
<1> QED
  BY <1>1, <1>2 DEF NthCountsFromTop

(* The two lists of qstack.ml are always lists of elements, and not longer  *)
(* than the bound together.                                                 *)
THEOREM StackTypeCorrect == Spec => []TypeOK
<1>1. Init => TypeOK
  BY StackInit
<1>2. TypeOK /\ [Next]_vars => TypeOK'
  BY StackStep
<1> QED
  BY <1>1, <1>2, PTL DEF Spec

(* The two lists of qstack.ml, with the transfers of `top' and the additions *)
(* at both ends, implement the one stack that qstack.mli promises.          *)
THEOREM StackIsImplemented == Spec => ImplementsStack
<1>1. Init => Abstract!Init
  BY StackInit
<1>2. TypeOK /\ [Next]_vars => [Abstract!Next]_Contents
  BY StackStep
<1> QED
  BY <1>1, <1>2, StackTypeCorrect, PTL DEF Spec, ImplementsStack, Abstract!Spec

(* `nth' and `idx' of qstack.ml count from the top of the stack, over both  *)
(* lists, and `nth' of the `idx' of an element is that element.             *)
THEOREM NthIsRight == Spec => []NthCountsFromTop
<1>1. TypeOK => NthCountsFromTop
  BY NthIdx
<1> QED
  BY <1>1, StackTypeCorrect, PTL

-----------------------------------------------------------------------------
(* The hooks on the current project.                                        *)

\* The hook h looked at the current project, or is still to be called.
Told(h) ==
  \/ seen[h] = Current
  \/ \E i \in DOMAIN frames : h \in Range(frames[i].rest)

\* The applications of hooks by set_current, of which there is at most one.
Setting == {i \in DOMAIN frames : frames[i].by = "set_current"}

FlagInv ==
  /\ \A i, j \in Setting : i = j
  /\ Setting # {} => apply_hook

ToldInv ==
  ~raised /\ ~nested =>
    /\ Len(frames) <= 1
    /\ apply_hook => Setting # {}
    /\ ~on => \A h \in Range(UserHooks) : Told(h)
    /\ ~removed => \A h \in Range(OtherHooks) : Told(h)

HooksInv == HooksTypeOK /\ listed # <<>> /\ FlagInv /\ ToldInv

(* The projects after each operation; the current one is the first.         *)
LEMMA ListedOps ==
  ASSUME listed \in Seq(Project), listed # <<>>, NEW p \in Project
  PROVE  /\ Current \in Project
         /\ listed' = Append(listed, p) =>
              listed' \in Seq(Project) /\ listed' # <<>> /\ Current' = Current
         /\ p \in Range(listed) /\ listed' = <<p>> \o OtherThan(p) =>
              listed' \in Seq(Project) /\ listed' # <<>>
         /\ p \in Range(listed) /\ Len(listed) > 1
              /\ listed' = OtherThan(p) =>
              /\ listed' \in Seq(Project)
              /\ listed' # <<>>
              /\ p # Current => Current' = Current
<1>1. PICK n \in Nat : n = Len(listed) /\ n # 0 /\ DOMAIN listed = 1..n
  BY LenProperties, EmptySeq
<1>2. 1 \in 1..n /\ listed[1] \in Project
  BY <1>1, ElementOfSeq
<1>3. Current \in Project
  BY <1>2 DEF Current
<1>4. ASSUME listed' = Append(listed, p)
      PROVE  listed' \in Seq(Project) /\ listed' # <<>> /\ Current' = Current
  BY <1>1, <1>2, <1>4, AppendProperties DEF Current
<1>5. ASSUME p \in Range(listed)
      PROVE  \E k \in 1..n : listed[k] = p /\ OtherThan(p) = Cut(listed, k)
  <2>1. FirstAt(listed, p) \in 1..n /\ listed[FirstAt(listed, p)] = p
    BY <1>1, <1>5, FirstPlace
  <2>2. OtherThan(p) = Cut(listed, FirstAt(listed, p))
    BY DEF OtherThan, FirstAt, Cut
  <2> QED
    BY <2>1, <2>2
<1>6. ASSUME p \in Range(listed), listed' = <<p>> \o OtherThan(p)
      PROVE  listed' \in Seq(Project) /\ listed' # <<>>
  <2>1. PICK k \in 1..n : OtherThan(p) = Cut(listed, k)
    BY <1>5, <1>6
  <2>2. PICK r : r = Cut(listed, k)
    OBVIOUS
  <2>3. r \in Seq(Project) /\ Len(r) \in Nat
    BY <1>1, <2>2, CutProperties, LenProperties
  <2>4. <<p>> \o r \in Seq(Project) /\ Len(<<p>> \o r) = Len(r) + 1
    BY <2>3, ConsProperties
  <2>5. listed' = <<p>> \o r
    BY <1>6, <2>1, <2>2
  <2> QED
    BY <2>3, <2>4, <2>5
<1>7. ASSUME p \in Range(listed), Len(listed) > 1, listed' = OtherThan(p)
      PROVE  /\ listed' \in Seq(Project)
             /\ listed' # <<>>
             /\ p # Current => Current' = Current
  <2>1. PICK k \in 1..n : listed[k] = p /\ OtherThan(p) = Cut(listed, k)
    BY <1>5, <1>7
  <2>2. PICK r : r = Cut(listed, k)
    OBVIOUS
  <2>3. /\ r \in Seq(Project)
        /\ Len(r) = n - 1
        /\ \A i \in 1..(n - 1) : r[i] = IF i < k THEN listed[i] ELSE listed[i + 1]
    BY <1>1, <2>2, CutProperties
  <2>4. 1 \in 1..(n - 1) /\ n - 1 # 0
    BY <1>1, <1>7
  <2>5. listed' = r
    BY <1>7, <2>1, <2>2
  <2>6. r # <<>>
    BY <2>3, <2>4
  <2>7. ASSUME p # listed[1]
        PROVE  r[1] = listed[1]
    <3>1. 1 < k
      BY <2>1, <2>7
    <3> QED
      BY <2>3, <2>4, <3>1
  <2> QED
    BY <2>3, <2>5, <2>6, <2>7 DEF Current
<1> QED
  BY <1>3, <1>4, <1>6, <1>7

(* A call of hooks is pushed on those in progress.                          *)
LEMMA PushFrame ==
  ASSUME frames \in Seq(Frame), NEW by \in {"set_current", "remove"},
         NEW q \in Seq(Hook), frames' = Append(frames, Apply(by, q))
  PROVE  /\ frames' \in Seq(Frame)
         /\ Len(frames) \in Nat
         /\ DOMAIN frames = 1..Len(frames)
         /\ DOMAIN frames' = 1..(Len(frames) + 1)
         /\ Len(frames') = Len(frames) + 1
         /\ \A i \in DOMAIN frames : frames'[i] = frames[i]
         /\ frames'[Len(frames) + 1].by = by
         /\ frames'[Len(frames) + 1].rest = q
<1>1. PICK f : f = Apply(by, q)
  OBVIOUS
<1>2. f \in Frame /\ f.by = by /\ f.rest = q
  BY <1>1 DEF Frame, Apply
<1>3. Len(frames) \in Nat /\ DOMAIN frames = 1..Len(frames)
  BY LenProperties
<1>4. /\ Append(frames, f) \in Seq(Frame)
      /\ Len(Append(frames, f)) = Len(frames) + 1
      /\ \A i \in 1..Len(frames) : Append(frames, f)[i] = frames[i]
      /\ Append(frames, f)[Len(frames) + 1] = f
  BY <1>2, AppendProperties
<1>5. frames' = Append(frames, f)
  BY <1>1
<1>6. frames' \in Seq(Frame) /\ Len(frames') = Len(frames) + 1
  BY <1>4, <1>5
<1>7. DOMAIN frames' = 1..(Len(frames) + 1)
  BY <1>6, LenProperties
<1> QED
  BY <1>2, <1>3, <1>4, <1>5, <1>6, <1>7

(* The innermost call of hooks goes on, or is taken away.                   *)
LEMMA TopFrame ==
  ASSUME frames \in Seq(Frame), frames # <<>>
  PROVE  /\ Len(frames) \in Nat /\ Len(frames) \in 1..Len(frames)
         /\ DOMAIN frames = 1..Len(frames)
         /\ Top = frames[Len(frames)] /\ Top \in Frame
         /\ \A f \in Frame : frames' = [frames EXCEPT ![Len(frames)] = f] =>
              /\ frames' \in Seq(Frame)
              /\ Len(frames') = Len(frames)
              /\ DOMAIN frames' = DOMAIN frames
              /\ frames'[Len(frames)] = f
              /\ \A i \in DOMAIN frames : i # Len(frames) => frames'[i] = frames[i]
         /\ frames' = Outer =>
              /\ frames' \in Seq(Frame)
              /\ Len(frames') = Len(frames) - 1
              /\ DOMAIN frames' = 1..(Len(frames) - 1)
              /\ \A i \in 1..(Len(frames) - 1) : frames'[i] = frames[i]
<1>1. /\ Len(frames) \in Nat /\ Len(frames) \in 1..Len(frames)
      /\ DOMAIN frames = 1..Len(frames)
  BY LenProperties, EmptySeq
<1>2. Top = frames[Len(frames)] /\ Top \in Frame
  BY <1>1, ElementOfSeq DEF Top
<1>3. ASSUME NEW f \in Frame, frames' = [frames EXCEPT ![Len(frames)] = f]
      PROVE  /\ frames' \in Seq(Frame)
             /\ Len(frames') = Len(frames)
             /\ DOMAIN frames' = DOMAIN frames
             /\ frames'[Len(frames)] = f
             /\ \A i \in DOMAIN frames : i # Len(frames) => frames'[i] = frames[i]
  BY <1>1, <1>3, ExceptSeq
<1>4. ASSUME frames' = Outer
      PROVE  /\ frames' \in Seq(Frame)
             /\ Len(frames') = Len(frames) - 1
             /\ DOMAIN frames' = 1..(Len(frames) - 1)
             /\ \A i \in 1..(Len(frames) - 1) : frames'[i] = frames[i]
  <2>1. Len(frames) - 1 \in 0..Len(frames)
    BY <1>1
  <2>2. frames' = SubSeq(frames, 1, Len(frames) - 1)
    BY <1>4 DEF Outer
  <2>3. /\ frames' \in Seq(Frame)
        /\ Len(frames') = Len(frames) - 1
        /\ \A i \in 1..(Len(frames) - 1) : frames'[i] = frames[i]
    BY <2>1, <2>2, PrefixProperties
  <2> QED
    BY <2>3, LenProperties
<1> QED
  BY <1>1, <1>2, <1>3, <1>4

(* The types of the variables, one by one.                                  *)
LEMMA HooksTypes ==
  HooksTypeOK <=> /\ listed \in Seq(Project)
                  /\ frames \in Seq(Frame)
                  /\ seen \in [Hook -> Project]
                  /\ apply_hook \in BOOLEAN /\ raised \in BOOLEAN
                  /\ nested \in BOOLEAN /\ on \in BOOLEAN /\ removed \in BOOLEAN
  BY DEF HooksTypeOK

(* A step that leaves the calls of hooks and the current project alone.     *)
LEMMA SameFrames ==
  ASSUME FlagInv, ToldInv, Current' = Current, nested => nested',
         UNCHANGED <<apply_hook, frames, seen, raised, on, removed>>
  PROVE  FlagInv' /\ ToldInv'
<1>1. Setting' = Setting /\ \A h : Told(h)' <=> Told(h)
  BY DEF Setting, Told
<1> QED
  BY <1>1 DEF FlagInv, ToldInv

LEMMA StepCreate ==
  ASSUME HooksInv, NEW p \in Project, Create(p)
  PROVE  HooksInv'
<1>1. listed' = Append(listed, p)
      /\ UNCHANGED <<apply_hook, frames, seen, raised, nested, on, removed>>
  BY DEF Create
<1>2. listed' \in Seq(Project) /\ listed' # <<>> /\ Current' = Current
  BY <1>1, ListedOps, HooksTypes DEF HooksInv
<1>3. HooksTypeOK'
  BY <1>1, <1>2 DEF HooksInv, HooksTypeOK
<1>4. FlagInv' /\ ToldInv'
  BY <1>1, <1>2, SameFrames DEF HooksInv
<1> QED
  BY <1>2, <1>3, <1>4 DEF HooksInv

(* The hooks that set_current calls.                                        *)
LEMMA CalledHooks ==
  ASSUME NEW b \in BOOLEAN
  PROVE  /\ (IF b THEN <<>> ELSE UserHooks) \o OtherHooks \in Seq(Hook)
         /\ Range(OtherHooks) \subseteq
              Range((IF b THEN <<>> ELSE UserHooks) \o OtherHooks)
         /\ ~b => Range(UserHooks) \subseteq
                    Range((IF b THEN <<>> ELSE UserHooks) \o OtherHooks)
<1>1. PICK u : u = IF b THEN <<>> ELSE UserHooks
  OBVIOUS
<1>2. u \in Seq(Hook) /\ OtherHooks \in Seq(Hook) /\ (~b => u = UserHooks)
  BY <1>1, HooksAssumption DEF HooksAssumption
<1>3. PICK n, m \in Nat : n = Len(u) /\ m = Len(OtherHooks)
  BY <1>2, LenProperties
<1>4. PICK q : q = u \o OtherHooks
  OBVIOUS
<1>5. q \in Seq(Hook) /\ Len(q) = n + m
      /\ \A i \in 1..(n + m) : q[i] = IF i <= n THEN u[i] ELSE OtherHooks[i - n]
  BY <1>2, <1>3, <1>4, ConcatProperties
<1>6. DOMAIN q = 1..(n + m) /\ DOMAIN u = 1..n /\ DOMAIN OtherHooks = 1..m
  BY <1>2, <1>3, <1>5, LenProperties
<1>7. Range(u) \subseteq Range(q)
  <2>1. \A i \in 1..n : i \in 1..(n + m) /\ q[i] = u[i]
    BY <1>5
  <2> QED
    BY <1>6, <2>1 DEF Range
<1>8. Range(OtherHooks) \subseteq Range(q)
  <2>1. ASSUME NEW i \in 1..m
        PROVE  n + i \in 1..(n + m) /\ q[n + i] = OtherHooks[i]
    <3>1. n + i \in 1..(n + m) /\ ~ (n + i <= n) /\ n + i - n = i
      OBVIOUS
    <3> QED
      BY <1>5, <3>1
  <2> QED
    BY <1>6, <2>1 DEF Range
<1> QED
  BY <1>1, <1>2, <1>4, <1>5, <1>7, <1>8

LEMMA StepSetCurrent ==
  ASSUME HooksInv, NEW p \in Project, NEW b \in BOOLEAN, SetCurrent(p, b)
  PROVE  HooksInv'
<1>1. /\ listed \in Seq(Project) /\ listed # <<>> /\ frames \in Seq(Frame)
      /\ apply_hook \in BOOLEAN /\ nested \in BOOLEAN /\ on \in BOOLEAN
      /\ FlagInv /\ ToldInv
  BY HooksTypes DEF HooksInv
<1>2. /\ p \in Range(listed)
      /\ listed' = <<p>> \o OtherThan(p)
      /\ Hooks(b)
      /\ nested' = (nested \/ frames # <<>>)
      /\ on' = (on \/ b)
      /\ UNCHANGED <<seen, raised, removed>>
  BY DEF SetCurrent
<1>3. listed' \in Seq(Project) /\ listed' # <<>>
  BY <1>1, <1>2, ListedOps
<1>4. ~ nested' => ~ nested /\ frames = <<>>
  BY <1>2
<1>5. frames = <<>> => Len(frames) = 0 /\ DOMAIN frames = {} /\ Setting = {}
  BY DEF Setting
<1>6. CASE apply_hook
  <2>1. UNCHANGED <<apply_hook, frames>>
    BY <1>2, <1>6 DEF Hooks
  <2>2. HooksTypeOK'
    BY <1>2, <1>3, <2>1 DEF HooksInv, HooksTypeOK
  <2>3. FlagInv'
    BY <1>1, <2>1 DEF FlagInv, Setting
  <2>4. raised' \/ nested'
    BY <1>1, <1>2, <1>4, <1>5, <1>6 DEF ToldInv
  <2> QED
    BY <1>3, <2>2, <2>3, <2>4 DEF HooksInv, ToldInv
<1>7. CASE ~ apply_hook
  <2>1. PICK q : q = (IF b THEN <<>> ELSE UserHooks) \o OtherHooks
    OBVIOUS
  <2>2. /\ q \in Seq(Hook)
        /\ Range(OtherHooks) \subseteq Range(q)
        /\ ~b => Range(UserHooks) \subseteq Range(q)
    BY <2>1, CalledHooks
  <2>3. apply_hook' = TRUE /\ frames' = Append(frames, Apply("set_current", q))
    BY <1>2, <1>7, <2>1 DEF Hooks
  <2>4. PICK n \in Nat : n = Len(frames)
    BY <1>1, LenProperties
  <2>5. /\ frames' \in Seq(Frame) /\ DOMAIN frames = 1..n
        /\ DOMAIN frames' = 1..(n + 1) /\ Len(frames') = n + 1
        /\ \A i \in DOMAIN frames : frames'[i] = frames[i]
        /\ frames'[n + 1].by = "set_current" /\ frames'[n + 1].rest = q
    BY <1>1, <2>2, <2>3, <2>4, PushFrame
  <2>6. HooksTypeOK'
    BY <1>2, <1>3, <2>3, <2>5 DEF HooksInv, HooksTypeOK
  <2>7. Setting' = {n + 1}
    <3>1. Setting = {}
      BY <1>1, <1>7 DEF FlagInv
    <3>2. n + 1 \in DOMAIN frames' /\ \A i \in DOMAIN frames' : i \in DOMAIN frames \/ i = n + 1
      BY <2>5
    <3>3. Setting' = {i \in DOMAIN frames' : frames'[i].by = "set_current"}
      BY DEF Setting
    <3> QED
      BY <2>5, <3>1, <3>2, <3>3 DEF Setting
  <2>8. FlagInv'
    BY <2>3, <2>7 DEF FlagInv
  <2>9. ToldInv'
    <3>1. SUFFICES ASSUME ~raised', ~nested'
                   PROVE  /\ Len(frames') <= 1
                          /\ apply_hook' => Setting' # {}
                          /\ ~on' => \A h \in Range(UserHooks) : Told(h)'
                          /\ ~removed' => \A h \in Range(OtherHooks) : Told(h)'
      BY DEF ToldInv
    <3>2. n = 0 /\ Len(frames') <= 1
      BY <1>4, <1>5, <2>4, <2>5, <3>1
    <3>3. \A h \in Range(q) : Told(h)'
      BY <2>5, <3>2 DEF Told
    <3>4. ~on' => ~b
      BY <1>2
    <3> QED
      BY <2>2, <2>7, <3>2, <3>3, <3>4
  <2> QED
    BY <1>3, <2>6, <2>8, <2>9 DEF HooksInv
<1> QED
  BY <1>1, <1>6, <1>7

LEMMA StepRemoveProject ==
  ASSUME HooksInv, NEW p \in Project, RemoveProject(p)
  PROVE  HooksInv'
<1>1. /\ listed \in Seq(Project) /\ listed # <<>> /\ frames \in Seq(Frame)
      /\ apply_hook \in BOOLEAN /\ nested \in BOOLEAN
      /\ FlagInv /\ ToldInv
  BY HooksTypes DEF HooksInv
<1>2. /\ p \in Range(listed) /\ Len(listed) > 1
      /\ listed' = OtherThan(p)
      /\ nested' = (nested \/ frames # <<>>)
      /\ UNCHANGED <<apply_hook, seen, raised, on>>
  BY DEF RemoveProject
<1>3. listed' \in Seq(Project) /\ listed' # <<>> /\ (p # Current => Current' = Current)
  BY <1>1, <1>2, ListedOps
<1>4. ~ nested' => ~ nested /\ frames = <<>>
  BY <1>2
<1>5. frames = <<>> => Len(frames) = 0 /\ DOMAIN frames = {} /\ Setting = {}
  BY DEF Setting
<1>6. CASE p # Current
  <2>1. UNCHANGED <<frames, removed>>
    BY <1>6 DEF RemoveProject
  <2>2. HooksTypeOK'
    BY <1>2, <1>3, <2>1 DEF HooksInv, HooksTypeOK
  <2>3. FlagInv' /\ ToldInv'
    BY <1>1, <1>2, <1>3, <1>4, <1>6, <2>1, SameFrames
  <2> QED
    BY <1>3, <2>2, <2>3 DEF HooksInv
<1>7. CASE p = Current
  <2>1. frames' = Append(frames, Apply("remove", UserHooks)) /\ removed' = TRUE
    BY <1>7 DEF RemoveProject
  <2>2. UserHooks \in Seq(Hook)
    BY HooksAssumption DEF HooksAssumption
  <2>3. PICK n \in Nat : n = Len(frames)
    BY <1>1, LenProperties
  <2>4. /\ frames' \in Seq(Frame) /\ DOMAIN frames = 1..n
        /\ DOMAIN frames' = 1..(n + 1) /\ Len(frames') = n + 1
        /\ \A i \in DOMAIN frames : frames'[i] = frames[i]
        /\ frames'[n + 1].by = "remove" /\ frames'[n + 1].rest = UserHooks
    BY <1>1, <2>1, <2>2, <2>3, PushFrame
  <2>5. HooksTypeOK'
    BY <1>2, <1>3, <2>1, <2>4 DEF HooksInv, HooksTypeOK
  <2>6. Setting' = Setting
    <3>1. /\ \A i \in DOMAIN frames' : i \in DOMAIN frames \/ i = n + 1
          /\ \A i \in DOMAIN frames : i \in DOMAIN frames'
      BY <2>4
    <3>2. Setting' = {i \in DOMAIN frames' : frames'[i].by = "set_current"}
      BY DEF Setting
    <3> QED
      BY <2>4, <3>1, <3>2 DEF Setting
  <2>7. FlagInv'
    BY <1>1, <1>2, <2>6 DEF FlagInv
  <2>8. ToldInv'
    <3>1. SUFFICES ASSUME ~raised', ~nested'
                   PROVE  /\ Len(frames') <= 1
                          /\ apply_hook' => Setting' # {}
                          /\ ~on' => \A h \in Range(UserHooks) : Told(h)'
                          /\ ~removed' => \A h \in Range(OtherHooks) : Told(h)'
      BY DEF ToldInv
    <3>2. n = 0 /\ Len(frames') <= 1
      BY <1>4, <1>5, <2>3, <2>4, <3>1
    <3>3. \A h \in Range(UserHooks) : Told(h)'
      BY <2>4, <3>2 DEF Told
    <3>4. apply_hook' => Setting' # {}
      BY <1>1, <1>2, <1>4, <2>6, <3>1 DEF ToldInv
    <3> QED
      BY <2>1, <3>2, <3>3, <3>4
  <2> QED
    BY <1>3, <2>5, <2>7, <2>8 DEF HooksInv
<1> QED
  BY <1>6, <1>7

(* Replacing the innermost call of hooks, by the same function.             *)
LEMMA SetFrame ==
  ASSUME frames \in Seq(Frame), frames # <<>>, NEW f \in Frame,
         f.by = Top.by, frames' = [frames EXCEPT ![Len(frames)] = f]
  PROVE  /\ frames' \in Seq(Frame) /\ Len(frames') = Len(frames)
         /\ DOMAIN frames' = DOMAIN frames
         /\ Len(frames) \in DOMAIN frames
         /\ Top = frames[Len(frames)]
         /\ frames'[Len(frames)] = f
         /\ \A i \in DOMAIN frames : i # Len(frames) => frames'[i] = frames[i]
         /\ Setting' = Setting
<1>1. /\ frames' \in Seq(Frame) /\ Len(frames') = Len(frames)
      /\ DOMAIN frames' = DOMAIN frames
      /\ Len(frames) \in DOMAIN frames
      /\ Top = frames[Len(frames)]
      /\ frames'[Len(frames)] = f
      /\ \A i \in DOMAIN frames : i # Len(frames) => frames'[i] = frames[i]
  BY TopFrame
<1>2. \A i \in DOMAIN frames : frames'[i].by = frames[i].by
  BY <1>1
<1>3. Setting' = {i \in DOMAIN frames' : frames'[i].by = "set_current"}
  BY DEF Setting
<1>4. Setting' = Setting
  BY <1>1, <1>2, <1>3 DEF Setting
<1> QED
  BY <1>1, <1>4

LEMMA StepCallHook ==
  ASSUME HooksInv, CallHook
  PROVE  HooksInv'
<1>1. /\ listed \in Seq(Project) /\ listed # <<>> /\ frames \in Seq(Frame)
      /\ seen \in [Hook -> Project] /\ FlagInv /\ ToldInv
  BY HooksTypes DEF HooksInv
<1>2. /\ frames # <<>> /\ Top.rest # <<>>
      /\ frames' = [frames EXCEPT ![Len(frames)].hook = Head(Top.rest),
                                  ![Len(frames)].rest = Tail(Top.rest)]
      /\ seen' = [seen EXCEPT ![Head(Top.rest)] = Current]
      /\ UNCHANGED <<listed, apply_hook, raised, nested, on, removed>>
  BY DEF CallHook
<1>3. Current \in Project /\ Current' = Current
  BY <1>1, <1>2, ElementOfSeq, EmptySeq, LenProperties DEF Current
<1>4. PICK n : n = Len(frames)
  OBVIOUS
<1>5. n \in DOMAIN frames /\ Top = frames[n] /\ Top \in Frame
  BY <1>1, <1>2, <1>4, TopFrame
<1>6. PICK r \in Seq(Hook) : r = Top.rest
  BY <1>5 DEF Frame
<1>7. /\ Head(r) \in Hook /\ Tail(r) \in Seq(Hook)
      /\ \A h \in Range(r) : h = Head(r) \/ h \in Range(Tail(r))
  <2>1. PICK m \in Nat : m = Len(r) /\ m # 0
    BY <1>2, <1>6, LenProperties, EmptySeq
  <2>2. /\ Head(r) = r[1] /\ Tail(r) \in Seq(Hook) /\ Len(Tail(r)) = m - 1
        /\ \A i \in 1..(m - 1) : Tail(r)[i] = r[i + 1]
    BY <1>2, <1>6, <2>1, HeadTailProperties
  <2>3. 1 \in 1..m /\ r[1] \in Hook
    BY <2>1, ElementOfSeq
  <2>4. DOMAIN r = 1..m /\ DOMAIN Tail(r) = 1..(m - 1)
    BY <2>1, <2>2, LenProperties
  <2>5. ASSUME NEW i \in 1..m, i # 1
        PROVE  r[i] \in Range(Tail(r))
    <3>1. i - 1 \in 1..(m - 1) /\ (i - 1) + 1 = i
      BY <2>5
    <3>2. Tail(r)[i - 1] = r[i]
      BY <2>2, <3>1
    <3> QED
      BY <2>4, <3>1, <3>2 DEF Range
  <2> QED
    BY <2>2, <2>3, <2>4, <2>5 DEF Range
<1>8. PICK f \in Frame : f = [Top EXCEPT !.hook = Head(r), !.rest = Tail(r)]
  BY <1>5, <1>7 DEF Frame
<1>9. f.by = Top.by /\ f.rest = Tail(r)
  BY <1>5, <1>8 DEF Frame
<1>10. frames' = [frames EXCEPT ![Len(frames)] = f]
  BY <1>1, <1>2, <1>4, <1>5, <1>6, <1>8
<1>11. /\ frames' \in Seq(Frame) /\ Len(frames') = Len(frames)
       /\ DOMAIN frames' = DOMAIN frames
       /\ frames'[n] = f
       /\ \A i \in DOMAIN frames : i # n => frames'[i] = frames[i]
       /\ Setting' = Setting
  BY <1>1, <1>2, <1>4, <1>9, <1>10, SetFrame
<1>12. seen' \in [Hook -> Project]
  BY <1>1, <1>2, <1>3
<1>13. HooksTypeOK'
  BY <1>2, <1>11, <1>12 DEF HooksInv, HooksTypeOK
<1>14. FlagInv'
  BY <1>1, <1>2, <1>11 DEF FlagInv
<1>15. ASSUME NEW h \in Hook, Told(h)
       PROVE  Told(h)'
  <2>1. CASE h = Head(r)
    BY <1>1, <1>2, <1>3, <1>6, <1>7, <2>1 DEF Told
  <2>2. CASE h # Head(r) /\ seen[h] = Current
    BY <1>1, <1>2, <1>3, <1>6, <2>2 DEF Told
  <2>3. ASSUME h # Head(r), NEW i \in DOMAIN frames, h \in Range(frames[i].rest)
        PROVE  Told(h)'
    <3>1. h \in Range(frames'[i].rest)
      BY <1>5, <1>6, <1>7, <1>9, <1>11, <2>3
    <3> QED
      BY <1>11, <3>1 DEF Told
  <2> QED
    BY <1>15, <2>1, <2>2, <2>3 DEF Told
<1>16. ToldInv'
  <2>1. Range(UserHooks) \subseteq Hook /\ Range(OtherHooks) \subseteq Hook
    BY DEF Hook
  <2> QED
    BY <1>1, <1>2, <1>11, <1>15, <2>1 DEF ToldInv
<1> QED
  BY <1>1, <1>2, <1>13, <1>14, <1>16 DEF HooksInv

LEMMA StepHookReturns ==
  ASSUME HooksInv, HookReturns
  PROVE  HooksInv'
<1>1. /\ listed # <<>> /\ frames \in Seq(Frame) /\ FlagInv /\ ToldInv
  BY HooksTypes DEF HooksInv
<1>2. /\ frames # <<>>
      /\ frames' = [frames EXCEPT ![Len(frames)].hook = NoHook]
      /\ UNCHANGED <<listed, apply_hook, seen, raised, nested, on, removed>>
  BY DEF HookReturns
<1>3. PICK n : n = Len(frames)
  OBVIOUS
<1>4. n \in DOMAIN frames /\ Top = frames[n] /\ Top \in Frame
  BY <1>1, <1>2, <1>3, TopFrame
<1>5. PICK f \in Frame : f = [Top EXCEPT !.hook = NoHook]
  BY <1>4 DEF Frame
<1>6. f.by = Top.by /\ f.rest = Top.rest
  BY <1>4, <1>5 DEF Frame
<1>7. frames' = [frames EXCEPT ![Len(frames)] = f]
  BY <1>1, <1>2, <1>3, <1>4, <1>5
<1>8. /\ frames' \in Seq(Frame) /\ Len(frames') = Len(frames)
      /\ DOMAIN frames' = DOMAIN frames
      /\ frames'[n] = f
      /\ \A i \in DOMAIN frames : i # n => frames'[i] = frames[i]
      /\ Setting' = Setting
  BY <1>1, <1>2, <1>3, <1>6, <1>7, SetFrame
<1>9. \A i \in DOMAIN frames : frames'[i].rest = frames[i].rest
  BY <1>4, <1>6, <1>8
<1>10. HooksTypeOK'
  BY <1>2, <1>8 DEF HooksInv, HooksTypeOK
<1>11. FlagInv'
  BY <1>1, <1>2, <1>8 DEF FlagInv
<1>12. \A h : Told(h)' <=> Told(h)
  BY <1>2, <1>8, <1>9 DEF Told, Current
<1>13. ToldInv'
  BY <1>1, <1>2, <1>8, <1>12 DEF ToldInv
<1> QED
  BY <1>1, <1>2, <1>10, <1>11, <1>13 DEF HooksInv

(* The innermost call of hooks ends.                                        *)
LEMMA StepPop ==
  ASSUME HooksInv, HookRaises \/ HooksDone
  PROVE  HooksInv'
<1>1. /\ listed # <<>> /\ frames \in Seq(Frame) /\ apply_hook \in BOOLEAN
      /\ FlagInv /\ ToldInv
  BY HooksTypes DEF HooksInv
<1>2. /\ frames # <<>> /\ frames' = Outer
      /\ UNCHANGED <<listed, seen, nested, on, removed>>
  BY DEF HookRaises, HooksDone
<1>3. PICK n \in Nat : n = Len(frames)
  BY <1>1, LenProperties
<1>4. /\ n \in 1..n /\ DOMAIN frames = 1..n
      /\ Top = frames[n] /\ Top \in Frame
      /\ frames' \in Seq(Frame) /\ Len(frames') = n - 1
      /\ DOMAIN frames' = 1..(n - 1)
      /\ \A i \in 1..(n - 1) : frames'[i] = frames[i]
  BY <1>1, <1>2, <1>3, TopFrame
<1>5. \A i : i \in Setting' <=> i \in Setting /\ i # n
  <2>1. \A i : i \in 1..(n - 1) <=> i \in 1..n /\ i # n
    OBVIOUS
  <2>2. Setting' = {i \in DOMAIN frames' : frames'[i].by = "set_current"}
    BY DEF Setting
  <2> QED
    BY <1>4, <2>1, <2>2 DEF Setting
<1>6. CASE HookRaises
  <2>1. raised' = TRUE /\ apply_hook' = apply_hook
    BY <1>6 DEF HookRaises
  <2>2. HooksTypeOK'
    BY <1>2, <1>4, <2>1 DEF HooksInv, HooksTypeOK
  <2>3. FlagInv'
    BY <1>1, <1>5, <2>1 DEF FlagInv
  <2> QED
    BY <1>1, <1>2, <2>1, <2>2, <2>3 DEF HooksInv, ToldInv
<1>7. CASE HooksDone
  <2>1. /\ Top.rest = <<>> /\ raised' = raised
        /\ apply_hook' = (apply_hook /\ Top.by # "set_current")
    BY <1>7 DEF HooksDone
  <2>2. apply_hook' \in BOOLEAN
    BY <1>1, <2>1
  <2>3. HooksTypeOK'
    BY <1>2, <1>4, <2>1, <2>2 DEF HooksInv, HooksTypeOK
  <2>4. Top.by = "set_current" <=> n \in Setting
    BY <1>4 DEF Setting
  <2>5. FlagInv'
    <3>1. ASSUME NEW i \in Setting'
          PROVE  apply_hook'
      <4>1. i \in Setting /\ i # n
        BY <1>5
      <4>2. n \notin Setting
        BY <1>1, <4>1 DEF FlagInv
      <4>3. apply_hook
        BY <1>1, <4>1 DEF FlagInv
      <4> QED
        BY <2>1, <2>4, <4>2, <4>3
    <3>2. \A i, j \in Setting' : i = j
      BY <1>1, <1>5 DEF FlagInv
    <3> QED
      BY <3>1, <3>2 DEF FlagInv
  <2>6. ToldInv'
    <3>1. SUFFICES ASSUME ~raised', ~nested'
                   PROVE  /\ Len(frames') <= 1
                          /\ apply_hook' => Setting' # {}
                          /\ ~on' => \A h \in Range(UserHooks) : Told(h)'
                          /\ ~removed' => \A h \in Range(OtherHooks) : Told(h)'
      BY DEF ToldInv
    <3>2. /\ Len(frames) <= 1
          /\ apply_hook => Setting # {}
          /\ ~on => \A h \in Range(UserHooks) : Told(h)
          /\ ~removed => \A h \in Range(OtherHooks) : Told(h)
      BY <1>1, <1>2, <2>1, <3>1 DEF ToldInv
    <3>3. n = 1 /\ Len(frames') <= 1 /\ DOMAIN frames = {1}
      BY <1>3, <1>4, <3>2
    <3>4. ~ apply_hook'
      BY <1>4, <2>1, <2>4, <3>2, <3>3 DEF Setting
    <3>5. Range(<<>>) = {}
      BY DEF Range
    <3>6. ASSUME NEW h, Told(h)
          PROVE  Told(h)'
      <4>1. seen[h] = Current
        BY <1>4, <2>1, <3>3, <3>5, <3>6 DEF Told
      <4> QED
        BY <1>2, <4>1 DEF Told, Current
    <3> QED
      BY <1>2, <3>2, <3>3, <3>4, <3>6
  <2> QED
    BY <1>1, <1>2, <2>3, <2>5, <2>6 DEF HooksInv
<1> QED
  BY <1>6, <1>7

LEMMA HooksStart ==
  ASSUME HooksInit
  PROVE  HooksInv
<1>1. PICK p \in Project : listed = <<p>> /\ seen = [h \in Hook |-> p]
  BY DEF HooksInit
<1>2. /\ frames = <<>> /\ apply_hook = FALSE /\ raised = FALSE
      /\ nested = FALSE /\ on = FALSE /\ removed = FALSE
  BY DEF HooksInit
<1>3. HooksTypeOK
  <2>1. listed \in Seq(Project)
    BY <1>1
  <2>2. frames \in Seq(Frame)
    BY <1>2
  <2>3. seen \in [Hook -> Project]
    BY <1>1
  <2> QED
    BY <1>2, <2>1, <2>2, <2>3, HooksTypes
<1>4. listed # <<>> /\ Current = p
  BY <1>1 DEF Current
<1>5. DOMAIN frames = {} /\ Len(frames) = 0 /\ Setting = {}
  BY <1>2 DEF Setting
<1>6. \A h \in Hook : Told(h)
  BY <1>1, <1>4 DEF Told
<1>7. FlagInv /\ ToldInv
  BY <1>2, <1>5, <1>6 DEF FlagInv, ToldInv, Hook
<1> QED
  BY <1>3, <1>4, <1>7 DEF HooksInv

LEMMA HooksStep ==
  ASSUME HooksInv, [HooksNext]_hooks
  PROVE  HooksInv'
<1>1. CASE UNCHANGED hooks
  <2>1. UNCHANGED <<listed, apply_hook, frames, seen, raised, nested, on, removed>>
    BY <1>1 DEF hooks
  <2>2. Current' = Current
    BY <2>1 DEF Current
  <2>3. FlagInv' /\ ToldInv'
    BY <2>1, <2>2, SameFrames DEF HooksInv
  <2> QED
    BY <2>1, <2>3 DEF HooksInv, HooksTypeOK
<1>2. CASE HooksNext
  BY <1>2, StepCreate, StepSetCurrent, StepRemoveProject, StepCallHook,
     StepHookReturns, StepPop DEF HooksNext
<1> QED
  BY <1>1, <1>2

LEMMA HooksInvSound ==
  ASSUME HooksInv
  PROVE  HooksSound
<1>1. HooksNotReentered
  BY DEF HooksInv, FlagInv, Setting, HooksNotReentered
<1>2. HooksKnowCurrent
  <2>1. SUFFICES ASSUME frames = <<>>, ~raised, ~nested
                 PROVE  /\ ~apply_hook
                        /\ ~on => \A h \in Range(UserHooks) : seen[h] = Current
                        /\ ~removed => \A h \in Range(OtherHooks) : seen[h] = Current
    BY DEF HooksKnowCurrent
  <2>2. DOMAIN frames = {} /\ Setting = {}
    BY <2>1 DEF Setting
  <2> QED
    BY <2>1, <2>2 DEF HooksInv, ToldInv, Told
<1> QED
  BY <1>1, <1>2 DEF HooksSound

(* Whatever the hooks do, the hooks of set_current are not called inside    *)
(* one another, and between two operations every hook has been told of the  *)
(* current project, but for the cases that HooksKnowCurrent names           *)
(* (unjournalized_set_current and `remove' of project.ml).                  *)
THEOREM HooksAlwaysSound == HooksSpec => []HooksSound
<1>1. HooksInit => HooksInv
  BY HooksStart
<1>2. HooksInv /\ [HooksNext]_hooks => HooksInv'
  BY HooksStep
<1>3. HooksInv => HooksSound
  BY HooksInvSound
<1> QED
  BY <1>1, <1>2, <1>3, PTL DEF HooksSpec

=============================================================================
