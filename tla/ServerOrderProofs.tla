------------------------- MODULE ServerOrderProofs ---------------------------
(***************************************************************************)
(* The responses of the Server plug-in are in the order of the requests:   *)
(* the proof, for any set of request ids and any message length.           *)
(***************************************************************************)
EXTENDS ServerMainProofs

-----------------------------------------------------------------------------
(* The order of the responses.                                              *)

SeqInv == KindsInv /\ LineInv /\ MessageOrder

\* A step that fetches nothing orders nothing.
LEMMA SameOrder ==
  ASSUME UNCHANGED <<issued, precedes>>
  PROVE  /\ IssuedIds' = IssuedIds /\ QueuedIds' = QueuedIds
         /\ \A x, y : Ordered(x, y)' <=> Ordered(x, y)
         /\ \A s : InOrder(s)' <=> InOrder(s)
         /\ \A S, T : Ahead(S, T)' <=> Ahead(S, T)
<1>1. IssuedIds' = IssuedIds /\ QueuedIds' = QueuedIds
  BY DEF IssuedIds, QueuedIds
<1>2. \A x, y : Ordered(x, y)' <=> Ordered(x, y)
  BY <1>1 DEF Ordered
<1>3. \A s : InOrder(s)' <=> InOrder(s)
  BY <1>2 DEF InOrder
<1>4. \A S, T : Ahead(S, T)' <=> Ahead(S, T)
  BY <1>2 DEF Ahead
<1> QED
  BY <1>1, <1>2, <1>3, <1>4

LEMMA KindsMean ==
  ASSUME KindsInv, NEW id, NEW k, <<id, k>> \in issued
  PROVE  id \in QueuedIds <=> k \in Queued
<1>1. ASSUME id \in QueuedIds PROVE k \in Queued
  <2>1. PICK r \in issued : r[1] = id /\ r[2] \in Queued
    BY <1>1 DEF QueuedIds
  <2>2. r = <<id, k>>
    BY <2>1 DEF KindsInv
  <2> QED
    BY <2>1, <2>2
<1>2. ASSUME k \in Queued PROVE id \in QueuedIds
  BY <1>2 DEF QueuedIds
<1> QED
  BY <1>1, <1>2

LEMMA InOrderAppend ==
  ASSUME NEW S, NEW s \in Seq(S), NEW e \in S, InOrder(s), Ahead(IdsOf(s), {e.id})
  PROVE  InOrder(Append(s, e))
<1> DEFINE t == Append(s, e)
           n == Len(s)
<1>1. /\ n \in Nat /\ DOMAIN s = 1..n /\ DOMAIN t = 1..(n + 1)
      /\ \A i \in 1..n : t[i] = s[i]
      /\ t[n + 1] = e
  BY AppendProperties, LenProperties
<1> HIDE DEF t, n
<1>2. ASSUME NEW i \in DOMAIN t, NEW j \in DOMAIN t, i < j
      PROVE  ~Ordered(t[j].id, t[i].id)
  <2>1. i \in 1..n /\ t[i] = s[i] /\ (j \in 1..n \/ j = n + 1)
    BY <1>1, <1>2
  <2>2. CASE j \in 1..n
    BY <1>1, <1>2, <2>1, <2>2 DEF InOrder
  <2>3. CASE j = n + 1
    <3>1. s[i].id \in IdsOf(s)
      BY <1>1, <2>1 DEF IdsOf
    <3> QED
      BY <1>1, <2>1, <2>3, <3>1 DEF Ahead
  <2> QED
    BY <2>1, <2>2, <2>3
<1>3. InOrder(t)
  BY <1>2 DEF InOrder
<1> QED
  BY <1>3 DEF t

LEMMA InOrderConcat ==
  ASSUME NEW S, NEW s \in Seq(S), NEW t \in Seq(S), InOrder(s), InOrder(t),
         Ahead(IdsOf(s), IdsOf(t))
  PROVE  InOrder(s \o t)
<1> DEFINE u == s \o t
           n == Len(s)
           m == Len(t)
<1>1. /\ n \in Nat /\ m \in Nat /\ DOMAIN s = 1..n /\ DOMAIN t = 1..m
      /\ DOMAIN u = 1..(n + m)
      /\ \A i \in 1..(n + m) : u[i] = IF i <= n THEN s[i] ELSE t[i - n]
  BY ConcatProperties, LenProperties
<1> HIDE DEF u, n, m
<1>2. ASSUME NEW i \in 1..(n + m), NEW j \in 1..(n + m), i < j
      PROVE  ~Ordered(u[j].id, u[i].id)
  <2>1. CASE j <= n
    <3>1. i \in DOMAIN s /\ j \in DOMAIN s /\ u[i] = s[i] /\ u[j] = s[j]
      BY <1>1, <1>2, <2>1
    <3> QED
      BY <1>2, <3>1 DEF InOrder
  <2>2. CASE i > n
    <3>1. i - n \in DOMAIN t /\ j - n \in DOMAIN t /\ i - n < j - n
      BY <1>1, <1>2, <2>2
    <3>2. u[i] = t[i - n] /\ u[j] = t[j - n]
      BY <1>1, <1>2, <2>2
    <3> QED
      BY <3>1, <3>2 DEF InOrder
  <2>3. CASE i <= n /\ j > n
    <3>1. i \in DOMAIN s /\ j - n \in DOMAIN t /\ u[i] = s[i] /\ u[j] = t[j - n]
      BY <1>1, <1>2, <2>3
    <3>2. s[i].id \in IdsOf(s) /\ t[j - n].id \in IdsOf(t)
      BY <3>1 DEF IdsOf
    <3> QED
      BY <3>1, <3>2 DEF Ahead
  <2> QED
    BY <1>1, <2>1, <2>2, <2>3
<1>3. InOrder(u)
  BY <1>1, <1>2 DEF InOrder
<1> QED
  BY <1>3 DEF u

LEMMA InOrderSuffix ==
  ASSUME NEW S, NEW s \in Seq(S), NEW k \in 1..Len(s), InOrder(s)
  PROVE  /\ InOrder(SubSeq(s, k + 1, Len(s)))
         /\ Ahead({s[k].id}, IdsOf(SubSeq(s, k + 1, Len(s))))
<1> DEFINE t == SubSeq(s, k + 1, Len(s))
           n == Len(s)
<1>1. /\ n \in Nat /\ k \in 1..n /\ DOMAIN s = 1..n /\ DOMAIN t = 1..(n - k)
      /\ \A i \in 1..(n - k) : t[i] = s[k + i]
  <2>1. n \in Nat /\ k \in 0..n /\ DOMAIN s = 1..n
    BY LenProperties
  <2> QED
    BY <2>1, SuffixProperties, LenProperties
<1> HIDE DEF t, n
<1>2. \A i \in 1..(n - k) : k + i \in DOMAIN s /\ k < k + i
  BY <1>1
<1>3. ASSUME NEW i \in DOMAIN t, NEW j \in DOMAIN t, i < j
      PROVE  ~Ordered(t[j].id, t[i].id)
  <2>1. k + i < k + j
    BY <1>1, <1>3
  <2> QED
    BY <1>1, <1>2, <2>1 DEF InOrder
<1>4. ASSUME NEW i \in DOMAIN t PROVE ~Ordered(t[i].id, s[k].id)
  BY <1>1, <1>2 DEF InOrder
<1>5. InOrder(t) /\ Ahead({s[k].id}, IdsOf(t))
  BY <1>3, <1>4 DEF InOrder, Ahead, IdsOf
<1> QED
  BY <1>5 DEF t, n

\* The messages of a step that changes none, or ends one.
LEMMA MessagesShrink ==
  ASSUME MessageOrder, KindsInv, UNCHANGED <<issued, precedes>>,
         \A c, i : Pending(c, i)' => Pending(c, i) /\ comms'[c].rest[i] = comms[c].rest[i],
         GetIds' \subseteq GetIds
  PROVE  MessageOrder' /\ KindsInv'
<1>1. MessageOrder'
  <2>1. SUFFICES ASSUME NEW c, NEW d, NEW i, NEW j, Pending(c, i)', Pending(d, j)',
                        Ordered(comms[c].rest[i].id, comms[d].rest[j].id)'
                 PROVE  c = d /\ i < j
    BY DEF MessageOrder
  <2> QED
    BY <2>1, SameOrder DEF MessageOrder
<1>2. KindsInv'
  BY SameOrder DEF KindsInv
<1> QED
  BY <1>1, <1>2

\* One request of a message is taken.
LEMMA MessagesShift ==
  ASSUME TypeOK, MessageOrder, KindsInv, InMessage, Top.rest # <<>>,
         NEW g \in Ids \cup {None}, SetTop([rest |-> Tail(Top.rest), get |-> g]),
         UNCHANGED <<issued, precedes>>
  PROVE  LET r == Head(Top.rest) IN
         /\ MessageOrder'
         /\ r.tag = "request" => /\ Ahead({r.id}, Suspended')
                                 /\ <<r.id, r.kind>> \in issued
         /\ g = None \/ (g = r.id /\ r.tag = "request" /\ r.kind = "GET") => KindsInv'
<1>0. PICK n : n = Len(comms)
  OBVIOUS
<1> DEFINE r == Head(Top.rest)
<1>1. /\ n \in DOMAIN comms /\ DOMAIN comms' = DOMAIN comms
      /\ \A c \in DOMAIN comms \ {n} : comms'[c] = comms[c]
      /\ comms'[n].get = g /\ r = comms[n].rest[1]
      /\ r.tag = "request" => Pending(n, 1)
  BY <1>0, RequestShift
<1> HIDE DEF r
<1>2. ASSUME NEW c, NEW i, Pending(c, i)'
      PROVE  \E k : /\ Pending(c, k) /\ comms'[c].rest[i] = comms[c].rest[k]
                    /\ c # n => k = i
                    /\ c = n => i \in Nat \ {0} /\ k = i + 1
  <2>1. \/ c # n /\ Pending(c, i) /\ comms'[c].rest[i] = comms[c].rest[i]
        \/ /\ c = n /\ i \in Nat \ {0} /\ Pending(n, i + 1)
           /\ comms'[n].rest[i] = comms[n].rest[i + 1]
    BY <1>0, <1>2, RequestShift
  <2> QED
    BY <2>1
<1>3. MessageOrder'
  <2>1. SUFFICES ASSUME NEW c, NEW d, NEW i, NEW j, Pending(c, i)', Pending(d, j)',
                        Ordered(comms'[c].rest[i].id, comms'[d].rest[j].id)
                 PROVE  c = d /\ i < j
    BY SameOrder DEF MessageOrder
  <2>2. PICK k : /\ Pending(c, k) /\ comms'[c].rest[i] = comms[c].rest[k]
                 /\ c # n => k = i
                 /\ c = n => i \in Nat \ {0} /\ k = i + 1
    BY <1>2, <2>1
  <2>3. PICK l : /\ Pending(d, l) /\ comms'[d].rest[j] = comms[d].rest[l]
                 /\ d # n => l = j
                 /\ d = n => j \in Nat \ {0} /\ l = j + 1
    BY <1>2, <2>1
  <2>4. c = d /\ k < l
    BY <2>1, <2>2, <2>3 DEF MessageOrder
  <2> QED
    BY <2>2, <2>3, <2>4
<1>4. ASSUME r.tag = "request"
      PROVE  Ahead({r.id}, Suspended') /\ <<r.id, r.kind>> \in issued
  <2>1. Pending(n, 1)
    BY <1>1, <1>4
  <2>2. ASSUME NEW y \in Suspended' PROVE ~Ordered(y, r.id)
    <3>1. PICK c, i : Pending(c, i)' /\ comms'[c].rest[i].id = y
      BY <2>2, SuspendedAre
    <3>2. PICK k : /\ Pending(c, k) /\ comms'[c].rest[i] = comms[c].rest[k]
                   /\ c # n => k = i
                   /\ c = n => i \in Nat \ {0} /\ k = i + 1
      BY <1>2, <3>1
    <3>3. SUFFICES ASSUME Ordered(comms[c].rest[k].id, comms[n].rest[1].id) PROVE FALSE
      BY <1>1, <3>1, <3>2
    <3>4. c = n /\ k < 1
      BY <2>1, <3>2, <3>3 DEF MessageOrder
    <3> QED
      BY <3>2, <3>4
  <2>3. <<r.id, r.kind>> \in issued
    BY <1>1, <2>1 DEF KindsInv
  <2> QED
    BY <2>2, <2>3 DEF Ahead
<1>5. ASSUME g = None \/ (g = r.id /\ r.tag = "request" /\ r.kind = "GET")
      PROVE  KindsInv'
  <2>1. ASSUME NEW c, NEW i, Pending(c, i)'
        PROVE  <<comms'[c].rest[i].id, comms'[c].rest[i].kind>> \in issued
    <3>1. PICK k : Pending(c, k) /\ comms'[c].rest[i] = comms[c].rest[k]
      BY <1>2, <2>1
    <3> QED
      BY <3>1 DEF KindsInv
  <2>2. ASSUME NEW id \in GetIds' PROVE <<id, "GET">> \in issued
    <3>1. PICK c \in DOMAIN comms : comms'[c].get = id /\ id # None
      BY <1>1, <2>2 DEF GetIds
    <3>2. CASE c = n
      BY <1>1, <1>4, <1>5, <3>1, <3>2
    <3>3. CASE c # n
      BY <1>1, <3>1, <3>3 DEF GetIds, KindsInv
    <3> QED
      BY <3>2, <3>3
  <2> QED
    BY <2>1, <2>2, SameOrder DEF KindsInv
<1> QED
  BY <1>3, <1>4, <1>5 DEF r

\* What a fetch orders: the new requests, after those that were processed.
LEMMA FetchedOrder ==
  ASSUME TypeOK, PlaceInv, SeqInv, NEW m \in Message, Fetched(m)
  PROVE  /\ \A x : \A y \in IssuedIds : Ordered(x, y)' => Ordered(x, y) /\ x \in IssuedIds
         /\ \A x \in Suspended, y \in NewIds(m) : ~Ordered(x, y)'
         /\ \A i, j \in NewRequests(m) : Ordered(m[i].id, m[j].id)' => i < j
         /\ \A r, s \in issued' : r[1] = s[1] => r = s
         /\ precedes' \subseteq IssuedIds' \X IssuedIds'
         /\ \A i \in NewRequests(m) : <<m[i].id, m[i].kind>> \in issued'
         /\ issued \subseteq issued'
<1>1. /\ IssuedIds' = IssuedIds \cup NewIds(m) /\ NewIds(m) \cap IssuedIds = {}
      /\ Suspended \subseteq IssuedIds
  <2>1. Suspended \subseteq IssuedIds
    BY DEF PlaceInv, IssuedInv, Everywhere
  <2> QED
    BY <2>1, FetchedPlaces DEF PlaceInv
<1>2. /\ issued' = issued \cup {<<m[i].id, m[i].kind>> : i \in NewRequests(m)}
      /\ precedes' = precedes
              \cup {<<id, m[i].id>> : id \in IssuedIds \ Suspended, i \in NewRequests(m)}
              \cup {<<m[p[1]].id, m[p[2]].id>> :
                      p \in {p \in NewRequests(m) \X NewRequests(m) : p[1] < p[2]}}
      /\ \A i, j \in NewRequests(m) : m[i].id = m[j].id => i = j
  BY DEF Fetched, Fresh
<1>3. \A i \in NewRequests(m) : m[i].id \in NewIds(m)
  BY DEF NewIds
<1>4. precedes \subseteq IssuedIds \X IssuedIds /\ \A r, s \in issued : r[1] = s[1] => r = s
  BY DEF SeqInv, KindsInv
<1>5. ASSUME NEW x, NEW y, <<x, y>> \in precedes'
      PROVE  \/ <<x, y>> \in precedes /\ x \in IssuedIds /\ y \in IssuedIds
             \/ x \in IssuedIds \ Suspended /\ y \in NewIds(m)
             \/ \E i, j \in NewRequests(m) : x = m[i].id /\ y = m[j].id /\ i < j
  <2>1. CASE <<x, y>> \in precedes
    BY <1>4, <2>1
  <2>2. CASE <<x, y>> \in {<<id, m[i].id>> : id \in IssuedIds \ Suspended, i \in NewRequests(m)}
    BY <1>3, <2>2
  <2>3. CASE <<x, y>> \in {<<m[p[1]].id, m[p[2]].id>> :
                      p \in {p \in NewRequests(m) \X NewRequests(m) : p[1] < p[2]}}
    <3>1. PICK p \in NewRequests(m) \X NewRequests(m) :
            <<x, y>> = <<m[p[1]].id, m[p[2]].id>> /\ p[1] < p[2]
      BY <2>3
    <3>2. /\ p[1] \in NewRequests(m) /\ p[2] \in NewRequests(m)
          /\ x = m[p[1]].id /\ y = m[p[2]].id /\ p[1] < p[2]
      BY <3>1
    <3> QED
      BY <3>2
  <2> QED
    BY <1>2, <1>5, <2>1, <2>2, <2>3
<1>6. ASSUME NEW r \in issued'
      PROVE  \/ r \in issued /\ r[1] \in IssuedIds
             \/ r[1] \in NewIds(m) /\ \E i \in NewRequests(m) : r = <<m[i].id, m[i].kind>>
  <2>1. CASE r \in issued
    BY <2>1 DEF IssuedIds
  <2>2. CASE r \notin issued
    <3>1. PICK i \in NewRequests(m) : r = <<m[i].id, m[i].kind>>
      BY <1>2, <2>2
    <3>2. r[1] = m[i].id
      BY <3>1
    <3> QED
      BY <1>3, <3>1, <3>2
  <2> QED
    BY <2>1, <2>2
<1>7. ASSUME NEW x \in IssuedIds, x \in QueuedIds' PROVE x \in QueuedIds
  <2>1. PICK r \in issued' : r[1] = x /\ r[2] \in Queued
    BY <1>7 DEF QueuedIds
  <2>2. r \in issued
    BY <1>1, <1>6, <2>1
  <2> QED
    BY <2>1, <2>2 DEF QueuedIds
<1>8. ASSUME NEW x, NEW y \in IssuedIds, Ordered(x, y)'
      PROVE  Ordered(x, y) /\ x \in IssuedIds
  <2>1. <<x, y>> \in precedes /\ x \in IssuedIds
    BY <1>1, <1>3, <1>5, <1>8 DEF Ordered
  <2> QED
    BY <1>7, <1>8, <2>1 DEF Ordered
<1>9. ASSUME NEW x \in Suspended, NEW y \in NewIds(m) PROVE ~Ordered(x, y)'
  BY <1>1, <1>3, <1>5 DEF Ordered
<1>10. ASSUME NEW i \in NewRequests(m), NEW j \in NewRequests(m),
              Ordered(m[i].id, m[j].id)'
       PROVE  i < j
  <2>1. PICK k \in NewRequests(m), l \in NewRequests(m) :
          m[i].id = m[k].id /\ m[j].id = m[l].id /\ k < l
    <3>1. m[i].id \notin IssuedIds /\ m[j].id \notin IssuedIds
      BY <1>1, <1>3
    <3>2. <<m[i].id, m[j].id>> \in precedes'
      BY <1>10 DEF Ordered
    <3> QED
      BY <1>5, <3>1, <3>2
  <2>2. i = k /\ j = l
    BY <1>2, <2>1
  <2> QED
    BY <2>1, <2>2
<1>11. ASSUME NEW r \in issued', NEW s \in issued', r[1] = s[1] PROVE r = s
  <2>1. CASE r[1] \in IssuedIds
    BY <1>1, <1>4, <1>6, <1>11, <2>1
  <2>2. CASE r[1] \notin IssuedIds
    <3>1. PICK i \in NewRequests(m) : r = <<m[i].id, m[i].kind>>
      BY <1>6, <2>2
    <3>2. PICK j \in NewRequests(m) : s = <<m[j].id, m[j].kind>>
      BY <1>6, <1>11, <2>2
    <3>3. m[i].id = m[j].id
      BY <1>11, <3>1, <3>2
    <3>4. i = j
      BY <1>2, <3>3
    <3> QED
      BY <3>1, <3>2, <3>4
  <2> QED
    BY <2>1, <2>2
<1>12. precedes' \subseteq IssuedIds' \X IssuedIds'
  <2>1. ASSUME NEW q \in precedes' PROVE q \in IssuedIds' \X IssuedIds'
    <3>1. PICK x, y : q = <<x, y>>
      BY <1>2, <1>4, <2>1
    <3>2. x \in IssuedIds' /\ y \in IssuedIds'
      BY <1>1, <1>3, <1>5, <2>1, <3>1
    <3> QED
      BY <3>1, <3>2
  <2> QED
    BY <2>1
<1>13. /\ \A i \in NewRequests(m) : <<m[i].id, m[i].kind>> \in issued'
       /\ issued \subseteq issued'
  BY <1>2
<1> QED
  BY <1>8, <1>9, <1>10, <1>11, <1>12, <1>13

LEMMA SeqFetch ==
  ASSUME TypeOK, PlaceInv, SeqInv,
         (\E m \in Message : Fetched(m)) \/ UNCHANGED <<comms, issued, precedes>>,
         UNCHANGED <<q_out, delivered, running>>, q_in' \in {q_in, <<>>}
  PROVE  SeqInv'
<1>1. /\ q_out' = q_out /\ delivered' = delivered /\ running' = running
      /\ RunIds' = RunIds /\ IdsOf(q_in') \subseteq IdsOf(q_in)
      /\ q_in' = q_in \/ q_in' = <<>>
  BY NoIds DEF RunIds
<1>2. CASE UNCHANGED <<comms, issued, precedes>>
  <2>1. MessageOrder' /\ KindsInv'
    BY <1>2, MessagesShrink DEF SeqInv, Pending, GetIds
  <2>2. Suspended' = Suspended
    BY <1>2 DEF Suspended
  <2>3. InOrder(q_in')
    BY <1>1 DEF InOrder, SeqInv, LineInv
  <2>4. LineInv'
    BY <1>1, <1>2, <2>2, <2>3, SameOrder DEF SeqInv, LineInv, Ahead
  <2> QED
    BY <2>1, <2>4 DEF SeqInv
<1>3. ASSUME NEW m \in Message, Fetched(m) PROVE SeqInv'
  <2>0. PICK n : n = Len(comms) + 1
    OBVIOUS
  <2>1. /\ Everywhere \subseteq IssuedIds /\ Suspended \subseteq IssuedIds
        /\ IdsOf(q_in) \cup RunIds \cup IdsOf(q_out) \cup IdsOf(delivered) \subseteq IssuedIds
    BY DEF PlaceInv, IssuedInv, Everywhere, AnswerIds
  <2>2. /\ Suspended' = Suspended \cup NewIds(m) /\ GetIds' = GetIds
        /\ NewIds(m) \cap IssuedIds = {} /\ IssuedIds' = IssuedIds \cup NewIds(m)
    BY <1>3, <2>1, FetchedPlaces DEF PlaceInv
  <2>3. ASSUME NEW c, NEW i, Pending(c, i)'
        PROVE  \/ Pending(c, i) /\ comms'[c].rest[i] = comms[c].rest[i]
               \/ c = n /\ i \in NewRequests(m) /\ comms'[c].rest[i] = m[i]
    BY <1>3, <2>0, <2>1, <2>3, FetchedPlaces DEF PlaceInv
  <2>4. \A x : \A y \in IssuedIds : Ordered(x, y)' => Ordered(x, y) /\ x \in IssuedIds
    BY <1>3, FetchedOrder
  <2>5. ASSUME NEW s, IdsOf(s) \subseteq IssuedIds, InOrder(s) PROVE InOrder(s)'
    BY <2>4, <2>5 DEF InOrder, IdsOf
  <2>6. ASSUME NEW S, NEW T, NEW U, S \subseteq IssuedIds, Ahead(S, T),
               U \subseteq T \cup NewIds(m)
        PROVE  Ahead(S, U)'
    BY <2>2, <2>4, <2>6 DEF Ahead
  <2>7. LineInv'
    <3>1. InOrder(delivered)' /\ InOrder(q_out)'
      BY <1>1, <2>1, <2>5 DEF SeqInv, LineInv
    <3>2. InOrder(q_in)'
      <4>1. InOrder(q_in') /\ IdsOf(q_in') \subseteq IssuedIds
        BY <1>1, <2>1, NoIds DEF InOrder, SeqInv, LineInv
      <4> QED
        BY <2>5, <4>1
    <3>3. PICK D, O, R, Q, S : /\ D = IdsOf(delivered) /\ O = IdsOf(q_out) /\ R = RunIds
                               /\ Q = IdsOf(q_in) /\ S = Suspended
      OBVIOUS
    <3>4. PICK P, T : P = IdsOf(q_in') /\ T = Suspended'
      OBVIOUS
    <3>5. /\ Ahead(D, O \cup R \cup Q \cup S) /\ Ahead(O, R \cup Q \cup S)
          /\ Ahead(R, Q \cup S) /\ Ahead(Q, S)
      BY <3>3 DEF SeqInv, LineInv
    <3>6. /\ P \subseteq Q /\ T = S \cup NewIds(m)
          /\ D \cup O \cup R \cup Q \subseteq IssuedIds
      BY <1>1, <2>1, <2>2, <3>3, <3>4
    <3>7. /\ Ahead(D, O \cup R \cup P \cup T)' /\ Ahead(O, R \cup P \cup T)'
          /\ Ahead(R, P \cup T)'
      BY <2>6, <3>5, <3>6
    <3>8. Ahead(P, T)'
      <4>1. Ahead(P, S) /\ P \subseteq IssuedIds
        BY <3>5, <3>6 DEF Ahead
      <4> QED
        BY <2>6, <3>6, <4>1
    <3> QED
      BY <1>1, <3>1, <3>2, <3>3, <3>4, <3>7, <3>8 DEF LineInv
  <2>8. MessageOrder'
    <3>1. SUFFICES ASSUME NEW c, NEW d, NEW i, NEW j, Pending(c, i)', Pending(d, j)',
                          Ordered(comms[c].rest[i].id, comms[d].rest[j].id)'
                   PROVE  c = d /\ i < j
      BY DEF MessageOrder
    <3>2. CASE Pending(d, j) /\ comms'[d].rest[j] = comms[d].rest[j]
      <4>1. comms[d].rest[j].id \in IssuedIds
        BY <2>1, <3>2, SuspendedAre
      <4>2. /\ Ordered(comms'[c].rest[i].id, comms[d].rest[j].id)
            /\ comms'[c].rest[i].id \in IssuedIds
        BY <2>4, <3>1, <3>2, <4>1
      <4>3. Pending(c, i) /\ comms'[c].rest[i] = comms[c].rest[i]
        BY <2>2, <2>3, <3>1, <4>2 DEF NewIds
      <4> QED
        BY <3>2, <4>2, <4>3 DEF SeqInv, MessageOrder
    <3>3. CASE d = n /\ j \in NewRequests(m) /\ comms'[d].rest[j] = m[j]
      <4>1. m[j].id \in NewIds(m)
        BY <3>3 DEF NewIds
      <4>2. CASE Pending(c, i) /\ comms'[c].rest[i] = comms[c].rest[i]
        <5>0. PICK x : x = comms[c].rest[i].id
          OBVIOUS
        <5>1. x \in Suspended
          BY <4>2, <5>0, SuspendedAre
        <5>2. Ordered(x, m[j].id)'
          BY <3>1, <3>3, <4>2, <5>0
        <5> QED
          BY <1>3, <4>1, <5>1, <5>2, FetchedOrder
      <4>3. CASE c = n /\ i \in NewRequests(m) /\ comms'[c].rest[i] = m[i]
        <5>1. i < j
          BY <1>3, <3>1, <3>3, <4>3, FetchedOrder
        <5> QED
          BY <3>3, <4>3, <5>1
      <4> QED
        BY <2>3, <3>1, <4>2, <4>3
    <3> QED
      BY <2>3, <3>1, <3>2, <3>3
  <2>9. KindsInv'
    <3>1. ASSUME NEW c, NEW i, Pending(c, i)'
          PROVE  <<comms'[c].rest[i].id, comms'[c].rest[i].kind>> \in issued'
      <4>1. issued \subseteq issued' /\
            \A j \in NewRequests(m) : <<m[j].id, m[j].kind>> \in issued'
        BY <1>3, FetchedOrder
      <4> QED
        BY <2>3, <3>1, <4>1 DEF SeqInv, KindsInv
    <3>2. \A id \in GetIds' : <<id, "GET">> \in issued'
      BY <1>3, <2>2, FetchedOrder DEF SeqInv, KindsInv
    <3>3. /\ \A r, s \in issued' : r[1] = s[1] => r = s
          /\ precedes' \subseteq IssuedIds' \X IssuedIds'
      BY <1>3, FetchedOrder
    <3> QED
      BY <3>1, <3>2, <3>3 DEF KindsInv
  <2> QED
    BY <2>7, <2>8, <2>9 DEF SeqInv
<1> QED
  BY <1>2, <1>3

LEMMA LineShrinks ==
  ASSUME LineInv, UNCHANGED <<issued, precedes>>,
         InOrder(q_in'), InOrder(q_out'), InOrder(delivered'),
         IdsOf(q_in') \subseteq IdsOf(q_in), RunIds' \subseteq RunIds,
         IdsOf(q_out') \subseteq IdsOf(q_out), Suspended' \subseteq Suspended,
         IdsOf(delivered') \subseteq IdsOf(delivered)
  PROVE  LineInv'
BY SameOrder DEF LineInv, Ahead

LEMMA SeqStart == ASSUME TypeOK, SeqInv, StartExec PROVE SeqInv'
<1>1. PICK k \in 1..Len(q_in) : /\ running' = q_in[k]
                                /\ q_in' = SubSeq(q_in, k + 1, Len(q_in))
  BY DEF StartExec
<1>2. /\ comms' = comms /\ q_out' = q_out /\ delivered' = delivered
      /\ issued' = issued /\ precedes' = precedes
  BY DEF StartExec
<1>3. q_in \in Seq(Exec) /\ Len(q_in) \in Nat /\ DOMAIN q_in = 1..Len(q_in)
  BY LenProperties DEF TypeOK
<1>4. RunIds' = {q_in[k].id}
  <2>1. q_in[k] \in Exec
    BY <1>3, ElementOfSeq
  <2> QED
    BY <1>1, <2>1, NoneIsNoExec, RunIdsAre
<1>5. InOrder(q_in') /\ Ahead({q_in[k].id}, IdsOf(q_in'))
  BY <1>1, <1>3, InOrderSuffix DEF SeqInv, LineInv
<1>6. IdsOf(q_in') \subseteq IdsOf(q_in) /\ q_in[k].id \in IdsOf(q_in)
  <2>1. k \in 0..Len(q_in) /\ k \in DOMAIN q_in
    BY <1>3
  <2>2. IdsOf(q_in) = IdsOf(q_in') \cup {q_in[i].id : i \in 1..k}
    BY <1>1, <1>3, <2>1, IdsSuffix, Zenon
  <2> QED
    BY <2>1, <2>2 DEF IdsOf
<1>7. Suspended' = Suspended /\ GetIds' = GetIds
  BY <1>2 DEF Suspended, GetIds
<1>8. MessageOrder' /\ KindsInv'
  BY <1>2, <1>7, MessagesShrink DEF SeqInv, Pending
<1>9. LineInv'
  BY <1>2, <1>4, <1>5, <1>6, <1>7, SameOrder DEF SeqInv, LineInv, Ahead
<1> QED
  BY <1>8, <1>9 DEF SeqInv

\* A response is pushed for a request that is none of those that are queued.
LEMMA LineReply ==
  ASSUME TypeOK, LineInv, UNCHANGED <<issued, precedes, delivered, running, q_in>>,
         NEW id \in Ids, id \notin QueuedIds, NEW o \in {"data", "killed", "rejected"},
         Reply(id, o), Suspended' \subseteq Suspended
  PROVE  LineInv'
<1>1. [id |-> id, tag |-> o] \in Response /\ q_out \in Seq(Response)
  BY DEF Response, TypeOK
<1>2. \A x : ~Ordered(x, id) /\ ~Ordered(id, x)
  BY DEF Ordered
<1>3. IdsOf(q_out') = IdsOf(q_out) \cup {id}
  BY <1>1, IdsAppend DEF Reply
<1>4. InOrder(q_out')
  <2>1. Ahead(IdsOf(q_out), {id})
    BY <1>2 DEF Ahead
  <2> QED
    BY <1>1, <2>1, InOrderAppend DEF Reply, LineInv
<1>5. q_in' = q_in /\ delivered' = delivered /\ RunIds' = RunIds
  BY DEF RunIds
<1> QED
  BY <1>2, <1>3, <1>4, <1>5, SameOrder DEF LineInv, Ahead

\* The response of the request that runs.
LEMMA LineQueued ==
  ASSUME TypeOK, SeqInv, UNCHANGED <<issued, precedes, delivered, comms, q_in>>,
         running # None, running' = None, NEW o \in {"data", "killed"},
         Reply(running.id, o)
  PROVE  SeqInv'
<1>0. PICK id : id = running.id
  OBVIOUS
<1>1. [id |-> id, tag |-> o] \in Response /\ q_out \in Seq(Response)
  BY <1>0 DEF Response, TypeOK, Exec
<1>2. RunIds = {id} /\ RunIds' = {}
  BY <1>0, RunIdsAre
<1>3. IdsOf(q_out') = IdsOf(q_out) \cup {id}
  BY <1>0, <1>1, IdsAppend DEF Reply
<1>4. InOrder(q_out')
  <2>1. Ahead(IdsOf(q_out), {id})
    BY <1>2 DEF SeqInv, LineInv, Ahead
  <2> QED
    BY <1>0, <1>1, <2>1, InOrderAppend DEF Reply, SeqInv, LineInv
<1>5. q_in' = q_in /\ delivered' = delivered /\ Suspended' = Suspended /\ GetIds' = GetIds
  BY DEF Suspended, GetIds
<1>6. LineInv'
  BY <1>2, <1>3, <1>4, <1>5, SameOrder DEF SeqInv, LineInv, Ahead
<1>7. MessageOrder' /\ KindsInv'
  BY <1>5, MessagesShrink DEF SeqInv, Pending
<1> QED
  BY <1>6, <1>7 DEF SeqInv

\* The response of the GET on top.
LEMMA LineGet ==
  ASSUME TypeOK, PlaceInv, SeqInv, InGetHandler, SetTop([Top EXCEPT !.get = None]),
         UNCHANGED <<issued, precedes, delivered, running, q_in>>,
         NEW o \in {"data", "killed"}, Reply(Top.get, o)
  PROVE  SeqInv'
<1>1. /\ Suspended' = Suspended /\ Top.get \in GetIds /\ GetIds' \subseteq GetIds
      /\ \A c, i : Pending(c, i)' =>
                     Pending(c, i) /\ comms'[c].rest[i] = comms[c].rest[i]
  BY GetEnds DEF PlaceInv
<1>2. Top.get \notin QueuedIds
  <2>1. <<Top.get, "GET">> \in issued
    BY <1>1 DEF SeqInv, KindsInv
  <2> QED
    BY <2>1, KindsMean DEF SeqInv, Queued
<1>3. Top.get \in Ids
  BY <1>1 DEF PlaceInv, IssuedInv, Everywhere, IssuedIds, TypeOK
<1>4. MessageOrder' /\ KindsInv'
  BY <1>1, MessagesShrink DEF SeqInv
<1>5. LineInv'
  BY <1>1, <1>2, <1>3, LineReply DEF SeqInv
<1> QED
  BY <1>4, <1>5 DEF SeqInv

\* A Poll, a Kill or a Shutdown at the head of the message.
LEMMA SeqPass ==
  ASSUME TypeOK, PlaceInv, SeqInv, InMessage, Top.rest # <<>>,
         Head(Top.rest).tag # "request", SetTop([Top EXCEPT !.rest = Tail(@)]),
         UNCHANGED <<issued, precedes, delivered>>,
         InOrder(q_in'), InOrder(q_out'), IdsOf(q_in') \subseteq IdsOf(q_in),
         RunIds' \subseteq RunIds, IdsOf(q_out') \subseteq IdsOf(q_out)
  PROVE  SeqInv'
<1>1. Suspended' = Suspended
  BY NotNew DEF PlaceInv
<1>2. MessageOrder' /\ KindsInv'
  <2>1. SetTop([rest |-> Tail(Top.rest), get |-> None]) /\ None \in Ids \cup {None}
    BY TailTop
  <2> QED
    BY <2>1, MessagesShift DEF SeqInv
<1>3. LineInv'
  <2>1. InOrder(delivered')
    BY DEF SeqInv, LineInv, InOrder
  <2> QED
    BY <1>1, <2>1, LineShrinks DEF SeqInv
<1> QED
  BY <1>2, <1>3 DEF SeqInv

LEMMA NoOrder == InOrder(<<>>)
<1>1. DOMAIN <<>> = {}
  OBVIOUS
<1> QED
  BY <1>1 DEF InOrder

LEMMA SeqPoll == ASSUME TypeOK, PlaceInv, SeqInv, ProcessPoll PROVE SeqInv'
<1>1. q_in' = q_in /\ q_out' = q_out /\ RunIds' = RunIds
  BY DEF ProcessPoll, RunIds
<1>2. InOrder(q_in') /\ InOrder(q_out')
  BY <1>1 DEF SeqInv, LineInv
<1> QED
  BY <1>1, <1>2, SeqPass DEF ProcessPoll

LEMMA SeqShutdown == ASSUME TypeOK, PlaceInv, SeqInv, ProcessShutdown PROVE SeqInv'
<1>1. q_in' = <<>> /\ q_out' = <<>>
  BY DEF ProcessShutdown
<1>2. /\ InOrder(q_in') /\ InOrder(q_out') /\ IdsOf(q_in') \subseteq IdsOf(q_in)
      /\ IdsOf(q_out') \subseteq IdsOf(q_out)
  BY <1>1, NoOrder, NoIds
<1>3. RunIds' \subseteq RunIds
  <2>1. CASE running = None
    BY <2>1, RunIdsAre DEF ProcessShutdown
  <2>2. CASE running # None
    <3>1. running'.id = running.id
      BY <2>2 DEF ProcessShutdown, TypeOK, Exec
    <3> QED
      BY <2>2, <3>1, RunIdsAre
  <2> QED
    BY <2>1, <2>2
<1> QED
  BY <1>2, <1>3, SeqPass DEF ProcessShutdown

LEMMA SeqKill == ASSUME TypeOK, PlaceInv, SeqInv, ProcessKill PROVE SeqInv'
<1>0. PICK id : id = Head(Top.rest).id
  OBVIOUS
<1>1. /\ q_out' = q_out
      /\ q_in' = [k \in DOMAIN q_in |-> KillRequest(id, q_in[k])]
      /\ running' = IF running = None THEN None ELSE KillRequest(id, running)
  BY <1>0 DEF ProcessKill
<1>2. ASSUME NEW e \in Exec PROVE KillRequest(id, e).id = e.id
  BY DEF KillRequest, Exec
<1>3. \A k \in DOMAIN q_in : q_in[k] \in Exec
  BY ElementOfSeq, LenProperties DEF TypeOK
<1>4. DOMAIN q_in' = DOMAIN q_in /\ \A k \in DOMAIN q_in : q_in'[k].id = q_in[k].id
  BY <1>1, <1>2, <1>3
<1>5. IdsOf(q_in') \subseteq IdsOf(q_in)
  BY <1>4 DEF IdsOf
<1>6. InOrder(q_in') /\ InOrder(q_out')
  BY <1>1, <1>4 DEF InOrder, SeqInv, LineInv
<1>7. RunIds' \subseteq RunIds
  <2>1. CASE running = None
    BY <1>1, <2>1, RunIdsAre
  <2>2. CASE running # None
    <3>1. running'.id = running.id
      BY <1>1, <1>2, <2>2 DEF TypeOK
    <3> QED
      BY <2>2, <3>1, RunIdsAre
  <2> QED
    BY <2>1, <2>2
<1> QED
  BY <1>1, <1>5, <1>6, <1>7, SeqPass DEF ProcessKill

LEMMA SeqNew == ASSUME TypeOK, PlaceInv, SeqInv, ProcessNewRequest PROVE SeqInv'
<1>0. PICK r : r = Head(Top.rest)
  OBVIOUS
<1>1. /\ delivered' = delivered /\ running' = running
      /\ issued' = issued /\ precedes' = precedes
      /\ InMessage /\ Top.rest # <<>> /\ r.tag = "request" /\ r.id \in Ids
  BY <1>0, RequestStepType DEF ProcessNewRequest, Request
<1>2. MessageOrder /\ KindsInv /\ LineInv /\ MessagesInv /\ PlacesInv
  BY DEF SeqInv, PlaceInv
<1>3. ASSUME SetTop([Top EXCEPT !.rest = Tail(@)])
      PROVE  /\ MessageOrder' /\ KindsInv' /\ Ahead({r.id}, Suspended')
             /\ <<r.id, r.kind>> \in issued
             /\ r.id \in Suspended /\ Suspended' = Suspended \ {r.id}
  <2>1. SetTop([rest |-> Tail(Top.rest), get |-> None]) /\ None \in Ids \cup {None}
    BY <1>1, <1>3, TailTop
  <2>2. r.id \in Suspended /\ Suspended' = Suspended \ {r.id}
    BY <1>0, <1>1, <1>2, <1>3, NotNew
  <2> QED
    BY <1>0, <1>1, <1>2, <2>1, <2>2, MessagesShift
<1>4. CASE /\ r.kind = "none"
           /\ Reply(r.id, "rejected")
           /\ SetTop([Top EXCEPT !.rest = Tail(@)])
           /\ q_in' = q_in
  <2>1. r.id \notin QueuedIds
    BY <1>2, <1>3, <1>4, KindsMean DEF Queued
  <2>2. LineInv'
    BY <1>1, <1>2, <1>3, <1>4, <2>1, LineReply
  <2> QED
    BY <1>3, <1>4, <2>2 DEF SeqInv
<1>5. CASE /\ r.kind = "GET"
           /\ SetTop([rest |-> Tail(Top.rest), get |-> r.id])
           /\ q_in' = q_in /\ q_out' = q_out
  <2>1. r.id \notin GetIds
    BY <1>0, <1>1, <1>2, HeadWaits DEF PlacesInv
  <2>2. Suspended' \subseteq Suspended
    BY <1>0, <1>1, <1>2, <1>5, <2>1, RequestPasses
  <2>3. MessageOrder' /\ KindsInv'
    BY <1>0, <1>1, <1>2, <1>5, MessagesShift
  <2>4. LineInv'
    <3>1. InOrder(q_in') /\ InOrder(q_out') /\ InOrder(delivered') /\ RunIds' = RunIds
      BY <1>1, <1>2, <1>5 DEF LineInv, RunIds
    <3> QED
      BY <1>1, <1>2, <1>5, <2>2, <3>1, LineShrinks
  <2> QED
    BY <2>3, <2>4 DEF SeqInv
<1>6. CASE /\ r.kind \in Queued
           /\ q_in' = Append(q_in, [id |-> r.id, kind |-> r.kind, killed |-> FALSE])
           /\ SetTop([Top EXCEPT !.rest = Tail(@)])
           /\ q_out' = q_out
  <2> DEFINE e == [id |-> r.id, kind |-> r.kind, killed |-> FALSE]
  <2>1. e \in Exec /\ e.id = r.id /\ q_in \in Seq(Exec)
    BY <1>1, <1>6 DEF Exec, TypeOK
  <2> HIDE DEF e
  <2>2. q_in' = Append(q_in, e) /\ q_out' = q_out /\ delivered' = delivered
    BY <1>1, <1>6 DEF e
  <2>3. /\ MessageOrder' /\ KindsInv' /\ Ahead({r.id}, Suspended')
        /\ r.id \in Suspended /\ Suspended' \subseteq Suspended
    BY <1>3, <1>6
  <2>4. IdsOf(q_in') = IdsOf(q_in) \cup {r.id}
    BY <2>1, <2>2, IdsAppend
  <2>5. InOrder(q_in')
    <3>1. Ahead(IdsOf(q_in), {e.id})
      BY <1>2, <2>1, <2>3 DEF LineInv, Ahead
    <3> QED
      BY <1>2, <2>1, <2>2, <3>1, InOrderAppend DEF LineInv
  <2>6. RunIds' = RunIds
    BY <1>1 DEF RunIds
  <2>7. LineInv'
    <3>1. PICK D, O, R, Q, S :
            /\ D = IdsOf(delivered) /\ O = IdsOf(q_out) /\ R = RunIds
            /\ Q = IdsOf(q_in) /\ S = Suspended
      OBVIOUS
    <3>2. PICK U : U = Suspended'
      OBVIOUS
    <3>3. /\ Ahead(D, O \cup R \cup Q \cup S) /\ Ahead(O, R \cup Q \cup S)
          /\ Ahead(R, Q \cup S) /\ Ahead(Q, S)
      BY <1>2, <3>1 DEF LineInv
    <3>4. Ahead({r.id}, U) /\ r.id \in S /\ U \subseteq S
      BY <2>3, <3>1, <3>2
    <3>5. /\ Ahead(D, O \cup R \cup (Q \cup {r.id}) \cup U)
          /\ Ahead(O, R \cup (Q \cup {r.id}) \cup U)
          /\ Ahead(R, (Q \cup {r.id}) \cup U) /\ Ahead(Q \cup {r.id}, U)
      BY <3>3, <3>4 DEF Ahead
    <3>6. \A V, W : Ahead(V, W)' <=> Ahead(V, W)
      BY <1>1, SameOrder
    <3>7. InOrder(delivered') /\ InOrder(q_out') /\ InOrder(q_in')
      BY <1>2, <2>2, <2>5 DEF LineInv
    <3>8. (InOrder(delivered) /\ InOrder(q_out) /\ InOrder(q_in))'
      BY <1>1, <3>7, SameOrder
    <3>9. /\ IdsOf(delivered') = D /\ IdsOf(q_out') = O /\ RunIds' = R
          /\ IdsOf(q_in') = Q \cup {r.id} /\ Suspended' = U
      BY <2>2, <2>4, <2>6, <3>1, <3>2
    <3> QED
      BY <3>5, <3>6, <3>8, <3>9 DEF LineInv
  <2> QED
    BY <2>3, <2>7 DEF SeqInv
<1> QED
  BY <1>0, <1>4, <1>5, <1>6 DEF ProcessNewRequest

\* The responses go to the callback.
LEMMA LineDelivered ==
  ASSUME TypeOK, LineInv, UNCHANGED <<issued, precedes, q_in>>,
         RunIds' \subseteq RunIds, Suspended' \subseteq Suspended,
         q_out' = <<>>, delivered' = delivered \o q_out
  PROVE  LineInv'
<1>1. q_out \in Seq(Response) /\ delivered \in Seq(Response) /\ q_in' = q_in
  BY DEF TypeOK
<1>2. IdsOf(delivered') = IdsOf(delivered) \cup IdsOf(q_out) /\ IdsOf(q_out') = {}
  BY <1>1, NoIds, IdsConcat
<1>3. InOrder(delivered') /\ InOrder(q_out')
  <2>1. Ahead(IdsOf(delivered), IdsOf(q_out))
    BY DEF LineInv, Ahead
  <2> QED
    BY <1>1, <2>1, NoOrder, InOrderConcat DEF LineInv
<1> QED
  BY <1>1, <1>2, <1>3, SameOrder DEF LineInv, Ahead

LEMMA SeqEnd == ASSUME TypeOK, PlaceInv, SeqInv, EndMessage PROVE SeqInv'
<1>1. /\ q_in' = q_in /\ issued' = issued /\ precedes' = precedes
      /\ q_out' = <<>> /\ delivered' = delivered \o q_out /\ RunIds' = RunIds
  BY DEF EndMessage, Pool, RunIds
<1>2. /\ GetIds' = GetIds /\ Suspended' = Suspended
      /\ \A c, i : Pending(c, i)' =>
                     Pending(c, i) /\ comms'[c].rest[i] = comms[c].rest[i]
  BY MessageEnds DEF EndMessage, PlaceInv
<1>3. MessageOrder' /\ KindsInv'
  BY <1>1, <1>2, MessagesShrink DEF SeqInv
<1>4. LineInv'
  BY <1>1, <1>2, LineDelivered DEF SeqInv
<1> QED
  BY <1>3, <1>4 DEF SeqInv

LEMMA SeqRaises == ASSUME TypeOK, SeqInv, HandlerRaises PROVE SeqInv'
<1>1. /\ q_in' = q_in /\ issued' = issued /\ precedes' = precedes
      /\ comms' = <<>> /\ running' = None
      /\ \/ q_out' = q_out /\ delivered' = delivered
         \/ q_out' = <<>> /\ delivered' = delivered \o q_out
  BY DEF HandlerRaises, Pool
<1>2. GetIds' = {} /\ Suspended' = {} /\ RunIds' = {}
  BY <1>1, CommsLeft, RunIdsAre
<1>3. \A c, i : ~Pending(c, i)'
  <2>1. DOMAIN comms' = {}
    BY <1>1
  <2> QED
    BY <2>1 DEF Pending
<1>4. MessageOrder' /\ KindsInv'
  BY <1>1, <1>2, <1>3, MessagesShrink DEF SeqInv
<1>5. CASE q_out' = q_out /\ delivered' = delivered
  <2>1. InOrder(q_in') /\ InOrder(q_out') /\ InOrder(delivered')
    BY <1>1, <1>5 DEF SeqInv, LineInv
  <2> QED
    BY <1>1, <1>2, <1>4, <1>5, <2>1, LineShrinks DEF SeqInv
<1>6. CASE q_out' = <<>> /\ delivered' = delivered \o q_out
  BY <1>1, <1>2, <1>4, <1>6, LineDelivered DEF SeqInv
<1> QED
  BY <1>1, <1>5, <1>6

LEMMA SeqSame ==
  ASSUME SeqInv,
         UNCHANGED <<q_in, q_out, running, comms, issued, precedes, delivered>>
  PROVE  SeqInv'
<1>1. /\ q_in' = q_in /\ q_out' = q_out /\ delivered' = delivered
      /\ RunIds' = RunIds /\ Suspended' = Suspended /\ GetIds' = GetIds
  BY DEF RunIds, Suspended, GetIds
<1>2. InOrder(q_in') /\ InOrder(q_out') /\ InOrder(delivered')
  BY <1>1 DEF SeqInv, LineInv
<1>3. MessageOrder' /\ KindsInv'
  BY <1>1, MessagesShrink DEF SeqInv, Pending
<1> QED
  BY <1>1, <1>2, <1>3, LineShrinks DEF SeqInv

LEMMA SeqInit == Init => SeqInv
<1> SUFFICES ASSUME Init PROVE SeqInv
  OBVIOUS
<1>1. /\ q_in = <<>> /\ q_out = <<>> /\ delivered = <<>> /\ comms = <<>>
      /\ running = None /\ issued = {} /\ precedes = {}
  BY DEF Init
<1>2. DOMAIN comms = {}
  BY <1>1
<1>3. \A x, y : ~Ordered(x, y)
  BY <1>1 DEF Ordered
<1>4. LineInv /\ MessageOrder
  BY <1>3 DEF LineInv, MessageOrder, InOrder, Ahead
<1>5. KindsInv
  BY <1>1, <1>2 DEF KindsInv, Pending, GetIds
<1> QED
  BY <1>4, <1>5 DEF SeqInv

LEMMA SeqNext == TypeOK /\ PlaceInv /\ SeqInv /\ [Next]_vars => SeqInv'
<1> SUFFICES ASSUME TypeOK, PlaceInv, SeqInv, [Next]_vars PROVE SeqInv'
  OBVIOUS
<1>1. CASE IdleCommunicate
  BY <1>1, SeqFetch DEF IdleCommunicate
<1>2. CASE DoYield
  BY <1>2, SeqFetch DEF DoYield
<1>3. CASE QueuedReturns
  BY <1>3, LineQueued DEF QueuedReturns, InQueuedHandler, Outcome
<1>4. CASE GetReturns
  BY <1>4, LineGet DEF GetReturns, Outcome
<1>5. CASE YieldKilled
  <2>1. CASE comms = <<>>
    BY <1>5, <2>1, LineQueued DEF YieldKilled, Yielding
  <2>2. CASE comms # <<>>
    BY <1>5, <2>2, LineGet DEF YieldKilled, Yielding, InQueuedHandler
  <2> QED
    BY <2>1, <2>2
<1>6. CASE Leave
  BY <1>6, SeqSame DEF Leave
<1>7. CASE UNCHANGED vars
  BY <1>7, SeqSame DEF vars
<1> QED
  BY <1>1, <1>2, <1>3, <1>4, <1>5, <1>6, <1>7, SeqStart, SeqPoll, SeqShutdown,
     SeqKill, SeqNew, SeqEnd, SeqRaises DEF Next

(* The SET and EXEC requests are answered in the order in which the client  *)
(* sent them, but those that a GET handler kept waiting in the rest of its  *)
(* message: q_in is a queue, one request runs at a time and `communicate'   *)
(* reverses the stack q_out (main.ml).                                      *)
THEOREM AnswersAreInOrder == Spec => []ResponsesInOrder
<1>1. SeqInv => ResponsesInOrder
  <2> SUFFICES ASSUME SeqInv, NEW i \in DOMAIN delivered, NEW j \in DOMAIN delivered,
                      i < j, {delivered[i].id, delivered[j].id} \subseteq QueuedIds
               PROVE  <<delivered[j].id, delivered[i].id>> \notin precedes
    BY DEF ResponsesInOrder, QueuedIds
  <2>1. ~Ordered(delivered[j].id, delivered[i].id)
    BY DEF SeqInv, LineInv, InOrder
  <2> QED
    BY <2>1 DEF Ordered
<1>2. TypeOK /\ PlaceInv /\ [Next]_vars => PlaceInv'
  BY PlaceNext
<1> QED
  BY <1>1, <1>2, TypeCorrect, PlaceInit, SeqInit, SeqNext, PTL DEF Spec

=============================================================================

