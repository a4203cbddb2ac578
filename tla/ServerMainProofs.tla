-------------------------- MODULE ServerMainProofs --------------------------
(***************************************************************************)
(* Proofs about the request loop of the Server plug-in, for any set of     *)
(* request ids, any message length and any rate.                           *)
(***************************************************************************)
EXTENDS ServerMain, SeqLemmas

Comm == [rest : Seq(Request), get : Ids \cup {None}]

(* The operations on the stack of `communicate' calls keep its type and     *)
(* change its height as their names say.                                    *)
LEMMA CommsOps ==
  ASSUME comms \in Seq(Comm), comms # <<>>
  PROVE  /\ Top \in Comm
         /\ \A c \in Comm : SetTop(c) => /\ comms' \in Seq(Comm)
                                         /\ Len(comms') = Len(comms)
         /\ PopComm => /\ comms' \in Seq(Comm)
                       /\ Len(comms') = Len(comms) - 1
<1>1. Len(comms) \in 1..Len(comms)
  BY EmptySeq, LenProperties
<1>2. Top \in Comm
  BY <1>1, ElementOfSeq DEF Top
<1>3. ASSUME NEW c \in Comm, SetTop(c)
      PROVE  comms' \in Seq(Comm) /\ Len(comms') = Len(comms)
  BY <1>1, <1>3, ExceptSeq DEF SetTop
<1>4. ASSUME PopComm
      PROVE  comms' \in Seq(Comm) /\ Len(comms') = Len(comms) - 1
  <2>1. Len(comms) - 1 \in 0..Len(comms)
    BY <1>1, LenProperties
  <2> QED
    BY <1>4, <2>1, PrefixProperties, Zenon DEF PopComm
<1> QED
  BY <1>2, <1>3, <1>4

(* A fetched message is a sequence of requests.                             *)
LEMMA FetchedType ==
  ASSUME comms \in Seq(Comm), issued \subseteq Ids \X Kind,
         precedes \subseteq Ids \X Ids,
         NEW m \in Message, Fetched(m)
  PROVE  /\ comms' \in Seq(Comm)
         /\ issued' \subseteq Ids \X Kind
         /\ precedes' \subseteq Ids \X Ids
<1>1. PICK n \in 0..MaxRequests : m \in [1..n -> Request]
  BY DEF Message
<1>2. m \in Seq(Request) /\ DOMAIN m = 1..n
  BY <1>1, ServerAssumption, SeqDef DEF ServerAssumption
<1>3. \A i \in NewRequests(m) : m[i].id \in Ids /\ m[i].kind \in Kind
  BY <1>1, <1>2 DEF NewRequests, Request
<1>4. [rest |-> m, get |-> None] \in Comm
  BY <1>2 DEF Comm
<1>5. comms' \in Seq(Comm)
  BY <1>4, AppendProperties DEF Fetched
<1>6. issued' \subseteq Ids \X Kind
  BY <1>3 DEF Fetched
<1>7. precedes' \subseteq Ids \X Ids
  <2>1. IssuedIds \subseteq Ids
    BY DEF IssuedIds
  <2> QED
    BY <1>3, <2>1 DEF Fetched
<1> QED
  BY <1>5, <1>6, <1>7

-----------------------------------------------------------------------------
(* One request of a message leaves it well typed.                          *)
LEMMA RequestStepType ==
  ASSUME TypeOK, InMessage, Top.rest # <<>>
  PROVE  /\ Top \in Comm
         /\ Head(Top.rest) \in Request
         /\ [Top EXCEPT !.rest = Tail(@)] \in Comm
         /\ \A g \in Ids : [rest |-> Tail(Top.rest), get |-> g] \in Comm
<1>1. comms \in Seq(Comm) /\ comms # <<>>
  BY DEF TypeOK, InMessage, Comm
<1>2. Top \in Comm
  BY <1>1, CommsOps
<1>3. Top.rest \in Seq(Request)
  BY <1>2 DEF Comm
<1>4. Head(Top.rest) \in Request /\ Tail(Top.rest) \in Seq(Request)
  BY <1>3, HeadTailProperties
<1> QED
  BY <1>2, <1>4 DEF Comm

(* The responses and the queue are sequences whatever is pushed.            *)
LEMMA PushType ==
  ASSUME TypeOK
  PROVE  /\ \A r \in Response : Append(q_out, r) \in Seq(Response)
         /\ \A e \in Exec : Append(q_in, e) \in Seq(Exec)
         /\ delivered \o Pool(q_out) \in Seq(Response)
         /\ <<>> \in Seq(Response) /\ <<>> \in Seq(Exec) /\ <<>> \in Seq(Comm)
  BY AppendProperties, ConcatProperties, EmptySeq DEF TypeOK, Pool

LEMMA TypeInit == Init => TypeOK
<1> SUFFICES ASSUME Init PROVE TypeOK
  OBVIOUS
<1>1. /\ <<>> \in Seq(Response) /\ <<>> \in Seq(Exec)
      /\ <<>> \in Seq([rest : Seq(Request), get : Ids \cup {None}])
  BY EmptySeq
<1>2. 0 \in 0..Rate
  BY ServerAssumption DEF ServerAssumption
<1> QED
  BY <1>1, <1>2, Zenon DEF Init, TypeOK

(* Every step of the loop keeps the state well typed.                       *)
LEMMA TypeNext == TypeOK /\ [Next]_vars => TypeOK'
<1> SUFFICES ASSUME TypeOK, [Next]_vars PROVE TypeOK'
  OBVIOUS
<1>0. comms \in Seq(Comm)
  BY DEF TypeOK, Comm
<1>1. CASE StartExec
  <2>1. PICK k \in 1..Len(q_in) : /\ running' = q_in[k]
                                 /\ q_in' = SubSeq(q_in, k + 1, Len(q_in))
    BY <1>1 DEF StartExec
  <2>2. q_in[k] \in Exec
    BY <2>1, ElementOfSeq DEF TypeOK
  <2>3. SubSeq(q_in, k + 1, Len(q_in)) \in Seq(Exec)
    BY LenProperties, ElementOfSeq DEF TypeOK
  <2> QED
    BY <1>1, <2>1, <2>2, <2>3 DEF TypeOK, StartExec
<1>2. CASE IdleCommunicate
  <2>1. comms' \in Seq(Comm) /\ issued' \subseteq Ids \X Kind
          /\ precedes' \subseteq Ids \X Ids
    BY <1>0, <1>2, FetchedType DEF IdleCommunicate, TypeOK
  <2> QED
    BY <1>2, <2>1, PushType DEF TypeOK, IdleCommunicate, Comm
<1>3. CASE ProcessPoll
  <2>1. comms' \in Seq(Comm)
    BY <1>0, <1>3, RequestStepType, CommsOps DEF ProcessPoll, InMessage
  <2> QED
    BY <1>3, <2>1 DEF TypeOK, ProcessPoll, Comm
<1>4. CASE ProcessShutdown
  <2>1. comms' \in Seq(Comm)
    BY <1>0, <1>4, RequestStepType, CommsOps DEF ProcessShutdown, InMessage
  <2>2. running' \in Exec \cup {None}
    BY <1>4, Zenon DEF ProcessShutdown, TypeOK, Exec
  <2> QED
    BY <1>4, <2>1, <2>2, PushType DEF TypeOK, ProcessShutdown, Comm
<1>5. CASE ProcessKill
  <2>1. comms' \in Seq(Comm)
    BY <1>0, <1>5, RequestStepType, CommsOps DEF ProcessKill, InMessage
  <2> DEFINE id == Head(Top.rest).id
  <2>2. \A e \in Exec : KillRequest(id, e) \in Exec
    BY Zenon DEF KillRequest, Exec
  <2>3. running' \in Exec \cup {None}
    BY <1>5, <2>2 DEF ProcessKill, TypeOK
  <2>4. q_in' \in Seq(Exec)
    <3>1. q_in \in [1..Len(q_in) -> Exec] /\ Len(q_in) \in Nat
      BY LenProperties DEF TypeOK
    <3>2. q_in' = [k \in 1..Len(q_in) |-> KillRequest(id, q_in[k])]
      BY <1>5, <3>1 DEF ProcessKill
    <3>3. q_in' \in [1..Len(q_in) -> Exec]
      BY <2>2, <3>1, <3>2
    <3> QED
      BY <3>1, <3>3, SeqDef
  <2>5. killed' \subseteq Ids
    <3>1. \A k \in DOMAIN q_in : q_in[k].id \in Ids
      <4>1. q_in \in [1..Len(q_in) -> Exec]
        BY LenProperties DEF TypeOK
      <4> QED
        BY <4>1 DEF Exec
    <3> QED
      BY <1>5, <3>1 DEF ProcessKill, TypeOK
  <2> QED
    BY <1>5, <2>1, <2>3, <2>4, <2>5 DEF TypeOK, ProcessKill, Comm
<1>6. CASE ProcessNewRequest
  <2> DEFINE r == Head(Top.rest)
  <2>1. r.id \in Ids /\ r.kind \in Kind
    BY <1>6, RequestStepType DEF ProcessNewRequest, Request
  <2>2. comms' \in Seq(Comm)
    BY <1>0, <1>6, <2>1, RequestStepType, CommsOps
       DEF ProcessNewRequest, InMessage
  <2>3. q_in' \in Seq(Exec)
    BY <1>6, <2>1, PushType, Zenon DEF ProcessNewRequest, Exec, TypeOK
  <2>4. q_out' \in Seq(Response)
    BY <1>6, <2>1, PushType, Zenon DEF ProcessNewRequest, Response, Reply, TypeOK
  <2> QED
    BY <1>6, <2>2, <2>3, <2>4 DEF TypeOK, ProcessNewRequest, Comm
<1>7. CASE EndMessage
  <2>1. comms' \in Seq(Comm)
    BY <1>0, <1>7, CommsOps DEF EndMessage, InMessage
  <2> QED
    BY <1>7, <2>1, PushType DEF TypeOK, EndMessage, Comm
<1>8. CASE QueuedReturns
  <2>1. q_out' \in Seq(Response)
    BY <1>8, PushType DEF QueuedReturns, InQueuedHandler, Outcome, Reply,
                          Response, Exec, TypeOK
  <2> QED
    BY <1>8, <2>1 DEF TypeOK, QueuedReturns
<1>9. CASE GetReturns
  <2>1. Top \in Comm /\ Top.get \in Ids
    BY <1>0, <1>9, CommsOps DEF GetReturns, InGetHandler, Comm
  <2>2. comms' \in Seq(Comm)
    BY <1>0, <1>9, <2>1, CommsOps DEF GetReturns, InGetHandler, Comm
  <2>3. q_out' \in Seq(Response)
    BY <1>9, <2>1, PushType, Zenon DEF GetReturns, Outcome, Reply, Response
  <2> QED
    BY <1>9, <2>2, <2>3 DEF TypeOK, GetReturns, Comm
<1>10. CASE DoYield
  <2>1. comms' \in Seq(Comm) /\ issued' \subseteq Ids \X Kind
          /\ precedes' \subseteq Ids \X Ids
    BY <1>0, <1>10, FetchedType DEF DoYield, TypeOK
  <2>2. coins' \in 0..Rate
    BY <1>10, ServerAssumption DEF DoYield, CoinsLeft, TypeOK, ServerAssumption
  <2> QED
    BY <1>10, <2>1, <2>2 DEF TypeOK, DoYield, Comm
<1>11. CASE YieldKilled
  <2>1. CASE comms = <<>>
    <3>1. q_out' \in Seq(Response)
      BY <1>11, <2>1, PushType, Zenon DEF YieldKilled, Yielding, Reply, Response,
                                   Exec, TypeOK
    <3> QED
      BY <1>11, <2>1, <3>1 DEF TypeOK, YieldKilled
  <2>2. CASE comms # <<>>
    <3>1. Top \in Comm /\ Top.get \in Ids
      BY <1>0, <1>11, <2>2, CommsOps
         DEF YieldKilled, Yielding, InQueuedHandler, InGetHandler, Comm
    <3>2. comms' \in Seq(Comm)
      BY <1>0, <1>11, <2>2, <3>1, CommsOps, Zenon DEF YieldKilled, Comm
    <3>3. q_out' \in Seq(Response)
      BY <1>11, <2>2, <3>1, PushType, Zenon DEF YieldKilled, Reply, Response
    <3> QED
      BY <1>11, <2>2, <3>2, <3>3 DEF TypeOK, YieldKilled, Comm
  <2> QED
    BY <2>1, <2>2
<1>12. CASE HandlerRaises
  BY <1>12, PushType, Zenon DEF TypeOK, HandlerRaises, Comm
<1>13. CASE Leave
  BY <1>13 DEF TypeOK, Leave
<1>14. CASE UNCHANGED vars
  BY <1>14 DEF TypeOK, vars
<1> QED
  BY <1>1, <1>2, <1>3, <1>4, <1>5, <1>6, <1>7, <1>8, <1>9, <1>10, <1>11,
     <1>12, <1>13, <1>14 DEF Next

(* The state of the request loop of main.ml is always well typed: every    *)
(* handler of a message, a kill, a yield or an exception keeps it so.      *)
THEOREM TypeCorrect == Spec => []TypeOK
  BY TypeInit, TypeNext, PTL DEF Spec

-----------------------------------------------------------------------------
(* What a step may do to the answers, none of which loses one: nothing, one *)
(* more answer, or the delivery of them all.                                *)
Quiet == UNCHANGED <<q_out, delivered>>

Pushes ==
  /\ \E r \in Response : q_out' = Append(q_out, r)
  /\ UNCHANGED delivered

Delivers == delivered' = delivered \o q_out /\ q_out' = <<>>

(* The elements of a concatenation.                                         *)
LEMMA ConcatElements ==
  ASSUME NEW S, NEW s \in Seq(S), NEW t \in Seq(S)
  PROVE  /\ DOMAIN (s \o t) = 1..(Len(s) + Len(t))
         /\ \A i \in DOMAIN (s \o t) :
              (s \o t)[i] = IF i <= Len(s) THEN s[i] ELSE t[i - Len(s)]
  BY ConcatProperties, LenProperties

LEMMA DeliveryKeeps ==
  ASSUME TypeOK, Quiet \/ Pushes \/ Delivers
  PROVE  Kept(delivered \o q_out, delivered' \o q_out')
<1>0. /\ delivered \in Seq(Response) /\ q_out \in Seq(Response)
      /\ Len(delivered) \in Nat /\ Len(q_out) \in Nat
  BY LenProperties DEF TypeOK
<1>1. CASE Quiet
  BY <1>1 DEF Quiet, Kept
<1>2. CASE Pushes
  <2>1. PICK r \in Response : q_out' = Append(q_out, r)
    BY <1>2 DEF Pushes
  <2>2. /\ q_out' \in Seq(Response) /\ Len(q_out') = Len(q_out) + 1
        /\ \A i \in 1..Len(q_out) : q_out'[i] = q_out[i]
    BY <1>0, <2>1, AppendProperties
  <2>3. delivered' = delivered
    BY <1>2 DEF Pushes
  <2> DEFINE s == delivered \o q_out
             t == delivered \o q_out'
  <2>4. /\ DOMAIN s = 1..(Len(delivered) + Len(q_out))
        /\ \A i \in DOMAIN s : s[i] = IF i <= Len(delivered) THEN delivered[i]
                                      ELSE q_out[i - Len(delivered)]
    BY <1>0, ConcatElements
  <2>5. /\ DOMAIN t = 1..(Len(delivered) + Len(q_out'))
        /\ \A i \in DOMAIN t : t[i] = IF i <= Len(delivered) THEN delivered[i]
                                      ELSE q_out'[i - Len(delivered)]
    BY <1>0, <2>2, ConcatElements, Zenon
  <2>6. ASSUME NEW i \in DOMAIN s PROVE i \in DOMAIN t /\ t[i] = s[i]
    <3>1. i \in 1..(Len(delivered) + Len(q_out)) /\ i \in DOMAIN t
      BY <1>0, <2>2, <2>4, <2>5
    <3>2. CASE i <= Len(delivered)
      BY <2>4, <2>5, <3>1, <3>2
    <3>3. CASE ~(i <= Len(delivered))
      <4>1. i - Len(delivered) \in 1..Len(q_out)
        BY <1>0, <3>1, <3>3
      <4>2. q_out'[i - Len(delivered)] = q_out[i - Len(delivered)]
        BY <2>2, <4>1
      <4> QED
        BY <2>4, <2>5, <3>1, <3>3, <4>2
    <3> QED
      BY <3>2, <3>3
  <2> QED
    BY <2>3, <2>6 DEF Kept
<1>3. CASE Delivers
  <2>1. delivered' \in Seq(Response) /\ q_out' = <<>>
    BY <1>0, <1>3, ConcatProperties DEF Delivers
  <2>2. delivered' \o <<>> = delivered'
    BY <2>1, ConcatEmptySeq
  <2>3. delivered' \o q_out' = delivered \o q_out
    BY <1>3, <2>1, <2>2 DEF Delivers
  <2> QED
    BY <2>3 DEF Kept
<1> QED
  BY <1>1, <1>2, <1>3

(* Every step but a Shutdown does one of the three.  Only the end of a      *)
(* message and an exception end the last message in progress.               *)
LEMMA AnswersStep ==
  ASSUME TypeOK, Next, ~shutdown'
  PROVE  /\ Quiet \/ Pushes \/ Delivers
         /\ comms # <<>> /\ comms' = <<>> => q_out' = <<>>
<1>0. comms \in Seq(Comm) /\ Len(comms) \in Nat
  BY LenProperties DEF TypeOK, Comm
<1>1. \A c \in Comm : comms # <<>> /\ SetTop(c) => comms' # <<>>
  BY <1>0, CommsOps, EmptySeq
<1>2. CASE StartExec \/ Leave
  BY <1>2 DEF StartExec, Leave, Quiet
<1>3. CASE IdleCommunicate
  BY <1>3 DEF IdleCommunicate, AtLoop, Quiet
<1>4. CASE ProcessPoll \/ ProcessKill
  BY <1>1, <1>4, RequestStepType DEF ProcessPoll, ProcessKill, InMessage, Quiet
<1>5. CASE ProcessShutdown
  BY <1>5 DEF ProcessShutdown
<1>6. CASE ProcessNewRequest
  <2>1. Head(Top.rest).id \in Ids
    BY <1>6, RequestStepType DEF ProcessNewRequest, Request
  <2>2. comms' # <<>>
    BY <1>1, <1>6, <2>1, RequestStepType DEF ProcessNewRequest, InMessage
  <2>3. Quiet \/ Pushes
    BY <1>6, <2>1, Zenon DEF ProcessNewRequest, Reply, Response, Quiet, Pushes
  <2> QED
    BY <2>2, <2>3
<1>7. CASE EndMessage \/ HandlerRaises
  BY <1>7 DEF EndMessage, HandlerRaises, Pool, Quiet, Delivers
<1>8. CASE QueuedReturns
  BY <1>8 DEF QueuedReturns, InQueuedHandler, Outcome, Reply, Response, Exec,
              Pushes, TypeOK
<1>9. CASE GetReturns
  <2>1. Top \in Comm /\ Top.get \in Ids
    BY <1>0, <1>9, CommsOps DEF GetReturns, InGetHandler, Comm
  <2>2. comms' # <<>>
    BY <1>0, <1>1, <1>9, <2>1, Zenon DEF GetReturns, InGetHandler, Comm
  <2>3. Pushes
    BY <1>9, <2>1, Zenon DEF GetReturns, Outcome, Reply, Response, Pushes
  <2> QED
    BY <2>2, <2>3
<1>10. CASE DoYield
  <2>1. \A m \in Message : Fetched(m) => comms' # <<>>
    <3>1. ASSUME NEW m \in Message, Fetched(m) PROVE comms' # <<>>
      BY <1>0, <3>1, AppendProperties, EmptySeq DEF Fetched
    <3> QED
      BY <3>1
  <2> QED
    BY <1>10, <2>1 DEF DoYield, Quiet
<1>11. CASE YieldKilled
  <2>1. CASE comms = <<>>
    BY <1>11, <2>1, Zenon DEF YieldKilled, Yielding, Reply, Response, Exec, TypeOK,
                              Pushes
  <2>2. CASE comms # <<>>
    <3>1. Top \in Comm /\ Top.get \in Ids
      BY <1>0, <1>11, <2>2, CommsOps
         DEF YieldKilled, Yielding, InQueuedHandler, InGetHandler, Comm
    <3>2. comms' # <<>>
      BY <1>1, <1>11, <2>2, <3>1, Zenon DEF YieldKilled, Comm
    <3>3. Pushes
      BY <1>11, <2>2, <3>1, Zenon DEF YieldKilled, Reply, Response, Pushes
    <3> QED
      BY <3>2, <3>3
  <2> QED
    BY <2>1, <2>2
<1> QED
  BY <1>2, <1>3, <1>4, <1>5, <1>6, <1>7, <1>8, <1>9, <1>10, <1>11 DEF Next

(* Until a Shutdown no answer is dropped, overtaken or given twice, and the *)
(* client has them all when its last message in progress ends: communicate  *)
(* of main.ml answers before it raises again.                               *)
THEOREM AnswersAreKept == Spec => AnswersKept
<1>1. TypeOK /\ [Next]_vars =>
        [~shutdown' =>
           /\ Kept(delivered \o q_out, delivered' \o q_out')
           /\ comms # <<>> /\ comms' = <<>> => q_out' = <<>>]_vars
  BY AnswersStep, DeliveryKeeps
<1> QED
  BY <1>1, TypeCorrect, PTL DEF Spec, AnswersKept

-----------------------------------------------------------------------------
(* Every request is in one place.  The ids that the places hold, beside     *)
(* those of Suspended, in the messages:                                     *)
IdsOf(s) == {s[k].id : k \in DOMAIN s}

GetIds == {comms[c].get : c \in DOMAIN comms} \ {None}

RunIds == {r.id : r \in {running} \ {None}}

AnswerIds == IdsOf(q_out) \cup IdsOf(delivered)

Distinct(s) == \A k, l \in DOMAIN s : s[k].id = s[l].id => k = l

\* A request of the message of a `communicate' in progress.
Pending(c, i) ==
  /\ c \in DOMAIN comms
  /\ i \in DOMAIN comms[c].rest
  /\ comms[c].rest[i].tag = "request"

\* No request is twice in the messages or in the GET handlers.
MessagesInv ==
  /\ \A c \in DOMAIN comms : Len(comms[c].rest) <= MaxRequests
  /\ \A c, d, i, j : /\ Pending(c, i) /\ Pending(d, j)
                     /\ comms[c].rest[i].id = comms[d].rest[j].id
                     => c = d /\ i = j
  /\ \A c, d \in DOMAIN comms :
       comms[c].get = comms[d].get => c = d \/ comms[c].get = None

\* No request is in two places.
PlacesInv ==
  /\ Distinct(q_in) /\ Distinct(q_out) /\ Distinct(delivered)
  /\ Suspended \cap (GetIds \cup IdsOf(q_in) \cup RunIds \cup AnswerIds) = {}
  /\ GetIds \cap (IdsOf(q_in) \cup RunIds \cup AnswerIds) = {}
  /\ IdsOf(q_in) \cap (RunIds \cup AnswerIds) = {}
  /\ RunIds \cap AnswerIds = {}
  /\ IdsOf(q_out) \cap IdsOf(delivered) = {}

Everywhere == Suspended \cup GetIds \cup IdsOf(q_in) \cup RunIds \cup AnswerIds

\* The places hold requests that the client made, and until a Shutdown or an
\* interruption all of them but those that were killed in the queue.
IssuedInv ==
  /\ Everywhere \subseteq IssuedIds
  /\ exit = "no" /\ ~shutdown => IssuedIds \subseteq Everywhere \cup killed
  /\ \A k \in DOMAIN q_in : q_in[k].killed => q_in[k].id \in killed

-----------------------------------------------------------------------------
(* The order of the requests.                                               *)

QueuedIds == {r[1] : r \in {r \in issued : r[2] \in Queued}}

\* x and y are SET or EXEC requests, and x is to be answered first.
Ordered(x, y) == <<x, y>> \in precedes /\ x \in QueuedIds /\ y \in QueuedIds

InOrder(s) == \A i, j \in DOMAIN s : i < j => ~Ordered(s[j].id, s[i].id)

Ahead(S, T) == \A x \in S, y \in T : ~Ordered(y, x)

\* The responses, the request that runs, the queue and the requests in the
\* messages are in one line.
LineInv ==
  /\ InOrder(delivered) /\ InOrder(q_out) /\ InOrder(q_in)
  /\ Ahead(IdsOf(delivered), IdsOf(q_out) \cup RunIds \cup IdsOf(q_in) \cup Suspended)
  /\ Ahead(IdsOf(q_out), RunIds \cup IdsOf(q_in) \cup Suspended)
  /\ Ahead(RunIds, IdsOf(q_in) \cup Suspended)
  /\ Ahead(IdsOf(q_in), Suspended)

\* Of two requests in the messages that are ordered, both are in one message.
MessageOrder ==
  \A c, d, i, j : /\ Pending(c, i) /\ Pending(d, j)
                  /\ Ordered(comms[c].rest[i].id, comms[d].rest[j].id)
                  => c = d /\ i < j

\* A request has one kind, a GET request is none of those that are queued, and
\* only requests that were fetched are ordered.
KindsInv ==
  /\ \A r, s \in issued : r[1] = s[1] => r = s
  /\ \A c, i : Pending(c, i) => <<comms[c].rest[i].id, comms[c].rest[i].kind>> \in issued
  /\ \A id \in GetIds : <<id, "GET">> \in issued
  /\ precedes \subseteq IssuedIds \X IssuedIds


-----------------------------------------------------------------------------
(* The operations on sequences of requests and responses.                   *)

LEMMA IdsAppend ==
  ASSUME NEW S, NEW s \in Seq(S), NEW e \in S
  PROVE  /\ IdsOf(Append(s, e)) = IdsOf(s) \cup {e.id}
         /\ Distinct(s) /\ e.id \notin IdsOf(s) => Distinct(Append(s, e))
<1> DEFINE t == Append(s, e)
           n == Len(s)
<1>1. /\ n \in Nat /\ DOMAIN s = 1..n /\ DOMAIN t = 1..(n + 1)
      /\ \A i \in 1..n : t[i] = s[i]
      /\ t[n + 1] = e
  BY AppendProperties, LenProperties
<1> HIDE DEF t, n
<1>2. IdsOf(t) = IdsOf(s) \cup {e.id}
  BY <1>1 DEF IdsOf
<1>3. Distinct(s) /\ e.id \notin IdsOf(s) => Distinct(t)
  BY <1>1 DEF IdsOf, Distinct
<1> QED
  BY <1>2, <1>3 DEF t

LEMMA IdsConcat ==
  ASSUME NEW S, NEW s \in Seq(S), NEW t \in Seq(S)
  PROVE  /\ IdsOf(s \o t) = IdsOf(s) \cup IdsOf(t)
         /\ Distinct(s) /\ Distinct(t) /\ IdsOf(s) \cap IdsOf(t) = {} => Distinct(s \o t)
<1> DEFINE u == s \o t
           n == Len(s)
           m == Len(t)
<1>1. /\ n \in Nat /\ m \in Nat /\ DOMAIN s = 1..n /\ DOMAIN t = 1..m
      /\ DOMAIN u = 1..(n + m)
      /\ \A i \in 1..(n + m) : u[i] = IF i <= n THEN s[i] ELSE t[i - n]
  BY ConcatProperties, LenProperties
<1> HIDE DEF u, n, m
<1>2. \A i \in 1..n : i \in 1..(n + m) /\ u[i] = s[i]
  BY <1>1
<1>3. \A i \in 1..m : n + i \in 1..(n + m) /\ u[n + i] = t[i]
  BY <1>1
<1>4. \A i \in 1..(n + m) : \/ i \in 1..n /\ u[i] = s[i]
                            \/ i - n \in 1..m /\ u[i] = t[i - n]
  BY <1>1
<1>5. IdsOf(u) = IdsOf(s) \cup IdsOf(t)
  <2>1. ASSUME NEW x \in IdsOf(u) PROVE x \in IdsOf(s) \cup IdsOf(t)
    <3>1. PICK i \in 1..(n + m) : u[i].id = x
      BY <1>1, <2>1 DEF IdsOf
    <3> QED
      BY <1>1, <1>4, <3>1 DEF IdsOf
  <2>2. ASSUME NEW x \in IdsOf(s) PROVE x \in IdsOf(u)
    BY <1>1, <1>2, <2>2 DEF IdsOf
  <2>3. ASSUME NEW x \in IdsOf(t) PROVE x \in IdsOf(u)
    <3>1. PICK i \in 1..m : t[i].id = x
      BY <1>1, <2>3 DEF IdsOf
    <3>2. n + i \in DOMAIN u /\ u[n + i].id = x
      BY <1>1, <1>3, <3>1
    <3> QED
      BY <3>2 DEF IdsOf
  <2> QED
    BY <2>1, <2>2, <2>3
<1>6. ASSUME Distinct(s), Distinct(t), IdsOf(s) \cap IdsOf(t) = {}
      PROVE  Distinct(u)
  <2>1. SUFFICES ASSUME NEW k \in 1..(n + m), NEW l \in 1..(n + m), u[k].id = u[l].id
                 PROVE  k = l
    BY <1>1 DEF Distinct
  <2>2. CASE k \in 1..n /\ l \in 1..n
    BY <1>1, <1>6, <2>1, <2>2 DEF Distinct
  <2>3. CASE k - n \in 1..m /\ l - n \in 1..m
    <3>0. k > n /\ l > n
      BY <1>1, <2>3
    <3>1. t[k - n].id = t[l - n].id
      <4>1. u[k] = t[k - n] /\ u[l] = t[l - n]
        BY <1>1, <3>0
      <4> QED
        BY <2>1, <4>1
    <3>2. k - n = l - n
      BY <1>1, <1>6, <2>3, <3>1 DEF Distinct
    <3> QED
      BY <1>1, <3>2
  <2>4. ASSUME NEW i \in 1..n, NEW j \in 1..m
        PROVE  s[i].id # t[j].id
    BY <1>1, <1>6 DEF IdsOf
  <2> QED
    BY <1>1, <1>4, <2>1, <2>2, <2>3, <2>4
<1> QED
  BY <1>5, <1>6 DEF u

LEMMA IdsSuffix ==
  ASSUME NEW S, NEW s \in Seq(S), NEW k \in 0..Len(s)
  PROVE  LET t == SubSeq(s, k + 1, Len(s)) IN
         /\ IdsOf(s) = IdsOf(t) \cup {s[i].id : i \in 1..k}
         /\ Distinct(s) => Distinct(t) /\ IdsOf(t) \cap {s[i].id : i \in 1..k} = {}
<1> DEFINE t == SubSeq(s, k + 1, Len(s))
           n == Len(s)
<1>1. /\ n \in Nat /\ k \in 0..n /\ DOMAIN s = 1..n /\ DOMAIN t = 1..(n - k)
      /\ \A i \in 1..(n - k) : t[i] = s[k + i]
  BY SuffixProperties, LenProperties
<1> HIDE DEF t, n
<1>2. \A i \in 1..n : i \in 1..k \/ (i - k \in 1..(n - k) /\ t[i - k] = s[i])
  BY <1>1
<1>3. \A i \in 1..(n - k) : k + i \in 1..n /\ k + i \notin 1..k
  BY <1>1
<1>4. IdsOf(s) = IdsOf(t) \cup {s[i].id : i \in 1..k}
  <2>1. 1..k \subseteq 1..n
    BY <1>1
  <2>2. ASSUME NEW x \in IdsOf(s) PROVE x \in IdsOf(t) \cup {s[i].id : i \in 1..k}
    <3>1. PICK i \in 1..n : s[i].id = x
      BY <1>1, <2>2 DEF IdsOf
    <3> QED
      BY <1>1, <1>2, <3>1, Zenon DEF IdsOf
  <2>3. ASSUME NEW x \in IdsOf(t) PROVE x \in IdsOf(s)
    <3>1. PICK i \in 1..(n - k) : t[i].id = x
      BY <1>1, <2>3 DEF IdsOf
    <3>2. k + i \in DOMAIN s /\ s[k + i].id = x
      BY <1>1, <1>3, <3>1
    <3> QED
      BY <3>2 DEF IdsOf
  <2> QED
    BY <1>1, <2>1, <2>2, <2>3, Zenon DEF IdsOf
<1>5. ASSUME Distinct(s)
      PROVE  Distinct(t) /\ IdsOf(t) \cap {s[i].id : i \in 1..k} = {}
  <2>1. ASSUME NEW i \in 1..(n - k), NEW j \in 1..(n - k), t[i].id = t[j].id
        PROVE  i = j
    <3>1. /\ k + i \in DOMAIN s /\ k + j \in DOMAIN s
          /\ t[i] = s[k + i] /\ t[j] = s[k + j]
      BY <1>1, <1>3
    <3>2. s[k + i].id = s[k + j].id
      BY <2>1, <3>1
    <3>3. k + i = k + j
      BY <1>5, <3>1, <3>2 DEF Distinct
    <3> QED
      BY <1>1, <3>3
  <2>2. \A i \in 1..(n - k), j \in 1..k : t[i].id # s[j].id
    BY <1>1, <1>3, <1>5 DEF Distinct
  <2> QED
    BY <1>1, <2>1, <2>2 DEF Distinct, IdsOf
<1> QED
  BY <1>4, <1>5 DEF t, n

-----------------------------------------------------------------------------
(* The operations on the messages.                                          *)

LEMMA SuspendedAre ==
  /\ \A id : id \in Suspended <=> \E c, i : Pending(c, i) /\ comms[c].rest[i].id = id
  /\ \A id : id \in Suspended' <=>
               \E c, i : Pending(c, i)' /\ comms'[c].rest[i].id = id
BY DEF Suspended, Pending, NewRequests

LEMMA TopStep ==
  ASSUME TypeOK, comms # <<>>, NEW x \in Comm, SetTop(x)
  PROVE  LET n == Len(comms) IN
         /\ n \in DOMAIN comms /\ DOMAIN comms' = DOMAIN comms
         /\ Top = comms[n] /\ comms'[n] = x
         /\ \A c \in DOMAIN comms \ {n} : comms'[c] = comms[c]
<1>1. comms \in Seq(Comm)
  BY DEF TypeOK, Comm
<1>2. Len(comms) \in 1..Len(comms) /\ DOMAIN comms = 1..Len(comms)
  BY <1>1, EmptySeq, LenProperties
<1> QED
  BY <1>2 DEF SetTop, Top

\* One request of a message is taken: the others move up by one place.
LEMMA RequestShift ==
  ASSUME TypeOK, InMessage, Top.rest # <<>>, NEW g \in Ids \cup {None},
         SetTop([rest |-> Tail(Top.rest), get |-> g])
  PROVE  LET n == Len(comms)
             r == Head(Top.rest)
         IN
         /\ n \in DOMAIN comms /\ DOMAIN comms' = DOMAIN comms
         /\ \A c \in DOMAIN comms \ {n} : comms'[c] = comms[c]
         /\ r = comms[n].rest[1] /\ Len(comms[n].rest) \in Nat \ {0}
         /\ Len(comms'[n].rest) = Len(comms[n].rest) - 1
         /\ comms'[n].get = g /\ comms[n].get = None
         /\ r.tag = "request" <=> Pending(n, 1)
         /\ \A c, i :
              Pending(c, i)' =>
               \/ c # n /\ Pending(c, i) /\ comms'[c].rest[i] = comms[c].rest[i]
               \/ /\ c = n /\ i \in Nat \ {0} /\ Pending(n, i + 1)
                  /\ comms'[n].rest[i] = comms[n].rest[i + 1]
         /\ \A c, i :
              Pending(c, i) =>
               \/ c = n /\ i = 1
               \/ c # n /\ Pending(c, i)' /\ comms'[c].rest[i] = comms[c].rest[i]
               \/ /\ c = n /\ i \in Nat /\ Pending(n, i - 1)'
                  /\ comms'[n].rest[i - 1] = comms[n].rest[i]
<1>0. PICK n : n = Len(comms)
  OBVIOUS
<1> DEFINE r == Head(Top.rest)
           x == [rest |-> Tail(Top.rest), get |-> g]
<1>1. comms # <<>> /\ Top.get = None /\ x \in Comm /\ Top \in Comm
  BY RequestStepType, CommsOps DEF InMessage, TypeOK, Comm
<1>2. /\ n \in DOMAIN comms /\ DOMAIN comms' = DOMAIN comms
      /\ Top = comms[n] /\ comms'[n] = x
      /\ \A c \in DOMAIN comms \ {n} : comms'[c] = comms[c]
  BY <1>0, <1>1, TopStep
<1>3. /\ r = comms[n].rest[1] /\ Len(Top.rest) \in Nat \ {0}
      /\ DOMAIN comms[n].rest = 1..Len(Top.rest)
      /\ DOMAIN comms'[n].rest = 1..(Len(Top.rest) - 1)
      /\ Len(comms'[n].rest) = Len(Top.rest) - 1
      /\ \A i \in 1..(Len(Top.rest) - 1) : comms'[n].rest[i] = comms[n].rest[i + 1]
  <2>1. Top.rest \in Seq(Request)
    BY <1>1 DEF Comm
  <2> QED
    BY <1>2, <2>1, HeadTailProperties, LenProperties, EmptySeq
<1>4. comms'[n].get = g /\ comms[n].get = None
  BY <1>1, <1>2
<1> HIDE DEF r, x
<1>5. ASSUME NEW c, NEW i
      PROVE  Pending(c, i)' =>
               \/ c # n /\ Pending(c, i) /\ comms'[c].rest[i] = comms[c].rest[i]
               \/ /\ c = n /\ i \in Nat \ {0} /\ Pending(n, i + 1)
                  /\ comms'[n].rest[i] = comms[n].rest[i + 1]
  <2>1. CASE c = n
    <3>0. i \in 1..(Len(Top.rest) - 1) =>
            i \in Nat \ {0} /\ i + 1 \in 1..Len(Top.rest)
      BY <1>3
    <3>1. i \in DOMAIN comms'[n].rest =>
            /\ i \in Nat \ {0} /\ i + 1 \in DOMAIN comms[n].rest
            /\ comms'[n].rest[i] = comms[n].rest[i + 1]
      BY <1>3, <3>0
    <3> QED
      BY <1>2, <2>1, <3>1 DEF Pending
  <2>2. CASE c # n
    BY <1>2, <2>2 DEF Pending
  <2> QED
    BY <2>1, <2>2
<1>6. ASSUME NEW c, NEW i, Pending(c, i)
      PROVE  \/ c = n /\ i = 1
             \/ c # n /\ Pending(c, i)' /\ comms'[c].rest[i] = comms[c].rest[i]
             \/ /\ c = n /\ i \in Nat /\ Pending(n, i - 1)'
                /\ comms'[n].rest[i - 1] = comms[n].rest[i]
  <2>1. CASE c = n /\ i # 1
    <3>1. i \in 2..Len(Top.rest) /\ i - 1 \in 1..(Len(Top.rest) - 1)
      BY <1>3, <1>6, <2>1 DEF Pending
    <3>2. comms'[n].rest[i - 1] = comms[n].rest[i]
      BY <1>3, <3>1
    <3>3. i \in Nat /\ i - 1 \in DOMAIN comms'[n].rest
      BY <1>3, <3>1
    <3>4. Pending(n, i)
      BY <1>6, <2>1
    <3>5. comms'[n].rest[i - 1].tag = "request"
      BY <3>2, <3>4 DEF Pending
    <3>6. Pending(n, i - 1)'
      BY <1>2, <3>3, <3>5 DEF Pending
    <3> QED
      BY <2>1, <3>2, <3>3, <3>6
  <2> QED
    BY <1>2, <1>6, <2>1 DEF Pending
<1>7. r.tag = "request" <=> Pending(n, 1)
  BY <1>2, <1>3 DEF Pending
<1>8. Len(comms[n].rest) = Len(Top.rest)
  BY <1>2
<1> QED
  BY <1>0, <1>2, <1>3, <1>4, <1>5, <1>6, <1>7, <1>8, SMTT(30) DEF r

\* One request of a message is taken; if it is a GET, its handler starts.
LEMMA RequestPasses ==
  ASSUME TypeOK, MessagesInv, InMessage, Top.rest # <<>>,
         NEW g \in Ids \cup {None}, g \notin GetIds,
         SetTop([rest |-> Tail(Top.rest), get |-> g])
  PROVE  LET r == Head(Top.rest) IN
         /\ MessagesInv'
         /\ r.tag = "request" => r.id \in Suspended
         /\ Suspended' = Suspended \ (IF r.tag = "request" THEN {r.id} ELSE {})
         /\ GetIds' = GetIds \cup ({g} \ {None})
<1>0. PICK n : n = Len(comms)
  OBVIOUS
<1> DEFINE r == Head(Top.rest)
<1>2. /\ n \in DOMAIN comms /\ DOMAIN comms' = DOMAIN comms
      /\ \A c \in DOMAIN comms \ {n} : comms'[c] = comms[c]
  BY <1>0, RequestShift
<1>3. /\ r = comms[n].rest[1] /\ Len(comms[n].rest) \in Nat \ {0}
      /\ Len(comms'[n].rest) = Len(comms[n].rest) - 1
  BY <1>0, RequestShift
<1>4. comms'[n].get = g /\ comms[n].get = None
  BY <1>0, RequestShift
<1>5. ASSUME NEW c, NEW i
      PROVE  Pending(c, i)' =>
               \/ c # n /\ Pending(c, i) /\ comms'[c].rest[i] = comms[c].rest[i]
               \/ /\ c = n /\ i \in Nat \ {0} /\ Pending(n, i + 1)
                  /\ comms'[n].rest[i] = comms[n].rest[i + 1]
  BY <1>0, RequestShift
<1>6. ASSUME NEW c, NEW i, Pending(c, i)
      PROVE  \/ c = n /\ i = 1
             \/ c # n /\ Pending(c, i)' /\ comms'[c].rest[i] = comms[c].rest[i]
             \/ /\ c = n /\ i \in Nat /\ Pending(n, i - 1)'
                /\ comms'[n].rest[i - 1] = comms[n].rest[i]
  BY <1>0, <1>6, RequestShift
<1>7. r.tag = "request" <=> Pending(n, 1)
  BY <1>0, RequestShift
<1> HIDE DEF r
<1>8. MessagesInv'
  <2>1. \A c \in DOMAIN comms' : Len(comms'[c].rest) <= MaxRequests
    BY <1>2, <1>3, ServerAssumption, SMTT(30) DEF MessagesInv, ServerAssumption
  <2>2. ASSUME NEW c, NEW d, NEW i, NEW j, Pending(c, i)', Pending(d, j)',
               comms'[c].rest[i].id = comms'[d].rest[j].id
        PROVE  c = d /\ i = j
    <3>1. CASE c = n /\ d = n
      <4>1. /\ i \in Nat /\ j \in Nat /\ Pending(n, i + 1) /\ Pending(n, j + 1)
            /\ comms[n].rest[i + 1].id = comms[n].rest[j + 1].id
        BY <1>5, <2>2, <3>1
      <4>2. i + 1 = j + 1
        BY <4>1 DEF MessagesInv
      <4> QED
        BY <3>1, <4>1, <4>2
    <3>2. CASE c # n /\ d # n
      <4>1. /\ Pending(c, i) /\ Pending(d, j)
            /\ comms[c].rest[i].id = comms[d].rest[j].id
        BY <1>5, <2>2, <3>2
      <4> QED
        BY <4>1 DEF MessagesInv
    <3>3. ~(c # n /\ d = n) /\ ~(c = n /\ d # n)
      <4>1. ASSUME NEW a, NEW b, Pending(a, b)'
            PROVE  \E k : Pending(a, k) /\ comms[a].rest[k].id = comms'[a].rest[b].id
        BY <1>5, <4>1, SMTT(30)
      <4>2. PICK k : Pending(c, k) /\ comms[c].rest[k].id = comms'[c].rest[i].id
        BY <2>2, <4>1
      <4>3. PICK l : Pending(d, l) /\ comms[d].rest[l].id = comms'[d].rest[j].id
        BY <2>2, <4>1
      <4> QED
        BY <2>2, <4>2, <4>3 DEF MessagesInv
    <3> QED
      BY <3>1, <3>2, <3>3
  <2>3. ASSUME NEW c \in DOMAIN comms', NEW d \in DOMAIN comms',
               comms'[c].get = comms'[d].get
        PROVE  c = d \/ comms'[c].get = None
    BY <1>2, <1>4, <2>3, SMTT(30) DEF MessagesInv, GetIds
  <2> QED
    BY <2>1, <2>2, <2>3 DEF MessagesInv
<1>9. r.tag = "request" => r.id \in Suspended
  BY <1>3, <1>7, SuspendedAre
<1>10. Suspended' = Suspended \ (IF r.tag = "request" THEN {r.id} ELSE {})
  <2>1. ASSUME NEW id \in Suspended'
        PROVE  id \in Suspended /\ (r.tag = "request" => id # r.id)
    <3>1. PICK c, i : Pending(c, i)' /\ comms'[c].rest[i].id = id
      BY <2>1, SuspendedAre
    <3>2. PICK d, j : Pending(d, j) /\ comms[d].rest[j].id = id /\ (d # n \/ j # 1)
      <4>1. CASE c # n
        BY <1>5, <3>1, <4>1
      <4>2. CASE c = n
        <5>1. i \in Nat \ {0} /\ Pending(n, i + 1) /\ comms[n].rest[i + 1].id = id
          BY <1>5, <3>1, <4>2
        <5>2. i + 1 # 1
          BY <5>1
        <5> QED
          BY <5>1, <5>2
      <4> QED
        BY <4>1, <4>2
    <3> QED
      BY <1>3, <1>7, <3>2, SuspendedAre, SMTT(30) DEF MessagesInv
  <2>2. ASSUME NEW id \in Suspended, r.tag = "request" => id # r.id
        PROVE  id \in Suspended'
    <3>1. PICK c, i : Pending(c, i) /\ comms[c].rest[i].id = id
      BY <2>2, SuspendedAre
    <3>2. ~(c = n /\ i = 1)
      BY <1>3, <1>7, <2>2, <3>1
    <3>3. CASE c # n
      BY <1>6, <3>1, <3>3, SuspendedAre
    <3>4. CASE c = n
      <4>1. Pending(n, i - 1)' /\ comms'[n].rest[i - 1].id = id
        BY <1>6, <3>1, <3>2, <3>4
      <4> QED
        BY <4>1, SuspendedAre
    <3> QED
      BY <3>3, <3>4
  <2> QED
    BY <2>1, <2>2
<1>11. GetIds' = GetIds \cup ({g} \ {None})
  BY <1>2, <1>4 DEF GetIds
<1> QED
  BY <1>8, <1>9, <1>10, <1>11 DEF r


\* The ids of the requests of a message.
NewIds(m) == {m[i].id : i \in NewRequests(m)}

LEMMA MessageType ==
  ASSUME NEW m \in Message
  PROVE  /\ m \in Seq(Request) /\ Len(m) <= MaxRequests /\ DOMAIN m = 1..Len(m)
         /\ NewIds(m) \subseteq Ids
<1>1. PICK n \in 0..MaxRequests : m \in [1..n -> Request]
  BY DEF Message
<1>2. n \in Nat /\ n <= MaxRequests
  BY ServerAssumption DEF ServerAssumption
<1>3. m \in Seq(Request) /\ Len(m) = n /\ DOMAIN m = 1..n
  BY <1>1, <1>2, FunctionIsSeq
<1>4. NewIds(m) \subseteq Ids
  BY <1>1, <1>3 DEF NewIds, NewRequests, Request
<1> QED
  BY <1>2, <1>3, <1>4

\* A message is fetched: its requests are new, and go to the messages.
LEMMA FetchedPlaces ==
  ASSUME TypeOK, MessagesInv, Suspended \subseteq IssuedIds,
         NEW m \in Message, Fetched(m)
  PROVE  /\ MessagesInv'
         /\ Suspended' = Suspended \cup NewIds(m)
         /\ GetIds' = GetIds
         /\ IssuedIds' = IssuedIds \cup NewIds(m)
         /\ NewIds(m) \cap IssuedIds = {}
         /\ \A c, i : Pending(c, i)' =>
              \/ Pending(c, i) /\ comms'[c].rest[i] = comms[c].rest[i]
              \/ /\ c = Len(comms) + 1 /\ i \in NewRequests(m)
                 /\ comms'[c].rest[i] = m[i]
<1>0. PICK n : n = Len(comms) + 1
  OBVIOUS
<1>1. /\ n \in Nat /\ DOMAIN comms' = DOMAIN comms \cup {n} /\ n \notin DOMAIN comms
      /\ comms'[n] = [rest |-> m, get |-> None]
      /\ \A c \in DOMAIN comms : comms'[c] = comms[c]
  <2>1. comms \in Seq(Comm) /\ [rest |-> m, get |-> None] \in Comm
    BY MessageType DEF TypeOK, Comm
  <2>2. Len(comms) \in Nat /\ DOMAIN comms = 1..Len(comms)
    BY <2>1, LenProperties
  <2>3. /\ Len(comms') = Len(comms) + 1 /\ comms' \in Seq(Comm)
        /\ \A c \in 1..Len(comms) : comms'[c] = comms[c]
        /\ comms'[Len(comms) + 1] = [rest |-> m, get |-> None]
    BY <2>1, AppendProperties DEF Fetched
  <2>4. DOMAIN comms' = 1..(Len(comms) + 1)
    BY <2>3, LenProperties
  <2> QED
    BY <1>0, <2>2, <2>3, <2>4
<1>2. ASSUME NEW c, NEW i
      PROVE  Pending(c, i)' <=> \/ c # n /\ Pending(c, i)
                                \/ c = n /\ i \in NewRequests(m)
  BY <1>1 DEF Pending, NewRequests
<1>3. /\ \A c, i : Pending(c, i) => c # n /\ comms'[c].rest[i] = comms[c].rest[i]
      /\ \A i : comms'[n].rest[i] = m[i]
  BY <1>1 DEF Pending
<1>4. /\ NewIds(m) \cap IssuedIds = {}
      /\ \A i, j \in NewRequests(m) : m[i].id = m[j].id => i = j
  BY DEF Fetched, Fresh, NewIds
<1>5. IssuedIds' = IssuedIds \cup NewIds(m)
  <2>1. issued' = issued \cup {<<m[i].id, m[i].kind>> : i \in NewRequests(m)}
    BY DEF Fetched
  <2>2. ASSUME NEW id \in IssuedIds' PROVE id \in IssuedIds \cup NewIds(m)
    <3>1. PICK r \in issued' : r[1] = id
      BY <2>2 DEF IssuedIds
    <3>2. CASE r \in issued
      BY <3>1, <3>2 DEF IssuedIds
    <3>3. CASE r \notin issued
      <4>1. PICK i \in NewRequests(m) : r = <<m[i].id, m[i].kind>>
        BY <2>1, <3>1, <3>3
      <4>2. id = m[i].id
        BY <3>1, <4>1
      <4> QED
        BY <4>2 DEF NewIds
    <3> QED
      BY <3>2, <3>3
  <2>3. ASSUME NEW id \in NewIds(m) PROVE id \in IssuedIds'
    <3>1. PICK i \in NewRequests(m) : m[i].id = id
      BY <2>3 DEF NewIds
    <3>2. <<m[i].id, m[i].kind>> \in issued'
      BY <2>1
    <3>3. <<m[i].id, m[i].kind>>[1] = id
      BY <3>1
    <3> QED
      BY <3>2, <3>3 DEF IssuedIds
  <2>4. IssuedIds \subseteq IssuedIds'
    BY <2>1 DEF IssuedIds
  <2> QED
    BY <2>2, <2>3, <2>4
<1>6. GetIds' = GetIds
  BY <1>1 DEF GetIds
<1>7. Suspended' = Suspended \cup NewIds(m)
  <2>1. ASSUME NEW id \in Suspended' PROVE id \in Suspended \cup NewIds(m)
    <3>1. PICK c, i : Pending(c, i)' /\ comms'[c].rest[i].id = id
      BY <2>1, SuspendedAre
    <3>2. CASE c = n
      BY <1>2, <1>3, <3>1, <3>2 DEF NewIds
    <3>3. CASE c # n
      <4>1. Pending(c, i) /\ comms[c].rest[i].id = id
        BY <1>2, <1>3, <3>1, <3>3
      <4> QED
        BY <4>1, SuspendedAre
    <3> QED
      BY <3>2, <3>3
  <2>2. ASSUME NEW id \in Suspended PROVE id \in Suspended'
    <3>1. PICK c, i : Pending(c, i) /\ comms[c].rest[i].id = id
      BY <2>2, SuspendedAre
    <3>2. Pending(c, i)' /\ comms'[c].rest[i].id = id
      BY <1>2, <1>3, <3>1
    <3> QED
      BY <3>2, SuspendedAre
  <2>3. ASSUME NEW id \in NewIds(m) PROVE id \in Suspended'
    <3>1. PICK i \in NewRequests(m) : m[i].id = id
      BY <2>3 DEF NewIds
    <3>2. Pending(n, i)' /\ comms'[n].rest[i].id = id
      BY <1>2, <1>3, <3>1
    <3> QED
      BY <3>2, SuspendedAre
  <2> QED
    BY <2>1, <2>2, <2>3
<1>8. MessagesInv'
  <2>1. \A c \in DOMAIN comms' : Len(comms'[c].rest) <= MaxRequests
    BY <1>1, MessageType DEF MessagesInv
  <2>2. ASSUME NEW c, NEW d, NEW i, NEW j, Pending(c, i)', Pending(d, j)',
               comms'[c].rest[i].id = comms'[d].rest[j].id
        PROVE  c = d /\ i = j
    <3>1. CASE c = n /\ d = n
      BY <1>2, <1>3, <1>4, <2>2, <3>1
    <3>2. CASE c # n /\ d # n
      <4>1. /\ Pending(c, i) /\ Pending(d, j)
            /\ comms[c].rest[i].id = comms[d].rest[j].id
        BY <1>2, <1>3, <2>2, <3>2
      <4> QED
        BY <4>1 DEF MessagesInv
    <3>3. ASSUME NEW e, NEW k, NEW l, Pending(e, k), l \in NewRequests(m)
          PROVE  comms[e].rest[k].id # m[l].id
      BY <1>4, <3>3, SuspendedAre DEF NewIds
    <3>4. CASE c # n /\ d = n
      <4>1. Pending(c, i) /\ j \in NewRequests(m)
        BY <1>2, <2>2, <3>4
      <4>2. comms[c].rest[i].id = m[j].id
        BY <1>3, <2>2, <3>4, <4>1
      <4> QED
        BY <3>3, <4>1, <4>2
    <3>5. CASE c = n /\ d # n
      <4>1. Pending(d, j) /\ i \in NewRequests(m)
        BY <1>2, <2>2, <3>5
      <4>2. comms[d].rest[j].id = m[i].id
        BY <1>3, <2>2, <3>5, <4>1
      <4> QED
        BY <3>3, <4>1, <4>2
    <3> QED
      BY <3>1, <3>2, <3>4, <3>5
  <2>3. ASSUME NEW c \in DOMAIN comms', NEW d \in DOMAIN comms',
               comms'[c].get = comms'[d].get
        PROVE  c = d \/ comms'[c].get = None
    BY <1>1, <2>3 DEF MessagesInv
  <2> QED
    BY <2>1, <2>2, <2>3 DEF MessagesInv
<1>9. ASSUME NEW c, NEW i, Pending(c, i)'
      PROVE  \/ Pending(c, i) /\ comms'[c].rest[i] = comms[c].rest[i]
             \/ /\ c = n /\ i \in NewRequests(m)
                /\ comms'[c].rest[i] = m[i]
  BY <1>2, <1>3, <1>9
<1> QED
  BY <1>0, <1>4, <1>5, <1>6, <1>7, <1>8, <1>9

\* The end of a message: nothing of it is left.
LEMMA MessageEnds ==
  ASSUME TypeOK, MessagesInv, InMessage, Top.rest = <<>>, PopComm
  PROVE  /\ MessagesInv'
         /\ Suspended' = Suspended
         /\ GetIds' = GetIds
         /\ \A c, i : Pending(c, i)' =>
                        Pending(c, i) /\ comms'[c].rest[i] = comms[c].rest[i]
<1>0. PICK n : n = Len(comms)
  OBVIOUS
<1>1. /\ DOMAIN comms' = DOMAIN comms \ {n} /\ n \in DOMAIN comms
      /\ comms[n].rest = <<>> /\ comms[n].get = None
      /\ \A c \in DOMAIN comms \ {n} : comms'[c] = comms[c]
  <2>1. comms \in Seq(Comm) /\ comms # <<>>
    BY DEF TypeOK, Comm, InMessage
  <2>2. Len(comms) \in Nat \ {0} /\ DOMAIN comms = 1..Len(comms)
    BY <2>1, LenProperties, EmptySeq
  <2>3. Len(comms) - 1 \in 0..Len(comms)
    BY <2>2
  <2>4. /\ comms' \in Seq(Comm) /\ Len(comms') = Len(comms) - 1
        /\ \A c \in 1..(Len(comms) - 1) : comms'[c] = comms[c]
    BY <2>1, <2>3, PrefixProperties DEF PopComm
  <2>5. DOMAIN comms' = 1..(Len(comms) - 1)
    BY <2>4, LenProperties
  <2> QED
    BY <1>0, <2>2, <2>4, <2>5 DEF Top, InMessage
<1>2. ASSUME NEW c, NEW i
      PROVE  /\ Pending(c, i)' <=> Pending(c, i)
             /\ Pending(c, i) => comms'[c].rest[i] = comms[c].rest[i]
  <2>1. DOMAIN <<>> = {}
    OBVIOUS
  <2> QED
    BY <1>1, <2>1 DEF Pending
<1>3. Suspended' = Suspended
  <2>1. \A id : id \in Suspended' <=> id \in Suspended
    BY <1>2, SuspendedAre
  <2> QED
    BY <2>1
<1>4. GetIds' = GetIds
  BY <1>1 DEF GetIds
<1>5. MessagesInv'
  <2>1. \A c \in DOMAIN comms' : Len(comms'[c].rest) <= MaxRequests
    BY <1>1 DEF MessagesInv
  <2>2. ASSUME NEW c, NEW d, NEW i, NEW j, Pending(c, i)', Pending(d, j)',
               comms'[c].rest[i].id = comms'[d].rest[j].id
        PROVE  c = d /\ i = j
    <3>1. /\ Pending(c, i) /\ Pending(d, j)
          /\ comms[c].rest[i].id = comms[d].rest[j].id
      BY <1>2, <2>2
    <3> QED
      BY <3>1 DEF MessagesInv
  <2>3. ASSUME NEW c \in DOMAIN comms', NEW d \in DOMAIN comms',
               comms'[c].get = comms'[d].get
        PROVE  c = d \/ comms'[c].get = None
    BY <1>1, <2>3 DEF MessagesInv
  <2> QED
    BY <2>1, <2>2, <2>3 DEF MessagesInv
<1> QED
  BY <1>2, <1>3, <1>4, <1>5

\* The handler of a GET request returns: the rest of its message goes on.
LEMMA GetEnds ==
  ASSUME TypeOK, MessagesInv, InGetHandler, SetTop([Top EXCEPT !.get = None])
  PROVE  /\ MessagesInv'
         /\ Suspended' = Suspended
         /\ Top.get \in GetIds
         /\ GetIds' = GetIds \ {Top.get}
         /\ \A c, i : Pending(c, i)' =>
                        Pending(c, i) /\ comms'[c].rest[i] = comms[c].rest[i]
<1>0. PICK n : n = Len(comms)
  OBVIOUS
<1>1. comms # <<>> /\ Top \in Comm /\ [Top EXCEPT !.get = None] \in Comm /\ Top.get # None
  BY CommsOps DEF InGetHandler, TypeOK, Comm
<1>2. /\ n \in DOMAIN comms /\ DOMAIN comms' = DOMAIN comms
      /\ Top = comms[n] /\ comms'[n] = [Top EXCEPT !.get = None]
      /\ \A c \in DOMAIN comms \ {n} : comms'[c] = comms[c]
  BY <1>0, <1>1, TopStep
<1>3. /\ comms'[n].rest = comms[n].rest /\ comms'[n].get = None
      /\ comms[n].get = Top.get /\ Top.get # None
  BY <1>1, <1>2 DEF Comm
<1>4. \A c \in DOMAIN comms : comms'[c].rest = comms[c].rest
  BY <1>2, <1>3
<1>5. \A c, i : /\ Pending(c, i)' <=> Pending(c, i)
                /\ Pending(c, i) => comms'[c].rest[i] = comms[c].rest[i]
  BY <1>2, <1>4 DEF Pending
<1>6. Suspended' = Suspended
  <2>1. \A id : id \in Suspended' <=> id \in Suspended
    BY <1>5, SuspendedAre
  <2> QED
    BY <2>1
<1>7. Top.get \in GetIds
  BY <1>2, <1>3 DEF GetIds
<1>8. GetIds' = GetIds \ {Top.get}
  <2>1. \A c \in DOMAIN comms \ {n} : comms[c].get # Top.get
    BY <1>2, <1>3 DEF MessagesInv
  <2>2. ASSUME NEW id \in GetIds' PROVE id \in GetIds \ {Top.get}
    <3>1. PICK c \in DOMAIN comms : comms'[c].get = id
      BY <1>2, <2>2 DEF GetIds
    <3>2. id # None /\ c # n
      BY <1>3, <2>2, <3>1 DEF GetIds
    <3>3. comms[c].get = id
      BY <1>2, <3>1, <3>2
    <3> QED
      BY <2>1, <3>1, <3>2, <3>3 DEF GetIds
  <2>3. ASSUME NEW id \in GetIds \ {Top.get} PROVE id \in GetIds'
    BY <1>2, <1>3, <2>3 DEF GetIds
  <2> QED
    BY <2>2, <2>3
<1>9. MessagesInv'
  <2>1. \A c \in DOMAIN comms' : Len(comms'[c].rest) <= MaxRequests
    BY <1>2, <1>4 DEF MessagesInv
  <2>2. ASSUME NEW c, NEW d, NEW i, NEW j, Pending(c, i)', Pending(d, j)',
               comms'[c].rest[i].id = comms'[d].rest[j].id
        PROVE  c = d /\ i = j
    <3>1. /\ Pending(c, i) /\ Pending(d, j)
          /\ comms[c].rest[i].id = comms[d].rest[j].id
      BY <1>5, <2>2
    <3> QED
      BY <3>1 DEF MessagesInv
  <2>3. ASSUME NEW c \in DOMAIN comms', NEW d \in DOMAIN comms',
               comms'[c].get = comms'[d].get
        PROVE  c = d \/ comms'[c].get = None
    <3>1. CASE c = n \/ d = n
      BY <1>3, <2>3, <3>1
    <3>2. CASE c # n /\ d # n
      <4>1. comms'[c] = comms[c] /\ comms'[d] = comms[d]
        BY <1>2, <3>2
      <4> QED
        BY <1>2, <2>3, <4>1 DEF MessagesInv
    <3> QED
      BY <3>1, <3>2
  <2> QED
    BY <2>1, <2>2, <2>3 DEF MessagesInv
<1> QED
  BY <1>5, <1>6, <1>7, <1>8, <1>9

LEMMA CommsKept ==
  ASSUME MessagesInv, UNCHANGED comms
  PROVE  MessagesInv' /\ Suspended' = Suspended /\ GetIds' = GetIds
BY DEF MessagesInv, Pending, Suspended, GetIds

LEMMA CommsLeft ==
  ASSUME comms' = <<>>
  PROVE  MessagesInv' /\ Suspended' = {} /\ GetIds' = {}
<1>1. DOMAIN comms' = {}
  OBVIOUS
<1> QED
  BY <1>1 DEF MessagesInv, Pending, Suspended, GetIds

\* The request at the head of the message is one of those in the messages.
LEMMA HeadWaits ==
  ASSUME TypeOK, InMessage, Top.rest # <<>>, Head(Top.rest).tag = "request"
  PROVE  Head(Top.rest).id \in Suspended
<1>1. comms \in Seq(Comm) /\ comms # <<>> /\ Top \in Comm
  BY RequestStepType DEF TypeOK, Comm, InMessage
<1>2. Len(comms) \in DOMAIN comms
  BY <1>1, EmptySeq, LenProperties
<1>3. Top.rest \in Seq(Request)
  BY <1>1 DEF Comm
<1>4. 1 \in DOMAIN Top.rest /\ Head(Top.rest) = Top.rest[1]
  BY <1>3, EmptySeq, LenProperties, HeadTailProperties
<1>5. Pending(Len(comms), 1)
  BY <1>2, <1>4 DEF Pending, Top
<1> QED
  BY <1>4, <1>5, SuspendedAre DEF Top

LEMMA RunIdsAre ==
  /\ running = None => RunIds = {}
  /\ running # None => RunIds = {running.id}
  /\ running' = None => RunIds' = {}
  /\ running' # None => RunIds' = {running'.id}
BY DEF RunIds

LEMMA NoIds == IdsOf(<<>>) = {} /\ Distinct(<<>>)
<1>1. DOMAIN <<>> = {}
  OBVIOUS
<1> QED
  BY <1>1 DEF IdsOf, Distinct

-----------------------------------------------------------------------------
(* How the requests move between their places.                              *)

PlaceInv == MessagesInv /\ PlacesInv /\ IssuedInv

LEMMA PlaceStart == ASSUME TypeOK, PlaceInv, StartExec PROVE PlaceInv'
<1>1. PICK k \in 1..Len(q_in) : /\ FirstLive(k)
                                /\ running' = q_in[k]
                                /\ q_in' = SubSeq(q_in, k + 1, Len(q_in))
  BY DEF StartExec
<1>2. /\ comms' = comms /\ q_out' = q_out /\ delivered' = delivered
      /\ issued' = issued /\ killed' = killed /\ running = None
      /\ exit' = exit /\ shutdown' = shutdown
  BY DEF StartExec, AtLoop
<1>3. q_in \in Seq(Exec) /\ Len(q_in) \in Nat /\ DOMAIN q_in = 1..Len(q_in)
  BY LenProperties DEF TypeOK
<1>4. RunIds = {} /\ RunIds' = {q_in[k].id}
  <2>1. q_in[k] \in Exec
    BY <1>3, ElementOfSeq
  <2> QED
    BY <1>1, <1>2, <2>1, NoneIsNoExec, RunIdsAre
<1>5. /\ IdsOf(q_in) = IdsOf(q_in') \cup {q_in[i].id : i \in 1..k}
      /\ Distinct(q_in') /\ IdsOf(q_in') \cap {q_in[i].id : i \in 1..k} = {}
  <2>1. k \in 0..Len(q_in)
    BY <1>3
  <2> QED
    BY <1>1, <1>3, <2>1, IdsSuffix, Zenon DEF PlaceInv, PlacesInv
<1>6. {q_in[i].id : i \in 1..k} \subseteq {q_in[k].id} \cup killed
  <2>1. ASSUME NEW i \in 1..k PROVE i = k \/ q_in[i].id \in killed
    <3>1. i = k \/ (i \in 1..(k - 1) /\ i \in DOMAIN q_in)
      BY <1>3
    <3> QED
      BY <1>1, <3>1 DEF FirstLive, PlaceInv, IssuedInv
  <2> QED
    BY <2>1
<1>7. q_in[k].id \in {q_in[i].id : i \in 1..k}
  <2>1. k \in 1..k
    BY <1>3
  <2> QED
    BY <2>1
<1>8. \A j \in DOMAIN q_in' : q_in'[j].killed => q_in'[j].id \in killed
  <2>1. /\ \A j \in 1..(Len(q_in) - k) : q_in'[j] = q_in[k + j]
        /\ DOMAIN q_in' = 1..(Len(q_in) - k)
    BY <1>1, <1>3, SuffixProperties, LenProperties
  <2>2. ASSUME NEW j \in 1..(Len(q_in) - k) PROVE k + j \in DOMAIN q_in
    BY <1>3
  <2> QED
    BY <2>1, <2>2 DEF PlaceInv, IssuedInv
<1>9. MessagesInv' /\ Suspended' = Suspended /\ GetIds' = GetIds
  BY <1>2, CommsKept DEF PlaceInv
<1>10. PlacesInv'
  BY <1>2, <1>4, <1>5, <1>7, <1>9 DEF PlaceInv, PlacesInv, AnswerIds
<1>11. IssuedInv'
  <2>1. IssuedIds' = IssuedIds
    BY <1>2 DEF IssuedIds
  <2>2. Everywhere' \subseteq Everywhere /\ Everywhere \subseteq Everywhere' \cup killed
    BY <1>2, <1>4, <1>5, <1>6, <1>7, <1>9 DEF Everywhere, AnswerIds
  <2> QED
    BY <1>2, <1>8, <2>1, <2>2 DEF PlaceInv, IssuedInv
<1> QED
  BY <1>9, <1>10, <1>11 DEF PlaceInv

\* A `communicate' that may find no message.
LEMMA MayFetch ==
  ASSUME TypeOK, PlaceInv,
         (\E m \in Message : Fetched(m)) \/ UNCHANGED <<comms, issued, precedes>>
  PROVE  /\ MessagesInv' /\ GetIds' = GetIds
         /\ \E new : /\ Suspended' = Suspended \cup new
                     /\ IssuedIds' = IssuedIds \cup new
                     /\ new \cap IssuedIds = {}
<1>1. Suspended \subseteq IssuedIds
  BY DEF PlaceInv, IssuedInv, Everywhere
<1>2. CASE \E m \in Message : Fetched(m)
  <2>1. PICK m \in Message : Fetched(m)
    BY <1>2
  <2> QED
    BY <1>1, <2>1, FetchedPlaces DEF PlaceInv
<1>3. CASE UNCHANGED <<comms, issued, precedes>>
  <2>1. MessagesInv' /\ GetIds' = GetIds /\ Suspended' = Suspended /\ IssuedIds' = IssuedIds
    BY <1>3, CommsKept DEF PlaceInv, IssuedIds
  <2>2. /\ Suspended' = Suspended \cup {} /\ IssuedIds' = IssuedIds \cup {}
        /\ {} \cap IssuedIds = {}
    BY <2>1
  <2> QED
    BY <2>1, <2>2
<1> QED
  BY <1>2, <1>3

LEMMA PlaceIdle == ASSUME TypeOK, PlaceInv, IdleCommunicate PROVE PlaceInv'
<1>1. /\ q_out' = q_out /\ delivered' = delivered /\ killed' = killed
      /\ running' = running /\ exit' = exit /\ shutdown' = shutdown /\ q_in' = <<>>
      /\ \A k \in 1..Len(q_in) : q_in[k].killed
  BY DEF IdleCommunicate
<1>2. PICK new : /\ MessagesInv' /\ GetIds' = GetIds
                 /\ Suspended' = Suspended \cup new
                 /\ IssuedIds' = IssuedIds \cup new
                 /\ new \cap IssuedIds = {}
  BY MayFetch DEF IdleCommunicate
<1>3. RunIds' = RunIds /\ IdsOf(q_in') = {} /\ Distinct(q_in') /\ DOMAIN q_in' = {}
  BY <1>1, NoIds DEF RunIds
<1>4. IdsOf(q_in) \subseteq killed
  <2>1. DOMAIN q_in = 1..Len(q_in)
    BY LenProperties DEF TypeOK
  <2> QED
    BY <1>1, <2>1 DEF IdsOf, PlaceInv, IssuedInv
<1>5. PlacesInv'
  BY <1>1, <1>2, <1>3 DEF PlaceInv, PlacesInv, IssuedInv, Everywhere, AnswerIds
<1>6. IssuedInv'
  <2>1. Everywhere' \subseteq Everywhere \cup new /\ Everywhere \cup new \subseteq Everywhere' \cup killed
    BY <1>1, <1>2, <1>3, <1>4 DEF Everywhere, AnswerIds
  <2> QED
    BY <1>1, <1>2, <1>3, <2>1 DEF PlaceInv, IssuedInv
<1> QED
  BY <1>2, <1>5, <1>6 DEF PlaceInv

LEMMA PlaceYield == ASSUME TypeOK, PlaceInv, DoYield PROVE PlaceInv'
<1>1. /\ q_out' = q_out /\ delivered' = delivered /\ killed' = killed
      /\ running' = running /\ exit' = exit /\ shutdown' = shutdown /\ q_in' = q_in
  BY DEF DoYield
<1>2. PICK new : /\ MessagesInv' /\ GetIds' = GetIds
                 /\ Suspended' = Suspended \cup new
                 /\ IssuedIds' = IssuedIds \cup new
                 /\ new \cap IssuedIds = {}
  BY MayFetch DEF DoYield
<1>3. RunIds' = RunIds
  BY <1>1 DEF RunIds
<1>4. PlacesInv'
  BY <1>1, <1>2, <1>3 DEF PlaceInv, PlacesInv, IssuedInv, Everywhere, AnswerIds
<1>5. IssuedInv'
  <2>1. Everywhere' = Everywhere \cup new
    BY <1>1, <1>2, <1>3 DEF Everywhere, AnswerIds
  <2> QED
    BY <1>1, <1>2, <2>1 DEF PlaceInv, IssuedInv
<1> QED
  BY <1>2, <1>4, <1>5 DEF PlaceInv

LEMMA TailTop ==
  ASSUME TypeOK, InMessage, Top.rest # <<>>
  PROVE  [Top EXCEPT !.rest = Tail(@)] = [rest |-> Tail(Top.rest), get |-> None]
<1>1. Top \in Comm /\ Top.get = None
  BY RequestStepType DEF InMessage
<1>2. \A t \in Comm : \A q : [t EXCEPT !.rest = q] = [rest |-> q, get |-> t.get]
  BY DEF Comm
<1>3. [Top EXCEPT !.rest = Tail(@)] = [Top EXCEPT !.rest = Tail(Top.rest)]
  BY Zenon
<1>4. [Top EXCEPT !.rest = Tail(Top.rest)] = [rest |-> Tail(Top.rest), get |-> Top.get]
  BY <1>1, <1>2, Zenon
<1> QED
  BY <1>1, <1>3, <1>4, Zenon

\* A request of a message that is none of the new ones leaves the places alone.
LEMMA NotNew ==
  ASSUME TypeOK, MessagesInv, InMessage, Top.rest # <<>>,
         SetTop([Top EXCEPT !.rest = Tail(@)])
  PROVE  LET r == Head(Top.rest) IN
         /\ MessagesInv' /\ GetIds' = GetIds
         /\ r.tag # "request" => Suspended' = Suspended
         /\ r.tag = "request" => /\ r.id \in Suspended
                                 /\ Suspended' = Suspended \ {r.id}
<1>2. SetTop([rest |-> Tail(Top.rest), get |-> None])
  BY TailTop
<1>3. None \in Ids \cup {None} /\ None \notin GetIds
  BY DEF GetIds
<1> QED
  BY <1>2, <1>3, RequestPasses

LEMMA PlacePoll == ASSUME TypeOK, PlaceInv, ProcessPoll PROVE PlaceInv'
<1>1. /\ q_in' = q_in /\ q_out' = q_out /\ delivered' = delivered /\ killed' = killed
      /\ running' = running /\ exit' = exit /\ shutdown' = shutdown /\ issued' = issued
  BY DEF ProcessPoll
<1>2. MessagesInv' /\ GetIds' = GetIds /\ Suspended' = Suspended
  BY NotNew DEF ProcessPoll, PlaceInv
<1>3. RunIds' = RunIds /\ IssuedIds' = IssuedIds
  BY <1>1 DEF RunIds, IssuedIds
<1>4. Everywhere' = Everywhere
  BY <1>1, <1>2, <1>3 DEF Everywhere, AnswerIds
<1> QED
  BY <1>1, <1>2, <1>3, <1>4 DEF PlaceInv, PlacesInv, IssuedInv, AnswerIds

LEMMA PlaceShutdown == ASSUME TypeOK, PlaceInv, ProcessShutdown PROVE PlaceInv'
<1>1. /\ q_in' = <<>> /\ q_out' = <<>> /\ delivered' = delivered
      /\ issued' = issued /\ shutdown'
  BY DEF ProcessShutdown
<1>2. MessagesInv' /\ GetIds' = GetIds /\ Suspended' = Suspended
  BY NotNew DEF ProcessShutdown, PlaceInv
<1>3. RunIds' \subseteq RunIds
  <2>1. CASE running = None
    BY <2>1, RunIdsAre DEF ProcessShutdown
  <2>2. CASE running # None
    <3>1. running'.id = running.id
      BY <2>2 DEF ProcessShutdown, TypeOK, Exec
    <3> QED
      BY <2>2, <3>1, RunIdsAre
  <2> QED
    BY <2>1, <2>2
<1>4. /\ IdsOf(q_in') = {} /\ IdsOf(q_out') = {} /\ Distinct(q_in') /\ Distinct(q_out')
      /\ IssuedIds' = IssuedIds /\ DOMAIN q_in' = {}
  BY <1>1, NoIds DEF IssuedIds
<1>5. Everywhere' \subseteq Everywhere
  BY <1>1, <1>2, <1>3, <1>4 DEF Everywhere, AnswerIds
<1> QED
  BY <1>1, <1>2, <1>3, <1>4, <1>5 DEF PlaceInv, PlacesInv, IssuedInv, AnswerIds

LEMMA PlaceKill == ASSUME TypeOK, PlaceInv, ProcessKill PROVE PlaceInv'
<1>0. PICK id : id = Head(Top.rest).id
  OBVIOUS
<1>1. /\ q_out' = q_out /\ delivered' = delivered /\ issued' = issued
      /\ exit' = exit /\ shutdown' = shutdown
      /\ q_in' = [k \in DOMAIN q_in |-> KillRequest(id, q_in[k])]
      /\ running' = IF running = None THEN None ELSE KillRequest(id, running)
      /\ killed' = killed \cup {q_in[k].id : k \in {k \in DOMAIN q_in : q_in[k].id = id}}
  BY <1>0 DEF ProcessKill
<1>2. MessagesInv' /\ GetIds' = GetIds /\ Suspended' = Suspended
  BY NotNew DEF ProcessKill, PlaceInv
<1>3. ASSUME NEW e \in Exec
      PROVE  /\ KillRequest(id, e) \in Exec /\ KillRequest(id, e).id = e.id
             /\ KillRequest(id, e).killed => e.killed \/ e.id = id
  BY DEF KillRequest, Exec
<1>4. \A k \in DOMAIN q_in : q_in[k] \in Exec
  BY ElementOfSeq, LenProperties DEF TypeOK
<1>5. DOMAIN q_in' = DOMAIN q_in /\ \A k \in DOMAIN q_in : q_in'[k].id = q_in[k].id
  BY <1>1, <1>3, <1>4
<1>6. IdsOf(q_in') = IdsOf(q_in) /\ (Distinct(q_in) => Distinct(q_in'))
  BY <1>5 DEF IdsOf, Distinct
<1>7. RunIds' = RunIds
  <2>1. CASE running = None
    BY <1>1, <2>1, RunIdsAre
  <2>2. CASE running # None
    <3>1. running' \in Exec /\ running'.id = running.id
      BY <1>1, <1>3, <2>2 DEF TypeOK
    <3> QED
      BY <2>2, <3>1, NoneIsNoExec, RunIdsAre
  <2> QED
    BY <2>1, <2>2
<1>8. \A k \in DOMAIN q_in' : q_in'[k].killed => q_in'[k].id \in killed'
  <2>1. ASSUME NEW k \in DOMAIN q_in, q_in'[k].killed PROVE q_in[k].id \in killed'
    <3>1. q_in[k].killed \/ q_in[k].id = id
      BY <1>1, <1>3, <1>4, <2>1
    <3> QED
      BY <1>1, <3>1 DEF PlaceInv, IssuedInv
  <2> QED
    BY <1>5, <2>1
<1>9. Everywhere' = Everywhere /\ IssuedIds' = IssuedIds /\ killed \subseteq killed'
  BY <1>1, <1>2, <1>6, <1>7 DEF Everywhere, AnswerIds, IssuedIds
<1>10. PlacesInv'
  BY <1>1, <1>2, <1>6, <1>7 DEF PlaceInv, PlacesInv, AnswerIds
<1>11. IssuedInv'
  BY <1>1, <1>8, <1>9 DEF PlaceInv, IssuedInv
<1> QED
  BY <1>2, <1>10, <1>11 DEF PlaceInv

LEMMA PlaceNew == ASSUME TypeOK, PlaceInv, ProcessNewRequest PROVE PlaceInv'
<1>0. PICK r : r = Head(Top.rest)
  OBVIOUS
<1>1. /\ delivered' = delivered /\ killed' = killed /\ running' = running
      /\ issued' = issued /\ exit' = exit /\ shutdown' = shutdown
      /\ InMessage /\ Top.rest # <<>> /\ r.tag = "request" /\ r.id \in Ids
  BY <1>0, RequestStepType DEF ProcessNewRequest, Request
<1>2. RunIds' = RunIds /\ IssuedIds' = IssuedIds /\ IdsOf(delivered') = IdsOf(delivered)
  BY <1>1 DEF RunIds, IssuedIds
<1>3. r.id \in Suspended
  BY <1>0, <1>1, HeadWaits
<1>4. MessagesInv /\ PlacesInv /\ IssuedInv
  BY DEF PlaceInv
<1>5. CASE /\ r.kind = "none"
           /\ Reply(r.id, "rejected")
           /\ SetTop([Top EXCEPT !.rest = Tail(@)])
           /\ q_in' = q_in
  <2>1. MessagesInv' /\ GetIds' = GetIds /\ Suspended' = Suspended \ {r.id}
    BY <1>0, <1>1, <1>4, <1>5, NotNew
  <2>2. /\ IdsOf(q_out') = IdsOf(q_out) \cup {r.id}
        /\ Distinct(q_out) /\ r.id \notin IdsOf(q_out) => Distinct(q_out')
    <3>1. [id |-> r.id, tag |-> "rejected"] \in Response
      BY <1>1 DEF Response
    <3> QED
      BY <1>5, <3>1, IdsAppend DEF Reply, TypeOK
  <2>3. PlacesInv'
    BY <1>1, <1>2, <1>3, <1>4, <1>5, <2>1, <2>2 DEF PlacesInv, AnswerIds
  <2>4. Everywhere' = Everywhere
    BY <1>1, <1>2, <1>3, <1>5, <2>1, <2>2 DEF Everywhere, AnswerIds
  <2>5. IssuedInv'
    BY <1>1, <1>2, <1>4, <1>5, <2>4 DEF IssuedInv
  <2> QED
    BY <2>1, <2>3, <2>5 DEF PlaceInv
<1>6. CASE /\ r.kind = "GET"
           /\ SetTop([rest |-> Tail(Top.rest), get |-> r.id])
           /\ q_in' = q_in /\ q_out' = q_out
  <2>1. r.id \notin GetIds
    BY <1>3, <1>4 DEF PlacesInv
  <2>2. /\ MessagesInv' /\ Suspended' = Suspended \ {r.id}
        /\ GetIds' = GetIds \cup ({r.id} \ {None})
    BY <1>0, <1>1, <1>4, <1>6, <2>1, RequestPasses
  <2>3. GetIds' = GetIds \cup {r.id}
    BY <1>1, <2>2, ServerAssumption DEF ServerAssumption
  <2>4. PlacesInv'
    BY <1>1, <1>2, <1>3, <1>4, <1>6, <2>2, <2>3 DEF PlacesInv, AnswerIds
  <2>5. Everywhere' = Everywhere
    BY <1>1, <1>2, <1>3, <1>6, <2>2, <2>3 DEF Everywhere, AnswerIds
  <2>6. IssuedInv'
    BY <1>1, <1>2, <1>4, <1>6, <2>5 DEF IssuedInv
  <2> QED
    BY <2>2, <2>4, <2>6 DEF PlaceInv
<1>7. CASE /\ r.kind \in Queued
           /\ q_in' = Append(q_in, [id |-> r.id, kind |-> r.kind, killed |-> FALSE])
           /\ SetTop([Top EXCEPT !.rest = Tail(@)])
           /\ q_out' = q_out
  <2>1. MessagesInv' /\ GetIds' = GetIds /\ Suspended' = Suspended \ {r.id}
    BY <1>0, <1>1, <1>4, <1>7, NotNew
  <2> DEFINE e == [id |-> r.id, kind |-> r.kind, killed |-> FALSE]
  <2>2. e \in Exec /\ e.id = r.id /\ ~e.killed /\ q_in \in Seq(Exec)
    BY <1>1, <1>7 DEF Exec, TypeOK
  <2> HIDE DEF e
  <2>3. q_in' = Append(q_in, e)
    BY <1>7 DEF e
  <2>4. /\ IdsOf(q_in') = IdsOf(q_in) \cup {r.id}
        /\ Distinct(q_in) /\ r.id \notin IdsOf(q_in) => Distinct(q_in')
    BY <2>2, <2>3, IdsAppend
  <2>5. \A k \in DOMAIN q_in' : q_in'[k].killed => q_in'[k].id \in killed
    <3>1. /\ \A k \in 1..Len(q_in) : q_in'[k] = q_in[k]
          /\ q_in'[Len(q_in) + 1] = e /\ DOMAIN q_in = 1..Len(q_in)
          /\ DOMAIN q_in' = 1..(Len(q_in) + 1) /\ Len(q_in) \in Nat
      BY <2>2, <2>3, AppendProperties, LenProperties
    <3>2. \A k \in DOMAIN q_in' : k \in DOMAIN q_in \/ k = Len(q_in) + 1
      BY <3>1
    <3> QED
      BY <1>4, <2>2, <3>1, <3>2 DEF IssuedInv
  <2>6. PlacesInv'
    <3>1. q_out' = q_out /\ delivered' = delivered
      BY <1>1, <1>7
    <3>2. Distinct(q_in')
      BY <1>3, <1>4, <2>4 DEF PlacesInv
    <3> QED
      BY <1>2, <1>3, <1>4, <2>1, <2>4, <3>1, <3>2 DEF PlacesInv, AnswerIds
  <2>7. Everywhere' = Everywhere
    BY <1>1, <1>2, <1>3, <1>7, <2>1, <2>4 DEF Everywhere, AnswerIds
  <2>8. IssuedInv'
    <3>1. Everywhere' \subseteq IssuedIds'
      BY <1>2, <1>4, <2>7 DEF IssuedInv
    <3>2. exit' = "no" /\ ~shutdown' => IssuedIds' \subseteq Everywhere' \cup killed'
      BY <1>1, <1>2, <1>4, <2>7 DEF IssuedInv
    <3> QED
      BY <1>1, <2>5, <3>1, <3>2 DEF IssuedInv
  <2> QED
    BY <2>1, <2>6, <2>8 DEF PlaceInv
<1> QED
  BY <1>0, <1>5, <1>6, <1>7 DEF ProcessNewRequest

LEMMA PlaceEnd == ASSUME TypeOK, PlaceInv, EndMessage PROVE PlaceInv'
<1>1. /\ q_in' = q_in /\ killed' = killed /\ running' = running /\ issued' = issued
      /\ exit' = exit /\ shutdown' = shutdown /\ q_out' = <<>>
      /\ delivered' = delivered \o q_out
  BY DEF EndMessage, Pool
<1>2. MessagesInv' /\ GetIds' = GetIds /\ Suspended' = Suspended
  BY MessageEnds DEF EndMessage, PlaceInv
<1>3. /\ IdsOf(delivered') = IdsOf(delivered) \cup IdsOf(q_out)
      /\ IdsOf(q_out') = {} /\ Distinct(q_out') /\ Distinct(delivered')
  BY <1>1, NoIds, IdsConcat DEF TypeOK, PlaceInv, PlacesInv
<1>4. RunIds' = RunIds /\ IssuedIds' = IssuedIds
  BY <1>1 DEF RunIds, IssuedIds
<1>5. PlacesInv'
  BY <1>1, <1>2, <1>3, <1>4 DEF PlaceInv, PlacesInv, AnswerIds
<1>6. Everywhere' = Everywhere
  BY <1>1, <1>2, <1>3, <1>4 DEF Everywhere, AnswerIds
<1>7. IssuedInv'
  BY <1>1, <1>4, <1>6 DEF PlaceInv, IssuedInv
<1> QED
  BY <1>2, <1>5, <1>7 DEF PlaceInv

\* A response is pushed: for the request that runs, or for the GET on top.
LEMMA Replied ==
  ASSUME TypeOK, NEW id \in Ids, NEW o \in {"data", "killed"}, Reply(id, o)
  PROVE  /\ IdsOf(q_out') = IdsOf(q_out) \cup {id}
         /\ Distinct(q_out) /\ id \notin IdsOf(q_out) => Distinct(q_out')
<1>1. [id |-> id, tag |-> o] \in Response
  BY DEF Response
<1> QED
  BY <1>1, IdsAppend DEF Reply, TypeOK

LEMMA QueuedAnswered ==
  ASSUME TypeOK, PlaceInv, running # None, running' = None, UNCHANGED comms,
         NEW o \in {"data", "killed"}, Reply(running.id, o),
         UNCHANGED <<q_in, shutdown, exit, issued, killed, delivered>>
  PROVE  PlaceInv'
<1>1. /\ q_in' = q_in /\ killed' = killed /\ delivered' = delivered /\ issued' = issued
      /\ exit' = exit /\ shutdown' = shutdown
  OBVIOUS
<1>2. MessagesInv' /\ GetIds' = GetIds /\ Suspended' = Suspended
  BY CommsKept DEF PlaceInv
<1>3. RunIds = {running.id} /\ RunIds' = {} /\ IssuedIds' = IssuedIds
  BY <1>1, RunIdsAre DEF IssuedIds
<1>4. /\ IdsOf(q_out') = IdsOf(q_out) \cup {running.id}
      /\ Distinct(q_out) /\ running.id \notin IdsOf(q_out) => Distinct(q_out')
  <2>1. running.id \in Ids
    BY DEF TypeOK, Exec
  <2> QED
    BY <2>1, Replied
<1>5. PlacesInv'
  BY <1>1, <1>2, <1>3, <1>4 DEF PlaceInv, PlacesInv, AnswerIds
<1>6. Everywhere' = Everywhere
  BY <1>1, <1>2, <1>3, <1>4 DEF Everywhere, AnswerIds
<1>7. IssuedInv'
  BY <1>1, <1>3, <1>6 DEF PlaceInv, IssuedInv
<1> QED
  BY <1>2, <1>5, <1>7 DEF PlaceInv

LEMMA GetAnswered ==
  ASSUME TypeOK, PlaceInv, InGetHandler, SetTop([Top EXCEPT !.get = None]),
         NEW o \in {"data", "killed"}, Reply(Top.get, o), UNCHANGED running,
         UNCHANGED <<q_in, shutdown, exit, issued, killed, delivered>>
  PROVE  PlaceInv'
<1>1. /\ q_in' = q_in /\ killed' = killed /\ delivered' = delivered /\ issued' = issued
      /\ exit' = exit /\ shutdown' = shutdown
  OBVIOUS
<1>0. PICK g : g = Top.get
  OBVIOUS
<1>2. MessagesInv' /\ Suspended' = Suspended /\ g \in GetIds /\ GetIds' = GetIds \ {g}
  BY <1>0, GetEnds DEF PlaceInv
<1>3. RunIds' = RunIds /\ IssuedIds' = IssuedIds
  BY <1>1 DEF IssuedIds, RunIds
<1>4. /\ IdsOf(q_out') = IdsOf(q_out) \cup {g}
      /\ Distinct(q_out) /\ g \notin IdsOf(q_out) => Distinct(q_out')
  <2>1. comms \in Seq(Comm) /\ comms # <<>> /\ Top.get # None
    BY DEF TypeOK, Comm, InGetHandler
  <2>2. Top \in Comm
    BY <2>1, CommsOps
  <2>3. g \in Ids
    BY <1>0, <2>1, <2>2 DEF Comm
  <2> QED
    BY <1>0, <2>3, Replied
<1>5. PlacesInv'
  BY <1>1, <1>2, <1>3, <1>4 DEF PlaceInv, PlacesInv, AnswerIds
<1>6. Everywhere' = Everywhere
  BY <1>1, <1>2, <1>3, <1>4 DEF Everywhere, AnswerIds
<1>7. IssuedInv'
  BY <1>1, <1>3, <1>6 DEF PlaceInv, IssuedInv
<1> QED
  BY <1>2, <1>5, <1>7 DEF PlaceInv

LEMMA PlaceRaises == ASSUME TypeOK, PlaceInv, HandlerRaises PROVE PlaceInv'
<1>1. /\ q_in' = q_in /\ killed' = killed /\ issued' = issued /\ comms' = <<>>
      /\ running' = None /\ exit' # "no"
      /\ \/ q_out' = q_out /\ delivered' = delivered
         \/ q_out' = <<>> /\ delivered' = delivered \o q_out
  BY DEF HandlerRaises, Pool
<1>2. MessagesInv' /\ GetIds' = {} /\ Suspended' = {} /\ RunIds' = {}
  BY <1>1, CommsLeft, RunIdsAre
<1>3. /\ IdsOf(delivered') \cup IdsOf(q_out') = AnswerIds
      /\ IdsOf(delivered') \cap IdsOf(q_out') = {}
      /\ Distinct(q_out') /\ Distinct(delivered')
  <2>1. CASE q_out' = q_out /\ delivered' = delivered
    BY <2>1 DEF PlaceInv, PlacesInv, AnswerIds
  <2>2. CASE q_out' = <<>> /\ delivered' = delivered \o q_out
    BY <2>2, NoIds, IdsConcat DEF TypeOK, PlaceInv, PlacesInv, AnswerIds
  <2> QED
    BY <1>1, <2>1, <2>2
<1>4. PlacesInv'
  BY <1>1, <1>2, <1>3 DEF PlaceInv, PlacesInv, AnswerIds
<1>5. Everywhere' \subseteq Everywhere /\ IssuedIds' = IssuedIds
  BY <1>1, <1>2, <1>3 DEF Everywhere, AnswerIds, IssuedIds
<1>6. IssuedInv'
  BY <1>1, <1>5 DEF PlaceInv, IssuedInv
<1> QED
  BY <1>2, <1>4, <1>6 DEF PlaceInv

LEMMA PlaceInit == Init => PlaceInv
<1> SUFFICES ASSUME Init PROVE PlaceInv
  OBVIOUS
<1>1. /\ q_in = <<>> /\ q_out = <<>> /\ delivered = <<>> /\ comms = <<>>
      /\ running = None /\ issued = {}
  BY DEF Init
<1>2. DOMAIN comms = {} /\ DOMAIN q_in = {}
  BY <1>1
<1>3. Suspended = {} /\ GetIds = {} /\ MessagesInv
  BY <1>2 DEF Suspended, GetIds, MessagesInv, Pending
<1>4. /\ IdsOf(q_in) = {} /\ IdsOf(q_out) = {} /\ IdsOf(delivered) = {}
      /\ Distinct(q_in) /\ Distinct(q_out) /\ Distinct(delivered)
  BY <1>1, NoIds
<1>5. RunIds = {} /\ IssuedIds = {}
  BY <1>1, RunIdsAre DEF IssuedIds
<1>6. Everywhere = {}
  BY <1>3, <1>4, <1>5 DEF Everywhere, AnswerIds
<1> QED
  BY <1>2, <1>3, <1>4, <1>5, <1>6 DEF PlaceInv, PlacesInv, IssuedInv

LEMMA PlaceNext == TypeOK /\ PlaceInv /\ [Next]_vars => PlaceInv'
<1> SUFFICES ASSUME TypeOK, PlaceInv, [Next]_vars PROVE PlaceInv'
  OBVIOUS
<1>1. CASE QueuedReturns
  BY <1>1, QueuedAnswered DEF QueuedReturns, InQueuedHandler, Outcome
<1>2. CASE GetReturns
  BY <1>2, GetAnswered DEF GetReturns, Outcome
<1>3. CASE YieldKilled
  <2>1. CASE comms = <<>>
    BY <1>3, <2>1, QueuedAnswered DEF YieldKilled, Yielding
  <2>2. CASE comms # <<>>
    BY <1>3, <2>2, GetAnswered DEF YieldKilled, Yielding, InQueuedHandler
  <2> QED
    BY <2>1, <2>2
<1>4. CASE Leave
  <2>1. /\ q_in' = q_in /\ q_out' = q_out /\ delivered' = delivered /\ killed' = killed
        /\ running' = running /\ issued' = issued /\ comms' = comms /\ exit' # "no"
    BY <1>4 DEF Leave
  <2>2. MessagesInv' /\ Suspended' = Suspended /\ GetIds' = GetIds
    BY <2>1, CommsKept DEF PlaceInv
  <2>3. RunIds' = RunIds /\ AnswerIds' = AnswerIds /\ IssuedIds' = IssuedIds
    BY <2>1 DEF RunIds, AnswerIds, IssuedIds
  <2>4. PlacesInv' /\ Everywhere' = Everywhere
    BY <2>1, <2>2, <2>3 DEF PlaceInv, PlacesInv, Everywhere
  <2>5. IssuedInv'
    BY <2>1, <2>3, <2>4 DEF PlaceInv, IssuedInv
  <2> QED
    BY <2>2, <2>4, <2>5 DEF PlaceInv
<1>5. CASE UNCHANGED vars
  <2>1. /\ q_in' = q_in /\ q_out' = q_out /\ delivered' = delivered /\ killed' = killed
        /\ running' = running /\ issued' = issued /\ comms' = comms /\ exit' = exit
        /\ shutdown' = shutdown
    BY <1>5 DEF vars
  <2>2. MessagesInv' /\ Suspended' = Suspended /\ GetIds' = GetIds
    BY <2>1, CommsKept DEF PlaceInv
  <2>3. RunIds' = RunIds /\ AnswerIds' = AnswerIds /\ IssuedIds' = IssuedIds
    BY <2>1 DEF RunIds, AnswerIds, IssuedIds
  <2>4. PlacesInv' /\ Everywhere' = Everywhere
    BY <2>1, <2>2, <2>3 DEF PlaceInv, PlacesInv, Everywhere
  <2>5. IssuedInv'
    BY <2>1, <2>3, <2>4 DEF PlaceInv, IssuedInv
  <2> QED
    BY <2>2, <2>4, <2>5 DEF PlaceInv
<1> QED
  BY <1>1, <1>2, <1>3, <1>4, <1>5, PlaceStart, PlaceIdle, PlacePoll, PlaceShutdown,
     PlaceKill, PlaceNew, PlaceEnd, PlaceYield, PlaceRaises DEF Next

(* The request is in one place, since no two of the sets of ids meet.       *)
LEMMA OnePlace ==
  ASSUME TypeOK, PlaceInv, NEW id \in Ids
  PROVE  /\ \A p, q \in Places(id) : p = q
         /\ Places(id) = {} => id \notin Everywhere
<1> DEFINE inMessage(c, i) == /\ i \in DOMAIN comms[c].rest
                              /\ comms[c].rest[i].tag = "request"
                              /\ comms[c].rest[i].id = id
           M == {<<"message", p>> : p \in {p \in (DOMAIN comms) \X (1..MaxRequests) :
                                             inMessage(p[1], p[2])}}
           G == {<<"get", c>> : c \in {c \in DOMAIN comms : comms[c].get = id}}
           Q == {<<"queue", k>> : k \in {k \in DOMAIN q_in : q_in[k].id = id}}
           R == {<<"running", r.id>> : r \in {r \in {running} \ {None} : r.id = id}}
           O == {<<"out", k>> : k \in {k \in DOMAIN q_out : q_out[k].id = id}}
           D == {<<"delivered", k>> : k \in {k \in DOMAIN delivered :
                                               delivered[k].id = id}}
<1>1. Places(id) = M \cup G \cup Q \cup R \cup O \cup D
  BY DEF Places
<1>2. /\ \A p, q \in M : p = q
      /\ M # {} => id \in Suspended
      /\ id \in Suspended => M # {}
  <2>1. ASSUME NEW c, NEW i, Pending(c, i), comms[c].rest[i].id = id
        PROVE  <<"message", <<c, i>>>> \in M
    <3>1. comms[c] \in Comm
      <4>1. comms \in Seq(Comm)
        BY DEF TypeOK, Comm
      <4>2. c \in 1..Len(comms)
        BY <2>1, <4>1, LenProperties DEF Pending
      <4> QED
        BY <4>1, <4>2, ElementOfSeq
    <3>2. comms[c].rest \in Seq(Request) /\ Len(comms[c].rest) <= MaxRequests
      BY <2>1, <3>1 DEF Comm, PlaceInv, MessagesInv, Pending
    <3>3. i \in 1..MaxRequests
      <4>1. i \in 1..Len(comms[c].rest) /\ Len(comms[c].rest) \in Nat
        BY <2>1, <3>2, LenProperties DEF Pending
      <4> QED
        BY <3>2, <4>1, ServerAssumption DEF ServerAssumption
    <3>4. <<c, i>> \in (DOMAIN comms) \X (1..MaxRequests)
      BY <2>1, <3>3 DEF Pending
    <3>5. inMessage(<<c, i>>[1], <<c, i>>[2])
      BY <2>1 DEF Pending
    <3> QED
      BY <3>4, <3>5
  <2>2. ASSUME NEW p \in M
        PROVE  \E c, i : /\ p = <<"message", <<c, i>>>> /\ Pending(c, i)
                         /\ comms[c].rest[i].id = id
    <3>1. PICK c \in DOMAIN comms, i \in 1..MaxRequests :
            p = <<"message", <<c, i>>>> /\ inMessage(c, i)
      OBVIOUS
    <3> QED
      BY <3>1 DEF Pending
  <2> HIDE DEF M
  <2>3. ASSUME NEW p \in M, NEW q \in M PROVE p = q
    <3>1. PICK c, i : /\ p = <<"message", <<c, i>>>> /\ Pending(c, i)
                      /\ comms[c].rest[i].id = id
      BY <2>2
    <3>2. PICK d, j : /\ q = <<"message", <<d, j>>>> /\ Pending(d, j)
                      /\ comms[d].rest[j].id = id
      BY <2>2
    <3>3. c = d /\ i = j
      BY <3>1, <3>2 DEF PlaceInv, MessagesInv
    <3> QED
      BY <3>1, <3>2, <3>3
  <2>4. M # {} => id \in Suspended
    BY <2>2, SuspendedAre
  <2>5. id \in Suspended => M # {}
    BY <2>1, SuspendedAre
  <2> QED
    BY <2>3, <2>4, <2>5
<1>3. (\A p, q \in G : p = q) /\ (G # {} <=> id \in GetIds)
  <2>1. id # None
    BY ServerAssumption DEF ServerAssumption
  <2>2. \A c, d \in DOMAIN comms : comms[c].get = id /\ comms[d].get = id => c = d
    BY <2>1 DEF PlaceInv, MessagesInv
  <2> QED
    BY <2>1, <2>2 DEF GetIds
<1>4. (\A p, q \in Q : p = q) /\ (Q # {} <=> id \in IdsOf(q_in))
  <2>1. \A k, l \in DOMAIN q_in : q_in[k].id = id /\ q_in[l].id = id => k = l
    BY DEF PlaceInv, PlacesInv, Distinct
  <2>2. \A p, q \in Q : p = q
    BY <2>1
  <2>3. Q # {} <=> id \in IdsOf(q_in)
    BY DEF IdsOf
  <2> QED
    BY <2>2, <2>3
<1>5. (\A p, q \in R : p = q) /\ (R # {} <=> id \in RunIds)
  BY DEF RunIds
<1>6. (\A p, q \in O : p = q) /\ (O # {} <=> id \in IdsOf(q_out))
  <2>1. \A k, l \in DOMAIN q_out : q_out[k].id = id /\ q_out[l].id = id => k = l
    BY DEF PlaceInv, PlacesInv, Distinct
  <2>2. \A p, q \in O : p = q
    BY <2>1
  <2>3. O # {} <=> id \in IdsOf(q_out)
    BY DEF IdsOf
  <2> QED
    BY <2>2, <2>3
<1>7. (\A p, q \in D : p = q) /\ (D # {} <=> id \in IdsOf(delivered))
  <2>1. \A k, l \in DOMAIN delivered : delivered[k].id = id /\ delivered[l].id = id => k = l
    BY DEF PlaceInv, PlacesInv, Distinct
  <2>2. \A p, q \in D : p = q
    BY <2>1
  <2>3. D # {} <=> id \in IdsOf(delivered)
    BY DEF IdsOf
  <2> QED
    BY <2>2, <2>3
<1> HIDE DEF M, G, Q, R, O, D
<1>8. Places(id) = {} => id \notin Everywhere
  BY <1>1, <1>2, <1>3, <1>4, <1>5, <1>6, <1>7 DEF Everywhere, AnswerIds
<1>9. \/ G = {} /\ Q = {} /\ R = {} /\ O = {} /\ D = {}
      \/ M = {} /\ Q = {} /\ R = {} /\ O = {} /\ D = {}
      \/ M = {} /\ G = {} /\ R = {} /\ O = {} /\ D = {}
      \/ M = {} /\ G = {} /\ Q = {} /\ O = {} /\ D = {}
      \/ M = {} /\ G = {} /\ Q = {} /\ R = {} /\ D = {}
      \/ M = {} /\ G = {} /\ Q = {} /\ R = {} /\ O = {}
  <2>1. /\ id \in Suspended => id \notin GetIds \cup IdsOf(q_in) \cup RunIds \cup AnswerIds
        /\ id \in GetIds => id \notin IdsOf(q_in) \cup RunIds \cup AnswerIds
        /\ id \in IdsOf(q_in) => id \notin RunIds \cup AnswerIds
        /\ id \in RunIds => id \notin AnswerIds
        /\ id \in IdsOf(q_out) => id \notin IdsOf(delivered)
    BY DEF PlaceInv, PlacesInv
  <2> QED
    BY <1>2, <1>3, <1>4, <1>5, <1>6, <1>7, <2>1 DEF AnswerIds
<1>10. \A p, q \in Places(id) : p = q
  BY <1>1, <1>2, <1>3, <1>4, <1>5, <1>6, <1>7, <1>9
<1> QED
  BY <1>8, <1>10

(* A request is never duplicated nor answered twice, and it is lost only if *)
(* it was killed while it was queued, or by a Shutdown or an interruption   *)
(* (process_request, process and communicate of main.ml).                   *)
THEOREM RequestsAreKept == Spec => []NoRequestLost
<1>1. TypeOK /\ PlaceInv => NoRequestLost
  <2> SUFFICES ASSUME TypeOK, PlaceInv, NEW id \in IssuedIds
               PROVE  /\ \A p, q \in Places(id) : p = q
                      /\ exit = "no" /\ ~shutdown /\ Places(id) = {} => id \in killed
    BY DEF NoRequestLost
  <2>1. id \in Ids
    BY DEF IssuedIds, TypeOK
  <2>2. exit = "no" /\ ~shutdown /\ Places(id) = {} => id \in killed
    BY <2>1, OnePlace DEF PlaceInv, IssuedInv
  <2> QED
    BY <2>1, <2>2, OnePlace
<1> QED
  BY <1>1, TypeCorrect, PlaceInit, PlaceNext, PTL DEF Spec

=============================================================================
