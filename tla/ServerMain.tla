----------------------------- MODULE ServerMain -----------------------------
(***************************************************************************)
(* The request loop of the Server plug-in, src/src/plugins/server/main.ml. *)
(*                                                                         *)
(* The program is one thread.  It interleaves with its client only through *)
(* `fetch' and `callback', but a fetch may happen in the middle of a       *)
(* running EXEC request, whenever the analysis calls Db.progress: the      *)
(* server then processes a message on top of the suspended request.        *)
(*                                                                         *)
(* The OCaml call stack is `running' (the request being executed by        *)
(* `process', at the bottom) with `comms' above it: one entry per          *)
(* `communicate' in progress, innermost last.  An entry holds the requests *)
(* of the message still to process and the GET request whose handler is    *)
(* being executed, if any.                                                 *)
(***************************************************************************)
EXTENDS Naturals, Sequences, FiniteSets

CONSTANTS
  Ids,          \* request identifiers; the client uses each at most once
  None,         \* no request
  MaxRequests,  \* bound: requests in one message
  Rate          \* -server-rate, clamped to 1..200 by `run'

ASSUME ServerAssumption ==
  /\ None \notin Ids
  /\ MaxRequests \in Nat
  /\ Rate \in 1..200

VARIABLES
  q_in,       \* server.q_in: queued SET and EXEC requests
  q_out,      \* server.q_out: the stack of responses, top last
  shutdown,   \* server.shutdown
  coins,      \* server.coins
  running,    \* server.running
  comms,      \* the `communicate' calls in progress
  exit,       \* how `run' ended, "no" while it has not
  issued,     \* history: the <<id, kind>> sent by the client
  precedes,   \* history: <<a, b>> such that process_request saw a, or saw a in
              \* the message of b, before b was fetched
  killed,     \* history: the requests killed while they were in q_in
  delivered   \* history: the responses handed to callbacks, in order

vars == <<q_in, q_out, shutdown, coins, running, comms, exit, issued, precedes,
          killed, delivered>>

-----------------------------------------------------------------------------
(* Requests, responses and messages.                                       *)

Queued == {"SET", "EXEC"}

\* "none" is the kind of a request that is not in the registry.
Kind == {"GET", "none"} \cup Queued

Request ==
  [tag : {"poll", "shutdown"}]
    \cup [tag : {"kill"}, id : Ids]
    \cup [tag : {"request"}, id : Ids, kind : Kind]

Exec == [id : Ids, kind : Queued, killed : BOOLEAN]

\* `None' is not a request that runs either.
ASSUME NoneIsNoExec == None \notin Exec

Response == [id : Ids, tag : {"data", "killed", "rejected"}]

Message == UNION {[1..n -> Request] : n \in 0..MaxRequests}

\* The requests of a message that the client has just made.
NewRequests(m) == {i \in DOMAIN m : m[i].tag = "request"}

IssuedIds == {r[1] : r \in issued}

\* The client numbers its requests: every id is used once.
Fresh(m) ==
  /\ \A i \in NewRequests(m) : m[i].id \notin IssuedIds
  /\ \A i, j \in NewRequests(m) : m[i].id = m[j].id => i = j

-----------------------------------------------------------------------------
(* Where the thread is.                                                    *)

Top == comms[Len(comms)]

AtLoop == exit = "no" /\ running = None /\ comms = <<>>

InQueuedHandler == exit = "no" /\ running # None /\ comms = <<>>

InMessage == exit = "no" /\ comms # <<>> /\ Top.get = None

InGetHandler == exit = "no" /\ comms # <<>> /\ Top.get # None

Reply(id, tag) == q_out' = Append(q_out, [id |-> id, tag |-> tag])

SetTop(c) == comms' = [comms EXCEPT ![Len(comms)] = c]

PopComm == comms' = SubSeq(comms, 1, Len(comms) - 1)

-----------------------------------------------------------------------------
Init ==
  /\ q_in = <<>>
  /\ q_out = <<>>
  /\ shutdown = FALSE
  /\ coins = 0
  /\ running = None
  /\ comms = <<>>
  /\ exit = "no"
  /\ issued = {}
  /\ precedes = {}
  /\ killed = {}
  /\ delivered = <<>>

\* The requests that wait in the rest of a message, for a GET handler to return.
Suspended ==
  UNION {{comms[c].rest[i].id : i \in NewRequests(comms[c].rest)} : c \in DOMAIN comms}

\* `communicate' after a successful fetch: the message is about to be
\* processed, one request after the other.
Fetched(m) ==
  /\ Fresh(m)
  /\ comms' = Append(comms, [rest |-> m, get |-> None])
  /\ LET new == NewRequests(m)
         seen == IssuedIds \ Suspended
     IN  /\ issued' = issued \cup {<<m[i].id, m[i].kind>> : i \in new}
         /\ precedes' = precedes
              \cup {<<id, m[i].id>> : id \in seen, i \in new}
              \cup {<<m[p[1]].id, m[p[2]].id>> :
                      p \in {p \in new \X new : p[1] < p[2]}}

\* Mutant: the queue is a stack, the killed requests are still skipped.
LastLive(k) == ~q_in[k].killed /\ \A j \in (k + 1)..Len(q_in) : q_in[j].killed

\* fetch_exec returns the first request of the queue that was not killed.
FirstLive(k) == ~q_in[k].killed /\ \A j \in 1..(k - 1) : q_in[j].killed

\* `process', when fetch_exec finds a request that was not killed; the killed
\* ones before it are dropped, without a response.
StartExec ==
  /\ AtLoop
  /\ ~shutdown
  /\ \E k \in 1..Len(q_in) :
       /\ FirstLive(k)
       /\ running' = q_in[k]
       /\ q_in' = SubSeq(q_in, k + 1, Len(q_in))
  /\ UNCHANGED <<q_out, shutdown, coins, comms, exit, issued, precedes,
                 killed, delivered>>

\* `process', when every queued request was killed (or there is none): the
\* queue is now empty and the server communicates.  If there is no message
\* (fetch returns None), it sleeps and loops: a step that only empties q_in.
IdleCommunicate ==
  /\ AtLoop
  /\ ~shutdown
  /\ \A k \in 1..Len(q_in) : q_in[k].killed
  /\ q_in' = <<>>
  /\ \/ \E m \in Message : Fetched(m)
     \/ UNCHANGED <<comms, issued, precedes>>
  /\ UNCHANGED <<q_out, shutdown, coins, running, exit, killed, delivered>>

\* One request of the current message, `process_request'.
ProcessPoll ==
  /\ InMessage
  /\ Top.rest # <<>>
  /\ Head(Top.rest).tag = "poll"
  /\ SetTop([Top EXCEPT !.rest = Tail(@)])
  /\ UNCHANGED <<q_in, q_out, shutdown, coins, running, exit, issued, precedes,
                 killed, delivered>>

\* Mutant: a Shutdown clears the queue and leaves the running EXEC alone.
ShutdownQueueOnly ==
  /\ InMessage
  /\ Top.rest # <<>>
  /\ Head(Top.rest).tag = "shutdown"
  /\ SetTop([Top EXCEPT !.rest = Tail(@)])
  /\ q_in' = <<>>
  /\ q_out' = <<>>
  /\ shutdown' = TRUE
  /\ UNCHANGED <<running, coins, exit, issued, precedes, killed, delivered>>

ProcessShutdown ==
  /\ InMessage
  /\ Top.rest # <<>>
  /\ Head(Top.rest).tag = "shutdown"
  /\ SetTop([Top EXCEPT !.rest = Tail(@)])
  /\ running' = IF running = None THEN None
                                  ELSE [running EXCEPT !.killed = TRUE]
  /\ q_in' = <<>>
  /\ q_out' = <<>>
  /\ shutdown' = TRUE
  /\ UNCHANGED <<coins, exit, issued, precedes, killed, delivered>>

\* kill_request: the flag is set on every pending request with that id.
KillRequest(id, e) == IF e.id = id THEN [e EXCEPT !.killed = TRUE] ELSE e

ProcessKill ==
  /\ InMessage
  /\ Top.rest # <<>>
  /\ Head(Top.rest).tag = "kill"
  /\ SetTop([Top EXCEPT !.rest = Tail(@)])
  /\ LET id == Head(Top.rest).id
     IN  /\ q_in' = [k \in DOMAIN q_in |-> KillRequest(id, q_in[k])]
         /\ running' = IF running = None THEN None
                                         ELSE KillRequest(id, running)
         /\ killed' = killed \cup
               {q_in[k].id : k \in {k \in DOMAIN q_in : q_in[k].id = id}}
  /\ UNCHANGED <<q_out, shutdown, coins, exit, issued, precedes, delivered>>

\* A request for which `find' returns None is rejected at once, a GET is
\* executed at once, on top of whatever is running, a SET or an EXEC is queued.
ProcessNewRequest ==
  /\ InMessage
  /\ Top.rest # <<>>
  /\ Head(Top.rest).tag = "request"
  /\ LET r == Head(Top.rest)
     IN  \/ /\ r.kind = "none"
            /\ Reply(r.id, "rejected")
            /\ SetTop([Top EXCEPT !.rest = Tail(@)])
            /\ UNCHANGED q_in
         \/ /\ r.kind = "GET"
            /\ SetTop([rest |-> Tail(Top.rest), get |-> r.id])
            /\ UNCHANGED <<q_in, q_out>>
         \/ /\ r.kind \in Queued
            /\ q_in' = Append(q_in, [id |-> r.id, kind |-> r.kind,
                                     killed |-> FALSE])
            /\ SetTop([Top EXCEPT !.rest = Tail(@)])
            /\ UNCHANGED q_out
  /\ UNCHANGED <<shutdown, coins, running, exit, issued, precedes, killed,
                 delivered>>

\* Mutant: the stack is copied to the pool top first.
PoolTopFirst(q) == [i \in DOMAIN q |-> q[Len(q) + 1 - i]]

\* The pool of a message: Stack.iter goes from the top of q_out down and conses,
\* so that the pool is in the order in which the responses were pushed.
Pool(q) == q

\* Mutant: the top of the stack of responses is left for the next message.
EndWithoutTop ==
  /\ InMessage
  /\ Top.rest = <<>>
  /\ IF q_out = <<>> THEN UNCHANGED <<delivered, q_out>>
     ELSE /\ delivered' = delivered \o SubSeq(q_out, 1, Len(q_out) - 1)
          /\ q_out' = <<q_out[Len(q_out)]>>
  /\ PopComm
  /\ UNCHANGED <<q_in, shutdown, coins, running, exit, issued, precedes,
                 killed>>

\* The end of `communicate': all the responses go to the callback, in the
\* order in which they were pushed.
EndMessage ==
  /\ InMessage
  /\ Top.rest = <<>>
  /\ delivered' = delivered \o Pool(q_out)
  /\ q_out' = <<>>
  /\ PopComm
  /\ UNCHANGED <<q_in, shutdown, coins, running, exit, issued, precedes,
                 killed>>

\* `execute': a handler returns, or raises InputError or another exception that
\* is caught (`Data and `Error, here one tag "data"), or raises Killed itself
\* through Main.kill (`Killed).
Outcome == {"data", "killed"}

QueuedReturns ==
  /\ InQueuedHandler
  /\ \E o \in Outcome : Reply(running.id, o)
  /\ running' = None
  /\ UNCHANGED <<q_in, shutdown, coins, comms, exit, issued, precedes,
                 killed, delivered>>

GetReturns ==
  /\ InGetHandler
  /\ \E o \in Outcome : Reply(Top.get, o)
  /\ SetTop([Top EXCEPT !.get = None])
  /\ UNCHANGED <<q_in, shutdown, coins, running, exit, issued, precedes,
                 killed, delivered>>

\* The handler on top calls Db.progress.  It is `do_yield' while an EXEC is
\* running, for that EXEC and for the GET handlers above it alike.
Yielding ==
  /\ InQueuedHandler \/ InGetHandler
  /\ running # None
  /\ running.kind = "EXEC"

\* The test of raise_if_killed on server.running.
RaiseIfKilled == running.killed

\* Mutant: the comparison with the rate is not strict.
CoinsUpToRate == coins <= Rate

\* do_yield only counts its calls, up to the rate.
CoinsLeft == coins < Rate

DoYield ==
  /\ Yielding
  /\ ~RaiseIfKilled
  /\ \/ /\ CoinsLeft
        /\ coins' = coins + 1
        /\ UNCHANGED <<comms, issued, precedes>>
     \/ /\ ~CoinsLeft
        /\ coins' = 0
        /\ \/ \E m \in Message : Fetched(m)
           \/ UNCHANGED <<comms, issued, precedes>>
  /\ UNCHANGED <<q_in, q_out, shutdown, running, exit, killed, delivered>>

\* `do_yield' in a killed EXEC: raise_if_killed raises Killed, which `execute'
\* turns into the response of the handler on top.
YieldKilled ==
  /\ Yielding
  /\ RaiseIfKilled
  /\ IF comms = <<>>
     THEN Reply(running.id, "killed") /\ running' = None /\ UNCHANGED comms
     ELSE /\ Reply(Top.get, "killed")
          /\ SetTop([Top EXCEPT !.get = None])
          /\ UNCHANGED running
  /\ UNCHANGED <<q_in, shutdown, coins, exit, issued, precedes, killed,
                 delivered>>

\* Mutant: the exception goes through `communicate' before the callback.
RaisesUnanswered ==
  /\ InQueuedHandler \/ InGetHandler
  /\ exit' \in {"break", "fatal"}
  /\ IF comms = <<>>
     THEN UNCHANGED <<q_out, delivered>>
     ELSE q_out' = <<>> /\ UNCHANGED delivered
  /\ comms' = <<>>
  /\ running' = None
  /\ UNCHANGED <<q_in, shutdown, coins, issued, precedes, killed>>

\* A handler is interrupted (Sys.Break), or raises an exception that is not
\* caught at toplevel (debug mode).  Every `communicate' in progress answers
\* its message before it lets the exception through; the first one to do so,
\* the innermost, takes all the responses.
HandlerRaises ==
  /\ InQueuedHandler \/ InGetHandler
  /\ exit' \in {"break", "fatal"}
  /\ IF comms = <<>>
     THEN UNCHANGED <<q_out, delivered>>
     ELSE delivered' = delivered \o Pool(q_out) /\ q_out' = <<>>
  /\ comms' = <<>>
  /\ running' = None
  /\ UNCHANGED <<q_in, shutdown, coins, issued, precedes, killed>>

\* `run' leaves its loop, because of a Shutdown or of a Ctrl-C while idle.
Leave ==
  /\ AtLoop
  /\ exit' \in IF shutdown THEN {"shutdown"} ELSE {"break"}
  /\ UNCHANGED <<q_in, q_out, shutdown, coins, running, comms, issued,
                 precedes, killed, delivered>>

Next ==
  \/ StartExec
  \/ IdleCommunicate
  \/ ProcessPoll
  \/ ProcessShutdown
  \/ ProcessKill
  \/ ProcessNewRequest
  \/ EndMessage
  \/ QueuedReturns
  \/ GetReturns
  \/ DoYield
  \/ YieldKilled
  \/ HandlerRaises
  \/ Leave

Spec == Init /\ [][Next]_vars

-----------------------------------------------------------------------------
(* Safety.                                                                 *)

TypeOK ==
  /\ q_in \in Seq(Exec)
  /\ q_out \in Seq(Response)
  /\ shutdown \in BOOLEAN
  /\ coins \in 0..Rate
  /\ running \in Exec \cup {None}
  /\ comms \in Seq([rest : Seq(Request), get : Ids \cup {None}])
  /\ exit \in {"no", "shutdown", "break", "fatal"}
  /\ issued \subseteq Ids \X Kind
  /\ precedes \subseteq Ids \X Ids
  /\ killed \subseteq Ids
  /\ delivered \in Seq(Response)

\* The places of a request: its occurrences in a message being processed, in a
\* GET handler, in q_in, in `running', in q_out and in the delivered answers.
Places(id) ==
  LET inMessage(c, i) == /\ i \in DOMAIN comms[c].rest
                         /\ comms[c].rest[i].tag = "request"
                         /\ comms[c].rest[i].id = id
  IN  {<<"message", p>> : p \in {p \in (DOMAIN comms) \X (1..MaxRequests) :
                                   inMessage(p[1], p[2])}}
        \cup {<<"get", c>> : c \in {c \in DOMAIN comms : comms[c].get = id}}
        \cup {<<"queue", k>> : k \in {k \in DOMAIN q_in : q_in[k].id = id}}
        \cup {<<"running", r.id>> : r \in {r \in {running} \ {None} : r.id = id}}
        \cup {<<"out", k>> : k \in {k \in DOMAIN q_out : q_out[k].id = id}}
        \cup {<<"delivered", k>> : k \in {k \in DOMAIN delivered :
                                            delivered[k].id = id}}

\* A request is never duplicated or answered twice, whatever the nesting of
\* messages, handlers and kills (main.ml, process_request and process); and
\* until a Shutdown or an interruption it is lost only if it was killed while
\* it was still waiting in the queue: fetch_exec drops those.
NoRequestLost ==
  \A id \in IssuedIds :
    /\ \A p, q \in Places(id) : p = q
    /\ (exit = "no" /\ ~shutdown /\ Places(id) = {}) => id \in killed

\* The SET and EXEC requests are answered in the order in which the client sent
\* them: q_in is first in first out, one request runs at a time and the stack
\* q_out is reversed before it goes to the callback.  The exception is a request
\* that was still in the rest of a message when a GET handler of that message
\* yielded: the requests fetched meanwhile overtake it.
ResponsesInOrder ==
  LET queued == {r[1] : r \in {r \in issued : r[2] \in Queued}}
  IN  \A i, j \in DOMAIN delivered :
        i < j /\ {delivered[i].id, delivered[j].id} \subseteq queued
          => <<delivered[j].id, delivered[i].id>> \notin precedes

\* s is a prefix of t.
Kept(s, t) == \A i \in DOMAIN s : i \in DOMAIN t /\ t[i] = s[i]

\* Until a Shutdown, an answer that was made is never dropped, overtaken or given
\* twice: it waits in q_out for the end of a message.  When the outermost message
\* ends, q_out is empty.  Both hold as well when a handler raises in nested
\* messages: `communicate' catches the exception, answers and raises it again.
AnswersKept ==
  [][~shutdown' =>
       /\ Kept(delivered \o q_out, delivered' \o q_out')
       /\ comms # <<>> /\ comms' = <<>> => q_out' = <<>>]_vars

-----------------------------------------------------------------------------
(* Liveness.  The loop and the processing of a message are OCaml code that *)
(* always goes on.  A handler always goes on too, but an analysis may never *)
(* return: all that is assumed is that it returns or calls Db.progress.     *)

MessageStep == \/ ProcessPoll
               \/ ProcessShutdown
               \/ ProcessKill
               \/ ProcessNewRequest
               \/ EndMessage

HandlerStep == QueuedReturns \/ GetReturns \/ DoYield \/ YieldKilled

Fairness ==
  /\ WF_vars(StartExec)
  /\ WF_vars(MessageStep)
  /\ WF_vars(HandlerStep)
  /\ WF_vars(Leave /\ shutdown)

FairSpec == Spec /\ Fairness

\* A Shutdown stops the server, even one that arrives during an EXEC that never
\* returns: it is killed, and its next yield raises (main.ml, process_request
\* and do_yield).
ShutdownStops == shutdown ~> exit # "no"

\* The client polls the idle server.
PollIdle ==
  /\ IdleCommunicate
  /\ comms' = <<[rest |-> <<[tag |-> "poll"]>>, get |-> None]>>

\* Handlers return, even when messages keep interrupting them, and the client
\* keeps polling.
HandlersReturn ==
  /\ SF_vars(QueuedReturns)
  /\ SF_vars(GetReturns)
  /\ SF_vars(PollIdle)

\* Every request is eventually answered, unless it was killed in the queue or
\* the server was stopped: no order of messages, yields and kills starves one,
\* if handlers return and the client polls.
EventuallyAnswered ==
  HandlersReturn =>
    \A id \in Ids :
      id \in IssuedIds ~> \/ \E k \in DOMAIN delivered : delivered[k].id = id
                          \/ id \in killed
                          \/ shutdown
                          \/ exit # "no"

-----------------------------------------------------------------------------
(* Model checking of ServerMain.  The server only compares ids, so that    *)
(* which id the client takes for a request is immaterial: here it numbers  *)
(* its requests in one order, the liveness properties ruling out symmetry. *)

Order == CHOOSE o \in [1..Cardinality(Ids) -> Ids] :
           \A i, j \in DOMAIN o : o[i] = o[j] => i = j

\* The requests of a message that has just been fetched take the next ids.
Numbered ==
  issued' # issued =>
    LET used == Cardinality(IssuedIds)
        new == SelectSeq(comms'[Len(comms')].rest, LAMBDA r : r.tag = "request")
    IN  \A i \in DOMAIN new : new[i].id = Order[used + i]

=============================================================================
