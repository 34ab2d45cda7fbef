-------------------------- MODULE FulcrumTransport --------------------------
(***************************************************************************)
(* The pooled, pipelined Electrum transport of packages/chain-io           *)
(* (src/packages/chain-io/src/index.ts): one socket per endpoint shared by *)
(* every request, answers matched by request id, one redial of a stale     *)
(* socket, and the loop that tries the configured endpoints in order.      *)
(*                                                                         *)
(* A call is one requestFromAnyEndpointV0 promise.  The host is the Node   *)
(* event loop: socket events and timers are macrotasks, the continuations  *)
(* of settled promises are microtasks that run before the next macrotask   *)
(* (Quiescent), and "error"/"close" events are emitted from nextTick, which*)
(* may precede the continuations.                                          *)
(***************************************************************************)
EXTENDS Naturals, Sequences

CONSTANTS Call,        \* the provider calls, each issued once
          Broadcast,   \* those whose method is blockchain.transaction.broadcast
          Key,         \* endpoint keys transport://host:port
          Endpoints,   \* the configured endpoints of the provider, in order
          Conn,        \* identities of socket objects (recycled once unreachable)
          NoConn

ASSUME CallAssumption == Broadcast \subseteq Call
ASSUME EndpointAssumption == Endpoints \in Seq(Key) /\ Endpoints # << >>
ASSUME ConnAssumption == NoConn \notin Conn

VARIABLES call,            \* per call: where its promise chain stands
          conn,            \* per socket object: FulcrumConnectionV0
          pool,            \* the connections map
          requestCounter,  \* the last request id handed out
          answer,          \* per call: the answer line its promise resolved with
          writes           \* history: requests put on the wire per call and endpoint

vars == <<call, conn, pool, requestCounter, answer, writes>>

Slot == DOMAIN Endpoints

\* A request on the wire: its id, and the question it asks.  The peer answers
\* an id with the question that carried it.
Request == [id : Nat, call : Call, slot : Slot]

\* "failed": attemptV0 rejected, the retry wrapper has not resumed yet.
\* "thrown": the wrapper rethrew, the endpoint loop has not resumed yet.
Phase == {"idle", "awaiting", "sent", "failed", "thrown", "returned", "threw"}

CallState == [phase : Phase, slot : Slot, attempt : {1, 2},
              link : Conn \cup {NoConn}, reused : BOOLEAN,
              retryable : BOOLEAN, request : Nat]

ConnState == [key : Key, ready : {"pending", "resolved", "rejected"},
              closed : BOOLEAN, pending : SUBSET Request,
              wire : SUBSET Request, refd : BOOLEAN, idleTimer : BOOLEAN]

TypeOK ==
    /\ call \in [Call -> CallState]
    /\ conn \in [Conn -> ConnState]
    /\ pool \in [Key -> Conn \cup {NoConn}]
    /\ requestCounter \in Nat
    /\ answer \in [Call -> SUBSET Request]
    /\ writes \in [Call -> [Slot -> Nat]]

Init ==
    /\ call = [c \in Call |-> [phase |-> "idle", slot |-> 1, attempt |-> 1,
                               link |-> NoConn, reused |-> FALSE,
                               retryable |-> FALSE, request |-> 0]]
    /\ conn = [k \in Conn |-> [key |-> Endpoints[1], ready |-> "rejected",
                               closed |-> TRUE, pending |-> {}, wire |-> {},
                               refd |-> FALSE, idleTimer |-> FALSE]]
    /\ pool = [e \in Key |-> NoConn]
    /\ requestCounter = 0
    /\ answer = [c \in Call |-> {}]
    /\ writes = [c \in Call |-> [s \in Slot |-> 0]]

-----------------------------------------------------------------------------
(* Connections *)

\* openFulcrumConnectionV0: a dialling socket holds the host process open.
Dialling(e) == [key |-> e, ready |-> "pending", closed |-> FALSE, pending |-> {},
                wire |-> {}, refd |-> TRUE, idleTimer |-> FALSE]

\* A mutated form: the idle branch forgets to unref the socket.
NoteActivityKeepsRef(x) ==
    IF x.closed THEN x
    ELSE [x EXCEPT !.idleTimer = (x.pending = {}), !.refd = @ \/ x.pending # {}]

\* noteFulcrumConnectionActivityV0: a live socket holds the host process open
\* while it carries requests; an idle one is let go and gets the idle timer.
NoteActivity(x) ==
    IF x.closed THEN x
    ELSE [x EXCEPT !.idleTimer = (x.pending = {}), !.refd = (x.pending # {})]

\* teardown: flags, timers, listeners (nothing more is read from the wire).
Teardown(x) == [x EXCEPT !.closed = TRUE, !.pending = {}, !.wire = {},
                         !.refd = FALSE, !.idleTimer = FALSE]

\* failReady: a promise that already resolved stays resolved.
FailReady(x) == [x EXCEPT !.ready = IF @ = "pending" THEN "rejected" ELSE @]

\* A mutated form: the closed connection stays in the map.
ReleaseForgotten(k) == pool' = pool

\* release: only the map entry that still is this connection is dropped.
Release(k) ==
    pool' = [pool EXCEPT ![conn[k].key] = IF @ = k THEN NoConn ELSE @]

\* The settled flag of the request's closure is still down, for call c.
Owed(p, c) == p.call = c /\ call[c].phase = "sent" /\ call[c].request = p.id

\* attemptV0 is over: its local bindings go out of scope.
Rejected(r, retryable) ==
    [r EXCEPT !.phase = "failed", !.link = NoConn, !.reused = FALSE,
              !.retryable = retryable]

Resolved(r) == [r EXCEPT !.phase = "returned", !.link = NoConn, !.reused = FALSE]

\* failConnection: the dial and every request riding on the socket fail with it.
FailConnection(k, retryable) ==
    /\ ~conn[k].closed
    /\ conn' = [conn EXCEPT ![k] = FailReady(Teardown(@))]
    /\ Release(k)
    /\ call' = [c \in Call |->
                  IF \E p \in conn[k].pending : Owed(p, c)
                  THEN Rejected(call[c], retryable) ELSE call[c]]
    /\ UNCHANGED <<requestCounter, answer, writes>>

-----------------------------------------------------------------------------
(* Attempts: acquire, await ready, write *)

\* Attempt n at endpoint s waits for the ready promise of socket k.
Attempting(r, s, n, k, reused) ==
    [phase |-> "awaiting", slot |-> s, attempt |-> n, link |-> k,
     reused |-> reused, retryable |-> FALSE, request |-> r.request]

\* A mutated form: a socket still dialling is not shared.
PooledReadyOnly(e) ==
    pool[e] # NoConn /\ ~conn[pool[e]].closed /\ conn[pool[e]].ready = "resolved"

Pooled(e) == pool[e] # NoConn /\ ~conn[pool[e]].closed

\* acquire for the attempt number n of call c at endpoint s: the pooled socket
\* if it is not closed, a new one otherwise.
Reuse(c, s, n) ==
    LET k == pool[Endpoints[s]] IN
    /\ Pooled(Endpoints[s])
    /\ call' = [call EXCEPT ![c] = Attempting(@, s, n, k, TRUE)]
    /\ UNCHANGED <<conn, pool>>

\* No promise chain refers to k any more: its identity can be used again.
Unreachable(k, c) ==
    /\ conn[k].closed
    /\ \A d \in Call \ {c} : call[d].phase = "awaiting" => call[d].link # k

Dial(c, s, n) ==
    LET e == Endpoints[s] IN
    /\ ~Pooled(e)
    /\ \E k \in Conn :
        /\ Unreachable(k, c)
        /\ conn' = [conn EXCEPT ![k] = Dialling(e)]
        /\ pool' = [pool EXCEPT ![e] = k]
        /\ call' = [call EXCEPT ![c] = Attempting(@, s, n, k, FALSE)]

Attempt(c, s, n) ==
    /\ Reuse(c, s, n) \/ Dial(c, s, n)
    /\ UNCHANGED <<requestCounter, answer, writes>>

\* requestFromAnyEndpointV0 called by a lookup or a submission.
Start(c) == call[c].phase = "idle" /\ Attempt(c, 1, 1)

\* await connection.ready has rejected: every failure that precedes the
\* connect event is raised retryable.
DialFailed(c) ==
    /\ call[c].phase = "awaiting"
    /\ conn[call[c].link].ready = "rejected"
    /\ call' = [call EXCEPT ![c] = Rejected(@, TRUE)]
    /\ UNCHANGED <<conn, pool, requestCounter, answer, writes>>

Writable(c) ==
    /\ call[c].phase = "awaiting"
    /\ conn[call[c].link].ready = "resolved"
    /\ ~conn[call[c].link].closed

\* The socket closed between the ready promise and this continuation.
ClosedBeforeSent(c) ==
    /\ call[c].phase = "awaiting"
    /\ conn[call[c].link].ready = "resolved"
    /\ conn[call[c].link].closed
    /\ call' = [call EXCEPT ![c] = Rejected(@, call[c].reused)]
    /\ UNCHANGED <<conn, pool, requestCounter, answer, writes>>

Written(r, id) == [r EXCEPT !.phase = "sent", !.request = id]

Carrying(x, p) == [x EXCEPT !.pending = @ \cup {p}, !.wire = @ \cup {p}]

\* A fresh id, the pending entry, the ref, the line on the wire.
Send(c) ==
    LET k == call[c].link
        p == [id |-> requestCounter + 1, call |-> c, slot |-> call[c].slot] IN
    /\ Writable(c)
    /\ requestCounter' = requestCounter + 1
    /\ call' = [call EXCEPT ![c] = Written(@, requestCounter + 1)]
    /\ conn' = [conn EXCEPT ![k] =
                  NoteActivity(Carrying(@, p))]
    /\ writes' = [writes EXCEPT ![c][call[c].slot] = @ + 1]
    /\ UNCHANGED <<pool, answer>>

\* socket.write throws: the entry just made is settled and dropped again.
WriteThrows(c) ==
    LET k == call[c].link IN
    /\ Writable(c)
    /\ requestCounter' = requestCounter + 1
    /\ call' = [call EXCEPT ![c] = Rejected(@, call[c].reused)]
    /\ conn' = [conn EXCEPT ![k] = NoteActivity(@)]
    /\ UNCHANGED <<pool, answer, writes>>

-----------------------------------------------------------------------------
(* The retry wrapper and the endpoint loop *)

\* A mutated form: submissions are redialed like any other request.
MayRetryAnything(c) == call[c].retryable /\ call[c].attempt = 1

\* A mutated form: nothing limits the redials.
MayRetryForever(c) == call[c].retryable /\ c \notin Broadcast

MayRetry(c) == call[c].retryable /\ c \notin Broadcast /\ call[c].attempt = 1

\* A mutated form: the wrapper counts its redials but does not limit them.
RetryUnlimited(c) ==
    /\ call[c].phase = "failed"
    /\ call[c].retryable
    /\ c \notin Broadcast
    /\ Attempt(c, call[c].slot, call[c].attempt + 1)

Retry(c) == call[c].phase = "failed" /\ MayRetry(c) /\ Attempt(c, call[c].slot, 2)

Thrown(r) == [r EXCEPT !.phase = "thrown", !.retryable = FALSE]

Rethrow(c) ==
    /\ call[c].phase = "failed"
    /\ ~MayRetry(c)
    /\ call' = [call EXCEPT ![c] = Thrown(@)]
    /\ UNCHANGED <<conn, pool, requestCounter, answer, writes>>

\* The loop swallows any error and asks the next endpoint.
NextEndpoint(c) ==
    /\ call[c].phase = "thrown"
    /\ call[c].slot < Len(Endpoints)
    /\ Attempt(c, call[c].slot + 1, 1)

GiveUp(c) ==
    /\ call[c].phase = "thrown"
    /\ call[c].slot = Len(Endpoints)
    /\ call' = [call EXCEPT ![c] = [@ EXCEPT !.phase = "threw"]]
    /\ UNCHANGED <<conn, pool, requestCounter, answer, writes>>

Continue(c) ==
    \/ DialFailed(c) \/ ClosedBeforeSent(c) \/ Send(c) \/ WriteThrows(c)
    \/ Retry(c) \/ Rethrow(c) \/ NextEndpoint(c) \/ GiveUp(c)

\* A continuation of c is in the microtask queue.
Runnable(c) ==
    \/ call[c].phase \in {"failed", "thrown"}
    \/ call[c].phase = "awaiting" /\ conn[call[c].link].ready # "pending"

Quiescent == \A c \in Call : ~Runnable(c)

-----------------------------------------------------------------------------
(* Socket events and timers *)

Connected(k) ==
    /\ Quiescent
    /\ ~conn[k].closed
    /\ conn[k].ready = "pending"
    /\ conn' = [conn EXCEPT ![k] = NoteActivity([@ EXCEPT !.ready = "resolved"])]
    /\ UNCHANGED <<call, pool, requestCounter, answer, writes>>

Keeping(x, P) == [x EXCEPT !.pending = P]

\* A mutated form: answers are matched by endpoint, not by id.
AnswerToByEndpoint(p, R) == {r \in R : r.slot = p.slot}

\* The lines of R that answer the pending request p.
AnswerTo(p, R) == {r \in R : r.id = p.id}

Answered(k, R) == {p \in conn[k].pending : AnswerTo(p, R) # {}}

\* The calls after the lines R of one chunk, those of bad being JSON-RPC errors;
\* lines whose id is not pending are dropped.
AfterLines(k, R, bad) ==
    [c \in Call |->
        IF \E p \in Answered(k, R) : Owed(p, c)
        THEN IF \E p \in Answered(k, R) : Owed(p, c) /\ AnswerTo(p, bad) # {}
             THEN Rejected(call[c], FALSE)
             ELSE Resolved(call[c])
        ELSE call[c]]

AnswersAfter(k, R, bad) ==
    [c \in Call |-> answer[c] \cup
        UNION {AnswerTo(p, R \ bad) : p \in {q \in Answered(k, R) : Owed(q, c)}}]

\* One data chunk: any set of answers to requests this socket has carried,
\* late and repeated ones included, in any order.
Receive(k, R, bad) ==
    /\ Quiescent
    /\ ~conn[k].closed
    /\ conn[k].ready = "resolved"
    /\ call' = AfterLines(k, R, bad)
    /\ answer' = AnswersAfter(k, R, bad)
    /\ conn' = [conn EXCEPT ![k] =
                  NoteActivity(Keeping(@, conn[k].pending \ Answered(k, R)))]
    /\ UNCHANGED <<pool, requestCounter, writes>>

\* A chunk whose lines R are followed by one that does not parse: the lines are
\* delivered, then everything still riding on the socket fails, not retryably.
ReceiveGarbled(k, R, bad) ==
    /\ Quiescent
    /\ ~conn[k].closed
    /\ conn[k].ready = "resolved"
    /\ call' = [c \in Call |->
                  IF \E p \in conn[k].pending \ Answered(k, R) : Owed(p, c)
                  THEN Rejected(call[c], FALSE) ELSE AfterLines(k, R, bad)[c]]
    /\ answer' = AnswersAfter(k, R, bad)
    /\ conn' = [conn EXCEPT ![k] = FailReady(Teardown(@))]
    /\ Release(k)
    /\ UNCHANGED <<requestCounter, writes>>

\* "error" or "close": may run ahead of the continuations already queued.
SocketFails(k) == FailConnection(k, TRUE)

ConnectTimeout(k) ==
    Quiescent /\ conn[k].ready = "pending" /\ FailConnection(k, TRUE)

\* closeWhenIdle: the dial already settled, nothing rides on the socket.
IdleClose(k) ==
    /\ Quiescent
    /\ ~conn[k].closed
    /\ conn[k].idleTimer
    /\ conn[k].pending = {}
    /\ conn' = [conn EXCEPT ![k] = Teardown(@)]
    /\ Release(k)
    /\ UNCHANGED <<call, requestCounter, answer, writes>>

\* A mutated form: a timed-out request is redialed.
TimeoutRetryableMutant == TRUE

\* Whether a request timeout is raised retryable.
TimeoutRetryable == FALSE

\* A mutated form: the timer settles the promise and leaves the entry behind.
WithoutRequestLeak(c, pending) == pending

\* The pending entries left once the timed-out request of c is settled.
WithoutRequest(c, pending) == {p \in pending : p.id # call[c].request}

\* Only this caller's request is abandoned.
RequestTimeout(c) ==
    LET k == call[c].link IN
    /\ Quiescent
    /\ call[c].phase = "sent"
    /\ call' = [call EXCEPT ![c] = Rejected(@, TimeoutRetryable)]
    /\ conn' = [conn EXCEPT ![k] =
                  NoteActivity(Keeping(@, WithoutRequest(c, conn[k].pending)))]
    /\ UNCHANGED <<pool, requestCounter, answer, writes>>

\* Nothing left to happen.
Finished ==
    /\ \A c \in Call : call[c].phase \in {"returned", "threw"}
    /\ \A k \in Conn : conn[k].closed
    /\ UNCHANGED vars

Next ==
    \/ \E c \in Call : Start(c) \/ Continue(c) \/ RequestTimeout(c)
    \/ \E k \in Conn : Connected(k) \/ SocketFails(k) \/ ConnectTimeout(k) \/ IdleClose(k)
    \/ \E k \in Conn : \E R \in SUBSET conn[k].wire : \E bad \in SUBSET R :
          Receive(k, R, bad) \/ ReceiveGarbled(k, R, bad)
    \/ Finished

\* The event loop runs every queued continuation and every due timer.  The
\* peer owes nothing.
Fairness ==
    /\ \A c \in Call : WF_vars(Continue(c)) /\ WF_vars(RequestTimeout(c))
    /\ \A k \in Conn : WF_vars(ConnectTimeout(k))

Spec == Init /\ [][Next]_vars
FairSpec == Spec /\ Fairness

-----------------------------------------------------------------------------
(* Properties *)

Live(k) == ~conn[k].closed

\* The map holds live connections only, under their own key, and every live
\* socket is in it: two callers racing a failed dial never open two sockets to
\* an endpoint, and no socket leaks out of the pool.
PoolIsLive ==
    /\ \A e \in Key : pool[e] # NoConn => Live(pool[e]) /\ conn[pool[e]].key = e
    /\ \A k \in Conn : Live(k) => pool[conn[k].key] = k

\* A connection's pending map is exactly the requests whose callers still wait
\* on it: no caller waits for an entry that a teardown, a timeout or an answer
\* removed, and no entry outlives its caller.
PendingIsOwed ==
    /\ \A c \in Call : call[c].phase = "sent" =>
          [id |-> call[c].request, call |-> c, slot |-> call[c].slot]
              \in conn[call[c].link].pending
    /\ \A k \in Conn : \A p \in conn[k].pending :
          /\ call[p.call].phase = "sent"
          /\ call[p.call].link = k
          /\ call[p.call].request = p.id

\* Whenever the event loop is about to block, the sockets that hold the process
\* open are exactly those some call waits on: the host never exits with a call
\* outstanding and a pooled idle socket never keeps it alive.
HostHeldOpen ==
    Quiescent => \A k \in Conn :
        conn[k].refd <=> \E c \in Call :
                            call[c].phase \in {"awaiting", "sent"} /\ call[c].link = k

\* A call only ever resolves with the answer to the last request it wrote,
\* whatever late, repeated or reordered answers the sockets deliver.
AnswerIsOwn ==
    \A c \in Call : \A r \in answer[c] : r.call = c /\ r.id = call[c].request

\* No question is put twice on one live socket: what a peer may already be
\* acting on is abandoned, never asked again over the same connection.
OneQuestionPerSocket ==
    \A k \in Conn : \A p, q \in conn[k].wire :
        p.call = q.call /\ p.slot = q.slot => p = q

\* "A submission is never replayed: the peer may already have relayed it."
\* (index.ts:1724): a broadcast reaches the wire at most once.
SubmissionNeverReplayed ==
    \A c \in Broadcast : \A s, t \in Slot :
        writes[c][s] > 0 /\ writes[c][t] > 0 => s = t /\ writes[c][s] = 1

\* The strengthening that makes the invariants above inductive.  A socket that
\* still dials has a caller waiting on it and no idle timer, so closeWhenIdle
\* cannot strand a pending ready promise; a closed one has settled everything.
ConnShape ==
    \A k \in Conn :
        /\ conn[k].pending \subseteq conn[k].wire
        /\ conn[k].closed =>
              conn[k].ready # "pending" /\ conn[k].wire = {} /\ ~conn[k].refd
        /\ Live(k) => conn[k].ready # "rejected"
        /\ Live(k) /\ conn[k].ready = "resolved" =>
              (conn[k].refd <=> conn[k].pending # {})
        /\ Live(k) /\ conn[k].ready = "pending" =>
              /\ conn[k].wire = {} /\ conn[k].refd /\ ~conn[k].idleTimer
              /\ \E c \in Call : call[c].phase = "awaiting" /\ call[c].link = k

\* A waiting call is linked to a socket, a written request to one that is up.
CallShape ==
    \A c \in Call :
        /\ call[c].phase \in {"awaiting", "sent"} => call[c].link \in Conn
        /\ call[c].phase = "sent" =>
              Live(call[c].link) /\ conn[call[c].link].ready = "resolved"
        /\ answer[c] # {} => call[c].phase = "returned"
        /\ call[c].phase = "idle" => call[c].slot = 1

\* Request ids are unique across the provider.
IdsUnique ==
    /\ \A k \in Conn : \A p \in conn[k].wire : p.id <= requestCounter
    /\ \A k, l \in Conn : \A p \in conn[k].wire, q \in conn[l].wire :
          p.id = q.id => p = q

\* The caller of a request that is on a live wire has moved past the point of
\* asking that endpoint again.
AskedOnce ==
    \A k \in Conn : \A p \in conn[k].wire :
        LET r == call[p.call] IN
        \/ r.slot > p.slot
        \/ /\ r.slot = p.slot
           /\ \/ r.phase = "sent" /\ r.link = k
              \/ r.phase = "failed" /\ ~r.retryable
              \/ r.phase \in {"thrown", "returned", "threw"}

IndInv ==
    /\ PoolIsLive
    /\ PendingIsOwed
    /\ AnswerIsOwn
    /\ OneQuestionPerSocket
    /\ ConnShape
    /\ CallShape
    /\ IdsUnique
    /\ AskedOnce

\* Every call settles: no dial, teardown or dropped answer leaves a promise
\* pending for ever.
EveryCallSettles ==
    \A c \in Call : call[c].phase # "idle" ~> call[c].phase \in {"returned", "threw"}

\* What a caller sees (FulcrumCall): see that module.
Promise == INSTANCE FulcrumCall WITH
    Slots <- Len(Endpoints),
    status <- [c \in Call |->
                 IF call[c].phase \in {"idle", "returned", "threw"}
                 THEN call[c].phase ELSE "outstanding"],
    writes <- writes

ImplementsPromise == Promise!Spec
=============================================================================
