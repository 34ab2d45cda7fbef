----------------------- MODULE FulcrumTransportProofs -----------------------
(***************************************************************************)
(* Machine-checked proofs about FulcrumTransport, for every number of      *)
(* calls, endpoints and sockets.                                           *)
(***************************************************************************)
EXTENDS FulcrumTransport, TLAPS

\* The first endpoint exists, and every slot names a key.
LEMMA SlotKeys ==
    /\ 1 \in Slot
    /\ \A s \in Slot : s \in Nat /\ Endpoints[s] \in Key
    /\ \A s \in Slot : s < Len(Endpoints) => s + 1 \in Slot
BY EndpointAssumption DEF Slot

-----------------------------------------------------------------------------
(* Updates of one call or one socket keep it in its type *)

LEMMA CallUpdates ==
    ASSUME NEW r \in CallState
    PROVE  /\ \A b \in BOOLEAN : Rejected(r, b) \in CallState
           /\ Resolved(r) \in CallState
           /\ Thrown(r) \in CallState
           /\ \A id \in Nat : Written(r, id) \in CallState
           /\ \A s \in Slot, n \in {1, 2}, k \in Conn, b \in BOOLEAN :
                 Attempting(r, s, n, k, b) \in CallState
           /\ [r EXCEPT !.phase = "threw"] \in CallState
<1>1. \A b \in BOOLEAN : Rejected(r, b) \in CallState
  BY DEF Rejected, CallState, Phase
<1>2. Resolved(r) \in CallState /\ Thrown(r) \in CallState
  BY DEF Resolved, Thrown, CallState, Phase
<1>3. \A id \in Nat : Written(r, id) \in CallState
  BY DEF Written, CallState, Phase
<1>4. \A s \in Slot, n \in {1, 2}, k \in Conn, b \in BOOLEAN :
         Attempting(r, s, n, k, b) \in CallState
  BY DEF Attempting, CallState, Phase
<1>5. [r EXCEPT !.phase = "threw"] \in CallState
  BY DEF CallState, Phase
<1> QED BY <1>1, <1>2, <1>3, <1>4, <1>5

LEMMA ConnUpdates ==
    ASSUME NEW x \in ConnState
    PROVE  /\ NoteActivity(x) \in ConnState
           /\ Teardown(x) \in ConnState
           /\ FailReady(x) \in ConnState
           /\ [x EXCEPT !.ready = "resolved"] \in ConnState
           /\ \A P \in SUBSET Request : Keeping(x, P) \in ConnState
           /\ \A p \in Request : Carrying(x, p) \in ConnState
<1>1. NoteActivity(x) \in ConnState
  BY DEF NoteActivity, ConnState
<1>2. Teardown(x) \in ConnState
  BY DEF Teardown, ConnState
<1>3. FailReady(x) \in ConnState /\ [x EXCEPT !.ready = "resolved"] \in ConnState
  BY DEF FailReady, ConnState
<1>4. \A P \in SUBSET Request : Keeping(x, P) \in ConnState
  BY DEF Keeping, ConnState
<1>5. \A p \in Request : Carrying(x, p) \in ConnState
  BY DEF Carrying, ConnState
<1> QED BY <1>1, <1>2, <1>3, <1>4, <1>5

LEMMA DiallingType == \A s \in Slot : Dialling(Endpoints[s]) \in ConnState
BY SlotKeys DEF Dialling, ConnState

-----------------------------------------------------------------------------
(* Type correctness *)

LEMMA InitTypeOK == Init => TypeOK
BY SlotKeys DEF Init, TypeOK, CallState, ConnState, Phase, Request

\* acquire keeps every variable in its type.
LEMMA AttemptTypeOK ==
    ASSUME TypeOK, NEW c \in Call, NEW s \in Slot, NEW n \in {1, 2},
           Attempt(c, s, n)
    PROVE  TypeOK'
<1>1. CASE Reuse(c, s, n)
  <2>1. pool[Endpoints[s]] \in Conn /\ call[c] \in CallState
    BY <1>1, SlotKeys DEF Reuse, Pooled, TypeOK
  <2>2. Attempting(call[c], s, n, pool[Endpoints[s]], TRUE) \in CallState
    BY <2>1, CallUpdates
  <2> QED BY <1>1, <2>2 DEF Reuse, Attempt, TypeOK
<1>2. CASE Dial(c, s, n)
  <2>1. PICK k \in Conn :
          /\ conn' = [conn EXCEPT ![k] = Dialling(Endpoints[s])]
          /\ pool' = [pool EXCEPT ![Endpoints[s]] = k]
          /\ call' = [call EXCEPT ![c] = Attempting(@, s, n, k, FALSE)]
    BY <1>2 DEF Dial
  <2>2. Attempting(call[c], s, n, k, FALSE) \in CallState
    BY CallUpdates DEF TypeOK
  <2> QED BY <2>1, <2>2, DiallingType, SlotKeys DEF Attempt, TypeOK
<1> QED BY <1>1, <1>2 DEF Attempt

\* failConnection, and through it a socket failure and a connect timeout.
LEMMA FailConnectionTypeOK ==
    ASSUME TypeOK, NEW k \in Conn, FailConnection(k, TRUE)
    PROVE  TypeOK'
<1>1. FailReady(Teardown(conn[k])) \in ConnState
  BY ConnUpdates DEF TypeOK
<1>2. \A c \in Call : Rejected(call[c], TRUE) \in CallState
  BY CallUpdates DEF TypeOK
<1> QED BY <1>1, <1>2 DEF FailConnection, Release, TypeOK

LEMMA ChunkTypes ==
    ASSUME TypeOK, NEW k \in Conn, NEW R \in SUBSET conn[k].wire,
           NEW bad \in SUBSET R
    PROVE  /\ AfterLines(k, R, bad) \in [Call -> CallState]
           /\ AnswersAfter(k, R, bad) \in [Call -> SUBSET Request]
           /\ conn[k].pending \ Answered(k, R) \in SUBSET Request
<1>1. R \subseteq Request /\ conn[k].pending \subseteq Request
  BY DEF TypeOK, ConnState
<1>2. AfterLines(k, R, bad) \in [Call -> CallState]
  BY CallUpdates DEF AfterLines, TypeOK
<1>3. ASSUME NEW c \in Call
      PROVE  answer[c] \cup UNION {AnswerTo(p, R \ bad) :
                p \in {q \in Answered(k, R) : Owed(q, c)}} \in SUBSET Request
  <2>1. \A p : AnswerTo(p, R \ bad) \subseteq Request
    BY <1>1 DEF AnswerTo
  <2> QED BY <2>1 DEF TypeOK
<1>4. AnswersAfter(k, R, bad) \in [Call -> SUBSET Request]
  BY <1>3 DEF AnswersAfter
<1> QED BY <1>1, <1>2, <1>4

\* Every step keeps the types.
LEMMA NextTypeOK == TypeOK /\ [Next]_vars => TypeOK'
<1> SUFFICES ASSUME TypeOK, [Next]_vars PROVE TypeOK'
  OBVIOUS
<1>1. ASSUME NEW c \in Call, Start(c) PROVE TypeOK'
  BY <1>1, AttemptTypeOK, SlotKeys DEF Start
<1>2. ASSUME NEW c \in Call, DialFailed(c) PROVE TypeOK'
  <2>1. Rejected(call[c], TRUE) \in CallState
    BY CallUpdates DEF TypeOK
  <2> QED BY <1>2, <2>1 DEF DialFailed, TypeOK
<1>3. ASSUME NEW c \in Call, ClosedBeforeSent(c) PROVE TypeOK'
  <2>1. call[c].reused \in BOOLEAN
    BY DEF TypeOK, CallState
  <2>2. Rejected(call[c], call[c].reused) \in CallState
    BY <2>1, CallUpdates DEF TypeOK
  <2> QED BY <1>3, <2>2 DEF ClosedBeforeSent, TypeOK
<1>4. ASSUME NEW c \in Call, Send(c) PROVE TypeOK'
  <2> DEFINE k == call[c].link
             p == [id |-> requestCounter + 1, call |-> c, slot |-> call[c].slot]
  <2>1. p \in Request /\ call[c].slot \in Slot
    BY DEF Request, TypeOK, CallState
  <2>2. call' \in [Call -> CallState] /\ requestCounter' \in Nat
    <3>1. requestCounter + 1 \in Nat
      BY DEF TypeOK
    <3>2. Written(call[c], requestCounter + 1) \in CallState
      BY <3>1, CallUpdates DEF TypeOK
    <3>3. call' = [call EXCEPT ![c] = Written(call[c], requestCounter + 1)]
      BY <1>4 DEF Send
    <3>4. requestCounter' \in Nat
      BY <1>4, <3>1 DEF Send
    <3> QED BY <3>2, <3>3, <3>4 DEF TypeOK
  <2>3. conn' \in [Conn -> ConnState]
    <3>1. \A x \in ConnState : NoteActivity(Carrying(x, p)) \in ConnState
      BY <2>1, ConnUpdates
    <3>2. conn' = [conn EXCEPT ![k] = NoteActivity(Carrying(conn[k], p))]
      BY <1>4 DEF Send
    <3> HIDE DEF p, k
    <3> QED BY <3>1, <3>2 DEF TypeOK
  <2>4. writes' \in [Call -> [Slot -> Nat]]
    BY <1>4, <2>1 DEF Send, TypeOK
  <2> QED BY <1>4, <2>2, <2>3, <2>4 DEF Send, TypeOK
<1>5. ASSUME NEW c \in Call, WriteThrows(c) PROVE TypeOK'
  <2>1. call[c].reused \in BOOLEAN
    BY DEF TypeOK, CallState
  <2>2. Rejected(call[c], call[c].reused) \in CallState
    BY <2>1, CallUpdates DEF TypeOK
  <2>3. call' \in [Call -> CallState]
    BY <1>5, <2>2 DEF WriteThrows, TypeOK
  <2>4. conn' \in [Conn -> ConnState]
    <3>1. conn' = [conn EXCEPT ![call[c].link] = NoteActivity(conn[call[c].link])]
      BY <1>5 DEF WriteThrows
    <3> QED BY <3>1, ConnUpdates DEF TypeOK
  <2>5. requestCounter' \in Nat
    BY <1>5 DEF WriteThrows, TypeOK
  <2> QED BY <1>5, <2>3, <2>4, <2>5 DEF WriteThrows, TypeOK
<1>6. ASSUME NEW c \in Call, Retry(c) PROVE TypeOK'
  BY <1>6, AttemptTypeOK DEF Retry, TypeOK, CallState
<1>7. ASSUME NEW c \in Call, Rethrow(c) PROVE TypeOK'
  BY <1>7, CallUpdates DEF Rethrow, TypeOK
<1>8. ASSUME NEW c \in Call, NextEndpoint(c) PROVE TypeOK'
  <2>1. call[c].slot \in Slot
    BY DEF TypeOK, CallState
  <2> QED BY <1>8, <2>1, AttemptTypeOK, SlotKeys DEF NextEndpoint
<1>9. ASSUME NEW c \in Call, GiveUp(c) PROVE TypeOK'
  <2>1. [call[c] EXCEPT !.phase = "threw"] \in CallState
    BY CallUpdates DEF TypeOK
  <2> QED BY <1>9, <2>1 DEF GiveUp, TypeOK
<1>10. ASSUME NEW c \in Call, RequestTimeout(c) PROVE TypeOK'
  <2>1. Rejected(call[c], TimeoutRetryable) \in CallState
    BY CallUpdates DEF TimeoutRetryable, TypeOK
  <2>2. \A k \in Conn : WithoutRequest(c, conn[k].pending) \in SUBSET Request
    BY DEF WithoutRequest, TypeOK, ConnState
  <2>3. \A k \in Conn :
          NoteActivity(Keeping(conn[k], WithoutRequest(c, conn[k].pending)))
            \in ConnState
    BY <2>2, ConnUpdates DEF TypeOK
  <2>4. call' \in [Call -> CallState]
    BY <1>10, <2>1 DEF RequestTimeout, TypeOK
  <2>5. conn' \in [Conn -> ConnState]
    <3> DEFINE k == call[c].link
    <3>1. conn' = [conn EXCEPT ![k] =
                     NoteActivity(Keeping(conn[k], WithoutRequest(c, conn[k].pending)))]
      BY <1>10 DEF RequestTimeout
    <3> HIDE DEF k
    <3> QED BY <3>1, <2>3 DEF TypeOK
  <2> QED BY <1>10, <2>4, <2>5 DEF RequestTimeout, TypeOK
<1>11. ASSUME NEW k \in Conn, Connected(k) PROVE TypeOK'
  BY <1>11, ConnUpdates DEF Connected, TypeOK
<1>12. ASSUME NEW k \in Conn, SocketFails(k) \/ ConnectTimeout(k) PROVE TypeOK'
  BY <1>12, FailConnectionTypeOK DEF SocketFails, ConnectTimeout
<1>13. ASSUME NEW k \in Conn, IdleClose(k) PROVE TypeOK'
  BY <1>13, ConnUpdates DEF IdleClose, Release, TypeOK
<1>14. ASSUME NEW k \in Conn, NEW R \in SUBSET conn[k].wire, NEW bad \in SUBSET R,
              Receive(k, R, bad)
       PROVE  TypeOK'
  <2>1. NoteActivity(Keeping(conn[k], conn[k].pending \ Answered(k, R))) \in ConnState
    BY ChunkTypes, ConnUpdates DEF TypeOK
  <2>2. call' \in [Call -> CallState] /\ answer' \in [Call -> SUBSET Request]
    BY <1>14, ChunkTypes DEF Receive
  <2>3. conn' = [conn EXCEPT ![k] =
                   NoteActivity(Keeping(conn[k], conn[k].pending \ Answered(k, R)))]
    BY <1>14 DEF Receive
  <2>4. conn' \in [Conn -> ConnState]
    BY <2>3, <2>1 DEF TypeOK
  <2> QED BY <1>14, <2>2, <2>4 DEF Receive, TypeOK
<1>15. ASSUME NEW k \in Conn, NEW R \in SUBSET conn[k].wire, NEW bad \in SUBSET R,
              ReceiveGarbled(k, R, bad)
       PROVE  TypeOK'
  <2>1. FailReady(Teardown(conn[k])) \in ConnState
    BY ConnUpdates DEF TypeOK
  <2>2. \A c \in Call : Rejected(call[c], FALSE) \in CallState
    BY CallUpdates DEF TypeOK
  <2>3. call' \in [Call -> CallState]
    BY <1>15, <2>2, ChunkTypes DEF ReceiveGarbled
  <2>4. answer' \in [Call -> SUBSET Request]
    BY <1>15, ChunkTypes DEF ReceiveGarbled
  <2>5. conn' \in [Conn -> ConnState] /\ pool' \in [Key -> Conn \cup {NoConn}]
    BY <1>15, <2>1 DEF ReceiveGarbled, Release, TypeOK
  <2> QED BY <1>15, <2>3, <2>4, <2>5 DEF ReceiveGarbled, TypeOK
<1>16. ASSUME Finished \/ UNCHANGED vars PROVE TypeOK'
  BY <1>16 DEF Finished, vars, TypeOK
<1> QED
  BY <1>1, <1>2, <1>3, <1>4, <1>5, <1>6, <1>7, <1>8, <1>9, <1>10, <1>11,
     <1>12, <1>13, <1>14, <1>15, <1>16 DEF Next, Continue

\* Every reachable state of the transport is well-typed.
THEOREM TransportTypes == Spec => []TypeOK
BY InitTypeOK, NextTypeOK, PTL DEF Spec

-----------------------------------------------------------------------------
(* What an update changes and what it keeps *)

LEMMA CallFields ==
    ASSUME NEW r \in CallState
    PROVE  /\ \A b :
                /\ Rejected(r, b).phase = "failed" /\ Rejected(r, b).retryable = b
                /\ Rejected(r, b).slot = r.slot /\ Rejected(r, b).request = r.request
           /\ /\ Resolved(r).phase = "returned"
              /\ Resolved(r).slot = r.slot /\ Resolved(r).request = r.request
           /\ /\ Thrown(r).phase = "thrown"
              /\ Thrown(r).slot = r.slot /\ Thrown(r).request = r.request
           /\ \A id \in Nat :
                /\ Written(r, id).phase = "sent" /\ Written(r, id).request = id
                /\ Written(r, id).slot = r.slot /\ Written(r, id).link = r.link
           /\ \A s, n, k, b :
                /\ Attempting(r, s, n, k, b).phase = "awaiting"
                /\ Attempting(r, s, n, k, b).slot = s
                /\ Attempting(r, s, n, k, b).link = k
                /\ Attempting(r, s, n, k, b).request = r.request
BY DEF Rejected, Resolved, Thrown, Written, Attempting, CallState

LEMMA ConnFields ==
    ASSUME NEW x \in ConnState
    PROVE  /\ /\ NoteActivity(x).key = x.key /\ NoteActivity(x).ready = x.ready
              /\ NoteActivity(x).closed = x.closed /\ NoteActivity(x).pending = x.pending
              /\ NoteActivity(x).wire = x.wire
              /\ ~x.closed => (NoteActivity(x).refd <=> x.pending # {})
           /\ /\ Teardown(x).closed /\ Teardown(x).pending = {} /\ Teardown(x).wire = {}
              /\ ~Teardown(x).refd /\ Teardown(x).key = x.key
              /\ Teardown(x).ready = x.ready
           /\ /\ FailReady(x).closed = x.closed /\ FailReady(x).pending = x.pending
              /\ FailReady(x).wire = x.wire /\ FailReady(x).key = x.key
              /\ FailReady(x).refd = x.refd /\ FailReady(x).ready # "pending"
           /\ \A p \in Request :
                /\ Carrying(x, p).key = x.key /\ Carrying(x, p).ready = x.ready
                /\ Carrying(x, p).closed = x.closed
                /\ Carrying(x, p).pending = x.pending \cup {p}
                /\ Carrying(x, p).wire = x.wire \cup {p}
           /\ \A P \in SUBSET Request :
                /\ Keeping(x, P).key = x.key /\ Keeping(x, P).ready = x.ready
                /\ Keeping(x, P).closed = x.closed /\ Keeping(x, P).pending = P
                /\ Keeping(x, P).wire = x.wire
<1>1. /\ NoteActivity(x).key = x.key /\ NoteActivity(x).ready = x.ready
      /\ NoteActivity(x).closed = x.closed /\ NoteActivity(x).pending = x.pending
      /\ NoteActivity(x).wire = x.wire
      /\ ~x.closed => (NoteActivity(x).refd <=> x.pending # {})
  BY DEF NoteActivity, ConnState
<1>2. /\ Teardown(x).closed /\ Teardown(x).pending = {} /\ Teardown(x).wire = {}
      /\ ~Teardown(x).refd /\ Teardown(x).key = x.key
      /\ Teardown(x).ready = x.ready
  BY DEF Teardown, ConnState
<1>3. /\ FailReady(x).closed = x.closed /\ FailReady(x).pending = x.pending
      /\ FailReady(x).wire = x.wire /\ FailReady(x).key = x.key
      /\ FailReady(x).refd = x.refd /\ FailReady(x).ready # "pending"
  BY DEF FailReady, ConnState
<1>4. \A p \in Request :
        /\ Carrying(x, p).key = x.key /\ Carrying(x, p).ready = x.ready
        /\ Carrying(x, p).closed = x.closed
        /\ Carrying(x, p).pending = x.pending \cup {p}
        /\ Carrying(x, p).wire = x.wire \cup {p}
  BY DEF Carrying, ConnState
<1>5. \A P \in SUBSET Request :
        /\ Keeping(x, P).key = x.key /\ Keeping(x, P).ready = x.ready
        /\ Keeping(x, P).closed = x.closed /\ Keeping(x, P).pending = P
        /\ Keeping(x, P).wire = x.wire
  BY DEF Keeping, ConnState
<1> QED BY <1>1, <1>2, <1>3, <1>4, <1>5

-----------------------------------------------------------------------------
(* The inductive invariant, action by action *)

LEMMA InitIndInv == Init => IndInv
<1> SUFFICES ASSUME Init PROVE IndInv
  OBVIOUS
<1>1. PoolIsLive /\ ConnShape
  BY ConnAssumption DEF Init, PoolIsLive, ConnShape, Live
<1>2. PendingIsOwed /\ CallShape
  BY DEF Init, PendingIsOwed, CallShape
<1>3. AnswerIsOwn /\ OneQuestionPerSocket /\ IdsUnique /\ AskedOnce
  BY DEF Init, AnswerIsOwn, OneQuestionPerSocket, IdsUnique, AskedOnce
<1> QED BY <1>1, <1>2, <1>3 DEF IndInv

\* The sockets as the invariant sees them.
SameSockets ==
    \A k \in Conn :
        /\ conn'[k].key = conn[k].key /\ conn'[k].ready = conn[k].ready
        /\ conn'[k].closed = conn[k].closed /\ conn'[k].pending = conn[k].pending
        /\ conn'[k].wire = conn[k].wire /\ conn'[k].refd = conn[k].refd
        /\ conn[k].ready = "pending" => conn'[k].idleTimer = conn[k].idleTimer

\* A continuation that ends an attempt, or passes its error on, touches nothing
\* but its own promise chain.
LEMMA MoveOn ==
    ASSUME TypeOK, TypeOK', IndInv, NEW c \in Call,
           call[c].phase \in {"awaiting", "failed", "thrown"},
           call[c].phase = "awaiting" => conn[call[c].link].ready # "pending",
           call[c].phase # "awaiting" => call'[c].phase # "failed",
           call'[c].phase \in {"failed", "thrown", "threw"},
           call'[c].slot = call[c].slot, call'[c].request = call[c].request,
           \A d \in Call : d # c => call'[d] = call[d],
           SameSockets, pool' = pool, answer' = answer,
           requestCounter' \in {requestCounter, requestCounter + 1}
    PROVE  IndInv'
<1>1. PoolIsLive' /\ IdsUnique' /\ OneQuestionPerSocket'
  <2>1. PoolIsLive'
    <3>1. \A e \in Key : pool[e] # NoConn => pool[e] \in Conn
      BY DEF TypeOK
    <3> QED BY <3>1 DEF IndInv, PoolIsLive, Live, SameSockets
  <2>2. OneQuestionPerSocket'
    BY DEF IndInv, OneQuestionPerSocket, SameSockets
  <2>3. IdsUnique'
    BY DEF IndInv, IdsUnique, SameSockets, TypeOK, ConnState, Request
  <2> QED BY <2>1, <2>2, <2>3
<1>2. PendingIsOwed'
  <2>1. \A d \in Call : call'[d].phase = "sent" => call'[d] = call[d]
    OBVIOUS
  <2>2. \A d \in Call : call'[d].phase = "sent" => call[d].link \in Conn
    BY <2>1 DEF IndInv, CallShape
  <2>3. \A k \in Conn : \A p \in conn[k].pending : p.call # c /\ p.call \in Call
    BY DEF IndInv, PendingIsOwed, TypeOK, ConnState, Request
  <2> QED BY <2>1, <2>2, <2>3 DEF IndInv, PendingIsOwed, SameSockets
<1>3. AnswerIsOwn' /\ CallShape'
  <2>1. CallShape'
    <3>1. answer[c] = {}
      BY DEF IndInv, CallShape
    <3>2. ASSUME NEW d \in Call, d # c
          PROVE  /\ call[d].phase \in {"awaiting", "sent"} => call[d].link \in Conn
                 /\ call[d].phase = "sent" =>
                       ~conn'[call[d].link].closed /\ conn'[call[d].link].ready = "resolved"
                 /\ answer[d] # {} => call[d].phase = "returned"
                 /\ call[d].phase = "idle" => call[d].slot = 1
      BY DEF IndInv, CallShape, SameSockets, Live
    <3> QED BY <3>1, <3>2 DEF CallShape, Live
  <2>2. AnswerIsOwn'
    BY DEF IndInv, AnswerIsOwn, TypeOK
  <2> QED BY <2>1, <2>2
<1>4. ConnShape'
  BY DEF IndInv, ConnShape, SameSockets, Live
<1>5. AskedOnce'
  <2> SUFFICES ASSUME NEW k \in Conn, NEW p \in conn[k].wire
               PROVE  \/ call'[p.call].slot > p.slot
                      \/ /\ call'[p.call].slot = p.slot
                         /\ \/ call'[p.call].phase = "sent" /\ call'[p.call].link = k
                            \/ call'[p.call].phase = "failed" /\ ~call'[p.call].retryable
                            \/ call'[p.call].phase \in {"thrown", "returned", "threw"}
    BY DEF AskedOnce, SameSockets
  <2>1. p.call \in Call
    BY DEF TypeOK, ConnState, Request
  <2>2. CASE p.call # c
    BY <2>1, <2>2 DEF IndInv, AskedOnce
  <2>3. CASE p.call = c
    BY <2>3 DEF IndInv, AskedOnce
  <2> QED BY <2>2, <2>3
<1> QED BY <1>1, <1>2, <1>3, <1>4, <1>5 DEF IndInv

LEMMA ContinuationIndInv ==
    ASSUME TypeOK, TypeOK', IndInv, NEW c \in Call,
           DialFailed(c) \/ ClosedBeforeSent(c) \/ WriteThrows(c)
             \/ Rethrow(c) \/ GiveUp(c)
    PROVE  IndInv'
<1>0. call[c] \in CallState /\ call[c].reused \in BOOLEAN
  BY DEF TypeOK, CallState
<1>1. conn' = conn => SameSockets
  BY DEF SameSockets
<1>2. CASE DialFailed(c)
  <2>1. call' = [call EXCEPT ![c] = Rejected(call[c], TRUE)]
    BY <1>2 DEF DialFailed
  <2>2. call'[c] = Rejected(call[c], TRUE) /\ \A d \in Call : d # c => call'[d] = call[d]
    BY <2>1 DEF TypeOK
  <2>3. /\ call'[c].phase = "failed" /\ call'[c].slot = call[c].slot
        /\ call'[c].request = call[c].request
    BY <1>0, <2>2 DEF Rejected, CallState
  <2>4. /\ call[c].phase = "awaiting" /\ conn[call[c].link].ready = "rejected"
        /\ pool' = pool /\ answer' = answer /\ requestCounter' = requestCounter
        /\ SameSockets
    BY <1>1, <1>2 DEF DialFailed
  <2> QED BY <2>2, <2>3, <2>4, MoveOn
<1>3. CASE ClosedBeforeSent(c)
  <2>1. call' = [call EXCEPT ![c] = Rejected(call[c], call[c].reused)]
    BY <1>3 DEF ClosedBeforeSent
  <2>2. /\ call'[c] = Rejected(call[c], call[c].reused)
        /\ \A d \in Call : d # c => call'[d] = call[d]
    BY <2>1 DEF TypeOK
  <2> QED BY <1>0, <1>1, <1>3, <2>2, CallFields, MoveOn DEF ClosedBeforeSent
<1>4. CASE WriteThrows(c)
  <2> DEFINE k == call[c].link
  <2>1. call' = [call EXCEPT ![c] = Rejected(call[c], call[c].reused)]
    BY <1>4 DEF WriteThrows
  <2>2. /\ call'[c] = Rejected(call[c], call[c].reused)
        /\ \A d \in Call : d # c => call'[d] = call[d]
    BY <2>1 DEF TypeOK
  <2>3. k \in Conn /\ ~conn[k].closed /\ conn[k].ready = "resolved"
    BY <1>4 DEF WriteThrows, Writable, IndInv, CallShape
  <2>4. conn' = [conn EXCEPT ![k] = NoteActivity(conn[k])]
    BY <1>4 DEF WriteThrows
  <2>5. conn'[k] = NoteActivity(conn[k]) /\ conn[k] \in ConnState
        /\ \A l \in Conn : l # k => conn'[l] = conn[l]
    BY <2>3, <2>4 DEF TypeOK
  <2>6. conn'[k].refd = conn[k].refd
    <3>1. conn'[k].refd <=> conn[k].refd
      BY <2>3, <2>5, ConnFields DEF IndInv, ConnShape, Live
    <3>2. conn'[k].refd \in BOOLEAN /\ conn[k].refd \in BOOLEAN
      BY <2>3 DEF TypeOK, ConnState
    <3> QED BY <3>1, <3>2
  <2>7. SameSockets
    BY <2>3, <2>5, <2>6, ConnFields DEF SameSockets
  <2> QED BY <1>0, <1>4, <2>2, <2>3, <2>7, CallFields, MoveOn DEF WriteThrows, Writable
<1>5. CASE Rethrow(c)
  <2>1. call'[c] = Thrown(call[c]) /\ \A d \in Call : d # c => call'[d] = call[d]
    BY <1>5 DEF Rethrow, TypeOK
  <2> QED BY <1>0, <1>1, <1>5, <2>1, CallFields, MoveOn DEF Rethrow
<1>6. CASE GiveUp(c)
  <2>1. /\ call'[c] = [call[c] EXCEPT !.phase = "threw"]
        /\ \A d \in Call : d # c => call'[d] = call[d]
    BY <1>6 DEF GiveUp, TypeOK
  <2>2. /\ call'[c].phase = "threw" /\ call'[c].slot = call[c].slot
        /\ call'[c].request = call[c].request
    BY <2>1, <1>0 DEF CallState
  <2> QED BY <1>0, <1>1, <1>6, <2>1, <2>2, MoveOn DEF GiveUp
<1> QED BY <1>2, <1>3, <1>4, <1>5, <1>6

\* The pending entries of a socket are owed, to exactly the callers that ride it.
LEMMA RidersAreOwed ==
    ASSUME TypeOK, IndInv, NEW k \in Conn
    PROVE  /\ \A p \in conn[k].pending : p \in Request /\ Owed(p, p.call)
           /\ \A c \in Call : (\E p \in conn[k].pending : Owed(p, c))
                                <=> call[c].phase = "sent" /\ call[c].link = k
<1>1. \A p \in conn[k].pending : p \in Request /\ Owed(p, p.call)
  BY DEF IndInv, PendingIsOwed, Owed, TypeOK, ConnState
<1>2. ASSUME NEW c \in Call, NEW p \in conn[k].pending, Owed(p, c)
      PROVE  call[c].phase = "sent" /\ call[c].link = k
  BY <1>2 DEF Owed, IndInv, PendingIsOwed
<1>3. ASSUME NEW c \in Call, call[c].phase = "sent", call[c].link = k
      PROVE  \E p \in conn[k].pending : Owed(p, c)
  BY <1>3 DEF Owed, IndInv, PendingIsOwed
<1> QED BY <1>1, <1>2, <1>3

\* A socket that closes takes its riders with it, each settled one way or the
\* other, and nothing else.
LEMMA Closing ==
    ASSUME TypeOK, TypeOK', IndInv, NEW k \in Conn, Live(k),
           conn'[k].closed, conn'[k].ready # "pending", conn'[k].pending = {},
           conn'[k].wire = {}, ~conn'[k].refd,
           \A l \in Conn : l # k => conn'[l] = conn[l],
           pool' = [pool EXCEPT ![conn[k].key] = IF @ = k THEN NoConn ELSE @],
           requestCounter' = requestCounter,
           \A c \in Call :
              IF call[c].phase = "sent" /\ call[c].link = k
              THEN /\ call'[c].phase \in {"failed", "returned"}
                   /\ call'[c].slot = call[c].slot
                   /\ call'[c].request = call[c].request
                   /\ answer'[c] # {} => call'[c].phase = "returned"
                   /\ \A r \in answer'[c] : r.call = c /\ r.id = call[c].request
              ELSE call'[c] = call[c] /\ answer'[c] = answer[c]
    PROVE  IndInv'
<1>0. /\ \A e \in Key : pool[e] # NoConn => pool[e] \in Conn
      /\ \A l \in Conn : conn[l].key \in Key
      /\ pool' \in [Key -> Conn \cup {NoConn}]
  BY DEF TypeOK, ConnState
<1>1. PoolIsLive'
  <2>1. ASSUME NEW e \in Key, pool'[e] # NoConn
        PROVE  ~conn'[pool'[e]].closed /\ conn'[pool'[e]].key = e
    <3>1. pool[e] # NoConn /\ pool'[e] = pool[e] /\ pool[e] # k
      BY <1>0, <2>1 DEF IndInv, PoolIsLive, TypeOK
    <3> QED BY <1>0, <3>1 DEF IndInv, PoolIsLive, Live
  <2>2. ASSUME NEW l \in Conn, ~conn'[l].closed
        PROVE  pool'[conn'[l].key] = l
    <3>1. l # k /\ conn'[l] = conn[l] /\ pool[conn[l].key] = l
      BY <2>2 DEF IndInv, PoolIsLive, Live
    <3> QED BY <1>0, <3>1 DEF TypeOK
  <2> QED BY <2>1, <2>2 DEF PoolIsLive, Live
<1>2. PendingIsOwed'
  <2>1. \A c \in Call : call'[c].phase = "sent" =>
           call'[c] = call[c] /\ call[c].link # k /\ call[c].link \in Conn
    BY DEF IndInv, CallShape
  <2>2. ASSUME NEW l \in Conn, NEW p \in conn'[l].pending
        PROVE  l # k /\ p.call \in Call /\ call[p.call].link = l /\ call[p.call].phase = "sent"
               /\ call[p.call].request = p.id
    BY DEF IndInv, PendingIsOwed, TypeOK, ConnState, Request
  <2>3. ASSUME NEW l \in Conn, NEW p \in conn'[l].pending
        PROVE  call'[p.call].phase = "sent" /\ call'[p.call].link = l
               /\ call'[p.call].request = p.id
    BY <2>2
  <2> QED BY <2>1, <2>3 DEF IndInv, PendingIsOwed
<1>3. AnswerIsOwn'
  BY DEF IndInv, AnswerIsOwn
<1>4. CallShape'
  <2> SUFFICES ASSUME NEW c \in Call
               PROVE  /\ call'[c].phase \in {"awaiting", "sent"} => call'[c].link \in Conn
                      /\ call'[c].phase = "sent" =>
                            ~conn'[call'[c].link].closed
                              /\ conn'[call'[c].link].ready = "resolved"
                      /\ answer'[c] # {} => call'[c].phase = "returned"
                      /\ call'[c].phase = "idle" => call'[c].slot = 1
    BY DEF CallShape, Live
  <2>1. CASE call[c].phase = "sent" /\ call[c].link = k
    BY <2>1
  <2>2. CASE ~(call[c].phase = "sent" /\ call[c].link = k)
    BY <2>2 DEF IndInv, CallShape, Live
  <2> QED BY <2>1, <2>2
<1>5. ConnShape'
  <2>1. ASSUME NEW c \in Call, call[c].phase = "awaiting"
        PROVE  call'[c] = call[c]
    BY <2>1
  <2> QED BY <2>1 DEF IndInv, ConnShape, Live
<1>6. IdsUnique' /\ OneQuestionPerSocket'
  BY DEF IndInv, IdsUnique, OneQuestionPerSocket
<1>7. AskedOnce'
  <2> SUFFICES ASSUME NEW l \in Conn, NEW p \in conn'[l].wire
               PROVE  \/ call'[p.call].slot > p.slot
                      \/ /\ call'[p.call].slot = p.slot
                         /\ \/ call'[p.call].phase = "sent" /\ call'[p.call].link = l
                            \/ call'[p.call].phase = "failed" /\ ~call'[p.call].retryable
                            \/ call'[p.call].phase \in {"thrown", "returned", "threw"}
    BY DEF AskedOnce
  <2>1. l # k /\ p \in conn[l].wire /\ p.call \in Call
    BY DEF TypeOK, ConnState, Request
  <2> QED BY <2>1 DEF IndInv, AskedOnce
<1> QED BY <1>1, <1>2, <1>3, <1>4, <1>5, <1>6, <1>7 DEF IndInv

\* An answer or a timeout settles some riders of a socket that stays up.
LEMMA Settling ==
    ASSUME TypeOK, TypeOK', IndInv, NEW k \in Conn, Live(k),
           conn[k].ready = "resolved", NEW X \in SUBSET conn[k].pending,
           conn'[k].key = conn[k].key, conn'[k].ready = conn[k].ready,
           ~conn'[k].closed, conn'[k].pending = conn[k].pending \ X,
           conn'[k].wire = conn[k].wire, conn'[k].refd <=> conn[k].pending \ X # {},
           \A l \in Conn : l # k => conn'[l] = conn[l],
           pool' = pool, requestCounter' = requestCounter,
           \A c \in Call :
              IF \E p \in X : p.call = c
              THEN /\ \/ call'[c].phase = "returned"
                      \/ call'[c].phase = "failed" /\ ~call'[c].retryable
                   /\ call'[c].slot = call[c].slot
                   /\ call'[c].request = call[c].request
                   /\ answer'[c] # {} => call'[c].phase = "returned"
                   /\ \A r \in answer'[c] : r.call = c /\ r.id = call[c].request
              ELSE call'[c] = call[c] /\ answer'[c] = answer[c]
    PROVE  IndInv'
<1>0. /\ \A e \in Key : pool[e] # NoConn => pool[e] \in Conn
      /\ \A l \in Conn : conn'[l].key = conn[l].key /\ conn'[l].closed = conn[l].closed
           /\ conn'[l].ready = conn[l].ready /\ conn'[l].wire = conn[l].wire
  <2>1. conn'[k].closed = conn[k].closed
    BY DEF TypeOK, ConnState, Live
  <2> QED BY <2>1 DEF TypeOK
<1>1. PoolIsLive'
  BY <1>0 DEF IndInv, PoolIsLive, Live
<1>2. PendingIsOwed'
  <2>1. ASSUME NEW c \in Call, call'[c].phase = "sent"
        PROVE  [id |-> call'[c].request, call |-> c, slot |-> call'[c].slot]
                  \in conn'[call'[c].link].pending
    <3> DEFINE p == [id |-> call[c].request, call |-> c, slot |-> call[c].slot]
    <3>1. call'[c] = call[c] /\ ~\E q \in X : q.call = c
      BY <2>1
    <3>2. p \in conn[call[c].link].pending /\ p.call = c /\ call[c].link \in Conn
      BY <2>1, <3>1 DEF IndInv, PendingIsOwed, CallShape
    <3>3. p \notin X
      BY <3>1, <3>2
    <3> HIDE DEF p
    <3>4. p \in conn'[call[c].link].pending
      BY <3>2, <3>3
    <3> QED BY <3>1, <3>4 DEF p
  <2>2. ASSUME NEW l \in Conn, NEW p \in conn'[l].pending
        PROVE  call'[p.call].phase = "sent" /\ call'[p.call].link = l
               /\ call'[p.call].request = p.id
    <3>1. /\ p \in conn[l].pending /\ p.call \in Call
          /\ call[p.call].phase = "sent" /\ call[p.call].link = l
          /\ call[p.call].request = p.id
      BY DEF IndInv, PendingIsOwed, TypeOK, ConnState, Request
    <3>2. ASSUME NEW q \in X, q.call = p.call PROVE FALSE
      <4>1. q \in conn[k].pending /\ call[q.call].link = k /\ call[q.call].request = q.id
        BY DEF IndInv, PendingIsOwed
      <4>2. l = k /\ q.id = p.id
        BY <3>1, <3>2, <4>1
      <4>3. p = q
        BY <3>1, <4>1, <4>2 DEF IndInv, IdsUnique, ConnShape
      <4> QED BY <4>2, <4>3
    <3> QED BY <3>1, <3>2
  <2> QED BY <2>1, <2>2 DEF PendingIsOwed
<1>3. AnswerIsOwn'
  BY DEF IndInv, AnswerIsOwn
<1>4. CallShape'
  <2> SUFFICES ASSUME NEW c \in Call
               PROVE  /\ call'[c].phase \in {"awaiting", "sent"} => call'[c].link \in Conn
                      /\ call'[c].phase = "sent" =>
                            ~conn'[call'[c].link].closed
                              /\ conn'[call'[c].link].ready = "resolved"
                      /\ answer'[c] # {} => call'[c].phase = "returned"
                      /\ call'[c].phase = "idle" => call'[c].slot = 1
    BY DEF CallShape, Live
  <2>1. CASE \E p \in X : p.call = c
    BY <2>1
  <2>2. CASE ~\E p \in X : p.call = c
    BY <1>0, <2>2 DEF IndInv, CallShape, Live
  <2> QED BY <2>1, <2>2
<1>5. ConnShape'
  <2>1. ASSUME NEW c \in Call, call[c].phase = "awaiting"
        PROVE  call'[c] = call[c]
    <3>1. \A p \in X : call[p.call].phase = "sent"
      BY DEF IndInv, PendingIsOwed
    <3> QED BY <2>1, <3>1
  <2> QED BY <1>0, <2>1 DEF IndInv, ConnShape, Live
<1>6. IdsUnique' /\ OneQuestionPerSocket'
  BY <1>0 DEF IndInv, IdsUnique, OneQuestionPerSocket
<1>7. AskedOnce'
  <2> SUFFICES ASSUME NEW l \in Conn, NEW p \in conn[l].wire
               PROVE  \/ call'[p.call].slot > p.slot
                      \/ /\ call'[p.call].slot = p.slot
                         /\ \/ call'[p.call].phase = "sent" /\ call'[p.call].link = l
                            \/ call'[p.call].phase = "failed" /\ ~call'[p.call].retryable
                            \/ call'[p.call].phase \in {"thrown", "returned", "threw"}
    BY <1>0 DEF AskedOnce
  <2>1. p.call \in Call
    BY DEF TypeOK, ConnState, Request
  <2> QED BY <2>1 DEF IndInv, AskedOnce
<1> QED BY <1>1, <1>2, <1>3, <1>4, <1>5, <1>6, <1>7 DEF IndInv

LEMMA FailedFields ==
    ASSUME NEW x \in ConnState
    PROVE  LET y == FailReady(Teardown(x)) IN
           /\ y.closed /\ y.ready # "pending" /\ y.pending = {} /\ y.wire = {}
           /\ ~y.refd /\ y.key = x.key
<1> DEFINE t == Teardown(x)
<1>1. t \in ConnState /\ t.closed /\ t.pending = {} /\ t.wire = {} /\ ~t.refd /\ t.key = x.key
  BY ConnUpdates, ConnFields
<1> HIDE DEF t
<1>2. /\ FailReady(t).closed = t.closed /\ FailReady(t).pending = t.pending
      /\ FailReady(t).wire = t.wire /\ FailReady(t).key = t.key
      /\ FailReady(t).refd = t.refd /\ FailReady(t).ready # "pending"
  BY <1>1, ConnFields
<1> QED BY <1>1, <1>2 DEF t

LEMMA FailConnectionIndInv ==
    ASSUME TypeOK, TypeOK', IndInv, NEW k \in Conn, FailConnection(k, TRUE)
    PROVE  IndInv'
<1>1. /\ conn'[k] = FailReady(Teardown(conn[k])) /\ conn[k] \in ConnState
      /\ \A l \in Conn : l # k => conn'[l] = conn[l]
  BY DEF FailConnection, TypeOK
<1>2. /\ conn'[k].closed /\ conn'[k].ready # "pending" /\ conn'[k].pending = {}
      /\ conn'[k].wire = {} /\ ~conn'[k].refd
  BY <1>1, FailedFields
<1>3. \A c \in Call :
        IF call[c].phase = "sent" /\ call[c].link = k
        THEN call'[c] = Rejected(call[c], TRUE) ELSE call'[c] = call[c]
  BY RidersAreOwed DEF FailConnection
<1>4. \A c \in Call :
        /\ Rejected(call[c], TRUE).phase = "failed"
        /\ Rejected(call[c], TRUE).slot = call[c].slot
        /\ Rejected(call[c], TRUE).request = call[c].request
  BY DEF TypeOK, Rejected, CallState
<1>5. answer' = answer /\ \A c \in Call : call[c].phase = "sent" => answer[c] = {}
  BY DEF FailConnection, IndInv, CallShape
<1>6. /\ Live(k) /\ pool' = [pool EXCEPT ![conn[k].key] = IF @ = k THEN NoConn ELSE @]
      /\ requestCounter' = requestCounter
  BY DEF FailConnection, Release, Live
<1>7. \A c \in Call :
        IF call[c].phase = "sent" /\ call[c].link = k
        THEN /\ call'[c].phase \in {"failed", "returned"}
             /\ call'[c].slot = call[c].slot
             /\ call'[c].request = call[c].request
             /\ answer'[c] # {} => call'[c].phase = "returned"
             /\ \A r \in answer'[c] : r.call = c /\ r.id = call[c].request
        ELSE call'[c] = call[c] /\ answer'[c] = answer[c]
  BY <1>3, <1>4, <1>5
<1> QED BY <1>1, <1>2, <1>6, <1>7, Closing

LEMMA IdleCloseIndInv ==
    ASSUME TypeOK, TypeOK', IndInv, NEW k \in Conn, IdleClose(k)
    PROVE  IndInv'
<1>1. /\ conn'[k] = Teardown(conn[k]) /\ conn[k] \in ConnState
      /\ \A l \in Conn : l # k => conn'[l] = conn[l]
  BY DEF IdleClose, TypeOK
<1>2. conn[k].ready # "pending"
  BY DEF IdleClose, IndInv, ConnShape, Live
<1>3. /\ conn'[k].closed /\ conn'[k].ready # "pending" /\ conn'[k].pending = {}
      /\ conn'[k].wire = {} /\ ~conn'[k].refd
  BY <1>1, <1>2, ConnFields
<1>4. \A c \in Call : ~(call[c].phase = "sent" /\ call[c].link = k)
  BY RidersAreOwed DEF IdleClose
<1>5. /\ Live(k) /\ pool' = [pool EXCEPT ![conn[k].key] = IF @ = k THEN NoConn ELSE @]
      /\ requestCounter' = requestCounter /\ call' = call /\ answer' = answer
  BY DEF IdleClose, Release, Live
<1>6. \A c \in Call :
        IF call[c].phase = "sent" /\ call[c].link = k
        THEN /\ call'[c].phase \in {"failed", "returned"}
             /\ call'[c].slot = call[c].slot
             /\ call'[c].request = call[c].request
             /\ answer'[c] # {} => call'[c].phase = "returned"
             /\ \A r \in answer'[c] : r.call = c /\ r.id = call[c].request
        ELSE call'[c] = call[c] /\ answer'[c] = answer[c]
  BY <1>4, <1>5
<1> QED BY <1>1, <1>3, <1>5, <1>6, Closing

\* What the lines of a chunk do to the calls that ride the socket.
LEMMA ChunkEffect ==
    ASSUME TypeOK, IndInv, NEW k \in Conn, NEW R \in SUBSET conn[k].wire,
           NEW bad \in SUBSET R, NEW c \in Call
    PROVE  /\ \A r \in AnswersAfter(k, R, bad)[c] \ answer[c] :
                 r.call = c /\ r.id = call[c].request
           /\ (\E p \in Answered(k, R) : p.call = c)
                <=> \E p \in Answered(k, R) : Owed(p, c)
           /\ IF \E p \in Answered(k, R) : p.call = c
              THEN LET r == AfterLines(k, R, bad)[c] IN
                   /\ r.phase = "returned" \/ (r.phase = "failed" /\ ~r.retryable)
                   /\ r.slot = call[c].slot /\ r.request = call[c].request
                   /\ AnswersAfter(k, R, bad)[c] # {} => r.phase = "returned"
              ELSE /\ AfterLines(k, R, bad)[c] = call[c]
                   /\ AnswersAfter(k, R, bad)[c] = answer[c]
<1> DEFINE A == Answered(k, R)
<1>0. /\ A \subseteq conn[k].pending
      /\ \A p \in A : p.call = c <=> Owed(p, c)
  BY RidersAreOwed DEF Answered, Owed
<1>1. \A p \in conn[k].pending : AnswerTo(p, R) \subseteq {p}
  BY DEF AnswerTo, IndInv, IdsUnique, ConnShape
<1>2. \A p \in A : p.call = c => p.id = call[c].request /\ call[c].phase = "sent"
  BY <1>0 DEF IndInv, PendingIsOwed
<1>3. AnswersAfter(k, R, bad)[c] =
        answer[c] \cup UNION {AnswerTo(p, R \ bad) : p \in {q \in A : Owed(q, c)}}
  BY DEF AnswersAfter
<1>4. \A p : AnswerTo(p, R \ bad) \subseteq AnswerTo(p, R)
             /\ AnswerTo(p, bad) \subseteq AnswerTo(p, R)
  BY DEF AnswerTo
<1>5. \A r \in AnswersAfter(k, R, bad)[c] \ answer[c] :
         r \in A /\ r.call = c /\ r.id = call[c].request
  <2> SUFFICES ASSUME NEW p \in A, Owed(p, c), NEW r \in AnswerTo(p, R \ bad)
               PROVE  r \in A /\ r.call = c /\ r.id = call[c].request
    BY <1>3
  <2>1. r = p
    BY <1>0, <1>1, <1>4
  <2> QED BY <2>1, <1>0, <1>2
<1>6. ASSUME NEW p \in A, p.call = c
      PROVE  /\ AfterLines(k, R, bad)[c].phase \in {"returned", "failed"}
             /\ AfterLines(k, R, bad)[c].phase = "failed" =>
                   ~AfterLines(k, R, bad)[c].retryable
             /\ AfterLines(k, R, bad)[c].slot = call[c].slot
             /\ AfterLines(k, R, bad)[c].request = call[c].request
             /\ AnswersAfter(k, R, bad)[c] # {} =>
                   AfterLines(k, R, bad)[c].phase = "returned"
  <2>0. call[c] \in CallState
    BY DEF TypeOK
  <2>1. /\ Rejected(call[c], FALSE).phase = "failed"
        /\ ~Rejected(call[c], FALSE).retryable
        /\ Rejected(call[c], FALSE).slot = call[c].slot
        /\ Rejected(call[c], FALSE).request = call[c].request
    BY <2>0 DEF Rejected, CallState
  <2>2. /\ Resolved(call[c]).phase = "returned"
        /\ Resolved(call[c]).slot = call[c].slot
        /\ Resolved(call[c]).request = call[c].request
    BY <2>0, CallFields
  <2>3. answer[c] = {}
    BY <1>2, <1>6 DEF IndInv, CallShape
  <2>4. CASE \E q \in A : Owed(q, c) /\ AnswerTo(q, bad) # {}
    <3>1. AfterLines(k, R, bad)[c] = Rejected(call[c], FALSE)
      BY <2>4 DEF AfterLines
    <3>2. PICK q \in A : Owed(q, c) /\ AnswerTo(q, bad) # {}
      BY <2>4
    <3>3. \A s \in A : Owed(s, c) => s = q
      <4> SUFFICES ASSUME NEW s \in A, Owed(s, c) PROVE s = q
        OBVIOUS
      <4>1. s.id = q.id /\ s \in conn[k].wire /\ q \in conn[k].wire
        BY <3>2, <1>0 DEF Owed, IndInv, ConnShape
      <4> QED BY <4>1 DEF IndInv, IdsUnique
    <3>4. AnswerTo(q, R \ bad) = {}
      <4>1. PICK b \in bad : b.id = q.id
        BY <3>2 DEF AnswerTo
      <4>2. \A r \in R : r.id = q.id => r = q
        BY <1>0, <1>1 DEF AnswerTo
      <4> QED BY <4>1, <4>2 DEF AnswerTo
    <3>5. AnswersAfter(k, R, bad)[c] = {}
      BY <1>3, <2>3, <3>3, <3>4
    <3> QED BY <2>1, <3>1, <3>5
  <2>5. CASE ~\E q \in A : Owed(q, c) /\ AnswerTo(q, bad) # {}
    <3>1. AfterLines(k, R, bad)[c] = Resolved(call[c])
      BY <1>0, <1>6, <2>5 DEF AfterLines
    <3> QED BY <2>2, <3>1
  <2> QED BY <2>4, <2>5
<1>7. ASSUME ~\E p \in A : p.call = c
      PROVE  AfterLines(k, R, bad)[c] = call[c] /\ AnswersAfter(k, R, bad)[c] = answer[c]
  <2>1. ~\E p \in A : Owed(p, c)
    BY <1>0, <1>7
  <2> QED BY <2>1, <1>3 DEF AfterLines
<1>8. (\E p \in A : p.call = c) <=> \E p \in A : Owed(p, c)
  BY <1>0
<1> HIDE DEF A
<1>9. \A r \in AnswersAfter(k, R, bad)[c] \ answer[c] :
         r.call = c /\ r.id = call[c].request
  BY <1>5
<1>10. CASE \E p \in A : p.call = c
  BY <1>6, <1>8, <1>9, <1>10 DEF A
<1>11. CASE ~\E p \in A : p.call = c
  BY <1>7, <1>8, <1>9, <1>11 DEF A
<1> QED BY <1>10, <1>11

LEMMA KeptFields ==
    ASSUME NEW x \in ConnState, ~x.closed, NEW P \in SUBSET Request
    PROVE  LET y == NoteActivity(Keeping(x, P)) IN
           /\ y.key = x.key /\ y.ready = x.ready /\ ~y.closed /\ y.pending = P
           /\ y.wire = x.wire /\ (y.refd <=> P # {})
<1> DEFINE z == Keeping(x, P)
<1>1. z \in ConnState
  BY ConnUpdates
<1>2. /\ z.key = x.key /\ z.ready = x.ready /\ z.closed = x.closed
      /\ z.pending = P /\ z.wire = x.wire
  BY DEF Keeping, ConnState
<1> HIDE DEF z
<1> QED BY <1>1, <1>2, ConnFields DEF z

LEMMA ReceiveIndInv ==
    ASSUME TypeOK, TypeOK', IndInv, NEW k \in Conn, NEW R \in SUBSET conn[k].wire,
           NEW bad \in SUBSET R, Receive(k, R, bad)
    PROVE  IndInv'
<1> DEFINE X == Answered(k, R)
           P == conn[k].pending \ X
<1>0. X \in SUBSET conn[k].pending /\ P \in SUBSET Request /\ conn[k] \in ConnState
  BY DEF Answered, TypeOK, ConnState
<1>1. /\ conn'[k] = NoteActivity(Keeping(conn[k], P))
      /\ \A l \in Conn : l # k => conn'[l] = conn[l]
  BY DEF Receive, TypeOK
<1> HIDE DEF P
<1>2. /\ conn'[k].key = conn[k].key /\ conn'[k].ready = conn[k].ready
      /\ ~conn'[k].closed /\ conn'[k].pending = P
      /\ conn'[k].wire = conn[k].wire /\ (conn'[k].refd <=> P # {})
  BY <1>0, <1>1, KeptFields DEF Receive
<1>3. ASSUME NEW c \in Call
      PROVE  IF \E p \in X : p.call = c
             THEN /\ \/ call'[c].phase = "returned"
                     \/ call'[c].phase = "failed" /\ ~call'[c].retryable
                  /\ call'[c].slot = call[c].slot
                  /\ call'[c].request = call[c].request
                  /\ answer'[c] # {} => call'[c].phase = "returned"
                  /\ \A r \in answer'[c] : r.call = c /\ r.id = call[c].request
             ELSE call'[c] = call[c] /\ answer'[c] = answer[c]
  <2>1. call'[c] = AfterLines(k, R, bad)[c] /\ answer'[c] = AnswersAfter(k, R, bad)[c]
    BY DEF Receive
  <2>2. \A r \in answer[c] : r.call = c /\ r.id = call[c].request
    BY DEF IndInv, AnswerIsOwn
  <2>3. CASE \E p \in X : p.call = c
    BY <2>1, <2>2, <2>3, ChunkEffect
  <2>4. CASE ~\E p \in X : p.call = c
    BY <2>1, <2>4, ChunkEffect
  <2> HIDE DEF X
  <2> QED BY <2>3, <2>4
<1>4. pool' = pool /\ requestCounter' = requestCounter /\ conn[k].ready = "resolved" /\ Live(k)
  BY DEF Receive, Live
<1> HIDE DEF X
<1>5. conn'[k].pending = conn[k].pending \ X /\ (conn'[k].refd <=> conn[k].pending \ X # {})
  BY <1>2 DEF P
<1>6. ~conn'[k].closed /\ conn'[k].key = conn[k].key /\ conn'[k].ready = conn[k].ready
      /\ conn'[k].wire = conn[k].wire
  BY <1>2
<1>7. X \in SUBSET conn[k].pending /\ \A l \in Conn : l # k => conn'[l] = conn[l]
  BY <1>0, <1>1
<1> QED BY ONLY TypeOK, TypeOK', IndInv, k \in Conn, <1>3, <1>4, <1>5, <1>6, <1>7, Settling

LEMMA ReceiveGarbledIndInv ==
    ASSUME TypeOK, TypeOK', IndInv, NEW k \in Conn, NEW R \in SUBSET conn[k].wire,
           NEW bad \in SUBSET R, ReceiveGarbled(k, R, bad)
    PROVE  IndInv'
<1> DEFINE X == Answered(k, R)
<1>1. /\ conn'[k] = FailReady(Teardown(conn[k])) /\ conn[k] \in ConnState
      /\ \A l \in Conn : l # k => conn'[l] = conn[l]
  BY DEF ReceiveGarbled, TypeOK
<1>2. /\ conn'[k].closed /\ conn'[k].ready # "pending" /\ conn'[k].pending = {}
      /\ conn'[k].wire = {} /\ ~conn'[k].refd
  BY <1>1, FailedFields
<1>3. ASSUME NEW c \in Call
      PROVE  IF call[c].phase = "sent" /\ call[c].link = k
             THEN /\ call'[c].phase \in {"failed", "returned"}
                  /\ call'[c].slot = call[c].slot
                  /\ call'[c].request = call[c].request
                  /\ answer'[c] # {} => call'[c].phase = "returned"
                  /\ \A r \in answer'[c] : r.call = c /\ r.id = call[c].request
             ELSE call'[c] = call[c] /\ answer'[c] = answer[c]
  <2> DEFINE rest == \E p \in conn[k].pending \ X : Owed(p, c)
  <2>1. /\ call'[c] = IF rest THEN Rejected(call[c], FALSE)
                              ELSE AfterLines(k, R, bad)[c]
        /\ answer'[c] = AnswersAfter(k, R, bad)[c]
    BY DEF ReceiveGarbled
  <2>2. \A r \in answer[c] : r.call = c /\ r.id = call[c].request
    BY DEF IndInv, AnswerIsOwn
  <2>3. X \subseteq conn[k].pending
    BY DEF Answered
  <2>4. (\E p \in conn[k].pending : Owed(p, c)) <=> call[c].phase = "sent" /\ call[c].link = k
    BY RidersAreOwed
  <2>5. \A p \in X : p.call = c <=> Owed(p, c)
    BY <2>3, RidersAreOwed DEF Owed
  <2>6. CASE \E p \in X : p.call = c
    <3>1. PICK p \in X : p.call = c /\ Owed(p, c)
      BY <2>5, <2>6
    <3>2. ~rest
      <4> SUFFICES ASSUME NEW q \in conn[k].pending \ X, Owed(q, c) PROVE FALSE
        OBVIOUS
      <4>1. q.id = p.id /\ q \in conn[k].wire /\ p \in conn[k].wire
        BY <3>1, <2>3 DEF Owed, IndInv, ConnShape
      <4> QED BY <4>1, <3>1 DEF IndInv, IdsUnique
    <3>3. call[c].phase = "sent" /\ call[c].link = k
      BY <3>1, <2>3, <2>4
    <3>4. call'[c] = AfterLines(k, R, bad)[c] /\ answer'[c] = AnswersAfter(k, R, bad)[c]
      BY <2>1, <3>2
    <3> HIDE DEF rest
    <3> QED BY <3>3, <3>4, <2>2, <2>6, ChunkEffect
  <2>7. CASE ~(\E p \in X : p.call = c) /\ rest
    <3>1. call'[c] = Rejected(call[c], FALSE) /\ call[c] \in CallState
      BY <2>1, <2>7 DEF TypeOK
    <3>2. /\ call'[c].phase = "failed" /\ call'[c].slot = call[c].slot
          /\ call'[c].request = call[c].request
      BY <3>1 DEF Rejected, CallState
    <3>3. answer'[c] = answer[c]
      BY <2>1, <2>7, ChunkEffect
    <3>4. call[c].phase = "sent" /\ call[c].link = k
      BY <2>4, <2>7
    <3>5. answer[c] = {}
      BY <3>4 DEF IndInv, CallShape
    <3> QED BY <3>2, <3>3, <3>4, <3>5
  <2>8. CASE ~(\E p \in X : p.call = c) /\ ~rest
    <3>1. call'[c] = call[c] /\ answer'[c] = answer[c]
      BY <2>1, <2>8, ChunkEffect
    <3>2. ~(call[c].phase = "sent" /\ call[c].link = k)
      BY <2>4, <2>5, <2>8
    <3> QED BY <3>1, <3>2
  <2> QED BY <2>6, <2>7, <2>8
<1> QED BY <1>1, <1>2, <1>3, Closing DEF ReceiveGarbled, Release, Live

LEMMA RequestTimeoutIndInv ==
    ASSUME TypeOK, TypeOK', IndInv, NEW c \in Call, RequestTimeout(c)
    PROVE  IndInv'
<1> DEFINE k == call[c].link
           P == WithoutRequest(c, conn[k].pending)
           X == conn[k].pending \ P
<1>0. /\ k \in Conn /\ Live(k) /\ conn[k].ready = "resolved" /\ conn[k] \in ConnState
      /\ call[c].phase = "sent" /\ call[c] \in CallState
  BY DEF RequestTimeout, IndInv, CallShape, TypeOK
<1>1. P \in SUBSET Request /\ P = conn[k].pending \ X
  BY <1>0 DEF WithoutRequest, ConnState
<1>2. /\ conn'[k] = NoteActivity(Keeping(conn[k], P))
      /\ \A l \in Conn : l # k => conn'[l] = conn[l]
  BY <1>0 DEF RequestTimeout, TypeOK
<1>3. \A p \in X : p.call = c
  <2> SUFFICES ASSUME NEW p \in X PROVE p.call = c
    OBVIOUS
  <2>1. p \in conn[k].pending /\ p.id = call[c].request
    BY DEF WithoutRequest
  <2>2. PICK q \in conn[k].pending : q.id = call[c].request /\ q.call = c
    BY <1>0 DEF IndInv, PendingIsOwed
  <2>3. p \in conn[k].wire /\ q \in conn[k].wire
    BY <1>0, <2>1, <2>2 DEF IndInv, ConnShape
  <2> QED BY <1>0, <2>1, <2>2, <2>3 DEF IndInv, IdsUnique
<1>4. \E p \in X : p.call = c
  <2>1. PICK q \in conn[k].pending : q.id = call[c].request /\ q.call = c
    BY <1>0 DEF IndInv, PendingIsOwed
  <2>2. q \notin P
    BY <2>1 DEF WithoutRequest
  <2> QED BY <2>1, <2>2
<1>5. /\ call'[c] = Rejected(call[c], FALSE)
      /\ \A d \in Call : d # c => call'[d] = call[d]
      /\ answer' = answer /\ pool' = pool /\ requestCounter' = requestCounter
  BY DEF RequestTimeout, TimeoutRetryable, TypeOK
<1>6. /\ call'[c].phase = "failed" /\ ~call'[c].retryable
      /\ call'[c].slot = call[c].slot /\ call'[c].request = call[c].request
  BY <1>0, <1>5 DEF Rejected, CallState
<1>7. answer[c] = {}
  BY <1>0 DEF IndInv, CallShape
<1> HIDE DEF P, X, k
<1>8. /\ conn'[k].key = conn[k].key /\ conn'[k].ready = conn[k].ready
      /\ ~conn'[k].closed /\ conn'[k].pending = P
      /\ conn'[k].wire = conn[k].wire /\ (conn'[k].refd <=> P # {})
  BY <1>0, <1>1, <1>2, KeptFields DEF Live
<1>9. X \in SUBSET conn[k].pending
  BY DEF X
<1>10. \A d \in Call :
         IF \E p \in X : p.call = d
         THEN /\ \/ call'[d].phase = "returned"
                 \/ call'[d].phase = "failed" /\ ~call'[d].retryable
              /\ call'[d].slot = call[d].slot
              /\ call'[d].request = call[d].request
              /\ answer'[d] # {} => call'[d].phase = "returned"
              /\ \A r \in answer'[d] : r.call = d /\ r.id = call[d].request
         ELSE call'[d] = call[d] /\ answer'[d] = answer[d]
  BY <1>3, <1>4, <1>5, <1>6, <1>7
<1>11. conn'[k].pending = conn[k].pending \ X /\ (conn'[k].refd <=> conn[k].pending \ X # {})
  BY <1>1, <1>8
<1> QED BY <1>0, <1>2, <1>5, <1>8, <1>9, <1>10, <1>11, Settling

LEMMA ConnectedIndInv ==
    ASSUME TypeOK, TypeOK', IndInv, NEW k \in Conn, Connected(k)
    PROVE  IndInv'
<1> DEFINE z == [conn[k] EXCEPT !.ready = "resolved"]
<1>0. /\ conn[k] \in ConnState /\ ~conn[k].closed /\ conn[k].ready = "pending"
      /\ conn[k].wire = {} /\ conn[k].pending = {}
  BY DEF Connected, TypeOK, IndInv, ConnShape, Live
<1>1. conn'[k] = NoteActivity(z) /\ \A l \in Conn : l # k => conn'[l] = conn[l]
  BY DEF Connected, TypeOK
<1>2. /\ z \in ConnState /\ z.key = conn[k].key /\ z.ready = "resolved" /\ ~z.closed
      /\ z.pending = {} /\ z.wire = {}
  BY <1>0 DEF ConnState
<1> HIDE DEF z
<1>3. /\ conn'[k].key = conn[k].key /\ conn'[k].ready = "resolved" /\ ~conn'[k].closed
      /\ conn'[k].pending = {} /\ conn'[k].wire = {} /\ ~conn'[k].refd
  BY <1>1, <1>2, ConnFields
<1>4. call' = call /\ pool' = pool /\ requestCounter' = requestCounter /\ answer' = answer
  BY DEF Connected
<1>5. \A e \in Key : pool[e] # NoConn => pool[e] \in Conn
  BY DEF TypeOK
<1>6. PoolIsLive'
  BY <1>0, <1>1, <1>3, <1>4, <1>5 DEF IndInv, PoolIsLive, Live
<1>7. PendingIsOwed'
  <2>1. \A c \in Call : call[c].phase = "sent" => call[c].link \in Conn /\ call[c].link # k
    BY <1>0 DEF IndInv, CallShape
  <2> QED BY <1>1, <1>3, <1>4, <2>1 DEF IndInv, PendingIsOwed
<1>8. CallShape'
  BY <1>0, <1>1, <1>3, <1>4 DEF IndInv, CallShape, Live
<1>9. ConnShape'
  BY <1>1, <1>3, <1>4 DEF IndInv, ConnShape, Live
<1>10. AnswerIsOwn' /\ IdsUnique' /\ OneQuestionPerSocket' /\ AskedOnce'
  BY <1>1, <1>3, <1>4 DEF IndInv, AnswerIsOwn, IdsUnique, OneQuestionPerSocket, AskedOnce
<1> QED BY <1>6, <1>7, <1>8, <1>9, <1>10 DEF IndInv

LEMMA CarriedFields ==
    ASSUME NEW x \in ConnState, ~x.closed, NEW p \in Request
    PROVE  LET y == NoteActivity(Carrying(x, p)) IN
           /\ y.key = x.key /\ y.ready = x.ready /\ ~y.closed
           /\ y.pending = x.pending \cup {p} /\ y.wire = x.wire \cup {p} /\ y.refd
<1> DEFINE z == Carrying(x, p)
<1>1. z \in ConnState
  BY ConnUpdates
<1>2. /\ z.key = x.key /\ z.ready = x.ready /\ z.closed = x.closed
      /\ z.pending = x.pending \cup {p} /\ z.wire = x.wire \cup {p}
  BY DEF Carrying, ConnState
<1> HIDE DEF z
<1>3. z.pending # {}
  BY <1>2
<1> QED BY <1>1, <1>2, <1>3, ConnFields DEF z

LEMMA SendIndInv ==
    ASSUME TypeOK, TypeOK', IndInv, NEW c \in Call, Send(c)
    PROVE  IndInv'
<1> DEFINE k == call[c].link
           p == [id |-> requestCounter + 1, call |-> c, slot |-> call[c].slot]
<1>0. /\ k \in Conn /\ conn[k] \in ConnState /\ ~conn[k].closed /\ conn[k].ready = "resolved"
      /\ call[c] \in CallState /\ call[c].phase = "awaiting" /\ requestCounter \in Nat
      /\ call[c].slot \in Nat
  BY SlotKeys DEF Send, Writable, IndInv, CallShape, TypeOK, CallState
<1>1. /\ p \in Request /\ p.id = requestCounter + 1 /\ p.call = c /\ p.slot = call[c].slot
  BY DEF Request, TypeOK, CallState
<1>2. conn'[k] = NoteActivity(Carrying(conn[k], p))
      /\ \A l \in Conn : l # k => conn'[l] = conn[l]
  BY <1>0 DEF Send, TypeOK
<1>3. /\ call'[c] = Written(call[c], requestCounter + 1)
      /\ \A d \in Call : d # c => call'[d] = call[d]
      /\ pool' = pool /\ answer' = answer /\ requestCounter' = requestCounter + 1
  BY DEF Send, TypeOK
<1>4. /\ call'[c].phase = "sent" /\ call'[c].request = requestCounter + 1
      /\ call'[c].slot = call[c].slot /\ call'[c].link = k
  BY <1>0, <1>3, CallFields
<1> HIDE DEF p
<1> HIDE DEF k
<1>6. /\ conn'[k].key = conn[k].key /\ conn'[k].ready = "resolved" /\ ~conn'[k].closed
      /\ conn'[k].pending = conn[k].pending \cup {p}
      /\ conn'[k].wire = conn[k].wire \cup {p} /\ conn'[k].refd
  BY <1>0, <1>1, <1>2, CarriedFields
<1>7. \A e \in Key : pool[e] # NoConn => pool[e] \in Conn
  BY DEF TypeOK
<1>8. PoolIsLive'
  BY <1>0, <1>2, <1>3, <1>6, <1>7 DEF IndInv, PoolIsLive, Live
<1>9. PendingIsOwed'
  <2>1. ASSUME NEW d \in Call, call'[d].phase = "sent"
        PROVE  [id |-> call'[d].request, call |-> d, slot |-> call'[d].slot]
                  \in conn'[call'[d].link].pending
    <3>1. CASE d = c
      BY <1>4, <1>6, <3>1 DEF p
    <3>2. CASE d # c
      <4>1. call'[d] = call[d] /\ call[d].link \in Conn
        BY <1>3, <2>1, <3>2 DEF IndInv, CallShape
      <4>2. [id |-> call[d].request, call |-> d, slot |-> call[d].slot]
               \in conn[call[d].link].pending
        BY <2>1, <4>1 DEF IndInv, PendingIsOwed
      <4>3. \A l \in Conn : conn[l].pending \subseteq conn'[l].pending
        BY <1>2, <1>6
      <4> QED BY <4>1, <4>2, <4>3
    <3> QED BY <3>1, <3>2
  <2>2. ASSUME NEW l \in Conn, NEW q \in conn'[l].pending
        PROVE  call'[q.call].phase = "sent" /\ call'[q.call].link = l
               /\ call'[q.call].request = q.id
    <3>1. CASE q \in conn[l].pending
      <4>1. q.call \in Call /\ call[q.call].phase = "sent" /\ call[q.call].link = l
            /\ call[q.call].request = q.id
        BY <3>1 DEF IndInv, PendingIsOwed, TypeOK, ConnState, Request
      <4> QED BY <4>1, <1>0, <1>3
    <3>2. CASE q \notin conn[l].pending
      BY <1>1, <1>2, <1>4, <1>6, <3>2
    <3> QED BY <3>1, <3>2
  <2> QED BY <2>1, <2>2 DEF PendingIsOwed
<1>10. CallShape' /\ AnswerIsOwn'
  <2>1. answer[c] = {}
    BY <1>0 DEF IndInv, CallShape
  <2>2. \A l \in Conn : conn'[l].closed <=> conn[l].closed
    BY <1>0, <1>2, <1>6
  <2>3. \A l \in Conn : conn'[l].ready = conn[l].ready
    BY <1>0, <1>2, <1>6
  <2>4. AnswerIsOwn'
    BY <1>3, <2>1 DEF IndInv, AnswerIsOwn
  <2>5. CallShape'
    BY <1>0, <1>3, <1>4, <2>1, <2>2, <2>3 DEF IndInv, CallShape, Live
  <2> QED BY <2>4, <2>5
<1>11. ConnShape'
  <2> SUFFICES ASSUME NEW l \in Conn
               PROVE  /\ conn'[l].pending \subseteq conn'[l].wire
                      /\ conn'[l].closed => conn'[l].ready # "pending"
                            /\ conn'[l].wire = {} /\ ~conn'[l].refd
                      /\ ~conn'[l].closed => conn'[l].ready # "rejected"
                      /\ ~conn'[l].closed /\ conn'[l].ready = "resolved" =>
                            (conn'[l].refd <=> conn'[l].pending # {})
                      /\ ~conn'[l].closed /\ conn'[l].ready = "pending" =>
                            /\ conn'[l].wire = {} /\ conn'[l].refd /\ ~conn'[l].idleTimer
                            /\ \E d \in Call : call'[d].phase = "awaiting"
                                               /\ call'[d].link = l
    BY DEF ConnShape, Live
  <2>1. CASE l = k
    <3>1. conn[k].pending \subseteq conn[k].wire
      BY <1>0 DEF IndInv, ConnShape
    <3> QED BY <1>6, <2>1, <3>1
  <2>2. CASE l # k
    <3>1. conn'[l] = conn[l]
      BY <1>2, <2>2
    <3>2. \A d \in Call : call[d].link = l => call'[d] = call[d]
      BY <1>3, <2>2 DEF k
    <3> QED BY <3>1, <3>2 DEF IndInv, ConnShape, Live
  <2> QED BY <2>1, <2>2
<1>12. /\ \A l \in Conn : \A q \in conn'[l].wire :
             q \in conn[l].wire \/ (q = p /\ l = k)
       /\ \A l \in Conn : \A q \in conn[l].wire :
             q.id \in Nat /\ q.slot \in Nat /\ q.call \in Call /\ q.id <= requestCounter
  <2>1. \A l \in Conn : \A q \in conn'[l].wire : q \in conn[l].wire \/ (q = p /\ l = k)
    BY <1>2, <1>6
  <2>2. \A l \in Conn : \A q \in conn[l].wire : q \in Request
    BY DEF TypeOK, ConnState
  <2> QED BY <2>1, <2>2, SlotKeys DEF Request, IndInv, IdsUnique
<1>13. IdsUnique'
  <2>1. ASSUME NEW l \in Conn, NEW q \in conn'[l].wire
        PROVE  q.id <= requestCounter'
    BY <1>0, <1>1, <1>3, <1>12
  <2>2. ASSUME NEW l \in Conn, NEW m \in Conn, NEW q \in conn'[l].wire,
               NEW r \in conn'[m].wire, q.id = r.id
        PROVE  q = r
    <3>1. CASE q = p \/ r = p
      BY <1>0, <1>1, <1>12, <2>2, <3>1
    <3>2. CASE q # p /\ r # p
      BY <1>12, <2>2, <3>2 DEF IndInv, IdsUnique
    <3> QED BY <3>1, <3>2
  <2> QED BY <2>1, <2>2 DEF IdsUnique
<1>14. \A l \in Conn : \A q \in conn[l].wire : q.call = c => q.slot < call[c].slot
  <2> SUFFICES ASSUME NEW l \in Conn, NEW q \in conn[l].wire, q.call = c
               PROVE  q.slot < call[c].slot
    OBVIOUS
  <2>1. call[c].slot > q.slot
    BY <1>0 DEF IndInv, AskedOnce
  <2> QED BY <1>0, <1>12, <2>1
<1>15. OneQuestionPerSocket'
  <2> SUFFICES ASSUME NEW l \in Conn, NEW q \in conn'[l].wire, NEW r \in conn'[l].wire,
                      q.call = r.call, q.slot = r.slot
               PROVE  q = r
    BY DEF OneQuestionPerSocket
  <2>1. CASE q \in conn[l].wire /\ r \in conn[l].wire
    BY <2>1 DEF IndInv, OneQuestionPerSocket
  <2>2. CASE ~(q \in conn[l].wire /\ r \in conn[l].wire)
    BY <1>0, <1>1, <1>12, <1>14, <2>2
  <2> QED BY <2>1, <2>2
<1>16. AskedOnce'
  <2> SUFFICES ASSUME NEW l \in Conn, NEW q \in conn'[l].wire
               PROVE  \/ call'[q.call].slot > q.slot
                      \/ /\ call'[q.call].slot = q.slot
                         /\ \/ call'[q.call].phase = "sent" /\ call'[q.call].link = l
                            \/ call'[q.call].phase = "failed" /\ ~call'[q.call].retryable
                            \/ call'[q.call].phase \in {"thrown", "returned", "threw"}
    BY DEF AskedOnce
  <2>1. CASE q \in conn[l].wire /\ q.call = c
    <3>1. q.slot < call[c].slot /\ q.slot \in Nat
      BY <1>12, <1>14, <2>1
    <3> QED BY <1>0, <1>4, <2>1, <3>1
  <2>2. CASE q \in conn[l].wire /\ q.call # c
    BY <1>3, <1>12, <2>2 DEF IndInv, AskedOnce
  <2>3. CASE q \notin conn[l].wire
    BY <1>1, <1>4, <1>12, <2>3
  <2> QED BY <2>1, <2>2, <2>3
<1> QED BY <1>8, <1>9, <1>10, <1>11, <1>13, <1>15, <1>16 DEF IndInv

\* acquire for a call whose earlier requests were all to endpoints before s.
LEMMA AttemptIndInv ==
    ASSUME TypeOK, TypeOK', IndInv, NEW c \in Call, NEW s \in Slot, NEW n \in {1, 2},
           call[c].phase \in {"idle", "failed", "thrown"},
           \A l \in Conn : \A p \in conn[l].wire : p.call = c => s > p.slot,
           Attempt(c, s, n)
    PROVE  IndInv'
<1> DEFINE e == Endpoints[s]
<1>0. /\ e \in Key /\ answer' = answer /\ requestCounter' = requestCounter
      /\ answer[c] = {} /\ call[c] \in CallState
  BY SlotKeys DEF Attempt, IndInv, CallShape, TypeOK
<1>1. PICK k \in Conn, b \in BOOLEAN :
        /\ call' = [call EXCEPT ![c] = Attempting(call[c], s, n, k, b)]
        /\ \/ /\ pool[e] = k /\ ~conn[k].closed /\ conn' = conn /\ pool' = pool
           \/ /\ ~Pooled(e) /\ Unreachable(k, c)
              /\ conn' = [conn EXCEPT ![k] = Dialling(e)]
              /\ pool' = [pool EXCEPT ![e] = k]
  <2>1. CASE Reuse(c, s, n)
    <3>1. pool[e] \in Conn
      BY <2>1, <1>0 DEF Reuse, Pooled, TypeOK
    <3> QED BY <2>1, <3>1 DEF Reuse, Pooled
  <2>2. CASE Dial(c, s, n)
    BY <2>2 DEF Dial
  <2> QED BY <2>1, <2>2 DEF Attempt
<1>2. /\ call'[c].phase = "awaiting" /\ call'[c].slot = s /\ call'[c].link = k
      /\ \A d \in Call : d # c => call'[d] = call[d]
  <2>1. call'[c] = Attempting(call[c], s, n, k, b)
    BY <1>1 DEF TypeOK
  <2>2. /\ call'[c].phase = "awaiting" /\ call'[c].slot = s /\ call'[c].link = k
    BY <2>1 DEF Attempting
  <2> QED BY <1>1, <2>2 DEF TypeOK
<1>3. \A d \in Call : call'[d].phase = "sent" => d # c /\ call'[d] = call[d]
  BY <1>2
<1>4. \A l \in Conn : \A p \in conn[l].pending : p.call # c /\ p.call \in Call
  BY DEF IndInv, PendingIsOwed, TypeOK, ConnState, Request
<1>5. AnswerIsOwn'
  BY <1>0, <1>2 DEF IndInv, AnswerIsOwn
<1>6. CASE /\ pool[e] = k /\ ~conn[k].closed /\ conn' = conn /\ pool' = pool
  <2>1. PoolIsLive' /\ IdsUnique' /\ OneQuestionPerSocket'
    BY <1>0, <1>6 DEF IndInv, PoolIsLive, Live, IdsUnique, OneQuestionPerSocket
  <2>2. PendingIsOwed'
    BY <1>2, <1>3, <1>4, <1>6 DEF IndInv, PendingIsOwed
  <2>3. CallShape'
    BY <1>0, <1>2, <1>3, <1>6 DEF IndInv, CallShape, Live
  <2>4. ConnShape'
    BY <1>2, <1>6 DEF IndInv, ConnShape, Live
  <2>5. AskedOnce'
    <3> SUFFICES ASSUME NEW l \in Conn, NEW q \in conn[l].wire
                 PROVE  \/ call'[q.call].slot > q.slot
                        \/ /\ call'[q.call].slot = q.slot
                           /\ \/ call'[q.call].phase = "sent" /\ call'[q.call].link = l
                              \/ call'[q.call].phase = "failed" /\ ~call'[q.call].retryable
                              \/ call'[q.call].phase \in {"thrown", "returned", "threw"}
      BY <1>6 DEF AskedOnce
    <3>1. q.call \in Call
      BY DEF TypeOK, ConnState, Request
    <3> QED BY <1>2, <3>1 DEF IndInv, AskedOnce
  <2> QED BY <1>5, <2>1, <2>2, <2>3, <2>4, <2>5 DEF IndInv
<1>7. CASE /\ ~Pooled(e) /\ Unreachable(k, c)
           /\ conn' = [conn EXCEPT ![k] = Dialling(e)]
           /\ pool' = [pool EXCEPT ![e] = k]
  <2>1. /\ conn'[k].key = e /\ conn'[k].ready = "pending" /\ ~conn'[k].closed
        /\ conn'[k].pending = {} /\ conn'[k].wire = {} /\ conn'[k].refd
        /\ ~conn'[k].idleTimer
        /\ \A l \in Conn : l # k => conn'[l] = conn[l]
        /\ pool'[e] = k /\ \A f \in Key : f # e => pool'[f] = pool[f]
    BY <1>0, <1>7 DEF Dialling, TypeOK
  <2>2. /\ conn[k].closed
        /\ \A d \in Call : d # c /\ call[d].phase \in {"awaiting", "sent"} =>
              call[d].link # k /\ call[d].link \in Conn
    BY <1>7 DEF Unreachable, IndInv, CallShape, Live
  <2>3. PoolIsLive'
    <3>1. ASSUME NEW f \in Key, pool'[f] # NoConn
          PROVE  ~conn'[pool'[f]].closed /\ conn'[pool'[f]].key = f
      <4>1. CASE f = e
        BY <2>1, <4>1
      <4>2. CASE f # e
        <5>1. pool'[f] = pool[f] /\ pool[f] \in Conn /\ pool[f] # k
          BY <2>1, <2>2, <3>1, <4>2 DEF IndInv, PoolIsLive, Live, TypeOK
        <5> QED BY <2>1, <3>1, <5>1 DEF IndInv, PoolIsLive, Live
      <4> QED BY <4>1, <4>2
    <3>2. ASSUME NEW l \in Conn, ~conn'[l].closed
          PROVE  pool'[conn'[l].key] = l
      <4>1. CASE l = k
        BY <2>1, <4>1
      <4>2. CASE l # k
        <5>1. conn'[l] = conn[l] /\ ~conn[l].closed /\ pool[conn[l].key] = l
          BY <2>1, <3>2, <4>2 DEF IndInv, PoolIsLive, Live
        <5>2. conn[l].key # e /\ conn[l].key \in Key
          BY <1>7, <5>1, ConnAssumption DEF Pooled, TypeOK, ConnState
        <5> QED BY <2>1, <5>1, <5>2
      <4> QED BY <4>1, <4>2
    <3> QED BY <3>1, <3>2 DEF PoolIsLive, Live
  <2>4. PendingIsOwed'
    <3>1. ASSUME NEW d \in Call, call'[d].phase = "sent"
          PROVE  [id |-> call'[d].request, call |-> d, slot |-> call'[d].slot]
                    \in conn'[call'[d].link].pending
      BY <1>3, <2>1, <2>2, <3>1 DEF IndInv, PendingIsOwed
    <3>2. ASSUME NEW l \in Conn, NEW q \in conn'[l].pending
          PROVE  call'[q.call].phase = "sent" /\ call'[q.call].link = l
                 /\ call'[q.call].request = q.id
      <4>1. q \in conn[l].pending
        BY <2>1
      <4> QED BY <1>2, <1>4, <4>1 DEF IndInv, PendingIsOwed
    <3> QED BY <3>1, <3>2 DEF PendingIsOwed
  <2>5. CallShape'
    BY <1>0, <1>2, <2>1, <2>2 DEF IndInv, CallShape, Live
  <2>6. ConnShape'
    <3> SUFFICES ASSUME NEW l \in Conn
                 PROVE  /\ conn'[l].pending \subseteq conn'[l].wire
                        /\ conn'[l].closed => conn'[l].ready # "pending"
                              /\ conn'[l].wire = {} /\ ~conn'[l].refd
                        /\ ~conn'[l].closed => conn'[l].ready # "rejected"
                        /\ ~conn'[l].closed /\ conn'[l].ready = "resolved" =>
                              (conn'[l].refd <=> conn'[l].pending # {})
                        /\ ~conn'[l].closed /\ conn'[l].ready = "pending" =>
                              /\ conn'[l].wire = {} /\ conn'[l].refd
                              /\ ~conn'[l].idleTimer
                              /\ \E d \in Call : call'[d].phase = "awaiting"
                                                 /\ call'[d].link = l
      BY DEF ConnShape, Live
    <3>1. CASE l = k
      BY <1>2, <2>1, <3>1
    <3>2. CASE l # k
      BY <1>2, <2>1, <3>2 DEF IndInv, ConnShape, Live
    <3> QED BY <3>1, <3>2
  <2>7. IdsUnique' /\ OneQuestionPerSocket'
    BY <1>0, <2>1 DEF IndInv, IdsUnique, OneQuestionPerSocket
  <2>8. AskedOnce'
    <3> SUFFICES ASSUME NEW l \in Conn, NEW q \in conn'[l].wire
                 PROVE  \/ call'[q.call].slot > q.slot
                        \/ /\ call'[q.call].slot = q.slot
                           /\ \/ call'[q.call].phase = "sent" /\ call'[q.call].link = l
                              \/ call'[q.call].phase = "failed" /\ ~call'[q.call].retryable
                              \/ call'[q.call].phase \in {"thrown", "returned", "threw"}
      BY DEF AskedOnce
    <3>1. q \in conn[l].wire /\ q.call \in Call
      BY <2>1 DEF TypeOK, ConnState, Request
    <3> QED BY <1>2, <3>1 DEF IndInv, AskedOnce
  <2> QED BY <1>5, <2>3, <2>4, <2>5, <2>6, <2>7, <2>8 DEF IndInv
<1> QED BY <1>1, <1>6, <1>7

\* The endpoints a call has asked lie behind the one it asks next.
LEMMA AsksForward ==
    ASSUME TypeOK, IndInv, NEW c \in Call, NEW l \in Conn, NEW p \in conn[l].wire,
           p.call = c
    PROVE  /\ call[c].phase # "idle"
           /\ call[c].phase = "failed" /\ call[c].retryable => call[c].slot > p.slot
           /\ call[c].phase = "thrown" => call[c].slot + 1 > p.slot
<1>1. p.slot \in Slot /\ call[c].slot \in Slot
  BY DEF TypeOK, ConnState, Request, CallState
<1>2. p.slot \in Nat \ {0} /\ call[c].slot \in Nat
  BY <1>1, EndpointAssumption DEF Slot
<1>3. \/ call[c].slot > p.slot
      \/ /\ call[c].slot = p.slot
         /\ \/ call[c].phase = "sent" /\ call[c].link = l
            \/ call[c].phase = "failed" /\ ~call[c].retryable
            \/ call[c].phase \in {"thrown", "returned", "threw"}
  BY DEF IndInv, AskedOnce
<1> QED BY <1>2, <1>3 DEF IndInv, CallShape

LEMMA NextIndInv == TypeOK /\ TypeOK' /\ IndInv /\ [Next]_vars => IndInv'
<1> SUFFICES ASSUME TypeOK, TypeOK', IndInv, [Next]_vars PROVE IndInv'
  OBVIOUS
<1>1. ASSUME NEW c \in Call, Start(c) PROVE IndInv'
  BY <1>1, AttemptIndInv, AsksForward, SlotKeys DEF Start
<1>2. ASSUME NEW c \in Call, Retry(c) PROVE IndInv'
  <2>1. call[c].slot \in Slot
    BY DEF TypeOK, CallState
  <2> QED BY <1>2, <2>1, AttemptIndInv, AsksForward DEF Retry, MayRetry
<1>3. ASSUME NEW c \in Call, NextEndpoint(c) PROVE IndInv'
  <2>1. call[c].slot + 1 \in Slot
    BY <1>3, SlotKeys DEF NextEndpoint, TypeOK, CallState
  <2> QED BY <1>3, <2>1, AttemptIndInv, AsksForward DEF NextEndpoint
<1>4. ASSUME NEW c \in Call,
             DialFailed(c) \/ ClosedBeforeSent(c) \/ WriteThrows(c)
               \/ Rethrow(c) \/ GiveUp(c)
      PROVE  IndInv'
  BY <1>4, ContinuationIndInv
<1>5. ASSUME NEW c \in Call, Send(c) PROVE IndInv'
  BY <1>5, SendIndInv
<1>6. ASSUME NEW c \in Call, RequestTimeout(c) PROVE IndInv'
  BY <1>6, RequestTimeoutIndInv
<1>7. ASSUME NEW k \in Conn, Connected(k) PROVE IndInv'
  BY <1>7, ConnectedIndInv
<1>8. ASSUME NEW k \in Conn, SocketFails(k) \/ ConnectTimeout(k) PROVE IndInv'
  BY <1>8, FailConnectionIndInv DEF SocketFails, ConnectTimeout
<1>9. ASSUME NEW k \in Conn, IdleClose(k) PROVE IndInv'
  BY <1>9, IdleCloseIndInv
<1>10. ASSUME NEW k \in Conn, NEW R \in SUBSET conn[k].wire, NEW bad \in SUBSET R,
              Receive(k, R, bad) \/ ReceiveGarbled(k, R, bad)
       PROVE  IndInv'
  BY <1>10, ReceiveIndInv, ReceiveGarbledIndInv
<1>11. ASSUME Finished \/ UNCHANGED vars PROVE IndInv'
  BY <1>11 DEF Finished, vars, IndInv, PoolIsLive, PendingIsOwed, AnswerIsOwn,
     OneQuestionPerSocket, ConnShape, CallShape, IdsUnique, AskedOnce, Live
<1> QED
  BY <1>1, <1>2, <1>3, <1>4, <1>5, <1>6, <1>7, <1>8, <1>9, <1>10, <1>11
  DEF Next, Continue

-----------------------------------------------------------------------------
(* The theorems *)

\* The inductive invariant holds in every reachable state.
THEOREM TransportInvariant == Spec => [](TypeOK /\ IndInv)
<1>1. Init => TypeOK /\ IndInv
  BY InitTypeOK, InitIndInv
<1>2. (TypeOK /\ IndInv) /\ [Next]_vars => (TypeOK /\ IndInv)'
  BY NextTypeOK, NextIndInv
<1> QED BY <1>1, <1>2, PTL DEF Spec

\* For any number of callers, endpoints and sockets: the pool never leaks a
\* live socket and never dials an endpoint it already has one to.
THEOREM PoolStaysLive == Spec => []PoolIsLive
<1>1. TypeOK /\ IndInv => PoolIsLive
  BY DEF IndInv
<1> QED BY <1>1, TransportInvariant, PTL

\* The pending map of every socket is exactly what its callers wait for.
THEOREM PendingStaysOwed == Spec => []PendingIsOwed
<1>1. TypeOK /\ IndInv => PendingIsOwed
  BY DEF IndInv
<1> QED BY <1>1, TransportInvariant, PTL

\* Pipelining by id is safe: a caller only resolves with its own answer.
THEOREM AnswersAreOwn == Spec => []AnswerIsOwn
<1>1. TypeOK /\ IndInv => AnswerIsOwn
  BY DEF IndInv
<1> QED BY <1>1, TransportInvariant, PTL

\* A peer is never asked the same question twice over one live socket.
THEOREM QuestionsAskedOnce == Spec => []OneQuestionPerSocket
<1>1. TypeOK /\ IndInv => OneQuestionPerSocket
  BY DEF IndInv
<1> QED BY <1>1, TransportInvariant, PTL

\* When the event loop blocks, the process is held open by exactly the sockets
\* that some call waits on.
THEOREM HostIsHeldOpen == Spec => []HostHeldOpen
<1>1. TypeOK /\ IndInv => HostHeldOpen
  <2> SUFFICES ASSUME TypeOK, IndInv, Quiescent, NEW k \in Conn
               PROVE  conn[k].refd <=> \E c \in Call :
                         call[c].phase \in {"awaiting", "sent"} /\ call[c].link = k
    BY DEF HostHeldOpen
  <2>0. conn[k].ready \in {"pending", "resolved", "rejected"}
    BY DEF TypeOK, ConnState
  <2>1. ASSUME conn[k].refd
        PROVE  \E c \in Call : call[c].phase \in {"awaiting", "sent"} /\ call[c].link = k
    <3>1. Live(k)
      BY <2>1 DEF IndInv, ConnShape, Live
    <3>2. CASE conn[k].ready = "pending"
      BY <3>1, <3>2 DEF IndInv, ConnShape
    <3>3. CASE conn[k].ready = "resolved"
      <4>1. PICK p \in conn[k].pending : TRUE
        BY <2>1, <3>1, <3>3 DEF IndInv, ConnShape
      <4>2. p.call \in Call
        BY DEF TypeOK, ConnState, Request
      <4> QED BY <4>2 DEF IndInv, PendingIsOwed
    <3> QED BY <2>0, <3>1, <3>2, <3>3 DEF IndInv, ConnShape
  <2>2. ASSUME NEW c \in Call, call[c].phase = "awaiting", call[c].link = k
        PROVE  conn[k].refd
    <3>1. conn[k].ready = "pending"
      BY <2>2 DEF Quiescent, Runnable
    <3> QED BY <3>1 DEF IndInv, ConnShape, Live
  <2>3. ASSUME NEW c \in Call, call[c].phase = "sent", call[c].link = k
        PROVE  conn[k].refd
    <3>1. Live(k) /\ conn[k].ready = "resolved"
      BY <2>3 DEF IndInv, CallShape
    <3>2. conn[k].pending # {}
      BY <2>3 DEF IndInv, PendingIsOwed
    <3> QED BY <3>1, <3>2 DEF IndInv, ConnShape
  <2> QED BY <2>1, <2>2, <2>3
<1> QED BY <1>1, TransportInvariant, PTL

(***************************************************************************)
(* The pooled transport keeps what FulcrumCall promises a caller, for any  *)
(* number of calls, sockets and endpoints.                                 *)
(*                                                                         *)
(* A caller's requests are counted by endpoint, and the budget of an       *)
(* endpoint is that of two attempts, one for a submission.  So what has to *)
(* be known of a call is which attempt it makes and that each attempt      *)
(* writes at most once.                                                    *)
(***************************************************************************)

\* A call has written at most once in each of its attempts at this endpoint, not
\* yet in the one that awaits its socket, and never to the endpoints after it.
WritesHoldOf(c) ==
    /\ \A t \in Slot : t > call[c].slot => writes[c][t] = 0
    /\ writes[c][call[c].slot] <= call[c].attempt
    /\ call[c].phase = "awaiting" => writes[c][call[c].slot] < call[c].attempt
    /\ call[c].phase = "sent" => writes[c][call[c].slot] > 0
    /\ call[c].phase = "idle" => \A t \in Slot : writes[c][t] = 0
    /\ c \in Broadcast => call[c].attempt = 1

WritesHold == \A c \in Call : WritesHoldOf(c)

\* A step of a promise chain that writes nothing and begins no attempt.
Onward(c) ==
    \/ call'[c] = call[c]
    \/ /\ call'[c].slot = call[c].slot /\ call'[c].attempt = call[c].attempt
       /\ \/ /\ call[c].phase \in {"awaiting", "sent", "failed"}
             /\ call'[c].phase \in {"failed", "thrown"}
          \/ call[c].phase = "sent" /\ call'[c].phase = "returned"
          \/ call[c].phase = "thrown" /\ call'[c].phase = "threw"

-----------------------------------------------------------------------------
\* Steps that write nothing.

\* Slots are the positions of the endpoint list, of a call and of its writes.
LEMMA SlotsAreNumbers ==
    ASSUME TypeOK
    PROVE  /\ Slot = 1..Len(Endpoints) /\ Len(Endpoints) \in Nat
           /\ \A c \in Call : /\ call[c] \in CallState /\ call[c].slot \in Slot
                              /\ call[c].slot \in Nat /\ call[c].attempt \in {1, 2}
                              /\ \A t \in Slot : writes[c][t] \in Nat
  BY EndpointAssumption, SlotKeys DEF TypeOK, CallState, Slot

\* What an update leaves of a call's slot and attempt.
LEMMA UpdatesMoveOn ==
    ASSUME NEW r \in CallState
    PROVE  /\ \A b : /\ Rejected(r, b).slot = r.slot /\ Rejected(r, b).attempt = r.attempt
                     /\ Rejected(r, b).phase = "failed"
           /\ Resolved(r).slot = r.slot /\ Resolved(r).attempt = r.attempt
           /\ Resolved(r).phase = "returned"
           /\ Thrown(r).slot = r.slot /\ Thrown(r).attempt = r.attempt
           /\ Thrown(r).phase = "thrown"
           /\ \A id : /\ Written(r, id).slot = r.slot /\ Written(r, id).attempt = r.attempt
                      /\ Written(r, id).phase = "sent"
  BY DEF Rejected, Resolved, Thrown, Written, CallState

\* A chunk, a failure of a socket and a timeout settle requests that were sent.
LEMMA SettlingMovesOn ==
    ASSUME TypeOK, NEW k \in Conn,
           \/ FailConnection(k, TRUE)
           \/ \E R \in SUBSET conn[k].wire : \E bad \in SUBSET R :
                 Receive(k, R, bad) \/ ReceiveGarbled(k, R, bad)
    PROVE  /\ writes' = writes
           /\ \A c \in Call : Onward(c) /\ (call'[c].phase = "threw" => call[c].phase = "threw")
<1> SUFFICES ASSUME NEW c \in Call
             PROVE  /\ writes' = writes
                    /\ Onward(c) /\ (call'[c].phase = "threw" => call[c].phase = "threw")
  BY DEF FailConnection, Receive, ReceiveGarbled
<1>1. writes' = writes
  BY DEF FailConnection, Receive, ReceiveGarbled
<1>2. \/ call'[c] = call[c]
      \/ /\ call[c].phase = "sent"
         /\ call'[c] \in {Rejected(call[c], TRUE), Rejected(call[c], FALSE), Resolved(call[c])}
  <2>1. CASE FailConnection(k, TRUE)
    BY <2>1 DEF FailConnection, Owed
  <2>2. ASSUME NEW R \in SUBSET conn[k].wire, NEW bad \in SUBSET R,
               Receive(k, R, bad) \/ ReceiveGarbled(k, R, bad)
        PROVE  \/ call'[c] = call[c]
               \/ /\ call[c].phase = "sent"
                  /\ call'[c] \in {Rejected(call[c], TRUE), Rejected(call[c], FALSE), Resolved(call[c])}
    BY <2>2 DEF Receive, ReceiveGarbled, AfterLines, Owed
  <2> QED
    BY <2>1, <2>2
<1>3. call[c] \in CallState
  BY DEF TypeOK
<1>4. CASE call'[c] = call[c]
  BY <1>1, <1>4 DEF Onward
<1>5. ASSUME call[c].phase = "sent", NEW b \in BOOLEAN, call'[c] = Rejected(call[c], b)
      PROVE  Onward(c) /\ (call'[c].phase = "threw" => call[c].phase = "threw")
  BY <1>3, <1>5, UpdatesMoveOn DEF Onward
<1>6. CASE call[c].phase = "sent" /\ call'[c] = Resolved(call[c])
  BY <1>1, <1>3, <1>6, UpdatesMoveOn DEF Onward
<1> QED
  BY <1>1, <1>2, <1>4, <1>5, <1>6

\* Moving on keeps the counts.
LEMMA OnwardKeepsWrites ==
    ASSUME TypeOK, WritesHold, writes' = writes, \A c \in Call : Onward(c)
    PROVE  WritesHold'
<1> SUFFICES ASSUME NEW c \in Call PROVE WritesHoldOf(c)'
  BY DEF WritesHold
<1>1. WritesHoldOf(c) /\ Onward(c)
  BY DEF WritesHold
<1> QED
  BY <1>1 DEF WritesHoldOf, Onward

\* A continuation that neither begins an attempt nor writes moves its call on.
LEMMA ContinuationMovesOn ==
    ASSUME TypeOK, NEW c \in Call,
           DialFailed(c) \/ ClosedBeforeSent(c) \/ WriteThrows(c) \/ Rethrow(c) \/ GiveUp(c)
              \/ RequestTimeout(c)
    PROVE  /\ writes' = writes
           /\ \A d \in Call : Onward(d)
           /\ \A d \in Call \ {c} : call'[d] = call[d]
           /\ call'[c].phase = "threw" <=> GiveUp(c)
<1>1. writes' = writes
  BY DEF DialFailed, ClosedBeforeSent, WriteThrows, Rethrow, GiveUp, RequestTimeout
<1>2. call \in [Call -> CallState] /\ call[c] \in CallState
  BY DEF TypeOK
<1>3. \A d \in Call \ {c} : call'[d] = call[d]
  BY <1>2 DEF DialFailed, ClosedBeforeSent, WriteThrows, Rethrow, GiveUp, RequestTimeout
<1>4. ASSUME call[c].phase \in {"awaiting", "sent"}, NEW b, call'[c] = Rejected(call[c], b)
      PROVE  Onward(c) /\ call'[c].phase = "failed"
  BY <1>2, <1>4, UpdatesMoveOn DEF Onward
<1>5. CASE Rethrow(c)
  <2>1. call[c].phase = "failed" /\ call'[c] = Thrown(call[c])
    BY <1>2, <1>5 DEF Rethrow
  <2>2. Onward(c) /\ call'[c].phase = "thrown"
    BY <1>2, <2>1, UpdatesMoveOn DEF Onward
  <2> QED
    BY <1>1, <1>3, <2>1, <2>2 DEF Onward, GiveUp
<1>6. CASE GiveUp(c)
  <2>1. call[c].phase = "thrown" /\ call'[c] = [call[c] EXCEPT !.phase = "threw"]
    BY <1>2, <1>6 DEF GiveUp
  <2>2. Onward(c) /\ call'[c].phase = "threw"
    BY <1>2, <2>1 DEF Onward, CallState
  <2> QED
    BY <1>1, <1>3, <1>6, <2>2 DEF Onward
<1>7. CASE DialFailed(c) \/ ClosedBeforeSent(c) \/ WriteThrows(c) \/ RequestTimeout(c)
  <2>1. call[c].phase \in {"awaiting", "sent"} /\ \E b : call'[c] = Rejected(call[c], b)
    BY <1>2, <1>7 DEF DialFailed, ClosedBeforeSent, WriteThrows, Writable, RequestTimeout
  <2>2. Onward(c) /\ call'[c].phase = "failed"
    BY <1>4, <2>1
  <2>3. ~GiveUp(c)
    BY <2>1 DEF GiveUp
  <2> QED
    BY <1>1, <1>3, <2>2, <2>3 DEF Onward
<1> QED
  BY <1>5, <1>6, <1>7

-----------------------------------------------------------------------------
\* Steps that begin an attempt or write.

\* The first attempt at an endpoint finds nothing written there, the second one
\* write at most.
LEMMA AttemptKeepsWrites ==
    ASSUME TypeOK, WritesHold, NEW c \in Call, NEW s \in Slot, NEW n \in {1, 2},
           Attempt(c, s, n),
           \A t \in Slot : t > s => writes[c][t] = 0,
           writes[c][s] < n,
           c \in Broadcast => n = 1
    PROVE  WritesHold' /\ writes' = writes
           /\ call'[c].phase = "awaiting" /\ \A d \in Call \ {c} : call'[d] = call[d]
<1>1. writes' = writes /\ call \in [Call -> CallState]
  BY DEF Attempt, TypeOK
<1>2. PICK k, b : call' = [call EXCEPT ![c] = Attempting(@, s, n, k, b)]
  BY DEF Attempt, Reuse, Dial
<1>3. /\ call'[c].phase = "awaiting" /\ call'[c].slot = s /\ call'[c].attempt = n
      /\ \A d \in Call \ {c} : call'[d] = call[d]
  BY <1>1, <1>2 DEF Attempting
<1>4. WritesHoldOf(c)'
  BY <1>1, <1>3, SlotsAreNumbers DEF WritesHoldOf
<1>5. ASSUME NEW d \in Call \ {c} PROVE WritesHoldOf(d)'
  BY <1>1, <1>3, <1>5 DEF WritesHold, WritesHoldOf
<1> QED
  BY <1>1, <1>3, <1>4, <1>5 DEF WritesHold

\* Each way of beginning an attempt meets these conditions.
LEMMA AttemptsKeepWrites ==
    ASSUME TypeOK, WritesHold, NEW c \in Call, Start(c) \/ Retry(c) \/ NextEndpoint(c)
    PROVE  WritesHold' /\ writes' = writes
           /\ call'[c].phase = "awaiting" /\ \A d \in Call \ {c} : call'[d] = call[d]
<1> USE SlotsAreNumbers
<1>1. WritesHoldOf(c)
  BY DEF WritesHold
<1>2. CASE Start(c)
  <2>1. 1 \in Slot /\ \A t \in Slot : writes[c][t] = 0
    BY <1>1, <1>2, SlotKeys DEF Start, WritesHoldOf
  <2> QED
    BY <1>2, <2>1, AttemptKeepsWrites DEF Start
<1>3. CASE Retry(c)
  <2>1. writes[c][call[c].slot] < 2 /\ c \notin Broadcast
    BY <1>1, <1>3 DEF Retry, MayRetry, WritesHoldOf
  <2>2. \A t \in Slot : t > call[c].slot => writes[c][t] = 0
    BY <1>1 DEF WritesHoldOf
  <2> QED
    BY <1>3, <2>1, <2>2, AttemptKeepsWrites DEF Retry
<1>4. CASE NextEndpoint(c)
  <2>1. call[c].slot + 1 \in Slot
    BY <1>4 DEF NextEndpoint
  <2>2. writes[c][call[c].slot + 1] = 0 /\ \A t \in Slot : t > call[c].slot + 1 => writes[c][t] = 0
    BY <1>1, <2>1 DEF WritesHoldOf
  <2> QED
    BY <1>4, <2>1, <2>2, AttemptKeepsWrites DEF NextEndpoint
<1> QED
  BY <1>2, <1>3, <1>4

\* The one write of an attempt is within the budget of its endpoint.
LEMMA SendKeepsWrites ==
    ASSUME TypeOK, WritesHold, NEW c \in Call, Send(c)
    PROVE  /\ WritesHold'
           /\ writes' = [writes EXCEPT ![c][call[c].slot] = @ + 1]
           /\ call'[c].phase = "sent" /\ \A d \in Call \ {c} : call'[d] = call[d]
<1>1. /\ call \in [Call -> CallState] /\ writes \in [Call -> [Slot -> Nat]]
      /\ requestCounter \in Nat
  BY DEF TypeOK
<1>2. /\ writes' = [writes EXCEPT ![c][call[c].slot] = @ + 1]
      /\ call'[c] = Written(call[c], requestCounter + 1)
      /\ \A d \in Call \ {c} : call'[d] = call[d]
  BY <1>1 DEF Send
<1>3. /\ call'[c].phase = "sent" /\ call'[c].slot = call[c].slot
      /\ call'[c].attempt = call[c].attempt
  BY <1>1, <1>2, UpdatesMoveOn
<1>4. call[c].phase = "awaiting" /\ WritesHoldOf(c)
  BY DEF Send, Writable, WritesHold
<1>5. /\ writes'[c][call[c].slot] = writes[c][call[c].slot] + 1
      /\ \A t \in Slot : t # call[c].slot => writes'[c][t] = writes[c][t]
      /\ \A d \in Call \ {c} : writes'[d] = writes[d]
  BY <1>1, <1>2, SlotsAreNumbers
<1>6. WritesHoldOf(c)'
  BY <1>3, <1>4, <1>5, SlotsAreNumbers DEF WritesHoldOf
<1>7. ASSUME NEW d \in Call \ {c} PROVE WritesHoldOf(d)'
  BY <1>2, <1>5, <1>7 DEF WritesHold, WritesHoldOf
<1> QED
  BY <1>2, <1>3, <1>6, <1>7 DEF WritesHold

-----------------------------------------------------------------------------
\* The invariant.

\* The actions, by what they do to the promise chains.
LEMMA StepKinds ==
    ASSUME [Next]_vars
    PROVE  \/ \E c \in Call : Start(c) \/ Retry(c) \/ NextEndpoint(c)
           \/ \E c \in Call : Send(c)
           \/ \E c \in Call : \/ DialFailed(c) \/ ClosedBeforeSent(c) \/ WriteThrows(c)
                              \/ Rethrow(c) \/ GiveUp(c) \/ RequestTimeout(c)
           \/ \E k \in Conn :
                 \/ FailConnection(k, TRUE)
                 \/ \E R \in SUBSET conn[k].wire : \E bad \in SUBSET R :
                       Receive(k, R, bad) \/ ReceiveGarbled(k, R, bad)
           \/ call' = call /\ writes' = writes
  BY DEF Next, Continue, SocketFails, ConnectTimeout, Connected, IdleClose, Finished, vars

\* The counts hold after every step.
LEMMA StepKeepsWrites == TypeOK /\ WritesHold /\ [Next]_vars => WritesHold'
<1> SUFFICES ASSUME TypeOK, WritesHold, [Next]_vars PROVE WritesHold'
  OBVIOUS
<1>1. ASSUME NEW c \in Call, Start(c) \/ Retry(c) \/ NextEndpoint(c) PROVE WritesHold'
  BY <1>1, AttemptsKeepWrites
<1>2. ASSUME NEW c \in Call, Send(c) PROVE WritesHold'
  BY <1>2, SendKeepsWrites
<1>3. ASSUME NEW c \in Call, \/ DialFailed(c) \/ ClosedBeforeSent(c) \/ WriteThrows(c)
                             \/ Rethrow(c) \/ GiveUp(c) \/ RequestTimeout(c)
      PROVE  WritesHold'
  BY <1>3, ContinuationMovesOn, OnwardKeepsWrites
<1>4. ASSUME NEW k \in Conn,
             \/ FailConnection(k, TRUE)
             \/ \E R \in SUBSET conn[k].wire : \E bad \in SUBSET R :
                   Receive(k, R, bad) \/ ReceiveGarbled(k, R, bad)
      PROVE  WritesHold'
  BY <1>4, SettlingMovesOn, OnwardKeepsWrites
<1>5. CASE call' = call /\ writes' = writes
  BY <1>5, OnwardKeepsWrites DEF Onward
<1> QED
  BY <1>1, <1>2, <1>3, <1>4, <1>5, StepKinds

\* In every reachable state a call has written at most once in each of its attempts.
THEOREM WritesAlwaysHold == Spec => [](TypeOK /\ WritesHold)
<1>1. Init => WritesHold
  <2> SUFFICES ASSUME Init, NEW c \in Call PROVE WritesHoldOf(c)
    BY DEF WritesHold
  <2>1. call[c].phase = "idle" /\ call[c].slot = 1 /\ call[c].attempt = 1
    BY DEF Init
  <2>2. 1 \in Slot /\ \A t \in Slot : writes[c][t] = 0
    BY SlotKeys DEF Init
  <2> QED
    BY <2>1, <2>2 DEF WritesHoldOf
<1> QED
  BY <1>1, TransportTypes, StepKeepsWrites, PTL DEF Spec

-----------------------------------------------------------------------------
\* The refinement.

\* The caller's view of a call, as Promise has it.
StatusOf(c) ==
    IF call[c].phase \in {"idle", "returned", "threw"} THEN call[c].phase ELSE "outstanding"

\* A step that changes no caller's view is a stutter of the promise.
LEMMA UnseenStutters ==
    ASSUME writes' = writes, \A c \in Call : StatusOf(c)' = StatusOf(c)
    PROVE  UNCHANGED <<[c \in Call |-> StatusOf(c)], writes>>
  BY DEF StatusOf

\* Settling requests returns a result to those that got an answer.
LEMMA SettlingReturns ==
    ASSUME TypeOK, WritesHold, writes' = writes,
           \A c \in Call : Onward(c) /\ (call'[c].phase = "threw" => call[c].phase = "threw")
    PROVE  Promise!Next \/ UNCHANGED <<[c \in Call |-> StatusOf(c)], writes>>
<1> DEFINE S == {c \in Call : call[c].phase = "sent" /\ call'[c].phase = "returned"}
<1>1. \A c \in Call \ S : StatusOf(c)' = StatusOf(c)
  BY DEF Onward, StatusOf
<1>2. \A c \in S : /\ StatusOf(c) = "outstanding" /\ StatusOf(c)' = "returned"
                   /\ call[c].slot \in 1..Len(Endpoints) /\ writes[c][call[c].slot] > 0
  BY SlotsAreNumbers DEF StatusOf, WritesHold, WritesHoldOf
<1>3. CASE S = {}
  <2>1. \A c \in Call : StatusOf(c)' = StatusOf(c)
    BY <1>1, <1>3
  <2>2. UNCHANGED <<[c \in Call |-> StatusOf(c)], writes>>
    BY <2>1, UnseenStutters
  <2> QED
    BY <2>2
<1>4. CASE S # {}
  <2>1. PICK T \in (SUBSET Call) \ {{}} : T = S
    BY <1>4
  <2>2. Promise!Return(T)
    BY <1>1, <1>2, <2>1 DEF Promise!Return, StatusOf
  <2> QED
    BY <2>2 DEF Promise!Next
<1> QED
  BY <1>3, <1>4

\* Giving up after the last endpoint throws.
LEMMA GivingUpThrows ==
    ASSUME TypeOK, NEW c \in Call, GiveUp(c)
    PROVE  Promise!Next
<1>1. /\ writes' = writes /\ call'[c].phase = "threw"
      /\ \A d \in Call \ {c} : call'[d] = call[d]
  BY ContinuationMovesOn
<1>2. call[c].phase = "thrown"
  BY DEF GiveUp
<1>3. Promise!Throw(c)
  BY <1>1, <1>2 DEF Promise!Throw
<1> QED
  BY <1>3 DEF Promise!Next

\* Starting a call begins its promise, a later attempt is unseen.
LEMMA AttemptsBegin ==
    ASSUME TypeOK, WritesHold, NEW c \in Call, Start(c) \/ Retry(c) \/ NextEndpoint(c)
    PROVE  Promise!Next \/ UNCHANGED <<[d \in Call |-> StatusOf(d)], writes>>
<1>1. /\ writes' = writes /\ call'[c].phase = "awaiting"
      /\ \A d \in Call \ {c} : call'[d] = call[d]
  BY AttemptsKeepWrites
<1>2. CASE Start(c)
  <2>1. Promise!Begin(c)
    BY <1>1, <1>2 DEF Start, Promise!Begin
  <2> QED
    BY <2>1 DEF Promise!Next
<1>3. CASE Retry(c) \/ NextEndpoint(c)
  <2>1. \A d \in Call : StatusOf(d)' = StatusOf(d)
    BY <1>1, <1>3 DEF Retry, NextEndpoint, StatusOf
  <2> QED
    BY <1>1, <2>1, UnseenStutters
<1> QED
  BY <1>2, <1>3

\* A write is one the promise allows: within the budget, and none after it yet.
LEMMA SendWrites ==
    ASSUME TypeOK, WritesHold, NEW c \in Call, Send(c)
    PROVE  Promise!Next
<1>1. /\ writes' = [writes EXCEPT ![c][call[c].slot] = @ + 1]
      /\ call'[c].phase = "sent" /\ \A d \in Call \ {c} : call'[d] = call[d]
  BY SendKeepsWrites
<1>2. call[c].phase = "awaiting" /\ WritesHoldOf(c)
  BY DEF Send, Writable, WritesHold
<1>3. /\ call[c].slot \in 1..Len(Endpoints)
      /\ writes[c][call[c].slot] < Promise!Budget(c)
  BY <1>2, SlotsAreNumbers DEF WritesHoldOf, Promise!Budget
<1>4. \A t \in (call[c].slot + 1)..Len(Endpoints) : writes[c][t] = 0
  BY <1>2, SlotsAreNumbers DEF WritesHoldOf
<1>5. Promise!Write(c, call[c].slot)
  BY <1>1, <1>2, <1>3, <1>4 DEF Promise!Write
<1> QED
  BY <1>3, <1>5 DEF Promise!Next

\* For any number of calls, sockets and endpoints: the transport implements the
\* promise of FulcrumCall. A call settles once, endpoints are asked in order, a
\* query is written at most twice to an endpoint and a submission once, and a
\* result follows a write.
THEOREM TransportImplementsPromise == Spec => ImplementsPromise
<1>1. Init => Promise!Init
  BY EndpointAssumption DEF Init, Promise!Init, Slot
<1>2. TypeOK /\ WritesHold /\ [Next]_vars
         => Promise!Next \/ UNCHANGED <<[c \in Call |-> StatusOf(c)], writes>>
  <2> SUFFICES ASSUME TypeOK, WritesHold, [Next]_vars
               PROVE  Promise!Next \/ UNCHANGED <<[c \in Call |-> StatusOf(c)], writes>>
    OBVIOUS
  <2>1. ASSUME NEW c \in Call, \/ DialFailed(c) \/ ClosedBeforeSent(c) \/ WriteThrows(c)
                               \/ Rethrow(c) \/ RequestTimeout(c)
        PROVE  Promise!Next \/ UNCHANGED <<[d \in Call |-> StatusOf(d)], writes>>
    <3>1. call'[c].phase # "threw"
      BY <2>1, ContinuationMovesOn
           DEF DialFailed, ClosedBeforeSent, WriteThrows, Writable, Rethrow, RequestTimeout, GiveUp
    <3> QED
      BY <2>1, <3>1, ContinuationMovesOn, SettlingReturns
  <2>2. ASSUME NEW k \in Conn,
               \/ FailConnection(k, TRUE)
               \/ \E R \in SUBSET conn[k].wire : \E bad \in SUBSET R :
                     Receive(k, R, bad) \/ ReceiveGarbled(k, R, bad)
        PROVE  Promise!Next \/ UNCHANGED <<[c \in Call |-> StatusOf(c)], writes>>
    BY <2>2, SettlingMovesOn, SettlingReturns
  <2>3. CASE call' = call /\ writes' = writes
    BY <2>3, UnseenStutters DEF StatusOf
  <2> QED
    BY <2>1, <2>2, <2>3, AttemptsBegin, SendWrites, GivingUpThrows, StepKinds
<1>3. Promise!Next \/ UNCHANGED <<[c \in Call |-> StatusOf(c)], writes>>
         => [Promise!Next]_<<[c \in Call |-> IF call[c].phase \in {"idle", "returned", "threw"}
                                             THEN call[c].phase ELSE "outstanding"], writes>>
  BY DEF StatusOf
<1> QED
  BY <1>1, <1>2, <1>3, WritesAlwaysHold, PTL DEF Spec, ImplementsPromise, Promise!Spec
=============================================================================
