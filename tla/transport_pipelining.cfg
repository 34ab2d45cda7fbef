\* Three calls, one of them a submission, pipelined on one endpoint.
SPECIFICATION Spec
CONSTANTS
    k1 = k1
    k2 = k2
    k3 = k3
    k4 = k4
    e1 = e1
    e2 = e2
    Call = {c1, c2, tx}
    Broadcast = {tx}
    Key = {e1}
    Endpoints <- OneEndpoint
    Conn = {k1, k2, k3}
    NoConn = NoConn
SYMMETRY ConnSymmetry
INVARIANTS
    TypeOK
    PoolIsLive
    PendingIsOwed
    HostHeldOpen
    AnswerIsOwn
    OneQuestionPerSocket
