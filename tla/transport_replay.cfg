\* A submission that timed out at the first endpoint is put to the second.
SPECIFICATION Spec
CONSTANTS
    k1 = k1
    k2 = k2
    k3 = k3
    k4 = k4
    e1 = e1
    e2 = e2
    NoConn = NoConn
    Call = {tx}
    Broadcast = {tx}
    Key = {e1, e2}
    Endpoints <- TwoEndpoints
    Conn = {k1, k2, k3}
INVARIANT
    SubmissionNeverReplayed
