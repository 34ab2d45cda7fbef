\* A query and a submission over two endpoints: the endpoint loop, the redial
\* and the shared sockets, against the caller's view of a request; every call
\* settles although the peers may stay silent for ever.
SPECIFICATION FairSpec
CONSTANTS
    k1 = k1
    k2 = k2
    k3 = k3
    k4 = k4
    e1 = e1
    e2 = e2
    NoConn = NoConn
    Call = {c1, tx}
    Broadcast = {tx}
    Key = {e1, e2}
    Endpoints <- TwoEndpoints
    Conn = {k1, k2}
INVARIANT
    IndInv
PROPERTIES
    ImplementsPromise
    EveryCallSettles
