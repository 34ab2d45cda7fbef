------------------------- MODULE MCFulcrumTransport -------------------------
\* Small instances of FulcrumTransport for TLC.
EXTENDS FulcrumTransport, TLC

CONSTANTS k1, k2, k3, k4, e1, e2

OneEndpoint == <<e1>>
TwoEndpoints == <<e1, e2>>

\* Socket identities are interchangeable: no definition distinguishes them.
ConnSymmetry == Permutations(Conn)
=============================================================================
