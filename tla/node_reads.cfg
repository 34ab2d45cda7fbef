\* A source-output, a current and a backing-set read race the node's chain, two
\* of them at a time after a tip read; a second node is of another network.
SPECIFICATION Spec
CONSTANTS
    g = g
    a1 = a1
    a2 = a2
    a3 = a3
    b2 = b2
    settle = settle
    spendA = spendA
    spendB = spendB
    ghost = ghost
    n1 = n1
    n2 = n2
    NoBlock = NoBlock
    Block = {g, a1, a2, a3, b2}
    Height <- TreeHeight
    Work <- TreeWork
    Chain <- TreeChain
    Tx = {settle, spendA, spendB, ghost}
    Asked = {settle, spendB}
    Mines <- TreeMines
    Outputs <- TxOutputs
    Spends <- TxSpends
    Node = {n1, n2}
    WrongNetwork = {n2}
    TipReads = {tip1}
    Inclusions = {}
    Histories = {hist}
    CurrentReads = {current}
    BackingReads = {backing}
    Vout = {1}
    MaxOps = 3
INVARIANTS
    TypeOK
    CertificateIsSnapshot
    InclusionHoldsAtUnmovedTip
    ReadAfterInclusionConfirmsIt
