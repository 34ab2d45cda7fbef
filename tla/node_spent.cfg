\* A backing set asked for a settlement that was never mined.
SPECIFICATION Spec
CONSTANTS
    g = g
    a1 = a1
    a2 = a2
    a3 = a3
    b2 = b2
    settle = settle
    spendA = spendA
    spendB = spendB
    ghost = ghost
    n1 = n1
    n2 = n2
    NoBlock = NoBlock
    Block = {g, a1, a2, a3, b2}
    Height <- TreeHeight
    Work <- TreeWork
    Chain <- TreeChain
    Tx = {settle, spendA, spendB, ghost}
    Asked = {ghost}
    Mines <- TreeMines
    Outputs <- TxOutputs
    Spends <- TxSpends
    Node = {n1}
    WrongNetwork = {}
    TipReads = {tip1}
    Inclusions = {}
    Histories = {}
    CurrentReads = {}
    BackingReads = {backing}
    Vout = {0}
    MaxOps = 3
INVARIANT
    SpentHasExisted
