\* A spend scan, a funding or a location, one at a time, over two indexers that disagree.
SPECIFICATION Spec
CONSTANTS
    g = g
    a1 = a1
    b1 = b1
    pay = pay
    spendA = spendA
    spendB = spendB
    other = other
    hole = hole
    loc = loc
    NoBlock = NoBlock
    Absent = Absent
    Block = {g, a1, b1}
    Height <- TreeHeight
    Work <- TreeWork
    Chain <- TreeChain
    Tx = {pay, spendA, spendB, other}
    Mines <- TreeMines
    Outputs <- TxOutputs
    Spends <- TxSpends
    Script <- TxScript
    Target <- Targets
    LastSlot = 2
    Scans = {scan}
    OutputReads = {}
    Fundings = {fund}
    Locations = {loc}
    Submissions = {}
    MaxOps = 1
INVARIANTS
    TypeOK
    UnspentAtVerdict
    SpentNamesSpender
    ScanIsUnambiguous
    FundingStatusIsCurrent
    LocationIsPlaced
