\* A funding lookup, a read of a missing output and a submission all end.
SPECIFICATION FairSpec
CONSTANTS
    g = g
    a1 = a1
    b1 = b1
    pay = pay
    spendA = spendA
    spendB = spendB
    other = other
    hole = hole
    loc = loc
    NoBlock = {g, a1}
    Absent = Absent
    Block = {g, a1}
    Height <- TreeHeight
    Work <- TreeWork
    Chain <- TreeChain
    Tx = {pay, spendA}
    Mines <- TreeMines
    Outputs <- TxOutputs
    Spends <- TxSpends
    Script <- TxScript
    Target <- Targets
    LastSlot = 2
    Scans = {}
    OutputReads = {hole}
    Fundings = {fund}
    Locations = {}
    Submissions = {tx}
    MaxOps = 2
PROPERTY
    EveryLookupEnds
