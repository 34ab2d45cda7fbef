\* A funding refused as spent although no indexer has it spent.
SPECIFICATION Spec
CONSTANTS
    g = g
    a1 = a1
    b1 = b1
    pay = pay
    spendA = spendA
    spendB = spendB
    other = other
    hole = hole
    loc = loc
    NoBlock = {g, a1, b1}
    Absent = Absent
    Block = {g, a1, b1}
    Height <- TreeHeight
    Work <- TreeWork
    Chain <- TreeChain
    Tx = {pay, spendA, spendB}
    Mines <- TreeMines
    Outputs <- TxOutputs
    Spends <- TxSpends
    Script <- TxScript
    Target <- Targets
    LastSlot = 1
    Scans = {}
    OutputReads = {}
    Fundings = {fund}
    Locations = {}
    Submissions = {}
    MaxOps = 1
INVARIANTS
    SpentRefusalIsTrue
