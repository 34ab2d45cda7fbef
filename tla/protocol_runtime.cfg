\* One component of protocol-runtime at a time: seals, models, lane roots,
\* transition outputs, import statements, covenants.  A behaviour ends when its record does.
SPECIFICATION Spec
CONSTANTS
    Places <- TwinPlaces
    Output <- TwinOutput
    Imports = {"i1", "i2"}
    Expected <- TwinExpected
    Notes = {"n1", "n2"}
    MaxEdits = 1
    Questions <- OfferedQuestions
    MaxModelEdits = 1
    TreeDepth = 2
    LaneNotes <- OfferedNotes
    Epochs = {0, 1}
    MaxLeafEdits = 1
    Batches <- OneBatch
    PacketBins <- EdgeBins
    Funding <- EdgeFunding
    MoneyCap = 60
    ListCap = 3
    ImportDrafts <- OfferedImports
    MaxOverwrites = 1
    Proven <- ProvenPlans
    Genesis <- ChainStart
    Offered <- OfferedTransactions
    ExitDrafts <- OfferedExits
    InputSlots = 3
    OutputSlots = 3
    Word = 16
    MaxConfirmed = 4
    MaxSignatures = 1
INVARIANTS
    BoundaryIsOneSeal
    BoundaryWasSpent
    BoundaryIsTheImport
    BindingIsOneCandidate
    EvaluationConfirmsTheBuilder
    AcceptedBatchIsSound
    FailureNamesAFailedGroup
    RootsAreBacked
    PublishedOutputIsSound
    AnswerIsOneImport
    BytesAreTheAnswer
    SealsAreSpentAsAuthorized
    AuthorizedSpendsAreAccepted
CHECK_DEADLOCK FALSE
