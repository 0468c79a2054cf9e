SPECIFICATION FairSpec
CONSTANTS
    Guid <- MCGuid
    DxeCore = "core"
    NoGuid = NoGuid
    ErrorStatus <- MCErrorStatus
    VolumeLists <- MCVolumeLists
    Images <- MCImages
    AprioriMax = 2
    DiagMax = 2
INVARIANTS
    SeqIsAPrefix
    UnhitChecksum
    SlotsTellTheAttempts
    KeyNamesTheFirstFailure
    DigestIsComplete
    DispatchInv
    PredictionsHold
PROPERTY
    KeepsSeqContract
    Settles
