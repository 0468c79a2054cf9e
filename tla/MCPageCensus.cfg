SPECIFICATION FairSpec
CONSTANTS
    HeapPages <- MCHeap
    PromotePages <- MCPromote
    Ladder <- MCLadder
    ImageMin = 2
    RetryRequests <- MCRetry
    RunRequests <- MCRun
    Granule <- MCGranule
    CallbackSizes <- MCCallback
    Copies = 2
    Bounds <- MCBounds
INVARIANTS
    HeapInv
    FirstCopyTellsTheRun
    ProbesMeasureTheHeap
PROPERTY
    DigestEnds
