SPECIFICATION FairSpec
CONSTANTS
    BlockSize = 2
    L2Entries = 4
    PoolBase = 4
    LoadBlock = 7
    Cases <- MCCases
    SmemWord <- MCSmemWord
    AopWord <- MCAopWord
    Text <- MCText
    Blank = Blank
    Begun <- MCBegun
    PanelRows = 3
INVARIANTS
    RunInv
    RegistersRemember
    VerdictsMeanState
    AlarmMeansDamage
PROPERTIES
    RunEnds
