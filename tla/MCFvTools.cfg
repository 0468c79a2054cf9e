SPECIFICATION FairSpec
CONSTANTS
    HeaderLength = 4
    ErasedName = "erased"
    Images <- MCImages
    UNINSTALLED <- MCUninstalled
    Defined <- MCDefined
    ArchProtocols <- MCArch
    ROWS <- MCRowNames
    HEAD <- MCHead
    SHORT = {"K "}
    INSTRUMENTS <- MCInstruments
INVARIANTS
    VolumesInv
    VerdictsHold
PROPERTY
    ReplayEnds
