SPECIFICATION Spec
CONSTANTS
    Reference <- MCReference
    Blobs <- MCBlobs
    ExtraDxe <- MCExtraDxe
    ExtraApriori <- MCExtraApriori
    HostDrivers <- MCHost
    HostGuard = "USE_XHCI_HOST_DRIVER"
    Extractions <- MCExtractions
    Options <- MCOptions
    Experiments <- MCExperiments
    MaxEdits = 2
    Files <- MCFiles
    Rows <- MCRows
    Bitmaps <- MCBitmaps
    CONFIG_META_KEYS = {"Count"}
    CONFIG_EXTRA <- MCExtra
    DDR_BASE = 4
INVARIANTS
    PlatformInv
    VariantInv
