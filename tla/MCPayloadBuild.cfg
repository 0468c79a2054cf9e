SPECIFICATION Spec
CONSTANTS
    KernelRegion = 40
    LoadOffset = 2
    DT_SIZE = 4
    PAGE_MAX = 4
    DRAM <- MCDram
    PHONE_RESERVED <- MCReserved
    VARIANT = 35
    Boards <- MCBoards
    Dtbos <- MCDtbos
    Kernels <- MCKernels
    Ramdisks = {1, 5}
    Cmdlines <- MCCmdlines
    SINK_BASE = 5
    NSYM = 2
    LOG = 14
INVARIANTS
    AcceptedBoots
    CheckersAgree
