SPECIFICATION Spec
CONSTANTS
    STAGES <- MCStages
    Slots = 2
    MaxBoots = 4
    BLOCK = 2
    Ranges <- MCRanges
    MAP <- MCMap
    LUNS <- MCLuns
    NAMED <- MCNamed
    BUSES = {1, 2}
    MaxEvents = 4
INVARIANT
    DeadBootIsRead
CHECK_DEADLOCK FALSE
