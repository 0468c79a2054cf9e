SPECIFICATION FairSpec
CONSTANTS
    STAGES <- MCStages
    Slots = 2
    MaxBoots = 4
    BLOCK = 2
    Ranges <- MCRanges
    MAP <- MCMap
    LUNS <- MCLuns
    NAMED <- MCNamed
    BUSES = {1, 2}
    MaxEvents = 4
INVARIANTS
    SessionInv
    ReadingsHold
PROPERTY
    EndsWithTheNextLine
CHECK_DEADLOCK FALSE
