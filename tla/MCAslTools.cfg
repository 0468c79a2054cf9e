SPECIFICATION Spec
CONSTANTS
    Names = {1, 2, 3}
    MaxLines = 9
    MaxWindows = 2
    MaxTables = 3
    GENERATIONS <- MCGenerations
    BLOCK_KIND <- MCBlockKind
    FAMILIES <- MCFamilies
INVARIANTS
    TablesHold
CHECK_DEADLOCK FALSE
