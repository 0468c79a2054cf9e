SPECIFICATION Spec
CONSTANTS
    Columns = 3
    PanelRows = 5
    Glyph <- MCGlyph
    Space = " "
    Newline = "newline"
    Logs <- MCLogs
    MaxDumps = 3
    Formats <- MCFormats
    Variants <- MCVariants
INVARIANTS
    PanelInv
    BudgetIsTheCost
    JoinIsLoud
