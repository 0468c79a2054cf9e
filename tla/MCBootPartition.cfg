SPECIFICATION FairSpec
CONSTANTS
    Name = {"p1", "p2"}
    Builds <- MCBuilds
    Stock <- MCStock
    Backups <- MCBackups
    Zero = "zero"
    Size = 6
    Chunk = 2
    ReadSize = 5
    MaxRuns = 2
    MaxDrops = 1
    MaxBuilds = 1
INVARIANTS
    BootInv
PROPERTIES
    OnlyStockIsRestored
    IdentifyIsRight
    RestoreRepairs
