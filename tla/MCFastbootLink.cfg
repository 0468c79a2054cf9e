SPECIFICATION FairSpec
CONSTANTS
    Replies <- MCReplies
    Clients <- MCClients
    Late <- MCEither
    Concurrent = TRUE
    Slack = 2
    DrainMax = 2
    DownloadSize = 2
    MaxCommands = 3
    MaxTools = 2
    MaxResets = 1
INVARIANTS
    LinkInv
PROPERTIES
    ReleasesTheThread
    NoWorseWedge
    ToolEnds
