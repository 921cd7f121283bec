CONSTANTS
    Methods = {"getBalance", "getBlockNumber", "getLogs"}
    Threshold = 2
    Polls = {p1, p2}
    EventBlocks = {1, 2}
    MaxFailures = 2
    MaxBlock = 2
    MaxChanges = 2
    MaxBoots = 1
    None = None
SPECIFICATION FairSpec
INVARIANTS TypeOK NoEventSkipped NoSilentOutage
PROPERTIES PauseEnds EventsAreReported

