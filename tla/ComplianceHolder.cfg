\* The instance of ComplianceMonitor.cfg with both cards.
CONSTANTS
    Pid = {p1}
    Account = {"a1", "a2"}
    Card = {0, 1}
    GpuId <- FromOne
    GpuRow = {1, 2}
    Tables <- TwoTables
    Policies <- StrictOnly
    Denied = {}
    HangLimit = 2
    MaxClock = 2
    MaxAge = 2
    MaxLives = 2
    None = None
SPECIFICATION FairSpec
PROPERTIES HolderIsSpared
