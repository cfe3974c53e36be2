\* One pid that may be given out twice, two accounts, one visible card of two, one
\* policy table; grace period and hang limit of two units.
CONSTANTS
    Pid = {p1}
    Account = {"a1", "a2"}
    Card = {1}
    GpuId <- FromOne
    GpuRow = {1, 2}
    Tables <- TwoTables
    Policies <- StrictOnly
    Denied = {}
    HangLimit = 2
    MaxClock = 2
    MaxAge = 2
    MaxLives = 2
    None = None
SPECIFICATION FairSpec
INVARIANTS TypeOK HangIsContinuous
PROPERTIES KillFollowsGrace NobodyPreemptsForever
