\* A drop, a send that raises, a crash, slow answers, and a cancel.
CONSTANTS
    r1 = r1  r2 = r2  c1 = c1  c2 = c2
    None = None
    Res = {r1}
    Scripted = {r1}
    Canceller = {c1}
    Target <- TargetR1
    Groups <- NoGroups
    MaxAttempts = 2
    SlowAgent = TRUE
    AgentMayReject = FALSE
    MaxFaults <- LinkFaults
SPECIFICATION Spec
INVARIANTS TypeOK SendBound
PROPERTY FollowsLifecycle
CHECK_DEADLOCK FALSE
