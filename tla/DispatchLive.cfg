\* Liveness: a drop (perhaps for good), a crash and an agent restart.
CONSTANTS
    r1 = r1  r2 = r2  c1 = c1  c2 = c2
    None = None
    Res = {r1}
    Scripted = {r1}
    Canceller = {c1}
    Target <- TargetR1
    Groups <- NoGroups
    MaxAttempts = 2
    SlowAgent = FALSE
    AgentMayReject = FALSE
    MaxFaults <- LiveFaults
SPECIFICATION FairSpec
PROPERTIES DispatchResolves CancelSettles
CHECK_DEADLOCK FALSE
