\* No faults and prompt answers; the agent may refuse a script, and two requests
\* cancel the same reservation.
CONSTANTS
    r1 = r1  r2 = r2  c1 = c1  c2 = c2
    None = None
    Res = {r1, r2}
    Scripted = {r1}
    Canceller = {c1, c2}
    Target <- TargetR1
    Groups <- GroupOfTwo
    MaxAttempts = 3
    SlowAgent = FALSE
    AgentMayReject = TRUE
    MaxFaults <- NoFaults
SPECIFICATION FairSpec
INVARIANTS AtMostOnceExecution OverMeansIdle KillConfirmed
PROPERTY CancelSettles
CHECK_DEADLOCK FALSE
