\* Liveness: two connections that may overlap and one approval.
CONSTANTS
    c1 = c1  c2 = c2  c3 = c3  a1 = a1  a2 = a2
    None = None
    Conn = {c1, c2}
    Admin = {a1}
    MaxFaults <- NoFaults
SPECIFICATION FairSpec
PROPERTY StatusConverges
CHECK_DEADLOCK FALSE
