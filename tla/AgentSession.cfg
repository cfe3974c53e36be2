\* Two connections, one approval, a failed transaction and a crash.
CONSTANTS
    c1 = c1  c2 = c2  c3 = c3  a1 = a1  a2 = a2
    None = None
    Conn = {c1, c2}
    Admin = {a1}
    MaxFaults <- OneOfEach
SPECIFICATION Spec
SYMMETRY Symmetry
INVARIANTS TypeOK PoolIsCurrent ContextDelivered
CHECK_DEADLOCK FALSE
