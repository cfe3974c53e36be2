\* One user, one key, one account; a link request may be pending at the start.
\* Three requests that may overlap.
CONSTANTS
    u1 = u1  a1 = a1  w1 = w1  w2 = w2  w3 = w3
    User = {u1}
    Account = {a1}
    Key <- OneKey
    Owner <- OneOwner
    Backlog <- OnePending
    Request = {w1, w2, w3}
    NoOne = NoOne
    MaxLinks = 2
    MaxRequests = 2
    MaxChallenges = 1
SPECIFICATION Spec
SYMMETRY Symmetry
INVARIANTS TypeOK LinkIsProven PushedIsTracked
PROPERTIES DecisionIsFinal
CHECK_DEADLOCK FALSE
