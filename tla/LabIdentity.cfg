\* An admin, a user who has not activated, a free name, one invite, two tokens,
\* two slugs; three requests that may overlap.
CONSTANTS
    a1 = a1  a2 = a2  l1 = l1
    User = {a1, a2, u1}
    Slug = {l1, l2}
    Invite = {i1}
    Token = {t1, t2}
    Request = {w1, w2, w3}
    None = None
    Founders <- SmallLab
SPECIFICATION Spec
SYMMETRY Symmetry
INVARIANTS TypeOK AdminRemains SingleLiveToken InviteStatusTells
CHECK_DEADLOCK FALSE
