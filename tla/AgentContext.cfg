\* Two keys, one profile to switch to, the kill switch; two requests and two
\* connections that may overlap; one transaction may fail.
CONSTANTS
    Key <- Keys
    Profile <- Profiles
    Preset <- Presets
    Settable <- MayKill
    Edit <- Edits
    Cap = {kill}
    MaxFaults = 1
    Request = {w1, w2}
    Connection = {h1, h2}
    None = None
SPECIFICATION Spec
SYMMETRY Symmetry
INVARIANTS TypeOK InStep
PROPERTIES FollowsFeed
CHECK_DEADLOCK FALSE
