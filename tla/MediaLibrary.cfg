SPECIFICATION Spec
CONSTANTS
    Assets = {a1, a2}
    Members = {m1, m2}
    Editors = {e1, e2}
    None = None
    MaxEdits = 2
    MaxFaults = 1
SYMMETRY Symmetry
INVARIANTS DeletedLeavesNoObject
PROPERTIES AvatarsSurvive ProfilesAreVersioned
CHECK_DEADLOCK FALSE
