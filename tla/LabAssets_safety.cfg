SPECIFICATION Spec
CONSTANTS
    Assets = {a1}
    Platforms = {p1, p2}
    Members = {m1, m2}
    Managers = {m1}
    Conditions = {"normal", "retired"}
    None = None
    MaxRevision = 4
    MaxRequests = 2
SYMMETRY Symmetry
INVARIANTS IdleIsFree
PROPERTIES ImplementsVersionedStore CompletedInventoryIsFinal
CHECK_DEADLOCK FALSE
