SPECIFICATION Spec
CONSTANTS
    Pods = {p1}
    Manifests = {m1}
    Boot = Boot
    Free = Free
    MaxLives = 2
CHECK_DEADLOCK FALSE
INVARIANT LedgerAlwaysValid
