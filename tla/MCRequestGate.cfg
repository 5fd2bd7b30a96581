SPECIFICATION Spec
CONSTANTS
    s1 = s1
    s2 = s2
    Slots <- MCSlots
    Requests <- MCRequests
    Keys <- MCKeys
    Actors <- MCActors
    System = "system"
    Limit = 2
    Window = 2
    Second = 2
    MaxBytes = 1
    MaxClock = 5
    MaxAdmitted = 3
    None = None
SYMMETRY MCSymmetry
INVARIANTS
    WindowBound
    RetryAfterSuffices
    HandledAsCleared
CHECK_DEADLOCK FALSE
