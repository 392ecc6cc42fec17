\* Stop during Start.
SPECIFICATION Spec
CONSTANTS
    Slots = {s1}
    Reqs = {r1}
    MaxGen = 2
    None = None
INVARIANT RestartableAfterStop
CHECK_DEADLOCK FALSE
