\* A result that arrives while the request times out.
SPECIFICATION Spec
CONSTANTS
    Slots = {s1}
    Reqs = {r1}
    MaxGen = 2
    None = None
INVARIANT TimeoutReplacesWorker
CHECK_DEADLOCK FALSE
