\* Two generations of one slot, two requests: slots outlive their generation.  The
\* other instances are in the module.
SPECIFICATION RunSpec
CONSTANTS
    Slots = {s1}
    Reqs = {r1, r2}
    MaxGen = 2
    None = None
    Err = Err
INVARIANTS SlotOnce NoSlotLost
PROPERTIES StartedAllReady NothingHangs
CHECK_DEADLOCK FALSE
