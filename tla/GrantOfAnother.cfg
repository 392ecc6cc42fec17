SPECIFICATION Spec
CONSTANTS
    Lines = {d, p}
    Default = d
    Users = {u1, u2}
    Owner = u1
    MaxAttempts = 1
    MaxEdits = 3
    MaxFaults = 1
    MaxPosts = 2
INVARIANT ServesOnlyGranted
CHECK_DEADLOCK FALSE
