\* Three contents, two concurrent requests, a table of two records that overflows; two
\* lines with a quarantine of one, two or three time units.  Two lines and four faults of
\* the strict rule, one account over two lines, a new account over two candidates.
SPECIFICATION RunSpec
CONSTANTS
    None = None
    Contents = {a, b, c}
    Lines = {l1, l2}
    Reqs = {r1, r2}
    TTL = 2
    MaxEntries = 2
    AllowOnce = TRUE
    Threshold = 2
    MinStreak = 2
    BaseTime = 1
    MaxQuarantine = 3
    JailTTL = 1
    RetireStrikes = 2
    MaxTime = 3
    MaxGen = 2
    StrictLines = {"l1", "l2"}
    MaxFaults = 4
    MaxDecisions = 3
    MaxLeases = 1
    BoundLines = {"l1", "l2"}
    Addrs = {"u1", "u2"}
    Accounts = {"a1"}
    Creds = {"c1", "c2"}
    Requests = {"r1"}
    Order <- MCOrder
    MaxOps = 2
    MaxRequests = 1
    Routes = {"d", "p", "q"}
    Default = "d"
    Users = {"u1", "u2"}
    Owner = "u1"
    MaxAttempts = 2
    MaxEdits = 1
    MaxCrashes = 1
    MaxPosts = 2
SYMMETRY Symmetry
INVARIANTS OncePerWindow
PROPERTIES LineJustice DecisionStands StaysOnItsLine DispatchIsCurrent ClaimedOnce
CHECK_DEADLOCK FALSE
