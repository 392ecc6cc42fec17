\* The token pool has two configuration keys and two takers; the clock unit stands for
\* about 50 s: TTL, Grace, IdleShrink and IdleStop keep the order they have in the code.
\* The other instances are in the module.
SPECIFICATION RunSpec
CONSTANTS
    Takers = {t1, t2}
    Keys = {k1, k2}
    Certs = {c1, c2}
    None = None
    Err = Err
    PoolMin = 1
    TTL = 1
    Grace = 1
    IdleShrink = 0
    IdleStop = 1
    PoolMax = 2
    EmptySolve = 2
    Factors = {25, 100}
    MaxTime = 2
    Solvers = {t1, t2, c3}
    MaxPools = 2
    MaxCalls = 3
    Processes = {p1, p2}
SYMMETRY Symmetry
INVARIANTS TokensSound OwnAnswer OnlyWholeBinaries
PROPERTIES DeepIdleStopsMinting PoolsServe ProbedFairly
CHECK_DEADLOCK FALSE
