\* Two requests of one account on two routes, two lines, one account and its claims, two
\* handlers of a login over two lines.
SPECIFICATION RunSpec
CONSTANTS
    None = None
    m1 = m1
    m2 = m2
    Reqs = {r1, r2}
    Models = {m1}
    Routes = {x1, x2}
    RiskSteps <- MCRiskSteps
    CoolTerms = {1}
    RetryDelays <- MCRetryDelays
    RiskSilent = 0
    Balances <- OneModel
    MaxTime = 2
    MaxGen = 2
    SoftLines = {"l1", "l2"}
    SoftWindow = 2
    RowWindow = 3
    CutWindow = 3
    Cooldown = 1
    TTL = 3
    Term = 2
    MinAttempts = 3
    MinFailures = 3
    MinRate = 50
    RowLimit = 2
    CutLimit = 2
    SoftTime = 6
    MaxSamples = 4
    MaxRestarts = 1
    ClaimAccounts = {"a1"}
    Tasks = {"t1"}
    Hands = {"h1"}
    Day = 4
    Target = 2
    Period = 2
    Long = 2
    Short = 1
    Plans = 1
    ClaimTime = 2
    MaxRuns = 2
    MaxEdits = 1
    LoginLines = {"l1", "l2"}
    LoginAddrs = {"u1", "u2"}
    Codes = {"c1", "c2"}
    Spared = {"l2"}
    MaxMoves = 1
    Imported <- TwoLines
SYMMETRY Symmetry
PROPERTIES SentenceServed RecoveredByProof SoftJustice ClaimsKeepTime LoginKept
CHECK_DEADLOCK FALSE
