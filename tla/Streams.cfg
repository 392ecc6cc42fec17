\* One ticket with a channel of two events, two other requests, and Close; a delivery of two
\* attempts and five events.  The other instances are in the module.
SPECIFICATION RunSpec
CONSTANTS
    Tickets = {t1}
    Others = {o1, o2}
    QCap = 2
    None = None
    Accounts = {"j1", "j2", "k1"}
    Jwt = {"j1", "j2"}
    Line <- MCLine
    Direct = "direct"
    MaxRetries = 1
    MaxCaptcha = 2
    MaxTimeouts = 1
    MaxRate = 1
    MaxBusy = 0
    MaxOverload = 0
    RiskLines = 2
    MaxAttempts = 2
    MaxEvents = 5
    MaxPending = 3
INVARIANTS StatusTruth ClosedMeansQuiet BoundedAmplification OneStory NoHalfTool
PROPERTIES ClientSeesAll AnsweredOnce EmittedProtocol WorkEnds
CHECK_DEADLOCK FALSE
