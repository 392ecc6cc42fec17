\* Three accounts of eight profiles for the selection; two requests over three accounts on
\* two lines, one of them exhausted; streams of up to seven events over two blocks.
SPECIFICATION RunSpec
CONSTANTS
    a1 = a1
    a2 = a2
    a3 = a3
    line1 = line1
    Direct = Direct
    None = None
    Order <- MCOrder
    Lines = {Direct, line1}
    Profiles <- MCProfiles
    Models = {"", "glm"}
    Pool = {"e1", "e2", "e3"}
    Jwt = {"e1"}
    Empty = {"e3"}
    Line <- MCLine
    MaxAttempts = 2
    MaxCaptcha = 2
    MaxBusy = 1
    MaxRate = 1
    MaxOverload = 0
    MaxTimeouts = 1
    BusySwitchAfter = 0
    RiskLines = 2
    CoolOnFailure = FALSE
    MaxRounds = 2
    Indices = {0, 1}
    MaxEvents = 7
INVARIANTS ChoosesWell SharesLoad EveryRetryBooked ConvertedWhole
PROPERTIES KeepsPromise RetryAvoidsCut
CHECK_DEADLOCK FALSE
