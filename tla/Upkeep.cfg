\* Two callers and two queries, two lines in batches of one; the other instances are in
\* the module.
SPECIFICATION RunSpec
CONSTANTS
    Callers = {c1, c2}
    MaxQueries = 2
    MaxIdentity = 2
    None = None
    HealthLines = {"l1", "l2"}
    Direct = "direct"
    Addresses = {"a", "b"}
    Rank <- HealthRank
    Group <- HealthGroup
    PerRound = 1
    HintLimit = 1
    MaxMoves = 2
PROPERTIES AnswersTheCall DeletedOnProof NobodyForgotten
CHECK_DEADLOCK FALSE
