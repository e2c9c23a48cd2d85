SPECIFICATION FairSpec
CONSTANTS
    p = p  q = q  None = None
    Polls = {p, q}
    Opens <- AllPages
    Closable = {p}
    MaxSockets = 2
    MaxVotes <- VotesOnP
    MaxMoves = 1
    MaxAttempts = 1
    MaxBatch = 2
    Reached = {"results", "votes"}
INVARIANTS
    TypeOK
    FollowsItsPoll
    LiveMeansOpen
    DrainedIsCurrent
    VotedMeansStored
PROPERTIES
    ResultsOfThisPoll
    Settles
    WaitingEnds
