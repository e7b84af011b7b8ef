SPECIFICATION LiveSpec
CONSTANTS
    m1 = m1
    m2 = m2
    Markets = {m1, m2}
    Rank <- MCRank
    Tokens = {"A"}
    Asks = {1}
    FirstKickoffs <- MCKickoffs
    BetMarkets = {m2}
    MaxTime = 3
    SettleAfter = 1
    Limit = 1
    MaxSamples = 1
    MaxMoves = 1
    MaxFaults = 1
    None = None
PROPERTY ResolvedGetsGraded
