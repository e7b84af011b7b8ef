SPECIFICATION Spec
CONSTANTS
    m1 = m1
    m2 = m2
    Markets = {m1}
    Rank <- MCRank
    Tokens = {"A", "B"}
    Asks = {1, 2}
    FirstKickoffs <- MCKickoffs
    BetMarkets = {m1}
    MaxTime = 3
    SettleAfter = 1
    Limit = 1
    MaxSamples = 3
    MaxMoves = 1
    MaxFaults = 0
    None = None
INVARIANT GradedHasClosing
