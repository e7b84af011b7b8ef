SPECIFICATION Spec
CONSTANTS
    Scanners = {web}
    Kickoffs = {1, 2}
    MaxTime = 2
    MaxScans = 2
    MaxMoves = 0
    MaxFaults = 0
    None = None
INVARIANT NothingFetchedAfterStart
