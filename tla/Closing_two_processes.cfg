SPECIFICATION Spec
CONSTANTS
    Scanners = {web, cli}
    Kickoffs = {1, 2}
    MaxTime = 2
    MaxScans = 3
    MaxMoves = 1
    MaxFaults = 1
    None = None
INVARIANTS TypeOK OneScanPerId
PROPERTIES PicksTheLatest SiblingNeverBackwards CapturesAgree
SYMMETRY MCSymmetry
