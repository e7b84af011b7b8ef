SPECIFICATION LiveSpec
CONSTANTS
    Procs = {"web", "cli"}
    Scanners = {"job", "cliscan"}
    Owners = {}
    Importers = {}
    ProcOf <- MCProcOf
    Markets = {m1}
    Bets = {b1, b2}
    Fills = {f1}
    FillMarket <- MCFillMarket
    FillToken <- MCFillToken
    OwnerTokens = {"B"}
    OwnerResults = {}
    MaxFaults = 1
    None = None
INVARIANTS TypeOK ImportedOnce ScansKeepApart SettledAsResolved
PROPERTIES KeepsPromises WriteLockReleased ResolvedBetsGetSettled
