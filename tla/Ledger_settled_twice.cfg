SPECIFICATION Spec
CONSTANTS
    Procs = {"web", "cli"}
    Scanners = {"job"}
    Owners = {"owner"}
    Importers = {}
    ProcOf <- MCProcOf
    Markets = {m1}
    Bets = {b1}
    Fills = {}
    FillMarket <- MCFillMarket
    FillToken <- MCFillToken
    OwnerTokens = {"B"}
    OwnerResults = {"won", "void"}
    MaxFaults = 0
    None = None
PROPERTY SettledOnce
