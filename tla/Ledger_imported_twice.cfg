SPECIFICATION Spec
CONSTANTS
    Procs = {"web", "cli"}
    Scanners = {"job"}
    Owners = {}
    Importers = {"cliimport"}
    ProcOf <- MCProcOf
    Markets = {m1}
    Bets = {b1, b2}
    Fills = {f1}
    FillMarket <- MCFillMarket
    FillToken <- MCFillToken
    OwnerTokens = {"B"}
    OwnerResults = {}
    MaxFaults = 0
    None = None
INVARIANT ImportedOnce
