SPECIFICATION LiveSpec
CONSTANTS
    Procs = {"web", "cli"}
    Scanners = {"job"}
    Owners = {"owner"}
    Importers = {"cliimport"}
    ProcOf <- MCProcOf
    Markets = {m1}
    Bets = {b1, b2}
    Fills = {f1}
    FillMarket <- MCFillMarket
    FillToken <- MCFillToken
    OwnerTokens = {"B"}
    OwnerResults = {"void"}
    MaxFaults = 1
    None = None
PROPERTY StartedBetsGetClosing
