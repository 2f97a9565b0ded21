SPECIFICATION LiveSpec
CONSTANTS
    Proc = {r1, r2}
    Kinds = {"joint", "separate", "silent"}
    MaxVersion = 3
    Faults = TRUE
    None = None
INVARIANTS TypeOK StaleIsExplained TouchesBelongToOpenTransactions
PROPERTY StalenessEnds
CHECK_DEADLOCK FALSE
