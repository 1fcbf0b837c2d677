SPECIFICATION Applying
CONSTANTS
    f = f
    a = a
    b = b
    g = g
    Account = {f, a, b}
    Founder = f
    Currency = cur
    Fallback = old
    Ref = {g}
    GenesisRef = g
    NoKey = NoKey
    InitialCredit = 2
    TransferFee = 0
    MaxSupply = 0
    WindowMax = 3
    Threshold = 3
    MaxAccounts = 3
    BalanceMax = 20
    BatchMax = 4
    Batches <- MCBatches
    Windows <- MCWindows
INVARIANTS OrderIrrelevant NothingLeftBehind CountsExact
CHECK_DEADLOCK FALSE
