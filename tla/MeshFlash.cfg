SPECIFICATION Spec
CONSTANTS
    f = f
    a = a
    b = b
    g = g
    Account = {f, a}
    Founder = f
    Currency = cur
    Fallback = old
    Ref = {g}
    GenesisRef = g
    NoKey = NoKey
    InitialCredit = 1
    TransferFee = 0
    MaxSupply = 0
    WindowMax = 3
    Threshold = 3
    MaxAccounts = 2
    BalanceMax = 20
    Amount = {1}
    SeqMax = 2
    FlashFails = TRUE
    PowerFails = TRUE
INVARIANTS SeqNeverReused
ACTION_CONSTRAINT HandlersTakeTurns
CONSTRAINT JoinFirst
