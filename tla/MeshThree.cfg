SPECIFICATION Spec
CONSTANTS
    f = f
    a = a
    b = b
    g = g
    Account = {f, a, b}
    Founder = f
    Currency = cur
    Fallback = old
    Ref = {g}
    GenesisRef = g
    NoKey = NoKey
    InitialCredit = 3
    TransferFee = 1
    MaxSupply = 12
    WindowMax = 4
    Threshold = 3
    MaxAccounts = 3
    BalanceMax = 20
    Amount = {2}
    SeqMax = 2
    FlashFails = FALSE
    PowerFails = FALSE
INVARIANTS CountedOnce BooksBalance
CHECK_DEADLOCK FALSE
SYMMETRY Members
VIEW RamView
ACTION_CONSTRAINT HandlersTakeTurns
