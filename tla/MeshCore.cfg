SPECIFICATION Spec
CONSTANTS
    f = f
    a = a
    b = b
    g = g
    Account = {f, a}
    Founder = f
    Currency = cur
    Fallback = old
    Ref = {g}
    GenesisRef = g
    NoKey = NoKey
    InitialCredit = 2
    TransferFee = 0
    MaxSupply = 0
    WindowMax = 4
    Threshold = 3
    MaxAccounts = 2
    BalanceMax = 20
    Amount = {1}
    SeqMax = 3
    FlashFails = FALSE
    PowerFails = TRUE
INVARIANTS TypeOK HorizonClean OneCheckpointPerGeneration CountedOnce MembersCountedOnce
