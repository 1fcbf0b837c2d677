SPECIFICATION Spec
CONSTANTS
    f = f
    a = a
    b = b
    g = g
    Account = {f, a}
    Founder = f
    Currency = cur
    Fallback = old
    Ref = {g}
    GenesisRef = g
    NoKey = NoKey
    InitialCredit = 2
    TransferFee = 0
    MaxSupply = 0
    WindowMax = 3
    Threshold = 3
    MaxAccounts = 3
    BalanceMax = 20
    Amount = {1}
    SeqMax = 4
    HeldMax = 1
    PowerFails = TRUE
INVARIANTS TypeOK NoOverdraft ConfirmedIsPaid
PROPERTIES AckMeansReceived HeldIsAnswered
