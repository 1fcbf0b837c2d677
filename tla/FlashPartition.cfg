SPECIFICATION PSpec
CONSTANTS
    Value = {x, y}
    NoValue = none
    Currency = {c, d}
    NoCurrency = nobody
    Blank = blank
    GenMax = 3
    InterruptMax = 2
INVARIANTS SlotInv SavedIsLoaded FirstCutHarmless
PROPERTIES IsSafeCell
CHECK_DEADLOCK FALSE
