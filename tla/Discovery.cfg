SPECIFICATION Spec
CONSTANTS
    n1 = n1
    n2 = n2
    n3 = n3
    x = x
    Node = {n1, n2, n3}
    Neighbours <- Line
    KnownBefore <- Before
    RingSize = 3
    KnownMax = 2
    ReplyMax = 2
    HopMax = 2
    BootCount = 1
    TroubleMax = 1
    RestartMax = 1
INVARIANTS TypeOK CooldownKept Met
CHECK_DEADLOCK FALSE
