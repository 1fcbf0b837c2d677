SPECIFICATION PushSpec
CONSTANTS
    f = f
    a = a
    Node = {f, a}
    Founder = f
    Link <- Near
    SeqMax <- One
    WindowMax = 3
    Threshold = 2
    PageSize = 1
    PagesMax = 1
    RingSize = 1
    QueueMax = 3
PROPERTY CatchUp
CHECK_DEADLOCK FALSE
