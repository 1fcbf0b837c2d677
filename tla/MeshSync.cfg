SPECIFICATION Spec
CONSTANTS
    f = f
    a = a
    Node = {f, a}
    Founder = f
    Link <- Near
    SeqMax <- Few
    WindowMax = 3
    Threshold = 3
    PageSize = 1
    PagesMax = 1
    RingSize = 1
    QueueMax = 3
INVARIANT TypeOK
CHECK_DEADLOCK FALSE
PROPERTY Settles
