SPECIFICATION Spec
CONSTANTS
    a1 = a1
    a2 = a2
    b2 = b2
    c1 = c1
    d1 = d1
    e1 = e1
    Core = Core
    Radio = Radio
    Sender = {Core, Radio}
    Nobody = Nobody
    RxTask = RxTask
    Silence = Silence
    Garbage = Garbage
    Noise = Noise
    Nothing = Nothing
    None = None
    n1 = n1
    n2 = n2
    n3 = n3
    Neighbour = {n1, n2, n3}
    Sent <- Sendings
    Own = {d1}
    Carries <- Contents
    LoraQueueMax = 1
    FaultMax = 1
    PoolSize = 2
    TickWidth = 16
    TickStart = {14}
    EspnowQueueMax = 1
    EventMax = 1
    RingSize = 2
    HopMax = 1
INVARIANTS TypeOK OneWholeEach IdleListens
PROPERTIES CutOnlyUnread PoolIsLru
CHECK_DEADLOCK FALSE
