CONSTANTS
    p = p
    q = q
    c = c
    d = d
    None = None
    Own = Own
    Peer = {p, q}
    Code = {c, d}
    FieldMax = 1
    Window = 1
    QueueMax = 2
    FoundMax = 2
SPECIFICATION Spec
VIEW Live
SYMMETRY Alike
ACTION_CONSTRAINT PeersLater
INVARIANTS TypeOK
PROPERTIES HonestMessage CreditedIsShown JoinedIsAsked ResetDeliberate
CHECK_DEADLOCK FALSE
