SPECIFICATION Spec
CONSTANTS
    k1 = k1
    k2 = k2
    Identity = {k1, k2}
    None = None
    Ghost = Ghost
    SeqMax = 2
    IoFails = TRUE
    Mishaps = 1
INVARIANTS TypeOK RunsAsStored CounterAhead
PROPERTIES KeysSurvive WitnessKept
SYMMETRY Keys
