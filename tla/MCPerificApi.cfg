\* Two packets, so that the meter's own can come second, after a packet of
\* another meter, of itself, or one that cannot be read; an age of one within
\* four instants reaches both edges of freshness.
SPECIFICATION Spec
CONSTANTS
    Items = {a, b}
    Energies = {0}
    Timestamps = {0, 1, 2, 3}
    Instants = {0, 1, 2, 3}
    MaxElapsed = 2
    MaxAge = 1
    MaxPackets = 2
    None = None
    Malformed = Malformed
INVARIANTS
    TypeOK
    OfferedCanBePolled
PROPERTIES
    PollIsOwnAndFresh
    StaleIsOwn
