\* One unit for every limit, packets of up to two units ahead of the clock, and
\* a horizon just past the oldest date that a power on display may have.
SPECIFICATION ClockSpec
CONSTANTS
    Items = {meter}
    Item = meter
    Energies = {0, 1}
    Timestamps <- Dates
    Packets <- ImportPackets
    MaxElapsed = 2
    MaxAge = 1
    Ahead = 2
    Horizon = 6
    Interval = 1
    Timeout = 1
    SaveLimit = 1
    Unavailable = Unavailable
    None = None
    Unloaded = Unloaded
INVARIANTS
    FreshOnDisplay
    WrittenIsCurrent
    AheadIsBounded
PROPERTIES
    Recovers
