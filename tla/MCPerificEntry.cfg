\* One import counter that can be reset, four timestamps and a window of two:
\* enough for a baseline, a reading, a gap, a candidate and its confirmation.
SPECIFICATION Spec
CONSTANTS
    Items = {meter}
    Item = meter
    Energies = {0, 1}
    Timestamps = {0, 1, 2, 3}
    MaxElapsed = 2
    None = None
    Unloaded = Unloaded
INVARIANTS
    TypeOK
    PublishedOnce
    DurableBeforeShown
    StoredBaseline
    ShownIsHeld
    RemovedForGood
PROPERTY KeepsPromise
