\* Three timestamps are enough for a late refresh to break the promise.
SPECIFICATION LateSpec
CONSTANTS
    Items = {meter}
    Item = meter
    Energies = {0}
    Timestamps = {0, 1, 2}
    MaxElapsed = 2
    None = None
    Unloaded = Unloaded
INVARIANTS
    PublishedOnce
