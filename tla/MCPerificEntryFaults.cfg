\* Four timestamps: two that the late refresh may bring, and a newer one shown meanwhile.
SPECIFICATION FaultSpec
CONSTANTS
    Items = {meter}
    Item = meter
    Energies = {0}
    Timestamps = {0, 1, 2, 3}
    MaxElapsed = 2
    None = None
    Unloaded = Unloaded
INVARIANTS
    LateHarmsTwoWays
    OnlyLossHarms
