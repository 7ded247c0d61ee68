\* Six minutes, a window of two and a meter that can be reset from the start:
\* packets before the reset, on it, inside the window after it and beyond.
SPECIFICATION FeedSpec
CONSTANTS
    Items = {meter}
    Item = meter
    Energies = {0, 1, 2, 3, 4, 5, 6, 7, 8, 9}
    Timestamps = {1, 2, 3, 4, 5, 6}
    MaxElapsed = 2
    None = None
    Start = 3
    MaxUse = 1
    MaxMinutes = 6
INVARIANTS
    TruePower
CHECK_DEADLOCK TRUE
