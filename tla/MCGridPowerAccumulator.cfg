\* Two counters of two values each, seven timestamps, a window of three: a
\* sample can be inside the window, outside it, repeated, older or foreign.
SPECIFICATION Spec
CONSTANTS
    Items = {meter, other}
    Energies = {0, 1}
    Timestamps = {0, 1, 2, 3, 4, 5, 6}
    MaxElapsed = 3
    None = None
INVARIANTS
    TypeOK
    CandidateInv
    ReadingInv
    PublishedOnce
PROPERTIES
    BaselineOnlyAdvances
    ResetNeedsTwoSamples
    RecoversWithinThree
