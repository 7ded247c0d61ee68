\* Two of everything: two flows for one account, two accounts for one meter,
\* and a form submitted twice.
SPECIFICATION Spec
CONSTANTS
    Users = {u, v}
    Items = {a, b}
    Entries = {d, e}
    Flows = {f, g}
    None = None
    MaxRequests = 2
SYMMETRY Symmetry
INVARIANTS
    TypeOK
    OneEntryPerMeter
    RightAccountSucceeds
    StoppedIsAskedFor
PROPERTIES
    EntryKeepsItsMeter
