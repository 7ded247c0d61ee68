\* Two entries, and three tasks: the least that can starve one.
SPECIFICATION Spec
CONSTANTS
    Entries = {e1, e2}
    Samples = {s1}
    Tasks = {t1, t2, t3}
    None = None
    Unloaded = Unloaded
INVARIANTS
    OneInside
PROPERTIES
    ReturnedIsDurable
    ImplementsMap
    CallsEnd
