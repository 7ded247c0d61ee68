\* Two values per counter and six timestamps: samples inside and outside a
\* window of three, before and after a reset, with and without numbers.
SPECIFICATION Spec
CONSTANTS
    Items = {meter, other}
    meter = meter
    other = other
    Item = meter
    Counts = {0, 1}
    Instants = {0, 1, 2, 3, 4, 5}
    Given <- GivenSamples
    Window = 3
    NaN = NaN
    Infinity = Infinity
    Malformed = Malformed
    OtherKeys = OtherKeys
    None = None
INVARIANTS
    RestartKeepsBaseline
    NumbersComeBack
