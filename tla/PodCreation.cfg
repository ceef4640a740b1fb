CONSTANTS
    c1 = c1
    c2 = c2
    c3 = c3
    p1 = p1
    w1 = w1
    w2 = w2
    Edited = Edited
    None = None
    Creator = {c1, c2, c3}
    Pod = {p1}
    WebId = {w1, w2}
    Length = 3
SPECIFICATION Spec
SYMMETRY Symmetry
INVARIANTS
    TypeOK
    MixedPodsWereContended
PROPERTIES
    ExistingPodsAreKept
    SuccessIsWhole
