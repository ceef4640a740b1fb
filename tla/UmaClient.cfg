CONSTANTS
    c1 = c1
    c2 = c2
    k1 = k1
    k2 = k2
    None = None
    Call = {c1, c2}
    Kid = {k1, k2}
    MemoTime = 1
    Cooldown = 1
    MaxTime = 3
SPECIFICATION Spec
SYMMETRY Symmetry
INVARIANT TypeOK
PROPERTIES
    RefusalsAreBrief
    TicketsComeBack
    LostKeysAreForgotten
