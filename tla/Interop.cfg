CONSTANTS
    c1 = c1
    c2 = c2
    alice = alice
    carol = carol
    bob = bob
    app = app
    regB = regB
    regA = regA
    grant1 = grant1
    grant2 = grant2
    data1 = data1
    data2 = data2
    reg = reg
    note = note
    None = None
    Call = {c1, c2}
    Owner = {alice, carol}
    Ask <- Questions
    Registries <- OwnRegistries
    Strategies <- Configured
    Capacity = 1
SPECIFICATION Spec
SYMMETRY Symmetry
INVARIANTS
    TypeOK
    GrantedDuringCall
    QuietCallIsExact
PROPERTY ConsultedAtOnce
