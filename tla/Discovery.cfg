CONSTANTS
    c1 = c1
    c2 = c2
    alice = alice
    carol = carol
    bob = bob
    app = app
    regB1 = regB1
    regB2 = regB2
    regA = regA
    regC = regC
    None = None
    Call = {c1, c2}
    Owner = {alice, carol}
    Ask <- Requests
    Registries <- OwnRegistries
    Capacity = 1
SPECIFICATION FairSpec
INVARIANT TypeOK
PROPERTIES
    DiscoveredDuringCall
    RefusalsAreNoOlderThanTheAgent
    EveryDiscoveryReturns
