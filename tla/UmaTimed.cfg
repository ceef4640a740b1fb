CONSTANTS
    s1 = s1
    alice = alice
    bob = bob
    diary = diary
    notice = notice
    draft = draft
    interop = interop
    other = other
    None = None
    Session = {s1}
    Agent = {bob}
    Owner = {alice}
    Resource = {diary}
    Mode <- Modes
    Authorizer = {interop, other}
    Request <- NarrowRequest
    Grantable <- NarrowGrantable
    Public <- NarrowPublic
    Existing = {diary}
    PodOwner <- NarrowOwner
    TicketLife = 2
    TokenLife = 1
    BearerLife = 1
    MaxTokenAge = 2
    ColdCallers = 2
    MaxKids = 3
    MaxTime = 2
SPECIFICATION FairSpec
PROPERTIES
    ServedUnderLease
    EveryRequestAnswered
    ClientsAreServed
