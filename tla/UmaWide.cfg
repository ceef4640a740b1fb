CONSTANTS
    s1 = s1
    alice = alice
    bob = bob
    diary = diary
    notice = notice
    draft = draft
    interop = interop
    other = other
    None = None
    Session = {s1}
    Agent = {bob}
    Owner = {alice}
    Resource = {diary, notice, draft}
    Mode <- Modes
    Authorizer = {interop}
    Request <- WideRequest
    Grantable <- WideGrantable
    Public <- WidePublic
    Existing = {diary, notice}
    PodOwner <- WideOwner
    TicketLife = 1
    TokenLife = 2
    BearerLife = 1
    MaxTokenAge = 0
    ColdCallers = 1
    MaxKids = 1
    MaxTime = 1
SPECIFICATION Spec
INVARIANTS
    TypeOK
    TokensWithinChallenges
PROPERTY ServedUnderLease
