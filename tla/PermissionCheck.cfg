CONSTANTS
    diary = diary
    notes = notes
    Group <- Groups
    Mode <- Modes
    Path = {diary, notes}
    NoPath = NoPath
    Order <- Orders
    Answer <- Answers
    MaxReaders = 2
SPECIFICATION Spec
CHECK_DEADLOCK FALSE
INVARIANTS
    TypeOK
    CombinedByRule
    OutcomeFollowsAnswers
    ForeignTicketIsWorthless
