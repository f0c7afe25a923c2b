CONSTANTS
    p1 = p1
    p2 = p2
    u1 = u1
    u2 = u2
    NoUser = NoUser
    Pages = {p1, p2}
    Users = {u1, u2}
    UserOf <- OnePageEach
    Slots = {1}
    MaxRequests = 2
    Hasty = FALSE
    Punctual = TRUE
SPECIFICATION FairOperatorSpec
PROPERTIES
    ImplementsLock
    OneGivesUp
    LoneOperatorHolds
