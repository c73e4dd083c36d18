SPECIFICATION Spec
CONSTANTS
    Order <- Orders
    ForReview <- ToReview
    Policies <- PolicyFiles
    Unreadable = Unreadable
    WellFormed = {"r1", "r2"}
    NoLimit = NoLimit
    Missing = Missing
    Words = Words
    Parts = 2
    DropsPerXrp = 10
    Day = 2
    ApprovalTTL = 1
    TokenTTL = 1
    MaxTime = 2
    MaxTokens = 2
    MaxRequests = 2
INVARIANTS
    TypeOK DailyLimitHolds TrailTellsFate AuthorityIsExplained ChargesFollowTheirOrder
PROPERTIES
    ApprovalsAreFinal ImplementsAuthority
