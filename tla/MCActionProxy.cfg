SPECIFICATION Spec
CONSTANTS
    Action <- Requests
    evaluatePolicy <- RequestsPolicy
    TokenId = {t1, t2}
    TTL = 1
    MaxTime = 2
    MaxSession = 1
    MaxPreviews = 1
    ForgedType = {"preview_generated"}
SYMMETRY Symmetry
INVARIANTS
    TypeOK SingleUse ExecutedAsIssued ExecutedInLifetime
PROPERTIES
    TokenSpentByItsExecution ImplementsAuthority
