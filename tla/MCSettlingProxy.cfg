SPECIFICATION SettlingFairSpec
CONSTANTS
    Action <- Bodies
    evaluatePolicy <- Policy
    TokenId = {t1}
    TTL = 1
    MaxTime = 0
    MaxSession = 1
    MaxPreviews = 1
    ForgedType = {"preview_generated"}
    SettlementId = {s1, s2}
    MaxExecutions = 2
INVARIANTS
    SettlementsAreAuthorised ExecutedWithinPolicy AuditExplainsExecution SessionStoresAgree
PROPERTIES
    StartedIsCompleted
