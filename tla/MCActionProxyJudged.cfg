SPECIFICATION Spec
CONSTANTS
    Action <- MixedLoans
    evaluatePolicy <- MixedPolicy
    TokenId = {t1}
    TTL = 1
    MaxTime = 1
    MaxSession = 1
    MaxPreviews = 1
    ForgedType = {"preview_generated"}
INVARIANT
    ExecutedWasJudged
