SPECIFICATION Spec
CONSTANTS
    Worker = {w1, w2}
    Action <- SameId
    evaluate_policy <- SameIdPolicy
    TokenId = {t1}
    MaxAttempts = 1
SYMMETRY Threads
INVARIANT
    OneTimeToken
