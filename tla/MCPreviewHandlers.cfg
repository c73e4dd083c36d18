SPECIFICATION Spec
CONSTANTS
    Words = Words
    Empty = Empty
    Absent = Absent
    NaN = NaN
    Production = {"production-db"}
    GoldVault = {"gold:vault_1"}
    Sharing = {"drive.share_external", "share_external"}
    DottedSharing = {"drive.share_external"}
    Action <- AllBodies
    Worker = {w1, w2}
    Traffic <- AllTraffic
    MaxAttempts = 4
SYMMETRY Symmetry
INVARIANTS
    TypeOK ServersAgree LimitsAgree DenialsLookDangerous
PROPERTIES
    AskingAgainNeverHelps
