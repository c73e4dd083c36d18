SPECIFICATION Spec
CONSTANTS
    gold = gold
    kgld = kgld
    garbled = garbled
    Call = {gold, kgld, garbled}
    Kgld = {kgld}
    Unreadable = {garbled}
    SettlementId = {s1, s2, s3}
CHECK_DEADLOCK FALSE
INVARIANT
    BlockedIsNotSettled
