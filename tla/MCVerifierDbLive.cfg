CONSTANTS
    Ids = {u1, u2}
    Creds = {c1, c2}
    Txns = {t1, t2}
    Old = {v1, v2}
SPECIFICATION FullSpec
CHECK_DEADLOCK FALSE
PROPERTY EveryTransactionEnds
