CONSTANTS
    Ids = {u1, u2}
    Creds = {c1, c2}
    Txns = {t1}
    Old = {v1}
SPECIFICATION Spec
CHECK_DEADLOCK FALSE
PROPERTY KeepsCredentialOfUser
