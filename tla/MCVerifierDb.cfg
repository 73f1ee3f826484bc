CONSTANTS
    Ids = {u1, u2}
    Creds = {c1, c2}
    Txns = {t1, t2}
    Old = {v1, v2}
SPECIFICATION Spec
SYMMETRY Symmetry
CHECK_DEADLOCK FALSE
INVARIANTS TypeOK KeysUnique ReadsWholeVerification
PROPERTY ImplementsStore
