SPECIFICATION Spec
CONSTANTS
    Transactions = {t1, t2}
    Kinds = {"approve", "expire"}
    None = None
INVARIANTS NoCircle
CHECK_DEADLOCK FALSE
