SPECIFICATION Spec
CONSTANTS
    Calls = {keyed, plain, read}
    Workers = {w1, w2}
    Requests = {r1}
    Committing = {keyed, plain}
    Keyed = {keyed}
    NoAdapter = {read}
    MaxRecoveries = 1
    None = None
SYMMETRY Symmetric
INVARIANTS
    SentOncePerLease
    RunnableIsUnfinished
    SuccessIsEarned
    MigrationIsBlocked
CHECK_DEADLOCK FALSE
