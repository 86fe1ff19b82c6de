SPECIFICATION Spec
CONSTANTS
    Calls = {c1, c2, c3}
    Lineages = {l1, l2}
    Inputs = {i1, i2}
    Workers = {w1}
    Scanners = {s1}
    None = None
SYMMETRY Symmetric
INVARIANTS
    LiveApprovalIsCurrent
    EffectHasApproval
    

    
    
CHECK_DEADLOCK FALSE
