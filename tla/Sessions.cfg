SPECIFICATION Spec
CONSTANTS
    t1 = t1
    t2 = t2
    Tx = {t1, t2}
    Overlap = FALSE
    MaxTokens = 3
    MaxRevokes = 2
SYMMETRY SlotSymmetry
INVARIANTS
    AcceptedSignInIsCurrent
    OldPasswordOpensNothing
    RotatedIsRefused
