SPECIFICATION Spec
CONSTANTS
    u1 = u1
    o1 = o1
    o2 = o2
    o3 = o3
    monthly = monthly
    yearly = yearly
    t1 = t1
    t2 = t2
    User = {u1}
    Order = {o1}
    Plan = {monthly, yearly}
    Tx = {t1, t2}
    Buyer <- OneBuyer
    PlanOf <- AllMonthly
    Period <- Periods
    UserKind = {}
    Fault = {}
    Declining = {}
    BadEvent <- NoEvents
    Misdelivery <- NoEvents
    MaxTime = 1
SYMMETRY SlotSymmetry
INVARIANTS
    ActivatedAtMostOnce
CHECK_DEADLOCK FALSE
