SPECIFICATION Spec
CONSTANTS
    u1 = u1
    o1 = o1
    o2 = o2
    o3 = o3
    monthly = monthly
    yearly = yearly
    t1 = t1
    t2 = t2
    User = {u1}
    Order = {o1, o2, o3}
    Plan = {monthly, yearly}
    Tx = {t1}
    Buyer <- OneBuyer
    PlanOf <- MixedPlans
    Period <- Periods
    UserKind = {"entitlements"}
    Fault = {}
    Declining = {o1}
    BadEvent <- NoEvents
    Misdelivery <- NoEvents
    MaxTime = 3
INVARIANTS
    PaidOrderHasSubscription
    NoUnpaidTime
    OneRunningRow
    NoPaidTimeLost
    PlanFollowsSubscription
PROPERTIES
    LedgerOnceSpec
CHECK_DEADLOCK FALSE
